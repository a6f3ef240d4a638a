\* Everything outside may go wrong: power cycles, other clients, lost replies, a
\* restart of bluetoothd, a connection that breaks.
CONSTANTS
    Retries = 2
    MaxQueue = 2
SPECIFICATION FairSpec
INVARIANTS
    TypeOK
    NotDeaf
    RestartOnlyWhenLost
    CalmStop
    ExitPending
PROPERTIES
    ServiceSpec
    Termination
    LossAnswered
