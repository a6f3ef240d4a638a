\* Outages of up to 21 s, at least 38 s apart: the worst that the limits bear.
CONSTANTS
    MaxOutage = 21
    MinUp = 38
SPECIFICATION FairSpec
INVARIANTS
    StaysUp
    RecoversSoon
PROPERTIES
    RidesOut
    ListensAgain
