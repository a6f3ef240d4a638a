\* A device seen through two adapters, objects with any number of entries, failing
\* calls.
CONSTANTS
    Paths = {"hci0/t", "hci0/f", "hci1/f"}
    Macs = {"t", "f"}
    MacOf <- TwoAdapters
    Tags = {"t"}
    Contents = {"none", "one", "two"}
    CallsFail = TRUE
    MaxAdv = 1
    MaxQueue = 1
SPECIFICATION Spec
CHECK_DEADLOCK FALSE
INVARIANTS
    TypeOK
    BlacklistHolds
    NoNullProxy
