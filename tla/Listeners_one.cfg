\* One adapter that sees a tag and another device, well-formed; calls fail only for
\* lack of an object.
CONSTANTS
    Paths = {"hci0/t", "hci0/f"}
    Macs = {"t", "f"}
    MacOf <- OneAdapter
    Tags = {"t"}
    Contents = {"one"}
    CallsFail = FALSE
    MaxAdv = 2
    MaxQueue = 3
SPECIFICATION FairSpec
CHECK_DEADLOCK FALSE
INVARIANTS
    RuuviOnly
    Current
PROPERTIES
    FeedSpec
    AnnouncedHeard
    ForeignSilenced
