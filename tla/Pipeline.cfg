\* A tag and a relay, well-formed devices, calls fail only for lack of an object.
CONSTANTS
    Paths = {"hci0/t", "hci0/r"}
    Macs = {"t", "r"}
    MacOf <- OneAdapter
    Tags = {"t", "r"}
    Relayed = {"r"}
    Contents = {"one"}
    CallsFail = FALSE
    MaxAdv = 2
    MaxQueue = 2
    Scrapers = {"s"}
SPECIFICATION PipeFairSpec
CHECK_DEADLOCK FALSE
PROPERTIES
    EachScraperFed
    FreshScrapes
    Delivered
