\* One thread, one scrape: what is not a number where one belongs.
CONSTANTS
    Scrapers = {s1}
    MaxScrapes = 1
SPECIFICATION Spec
CHECK_DEADLOCK FALSE
INVARIANTS
    UnreadCounted
