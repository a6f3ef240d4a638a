\* Two threads of the HTTP server.
CONSTANTS
    Scrapers = {s1, s2}
    MaxScrapes = 2
SPECIFICATION Spec
CHECK_DEADLOCK FALSE
INVARIANTS
    TypeOK
    ErrorsCounted
    MissingReported
    GapsTold
PROPERTIES
    OwnErrorsShown
