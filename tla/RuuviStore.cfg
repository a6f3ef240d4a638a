\* Two macs, two gauges, two measurements, two threads of the HTTP server.
CONSTANTS
    Gauges = 2
    Macs = {"a", "b"}
    Values = {1, 2}
    Scrapers = {"s1", "s2"}
    MaxCount = 2
SPECIFICATION Spec
INVARIANTS
    TypeOK
    WholeScrapes
PROPERTIES
    StoreSpec
    CountersGrow
