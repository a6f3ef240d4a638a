\* Well-formed packets with every combination of edge values.
CONSTANTS
    Measurements5 <- Edges5
    Measurements3 <- Edges3
    Lengths = {14, 24}
    Headers = {5, 8}
    Beyond <- BeyondOne
SPECIFICATION Spec
CHECK_DEADLOCK FALSE
INVARIANTS
    TypeOK
    Reads5
    Flags5
    Strict5
    Reads3
