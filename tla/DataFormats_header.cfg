\* Packets of Ruuvi's that the decoder's first two checks refuse.
CONSTANTS
    Measurements5 <- Plain5
    Measurements3 <- None
    Lengths = {14, 23, 24, 25}
    Headers = {3, 5, 8}
    Beyond <- BeyondBoth
SPECIFICATION Spec
CHECK_DEADLOCK FALSE
INVARIANTS
    HeaderErrorsFlagged
