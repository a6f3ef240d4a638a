\* Every kernel, up to four disks and partitions.
CONSTANTS
    Kernels = {14, 18, 20}
    MaxLines = 4
SPECIFICATION Spec
INVARIANTS
    DistinctSamples
    Aligned
    WhichDisks
