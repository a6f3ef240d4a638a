\* What the Help texts say, on the kernel with the most columns.
CONSTANTS
    Kernels = {20}
    MaxLines = 3
SPECIFICATION Spec
INVARIANTS
    FieldsMatchHelp
