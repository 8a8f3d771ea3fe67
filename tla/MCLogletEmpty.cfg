CONSTANTS
    MAX = 4
    None = None
    r1 = r1
    Readers <- MC_Readers
    MaxAppends = 3
    MaxBatch = 2
SPECIFICATION Spec
INVARIANT EmptyAsDocumented
