CONSTANTS
    Programs <- MCPrograms
    InitialOF = {0, 3}
    MemorySize = 512
    MaxRuns = 3
SPECIFICATION Spec
INVARIANTS TypeOK RunIsRepeatable
PROPERTIES LoadReturns
CHECK_DEADLOCK FALSE
