CONSTANTS
    Disks <- MCDisks
    Debris <- MCDebris
    Typed <- MCTyped
    Words = 2
    Counts <- MCCounts
    NameLength = 3
    Cleared = 2
    MaxErrors = 1
    MaxCalls = 2
SPECIFICATION Spec
INVARIANTS TypeOK UnheardOnlyAfterWrite ExecRunsAlike PrintsFileAndStrays
PROPERTIES CommandReturns
CHECK_DEADLOCK FALSE
