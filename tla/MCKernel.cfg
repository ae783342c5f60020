CONSTANTS
    Lines = {0, 1, 11}
    Card = 11
    TaskNumbers <- MCTaskNumbers
    Beats = 2
    MaxTails = 1
SPECIFICATION Spec
INVARIANTS TypeOK OnlyTheClockNests OrphanHasACause
PROPERTIES LineIsServed
CHECK_DEADLOCK FALSE
