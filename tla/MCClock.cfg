CONSTANTS
    Histories <- MCHistories
    Modes = {0, 2}
    Printed = {86, 171}
    MaxInterrupts = 2
SPECIFICATION Spec
INVARIANTS TimeWasShown DateWasShown
CHECK_DEADLOCK FALSE
