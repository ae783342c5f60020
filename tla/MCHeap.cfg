CONSTANTS
    HeaderSize = 1
    HeapStart = 1
    HeapSize = 11
    BootSize = 2
    Sizes <- MCSizes
    MaxAddress = 15
    MaxLater = 1
SPECIFICATION Spec
INVARIANTS TypeOK ListIsHeldThenFree
PROPERTIES Implements SearchReturns
