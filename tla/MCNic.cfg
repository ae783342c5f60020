CONSTANTS
    RingSize = 3
    RowBytes = 8
    AlignBytes = 16
    FrameBytes = 64
    MaxArrivals = 4
    MaxSends = 1
SPECIFICATION Spec
INVARIANTS
    TypeOK HandledInOrder OnlyNewestIntact StrandedOnlyWhenLate
PROPERTIES SentReachesWire
CHECK_DEADLOCK FALSE
