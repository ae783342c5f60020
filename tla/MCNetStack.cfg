CONSTANTS
    CacheSize = 2
    Macs = {m1}
    MaxStrays = 3
SPECIFICATION Spec
INVARIANTS
    TypeOK WildHasACause NoTableNamesTheDead
    AnswersNeedTheirLayers
PROPERTIES ResolveReturns
CHECK_DEADLOCK FALSE
