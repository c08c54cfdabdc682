SPECIFICATION Spec
CONSTANTS
    CPUs = {0, 1}
    Tables = {0, 1, 2, 3}
    Root = 0
    BitsPerLevel = 1
    MaxLevels = 2
    LeafLevels = {1, 2}
    UserPages = {0,1}
    Concurrent = FALSE
INVARIANTS
    FlushReported
    NoLeak
PROPERTY
    ImplementsMap
