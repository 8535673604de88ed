CONSTANTS
    MaxId = 5
    MaxSize = 3
    DefaultSize = 2
    Sizes <- MCSizes
SPECIFICATION Spec
INVARIANTS
    DeliveredOnce
    NothingSkipped
PROPERTIES
    TokenPromisesMore
    WalkEnds
