SPECIFICATION FairSpec
CONSTANTS
    MaxPageSize = 5
    DefaultPageSize = 3
    IntLimit = 16
    MaxRows = 15
INVARIANTS
    PageInBounds
    SweepSeesAll
PROPERTY SweepEnds
CHECK_DEADLOCK FALSE
