SPECIFICATION Spec
CONSTANTS
    Templates <- MCTemplates
    Trees <- MCTrees
    MaxNodes = 6
    MaxDepth = 3
    MaxIndex = 7
    MaxSorts = 2
    Lens = {0, 1, 2, 7, 8}
CHECK_DEADLOCK FALSE
INVARIANTS
    Conforms
    SentAsIntended
    NothingAbsent
    ExpandedAgrees
    KeyDetermines
    ShapeNamesUnique
