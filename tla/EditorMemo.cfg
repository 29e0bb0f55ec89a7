SPECIFICATION Spec
CONSTANTS
    Order <- MCOrder
    File <- MCFile
    Glob <- MCGlob
    Target <- MCTarget
    Contents <- MCContents
    Start <- MCStart
    Schemas = {"s1", "s2"}
    MaxOpenDocs = 1
    MaxMemo = 2
    MaxShown = 2
    Races = {"files", "schema", "entries"}
    Panics = TRUE
    MaxWrites = 1
    None = None
    Locked = Locked
CHECK_DEADLOCK FALSE
INVARIANT ClearingIsSafe
