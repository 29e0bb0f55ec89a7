SPECIFICATION RulesSpec
CONSTANTS
    MaxInt = 127
    MaxCases = 2
    Templates <- MCTemplates
    Lists <- MCLists
    OrderBys <- MCOrderBys
    Queries <- MCQueries
    Writes <- MCWrites
    Results <- MCNestedResults
    Tables <- MCTables
    IntTexts <- MCIntTexts
    StringTexts <- MCStringTexts
    Catalog <- MCCatalog
    Lower <- MCLower
    Statements = {}
CHECK_DEADLOCK FALSE
INVARIANT NonNullIsNonNull
