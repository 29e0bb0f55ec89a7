SPECIFICATION RulesSpec
CONSTANTS
    MaxInt = 127
    MaxCases = 2
    Templates <- MCTemplates
    Lists <- MCLists
    OrderBys <- MCOrderBys
    Queries <- MCQueries
    Writes <- MCWrites
    Results <- MCResults
    Tables <- MCTables
    IntTexts <- MCIntTexts
    StringTexts <- MCStringTexts
    Catalog <- MCCatalog
    Lower <- MCLower
    Statements <- MCStatements
CHECK_DEADLOCK FALSE
INVARIANTS
    OneNodePerSlot
    OrderKeysFree
    ScopesHold
    TypesEverywhere
    NonNullThroughNesting
    LiteralsMeanTheSame
