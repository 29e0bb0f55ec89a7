SPECIFICATION WeaverSpec
CONSTANTS
    Clauses <- MCClauses
    JoinTexts <- MCJoins
    Compounds <- MCCompounds
    Statements <- MCStatements
    Policies <- MCPolicies
CHECK_DEADLOCK FALSE
INVARIANTS
    ClauseBinds
    JoinsScoped
    BranchesScoped
    PoliciesHold
    WeaveSettles
