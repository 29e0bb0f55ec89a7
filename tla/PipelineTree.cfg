SPECIFICATION FairSpec
CONSTANTS
    q1 = q1
    q2 = q2
    s1 = s1
    s2 = s2
    s3 = s3
    schemaA = schemaA
    schemaB = schemaB
    schemaC = schemaC
    v1 = v1
    v2 = v2
    None = None
    Refs = {q1, q2}
    SQLs = {s1, s2, s3}
    Malformed = {}
    Illegal = {s3}
    Expanded = {q1}
    Schemas = {schemaA}
    Unappliable = {}
    Blank = {}
    Outlying = {}
    Versions = {v1}
    Configs <- LayoutConfigs
    Modes = {"check", "generate"}
    Consents = {FALSE}
    Drifts = {FALSE}
    Legacies = {TRUE}
    Flaky = TRUE
    Crashes = TRUE
    MaxEpoch = 0
    MaxEdits = 2
INVARIANT SuccessIsWarm
INVARIANT GenerateExact
PROPERTY RunEnds
