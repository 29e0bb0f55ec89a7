SPECIFICATION Spec
CONSTANTS
    q1 = q1
    q2 = q2
    s1 = s1
    s2 = s2
    s3 = s3
    schemaA = schemaA
    schemaB = schemaB
    schemaC = schemaC
    v1 = v1
    v2 = v2
    None = None
    Refs = {q1, q2}
    SQLs = {s1, s2}
    Malformed = {}
    Illegal = {}
    Expanded = {}
    Schemas = {schemaA}
    Unappliable = {}
    Blank = {}
    Outlying = {}
    Versions = {v1}
    Configs <- DsnConfigs
    Modes = {"check", "generate"}
    Consents = {TRUE}
    Drifts = {FALSE}
    Legacies = {FALSE}
    Flaky = FALSE
    Crashes = FALSE
    MaxEpoch = 3
    MaxEdits = 3
INVARIANT OneEpoch
