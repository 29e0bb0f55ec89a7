SPECIFICATION Spec
SYMMETRY RefSymmetry
CONSTANTS
    q1 = q1
    q2 = q2
    s1 = s1
    s2 = s2
    s3 = s3
    schemaA = schemaA
    schemaB = schemaB
    schemaC = schemaC
    v1 = v1
    v2 = v2
    None = None
    Refs = {q1, q2}
    SQLs = {s1, s2}
    Malformed = {s2}
    Illegal = {}
    Expanded = {}
    Schemas = {schemaA, schemaB, schemaC}
    Unappliable = {schemaB}
    Blank = {schemaC}
    Outlying = {schemaA, schemaB}
    Versions = {v1, v2}
    Configs <- ServerConfigs
    Modes = {"check", "exhaustive"}
    Consents = {TRUE, FALSE}
    Drifts = {TRUE, FALSE}
    Legacies = {FALSE}
    Flaky = FALSE
    Crashes = TRUE
    MaxEpoch = 2
    MaxEdits = 2
INVARIANT RefusedUntouched
PROPERTY ResetNeedsConsent
PROPERTY WrittenUnderRecord
INVARIANT TypeOK
INVARIANT AdoptedEpoch
INVARIANT DescribedOnOwnSchema
