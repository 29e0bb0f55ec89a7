---------------------------- MODULE MCPipeline ----------------------------
(* Small instances of Pipeline.                                            *)
EXTENDS Pipeline, TLC

CONSTANTS q1, q2, s1, s2, s3, schemaA, schemaB, schemaC, v1, v2

\* No definition tells one rendering from another.
RefSymmetry == Permutations(Refs)

Plain(backend) ==
    [backend |-> backend, pin |-> None, link |-> FALSE, derivedLink |-> FALSE,
     cacheOutside |-> FALSE, outOutside |-> FALSE]

\* One configuration per way a run can be turned away or told to leave a
\* directory alone.
ServerConfigs ==
    {Plain("dsn"), [Plain("dsn") EXCEPT !.link = TRUE],
     [Plain("container") EXCEPT !.pin = v1, !.outOutside = TRUE],
     [Plain("native") EXCEPT !.link = TRUE]}
DsnConfigs == {Plain("dsn")}
LayoutConfigs ==
    {Plain("container"), [Plain("container") EXCEPT !.derivedLink = TRUE],
     [Plain("native") EXCEPT !.cacheOutside = TRUE]}
=============================================================================
