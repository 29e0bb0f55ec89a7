------------------------------ MODULE Pipeline ------------------------------
(***************************************************************************)
(* One project's `check` and `generate` runs over its committed tree       *)
(* (internal/cli/pipeline.go, with the stores and databases it drives:     *)
(* internal/cache, internal/devdb, serverdrift.go, cacheref.go,            *)
(* explainwrite.go, derivedfs.go).                                         *)
(*                                                                         *)
(* A run is a process that can stop anywhere.  It reads the schema and the *)
(* templates once, looks every rendering up in the committed cache, goes   *)
(* to a database only for what is missing, and in `generate` mode emits    *)
(* code and sweeps what no longer belongs to the tree.  Every file is      *)
(* written to a temporary name and renamed, so an action here is a stretch *)
(* of the program that performs at most one visible write.                 *)
(*                                                                         *)
(* Between runs the developer edits templates and schema, and the database *)
(* server may be replaced by another version.                              *)
(***************************************************************************)
EXTENDS Naturals, FiniteSets

CONSTANTS
    Refs,         \* names of renderings: target, query and shape
    SQLs,         \* rendered statements
    Malformed,    \* the statements the scan and the catalog-free checks refuse
    Illegal,      \* the statements the catalog-dependent checks refuse
    Expanded,     \* the renderings static_expansion.queries lists
    Schemas,      \* contents of the schema files
    Unappliable,  \* the schemas a database (or the native builder) refuses
    Blank,        \* the schemas of white space only
    Outlying,     \* the schemas that create objects the reset does not drop
    Versions,     \* server versions
    Configs,      \* the configurations the project may have
    Modes,        \* the commands the developer runs
    Consents,     \* the values --allow-destructive is given
    Drifts,       \* the values --allow-server-drift is given
    Legacies,     \* whether the tree may start with files of the old layout
    Flaky,        \* whether connections and statements may fail
    Crashes,      \* whether a run may be killed
    MaxEpoch,     \* bound: resets of a user-supplied database, then unreachable
    MaxEdits,     \* bound: edits and upgrades by the developer
    None          \* an absent file, record or rendering

\* database.dsn empty, database.dsn given, or the in-process native oracle.
Backends == {"container", "dsn", "native"}

ASSUME ConstantsAssumption ==
    /\ Malformed \subseteq SQLs /\ Illegal \subseteq SQLs
    /\ Expanded \subseteq Refs
    /\ Unappliable \subseteq Schemas /\ Blank \subseteq Schemas /\ Outlying \subseteq Schemas
    /\ Blank \cap (Unappliable \cup Outlying) = {}
    /\ \A c \in Configs : c.backend \in Backends
    /\ Modes \subseteq {"check", "generate", "exhaustive"}
    /\ Consents \subseteq BOOLEAN /\ Drifts \subseteq BOOLEAN /\ Legacies \subseteq BOOLEAN
    /\ Flaky \in BOOLEAN /\ Crashes \in BOOLEAN
    /\ MaxEpoch \in Nat /\ MaxEdits \in Nat
    /\ None \notin SQLs \cup Schemas \cup Versions

VARIABLES
    cfg,        \* sqletch.yaml: fixed
    schema,     \* the schema files
    templates,  \* the rendered SQL of every rendering the templates define
    version,    \* the version of the server a run would connect to
    edits,      \* how many edits the developer has made
    db,         \* the dev database: its epoch and what it holds
    tree,       \* the committed cache
    outputs,    \* generated code and derived output
    run,        \* the process: its options, program counter and locals
    before      \* history: the committed cache when the run started

dev == <<cfg, schema, templates, version, edits>>
vars == <<dev, db, tree, outputs, run, before>>

-----------------------------------------------------------------------------
(* Files.  An oracle entry stores its keys (the fingerprint and the SQL);  *)
(* epoch, ver and on are what the answering database was: the identities   *)
(* it handed out, its version and what it held.                            *)

Foreign == "foreign"  \* objects somebody else put into a user-supplied database
Cleared == "cleared"  \* nothing, or a schema applied in part

\* What a database holds: within the reach of the reset (PostgreSQL's schema
\* public, MySQL's base tables, SQLite's tables and views) one schema, and
\* beyond it (other PostgreSQL schemas, MySQL's views) objects of several.
Held == [main : Schemas \cup {Foreign, Cleared}, beyond : SUBSET (Schemas \cup {Foreign})]

\* What a database that held nothing holds once the schema fp is applied.
Whole(fp) == [main |-> IF fp \in Blank THEN Cleared ELSE fp, beyond |-> {fp} \cap Outlying]

Desc == [fp : Schemas, sql : SQLs, epoch : 0..MaxEpoch,
         ver : Versions \cup {None}, on : Held]
Catalog == [fp : Schemas, epoch : 0..MaxEpoch]
Env == [fp : Schemas, ver : Versions \cup {None}]
Emission == [fp : Schemas, sql : SQLs]

\* The absent file is no description, no catalog and no generated file.
ASSUME NoneAssumption == None \notin Desc \cup Catalog \cup Emission

Tree == [catalog : Catalog \cup {None}, env : Env \cup {None},
         entries : [Refs -> Desc \cup {None}], legacy : BOOLEAN]
Phases == {"idle", "acquire", "outlying", "apply", "admit", "snapshot", "describe",
           "resolve", "plan", "expand", "emit", "stale",
           "sweep", "explain"}
Outcomes == {"none", "ok", "failed", "refused", "crashed", "running"}

Outputs == [gen : [Refs -> Emission \cup {None}],
            expanded : [Refs -> Emission \cup {None}],
            explain : [Refs -> Emission \cup {None}]]
RunState ==
    [pc : Phases, outcome : Outcomes, mode : {"check", "generate", "exhaustive"},
     destructive : BOOLEAN, drift : BOOLEAN,
     fp : Schemas, scanned : [Refs -> SQLs \cup {None}],
     cat : Catalog \cup {None}, cold : BOOLEAN, adopted : BOOLEAN,
     connected : BOOLEAN, errors : BOOLEAN,
     descs : [Refs -> Desc \cup {None}], todo : SUBSET Refs]

Nowhere == [r \in Refs |-> None]
Live(t) == {r \in Refs : t[r] # None}

Fingerprint_CoversTemplates(s) == <<s, templates>>

\* The fingerprint stands for the schema it hashes; the dialect and the
\* pinned version it also covers belong to the fixed configuration.
Fingerprint(s) == s

\* LoadCatalog: a snapshot taken under another fingerprint is a miss.
LoadCatalog(fp) ==
    IF tree.catalog # None /\ tree.catalog.fp = fp THEN tree.catalog ELSE None

\* LoadOracle: the path only says where to look; both stored keys must match.
LoadOracle(r, fp, sql) ==
    LET e == tree.entries[r]
    IN  IF e # None /\ e.fp = fp /\ e.sql = sql THEN e ELSE None

\* LoadEnv: every way of having no usable record is "no record yet".
LoadEnv(fp) == IF tree.env # None /\ tree.env.fp = fp THEN tree.env ELSE None

-----------------------------------------------------------------------------
Init ==
    /\ cfg \in Configs
    /\ schema \in Schemas
    /\ templates \in [Refs -> SQLs]
    /\ version \in Versions
    /\ edits = 0
    /\ db = [epoch |-> 0, holds |-> [main |-> Foreign, beyond |-> {Foreign}]]
    /\ tree \in [catalog : {None}, env : {None}, entries : {Nowhere}, legacy : Legacies]
    /\ outputs = [gen |-> Nowhere, expanded |-> Nowhere, explain |-> Nowhere]
    /\ run = [pc |-> "idle", outcome |-> "none", mode |-> "check",
              destructive |-> FALSE, drift |-> FALSE,
              fp |-> schema, scanned |-> Nowhere, cat |-> None, cold |-> FALSE,
              adopted |-> FALSE, connected |-> FALSE, errors |-> FALSE,
              descs |-> Nowhere, todo |-> {}]
    /\ before = tree

(* The developer.  The server is only replaced between runs: a run's       *)
(* connection does not survive it.                                         *)

EditTemplate ==
    /\ edits < MaxEdits
    /\ \E r \in Refs, s \in SQLs \cup {None} :
          /\ s # templates[r]
          /\ templates' = [templates EXCEPT ![r] = s]
    /\ edits' = edits + 1
    /\ UNCHANGED <<cfg, schema, version, db, tree, outputs, run, before>>

EditSchema ==
    /\ edits < MaxEdits
    /\ schema' \in Schemas \ {schema}
    /\ edits' = edits + 1
    /\ UNCHANGED <<cfg, templates, version, db, tree, outputs, run, before>>

ReplaceServer ==
    /\ edits < MaxEdits
    /\ run.pc = "idle"
    /\ version' \in Versions \ {version}
    /\ edits' = edits + 1
    /\ UNCHANGED <<cfg, schema, templates, db, tree, outputs, run, before>>

-----------------------------------------------------------------------------
(* Leaving a run: `refused` before anything could be written, `failed`     *)
(* with diagnostics or an error, `ok` otherwise.                           *)

End(outcome) == run' = [run EXCEPT !.pc = "idle", !.outcome = outcome]
Goto(pc) == run' = [run EXCEPT !.pc = pc]

\* Scan: the schema and every template file are read here, once; then every
\* rendering is looked up.  With a catalog and no miss the run stays offline.
Begin(mode, destructive, drift) ==
    LET fp == Fingerprint(schema)
        cat == LoadCatalog(fp)
        descs == [r \in Refs |-> IF templates[r] = None THEN None
                                 ELSE LoadOracle(r, fp, templates[r])]
        misses == {r \in Live(templates) : descs[r] = None}
        cold == cat = None \/ misses # {}
        broken == \E r \in Live(templates) : templates[r] \in Malformed
    IN  run' = [pc |-> IF broken THEN "idle" ELSE IF cold THEN "acquire" ELSE "resolve",
                outcome |-> IF broken THEN "failed" ELSE "running",
                mode |-> mode, destructive |-> destructive, drift |-> drift,
                fp |-> fp, scanned |-> templates, cat |-> cat, cold |-> cold,
                adopted |-> FALSE, connected |-> FALSE, errors |-> FALSE,
                descs |-> descs, todo |-> misses]

Start ==
    /\ run.pc = "idle"
    /\ \E mode \in Modes, destructive \in Consents, drift \in Drifts :
          Begin(mode, destructive, drift)
    /\ before' = tree
    /\ UNCHANGED <<dev, db, tree, outputs>>

Crash ==
    /\ Crashes
    /\ run.pc # "idle"
    /\ End("crashed")
    /\ UNCHANGED <<dev, db, tree, outputs, before>>

-----------------------------------------------------------------------------
(* Acquiring the oracle.                                                   *)

GuardReset_AllowsExhaustive ==
    /\ cfg.backend = "dsn" /\ run.fp \notin Blank
    /\ ~run.destructive /\ run.mode # "exhaustive"

\* A user-supplied database is only reset on --allow-destructive.  A blank
\* schema resets nothing and is not asked; SQLite's `:memory:` starts empty
\* and has nothing to lose, like a container.
GuardReset == cfg.backend = "dsn" /\ run.fp \notin Blank /\ ~run.destructive

PinMismatch ==
    cfg.backend # "native" /\ cfg.pin # None /\ cfg.pin # version

\* Past its last reset the bounded database no longer answers.
Unreachable == cfg.backend = "dsn" /\ run.fp \notin Blank /\ db.epoch = MaxEpoch

AcquireRefused ==
    /\ run.pc = "acquire"
    /\ \/ Flaky /\ cfg.backend # "native"
       \/ Unreachable
       \/ PinMismatch
       \/ GuardReset
       \/ cfg.backend = "native" /\ run.fp \in Unappliable
    /\ End("refused")
    /\ UNCHANGED <<dev, db, tree, outputs, before>>

\* A container is a fresh database; a user-supplied one keeps what it holds
\* and hands out fresh identities for what is created after a reset.
Opened(reset) ==
    IF cfg.backend = "dsn"
    THEN [epoch |-> IF reset THEN db.epoch + 1 ELSE db.epoch,
          holds |-> IF reset THEN [db.holds EXCEPT !.main = Cleared] ELSE db.holds]
    ELSE [epoch |-> 0, holds |-> [main |-> Cleared, beyond |-> {}]]

Reset_ReusesSchema ==
    /\ run.pc = "acquire"
    /\ cfg.backend # "native"
    /\ run.fp \notin Blank
    /\ ~Unreachable /\ ~PinMismatch /\ ~GuardReset
    /\ IF db.holds.main \in Schemas
       THEN Goto("admit") /\ UNCHANGED db
       ELSE /\ Goto(IF run.fp \in Outlying THEN "outlying" ELSE "apply")
            /\ db' = Opened(TRUE)
    /\ UNCHANGED <<dev, tree, outputs, before>>

\* The reset drops what is within its reach: everything the schema creates
\* there is created anew, and what lies beyond stays.
Reset ==
    /\ run.pc = "acquire"
    /\ cfg.backend # "native"
    /\ run.fp \notin Blank
    /\ ~Unreachable /\ ~PinMismatch /\ ~GuardReset
    /\ db' = Opened(TRUE)
    /\ Goto(IF run.fp \in Outlying THEN "outlying" ELSE "apply")
    /\ UNCHANGED <<dev, tree, outputs, before>>

\* Without a schema there is neither guard nor reset: the statements are
\* described on whatever the database holds.
Unschemed ==
    /\ run.pc = "acquire"
    /\ cfg.backend # "native"
    /\ run.fp \in Blank
    /\ ~PinMismatch
    /\ db' = Opened(FALSE)
    /\ Goto("admit")
    /\ UNCHANGED <<dev, tree, outputs, before>>

\* The native oracle builds its catalog from the schema text in memory.
BuildNative ==
    /\ run.pc = "acquire"
    /\ cfg.backend = "native"
    /\ run.fp \notin Unappliable
    /\ db' = [epoch |-> 0, holds |-> Whole(run.fp)]
    /\ Goto("admit")
    /\ UNCHANGED <<dev, tree, outputs, before>>

\* Statements that create what the reset does not drop.  Where an earlier
\* run's objects are in the way the schema may replace them or, with IF NOT
\* EXISTS, keep them.
ApplyOutlying ==
    /\ run.pc = "outlying"
    /\ \E left \in (SUBSET (db.holds.beyond \cup {run.fp})) \ {{}} :
          db' = [db EXCEPT !.holds.beyond = left]
    /\ Goto("apply")
    /\ UNCHANGED <<dev, tree, outputs, before>>

ApplySchema ==
    /\ run.pc = "apply"
    /\ run.fp \notin Unappliable
    /\ db' = [db EXCEPT !.holds.main = run.fp]
    /\ Goto("admit")
    /\ UNCHANGED <<dev, tree, outputs, before>>

\* The server refuses a statement of the schema, or one that creates what is
\* already there.
ApplyFails ==
    /\ \/ run.pc \in {"outlying", "apply"} /\ (Flaky \/ run.fp \in Unappliable)
       \/ run.pc = "outlying" /\ db.holds.beyond # {}
    /\ End("refused")
    /\ UNCHANGED <<dev, db, tree, outputs, before>>

\* The version the run can record: the native oracle contacts no server.
Detected == IF cfg.backend = "native" THEN None ELSE version

\* serverDriftDiag: only a confirmed disagreement is a drift.
Drifted ==
    LET recorded == LoadEnv(run.fp)
    IN  /\ recorded # None
        /\ recorded.ver # None /\ Detected # None
        /\ recorded.ver # Detected

SaveEnv(t) == [t EXCEPT !.env = [fp |-> run.fp, ver |-> Detected]]

Admitted == run' = [run EXCEPT !.connected = TRUE,
                               !.pc = IF run.cold THEN "snapshot" ELSE "plan"]

Admit_SavesFirst ==
    /\ run.pc = "admit"
    /\ tree' = SaveEnv(tree)
    /\ IF cfg.link \/ (Drifted /\ ~run.drift) THEN End("refused") ELSE Admitted
    /\ UNCHANGED <<dev, db, outputs, before>>

Admit_KeepsRecord ==
    /\ run.pc = "admit"
    /\ ~Drifted \/ run.drift
    /\ ~cfg.link
    /\ tree' = IF tree.env = None THEN SaveEnv(tree) ELSE tree
    /\ Admitted
    /\ UNCHANGED <<dev, db, outputs, before>>

\* Drift and symlinks are refused before the first write, which is env.json.
Admit ==
    /\ run.pc = "admit"
    /\ ~Drifted \/ run.drift
    /\ ~cfg.link
    /\ tree' = SaveEnv(tree)
    /\ Admitted
    /\ UNCHANGED <<dev, db, outputs, before>>

AdmitRefused ==
    /\ run.pc = "admit"
    /\ (Drifted /\ ~run.drift) \/ cfg.link
    /\ End("refused")
    /\ UNCHANGED <<dev, db, tree, outputs, before>>

-----------------------------------------------------------------------------
(* Filling the misses.                                                     *)

Snapshot_KeepsHits ==
    /\ run.pc = "snapshot"
    /\ LET live == [fp |-> run.fp, epoch |-> db.epoch]
       IN  /\ tree' = [tree EXCEPT !.catalog = live]
           /\ run' = [run EXCEPT !.pc = "describe", !.cat = live,
                                 !.adopted = run.cat # live]
    /\ UNCHANGED <<dev, db, outputs, before>>

\* Committed hits are kept only under a catalog equal to the live one;
\* otherwise the snapshot is adopted and every rendering described again.
Snapshot ==
    /\ run.pc = "snapshot"
    /\ LET live == [fp |-> run.fp, epoch |-> db.epoch]
       IN  IF run.cat = live
           THEN Goto("describe") /\ UNCHANGED tree
           ELSE /\ tree' = [tree EXCEPT !.catalog = live]
                /\ run' = [run EXCEPT !.pc = "describe", !.cat = live,
                                      !.adopted = TRUE, !.todo = Live(run.scanned)]
    /\ UNCHANGED <<dev, db, outputs, before>>

SnapshotFails ==
    /\ Flaky
    /\ run.pc = "snapshot"
    /\ End("failed")
    /\ UNCHANGED <<dev, db, tree, outputs, before>>

DescOf(r) == [fp |-> run.fp, sql |-> run.scanned[r], epoch |-> db.epoch,
              ver |-> Detected, on |-> db.holds]

Describe ==
    /\ run.pc = "describe"
    /\ \E r \in run.todo :
          /\ run' = [run EXCEPT !.descs[r] = DescOf(r), !.todo = @ \ {r}]
          /\ tree' = [tree EXCEPT !.entries[r] = DescOf(r)]
    /\ UNCHANGED <<dev, db, outputs, before>>

DescribeFails_Silent ==
    /\ Flaky
    /\ run.pc = "describe"
    /\ \E r \in run.todo : run' = [run EXCEPT !.todo = @ \ {r}]
    /\ UNCHANGED <<dev, db, tree, outputs, before>>

DescribeFails_Retries ==
    /\ Flaky
    /\ run.pc = "describe"
    /\ \E r \in run.todo : run' = [run EXCEPT !.errors = ~@]
    /\ UNCHANGED <<dev, db, tree, outputs, before>>

\* A rejected rendering is a diagnostic; the loop goes on with the next miss.
DescribeFails ==
    /\ Flaky
    /\ run.pc = "describe"
    /\ \E r \in run.todo : run' = [run EXCEPT !.errors = TRUE, !.todo = @ \ {r}]
    /\ UNCHANGED <<dev, db, tree, outputs, before>>

Described ==
    /\ run.pc = "describe"
    /\ run.todo = {}
    /\ IF run.errors THEN End("failed") ELSE Goto("resolve")
    /\ UNCHANGED <<dev, db, tree, outputs, before>>

-----------------------------------------------------------------------------
(* The catalog-dependent checks and the exhaustive sweep of all shapes.    *)

Resolve ==
    /\ run.pc = "resolve"
    /\ IF \E r \in Live(run.scanned) : run.scanned[r] \in Illegal
       THEN End("failed")
       ELSE CASE run.mode = "check" -> End("ok")
              [] run.mode = "exhaustive" -> Goto(IF run.connected THEN "plan" ELSE "acquire")
              [] run.mode = "generate" ->
                    run' = [run EXCEPT !.pc = "expand",
                                       !.todo = Live(run.scanned) \cap Expanded]
    /\ UNCHANGED <<dev, db, tree, outputs, before>>

\* Every shape is described and planned against the database; nothing of it
\* is stored.  The acquired database is not compared with the catalog here.
Plan ==
    /\ run.pc = "plan"
    /\ \/ End("ok")
       \/ Flaky /\ End("failed")
    /\ UNCHANGED <<dev, db, tree, outputs, before>>

-----------------------------------------------------------------------------
(* Writing the outputs of `generate`.                                      *)

Emitted(r) == [fp |-> run.fp, sql |-> run.scanned[r]]

\* An expansion directory is removed whole and then written again; a symlink
\* in its path is a diagnostic and leaves it alone.
ExpandClear ==
    /\ run.pc = "expand"
    /\ \E r \in run.todo :
          /\ ~cfg.derivedLink
          /\ outputs.expanded[r] # None
          /\ outputs' = [outputs EXCEPT !.expanded[r] = None]
    /\ UNCHANGED <<dev, db, tree, run, before>>

ExpandWrite ==
    /\ run.pc = "expand"
    /\ \E r \in run.todo :
          /\ ~cfg.derivedLink
          /\ outputs.expanded[r] = None
          /\ outputs' = [outputs EXCEPT !.expanded[r] = Emitted(r)]
          /\ run' = [run EXCEPT !.todo = @ \ {r}]
    /\ UNCHANGED <<dev, db, tree, before>>

\* Nothing is emitted for any target unless every expansion succeeded.
ExpandDone ==
    /\ run.pc = "expand"
    /\ run.todo = {} \/ cfg.derivedLink
    /\ IF run.todo # {} THEN End("failed")
       ELSE run' = [run EXCEPT !.pc = "emit", !.todo = Live(run.scanned)]
    /\ UNCHANGED <<dev, db, tree, outputs, before>>

\* A file whose content is unchanged is skipped, to the same effect.
Emit ==
    /\ run.pc = "emit"
    /\ \E r \in run.todo :
          /\ outputs' = [outputs EXCEPT !.gen[r] = Emitted(r)]
          /\ run' = [run EXCEPT !.todo = @ \ {r}]
    /\ UNCHANGED <<dev, db, tree, before>>

EmitDone ==
    /\ run.pc = "emit"
    /\ run.todo = {}
    /\ run' = [run EXCEPT !.pc = "stale",
                          !.todo = IF cfg.outOutside THEN {}
                                   ELSE Live(outputs.gen) \ Live(run.scanned)]
    /\ UNCHANGED <<dev, db, tree, outputs, before>>

\* removeStaleGenerated, one file at a time; an output directory outside the
\* project is left alone.
RemoveStale ==
    /\ run.pc = "stale"
    /\ \E r \in run.todo :
          /\ outputs' = [outputs EXCEPT !.gen[r] = None]
          /\ run' = [run EXCEPT !.todo = @ \ {r}]
    /\ UNCHANGED <<dev, db, tree, before>>

Superseded_ByTemplate == {r \in Live(tree.entries) : templates[r] = None}

\* What Sweep deletes: the entries this run neither wrote nor hit.  The walk
\* does not enter a linked directory.
Superseded == IF cfg.link THEN {} ELSE Live(tree.entries) \ Live(run.scanned)

StaleDone ==
    /\ run.pc = "stale"
    /\ run.todo = {}
    /\ IF cfg.cacheOutside
       THEN /\ run' = [run EXCEPT !.pc = "explain", !.todo = Live(run.scanned)]
            /\ UNCHANGED tree
       ELSE /\ run' = [run EXCEPT !.pc = "sweep", !.todo = Superseded]
            /\ tree' = [tree EXCEPT !.legacy = FALSE]
    /\ UNCHANGED <<dev, db, outputs, before>>

SweepEntry ==
    /\ run.pc = "sweep"
    /\ \E r \in run.todo :
          /\ tree' = [tree EXCEPT !.entries[r] = None]
          /\ run' = [run EXCEPT !.todo = @ \ {r}]
    /\ UNCHANGED <<dev, db, outputs, before>>

SweepDone ==
    /\ run.pc = "sweep"
    /\ run.todo = {}
    /\ run' = [run EXCEPT !.pc = "explain", !.todo = Live(run.scanned)]
    /\ UNCHANGED <<dev, db, tree, outputs, before>>

\* Explain data is written last; a symlink on its way is a diagnostic, and by
\* then everything else of the run is on disk.
Explain ==
    /\ run.pc = "explain"
    /\ \E r \in run.todo :
          /\ outputs' = IF cfg.derivedLink THEN outputs
                        ELSE [outputs EXCEPT !.explain[r] = Emitted(r)]
          /\ run' = [run EXCEPT !.todo = @ \ {r}, !.errors = @ \/ cfg.derivedLink]
    /\ UNCHANGED <<dev, db, tree, before>>

ExplainDone ==
    /\ run.pc = "explain"
    /\ run.todo = {}
    /\ End(IF run.errors THEN "failed" ELSE "ok")
    /\ UNCHANGED <<dev, db, tree, outputs, before>>

-----------------------------------------------------------------------------
Developer == EditTemplate \/ EditSchema \/ ReplaceServer

Progress ==
    \/ AcquireRefused \/ Reset \/ Unschemed \/ BuildNative
    \/ ApplyOutlying \/ ApplySchema \/ ApplyFails
    \/ Admit \/ AdmitRefused
    \/ Snapshot \/ SnapshotFails \/ Describe \/ DescribeFails \/ Described
    \/ Resolve \/ Plan
    \/ ExpandClear \/ ExpandWrite \/ ExpandDone
    \/ Emit \/ EmitDone \/ RemoveStale \/ StaleDone
    \/ SweepEntry \/ SweepDone \/ Explain \/ ExplainDone

Next == Developer \/ Start \/ Crash \/ Progress

Spec == Init /\ [][Next]_vars

\* A started run keeps taking steps: it is sequential code that waits for
\* nothing but the database, whose calls return or fail.
FairSpec == Spec /\ WF_vars(Progress)

-----------------------------------------------------------------------------
(* Properties.                                                             *)

\* Every variable stays within its type.
TypeOK ==
    /\ cfg \in Configs /\ schema \in Schemas /\ version \in Versions
    /\ templates \in [Refs -> SQLs \cup {None}]
    /\ edits \in 0..MaxEdits
    /\ db \in [epoch : 0..MaxEpoch, holds : Held]
    /\ tree \in Tree /\ before \in Tree
    /\ outputs \in Outputs
    /\ run \in RunState

\* A run that was turned away (no connection, version pin, SQLETCH204 guard,
\* server drift, symlink in the cache) has not changed the committed cache,
\* env.json included, on the cold path and on the exhaustive one alike.
RefusedUntouched == run.outcome = "refused" => tree = before

\* After a successful run of any mode the committed cache answers everything
\* the run asked for: a second run over the same files stays offline.
SuccessIsWarm ==
    run.pc = "idle" /\ run.outcome = "ok" =>
        /\ LoadCatalog(run.fp) # None
        /\ \A r \in Live(run.scanned) : LoadOracle(r, run.fp, run.scanned[r]) # None

\* After a successful generate the tree is exactly the live set: no entry, no
\* legacy file and no generated file of anything else survives, and every
\* live rendering's code was emitted from the files the run read.
GenerateExact ==
    run.pc = "idle" /\ run.outcome = "ok" /\ run.mode = "generate" =>
        /\ ~cfg.cacheOutside => ~tree.legacy /\ Live(tree.entries) = Live(run.scanned)
        /\ ~cfg.outOutside => Live(outputs.gen) = Live(run.scanned)
        /\ \A r \in Live(run.scanned) :
              /\ outputs.gen[r] = Emitted(r)
              /\ outputs.explain[r] = Emitted(r)
              /\ r \in Expanded => outputs.expanded[r] = Emitted(r)

\* `check` fills misses but never deletes an entry or touches an output.
CheckKeepsFiles ==
    [][run.mode # "generate" =>
          /\ outputs' = outputs
          /\ tree'.legacy = tree.legacy
          /\ Live(tree.entries) \subseteq Live(tree'.entries)]_vars

\* Within the reset's reach every description was computed on the schema its
\* entry is keyed by and on nothing else, and on a database the run made
\* itself there was nothing of any other schema beyond the reach either,
\* whatever crashed before the reset, between the reset and the schema, or
\* after.  In a user-supplied database objects beyond the reach are earlier
\* ones as well, and a blank schema describes whatever that database holds.
DescribedOnOwnSchema ==
    \A r \in Live(tree.entries) :
       LET e == tree.entries[r]
       IN  /\ e.fp \notin Blank => e.on.main = e.fp
           /\ cfg.backend # "dsn" => e.on = Whole(e.fp)

Compiling == {"resolve", "plan", "expand", "emit", "stale", "sweep", "explain"}

\* A run that adopted a fresh snapshot compiles every rendering from
\* descriptions of that snapshot's epoch, never from a committed hit.
AdoptedEpoch ==
    run.pc \in Compiling /\ run.adopted =>
        \A r \in Live(run.scanned) :
           run.descs[r] # None /\ run.descs[r].epoch = run.cat.epoch

\* A user-supplied database changes only for a run started with
\* --allow-destructive that had a miss or was exhaustive.
ResetNeedsConsent ==
    [][cfg.backend = "dsn" /\ db' # db =>
          run.destructive /\ (run.cold \/ run.mode = "exhaustive")]_vars

\* Every entry is written beside a record of the server that typed it.
WrittenUnderRecord ==
    [][\A r \in Refs : tree'.entries[r] \notin {None, tree.entries[r]} =>
          LET e == tree'.entries[r]
          IN  tree'.env = [fp |-> e.fp, ver |-> e.ver]]_vars

\* Every run comes to an end.
RunEnds == run.pc # "idle" ~> run.pc = "idle"

\* "The catalog and every entry this run uses must come from ONE database
\* epoch": the comment over the snapshot comparison in Run, of every run.
OneEpoch ==
    run.pc \in Compiling =>
        \A r \in Live(run.scanned) :
           run.descs[r] # None => run.descs[r].epoch = run.cat.epoch
=============================================================================
