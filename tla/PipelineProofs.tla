--------------------------- MODULE PipelineProofs ---------------------------
(***************************************************************************)
(* Proofs about Pipeline, for any set of renderings, statements, schemas,  *)
(* versions and configurations and any bounds.                             *)
(***************************************************************************)
EXTENDS Pipeline, TLAPS

\* Outside the two deletion loops a run only works through renderings that
\* the templates it read define.
Scoped == run.pc \notin {"idle", "stale", "sweep"} => run.todo \subseteq Live(run.scanned)

\* Until the connection is admitted, and on a warm run until then too, the
\* committed cache is the one the run started from.
Untouched ==
    /\ run.pc # "idle" => run.outcome = "running"
    /\ run.outcome = "refused" => tree = before
    /\ run.pc \in {"acquire", "outlying", "apply", "admit"} => tree = before /\ ~run.connected
    /\ run.pc \in {"snapshot", "describe", "plan"} => run.connected
    /\ run.pc = "resolve" /\ ~run.connected => tree = before

\* What the acquired database holds on the way from its reset to the last
\* description: within the reset's reach the run's schema, and nothing else
\* anywhere in a database the run made itself.
Schemed ==
    /\ run.pc \in {"outlying", "apply"} => run.fp \notin Blank
    /\ run.pc = "outlying" => run.fp \in Outlying
    /\ run.pc = "outlying" /\ cfg.backend # "dsn" => db.holds.beyond = {}
    /\ run.pc = "apply" /\ cfg.backend # "dsn" => db.holds.beyond = {run.fp} \cap Outlying
    /\ run.pc \in {"admit", "snapshot", "describe"} =>
          /\ run.fp \notin Blank => db.holds.main = run.fp
          /\ cfg.backend # "dsn" => db.holds = Whole(run.fp)

\* The renderings an adopting run has worked off carry the adopted epoch.
Renewed(r) == run.descs[r] # None /\ run.descs[r].epoch = run.cat.epoch
Epochal ==
    /\ run.adopted => run.connected
    /\ run.pc = "snapshot" => ~run.adopted
    /\ run.adopted /\ run.pc = "describe" =>
          /\ run.cat.epoch = db.epoch
          /\ \A r \in Live(run.scanned) : r \in run.todo \/ run.errors \/ Renewed(r)

\* What a run may do in its phases: it resets a user-supplied database only
\* with consent and need, describes beside the record of its server, and
\* writes outputs only as a generate.
Guarded ==
    /\ run.pc \in {"acquire", "outlying", "apply"} => run.cold \/ run.mode = "exhaustive"
    /\ run.pc \in {"outlying", "apply"} /\ cfg.backend = "dsn" => run.destructive
    /\ run.pc \in {"snapshot", "describe"} =>
          tree.env = [fp |-> run.fp, ver |-> Detected]
    /\ run.pc \in {"expand", "emit", "stale", "sweep", "explain"} =>
          run.mode = "generate"

\* What the committed cache answers: everything not on the list of misses,
\* and everything once the misses are worked off without an error.
Loaded(r) == LoadOracle(r, run.fp, run.scanned[r]) # None
WarmNow == /\ LoadCatalog(run.fp) # None
           /\ \A r \in Live(run.scanned) : Loaded(r)
Warmth ==
    /\ run.pc \in {"acquire", "outlying", "apply", "admit", "snapshot"} =>
          IF run.cold
          THEN /\ run.cat = LoadCatalog(run.fp)
               /\ \A r \in Live(run.scanned) : r \in run.todo \/ Loaded(r)
          ELSE run.pc # "snapshot" /\ WarmNow
    /\ run.pc = "describe" =>
          /\ LoadCatalog(run.fp) # None
          /\ \A r \in Live(run.scanned) : r \in run.todo \/ run.errors \/ Loaded(r)
    /\ run.pc = "resolve" /\ ~run.connected => ~run.cold
    /\ run.pc \in {"stale", "sweep"} => run.todo \cap Live(run.scanned) = {}
    /\ run.pc \in Compiling => WarmNow

Inv == /\ TypeOK /\ Scoped /\ Untouched /\ Schemed /\ Epochal /\ Guarded /\ Warmth
       /\ DescribedOnOwnSchema /\ AdoptedEpoch /\ SuccessIsWarm

\* The initial states satisfy the inductive invariant.
LEMMA InitInv == Init => Inv
<1> SUFFICES ASSUME Init PROVE Inv
  OBVIOUS
<1>1. TypeOK
  BY ConstantsAssumption
     DEF Init, TypeOK, RunState, Outputs, Tree, Nowhere, Held, Phases, Outcomes
<1>2. /\ Scoped /\ Untouched /\ Schemed /\ Epochal /\ Guarded /\ Warmth
      /\ AdoptedEpoch /\ SuccessIsWarm
  BY DEF Init, Scoped, Untouched, Schemed, Epochal, Guarded, Warmth, AdoptedEpoch,
         SuccessIsWarm, Compiling
<1>3. DescribedOnOwnSchema
  BY DEF Init, DescribedOnOwnSchema, Live, Nowhere
<1> QED
  BY <1>1, <1>2, <1>3 DEF Inv

\* Editing a template leaves what a run has read alone.
LEMMA EditTemplateInv == ASSUME Inv, EditTemplate PROVE Inv'
<1> USE DEF Inv
<1>1. TypeOK'
  BY ConstantsAssumption DEF EditTemplate, TypeOK, RunState, Phases, Outcomes, dev
<1>2. Scoped'
  BY DEF EditTemplate, TypeOK, RunState, Scoped, Live, dev
<1>3. Untouched'
  BY DEF EditTemplate, TypeOK, RunState, Untouched, dev
<1>4. Schemed' /\ Epochal'
  BY DEF EditTemplate, TypeOK, RunState, Schemed, Epochal, Untouched, Renewed, dev
<1>5. DescribedOnOwnSchema'
  BY DEF EditTemplate, TypeOK, RunState, Schemed, DescribedOnOwnSchema, Live, dev
<1>6. AdoptedEpoch'
  BY DEF EditTemplate, TypeOK, RunState, AdoptedEpoch, Compiling, Untouched, Epochal,
     Renewed, dev
<1>7. Guarded'
  BY DEF EditTemplate, TypeOK, RunState, Guarded, Detected, dev
<1>8. Warmth' /\ SuccessIsWarm'
  BY DEF EditTemplate, TypeOK, RunState, Warmth, WarmNow, Loaded, LoadOracle,
     LoadCatalog, Live, Compiling, SuccessIsWarm, dev
<1> QED
  BY <1>1, <1>2, <1>3, <1>4, <1>5, <1>6, <1>7, <1>8

\* Editing the schema leaves the fingerprint a run has computed alone.
LEMMA EditSchemaInv == ASSUME Inv, EditSchema PROVE Inv'
<1> USE DEF Inv
<1>1. TypeOK'
  BY ConstantsAssumption DEF EditSchema, TypeOK, RunState, Phases, Outcomes, dev
<1>2. Scoped'
  BY DEF EditSchema, TypeOK, RunState, Scoped, Live, dev
<1>3. Untouched'
  BY DEF EditSchema, TypeOK, RunState, Untouched, dev
<1>4. Schemed' /\ Epochal'
  BY DEF EditSchema, TypeOK, RunState, Schemed, Epochal, Untouched, Renewed, dev
<1>5. DescribedOnOwnSchema'
  BY DEF EditSchema, TypeOK, RunState, Schemed, DescribedOnOwnSchema, Live, dev
<1>6. AdoptedEpoch'
  BY DEF EditSchema, TypeOK, RunState, AdoptedEpoch, Compiling, Untouched, Epochal,
     Renewed, dev
<1>7. Guarded'
  BY DEF EditSchema, TypeOK, RunState, Guarded, Detected, dev
<1>8. Warmth' /\ SuccessIsWarm'
  BY DEF EditSchema, TypeOK, RunState, Warmth, WarmNow, Loaded, LoadOracle, LoadCatalog,
     Live, Compiling, SuccessIsWarm, dev
<1> QED
  BY <1>1, <1>2, <1>3, <1>4, <1>5, <1>6, <1>7, <1>8

\* The server changes between runs only.
LEMMA ReplaceServerInv == ASSUME Inv, ReplaceServer PROVE Inv'
<1> USE DEF Inv
<1>1. TypeOK'
  BY ConstantsAssumption DEF ReplaceServer, TypeOK, RunState, Phases, Outcomes, dev
<1>2. Scoped'
  BY DEF ReplaceServer, TypeOK, RunState, Scoped, Live, dev
<1>3. Untouched'
  BY DEF ReplaceServer, TypeOK, RunState, Untouched, dev
<1>4. Schemed' /\ Epochal'
  BY DEF ReplaceServer, TypeOK, RunState, Schemed, Epochal, Untouched, Renewed, dev
<1>5. DescribedOnOwnSchema'
  BY DEF ReplaceServer, TypeOK, RunState, Schemed, DescribedOnOwnSchema, Live, dev
<1>6. AdoptedEpoch'
  BY DEF ReplaceServer, TypeOK, RunState, AdoptedEpoch, Compiling, Untouched, Epochal,
     Renewed, dev
<1>7. Guarded'
  BY DEF ReplaceServer, TypeOK, RunState, Guarded, Detected, dev
<1>8. Warmth' /\ SuccessIsWarm'
  BY DEF ReplaceServer, TypeOK, RunState, Warmth, WarmNow, Loaded, LoadOracle,
     LoadCatalog, Live, Compiling, SuccessIsWarm, dev
<1> QED
  BY <1>1, <1>2, <1>3, <1>4, <1>5, <1>6, <1>7, <1>8

\* A killed run leaves the tree as it is and is not a refusal.
LEMMA CrashInv == ASSUME Inv, Crash PROVE Inv'
<1> USE DEF Inv
<1>1. TypeOK'
  BY ConstantsAssumption DEF Crash, TypeOK, RunState, Phases, Outcomes, dev, End
<1>2. Scoped'
  BY DEF Crash, TypeOK, RunState, Scoped, Live, dev, End
<1>3. Untouched'
  BY DEF Crash, TypeOK, RunState, Untouched, dev, End
<1>4. Schemed' /\ Epochal'
  BY DEF Crash, TypeOK, RunState, Schemed, Epochal, Untouched, Renewed, dev, End
<1>5. DescribedOnOwnSchema'
  BY DEF Crash, TypeOK, RunState, Schemed, DescribedOnOwnSchema, Live, dev, End
<1>6. AdoptedEpoch'
  BY DEF Crash, TypeOK, RunState, AdoptedEpoch, Compiling, Untouched, Epochal, Renewed,
     dev, End
<1>7. Guarded'
  BY DEF Crash, TypeOK, RunState, Guarded, Detected, dev, End
<1>8. Warmth' /\ SuccessIsWarm'
  BY DEF Crash, TypeOK, RunState, Warmth, WarmNow, Loaded, LoadOracle, LoadCatalog,
     Live, Compiling, SuccessIsWarm, dev, End
<1> QED
  BY <1>1, <1>2, <1>3, <1>4, <1>5, <1>6, <1>7, <1>8

\* A refused connection comes before any write.
LEMMA AcquireRefusedInv == ASSUME Inv, AcquireRefused PROVE Inv'
<1> USE DEF Inv
<1>1. TypeOK'
  BY ConstantsAssumption DEF AcquireRefused, TypeOK, RunState, Phases, Outcomes, dev, End
<1>2. Scoped'
  BY DEF AcquireRefused, TypeOK, RunState, Scoped, Live, dev, End
<1>3. Untouched'
  BY DEF AcquireRefused, TypeOK, RunState, Untouched, dev, End
<1>4. Schemed' /\ Epochal'
  BY DEF AcquireRefused, TypeOK, RunState, Schemed, Epochal, Untouched, Renewed, dev, End
<1>5. DescribedOnOwnSchema'
  BY DEF AcquireRefused, TypeOK, RunState, Schemed, DescribedOnOwnSchema, Live, dev, End
<1>6. AdoptedEpoch'
  BY DEF AcquireRefused, TypeOK, RunState, AdoptedEpoch, Compiling, Untouched, Epochal,
     Renewed, dev, End
<1>7. Guarded'
  BY DEF AcquireRefused, TypeOK, RunState, Guarded, Detected, dev, End
<1>8. Warmth' /\ SuccessIsWarm'
  BY DEF AcquireRefused, TypeOK, RunState, Warmth, WarmNow, Loaded, LoadOracle,
     LoadCatalog, Live, Compiling, SuccessIsWarm, dev, End
<1> QED
  BY <1>1, <1>2, <1>3, <1>4, <1>5, <1>6, <1>7, <1>8

\* A database is opened fresh, or with what is beyond the reset.
LEMMA OpenedType ==
    ASSUME TypeOK, NEW reset \in BOOLEAN,
           reset => cfg.backend # "dsn" \/ db.epoch # MaxEpoch
    PROVE  /\ Opened(reset) \in [epoch : 0..MaxEpoch, holds : Held]
           /\ cfg.backend # "dsn" => Opened(reset).holds = [main |-> Cleared, beyond |-> {}]
<1>1. db \in [epoch : 0..MaxEpoch, holds : Held]
  BY DEF TypeOK
<1>2. [db.holds EXCEPT !.main = Cleared] \in Held
  BY <1>1 DEF Held
<1>3. [main |-> Cleared, beyond |-> {}] \in Held
  BY DEF Held
<1>4. reset /\ cfg.backend = "dsn" => db.epoch + 1 \in 0..MaxEpoch
  BY <1>1, ConstantsAssumption
<1>5. 0 \in 0..MaxEpoch
  BY ConstantsAssumption
<1> QED
  BY <1>1, <1>2, <1>3, <1>4, <1>5 DEF Opened

\* A fresh database with the whole schema applied.
LEMMA WholeType == ASSUME NEW fp \in Schemas PROVE Whole(fp) \in Held
BY DEF Whole, Held

\* The reset touches the database only.
LEMMA ResetInv == ASSUME Inv, Reset PROVE Inv'
<1> USE DEF Inv
<1>0. /\ run \in RunState /\ UNCHANGED <<dev, tree, outputs, before>>
      /\ db \in [epoch : 0..MaxEpoch, holds : Held]
  BY DEF Reset, TypeOK
<1>g. /\ run' = [run EXCEPT !.pc = IF run.fp \in Outlying THEN "outlying" ELSE "apply"]
      /\ run.pc = "acquire" /\ run.fp \notin Blank
  BY DEF Reset, Goto
<1>o. db' = Opened(TRUE)
  BY DEF Reset
<1>h. db' \in [epoch : 0..MaxEpoch, holds : Held]
  BY <1>g, <1>o, OpenedType DEF Reset, Unreachable
<1>s. cfg.backend # "dsn" => db'.holds.beyond = {}
  <2>1. cfg.backend # "dsn" => db' = [epoch |-> 0, holds |-> [main |-> Cleared, beyond |-> {}]]
    BY <1>o DEF Opened
  <2> QED
    BY <2>1
<1>1. TypeOK'
  <2>1. run' \in RunState
    BY <1>0, <1>g DEF RunState, Phases, Outcomes
  <2> QED
    BY <1>0, <1>h, <2>1 DEF TypeOK, dev
<1>2. Scoped'
  BY <1>0, <1>g DEF RunState, Scoped, Live
<1>3. Untouched'
  BY <1>0, <1>g DEF RunState, Untouched
<1>4. Schemed'
  BY <1>0, <1>g, <1>h, <1>s DEF RunState, Schemed, dev
<1>5. Epochal'
  BY <1>0, <1>g DEF RunState, Epochal, Untouched
<1>6. DescribedOnOwnSchema'
  BY <1>0 DEF DescribedOnOwnSchema, Live, dev
<1>7. AdoptedEpoch'
  BY <1>0, <1>g DEF RunState, AdoptedEpoch, Compiling
<1>8. Guarded'
  BY <1>0, <1>g DEF Reset, GuardReset, RunState, Guarded, dev
<1>9. Warmth' /\ SuccessIsWarm'
  BY <1>0, <1>g DEF RunState, Warmth, WarmNow, Loaded, LoadOracle, LoadCatalog, Live,
     Compiling, SuccessIsWarm
<1> QED
  BY <1>1, <1>2, <1>3, <1>4, <1>5, <1>6, <1>7, <1>8, <1>9

\* Without a schema a container is empty and a given database what it was.
LEMMA UnschemedInv == ASSUME Inv, Unschemed PROVE Inv'
<1> USE DEF Inv
<1>0. /\ run \in RunState /\ UNCHANGED <<dev, tree, outputs, before>>
      /\ db \in [epoch : 0..MaxEpoch, holds : Held]
  BY DEF Unschemed, TypeOK
<1>g. run' = [run EXCEPT !.pc = "admit"] /\ run.pc = "acquire" /\ run.fp \in Blank
  BY DEF Unschemed, Goto
<1>o. db' = Opened(FALSE)
  BY DEF Unschemed
<1>h. db' \in [epoch : 0..MaxEpoch, holds : Held]
  BY <1>o, OpenedType
<1>s. cfg.backend # "dsn" => db'.holds = Whole(run.fp)
  <2>1. {run.fp} \cap Outlying = {}
    BY <1>g, ConstantsAssumption
  <2> QED
    BY <1>g, <1>o, <2>1, OpenedType DEF Whole
<1>1. TypeOK'
  <2>1. run' \in RunState
    BY <1>0, <1>g DEF RunState, Phases, Outcomes
  <2> QED
    BY <1>0, <1>h, <2>1 DEF TypeOK, dev
<1>2. Scoped'
  BY <1>0, <1>g DEF RunState, Scoped, Live
<1>3. Untouched'
  BY <1>0, <1>g DEF RunState, Untouched
<1>4. Schemed'
  BY <1>0, <1>g, <1>h, <1>s DEF RunState, Schemed, dev
<1>5. Epochal'
  BY <1>0, <1>g DEF RunState, Epochal, Untouched
<1>6. DescribedOnOwnSchema'
  BY <1>0 DEF DescribedOnOwnSchema, Live, dev
<1>7. AdoptedEpoch'
  BY <1>0, <1>g DEF RunState, AdoptedEpoch, Compiling
<1>8. Guarded'
  BY <1>0, <1>g DEF Unschemed, GuardReset, RunState, Guarded, dev
<1>9. Warmth' /\ SuccessIsWarm'
  BY <1>0, <1>g DEF RunState, Warmth, WarmNow, Loaded, LoadOracle, LoadCatalog, Live,
     Compiling, SuccessIsWarm
<1> QED
  BY <1>1, <1>2, <1>3, <1>4, <1>5, <1>6, <1>7, <1>8, <1>9

\* The native oracle holds the schema of the run.
LEMMA BuildNativeInv == ASSUME Inv, BuildNative PROVE Inv'
<1> USE DEF Inv
<1>0. /\ run \in RunState /\ UNCHANGED <<dev, tree, outputs, before>>
      /\ db \in [epoch : 0..MaxEpoch, holds : Held]
  BY DEF BuildNative, TypeOK
<1>g. run' = [run EXCEPT !.pc = "admit"] /\ run.pc = "acquire"
  BY DEF BuildNative, Goto
<1>h. db' \in [epoch : 0..MaxEpoch, holds : Held]
  BY <1>0, WholeType, ConstantsAssumption DEF BuildNative, RunState
<1>s. /\ db'.holds = Whole(run.fp)
      /\ run.fp \notin Blank => db'.holds.main = run.fp
  BY DEF BuildNative, Whole
<1>1. TypeOK'
  <2>1. run' \in RunState
    BY <1>0, <1>g DEF RunState, Phases, Outcomes
  <2> QED
    BY <1>0, <1>h, <2>1 DEF TypeOK, dev
<1>2. Scoped'
  BY <1>0, <1>g DEF RunState, Scoped, Live
<1>3. Untouched'
  BY <1>0, <1>g DEF RunState, Untouched
<1>4. Schemed'
  BY <1>0, <1>g, <1>h, <1>s DEF RunState, Schemed, dev
<1>5. Epochal'
  BY <1>0, <1>g DEF RunState, Epochal, Untouched
<1>6. DescribedOnOwnSchema'
  BY <1>0 DEF DescribedOnOwnSchema, Live, dev
<1>7. AdoptedEpoch'
  BY <1>0, <1>g DEF RunState, AdoptedEpoch, Compiling
<1>8. Guarded'
  BY <1>0, <1>g DEF BuildNative, GuardReset, RunState, Guarded, dev
<1>9. Warmth' /\ SuccessIsWarm'
  BY <1>0, <1>g DEF RunState, Warmth, WarmNow, Loaded, LoadOracle, LoadCatalog, Live,
     Compiling, SuccessIsWarm
<1> QED
  BY <1>1, <1>2, <1>3, <1>4, <1>5, <1>6, <1>7, <1>8, <1>9

\* What lies beyond the reset is made before the schema is complete.
LEMMA ApplyOutlyingInv == ASSUME Inv, ApplyOutlying PROVE Inv'
<1> USE DEF Inv
<1>0. /\ run \in RunState /\ UNCHANGED <<dev, tree, outputs, before>>
      /\ db \in [epoch : 0..MaxEpoch, holds : Held]
  BY DEF ApplyOutlying, TypeOK
<1>g. run' = [run EXCEPT !.pc = "apply"] /\ run.pc = "outlying"
  BY DEF ApplyOutlying, Goto
<1>p. PICK left \in (SUBSET (db.holds.beyond \cup {run.fp})) \ {{}} :
         db' = [db EXCEPT !.holds.beyond = left]
  BY DEF ApplyOutlying
<1>l. left \in SUBSET (Schemas \cup {Foreign})
  BY <1>0, <1>p DEF Held, RunState
<1>h. db' \in [epoch : 0..MaxEpoch, holds : Held] /\ db'.holds.beyond = left
  BY <1>0, <1>p, <1>l DEF Held
<1>s. /\ cfg.backend # "dsn" => db'.holds.beyond = {run.fp} \cap Outlying
      /\ run.fp \notin Blank
  BY <1>g, <1>p, <1>h DEF Schemed
<1>1. TypeOK'
  <2>1. run' \in RunState
    BY <1>0, <1>g DEF RunState, Phases, Outcomes
  <2> QED
    BY <1>0, <1>h, <2>1 DEF TypeOK, dev
<1>2. Scoped'
  BY <1>0, <1>g DEF RunState, Scoped, Live
<1>3. Untouched'
  BY <1>0, <1>g DEF RunState, Untouched
<1>4. Schemed'
  BY <1>0, <1>g, <1>h, <1>s DEF RunState, Schemed, dev
<1>5. Epochal'
  BY <1>0, <1>g DEF RunState, Epochal, Untouched
<1>6. DescribedOnOwnSchema'
  BY <1>0 DEF DescribedOnOwnSchema, Live, dev
<1>7. AdoptedEpoch'
  BY <1>0, <1>g DEF RunState, AdoptedEpoch, Compiling
<1>8. Guarded'
  BY <1>0, <1>g DEF ApplyOutlying, GuardReset, RunState, Guarded, dev
<1>9. Warmth' /\ SuccessIsWarm'
  BY <1>0, <1>g DEF RunState, Warmth, WarmNow, Loaded, LoadOracle, LoadCatalog, Live,
     Compiling, SuccessIsWarm
<1> QED
  BY <1>1, <1>2, <1>3, <1>4, <1>5, <1>6, <1>7, <1>8, <1>9

\* After the schema is applied the database holds the run's schema.
LEMMA ApplySchemaInv == ASSUME Inv, ApplySchema PROVE Inv'
<1> USE DEF Inv
<1>0. /\ run \in RunState /\ UNCHANGED <<dev, tree, outputs, before>>
      /\ db \in [epoch : 0..MaxEpoch, holds : Held]
  BY DEF ApplySchema, TypeOK
<1>g. run' = [run EXCEPT !.pc = "admit"] /\ run.pc = "apply"
  BY DEF ApplySchema, Goto
<1>o. db' = [db EXCEPT !.holds.main = run.fp]
  BY DEF ApplySchema
<1>h. db' \in [epoch : 0..MaxEpoch, holds : Held]
  BY <1>0, <1>o DEF Held, RunState
<1>s. /\ db'.holds.main = run.fp
      /\ cfg.backend # "dsn" => db'.holds = Whole(run.fp)
  BY <1>0, <1>g, <1>o DEF Held, Schemed, Whole
<1>1. TypeOK'
  <2>1. run' \in RunState
    BY <1>0, <1>g DEF RunState, Phases, Outcomes
  <2> QED
    BY <1>0, <1>h, <2>1 DEF TypeOK, dev
<1>2. Scoped'
  BY <1>0, <1>g DEF RunState, Scoped, Live
<1>3. Untouched'
  BY <1>0, <1>g DEF RunState, Untouched
<1>4. Schemed'
  BY <1>0, <1>g, <1>h, <1>s DEF RunState, Schemed, dev
<1>5. Epochal'
  BY <1>0, <1>g DEF RunState, Epochal, Untouched
<1>6. DescribedOnOwnSchema'
  BY <1>0 DEF DescribedOnOwnSchema, Live, dev
<1>7. AdoptedEpoch'
  BY <1>0, <1>g DEF RunState, AdoptedEpoch, Compiling
<1>8. Guarded'
  BY <1>0, <1>g DEF ApplySchema, GuardReset, RunState, Guarded, dev
<1>9. Warmth' /\ SuccessIsWarm'
  BY <1>0, <1>g DEF RunState, Warmth, WarmNow, Loaded, LoadOracle, LoadCatalog, Live,
     Compiling, SuccessIsWarm
<1> QED
  BY <1>1, <1>2, <1>3, <1>4, <1>5, <1>6, <1>7, <1>8, <1>9

\* A schema that does not apply comes before any write.
LEMMA ApplyFailsInv == ASSUME Inv, ApplyFails PROVE Inv'
<1> USE DEF Inv
<1>1. TypeOK'
  BY ConstantsAssumption DEF ApplyFails, TypeOK, RunState, Phases, Outcomes, dev, End
<1>2. Scoped'
  BY DEF ApplyFails, TypeOK, RunState, Scoped, Live, dev, End
<1>3. Untouched'
  BY DEF ApplyFails, TypeOK, RunState, Untouched, dev, End
<1>4. Schemed' /\ Epochal'
  BY DEF ApplyFails, TypeOK, RunState, Schemed, Epochal, Untouched, Renewed, dev, End
<1>5. DescribedOnOwnSchema'
  BY DEF ApplyFails, TypeOK, RunState, Schemed, DescribedOnOwnSchema, Live, dev, End
<1>6. AdoptedEpoch'
  BY DEF ApplyFails, TypeOK, RunState, AdoptedEpoch, Compiling, Untouched, Epochal,
     Renewed, dev, End
<1>7. Guarded'
  BY DEF ApplyFails, TypeOK, RunState, Guarded, Detected, dev, End
<1>8. Warmth' /\ SuccessIsWarm'
  BY DEF ApplyFails, TypeOK, RunState, Warmth, WarmNow, Loaded, LoadOracle, LoadCatalog,
     Live, Compiling, SuccessIsWarm, dev, End
<1> QED
  BY <1>1, <1>2, <1>3, <1>4, <1>5, <1>6, <1>7, <1>8

\* Drift and symlinks are refused before any write.
LEMMA AdmitRefusedInv == ASSUME Inv, AdmitRefused PROVE Inv'
<1> USE DEF Inv
<1>1. TypeOK'
  BY ConstantsAssumption DEF AdmitRefused, TypeOK, RunState, Phases, Outcomes, dev, End
<1>2. Scoped'
  BY DEF AdmitRefused, TypeOK, RunState, Scoped, Live, dev, End
<1>3. Untouched'
  BY DEF AdmitRefused, TypeOK, RunState, Untouched, dev, End
<1>4. Schemed' /\ Epochal'
  BY DEF AdmitRefused, TypeOK, RunState, Schemed, Epochal, Untouched, Renewed, dev, End
<1>5. DescribedOnOwnSchema'
  BY DEF AdmitRefused, TypeOK, RunState, Schemed, DescribedOnOwnSchema, Live, dev, End
<1>6. AdoptedEpoch'
  BY DEF AdmitRefused, TypeOK, RunState, AdoptedEpoch, Compiling, Untouched, Epochal,
     Renewed, dev, End
<1>7. Guarded'
  BY DEF AdmitRefused, TypeOK, RunState, Guarded, Detected, dev, End
<1>8. Warmth' /\ SuccessIsWarm'
  BY DEF AdmitRefused, TypeOK, RunState, Warmth, WarmNow, Loaded, LoadOracle,
     LoadCatalog, Live, Compiling, SuccessIsWarm, dev, End
<1> QED
  BY <1>1, <1>2, <1>3, <1>4, <1>5, <1>6, <1>7, <1>8

\* A failed snapshot is no refusal.
LEMMA SnapshotFailsInv == ASSUME Inv, SnapshotFails PROVE Inv'
<1> USE DEF Inv
<1>1. TypeOK'
  BY ConstantsAssumption DEF SnapshotFails, TypeOK, RunState, Phases, Outcomes, dev, End
<1>2. Scoped'
  BY DEF SnapshotFails, TypeOK, RunState, Scoped, Live, dev, End
<1>3. Untouched'
  BY DEF SnapshotFails, TypeOK, RunState, Untouched, dev, End
<1>4. Schemed' /\ Epochal'
  BY DEF SnapshotFails, TypeOK, RunState, Schemed, Epochal, Untouched, Renewed, dev, End
<1>5. DescribedOnOwnSchema'
  BY DEF SnapshotFails, TypeOK, RunState, Schemed, DescribedOnOwnSchema, Live, dev, End
<1>6. AdoptedEpoch'
  BY DEF SnapshotFails, TypeOK, RunState, AdoptedEpoch, Compiling, Untouched, Epochal,
     Renewed, dev, End
<1>7. Guarded'
  BY DEF SnapshotFails, TypeOK, RunState, Guarded, Detected, dev, End
<1>8. Warmth' /\ SuccessIsWarm'
  BY DEF SnapshotFails, TypeOK, RunState, Warmth, WarmNow, Loaded, LoadOracle,
     LoadCatalog, Live, Compiling, SuccessIsWarm, dev, End
<1> QED
  BY <1>1, <1>2, <1>3, <1>4, <1>5, <1>6, <1>7, <1>8

\* Clearing an expansion directory touches no cache file.
LEMMA ExpandClearInv == ASSUME Inv, ExpandClear PROVE Inv'
<1> USE DEF Inv
<1>1. TypeOK'
  BY ConstantsAssumption DEF ExpandClear, TypeOK, RunState, Phases, Outcomes, dev, Outputs
<1>2. Scoped'
  BY DEF ExpandClear, TypeOK, RunState, Scoped, Live, dev, Outputs
<1>3. Untouched'
  BY DEF ExpandClear, TypeOK, RunState, Untouched, dev, Outputs
<1>4. Schemed' /\ Epochal'
  BY DEF ExpandClear, TypeOK, RunState, Schemed, Epochal, Untouched, Renewed, dev, Outputs
<1>5. DescribedOnOwnSchema'
  BY DEF ExpandClear, TypeOK, RunState, Schemed, DescribedOnOwnSchema, Live, dev, Outputs
<1>6. AdoptedEpoch'
  BY DEF ExpandClear, TypeOK, RunState, AdoptedEpoch, Compiling, Untouched, Epochal,
     Renewed, dev, Outputs
<1>7. Guarded'
  BY DEF ExpandClear, TypeOK, RunState, Guarded, Detected, dev, Outputs
<1>8. Warmth' /\ SuccessIsWarm'
  BY DEF ExpandClear, TypeOK, RunState, Warmth, WarmNow, Loaded, LoadOracle,
     LoadCatalog, Live, Compiling, SuccessIsWarm, dev, Outputs
<1> QED
  BY <1>1, <1>2, <1>3, <1>4, <1>5, <1>6, <1>7, <1>8

\* From emission to the removal of stale files.
LEMMA EmitDoneInv == ASSUME Inv, EmitDone PROVE Inv'
<1> USE DEF Inv
<1>1. TypeOK'
  BY ConstantsAssumption DEF EmitDone, TypeOK, RunState, Phases, Outcomes, dev, Live
<1>2. Scoped'
  BY DEF EmitDone, TypeOK, RunState, Scoped, Live, dev
<1>3. Untouched'
  BY DEF EmitDone, TypeOK, RunState, Untouched, dev, Live
<1>4. Schemed' /\ Epochal'
  BY DEF EmitDone, TypeOK, RunState, Schemed, Epochal, Untouched, Renewed, dev, Live
<1>5. DescribedOnOwnSchema'
  BY DEF EmitDone, TypeOK, RunState, Schemed, DescribedOnOwnSchema, Live, dev
<1>6. AdoptedEpoch'
  BY DEF EmitDone, TypeOK, RunState, AdoptedEpoch, Compiling, Untouched, Epochal,
     Renewed, dev, Live
<1>7. Guarded'
  BY DEF EmitDone, TypeOK, RunState, Guarded, Detected, dev, Live
<1>8. Warmth' /\ SuccessIsWarm'
  BY DEF EmitDone, TypeOK, RunState, Warmth, WarmNow, Loaded, LoadOracle, LoadCatalog,
     Live, Compiling, SuccessIsWarm, dev
<1> QED
  BY <1>1, <1>2, <1>3, <1>4, <1>5, <1>6, <1>7, <1>8

\* Removing generated files touches no cache file.
LEMMA RemoveStaleInv == ASSUME Inv, RemoveStale PROVE Inv'
<1> USE DEF Inv
<1>1. TypeOK'
  BY ConstantsAssumption DEF RemoveStale, TypeOK, RunState, Phases, Outcomes, dev, Outputs
<1>2. Scoped'
  BY DEF RemoveStale, TypeOK, RunState, Scoped, Live, dev, Outputs
<1>3. Untouched'
  BY DEF RemoveStale, TypeOK, RunState, Untouched, dev, Outputs
<1>4. Schemed' /\ Epochal'
  BY DEF RemoveStale, TypeOK, RunState, Schemed, Epochal, Untouched, Renewed, dev, Outputs
<1>5. DescribedOnOwnSchema'
  BY DEF RemoveStale, TypeOK, RunState, Schemed, DescribedOnOwnSchema, Live, dev, Outputs
<1>6. AdoptedEpoch'
  BY DEF RemoveStale, TypeOK, RunState, AdoptedEpoch, Compiling, Untouched, Epochal,
     Renewed, dev, Outputs
<1>7. Guarded'
  BY DEF RemoveStale, TypeOK, RunState, Guarded, Detected, dev, Outputs
<1>8. Warmth' /\ SuccessIsWarm'
  BY DEF RemoveStale, TypeOK, RunState, Warmth, WarmNow, Loaded, LoadOracle,
     LoadCatalog, Live, Compiling, SuccessIsWarm, dev, Outputs
<1> QED
  BY <1>1, <1>2, <1>3, <1>4, <1>5, <1>6, <1>7, <1>8

\* The sweep deletes entries and writes none.
LEMMA SweepEntryInv == ASSUME Inv, SweepEntry PROVE Inv'
<1> USE DEF Inv
<1>1. TypeOK'
  BY ConstantsAssumption DEF SweepEntry, TypeOK, RunState, Phases, Outcomes, dev, Tree
<1>2. Scoped'
  BY DEF SweepEntry, TypeOK, RunState, Scoped, Live, dev, Tree
<1>3. Untouched'
  BY DEF SweepEntry, TypeOK, RunState, Untouched, dev, Tree
<1>4. Schemed' /\ Epochal'
  BY DEF SweepEntry, TypeOK, RunState, Schemed, Epochal, Untouched, Renewed, dev, Tree
<1>5. DescribedOnOwnSchema'
  BY DEF SweepEntry, TypeOK, RunState, Schemed, DescribedOnOwnSchema, Live, dev, Tree
<1>6. AdoptedEpoch'
  BY DEF SweepEntry, TypeOK, RunState, AdoptedEpoch, Compiling, Untouched, Epochal,
     Renewed, dev, Tree
<1>7. Guarded'
  BY DEF SweepEntry, TypeOK, RunState, Guarded, Detected, dev, Tree, Tree
<1>8. Warmth' /\ SuccessIsWarm'
  BY DEF SweepEntry, TypeOK, RunState, Warmth, WarmNow, Loaded, LoadOracle, LoadCatalog,
     Live, Compiling, SuccessIsWarm, dev, Tree
<1> QED
  BY <1>1, <1>2, <1>3, <1>4, <1>5, <1>6, <1>7, <1>8

\* From the sweep to the explain data.
LEMMA SweepDoneInv == ASSUME Inv, SweepDone PROVE Inv'
<1> USE DEF Inv
<1>1. TypeOK'
  BY ConstantsAssumption DEF SweepDone, TypeOK, RunState, Phases, Outcomes, dev, Live
<1>2. Scoped'
  BY DEF SweepDone, TypeOK, RunState, Scoped, Live, dev
<1>3. Untouched'
  BY DEF SweepDone, TypeOK, RunState, Untouched, dev, Live
<1>4. Schemed' /\ Epochal'
  BY DEF SweepDone, TypeOK, RunState, Schemed, Epochal, Untouched, Renewed, dev, Live
<1>5. DescribedOnOwnSchema'
  BY DEF SweepDone, TypeOK, RunState, Schemed, DescribedOnOwnSchema, Live, dev
<1>6. AdoptedEpoch'
  BY DEF SweepDone, TypeOK, RunState, AdoptedEpoch, Compiling, Untouched, Epochal,
     Renewed, dev, Live
<1>7. Guarded'
  BY DEF SweepDone, TypeOK, RunState, Guarded, Detected, dev, Live
<1>8. Warmth' /\ SuccessIsWarm'
  BY DEF SweepDone, TypeOK, RunState, Warmth, WarmNow, Loaded, LoadOracle, LoadCatalog,
     Live, Compiling, SuccessIsWarm, dev
<1> QED
  BY <1>1, <1>2, <1>3, <1>4, <1>5, <1>6, <1>7, <1>8

\* The end of a generate.
LEMMA ExplainDoneInv == ASSUME Inv, ExplainDone PROVE Inv'
<1> USE DEF Inv
<1>1. TypeOK'
  BY ConstantsAssumption DEF ExplainDone, TypeOK, RunState, Phases, Outcomes, dev, End
<1>2. Scoped'
  BY DEF ExplainDone, TypeOK, RunState, Scoped, Live, dev, End
<1>3. Untouched'
  BY DEF ExplainDone, TypeOK, RunState, Untouched, dev, End
<1>4. Schemed' /\ Epochal'
  BY DEF ExplainDone, TypeOK, RunState, Schemed, Epochal, Untouched, Renewed, dev, End
<1>5. DescribedOnOwnSchema'
  BY DEF ExplainDone, TypeOK, RunState, Schemed, DescribedOnOwnSchema, Live, dev, End
<1>6. AdoptedEpoch'
  BY DEF ExplainDone, TypeOK, RunState, AdoptedEpoch, Compiling, Untouched, Epochal,
     Renewed, dev, End
<1>7. Guarded'
  BY DEF ExplainDone, TypeOK, RunState, Guarded, Detected, dev, End
<1>8. Warmth' /\ SuccessIsWarm'
  BY DEF ExplainDone, TypeOK, RunState, Warmth, WarmNow, Loaded, LoadOracle,
     LoadCatalog, Live, Compiling, SuccessIsWarm, dev, End
<1> QED
  BY <1>1, <1>2, <1>3, <1>4, <1>5, <1>6, <1>7, <1>8

\* The first write of a run is its environment record.
LEMMA AdmitInv == ASSUME Inv, Admit PROVE Inv'
<1> USE DEF Inv
<1>0. dev' = dev /\ db' = db /\ before' = before
  BY DEF Admit, dev
<1>1. CASE run.cold
  <2>0. /\ run.pc = "admit"
        /\ run.cold
        /\ run' = [run EXCEPT !.connected = TRUE, !.pc = "snapshot"]
        /\ tree' = [tree EXCEPT !.env = [fp |-> run.fp, ver |-> Detected]]
        /\ outputs' = outputs
    BY <1>1 DEF Admit, Admitted, SaveEnv
  <2>1. TypeOK'
    <3>1. run' \in RunState
      BY <2>0 DEF TypeOK, RunState, Phases, Outcomes
    <3>2. tree' \in Tree
      BY <2>0 DEF TypeOK, Tree, Env, RunState, Detected
    <3>3. outputs' \in Outputs
      BY <2>0 DEF TypeOK
    <3> QED
      BY <1>0, <3>1, <3>2, <3>3 DEF TypeOK, dev
  <2>2. Scoped'
    BY <1>0, <2>0 DEF TypeOK, RunState, Scoped, Live
  <2>3. Untouched'
    BY <1>0, <2>0 DEF TypeOK, RunState, Untouched, Epochal
  <2>4. Schemed'
    BY <1>0, <2>0 DEF TypeOK, RunState, Schemed, dev
  <2>5. Epochal'
    BY <1>0, <2>0 DEF TypeOK, RunState, Epochal, Untouched, Renewed, Live
  <2>6. DescribedOnOwnSchema'
    BY <1>0, <2>0 DEF TypeOK, Tree, Schemed, DescribedOnOwnSchema, Live, dev
  <2>7. AdoptedEpoch'
    BY <1>0, <2>0 DEF TypeOK, RunState, AdoptedEpoch, Compiling, Untouched, Epochal,
       Renewed, Live
  <2>8. Guarded'
    BY <1>0, <2>0 DEF TypeOK, RunState, Guarded, Detected, dev, Tree
  <2>9. Warmth' /\ SuccessIsWarm'
    BY <1>0, <2>0, NoneAssumption DEF TypeOK, RunState, Untouched, Warmth, WarmNow,
       Loaded, LoadOracle, LoadCatalog, Live, Compiling, SuccessIsWarm, Tree
  <2> QED
    BY <2>1, <2>2, <2>3, <2>4, <2>5, <2>6, <2>7, <2>8, <2>9
<1>2. CASE ~run.cold
  <2>0. /\ run.pc = "admit"
        /\ ~run.cold
        /\ run' = [run EXCEPT !.connected = TRUE, !.pc = "plan"]
        /\ tree' = [tree EXCEPT !.env = [fp |-> run.fp, ver |-> Detected]]
        /\ outputs' = outputs
    BY <1>2 DEF Admit, Admitted, SaveEnv
  <2>1. TypeOK'
    <3>1. run' \in RunState
      BY <2>0 DEF TypeOK, RunState, Phases, Outcomes
    <3>2. tree' \in Tree
      BY <2>0 DEF TypeOK, Tree, Env, RunState, Detected
    <3>3. outputs' \in Outputs
      BY <2>0 DEF TypeOK
    <3> QED
      BY <1>0, <3>1, <3>2, <3>3 DEF TypeOK, dev
  <2>2. Scoped'
    BY <1>0, <2>0 DEF TypeOK, RunState, Scoped, Live
  <2>3. Untouched'
    BY <1>0, <2>0 DEF TypeOK, RunState, Untouched, Epochal
  <2>4. Schemed'
    BY <1>0, <2>0 DEF TypeOK, RunState, Schemed, dev
  <2>5. Epochal'
    BY <1>0, <2>0 DEF TypeOK, RunState, Epochal, Untouched, Renewed, Live
  <2>6. DescribedOnOwnSchema'
    BY <1>0, <2>0 DEF TypeOK, Tree, Schemed, DescribedOnOwnSchema, Live, dev
  <2>7. AdoptedEpoch'
    BY <1>0, <2>0 DEF TypeOK, RunState, AdoptedEpoch, Compiling, Untouched, Epochal,
       Renewed, Live
  <2>8. Guarded'
    BY <1>0, <2>0 DEF TypeOK, RunState, Guarded, Detected, dev, Tree
  <2>9. Warmth' /\ SuccessIsWarm'
    BY <1>0, <2>0, NoneAssumption DEF TypeOK, RunState, Untouched, Warmth, WarmNow,
       Loaded, LoadOracle, LoadCatalog, Live, Compiling, SuccessIsWarm, Tree
  <2> QED
    BY <2>1, <2>2, <2>3, <2>4, <2>5, <2>6, <2>7, <2>8, <2>9
<1> QED
  BY <1>1, <1>2 DEF Admit, Admitted, SaveEnv

\* An adopted snapshot puts every rendering back on the list.
LEMMA SnapshotInv == ASSUME Inv, Snapshot PROVE Inv'
<1> USE DEF Inv
<1>0. dev' = dev /\ db' = db /\ before' = before
  BY DEF Snapshot, dev
<1>q. [fp |-> run.fp, epoch |-> db.epoch] \in Catalog /\ [fp |-> run.fp, epoch |-> db.epoch] # None
  BY NoneAssumption DEF TypeOK, RunState, Catalog
<1>1. CASE run.cat = [fp |-> run.fp, epoch |-> db.epoch]
  <2>0. /\ run.pc = "snapshot"
        /\ run.cat # None
        /\ run' = [run EXCEPT !.pc = "describe"]
        /\ tree' = tree
        /\ outputs' = outputs
    BY <1>1, <1>q DEF Snapshot, Goto
  <2>1. TypeOK'
    <3>1. run' \in RunState
      BY <2>0, <1>q DEF TypeOK, RunState, Phases, Outcomes
    <3>2. tree' \in Tree
      BY <2>0, <1>q DEF TypeOK
    <3>3. outputs' \in Outputs
      BY <2>0, <1>q DEF TypeOK
    <3> QED
      BY <1>0, <3>1, <3>2, <3>3 DEF TypeOK, dev
  <2>2. Scoped'
    BY <1>0, <1>q, <2>0 DEF TypeOK, RunState, Scoped, Live
  <2>3. Untouched'
    BY <1>0, <1>q, <2>0 DEF TypeOK, RunState, Untouched, Epochal
  <2>4. Schemed'
    BY <1>0, <1>q, <2>0 DEF TypeOK, RunState, Schemed, dev
  <2>5. Epochal'
    BY <1>0, <1>q, <2>0 DEF TypeOK, RunState, Epochal, Untouched, Renewed, Live
  <2>6. DescribedOnOwnSchema'
    BY <1>0, <1>q, <2>0 DEF TypeOK, Tree, Schemed, DescribedOnOwnSchema, Live, dev
  <2>7. AdoptedEpoch'
    BY <1>0, <1>q, <2>0 DEF TypeOK, RunState, AdoptedEpoch, Compiling, Untouched,
       Epochal, Renewed, Live
  <2>8. Guarded'
    BY <1>0, <1>q, <2>0 DEF TypeOK, RunState, Guarded, Detected, dev
  <2>9. Warmth' /\ SuccessIsWarm'
    BY <1>0, <1>q, <2>0, NoneAssumption DEF TypeOK, RunState, Untouched, Warmth,
       WarmNow, Loaded, LoadOracle, LoadCatalog, Live, Compiling, SuccessIsWarm
  <2> QED
    BY <2>1, <2>2, <2>3, <2>4, <2>5, <2>6, <2>7, <2>8, <2>9
<1>2. CASE run.cat # [fp |-> run.fp, epoch |-> db.epoch]
  <2>0. /\ run.pc = "snapshot"
        /\ run' = [run EXCEPT !.pc = "describe", !.cat = [fp |-> run.fp, epoch |-> db.epoch],
                              !.adopted = TRUE, !.todo = Live(run.scanned)]
        /\ tree' = [tree EXCEPT !.catalog = [fp |-> run.fp, epoch |-> db.epoch]]
        /\ outputs' = outputs
    BY <1>2, <1>q DEF Snapshot, Goto
  <2>1. TypeOK'
    <3>1. run' \in RunState
      BY <2>0, <1>q DEF TypeOK, RunState, Phases, Outcomes, Catalog, Live
    <3>2. tree' \in Tree
      BY <2>0, <1>q DEF TypeOK, Tree, Catalog, RunState
    <3>3. outputs' \in Outputs
      BY <2>0, <1>q DEF TypeOK
    <3> QED
      BY <1>0, <3>1, <3>2, <3>3 DEF TypeOK, dev
  <2>2. Scoped'
    BY <1>0, <1>q, <2>0 DEF TypeOK, RunState, Scoped, Live
  <2>3. Untouched'
    BY <1>0, <1>q, <2>0 DEF TypeOK, RunState, Untouched, Epochal
  <2>4. Schemed'
    BY <1>0, <1>q, <2>0 DEF TypeOK, RunState, Schemed, dev
  <2>5. Epochal'
    BY <1>0, <1>q, <2>0 DEF TypeOK, RunState, Epochal, Untouched, Renewed, Live
  <2>6. DescribedOnOwnSchema'
    BY <1>0, <1>q, <2>0 DEF TypeOK, Tree, Schemed, DescribedOnOwnSchema, Live, dev
  <2>7. AdoptedEpoch'
    BY <1>0, <1>q, <2>0 DEF TypeOK, RunState, AdoptedEpoch, Compiling, Untouched,
       Epochal, Renewed, Live
  <2>8. Guarded'
    BY <1>0, <1>q, <2>0 DEF TypeOK, RunState, Guarded, Detected, dev, Tree
  <2>9. Warmth' /\ SuccessIsWarm'
    BY <1>0, <1>q, <2>0, NoneAssumption DEF TypeOK, RunState, Untouched, Warmth,
       WarmNow, Loaded, LoadOracle, LoadCatalog, Live, Compiling, SuccessIsWarm, Tree
  <2> QED
    BY <2>1, <2>2, <2>3, <2>4, <2>5, <2>6, <2>7, <2>8, <2>9
<1> QED
  BY <1>1, <1>2, <1>q DEF Snapshot, Goto

\* A description carries the schema and the epoch of the database.
LEMMA DescribeInv == ASSUME Inv, Describe PROVE Inv'
<1> USE DEF Inv
<1>0. dev' = dev /\ db' = db /\ before' = before
  BY DEF Describe, dev
<1>p. PICK r \in run.todo :
         /\ run' = [run EXCEPT !.descs[r] = DescOf(r), !.todo = @ \ {r}]
         /\ tree' = [tree EXCEPT !.entries[r] = DescOf(r)]
  BY DEF Describe
<1>s. /\ r \in Refs /\ run.scanned[r] \in SQLs
      /\ run.fp \notin Blank => db.holds.main = run.fp
      /\ cfg.backend # "dsn" => db.holds = Whole(run.fp)
  BY <1>p DEF Describe, TypeOK, RunState, Scoped, Schemed, Live
<1>d. DescOf(r) \in Desc
  BY <1>s DEF TypeOK, RunState, DescOf, Desc, Detected
<1>q. /\ r \in Refs /\ DescOf(r) \in Desc /\ DescOf(r) # None
      /\ DescOf(r).fp \notin Blank => DescOf(r).on.main = DescOf(r).fp
      /\ cfg.backend # "dsn" => DescOf(r).on = Whole(DescOf(r).fp)
      /\ DescOf(r).epoch = db.epoch
  BY <1>s, <1>d, NoneAssumption DEF DescOf
<1>e. /\ [run.descs EXCEPT ![r] = DescOf(r)] \in [Refs -> Desc \cup {None}]
      /\ run.todo \ {r} \in SUBSET Refs
  BY <1>s, <1>d DEF TypeOK, RunState
<1>u. /\ run.pc = "describe"
      /\ run' = [run EXCEPT !.descs = [run.descs EXCEPT ![r] = DescOf(r)], !.todo = run.todo \ {r}]
      /\ tree' = [tree EXCEPT !.entries = [tree.entries EXCEPT ![r] = DescOf(r)]]
      /\ outputs' = outputs
  BY <1>p, <1>q DEF Describe
<1>1. TypeOK'
  <2>1. run' \in RunState
    BY <1>u, <1>e DEF TypeOK, RunState, Phases, Outcomes
  <2>2. tree' \in Tree
    BY <1>u, <1>p, <1>q DEF TypeOK, Tree, RunState
  <2>3. outputs' \in Outputs
    BY <1>u, <1>p, <1>q DEF TypeOK
  <2> QED
    BY <1>0, <2>1, <2>2, <2>3 DEF TypeOK, dev
<1>2. Scoped'
  BY <1>0, <1>p, <1>q, <1>u DEF TypeOK, RunState, Scoped, Live
<1>3. Untouched'
  BY <1>0, <1>p, <1>q, <1>u DEF TypeOK, RunState, Untouched, Epochal
<1>4. Schemed'
  BY <1>0, <1>p, <1>q, <1>u DEF TypeOK, RunState, Schemed, dev
<1>5. Epochal'
  BY <1>0, <1>p, <1>q, <1>u DEF TypeOK, RunState, Epochal, Untouched, Renewed, Live
<1>6. DescribedOnOwnSchema'
  BY <1>0, <1>p, <1>q, <1>u DEF TypeOK, Tree, Schemed, DescribedOnOwnSchema, Live, dev
<1>7. AdoptedEpoch'
  BY <1>0, <1>p, <1>q, <1>u DEF TypeOK, RunState, AdoptedEpoch, Compiling, Untouched,
     Epochal, Renewed, Live
<1>8. Guarded'
  BY <1>0, <1>p, <1>q, <1>u DEF TypeOK, RunState, Guarded, Detected, dev, Tree
<1>9. Warmth' /\ SuccessIsWarm'
  BY <1>0, <1>p, <1>q, <1>u, NoneAssumption DEF TypeOK, RunState, Untouched, Warmth,
     WarmNow, Loaded, LoadOracle, LoadCatalog, Live, Compiling, SuccessIsWarm, Tree, DescOf
<1> QED
  BY <1>1, <1>2, <1>3, <1>4, <1>5, <1>6, <1>7, <1>8, <1>9

\* A rejected rendering is remembered as an error.
LEMMA DescribeFailsInv == ASSUME Inv, DescribeFails PROVE Inv'
<1> USE DEF Inv
<1>0. dev' = dev /\ db' = db /\ before' = before
  BY DEF DescribeFails, dev
<1>p. PICK r \in run.todo : run' = [run EXCEPT !.errors = TRUE, !.todo = @ \ {r}]
  BY DEF DescribeFails
<1>u. /\ run.pc = "describe"
      /\ run' = [run EXCEPT !.errors = TRUE, !.todo = run.todo \ {r}]
      /\ UNCHANGED <<tree, outputs>>
  BY <1>p DEF DescribeFails
<1>1. TypeOK'
  <2>1. run' \in RunState
    BY <1>u, <1>p DEF TypeOK, RunState, Phases, Outcomes
  <2>2. tree' \in Tree
    BY <1>u, <1>p DEF TypeOK
  <2>3. outputs' \in Outputs
    BY <1>u, <1>p DEF TypeOK
  <2> QED
    BY <1>0, <2>1, <2>2, <2>3 DEF TypeOK, dev
<1>2. Scoped'
  BY <1>0, <1>p, <1>u DEF TypeOK, RunState, Scoped, Live
<1>3. Untouched'
  BY <1>0, <1>p, <1>u DEF TypeOK, RunState, Untouched, Epochal
<1>4. Schemed'
  BY <1>0, <1>p, <1>u DEF TypeOK, RunState, Schemed, dev
<1>5. Epochal'
  BY <1>0, <1>p, <1>u DEF TypeOK, RunState, Epochal, Untouched, Renewed, Live
<1>6. DescribedOnOwnSchema'
  BY <1>0, <1>p, <1>u DEF TypeOK, Tree, Schemed, DescribedOnOwnSchema, Live, dev
<1>7. AdoptedEpoch'
  BY <1>0, <1>p, <1>u DEF TypeOK, RunState, AdoptedEpoch, Compiling, Untouched, Epochal,
     Renewed, Live
<1>8. Guarded'
  BY <1>0, <1>p, <1>u DEF TypeOK, RunState, Guarded, Detected, dev
<1>9. Warmth' /\ SuccessIsWarm'
  BY <1>0, <1>p, <1>u, NoneAssumption DEF TypeOK, RunState, Untouched, Warmth, WarmNow,
     Loaded, LoadOracle, LoadCatalog, Live, Compiling, SuccessIsWarm
<1> QED
  BY <1>1, <1>2, <1>3, <1>4, <1>5, <1>6, <1>7, <1>8, <1>9

\* Only a miss loop without errors goes on.
LEMMA DescribedInv == ASSUME Inv, Described PROVE Inv'
<1> USE DEF Inv
<1>0. dev' = dev /\ db' = db /\ before' = before
  BY DEF Described, dev
<1>1. CASE run.errors
  <2>0. /\ run.pc = "describe"
        /\ run' = [run EXCEPT !.pc = "idle", !.outcome = "failed"]
        /\ UNCHANGED <<tree, outputs>>
    BY <1>1 DEF Described, End, Goto
  <2>1. TypeOK'
    <3>1. run' \in RunState
      BY <2>0 DEF TypeOK, RunState, Phases, Outcomes
    <3>2. tree' \in Tree
      BY <2>0 DEF TypeOK
    <3>3. outputs' \in Outputs
      BY <2>0 DEF TypeOK
    <3> QED
      BY <1>0, <3>1, <3>2, <3>3 DEF TypeOK, dev
  <2>2. Scoped'
    BY <1>0, <2>0 DEF TypeOK, RunState, Scoped, Live
  <2>3. Untouched'
    BY <1>0, <2>0 DEF TypeOK, RunState, Untouched, Epochal
  <2>4. Schemed'
    BY <1>0, <2>0 DEF TypeOK, RunState, Schemed, dev
  <2>5. Epochal'
    BY <1>0, <2>0 DEF TypeOK, RunState, Epochal, Untouched, Renewed, Live
  <2>6. DescribedOnOwnSchema'
    BY <1>0, <2>0 DEF TypeOK, Tree, Schemed, DescribedOnOwnSchema, Live, dev
  <2>7. AdoptedEpoch'
    BY <1>0, <2>0 DEF TypeOK, RunState, AdoptedEpoch, Compiling, Untouched, Epochal,
       Renewed, Live
  <2>8. Guarded'
    BY <1>0, <2>0 DEF TypeOK, RunState, Guarded, Detected, dev
  <2>9. Warmth' /\ SuccessIsWarm'
    BY <1>0, <2>0, NoneAssumption DEF TypeOK, RunState, Untouched, Warmth, WarmNow,
       Loaded, LoadOracle, LoadCatalog, Live, Compiling, SuccessIsWarm
  <2> QED
    BY <2>1, <2>2, <2>3, <2>4, <2>5, <2>6, <2>7, <2>8, <2>9
<1>2. CASE ~run.errors
  <2>0. /\ run.pc = "describe"
        /\ run.todo = {}
        /\ ~run.errors
        /\ run' = [run EXCEPT !.pc = "resolve"]
        /\ UNCHANGED <<tree, outputs>>
    BY <1>2 DEF Described, End, Goto
  <2>1. TypeOK'
    <3>1. run' \in RunState
      BY <2>0 DEF TypeOK, RunState, Phases, Outcomes
    <3>2. tree' \in Tree
      BY <2>0 DEF TypeOK
    <3>3. outputs' \in Outputs
      BY <2>0 DEF TypeOK
    <3> QED
      BY <1>0, <3>1, <3>2, <3>3 DEF TypeOK, dev
  <2>2. Scoped'
    BY <1>0, <2>0 DEF TypeOK, RunState, Scoped, Live
  <2>3. Untouched'
    BY <1>0, <2>0 DEF TypeOK, RunState, Untouched, Epochal
  <2>4. Schemed'
    BY <1>0, <2>0 DEF TypeOK, RunState, Schemed, dev
  <2>5. Epochal'
    BY <1>0, <2>0 DEF TypeOK, RunState, Epochal, Untouched, Renewed, Live
  <2>6. DescribedOnOwnSchema'
    BY <1>0, <2>0 DEF TypeOK, Tree, Schemed, DescribedOnOwnSchema, Live, dev
  <2>7. AdoptedEpoch'
    BY <1>0, <2>0 DEF TypeOK, RunState, AdoptedEpoch, Compiling, Untouched, Epochal,
       Renewed, Live
  <2>8. Guarded'
    BY <1>0, <2>0 DEF TypeOK, RunState, Guarded, Detected, dev
  <2>9. Warmth' /\ SuccessIsWarm'
    BY <1>0, <2>0, NoneAssumption DEF TypeOK, RunState, Untouched, Warmth, WarmNow,
       Loaded, LoadOracle, LoadCatalog, Live, Compiling, SuccessIsWarm
  <2> QED
    BY <2>1, <2>2, <2>3, <2>4, <2>5, <2>6, <2>7, <2>8, <2>9
<1> QED
  BY <1>1, <1>2 DEF Described, End, Goto

\* The catalog-dependent checks decide where a run goes.
LEMMA ResolveInv == ASSUME Inv, Resolve PROVE Inv'
<1> USE DEF Inv
<1>0. dev' = dev /\ db' = db /\ before' = before
  BY DEF Resolve, dev
<1>1. CASE \E r \in Live(run.scanned) : run.scanned[r] \in Illegal
  <2>0. /\ run.pc = "resolve"
        /\ run' = [run EXCEPT !.pc = "idle", !.outcome = "failed"]
        /\ UNCHANGED <<tree, outputs>>
    BY <1>1 DEF Resolve, End, Goto
  <2>1. TypeOK'
    <3>1. run' \in RunState
      BY <2>0 DEF TypeOK, RunState, Phases, Outcomes
    <3>2. tree' \in Tree
      BY <2>0 DEF TypeOK
    <3>3. outputs' \in Outputs
      BY <2>0 DEF TypeOK
    <3> QED
      BY <1>0, <3>1, <3>2, <3>3 DEF TypeOK, dev
  <2>2. Scoped'
    BY <1>0, <2>0 DEF TypeOK, RunState, Scoped, Live
  <2>3. Untouched'
    BY <1>0, <2>0 DEF TypeOK, RunState, Untouched, Epochal
  <2>4. Schemed'
    BY <1>0, <2>0 DEF TypeOK, RunState, Schemed, dev
  <2>5. Epochal'
    BY <1>0, <2>0 DEF TypeOK, RunState, Epochal, Untouched, Renewed, Live
  <2>6. DescribedOnOwnSchema'
    BY <1>0, <2>0 DEF TypeOK, Tree, Schemed, DescribedOnOwnSchema, Live, dev
  <2>7. AdoptedEpoch'
    BY <1>0, <2>0 DEF TypeOK, RunState, AdoptedEpoch, Compiling, Untouched, Epochal,
       Renewed, Live
  <2>8. Guarded'
    BY <1>0, <2>0 DEF TypeOK, RunState, Guarded, Detected, dev
  <2>9. Warmth' /\ SuccessIsWarm'
    BY <1>0, <2>0, NoneAssumption DEF TypeOK, RunState, Untouched, Warmth, WarmNow,
       Loaded, LoadOracle, LoadCatalog, Live, Compiling, SuccessIsWarm
  <2> QED
    BY <2>1, <2>2, <2>3, <2>4, <2>5, <2>6, <2>7, <2>8, <2>9
<1>2. CASE ~(\E r \in Live(run.scanned) : run.scanned[r] \in Illegal) /\ run.mode = "check"
  <2>0. /\ run.pc = "resolve"
        /\ run' = [run EXCEPT !.pc = "idle", !.outcome = "ok"]
        /\ UNCHANGED <<tree, outputs>>
    BY <1>2 DEF Resolve, End, Goto
  <2>1. TypeOK'
    <3>1. run' \in RunState
      BY <2>0 DEF TypeOK, RunState, Phases, Outcomes
    <3>2. tree' \in Tree
      BY <2>0 DEF TypeOK
    <3>3. outputs' \in Outputs
      BY <2>0 DEF TypeOK
    <3> QED
      BY <1>0, <3>1, <3>2, <3>3 DEF TypeOK, dev
  <2>2. Scoped'
    BY <1>0, <2>0 DEF TypeOK, RunState, Scoped, Live
  <2>3. Untouched'
    BY <1>0, <2>0 DEF TypeOK, RunState, Untouched, Epochal
  <2>4. Schemed'
    BY <1>0, <2>0 DEF TypeOK, RunState, Schemed, dev
  <2>5. Epochal'
    BY <1>0, <2>0 DEF TypeOK, RunState, Epochal, Untouched, Renewed, Live
  <2>6. DescribedOnOwnSchema'
    BY <1>0, <2>0 DEF TypeOK, Tree, Schemed, DescribedOnOwnSchema, Live, dev
  <2>7. AdoptedEpoch'
    BY <1>0, <2>0 DEF TypeOK, RunState, AdoptedEpoch, Compiling, Untouched, Epochal,
       Renewed, Live
  <2>8. Guarded'
    BY <1>0, <2>0 DEF TypeOK, RunState, Guarded, Detected, dev
  <2>9. Warmth' /\ SuccessIsWarm'
    BY <1>0, <2>0, NoneAssumption DEF TypeOK, RunState, Untouched, Warmth, WarmNow,
       Loaded, LoadOracle, LoadCatalog, Live, Compiling, SuccessIsWarm
  <2> QED
    BY <2>1, <2>2, <2>3, <2>4, <2>5, <2>6, <2>7, <2>8, <2>9
<1>3. CASE ~(\E r \in Live(run.scanned) : run.scanned[r] \in Illegal) /\ run.mode = "exhaustive" /\ run.connected
  <2>0. /\ run.pc = "resolve"
        /\ run.connected
        /\ run' = [run EXCEPT !.pc = "plan"]
        /\ UNCHANGED <<tree, outputs>>
    BY <1>3 DEF Resolve, End, Goto
  <2>1. TypeOK'
    <3>1. run' \in RunState
      BY <2>0 DEF TypeOK, RunState, Phases, Outcomes
    <3>2. tree' \in Tree
      BY <2>0 DEF TypeOK
    <3>3. outputs' \in Outputs
      BY <2>0 DEF TypeOK
    <3> QED
      BY <1>0, <3>1, <3>2, <3>3 DEF TypeOK, dev
  <2>2. Scoped'
    BY <1>0, <2>0 DEF TypeOK, RunState, Scoped, Live
  <2>3. Untouched'
    BY <1>0, <2>0 DEF TypeOK, RunState, Untouched, Epochal
  <2>4. Schemed'
    BY <1>0, <2>0 DEF TypeOK, RunState, Schemed, dev
  <2>5. Epochal'
    BY <1>0, <2>0 DEF TypeOK, RunState, Epochal, Untouched, Renewed, Live
  <2>6. DescribedOnOwnSchema'
    BY <1>0, <2>0 DEF TypeOK, Tree, Schemed, DescribedOnOwnSchema, Live, dev
  <2>7. AdoptedEpoch'
    BY <1>0, <2>0 DEF TypeOK, RunState, AdoptedEpoch, Compiling, Untouched, Epochal,
       Renewed, Live
  <2>8. Guarded'
    BY <1>0, <2>0 DEF TypeOK, RunState, Guarded, Detected, dev
  <2>9. Warmth' /\ SuccessIsWarm'
    BY <1>0, <2>0, NoneAssumption DEF TypeOK, RunState, Untouched, Warmth, WarmNow,
       Loaded, LoadOracle, LoadCatalog, Live, Compiling, SuccessIsWarm
  <2> QED
    BY <2>1, <2>2, <2>3, <2>4, <2>5, <2>6, <2>7, <2>8, <2>9
<1>4. CASE ~(\E r \in Live(run.scanned) : run.scanned[r] \in Illegal) /\ run.mode = "exhaustive" /\ ~run.connected
  <2>0. /\ run.pc = "resolve"
        /\ ~run.connected
        /\ run.mode = "exhaustive"
        /\ run' = [run EXCEPT !.pc = "acquire"]
        /\ UNCHANGED <<tree, outputs>>
    BY <1>4 DEF Resolve, End, Goto
  <2>1. TypeOK'
    <3>1. run' \in RunState
      BY <2>0 DEF TypeOK, RunState, Phases, Outcomes
    <3>2. tree' \in Tree
      BY <2>0 DEF TypeOK
    <3>3. outputs' \in Outputs
      BY <2>0 DEF TypeOK
    <3> QED
      BY <1>0, <3>1, <3>2, <3>3 DEF TypeOK, dev
  <2>2. Scoped'
    BY <1>0, <2>0 DEF TypeOK, RunState, Scoped, Live
  <2>3. Untouched'
    BY <1>0, <2>0 DEF TypeOK, RunState, Untouched, Epochal
  <2>4. Schemed'
    BY <1>0, <2>0 DEF TypeOK, RunState, Schemed, dev
  <2>5. Epochal'
    BY <1>0, <2>0 DEF TypeOK, RunState, Epochal, Untouched, Renewed, Live
  <2>6. DescribedOnOwnSchema'
    BY <1>0, <2>0 DEF TypeOK, Tree, Schemed, DescribedOnOwnSchema, Live, dev
  <2>7. AdoptedEpoch'
    BY <1>0, <2>0 DEF TypeOK, RunState, AdoptedEpoch, Compiling, Untouched, Epochal,
       Renewed, Live
  <2>8. Guarded'
    BY <1>0, <2>0 DEF TypeOK, RunState, Guarded, Detected, dev
  <2>9. Warmth' /\ SuccessIsWarm'
    BY <1>0, <2>0, NoneAssumption DEF TypeOK, RunState, Untouched, Warmth, WarmNow,
       Loaded, LoadOracle, LoadCatalog, Live, Compiling, SuccessIsWarm
  <2> QED
    BY <2>1, <2>2, <2>3, <2>4, <2>5, <2>6, <2>7, <2>8, <2>9
<1>5. CASE ~(\E r \in Live(run.scanned) : run.scanned[r] \in Illegal) /\ run.mode = "generate"
  <2>0. /\ run.pc = "resolve"
        /\ run.mode = "generate"
        /\ run' = [run EXCEPT !.pc = "expand", !.todo = Live(run.scanned) \cap Expanded]
        /\ UNCHANGED <<tree, outputs>>
    BY <1>5 DEF Resolve, End, Goto
  <2>1. TypeOK'
    <3>1. run' \in RunState
      BY <2>0 DEF TypeOK, RunState, Phases, Outcomes, Live
    <3>2. tree' \in Tree
      BY <2>0 DEF TypeOK
    <3>3. outputs' \in Outputs
      BY <2>0 DEF TypeOK
    <3> QED
      BY <1>0, <3>1, <3>2, <3>3 DEF TypeOK, dev
  <2>2. Scoped'
    BY <1>0, <2>0 DEF TypeOK, RunState, Scoped, Live
  <2>3. Untouched'
    BY <1>0, <2>0 DEF TypeOK, RunState, Untouched, Epochal
  <2>4. Schemed'
    BY <1>0, <2>0 DEF TypeOK, RunState, Schemed, dev
  <2>5. Epochal'
    BY <1>0, <2>0 DEF TypeOK, RunState, Epochal, Untouched, Renewed, Live
  <2>6. DescribedOnOwnSchema'
    BY <1>0, <2>0 DEF TypeOK, Tree, Schemed, DescribedOnOwnSchema, Live, dev
  <2>7. AdoptedEpoch'
    BY <1>0, <2>0 DEF TypeOK, RunState, AdoptedEpoch, Compiling, Untouched, Epochal,
       Renewed, Live
  <2>8. Guarded'
    BY <1>0, <2>0 DEF TypeOK, RunState, Guarded, Detected, dev
  <2>9. Warmth' /\ SuccessIsWarm'
    BY <1>0, <2>0, NoneAssumption DEF TypeOK, RunState, Untouched, Warmth, WarmNow,
       Loaded, LoadOracle, LoadCatalog, Live, Compiling, SuccessIsWarm
  <2> QED
    BY <2>1, <2>2, <2>3, <2>4, <2>5, <2>6, <2>7, <2>8, <2>9
<1> QED
  BY <1>1, <1>2, <1>3, <1>4, <1>5 DEF Resolve, End, Goto, TypeOK, RunState

\* Planning every shape writes nothing.
LEMMA PlanInv == ASSUME Inv, Plan PROVE Inv'
<1> USE DEF Inv
<1>0. dev' = dev /\ db' = db /\ before' = before
  BY DEF Plan, dev
<1>1. CASE End("ok")
  <2>0. /\ run.pc = "plan"
        /\ run' = [run EXCEPT !.pc = "idle", !.outcome = "ok"]
        /\ UNCHANGED <<tree, outputs>>
    BY <1>1 DEF Plan, End
  <2>1. TypeOK'
    <3>1. run' \in RunState
      BY <2>0 DEF TypeOK, RunState, Phases, Outcomes
    <3>2. tree' \in Tree
      BY <2>0 DEF TypeOK
    <3>3. outputs' \in Outputs
      BY <2>0 DEF TypeOK
    <3> QED
      BY <1>0, <3>1, <3>2, <3>3 DEF TypeOK, dev
  <2>2. Scoped'
    BY <1>0, <2>0 DEF TypeOK, RunState, Scoped, Live
  <2>3. Untouched'
    BY <1>0, <2>0 DEF TypeOK, RunState, Untouched, Epochal
  <2>4. Schemed'
    BY <1>0, <2>0 DEF TypeOK, RunState, Schemed, dev
  <2>5. Epochal'
    BY <1>0, <2>0 DEF TypeOK, RunState, Epochal, Untouched, Renewed, Live
  <2>6. DescribedOnOwnSchema'
    BY <1>0, <2>0 DEF TypeOK, Tree, Schemed, DescribedOnOwnSchema, Live, dev
  <2>7. AdoptedEpoch'
    BY <1>0, <2>0 DEF TypeOK, RunState, AdoptedEpoch, Compiling, Untouched, Epochal,
       Renewed, Live
  <2>8. Guarded'
    BY <1>0, <2>0 DEF TypeOK, RunState, Guarded, Detected, dev
  <2>9. Warmth' /\ SuccessIsWarm'
    BY <1>0, <2>0, NoneAssumption DEF TypeOK, RunState, Untouched, Warmth, WarmNow,
       Loaded, LoadOracle, LoadCatalog, Live, Compiling, SuccessIsWarm
  <2> QED
    BY <2>1, <2>2, <2>3, <2>4, <2>5, <2>6, <2>7, <2>8, <2>9
<1>2. CASE End("failed")
  <2>0. /\ run.pc = "plan"
        /\ run' = [run EXCEPT !.pc = "idle", !.outcome = "failed"]
        /\ UNCHANGED <<tree, outputs>>
    BY <1>2 DEF Plan, End
  <2>1. TypeOK'
    <3>1. run' \in RunState
      BY <2>0 DEF TypeOK, RunState, Phases, Outcomes
    <3>2. tree' \in Tree
      BY <2>0 DEF TypeOK
    <3>3. outputs' \in Outputs
      BY <2>0 DEF TypeOK
    <3> QED
      BY <1>0, <3>1, <3>2, <3>3 DEF TypeOK, dev
  <2>2. Scoped'
    BY <1>0, <2>0 DEF TypeOK, RunState, Scoped, Live
  <2>3. Untouched'
    BY <1>0, <2>0 DEF TypeOK, RunState, Untouched, Epochal
  <2>4. Schemed'
    BY <1>0, <2>0 DEF TypeOK, RunState, Schemed, dev
  <2>5. Epochal'
    BY <1>0, <2>0 DEF TypeOK, RunState, Epochal, Untouched, Renewed, Live
  <2>6. DescribedOnOwnSchema'
    BY <1>0, <2>0 DEF TypeOK, Tree, Schemed, DescribedOnOwnSchema, Live, dev
  <2>7. AdoptedEpoch'
    BY <1>0, <2>0 DEF TypeOK, RunState, AdoptedEpoch, Compiling, Untouched, Epochal,
       Renewed, Live
  <2>8. Guarded'
    BY <1>0, <2>0 DEF TypeOK, RunState, Guarded, Detected, dev
  <2>9. Warmth' /\ SuccessIsWarm'
    BY <1>0, <2>0, NoneAssumption DEF TypeOK, RunState, Untouched, Warmth, WarmNow,
       Loaded, LoadOracle, LoadCatalog, Live, Compiling, SuccessIsWarm
  <2> QED
    BY <2>1, <2>2, <2>3, <2>4, <2>5, <2>6, <2>7, <2>8, <2>9
<1> QED
  BY <1>1, <1>2 DEF Plan, End

\* Writing an expansion touches no cache file.
LEMMA ExpandWriteInv == ASSUME Inv, ExpandWrite PROVE Inv'
<1> USE DEF Inv
<1>0. dev' = dev /\ db' = db /\ before' = before
  BY DEF ExpandWrite, dev
<1>p. PICK r \in run.todo :
         /\ outputs' = [outputs EXCEPT !.expanded[r] = Emitted(r)]
         /\ run' = [run EXCEPT !.todo = @ \ {r}]
  BY DEF ExpandWrite
<1>q. r \in Refs /\ Emitted(r) \in Emission
  BY <1>p DEF ExpandWrite, TypeOK, RunState, Scoped, Live, Emitted, Emission
<1>u. /\ run.pc = "expand"
      /\ run' = [run EXCEPT !.todo = run.todo \ {r}]
      /\ outputs' = [outputs EXCEPT !.expanded = [outputs.expanded EXCEPT ![r] = Emitted(r)]]
      /\ tree' = tree
  BY <1>p, <1>q DEF ExpandWrite
<1>1. TypeOK'
  <2>1. run' \in RunState
    BY <1>u, <1>p, <1>q DEF TypeOK, RunState, Phases, Outcomes
  <2>2. tree' \in Tree
    BY <1>u, <1>p, <1>q DEF TypeOK
  <2>3. outputs' \in Outputs
    BY <1>u, <1>p, <1>q DEF TypeOK, Outputs
  <2> QED
    BY <1>0, <2>1, <2>2, <2>3 DEF TypeOK, dev
<1>2. Scoped'
  BY <1>0, <1>p, <1>q, <1>u DEF TypeOK, RunState, Scoped, Live
<1>3. Untouched'
  BY <1>0, <1>p, <1>q, <1>u DEF TypeOK, RunState, Untouched, Epochal
<1>4. Schemed'
  BY <1>0, <1>p, <1>q, <1>u DEF TypeOK, RunState, Schemed, dev
<1>5. Epochal'
  BY <1>0, <1>p, <1>q, <1>u DEF TypeOK, RunState, Epochal, Untouched, Renewed, Live
<1>6. DescribedOnOwnSchema'
  BY <1>0, <1>p, <1>q, <1>u DEF TypeOK, Tree, Schemed, DescribedOnOwnSchema, Live, dev
<1>7. AdoptedEpoch'
  BY <1>0, <1>p, <1>q, <1>u DEF TypeOK, RunState, AdoptedEpoch, Compiling, Untouched,
     Epochal, Renewed, Live
<1>8. Guarded'
  BY <1>0, <1>p, <1>q, <1>u DEF TypeOK, RunState, Guarded, Detected, dev
<1>9. Warmth' /\ SuccessIsWarm'
  BY <1>0, <1>p, <1>q, <1>u, NoneAssumption DEF TypeOK, RunState, Untouched, Warmth,
     WarmNow, Loaded, LoadOracle, LoadCatalog, Live, Compiling, SuccessIsWarm
<1> QED
  BY <1>1, <1>2, <1>3, <1>4, <1>5, <1>6, <1>7, <1>8, <1>9

\* From the expansions to emission.
LEMMA ExpandDoneInv == ASSUME Inv, ExpandDone PROVE Inv'
<1> USE DEF Inv
<1>0. dev' = dev /\ db' = db /\ before' = before
  BY DEF ExpandDone, dev
<1>1. CASE run.todo # {}
  <2>0. /\ run.pc = "expand"
        /\ run' = [run EXCEPT !.pc = "idle", !.outcome = "failed"]
        /\ UNCHANGED <<tree, outputs>>
    BY <1>1 DEF ExpandDone, End
  <2>1. TypeOK'
    <3>1. run' \in RunState
      BY <2>0 DEF TypeOK, RunState, Phases, Outcomes
    <3>2. tree' \in Tree
      BY <2>0 DEF TypeOK
    <3>3. outputs' \in Outputs
      BY <2>0 DEF TypeOK
    <3> QED
      BY <1>0, <3>1, <3>2, <3>3 DEF TypeOK, dev
  <2>2. Scoped'
    BY <1>0, <2>0 DEF TypeOK, RunState, Scoped, Live
  <2>3. Untouched'
    BY <1>0, <2>0 DEF TypeOK, RunState, Untouched, Epochal
  <2>4. Schemed'
    BY <1>0, <2>0 DEF TypeOK, RunState, Schemed, dev
  <2>5. Epochal'
    BY <1>0, <2>0 DEF TypeOK, RunState, Epochal, Untouched, Renewed, Live
  <2>6. DescribedOnOwnSchema'
    BY <1>0, <2>0 DEF TypeOK, Tree, Schemed, DescribedOnOwnSchema, Live, dev
  <2>7. AdoptedEpoch'
    BY <1>0, <2>0 DEF TypeOK, RunState, AdoptedEpoch, Compiling, Untouched, Epochal,
       Renewed, Live
  <2>8. Guarded'
    BY <1>0, <2>0 DEF TypeOK, RunState, Guarded, Detected, dev
  <2>9. Warmth' /\ SuccessIsWarm'
    BY <1>0, <2>0, NoneAssumption DEF TypeOK, RunState, Untouched, Warmth, WarmNow,
       Loaded, LoadOracle, LoadCatalog, Live, Compiling, SuccessIsWarm
  <2> QED
    BY <2>1, <2>2, <2>3, <2>4, <2>5, <2>6, <2>7, <2>8, <2>9
<1>2. CASE run.todo = {}
  <2>0. /\ run.pc = "expand"
        /\ run' = [run EXCEPT !.pc = "emit", !.todo = Live(run.scanned)]
        /\ UNCHANGED <<tree, outputs>>
    BY <1>2 DEF ExpandDone, End
  <2>1. TypeOK'
    <3>1. run' \in RunState
      BY <2>0 DEF TypeOK, RunState, Phases, Outcomes, Live
    <3>2. tree' \in Tree
      BY <2>0 DEF TypeOK
    <3>3. outputs' \in Outputs
      BY <2>0 DEF TypeOK
    <3> QED
      BY <1>0, <3>1, <3>2, <3>3 DEF TypeOK, dev
  <2>2. Scoped'
    BY <1>0, <2>0 DEF TypeOK, RunState, Scoped, Live
  <2>3. Untouched'
    BY <1>0, <2>0 DEF TypeOK, RunState, Untouched, Epochal
  <2>4. Schemed'
    BY <1>0, <2>0 DEF TypeOK, RunState, Schemed, dev
  <2>5. Epochal'
    BY <1>0, <2>0 DEF TypeOK, RunState, Epochal, Untouched, Renewed, Live
  <2>6. DescribedOnOwnSchema'
    BY <1>0, <2>0 DEF TypeOK, Tree, Schemed, DescribedOnOwnSchema, Live, dev
  <2>7. AdoptedEpoch'
    BY <1>0, <2>0 DEF TypeOK, RunState, AdoptedEpoch, Compiling, Untouched, Epochal,
       Renewed, Live
  <2>8. Guarded'
    BY <1>0, <2>0 DEF TypeOK, RunState, Guarded, Detected, dev
  <2>9. Warmth' /\ SuccessIsWarm'
    BY <1>0, <2>0, NoneAssumption DEF TypeOK, RunState, Untouched, Warmth, WarmNow,
       Loaded, LoadOracle, LoadCatalog, Live, Compiling, SuccessIsWarm
  <2> QED
    BY <2>1, <2>2, <2>3, <2>4, <2>5, <2>6, <2>7, <2>8, <2>9
<1> QED
  BY <1>1, <1>2 DEF ExpandDone, End

\* Emission touches no cache file.
LEMMA EmitInv == ASSUME Inv, Emit PROVE Inv'
<1> USE DEF Inv
<1>0. dev' = dev /\ db' = db /\ before' = before
  BY DEF Emit, dev
<1>p. PICK r \in run.todo :
         /\ outputs' = [outputs EXCEPT !.gen[r] = Emitted(r)]
         /\ run' = [run EXCEPT !.todo = @ \ {r}]
  BY DEF Emit
<1>q. r \in Refs /\ Emitted(r) \in Emission
  BY <1>p DEF Emit, TypeOK, RunState, Scoped, Live, Emitted, Emission
<1>u. /\ run.pc = "emit"
      /\ run' = [run EXCEPT !.todo = run.todo \ {r}]
      /\ outputs' = [outputs EXCEPT !.gen = [outputs.gen EXCEPT ![r] = Emitted(r)]]
      /\ tree' = tree
  BY <1>p, <1>q DEF Emit
<1>1. TypeOK'
  <2>1. run' \in RunState
    BY <1>u, <1>p, <1>q DEF TypeOK, RunState, Phases, Outcomes
  <2>2. tree' \in Tree
    BY <1>u, <1>p, <1>q DEF TypeOK
  <2>3. outputs' \in Outputs
    BY <1>u, <1>p, <1>q DEF TypeOK, Outputs
  <2> QED
    BY <1>0, <2>1, <2>2, <2>3 DEF TypeOK, dev
<1>2. Scoped'
  BY <1>0, <1>p, <1>q, <1>u DEF TypeOK, RunState, Scoped, Live
<1>3. Untouched'
  BY <1>0, <1>p, <1>q, <1>u DEF TypeOK, RunState, Untouched, Epochal
<1>4. Schemed'
  BY <1>0, <1>p, <1>q, <1>u DEF TypeOK, RunState, Schemed, dev
<1>5. Epochal'
  BY <1>0, <1>p, <1>q, <1>u DEF TypeOK, RunState, Epochal, Untouched, Renewed, Live
<1>6. DescribedOnOwnSchema'
  BY <1>0, <1>p, <1>q, <1>u DEF TypeOK, Tree, Schemed, DescribedOnOwnSchema, Live, dev
<1>7. AdoptedEpoch'
  BY <1>0, <1>p, <1>q, <1>u DEF TypeOK, RunState, AdoptedEpoch, Compiling, Untouched,
     Epochal, Renewed, Live
<1>8. Guarded'
  BY <1>0, <1>p, <1>q, <1>u DEF TypeOK, RunState, Guarded, Detected, dev
<1>9. Warmth' /\ SuccessIsWarm'
  BY <1>0, <1>p, <1>q, <1>u, NoneAssumption DEF TypeOK, RunState, Untouched, Warmth,
     WarmNow, Loaded, LoadOracle, LoadCatalog, Live, Compiling, SuccessIsWarm
<1> QED
  BY <1>1, <1>2, <1>3, <1>4, <1>5, <1>6, <1>7, <1>8, <1>9

\* From the removal of stale files to the sweep.
LEMMA StaleDoneInv == ASSUME Inv, StaleDone PROVE Inv'
<1> USE DEF Inv
<1>0. dev' = dev /\ db' = db /\ before' = before
  BY DEF StaleDone, dev
<1>1. CASE cfg.cacheOutside
  <2>0. /\ run.pc = "stale"
        /\ run' = [run EXCEPT !.pc = "explain", !.todo = Live(run.scanned)]
        /\ UNCHANGED <<tree, outputs>>
    BY <1>1 DEF StaleDone
  <2>1. TypeOK'
    <3>1. run' \in RunState
      BY <2>0 DEF TypeOK, RunState, Phases, Outcomes, Live
    <3>2. tree' \in Tree
      BY <2>0 DEF TypeOK
    <3>3. outputs' \in Outputs
      BY <2>0 DEF TypeOK
    <3> QED
      BY <1>0, <3>1, <3>2, <3>3 DEF TypeOK, dev
  <2>2. Scoped'
    BY <1>0, <2>0 DEF TypeOK, RunState, Scoped, Live
  <2>3. Untouched'
    BY <1>0, <2>0 DEF TypeOK, RunState, Untouched, Epochal
  <2>4. Schemed'
    BY <1>0, <2>0 DEF TypeOK, RunState, Schemed, dev
  <2>5. Epochal'
    BY <1>0, <2>0 DEF TypeOK, RunState, Epochal, Untouched, Renewed, Live
  <2>6. DescribedOnOwnSchema'
    BY <1>0, <2>0 DEF TypeOK, Tree, Schemed, DescribedOnOwnSchema, Live, dev
  <2>7. AdoptedEpoch'
    BY <1>0, <2>0 DEF TypeOK, RunState, AdoptedEpoch, Compiling, Untouched, Epochal,
       Renewed, Live
  <2>8. Guarded'
    BY <1>0, <2>0 DEF TypeOK, RunState, Guarded, Detected, dev
  <2>9. Warmth' /\ SuccessIsWarm'
    BY <1>0, <2>0, NoneAssumption DEF TypeOK, RunState, Untouched, Warmth, WarmNow,
       Loaded, LoadOracle, LoadCatalog, Live, Compiling, SuccessIsWarm, Superseded
  <2> QED
    BY <2>1, <2>2, <2>3, <2>4, <2>5, <2>6, <2>7, <2>8, <2>9
<1>2. CASE ~cfg.cacheOutside
  <2>0. /\ run.pc = "stale"
        /\ run' = [run EXCEPT !.pc = "sweep", !.todo = Superseded]
        /\ tree' = [tree EXCEPT !.legacy = FALSE]
        /\ outputs' = outputs
    BY <1>2 DEF StaleDone
  <2>1. TypeOK'
    <3>1. run' \in RunState
      BY <2>0 DEF TypeOK, RunState, Phases, Outcomes, Superseded, Live
    <3>2. tree' \in Tree
      BY <2>0 DEF TypeOK, Tree
    <3>3. outputs' \in Outputs
      BY <2>0 DEF TypeOK
    <3> QED
      BY <1>0, <3>1, <3>2, <3>3 DEF TypeOK, dev
  <2>2. Scoped'
    BY <1>0, <2>0 DEF TypeOK, RunState, Scoped, Live
  <2>3. Untouched'
    BY <1>0, <2>0 DEF TypeOK, RunState, Untouched, Epochal
  <2>4. Schemed'
    BY <1>0, <2>0 DEF TypeOK, RunState, Schemed, dev
  <2>5. Epochal'
    BY <1>0, <2>0 DEF TypeOK, RunState, Epochal, Untouched, Renewed, Live
  <2>6. DescribedOnOwnSchema'
    BY <1>0, <2>0 DEF TypeOK, Tree, Schemed, DescribedOnOwnSchema, Live, dev
  <2>7. AdoptedEpoch'
    BY <1>0, <2>0 DEF TypeOK, RunState, AdoptedEpoch, Compiling, Untouched, Epochal,
       Renewed, Live
  <2>8. Guarded'
    BY <1>0, <2>0 DEF TypeOK, RunState, Guarded, Detected, dev, Tree
  <2>9. Warmth' /\ SuccessIsWarm'
    BY <1>0, <2>0, NoneAssumption DEF TypeOK, RunState, Untouched, Warmth, WarmNow,
       Loaded, LoadOracle, LoadCatalog, Live, Compiling, SuccessIsWarm, Tree, Superseded
  <2> QED
    BY <2>1, <2>2, <2>3, <2>4, <2>5, <2>6, <2>7, <2>8, <2>9
<1> QED
  BY <1>1, <1>2 DEF StaleDone

\* Explain data touches no cache file.
LEMMA ExplainInv == ASSUME Inv, Explain PROVE Inv'
<1> USE DEF Inv
<1>0. dev' = dev /\ db' = db /\ before' = before
  BY DEF Explain, dev
<1>p. PICK r \in run.todo :
         /\ outputs' = IF cfg.derivedLink THEN outputs
                       ELSE [outputs EXCEPT !.explain[r] = Emitted(r)]
         /\ run' = [run EXCEPT !.todo = @ \ {r}, !.errors = @ \/ cfg.derivedLink]
  BY DEF Explain
<1>q. r \in Refs /\ Emitted(r) \in Emission
  BY <1>p DEF Explain, TypeOK, RunState, Scoped, Live, Emitted, Emission
<1>u. /\ run.pc = "explain"
      /\ run' = [run EXCEPT !.todo = run.todo \ {r}, !.errors = run.errors \/ cfg.derivedLink]
      /\ outputs' = IF cfg.derivedLink THEN outputs ELSE [outputs EXCEPT !.explain = [outputs.explain EXCEPT ![r] = Emitted(r)]]
      /\ tree' = tree
  BY <1>p, <1>q DEF Explain
<1>1. TypeOK'
  <2>1. run' \in RunState
    BY <1>u, <1>p, <1>q DEF TypeOK, RunState, Phases, Outcomes
  <2>2. tree' \in Tree
    BY <1>u, <1>p, <1>q DEF TypeOK
  <2>3. outputs' \in Outputs
    BY <1>u, <1>p, <1>q DEF TypeOK, Outputs
  <2> QED
    BY <1>0, <2>1, <2>2, <2>3 DEF TypeOK, dev
<1>2. Scoped'
  BY <1>0, <1>p, <1>q, <1>u DEF TypeOK, RunState, Scoped, Live
<1>3. Untouched'
  BY <1>0, <1>p, <1>q, <1>u DEF TypeOK, RunState, Untouched, Epochal
<1>4. Schemed'
  BY <1>0, <1>p, <1>q, <1>u DEF TypeOK, RunState, Schemed, dev
<1>5. Epochal'
  BY <1>0, <1>p, <1>q, <1>u DEF TypeOK, RunState, Epochal, Untouched, Renewed, Live
<1>6. DescribedOnOwnSchema'
  BY <1>0, <1>p, <1>q, <1>u DEF TypeOK, Tree, Schemed, DescribedOnOwnSchema, Live, dev
<1>7. AdoptedEpoch'
  BY <1>0, <1>p, <1>q, <1>u DEF TypeOK, RunState, AdoptedEpoch, Compiling, Untouched,
     Epochal, Renewed, Live
<1>8. Guarded'
  BY <1>0, <1>p, <1>q, <1>u DEF TypeOK, RunState, Guarded, Detected, dev
<1>9. Warmth' /\ SuccessIsWarm'
  BY <1>0, <1>p, <1>q, <1>u, NoneAssumption DEF TypeOK, RunState, Untouched, Warmth,
     WarmNow, Loaded, LoadOracle, LoadCatalog, Live, Compiling, SuccessIsWarm
<1> QED
  BY <1>1, <1>2, <1>3, <1>4, <1>5, <1>6, <1>7, <1>8, <1>9

\* A run starts from what it reads: the list of misses is what the committed
\* cache does not answer.
LEMMA StartInv == ASSUME Inv, Start PROVE Inv'
<1> USE DEF Inv
<1>0. /\ dev' = dev /\ db' = db /\ tree' = tree /\ outputs' = outputs /\ before' = tree
  BY DEF Start, dev
<1>1. PICK mode \in Modes, destructive \in Consents, drift \in Drifts :
         Begin(mode, destructive, drift)
  BY DEF Start
<1> DEFINE fp == Fingerprint(schema)
           cat == LoadCatalog(fp)
           descs == [r \in Refs |-> IF templates[r] = None THEN None
                                    ELSE LoadOracle(r, fp, templates[r])]
           misses == {r \in Live(templates) : descs[r] = None}
           cold == cat = None \/ misses # {}
           broken == \E r \in Live(templates) : templates[r] \in Malformed
<1>2. run' = [pc |-> IF broken THEN "idle" ELSE IF cold THEN "acquire" ELSE "resolve",
              outcome |-> IF broken THEN "failed" ELSE "running",
              mode |-> mode, destructive |-> destructive, drift |-> drift,
              fp |-> fp, scanned |-> templates, cat |-> cat, cold |-> cold,
              adopted |-> FALSE, connected |-> FALSE, errors |-> FALSE,
              descs |-> descs, todo |-> misses]
  BY <1>1 DEF Begin
<1>3. /\ fp \in Schemas /\ cat \in Catalog \cup {None}
      /\ descs \in [Refs -> Desc \cup {None}]
      /\ misses \in SUBSET Refs /\ misses \subseteq Live(templates)
      /\ cold \in BOOLEAN
      /\ \A r \in Live(templates) :
            r \in Refs /\ (r \in misses \/ LoadOracle(r, fp, templates[r]) # None)
  BY DEF TypeOK, Tree, Fingerprint, LoadCatalog, LoadOracle, Live
<1>c. cold <=> (cat = None \/ misses # {})
  OBVIOUS
<1>l. cat = LoadCatalog(fp)
  OBVIOUS
<1> HIDE DEF fp, cat, descs, misses, cold, broken
<1>4. TypeOK'
  <2>1. run' \in RunState
    BY <1>2, <1>3, ConstantsAssumption DEF TypeOK, RunState, Phases, Outcomes
  <2> QED
    BY <1>0, <2>1 DEF TypeOK, dev
<1>5. /\ run'.pc = (IF broken THEN "idle" ELSE IF cold THEN "acquire" ELSE "resolve")
      /\ run'.outcome = (IF broken THEN "failed" ELSE "running")
      /\ run'.fp = fp /\ run'.scanned = templates /\ run'.cat = cat
      /\ run'.cold = cold /\ ~run'.adopted /\ ~run'.connected /\ run'.todo = misses
  BY <1>2
<1>6. Scoped'
  BY <1>3, <1>5 DEF Scoped, Live
<1>7. Untouched' /\ Schemed' /\ Epochal' /\ AdoptedEpoch'
  BY <1>0, <1>5 DEF Untouched, Schemed, Epochal, AdoptedEpoch
<1>8. DescribedOnOwnSchema'
  BY <1>0 DEF DescribedOnOwnSchema, Live, dev
<1>9. Guarded'
  BY <1>5 DEF Guarded
<1>10. Warmth' /\ SuccessIsWarm'
  BY <1>0, <1>3, <1>c, <1>l, <1>5
     DEF Warmth, WarmNow, Loaded, Live, LoadCatalog, LoadOracle, SuccessIsWarm, Compiling
<1> QED
  BY <1>4, <1>6, <1>7, <1>8, <1>9, <1>10

\* Every step preserves the inductive invariant.
LEMMA NextInv == Inv /\ [Next]_vars => Inv'
<1> SUFFICES ASSUME Inv, [Next]_vars PROVE Inv'
  OBVIOUS
<1>1. CASE UNCHANGED vars
  BY <1>1 DEF vars, dev, Inv, TypeOK, Scoped, Untouched, Schemed, Epochal, Renewed,
     Guarded,
         Detected, Warmth, WarmNow, Loaded, LoadOracle, LoadCatalog, Live,
         DescribedOnOwnSchema, AdoptedEpoch, SuccessIsWarm
<1>2. CASE Developer
  BY <1>2, EditTemplateInv, EditSchemaInv, ReplaceServerInv DEF Developer
<1>3. CASE Start \/ Crash
  BY <1>3, StartInv, CrashInv
<1>4. CASE Progress
  BY <1>4, AcquireRefusedInv, ResetInv, UnschemedInv, BuildNativeInv,
         ApplyOutlyingInv, ApplySchemaInv, ApplyFailsInv,
         AdmitInv, AdmitRefusedInv, SnapshotInv, SnapshotFailsInv, DescribeInv, DescribeFailsInv,
         DescribedInv, ResolveInv, PlanInv, ExpandClearInv, ExpandWriteInv, ExpandDoneInv, EmitInv,
         EmitDoneInv, RemoveStaleInv, StaleDoneInv, SweepEntryInv, SweepDoneInv, ExplainInv, ExplainDoneInv
     DEF Progress
<1> QED
  BY <1>1, <1>2, <1>3, <1>4 DEF Next

\* The inductive invariant holds in every reachable state.
THEOREM PipelineInvariance == Spec => []Inv
BY InitInv, NextInv, PTL DEF Spec

\* Every variable of the pipeline keeps its type.
THEOREM PipelineTypes == Spec => []TypeOK
BY PipelineInvariance, PTL DEF Inv

\* A run that is turned away, on the cold path or the exhaustive one, leaves
\* the committed cache as it found it.
THEOREM RefusalsWriteNothing == Spec => []RefusedUntouched
<1>1. Inv => RefusedUntouched
  BY DEF Inv, Untouched, RefusedUntouched
<1> QED
  BY <1>1, PipelineInvariance, PTL

\* Within the reset's reach no committed description was computed on another
\* schema than its own, and on a database of the run's own none anywhere.
THEOREM DescriptionsMatchSchema == Spec => []DescribedOnOwnSchema
BY PipelineInvariance, PTL DEF Inv

\* A run that adopts a snapshot compiles from that snapshot's epoch alone.
THEOREM AdoptionIsComplete == Spec => []AdoptedEpoch
BY PipelineInvariance, PTL DEF Inv

\* After a successful run a second run over the same files stays offline.
THEOREM SuccessStaysOffline == Spec => []SuccessIsWarm
BY PipelineInvariance, PTL DEF Inv

\* A user-supplied database changes only for a run with --allow-destructive
\* that has a miss or is exhaustive.
THEOREM ConsentBeforeReset == Spec => ResetNeedsConsent
<1> DEFINE A == cfg.backend = "dsn" /\ db' # db =>
                   run.destructive /\ (run.cold \/ run.mode = "exhaustive")
<1>1. ASSUME Inv, Next PROVE A
  <2>1. CASE Reset
    BY <1>1, <2>1 DEF Reset, GuardReset, Inv, Guarded
  <2>2. CASE BuildNative \/ ApplyOutlying \/ ApplySchema
    BY <1>1, <2>2 DEF BuildNative, ApplyOutlying, ApplySchema, Inv, Guarded
  <2>4. CASE Unschemed
    <3>1. cfg.backend = "dsn" => db' = [epoch |-> db.epoch, holds |-> db.holds]
      BY <2>4 DEF Unschemed, Opened
    <3> QED
      BY <1>1, <3>1 DEF Inv, TypeOK
  <2>3. CASE ~(Reset \/ Unschemed \/ BuildNative \/ ApplyOutlying \/ ApplySchema)
    <3>1. db' = db
      BY <1>1, <2>3 DEF Next, Developer, Progress,
         EditTemplate, EditSchema, ReplaceServer, Start, Crash,
         AcquireRefused, ApplyFails, Admit, AdmitRefused, Snapshot,
         SnapshotFails, Describe, DescribeFails, Described, Resolve, Plan,
         ExpandClear, ExpandWrite, ExpandDone, Emit, EmitDone, RemoveStale,
         StaleDone, SweepEntry, SweepDone, Explain, ExplainDone
    <3> QED
      BY <3>1
  <2> QED
    BY <2>1, <2>2, <2>3, <2>4
<1>2. Inv /\ [Next]_vars => [A]_vars
  BY <1>1
<1> QED
  BY <1>2, PipelineInvariance, PTL DEF Spec, ResetNeedsConsent

\* An entry is only ever written beside the record of the server that typed
\* it.
THEOREM EntriesUnderRecord == Spec => WrittenUnderRecord
<1> DEFINE A == \A r \in Refs : tree'.entries[r] \notin {None, tree.entries[r]} =>
                   LET e == tree'.entries[r]
                   IN  tree'.env = [fp |-> e.fp, ver |-> e.ver]
<1>1. ASSUME Inv, Next PROVE A
  <2>1. CASE Describe
    <3>1. PICK r \in run.todo : tree' = [tree EXCEPT !.entries[r] = DescOf(r)]
      BY <2>1 DEF Describe
    <3>2. tree.env = [fp |-> run.fp, ver |-> Detected] /\ tree \in Tree /\ r \in Refs
      BY <1>1, <2>1 DEF Describe, Inv, Guarded, TypeOK, RunState
    <3> QED
      BY <3>1, <3>2 DEF Tree, DescOf
  <2>2. CASE SweepEntry
    <3>1. PICK r \in run.todo : tree' = [tree EXCEPT !.entries[r] = None]
      BY <2>2 DEF SweepEntry
    <3> QED
      BY <1>1, <3>1 DEF Inv, TypeOK, Tree
  <2>3. CASE Snapshot \/ Admit \/ StaleDone
    <3>1. tree'.entries = tree.entries
      BY <1>1, <2>3 DEF Snapshot, Admit, SaveEnv, StaleDone, Inv, TypeOK, Tree
    <3> QED
      BY <3>1
  <2>4. CASE ~(Describe \/ SweepEntry \/ Snapshot \/ Admit \/ StaleDone)
    <3>1. tree' = tree
      BY <1>1, <2>4 DEF Next, Developer, Progress,
         EditTemplate, EditSchema, ReplaceServer, Start, Crash,
         AcquireRefused, Reset, Unschemed, BuildNative, ApplyOutlying, ApplySchema, ApplyFails,
         AdmitRefused, SnapshotFails, DescribeFails, Described, Resolve, Plan,
         ExpandClear, ExpandWrite, ExpandDone, Emit, EmitDone, RemoveStale,
         SweepDone, Explain, ExplainDone
    <3> QED
      BY <3>1
  <2> QED
    BY <2>1, <2>2, <2>3, <2>4
<1>2. ASSUME Inv, [Next]_vars PROVE [A]_vars
  BY <1>1, <1>2
<1> QED
  BY <1>2, PipelineInvariance, PTL DEF Spec, WrittenUnderRecord

\* A check deletes no entry and no legacy file and touches no output.
THEOREM ChecksKeepFiles == Spec => CheckKeepsFiles
<1> DEFINE A == run.mode # "generate" =>
                   /\ outputs' = outputs
                   /\ tree'.legacy = tree.legacy
                   /\ Live(tree.entries) \subseteq Live(tree'.entries)
<1>1. ASSUME Inv, Next PROVE A
  <2>1. CASE ExpandClear \/ ExpandWrite \/ Emit \/ RemoveStale \/ StaleDone
             \/ SweepEntry \/ Explain
    <3>1. run.mode = "generate"
      BY <1>1, <2>1 DEF Inv, Guarded, ExpandClear, ExpandWrite, Emit, RemoveStale,
                        StaleDone, SweepEntry, Explain
    <3> QED
      BY <3>1
  <2>2. CASE Describe
    <3>1. PICK r \in run.todo : tree' = [tree EXCEPT !.entries[r] = DescOf(r)]
      BY <2>2 DEF Describe
    <3>2. DescOf(r) \in Desc
      BY <1>1, <2>2
         DEF Describe, Inv, TypeOK, RunState, Scoped, Schemed, Live, DescOf, Desc, Detected
    <3> QED
      BY <1>1, <2>2, <3>1, <3>2, NoneAssumption DEF Describe, Inv, TypeOK, Tree, Live
  <2>3. CASE Snapshot \/ Admit
    <3>1. /\ tree'.entries = tree.entries /\ tree'.legacy = tree.legacy
          /\ outputs' = outputs
      BY <1>1, <2>3 DEF Snapshot, Admit, SaveEnv, Inv, TypeOK, Tree
    <3> QED
      BY <3>1
  <2>4. CASE ~(\/ ExpandClear \/ ExpandWrite \/ Emit \/ RemoveStale \/ StaleDone
               \/ SweepEntry \/ Explain \/ Describe \/ Snapshot \/ Admit)
    <3>1. tree' = tree /\ outputs' = outputs
      BY <1>1, <2>4 DEF Next, Developer, Progress,
         EditTemplate, EditSchema, ReplaceServer, Start, Crash,
         AcquireRefused, Reset, Unschemed, BuildNative, ApplyOutlying, ApplySchema, ApplyFails,
         AdmitRefused, SnapshotFails, DescribeFails, Described, Resolve, Plan,
         ExpandDone, EmitDone, SweepDone, ExplainDone
    <3> QED
      BY <3>1
  <2> QED
    BY <2>1, <2>2, <2>3, <2>4
<1>2. ASSUME Inv, [Next]_vars PROVE [A]_vars
  BY <1>1, <1>2
<1> QED
  BY <1>2, PipelineInvariance, PTL DEF Spec, CheckKeepsFiles

-----------------------------------------------------------------------------
(***************************************************************************)
(* A successful generate leaves exactly the live set behind.  The          *)
(* invariant says what each writing phase of a run has achieved and what   *)
(* the next one may rely on; PipelineProofs' Inv supplies that the cache   *)
(* answers every rendering in those phases, so that the sweep, which       *)
(* deletes what the run did not ask for, deletes none of them.             *)
(***************************************************************************)

\* Only an exhaustive run plans shapes.
Planned ==
    /\ run.pc = "admit" => run.cold \/ run.mode = "exhaustive"
    /\ run.pc = "plan" => run.mode = "exhaustive"

\* Behind a symlink no catalog is ever committed, so nothing is generated.
Linked == cfg.link => tree.catalog = None /\ run.pc \notin {"snapshot", "describe"}

\* The expansions: the listed renderings not worked off yet are still to do.
Expansions ==
    /\ run.pc = "expand" =>
          \A r \in Live(run.scanned) \cap Expanded :
             r \in run.todo \/ outputs.expanded[r] = Emitted(r)
    /\ run.pc \in {"emit", "stale", "sweep", "explain"} =>
          \A r \in Live(run.scanned) \cap Expanded : outputs.expanded[r] = Emitted(r)

\* The code of every live rendering, kept by the removal of stale files.
Emissions ==
    /\ run.pc = "emit" =>
          \A r \in Live(run.scanned) : r \in run.todo \/ outputs.gen[r] = Emitted(r)
    /\ run.pc \in {"stale", "sweep", "explain"} =>
          \A r \in Live(run.scanned) : outputs.gen[r] = Emitted(r)

\* The generated files of anything else.
Prunings ==
    ~cfg.outOutside =>
        /\ run.pc = "stale" => Live(outputs.gen) \subseteq Live(run.scanned) \cup run.todo
        /\ run.pc \in {"sweep", "explain"} =>
              Live(outputs.gen) \subseteq Live(run.scanned)

\* The committed entries of anything else.
Sweepings ==
    ~cfg.cacheOutside =>
        /\ run.pc \in {"sweep", "explain"} => ~tree.legacy
        /\ run.pc = "sweep" => Live(tree.entries) \subseteq Live(run.scanned) \cup run.todo
        /\ run.pc = "explain" => Live(tree.entries) \subseteq Live(run.scanned)

\* The explain data.
Explanations ==
    run.pc = "explain" =>
        \A r \in Live(run.scanned) :
           r \in run.todo \/ run.errors \/ outputs.explain[r] = Emitted(r)

ExactInv == /\ Planned /\ Linked /\ Expansions /\ Emissions /\ Prunings /\ Sweepings
            /\ Explanations /\ GenerateExact

Writing == {"expand", "emit", "stale", "sweep", "explain"}

\* What the writing phases have achieved.
Written == Expansions /\ Emissions /\ Prunings /\ Sweepings /\ Explanations

\* The initial states have no run.
LEMMA InitExact == Init => ExactInv
BY DEF Init, ExactInv, Planned, Linked, Expansions, Emissions, Prunings, Sweepings,
       Explanations, GenerateExact

\* A step that touches neither the run nor its files: the developer's.
LEMMA IdleStep ==
    ASSUME ExactInv, run' = run, outputs' = outputs, tree' = tree, cfg' = cfg
    PROVE  ExactInv'
BY DEF ExactInv, Planned, Linked, Expansions, Emissions, Prunings, Sweepings,
       Explanations, GenerateExact, Emitted, Live

\* A step that leaves a run outside its writing phases, and does not end a
\* generate with success, has nothing to show.
LEMMA QuietStep ==
    ASSUME run'.pc \notin Writing,
           ~(run'.pc = "idle" /\ run'.outcome = "ok" /\ run'.mode = "generate")
    PROVE  Written' /\ GenerateExact'
BY DEF Writing, Written, Expansions, Emissions, Prunings, Sweepings, Explanations,
       GenerateExact

\* While a run writes its outputs the committed cache is not behind a symlink
\* and holds an entry for every live rendering.
LEMMA WritingFacts ==
    ASSUME Inv, ExactInv, run.pc \in Writing
    PROVE  /\ ~cfg.link
           /\ tree.catalog # None
           /\ Live(run.scanned) \subseteq Live(tree.entries)
           /\ run.mode = "generate" /\ run \in RunState
<1>1. WarmNow
  BY DEF Writing, Inv, Warmth, Compiling
<1>2. tree.catalog # None
  BY <1>1 DEF WarmNow, LoadCatalog
<1>3. Live(run.scanned) \subseteq Live(tree.entries)
  BY <1>1 DEF WarmNow, Loaded, LoadOracle, Live
<1> QED
  BY <1>2, <1>3 DEF Writing, ExactInv, Linked, Inv, Guarded, TypeOK

\* The steps before the database answers: refusals and failures end the run
\* without success, the others leave it short of its writing phases.
LEMMA AcquireExact ==
    ASSUME Inv, ExactInv,
           \/ AcquireRefused \/ Reset \/ Unschemed \/ BuildNative
           \/ ApplyOutlying \/ ApplySchema \/ ApplyFails
           \/ AdmitRefused \/ SnapshotFails
    PROVE  ExactInv'
<1>0. run \in RunState
  BY DEF Inv, TypeOK
<1>1. cfg' = cfg /\ tree' = tree
  BY DEF AcquireRefused, Reset, Unschemed, BuildNative, ApplyOutlying, ApplySchema, ApplyFails, AdmitRefused,
     SnapshotFails, dev
<1>2. /\ run'.pc \in {"idle", "outlying", "apply", "admit"}
      /\ run'.pc = "idle" => run'.outcome \in {"refused", "failed"}
      /\ run'.mode = run.mode /\ run'.cold = run.cold
      /\ run'.pc = "admit" => run.pc \in {"acquire", "apply"}
  BY <1>0 DEF AcquireRefused, Reset, Unschemed, BuildNative, ApplyOutlying, ApplySchema, ApplyFails, AdmitRefused,
     SnapshotFails, End, Goto, RunState
<1>3. Written' /\ GenerateExact'
  BY <1>2, QuietStep DEF Writing
<1>4. Planned'
  BY <1>2 DEF Planned, Inv, Guarded
<1>5. Linked'
  BY <1>1, <1>2 DEF ExactInv, Linked
<1> QED
  BY <1>3, <1>4, <1>5 DEF ExactInv, Written

\* Admission needs a cache that is not behind a symlink.
LEMMA AdmitExact == ASSUME Inv, ExactInv, Admit PROVE ExactInv'
<1>0. run \in RunState /\ tree \in Tree
  BY DEF Inv, TypeOK
<1>1. cfg' = cfg /\ ~cfg.link
  BY DEF Admit, dev
<1>2. /\ run'.pc = IF run.cold THEN "snapshot" ELSE "plan"
      /\ run'.mode = run.mode
  BY <1>0 DEF Admit, Admitted, RunState
<1>3. Written' /\ GenerateExact'
  BY <1>2, QuietStep DEF Writing
<1>4. Planned'
  BY <1>2 DEF Admit, ExactInv, Planned
<1>5. Linked'
  BY <1>1 DEF Linked
<1> QED
  BY <1>3, <1>4, <1>5 DEF ExactInv, Written

\* The steps that fill the misses come after admission.
LEMMA FillExact ==
    ASSUME Inv, ExactInv, Snapshot \/ Describe \/ DescribeFails \/ Described
    PROVE  ExactInv'
<1>0. run \in RunState
  BY DEF Inv, TypeOK
<1>1. cfg' = cfg /\ ~cfg.link
  BY DEF Snapshot, Describe, DescribeFails, Described, dev, ExactInv, Linked
<1>2. /\ run'.pc \in {"idle", "describe", "resolve"}
      /\ run'.pc = "idle" => run'.outcome = "failed"
  BY <1>0 DEF Snapshot, Describe, DescribeFails, Described, End, Goto, RunState
<1>3. Written' /\ GenerateExact'
  BY <1>2, QuietStep DEF Writing
<1>4. Planned' /\ Linked'
  BY <1>1, <1>2 DEF Planned, Linked
<1> QED
  BY <1>3, <1>4 DEF ExactInv, Written

\* A new run, or the end of one by a signal.
LEMMA StartExact == ASSUME Inv, ExactInv, Start \/ Crash PROVE ExactInv'
<1>0. run \in RunState
  BY DEF Inv, TypeOK
<1>1. cfg' = cfg /\ tree' = tree
  BY DEF Start, Crash, dev
<1>2. /\ run'.pc \in {"idle", "acquire", "resolve"}
      /\ run'.outcome # "ok"
  <2>1. CASE Start
    BY <2>1 DEF Start, Begin
  <2>2. CASE Crash
    BY <1>0, <2>2 DEF Crash, End, RunState
  <2> QED
    BY <2>1, <2>2
<1>3. Written' /\ GenerateExact'
  BY <1>2, QuietStep DEF Writing
<1>4. Planned' /\ Linked'
  BY <1>1, <1>2 DEF ExactInv, Planned, Linked
<1> QED
  BY <1>3, <1>4 DEF ExactInv, Written

\* Planning belongs to an exhaustive run.
LEMMA PlanExact == ASSUME Inv, ExactInv, Plan PROVE ExactInv'
<1>0. run \in RunState
  BY DEF Inv, TypeOK
<1>1. cfg' = cfg /\ tree' = tree
  BY DEF Plan, dev
<1>2. run'.pc = "idle" /\ run'.mode = "exhaustive"
  BY <1>0 DEF Plan, End, RunState, ExactInv, Planned
<1>3. Written' /\ GenerateExact'
  BY <1>2, QuietStep DEF Writing
<1>4. Planned' /\ Linked'
  BY <1>1, <1>2 DEF ExactInv, Planned, Linked
<1> QED
  BY <1>3, <1>4 DEF ExactInv, Written

\* The checks passed: a generate starts with every listed expansion to do.
LEMMA ResolveExact == ASSUME Inv, ExactInv, Resolve PROVE ExactInv'
<1>0. run \in RunState
  BY DEF Inv, TypeOK
<1>1. cfg' = cfg /\ tree' = tree
  BY DEF Resolve, dev
<1>2. ~cfg.link
  BY DEF Resolve, Inv, Warmth, Compiling, WarmNow, LoadCatalog, ExactInv, Linked
<1>3. CASE run'.pc \notin Writing
  <2>1. /\ run'.pc = "idle" => run'.outcome = "failed" \/ run'.mode = "check"
        /\ run'.pc \in {"idle", "plan", "acquire"}
        /\ run'.pc = "plan" => run'.mode = "exhaustive"
    BY <1>0, <1>3 DEF Resolve, End, Goto, RunState, Writing
  <2>2. Written' /\ GenerateExact'
    BY <1>3, <2>1, QuietStep
  <2>3. Planned' /\ Linked'
    BY <1>1, <1>2, <2>1 DEF Planned, Linked
  <2> QED
    BY <2>2, <2>3 DEF ExactInv, Written
<1>4. CASE run'.pc \in Writing
  <2>1. run' = [run EXCEPT !.pc = "expand", !.todo = Live(run.scanned) \cap Expanded]
    BY <1>0, <1>4 DEF Resolve, End, Goto, RunState, Writing
  <2>2. /\ run'.pc = "expand" /\ run'.scanned = run.scanned
        /\ run'.todo = Live(run.scanned) \cap Expanded
    BY <1>0, <2>1 DEF RunState
  <2>3. Expansions'
    BY <2>2 DEF Expansions, Live
  <2>4. Emissions' /\ Prunings' /\ Sweepings' /\ Explanations' /\ GenerateExact'
        /\ Planned'
    BY <2>2 DEF Emissions, Prunings, Sweepings, Explanations, GenerateExact, Planned
  <2>5. Linked'
    BY <1>1, <1>2 DEF Linked
  <2> QED
    BY <2>3, <2>4, <2>5 DEF ExactInv
<1> QED
  BY <1>3, <1>4

\* A step within the writing phases keeps what the run has read, and stays a
\* generate that is not behind a symlink.
LEMMA WritingKeeps ==
    ASSUME Inv, ExactInv, run.pc \in Writing, cfg' = cfg, run'.pc \in Writing
    PROVE  Planned' /\ Linked' /\ GenerateExact'
BY WritingFacts DEF Planned, Linked, GenerateExact, Writing

\* Clearing an expansion directory concerns a rendering still to do.
LEMMA ExpandClearExact == ASSUME Inv, ExactInv, ExpandClear PROVE ExactInv'
<1>0. run \in RunState /\ outputs \in Outputs
  BY DEF Inv, TypeOK
<1>1. cfg' = cfg /\ tree' = tree /\ run' = run /\ run.pc = "expand"
  BY DEF ExpandClear, dev
<1>2. PICK r \in run.todo : outputs' = [outputs EXCEPT !.expanded[r] = None]
  BY DEF ExpandClear
<1>3. \A q \in Refs : q # r => outputs'.expanded[q] = outputs.expanded[q]
  BY <1>0, <1>2 DEF Outputs
<1>4. Expansions'
  BY <1>1, <1>2, <1>3 DEF ExactInv, Expansions, Live, Emitted
<1>5. Emissions' /\ Prunings' /\ Sweepings' /\ Explanations'
  BY <1>1 DEF Emissions, Prunings, Sweepings, Explanations
<1>6. Planned' /\ Linked' /\ GenerateExact'
  BY <1>1, WritingKeeps DEF Writing
<1> QED
  BY <1>4, <1>5, <1>6 DEF ExactInv

\* A written expansion is the one of the files the run read.
LEMMA ExpandWriteExact == ASSUME Inv, ExactInv, ExpandWrite PROVE ExactInv'
<1>0. run \in RunState /\ outputs \in Outputs
  BY DEF Inv, TypeOK
<1>1. cfg' = cfg /\ tree' = tree /\ run.pc = "expand"
  BY DEF ExpandWrite, dev
<1>2. PICK r \in run.todo : /\ outputs' = [outputs EXCEPT !.expanded[r] = Emitted(r)]
                            /\ run' = [run EXCEPT !.todo = @ \ {r}]
  BY DEF ExpandWrite
<1>3. /\ run'.pc = "expand" /\ run'.scanned = run.scanned /\ run'.fp = run.fp
      /\ run'.todo = run.todo \ {r} /\ r \in Refs
  BY <1>0, <1>1, <1>2 DEF RunState
<1>4. /\ \A q \in Refs : q # r => outputs'.expanded[q] = outputs.expanded[q]
      /\ outputs'.expanded[r] = Emitted(r)
  BY <1>0, <1>2, <1>3 DEF Outputs
<1>5. Expansions'
  BY <1>1, <1>3, <1>4 DEF ExactInv, Expansions, Live, Emitted
<1>6. Emissions' /\ Prunings' /\ Sweepings' /\ Explanations'
  BY <1>3 DEF Emissions, Prunings, Sweepings, Explanations
<1>7. Planned' /\ Linked' /\ GenerateExact'
  BY <1>1, <1>3, WritingKeeps DEF Writing
<1> QED
  BY <1>5, <1>6, <1>7 DEF ExactInv

\* Emission starts with every listed expansion written and all code to do.
LEMMA ExpandDoneExact == ASSUME Inv, ExactInv, ExpandDone PROVE ExactInv'
<1>0. run \in RunState
  BY DEF Inv, TypeOK
<1>1. cfg' = cfg /\ tree' = tree /\ outputs' = outputs /\ run.pc = "expand"
  BY DEF ExpandDone, dev
<1>2. CASE run.todo # {}
  <2>1. run'.pc = "idle" /\ run'.outcome = "failed"
    BY <1>0, <1>2 DEF ExpandDone, End, RunState
  <2>2. Written' /\ GenerateExact'
    BY <2>1, QuietStep DEF Writing
  <2>3. Planned' /\ Linked'
    BY <1>1, <2>1 DEF Planned, Linked, ExactInv
  <2> QED
    BY <2>2, <2>3 DEF ExactInv, Written
<1>3. CASE run.todo = {}
  <2>1. /\ run'.pc = "emit" /\ run'.scanned = run.scanned /\ run'.fp = run.fp
        /\ run'.todo = Live(run.scanned)
    BY <1>0, <1>3 DEF ExpandDone, RunState
  <2>2. Expansions' /\ Emissions'
    BY <1>1, <1>3, <2>1 DEF ExactInv, Expansions, Emissions, Live, Emitted
  <2>3. Prunings' /\ Sweepings' /\ Explanations'
    BY <2>1 DEF Prunings, Sweepings, Explanations
  <2>4. Planned' /\ Linked' /\ GenerateExact'
    BY <1>1, <2>1, WritingKeeps DEF Writing
  <2> QED
    BY <2>2, <2>3, <2>4 DEF ExactInv
<1> QED
  BY <1>2, <1>3

\* Emitted code is that of the files the run read.
LEMMA EmitExact == ASSUME Inv, ExactInv, Emit PROVE ExactInv'
<1>0. run \in RunState /\ outputs \in Outputs
  BY DEF Inv, TypeOK
<1>1. cfg' = cfg /\ tree' = tree /\ run.pc = "emit"
  BY DEF Emit, dev
<1>2. PICK r \in run.todo : /\ outputs' = [outputs EXCEPT !.gen[r] = Emitted(r)]
                            /\ run' = [run EXCEPT !.todo = @ \ {r}]
  BY DEF Emit
<1>3. /\ run'.pc = "emit" /\ run'.scanned = run.scanned /\ run'.fp = run.fp
      /\ run'.todo = run.todo \ {r} /\ r \in Refs
  BY <1>0, <1>1, <1>2 DEF RunState
<1>4. /\ \A q \in Refs : q # r => outputs'.gen[q] = outputs.gen[q]
      /\ outputs'.gen[r] = Emitted(r) /\ outputs'.expanded = outputs.expanded
  BY <1>0, <1>2, <1>3 DEF Outputs
<1>5. Expansions'
  BY <1>1, <1>3, <1>4 DEF ExactInv, Expansions, Live, Emitted
<1>6. Emissions'
  BY <1>1, <1>3, <1>4 DEF ExactInv, Emissions, Live, Emitted
<1>7. Prunings' /\ Sweepings' /\ Explanations'
  BY <1>3 DEF Prunings, Sweepings, Explanations
<1>8. Planned' /\ Linked' /\ GenerateExact'
  BY <1>1, <1>3, WritingKeeps DEF Writing
<1> QED
  BY <1>5, <1>6, <1>7, <1>8 DEF ExactInv

\* The stale files are the generated ones that no live rendering owns.
LEMMA EmitDoneExact == ASSUME Inv, ExactInv, EmitDone PROVE ExactInv'
<1>0. run \in RunState
  BY DEF Inv, TypeOK
<1>1. /\ cfg' = cfg /\ tree' = tree /\ outputs' = outputs
      /\ run.pc = "emit" /\ run.todo = {}
  BY DEF EmitDone, dev
<1>2. /\ run'.pc = "stale" /\ run'.scanned = run.scanned /\ run'.fp = run.fp
      /\ run'.todo = IF cfg.outOutside THEN {} ELSE Live(outputs.gen) \ Live(run.scanned)
  BY <1>0 DEF EmitDone, RunState
<1>3. Expansions' /\ Emissions'
  BY <1>1, <1>2 DEF ExactInv, Expansions, Emissions, Live, Emitted
<1>4. Prunings'
  BY <1>1, <1>2 DEF Prunings, Live
<1>5. Sweepings' /\ Explanations'
  BY <1>2 DEF Sweepings, Explanations
<1>6. Planned' /\ Linked' /\ GenerateExact'
  BY <1>1, <1>2, WritingKeeps DEF Writing
<1> QED
  BY <1>3, <1>4, <1>5, <1>6 DEF ExactInv

\* A removed file belongs to no live rendering.
LEMMA RemoveStaleExact == ASSUME Inv, ExactInv, RemoveStale PROVE ExactInv'
<1>0. run \in RunState /\ outputs \in Outputs
  BY DEF Inv, TypeOK
<1>1. cfg' = cfg /\ tree' = tree /\ run.pc = "stale"
  BY DEF RemoveStale, dev
<1>2. PICK r \in run.todo : /\ outputs' = [outputs EXCEPT !.gen[r] = None]
                            /\ run' = [run EXCEPT !.todo = @ \ {r}]
  BY DEF RemoveStale
<1>3. /\ run'.pc = "stale" /\ run'.scanned = run.scanned /\ run'.fp = run.fp
      /\ run'.todo = run.todo \ {r} /\ r \in Refs
  BY <1>0, <1>1, <1>2 DEF RunState
<1>4. /\ \A q \in Refs : q # r => outputs'.gen[q] = outputs.gen[q]
      /\ outputs'.gen[r] = None /\ outputs'.expanded = outputs.expanded
  BY <1>0, <1>2, <1>3 DEF Outputs
<1>5. r \notin Live(run.scanned)
  BY <1>1, <1>2 DEF Inv, Warmth
<1>6. Expansions' /\ Emissions'
  BY <1>1, <1>3, <1>4, <1>5 DEF ExactInv, Expansions, Emissions, Live, Emitted
<1>7. Prunings'
  BY <1>1, <1>3, <1>4 DEF ExactInv, Prunings, Live
<1>8. Sweepings' /\ Explanations'
  BY <1>3 DEF Sweepings, Explanations
<1>9. Planned' /\ Linked' /\ GenerateExact'
  BY <1>1, <1>3, WritingKeeps DEF Writing
<1> QED
  BY <1>6, <1>7, <1>8, <1>9 DEF ExactInv

\* The sweep starts with every entry of anything else to do; a cache outside
\* the project is not swept.
LEMMA StaleDoneExact == ASSUME Inv, ExactInv, StaleDone PROVE ExactInv'
<1>0. run \in RunState /\ tree \in Tree
  BY DEF Inv, TypeOK
<1>1. cfg' = cfg /\ outputs' = outputs /\ run.pc = "stale" /\ run.todo = {}
  BY DEF StaleDone, dev
<1>2. ~cfg.link
  BY <1>1, WritingFacts DEF Writing
<1>3. /\ run'.pc \in {"sweep", "explain"} /\ run'.scanned = run.scanned
      /\ run'.fp = run.fp
      /\ run'.pc = "explain" => cfg.cacheOutside /\ run'.todo = Live(run.scanned)
      /\ run'.pc = "sweep" => /\ run'.todo = Live(tree.entries) \ Live(run.scanned)
                              /\ ~tree'.legacy /\ tree'.entries = tree.entries
  BY <1>0, <1>2 DEF StaleDone, RunState, Tree, Superseded
<1>4. Expansions' /\ Emissions'
  BY <1>1, <1>3 DEF ExactInv, Expansions, Emissions, Live, Emitted
<1>5. Prunings'
  BY <1>1, <1>3 DEF ExactInv, Prunings, Live
<1>6. Sweepings'
  BY <1>1, <1>3 DEF Sweepings, Live
<1>7. Explanations'
  BY <1>3 DEF Explanations, Live
<1>8. Planned' /\ Linked' /\ GenerateExact'
  BY <1>1, <1>3, WritingKeeps DEF Writing
<1> QED
  BY <1>4, <1>5, <1>6, <1>7, <1>8 DEF ExactInv

\* Sweeping takes one superseded entry off the list and out of the cache.
LEMMA SweepEntryExact == ASSUME Inv, ExactInv, SweepEntry PROVE ExactInv'
<1>0. run \in RunState /\ tree \in Tree
  BY DEF Inv, TypeOK
<1>1. cfg' = cfg /\ outputs' = outputs /\ run.pc = "sweep"
  BY DEF SweepEntry, dev
<1>2. PICK r \in run.todo : /\ tree' = [tree EXCEPT !.entries[r] = None]
                            /\ run' = [run EXCEPT !.todo = @ \ {r}]
  BY DEF SweepEntry
<1>3. /\ run'.pc = "sweep" /\ run'.scanned = run.scanned /\ run'.fp = run.fp
      /\ run'.todo = run.todo \ {r} /\ r \in Refs
  BY <1>0, <1>1, <1>2 DEF RunState
<1>4. /\ \A q \in Refs : q # r => tree'.entries[q] = tree.entries[q]
      /\ tree'.entries[r] = None /\ tree'.legacy = tree.legacy
  BY <1>0, <1>2, <1>3 DEF Tree
<1>5. Expansions' /\ Emissions'
  BY <1>1, <1>3 DEF ExactInv, Expansions, Emissions, Live, Emitted
<1>6. Prunings'
  BY <1>1, <1>3 DEF ExactInv, Prunings, Live
<1>7. Sweepings'
  BY <1>1, <1>3, <1>4 DEF ExactInv, Sweepings, Live
<1>8. Explanations'
  BY <1>3 DEF Explanations
<1>9. Planned' /\ Linked' /\ GenerateExact'
  BY <1>1, <1>3, WritingKeeps DEF Writing
<1> QED
  BY <1>5, <1>6, <1>7, <1>8, <1>9 DEF ExactInv

\* Explain data starts once nothing is left to sweep.
LEMMA SweepDoneExact == ASSUME Inv, ExactInv, SweepDone PROVE ExactInv'
<1>0. run \in RunState
  BY DEF Inv, TypeOK
<1>1. /\ cfg' = cfg /\ outputs' = outputs /\ tree' = tree
      /\ run.pc = "sweep" /\ run.todo = {}
  BY DEF SweepDone, dev
<1>2. /\ run'.pc = "explain" /\ run'.scanned = run.scanned /\ run'.fp = run.fp
      /\ run'.todo = Live(run.scanned)
  BY <1>0 DEF SweepDone, RunState
<1>3. Expansions' /\ Emissions'
  BY <1>1, <1>2 DEF ExactInv, Expansions, Emissions, Live, Emitted
<1>4. Prunings' /\ Sweepings'
  BY <1>1, <1>2 DEF ExactInv, Prunings, Sweepings, Live
<1>5. Explanations'
  BY <1>2 DEF Explanations, Live
<1>6. Planned' /\ Linked' /\ GenerateExact'
  BY <1>1, <1>2, WritingKeeps DEF Writing
<1> QED
  BY <1>3, <1>4, <1>5, <1>6 DEF ExactInv

\* A rendering's explain data is written, or its symlink reported.
LEMMA ExplainExact == ASSUME Inv, ExactInv, Explain PROVE ExactInv'
<1>0. run \in RunState /\ outputs \in Outputs
  BY DEF Inv, TypeOK
<1>1. cfg' = cfg /\ tree' = tree /\ run.pc = "explain"
  BY DEF Explain, dev
<1>2. PICK r \in run.todo :
         /\ outputs' = IF cfg.derivedLink THEN outputs
                       ELSE [outputs EXCEPT !.explain[r] = Emitted(r)]
         /\ run' = [run EXCEPT !.todo = @ \ {r}, !.errors = @ \/ cfg.derivedLink]
  BY DEF Explain
<1>3. /\ run'.pc = "explain" /\ run'.scanned = run.scanned /\ run'.fp = run.fp
      /\ run'.todo = run.todo \ {r} /\ r \in Refs
      /\ run'.errors <=> run.errors \/ cfg.derivedLink
  BY <1>0, <1>1, <1>2 DEF RunState
<1>4. /\ \A q \in Refs : q # r => outputs'.explain[q] = outputs.explain[q]
      /\ cfg.derivedLink \/ outputs'.explain[r] = Emitted(r)
      /\ outputs'.gen = outputs.gen /\ outputs'.expanded = outputs.expanded
  BY <1>0, <1>2, <1>3 DEF Outputs
<1>5. Expansions' /\ Emissions'
  BY <1>1, <1>3, <1>4 DEF ExactInv, Expansions, Emissions, Live, Emitted
<1>6. Prunings' /\ Sweepings'
  BY <1>1, <1>3, <1>4 DEF ExactInv, Prunings, Sweepings, Live
<1>7. Explanations'
  BY <1>1, <1>3, <1>4 DEF ExactInv, Explanations, Live, Emitted
<1>8. Planned' /\ Linked' /\ GenerateExact'
  BY <1>1, <1>3, WritingKeeps DEF Writing
<1> QED
  BY <1>5, <1>6, <1>7, <1>8 DEF ExactInv

\* A generate that ends with success has worked everything off.
LEMMA ExplainDoneExact == ASSUME Inv, ExactInv, ExplainDone PROVE ExactInv'
<1>0. run \in RunState /\ outputs \in Outputs
  BY DEF Inv, TypeOK
<1>1. /\ cfg' = cfg /\ tree' = tree /\ outputs' = outputs
      /\ run.pc = "explain" /\ run.todo = {}
  BY DEF ExplainDone, dev
<1>2. /\ run'.pc = "idle" /\ run'.scanned = run.scanned /\ run'.fp = run.fp
      /\ run'.outcome = IF run.errors THEN "failed" ELSE "ok"
  BY <1>0 DEF ExplainDone, End, RunState
<1>3. CASE run.errors
  <2>1. Written' /\ GenerateExact'
    BY <1>2, <1>3, QuietStep DEF Writing
  <2> QED
    BY <1>1, <1>2, <2>1 DEF ExactInv, Written, Planned, Linked
<1>4. CASE ~run.errors
  <2>1. \A r \in Live(run.scanned) :
           /\ outputs.gen[r] = Emitted(r) /\ outputs.explain[r] = Emitted(r)
           /\ r \in Expanded => outputs.expanded[r] = Emitted(r)
    BY <1>1, <1>4 DEF ExactInv, Emissions, Explanations, Expansions
  <2>2. \A r \in Live(run.scanned) : Emitted(r) # None
    <3>1. \A r \in Live(run.scanned) : Emitted(r) \in Emission
      BY <1>0 DEF RunState, Live, Emitted, Emission
    <3> QED
      BY <3>1, NoneAssumption
  <2>3. ~cfg.outOutside => Live(outputs.gen) = Live(run.scanned)
    BY <1>1, <2>1, <2>2 DEF ExactInv, Prunings, Live
  <2>4. ~cfg.cacheOutside => ~tree.legacy /\ Live(tree.entries) = Live(run.scanned)
    BY <1>1, WritingFacts DEF ExactInv, Sweepings, Writing
  <2>5. GenerateExact'
    BY <1>1, <1>2, <2>1, <2>3, <2>4 DEF GenerateExact, Live, Emitted
  <2>6. Written'
    BY <1>2 DEF Written, Expansions, Emissions, Prunings, Sweepings, Explanations
  <2> QED
    BY <1>1, <1>2, <2>5, <2>6 DEF ExactInv, Written, Planned, Linked
<1> QED
  BY <1>3, <1>4

\* Every step preserves the invariant.
LEMMA NextExact == Inv /\ ExactInv /\ [Next]_vars => ExactInv'
<1> SUFFICES ASSUME Inv, ExactInv, [Next]_vars PROVE ExactInv'
  OBVIOUS
<1>1. CASE UNCHANGED vars \/ Developer
  <2>1. run' = run /\ outputs' = outputs /\ tree' = tree /\ cfg' = cfg
    BY <1>1 DEF vars, dev, Developer, EditTemplate, EditSchema, ReplaceServer
  <2> QED
    BY <2>1, IdleStep
<1>2. CASE Start \/ Crash
  BY <1>2, StartExact
<1>3. CASE Progress
  BY <1>3, AcquireExact, AdmitExact, FillExact, ResolveExact, PlanExact,
     ExpandClearExact, ExpandWriteExact, ExpandDoneExact, EmitExact, EmitDoneExact,
     RemoveStaleExact, StaleDoneExact, SweepEntryExact, SweepDoneExact, ExplainExact,
     ExplainDoneExact
     DEF Progress
<1> QED
  BY <1>1, <1>2, <1>3 DEF Next

\* The phase invariant holds in every reachable state.
THEOREM GenerateInvariance == Spec => []ExactInv
BY InitExact, NextExact, PipelineInvariance, PTL DEF Spec

\* After a successful generate the tree is exactly the live set, and every
\* live rendering's code, expansion and explain data come from the files the
\* run read, whatever earlier runs failed or were killed and whatever was
\* edited meanwhile.
THEOREM GenerateIsExact == Spec => []GenerateExact
BY GenerateInvariance, PTL DEF ExactInv
=============================================================================
