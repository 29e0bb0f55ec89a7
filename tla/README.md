# TLA+ models of sqletch

sqletch compiles SQL templates to Go. A template is SQL with a few constructs
(`@if-present`, `@when`, `@choose`, `@order-by`, `@in`, `@filter-tree`) that
make parts of the statement depend on the call. At compile time every
representative *rendering* of a template is parsed, checked and described by a
development database; the descriptions are committed next to the code. At run
time a generated method derives a *shape key* from its arguments, composes the
statement of that shape out of verified fragments, and caches it.

Three promises carry the design: **what is sent is what was verified**, **what
was verified is what the committed files say**, and **what holds in the few
verified renderings holds in every shape**. The modules here model the code
behind all three.

## 1. Inventory

| Component | State it keeps | Operations | What makes it hard |
|---|---|---|---|
| Composed-SQL cache (`runtime/runtime.go`, `observe.go`) | map, recency list, published snapshot, byte ledger, counters, mutex | `entry` (hit without lock, deferred hit, miss, raced miss), `evictOne`, `remove`, `publish`, `SetMaxBytes`, `SetObserver`, `Stats` | lock-free readers race the eviction sweep; composition happens between two critical sections; the snapshot lags the map on purpose |
| Composer and bind plan (`runtime/runtime.go`, `codegen/frags.go`) | none; a composition in progress | `ComposeTreeStyle`, `ResolveArgs`, `ChooseOrdinal`, `OrderSeq`, `Lookup` | numbering of placeholders across fragments, trees and lists; 16-bit indices |
| Filter trees (`runtime/tree.go`) | none | `NewLeaf`, `And`, `Or`, caps, `validate`, encoding, emission | user-built recursive values whose encoding is a cache key |
| Template scanner (`template/scanner.go`) | the query being built, its clause, pending directives | headers, directives, clause tracking, one parser per construct, finalization | position-dependent bookkeeping over malformed input: everything later relies on it |
| Template model and R6, R7, R9 (`template/model.go`, `rules/lexical.go`) | none | items, occurrences, guard atoms, parameter discipline, pairing, anchors | a parameter may occur in several constructs at once |
| Renderer and shape space (`ast/render.go`, `ast/shape.go`, `shape/shape.go`) | none | `Renderings`, `RenderingCount`, shape names, enumeration | has to agree byte for byte with the runtime |
| Structural rules (`rules/r1.go`, `resolved.go`, `types.go`, `nullable_params.go`) | none | R1, R2, R3, type agreement, nullable parameters | judge all shapes from a handful of renderings |
| Nullability (`nullability/nullability.go`) | none | `Analyze` per rendering and their union | one wrong "not null" is a scan error in production |
| Policy weaver (`internal/policy`, `cli/weave.go`) | none | validate, `Weave`, `Enforce` | splices text into SQL by token scans; a miss exposes rows |
| Pipeline and committed cache (`cli/pipeline.go`, `cache/*`, `cli/serverdrift.go`, `cli/explainwrite.go`, `cli/derivedfs.go`) | `catalog.json`, `env.json`, one oracle entry per rendering, legacy files, generated code | `check`, `generate`, `--exhaustive` | a run may stop between any two writes; files are edited meanwhile; several checks decide whether a database may be reset |
| Development database (`internal/devdb`) | the schema a server holds | acquire, reset, apply | destructive; a run may die between reset and schema |
| Offline checker and language server (`cli/offline.go`, `internal/lsp`) | three memos, open documents, published diagnostics | open, change, save, close, a check of the workspace | files change between the signature and the read; memos at their cap; panics |
| Dialect front ends and lexers (`internal/dialect`) | none | adapters over third-party SQL parsers | where a node starts and what a name resolves to differ per dialect |
| Configuration, path patterns, lints, diagnostics, explain, OpenTelemetry | little or none | | |

How they interact: the pipeline calls the scanner, the policy weaver, the rules
and the renderer, then the cache store and, for what is missing, the development
database; with the descriptions it runs the rules that need types and the
nullability analysis, and hands the result to the code generator. Generated
code shares nothing with the pipeline at run time except the fragment table it
was generated with; it calls the composed-SQL cache, which calls the composer.
The editor reads the same templates and committed cache as the pipeline and
never writes them.

`PROJECT.json` lists every component with what is modelled of it, and every
hazard at the line where it bites.

## 2. Modules

```
ComposeService  <--refines--  ComposedCache  <--  ComposedCacheProofs
                                   ^------------  MCComposedCache
Template  <--  Rendering  <--+
                             +--  Composer  <--  ComposerProofs
               FilterTree <--+       ^---------  MCCompose
Pipeline  <--  PipelineProofs
   ^---------  MCPipeline
LanguageServer  <--  EditorProofs
   ^---------------  MCLanguageServer
Scanner  <--  MCScanner
ClauseScan  <--  JoinScan, SetOpScan  <--+-- PolicyScans  <--  MCPolicy
PolicyRules  <--  Policy  <--------------+
                    ^------  PolicyProofs
WhereRules, ListRules, Nullability  <--+-- Rules  <--  MCRules
TypeRules, Literals  <--  InputRules  <+
                             ^---------|-- RuleProofs
ScopeRules  <--  Scopes  <-------------+
                   ^-------  ScopeProofs
Sums  <--  ComposedCacheProofs, ComposerProofs, EditorProofs, RuleProofs, ScopeProofs
```

What is proved about keeps clear of RECURSIVE operators, which the prover cannot
handle, and lives in modules apart from what is only checked: the weaver's
decisions (`Policy`) apart from its token scans (`PolicyScans`), the scope rules
(`Scopes`) and the rules about types and literals (`InputRules`) apart from the
rules that need a grammar (`Rules`). `PolicyScans` and `Rules` extend them and run
both halves: an initial state is an input of a scan or a rule, or an initial state
of `Policy`, `Scopes` or `InputRules`, whose steps are taken as they are. Where a
walk over a tree is proved about, it is a function of the levels it may still
descend (`FilterTree`), and a loop a function of the rounds done.

### ComposeService, ComposedCache

`ComposeService` is what callers are promised: a call is answered with the
statement of its own style, query and shape, or with an error if that shape is
refused. It has no cache.

`ComposedCache` is the code. Entries live in a heap and are named by their
position, so an evicted entry that a caller or an old snapshot still points to
exists on, as under Go's garbage collector. The variables are the fields of the
struct (`m`, `order`, `fast`, `sinceSnap`, `evictedSince`, `hitFlushCredit`,
`pendingHits`, `maxBytes`, `totalBytes`, the counters, the observer) and the
locals of `entry` per goroutine.

One action is one stretch between points where another goroutine can
interfere. A critical section is one step, except that the CLOCK sweep takes
one step per entry because lock-free hits set second-chance bits while it runs.
`Call` is validation plus the look-up in the snapshot; `DeferredHit` and
`FirstMiss` are the first critical section, `Raced` and `Relock` ... `Inserted`
the second; `Touch` and `CountHit` are the two atomic writes of a hit; `Observe`
is the callback, which may call `Stats` and therefore needs the mutex.

The cache is *not* given that different shape keys have different encodings:
`Encode` may collide, as `entry` itself assumes when it compares full keys.

### Template, FilterTree, Rendering, Composer

`Template` holds the items the scanner produces, the occurrences of parameters
and the acceptance rule R9 (`Accepted`). A text is an opaque token and a
parameter reference another; no SQL is spelled out. `Rendering` is the
compile-time side: the list of renderings, placeholder numbering, shape names,
the enumeration used by static expansion and the counts projected before it.
`FilterTree` is `tree.go`. `Composer` is the run-time side: a state machine from
a scanned template through acceptance (`Reject`), a call of the generated
method, the refusals of the preamble (`RefuseCall`), the shape key
(`DeriveKey`) and composition (`ComposeFails`, `Send`). Bind indices wrap at
`MaxIndex` as `int16` does.

The composer is checked against a separate definition: `Intended` reads off the
template and the call which statement is meant, without shape key, fragment
table or bind plan. `KeyDetermines` is the link to the cache: two calls with one
encoded key have one composition, so serving a cached entry is serving what
would be composed.

### Pipeline

One project, one run at a time, a developer between and during runs. `tree` is
the committed cache, `outputs` the generated code, `db` the development
database with the epoch of the identities it hands out, `run` the process with
its program counter and locals. What the database holds has two parts. Within
the reset's *reach* (PostgreSQL's schema `public`, MySQL's base tables, SQLite's
tables and views) there is one schema or none. *Beyond* it (other PostgreSQL
schemas, MySQL's views) objects of several schemas may have gathered: the reset
leaves them, and a schema that creates such objects (`Outlying`) may meet
earlier ones, replace or keep them, or fail on them (`ApplyOutlying`). A schema
of white space only (`Blank`) is neither guarded nor reset nor applied
(`Unschemed`). SQLite's `:memory:` starts empty and asks for no consent, so it is
in the model what a container is. Every file is written under a temporary name
and renamed, so each action contains at most one visible write and `Crash` may
come before any of them.

| Actions | Code |
|---|---|
| `Start` | reading schema and templates, scan, catalog-free rules, looking everything up (`Run`) |
| `AcquireRefused`, `Reset`, `Unschemed`, `BuildNative`, `ApplyOutlying`, `ApplySchema`, `ApplyFails` | `devdb.Acquire`, the SQLETCH204 guard, the pin, the native catalog |
| `Admit`, `AdmitRefused` | drift check, writability check, `SaveEnv` |
| `Snapshot`, `SnapshotFails` | taking and, if it differs, adopting a catalog |
| `Describe`, `DescribeFails`, `Described` | the misses, or every rendering after an adoption |
| `Resolve`, `Plan` | catalog-dependent rules, plan lints of the exhaustive mode |
| `Expand*`, `Emit*`, `RemoveStale`, `StaleDone`, `Sweep*`, `Explain*` | the writes and deletions of `generate` |
| `EditTemplate`, `EditSchema`, `ReplaceServer`, `Crash` | the developer, the operator, SIGKILL |

### LanguageServer

The message loop of `internal/lsp` over the `OfflineChecker` of
`cli/offline.go`. `disk`, `schema`, `catalog` and `entries` are files that
belong to everybody; a signature is the number of the write that left the file
behind. `overlay` holds the open buffers, `memo`, `tgtMemo` and `catMemo` the
three memos, `published` the server's record of what the client displays,
`shown` what it does display.

A message begins a check (`DidOpenOrChange`, `DidSave`, `DidClose`), and the
check goes on in steps between which somebody else may write: `ReuseTargets`, or
`WalkTargets` and `StatTargets`; `ReadFiles`; `ReuseCatalog`, or `StatSchema`,
`LoadCatalog` and `RecordCatalog`; `ResolveAndPublish`. `Panic` is a handler
that panics and is recovered from; `ResolvePanics` the nil dereference after the
memo was cleared. The loops of a check are written as recursive functions over
`Order`, the order in which the code sorts paths: `Added` collects the paths of
one pass, `Analyzed` fills the memo, clearing it when it is full, `Claims` hands
out the query names. Which diagnostics a text has by itself is data of the
instance: a text has queries, may be refused, may be illegal under one of the
catalogs, may repeat an override.

`MemosInvisible` compares what the client displays with `Diagnosis`, which is
stated over the disk and the buffers without memo, phase or order of work.

### Scanner

`template/scanner.go` over token kinds. The variables are the scanner's: the
query being built with its clause, depth, pending skeleton and insertion points
(`qb`), the directives nobody owns yet (`pend`), the finished queries. One
action is one turn of the loop: a header (`StartQuery`), a directive comment, a
token (`FeedNext`), a construct with everything its parser consumes
(`handleConstruct`), what stands after the statement's end, and `Finish`.
`checkInsertPairing` and `checkAnchors` are R7 and R6 of `rules/lexical.go` on
the scanner's result.

The generator of an instance marks in `role`, which no definition of the
scanner reads, what a token really is; the properties compare the scanner's
record with the roles.

### ClauseScan, JoinScan, SetOpScan, PolicyScans; PolicyRules, Policy

The weaver edits SQL by token scans, without a parser. Each scan is modelled
over words and compared with what the grammar means: `ClauseScan` with
expressions and the worlds that satisfy them, `JoinScan` with the rows a FROM
tree returns, `SetOpScan` with the cores of a set operation. `PolicyScans` has
one action per scan.

`PolicyRules` is validation, applicability, refusals, weaving and enforcement, on
what the scans report. A statement has one WHERE clause per branch of its set
operation (`wheres`), an occurrence of the table has the name it is bound to, the
branch the parser puts it in and the one the scan finds it at. A policy's
conjunct is its predicate with that name, or the predicate as it is
(`Conjunct`), so two occurrences in a branch need two conjuncts unless the predicate
names no relation; what is needed is decided, woven and credited branch by
branch. All this against `Exposed`: a row of the designated table is read
or changed through a reference its conjunct does not filter. `Policy` has the
actions `Compile`, `WeaveQuery`, `EnforcePolicies` in the order of
`cli/weave.go`. `StatementType` and `PolicyType` say what a statement and a policy
are; the instances are subsets of them, the theorems are about all of them.

### WhereRules, ListRules, Nullability, Rules; TypeRules, Literals, InputRules; ScopeRules, Scopes

The rules look at a few renderings and vouch for every shape, so each module
has two halves: what the code decides, and what every shape means.

* `WhereRules`: R1 for WHERE and HAVING. An expression grammar, the conjuncts
  as PostgreSQL (at the operator) and MySQL and SQLite (at the first token)
  report them, the counts of `r1.go`; against it, the shapes parsed and compared
  with the conjunction of the active parts.
* `ListRules`: R1 for SET, VALUES and sort keys, through the probe statements.
* `ScopeRules`: optional joins and the references that may use them (R1 to R3),
  against what the engine would resolve in every shape. A statement is of one
  dialect, since the three walks that collect the names around a reference
  differ: SQLite's takes a subquery in FROM past its siblings (`EnteredBody`),
  PostgreSQL's and MySQL's count them as bound. The engine (`Surrounded`) shows
  such a subquery what surrounds its SELECT, and the items before it only where
  it is LATERAL.
* `TypeRules`: parameter and column types over the renderings, and nullable
  parameters.
* `Literals`: the literals of `@when`, as the validator, the generated Go code and
  each dialect read them.
* `Nullability`: the whole analysis from trust and presence to the union over
  renderings, against the columns the engine would return. `TargetItems` is what
  a dialect reports as the projection: nothing for a set operation, but on
  SQLite that of its first operand.

`InputRules` and `Rules` have one action per family of inputs: it gives the
verdict of the code.
The properties say what an accepted input means. In `Scopes` a statement passes
through what the pipeline does with it: the probes of R1 (`ProbeJoins`), the
database that prepares the maximal rendering or refuses it (`Describe`), and
`CheckResolved` (`Resolve`).

## 3. Runs

| Run | Question | Bounds |
|---|---|---|
| `cache_bounds` | Do map, list and ledger agree, do both bounds hold, does the sweep find its victim, does a lagging snapshot know it lags, and do counted hits survive eviction, while `SetMaxBytes` is called? | 2 goroutines, 3 shapes of sizes that make the byte bound bite, capacity 2, `MaxWork` 3 |
| `cache_shared` | With colliding encodings, refused trees and failing compositions, is every caller still served its own shape (refinement of `ComposeService`), does every call return, is the mutex released? | 2 queries x 2 keys on 2 encodings, capacity 2, `MaxWork` 2, fair |
| `pipeline_server` | Pin, destructive guard, drift, unusable schema, crashes and edits under all flags and `--exhaustive`: is anything written, reset or adopted that must not be? | 2 renderings (symmetric), 2 statements (one malformed), 3 schemas (one unappliable, one blank, two with objects beyond the reset), 2 versions, `check` and `--exhaustive`, 2 resets, 2 edits |
| `pipeline_tree` | What do failed, killed and successful runs leave on disk, and does every run end? | 2 renderings (one expanded), 3 statements (one illegal), native and container back ends, symlinked and outside directories, lost connections, files of the old layout in the tree at first, 2 edits |
| `pipeline_one_epoch` (violation) | Do *all* entries a run uses come from one epoch? | 3 resets, 3 edits |
| `compose` | Is what is sent what was verified and what was meant? Does the encoded key determine the composition, does static expansion agree, are the projected counts exact and the shape names unique? | see below |
| `editor` | Do the memos ever show, and is any diagnostic forgotten? | 2 files under 3 spellings, 1 open document, memo of 2, 2 diagnostics per file, 1 write by others at any moment, panics |
| `editor_memo` (violation) | Is clearing the full memo always safe? | as `editor` |
| `policy` | Do the scans read what the grammar means, does what passes weaving and enforcement expose anything, and does weaving settle? | expressions of two operators in three dialects, joins of three relations, set operations of up to four cores, statements varied two aspects at a time (two branches with a WHERE each, two occurrences under different names) under 14 sets of policies |
| `scanner` | Are insertion points, bodies, parameter records and directive owners right, and does every shape fit R6 and R7? | every small file of five families, see below |
| `rules` | Does what the rules accept hold in every shape? | see below |
| `rules_nonnull` (violation) | Is a column reported non-nullable never NULL? | as `rules` |

Why the bounds are enough to be interesting:

* Cache. Two goroutines are enough for each race the code mentions: a lock-free
  hit against a sweep, a twin composition, an entry evicted while another
  caller holds it. With three shapes and capacity 2 a third composition
  evicts, with byte bounds 3 and 2 one insert evicts several. `MaxWork` bounds
  compositions and counted hits, not hits: with counting off (the initial
  state) hits are unbounded, which the liveness properties depend on. Byte
  sizes are small numbers; the default ceiling's size is immaterial.
* Compose. Templates contain every construct alone and beside every other in
  both orders, plus six longer ones that have several guards, several blocks of
  one kind, or a tree among other binds. Parameters are shared across
  constructs so that numbering and reuse matter. Both placeholder styles; every
  set of absent fields, every enum value including wrong ones, every sort-key
  sequence of at most `MaxSorts` = 2, repeated and unknown keys included, list lengths
  {0, 1, 2, 7, 8} around `MaxIndex` = 7, and trees around the caps `MaxNodes` = 6
  and `MaxDepth` = 3, refused ones included; the set of trees contains their
  subtrees.
* Pipeline. Two renderings distinguish "some" from "all"; two statements make
  an edit a miss; two schemas and two versions make drift and reversion
  possible, and with a blank schema beside them a database is described without
  having been reset, after any other schema. `MaxEpoch` bounds how often a user-supplied database can be reset;
  afterwards it is unreachable, which the code handles like a lost connection.
* Editor. One write by others falls into every gap of every check; two files
  and a link make duplicates and double spellings; every cap is reached. A
  write to a template, the schema or an entry may come during a check; a new
  catalog, or a file that appears or goes, comes between checks (see the
  observations).
* Scanner. Statements with joins, subqueries, columns spelled like keywords and
  conflict clauses; up to four pieces of headers, directives and constructs
  around a query; every sequence of four markers; INSERT lists of up to three
  items with guards; clauses that begin with up to three optional items. The
  limits of the shape-key encoding are 2 guards, 1 sort key, 2 cases and 2
  parameters, so each is hit.
* Policy and rules. The grammars are small, and the inputs are all their
  sentences up to a size: for R1 skeletons of up to four tokens, and longer
  ones with OR, NOT, BETWEEN, parentheses and set operations, with fragments at
  every gap; lists with bodies of up to three tokens; up to two CTEs whose
  bodies nest derived tables and outer joins, and statements that are set
  operations or have a ROLLUP themselves; statements of up to three
  relations (tables, CTEs, derived tables, names in another case) with every
  join and up to two guards, in each dialect, and references up to four steps
  down, through expressions, CTEs, branches and subqueries in FROM with and
  without LATERAL. `MaxInt` = 127
  stands for 2^63 - 1; `MaxCases` = 2 cases in each of two choices are enough for a
  combination that no rendering tests.

`compose`, `editor`, `policy`, `scanner` and `rules` do not check for deadlock: a
call, a server, a scan or a check simply ends. In the cache and the pipeline a
stop would be an error, and TLC checks that there is none.

Symmetry is used over goroutines in `cache_bounds` and over renderings in
`pipeline_server`, which have no fairness and no definition that tells one from
another.

### Fairness

*Cache.* A runnable goroutine runs: weak fairness of every step that needs no
lock. A waiter gets the mutex although others keep taking it: strong fairness of
the steps that need it, which is the starvation mode of `sync.Mutex`. Nothing
is assumed of calls: nobody has to call the cache.

*Pipeline.* Weak fairness of `Progress` as a whole: a started run is sequential
code whose database calls return or fail. Edits, starts and crashes are never
required.

## 4. Findings

* `OneEpoch` - a run that adopts a new catalog re-describes only the renderings
  of the templates *it* read, and a `check` sweeps nothing. A query that is
  absent from the templates at that moment keeps an entry of the old epoch
  under unchanged keys, and a later run uses it with the new catalog, offline.
  What does hold, and is proved, is `AdoptedEpoch`: the adopting run itself
  compiles from one epoch.
* `ClearingIsSafe` - "wholesale clearing is always safe", says the comment on
  the memo of analysed files (`offline.go:410-411`). A path that is new to a
  full memo clears it, also in the middle of a check: in the trace an earlier
  check filled the memo, a file is then opened under another spelling, the
  unchanged file before it is a hit, and the new spelling clears both; the
  catalog phase dereferences the memo of the unchanged file (360-361), which is
  gone. The check has no more files than the memo holds. The dispatcher recovers
  from the panic, and that check's result is lost.
* `NonNullIsNonNull` - the stated invariant of the nullability package fails in
  three ways. A body that poisons the tables it mentions names a CTE and not
  the tables the CTE stands for, so a clean instance elsewhere vouches for a
  column that can be NULL; on SQLite a forward reference within a WITH list
  resolves, and names match in any case, and the analysis takes both for the
  table of that name. `NonNullThroughNesting` is what does hold.

### Observations

Disagreements met while modelling that no run is kept for; each passing
property that would meet one says so in its premises.

* Cache. The entry just composed may be evicted by its own insert when all older
  ones were touched (`runtime.go:1058`; the comment above it and
  `docs/design/06-codegen-runtime.md:184` say it survives). Hits counted on an entry that was
  evicted but is still in an older snapshot are lost to `Stats`.
* Drift. `env.json` holds one record. After a schema change and its reversal
  another server version is adopted without a drift while an entry of the first
  is still a hit (`pipeline.go:315`, `serverdrift.go:40-44`).
* Reset. "So runs are idempotent", says `docs/design/04-type-oracle.md:91-93` of the
  reset. It drops schema `public` on PostgreSQL (`devdb.go:229-230`) and base tables
  on MySQL (`mysql.go:142-168`), so the other schemas and the views of an earlier
  run stay: the next run may fail on them, or describe its statements beside
  them. With a schema of white space only (`hasSchema`: `devdb.go:222`, `mysql.go:92`,
  `sqlite.go:91`) there is no reset and no guard, and the statements are described on
  whatever the user-supplied database holds. `DescribedOnOwnSchema` claims
  nothing of either.
* Names. `@case(default)` beside `@default` gives two renderings one shape name
  (`ast/shape.go:71`).
* R9 leaves the loop for a parameter bound in `@predicate` bodies before it
  checks that the parameter's guards bind (`lexical.go:233`, `docs/spec.md:766`).
* R1. On MySQL and SQLite a conjunct is known by its first token only, so
  `WHERE x @if AND y @endif = z` passes (`sqlite/frontend.go:1259`,
  `docs/spec.md:661-664`); the MySQL parser's text position is taken for the
  start of a node. The upper bound of a BETWEEN may be a parenthesized boolean.
  A `@key` with a direction of its own gives `v DESC DESC` (`r1.go:207`,
  `docs/spec.md:1629-1634`), and a DESC written after the construct does the same to
  the last key; `OrderKeysFree` leaves both out.
* R3. On PostgreSQL and MySQL the items beside a subquery in FROM count as
  shadowing in it (`postgres/frontend.go:760-789`, `mysql/frontend.go:990-995`): with an optional
  top-level join named `o`, the `o.x` in
  `WHERE EXISTS (SELECT 1 FROM p o, (SELECT o.x) d)` is the optional join's, for the
  engine does not show `p o` to the subquery, yet R3 waves it through, and the
  shape without the join fails. The comment at `postgres/frontend.go:818-820` names the
  danger ("an extra name would wrongly suppress one"), and SQLite's walk avoids
  it (`sqlite/frontend.go:996-1002`). `ScopesHold` leaves it out (`Unshadowed`); without
  that premise TLC finds it. MySQL's walk hides one frame more than it must for
  a WITH on a set operation, which only makes R3 stricter and is not modelled.
* R3 does not see references to optional joins of CTEs and of tables written in
  another case (`resolved.go:76`, `289-304`, `docs/spec.md:704-706`), keys
  relations by table name only, and skips unqualified references in
  subqueries, as documented.
* Scanner. Directives inside a construct's body are skipped (`scanner.go:1053`,
  `docs/design/14-policy-weaving.md:637`); a header inside an unterminated body is swallowed;
  keyword columns after a dot, and a bare `offset`, move the clause; the tail
  insertion point of an INSERT is not that of its SELECT.
* Nullability. On SQLite the projection of a set operation is its first
  operand's, and a total expression there, such as `count(*)`, is reported
  non-null whatever the other operands return: that branch does not ask whether
  the statement is trusted (`nullability.go:216-226`; those for provenance do).
  `NonNullThroughNesting` leaves it out (`NothingTotal`); without that premise TLC
  finds it.
* Weaver. `FROM cross JOIN b` is read as a cross join, and the search for the ON
  clause may settle on a neighbour's when the relation's own join has none
  (`splice.go:699-700`).
* Editor. The signature of `catalog.json` is taken after it is loaded
  (`offline.go:483`), and that of the directories after the walk (`offline.go:84`):
  a write in between leaves the old value memoized until the next one. A buffer
  opened under a symlinked spelling is analysed outside its target.
* Renderer. The comment in `render.go` that the runtime tree `And(p0..pn)` is
  byte-identical with the maximal rendering is not true of a single predicate,
  nor, with numbered placeholders, of predicates that share a parameter; the
  text fragments still agree (`Conforms`).

## 5. Proofs

TLAPS checks the theorems for every instance of the constants under the named
assumptions. `CacheAssumption` says that the capacity is positive, that sizes
and bounds are naturals, and that for one shape key the encoding determines
style and query (it starts with both). `NoOneAssumption`, `NoCallAssumption`
and `NoneAssumption` keep the null values apart from the others;
`ConstantsAssumption` types the pipeline's parameters and says that a blank schema
applies and creates nothing. `ServerAssumption` says that
paths are listed once, that the targets' patterns name no file twice and that the
memo holds at least one file; `PolicyAssumption` and `ScopeAssumption` type the
statements and policies, the former with every occurrence in one of the
statement's branches, the latter with what the parsers guarantee (a fragment
has a guard, a table has the columns the catalog lists, a subquery in FROM
stands in the FROM of a SELECT and sees its siblings only if LATERAL); `LowerAssumption` that
folding neither makes nor removes the empty name. `ComposerAssumption` types the
templates' items and says that a template has no more parameters than an `int16`
counts: `frags.go` converts the field index with `int16(i)` and does not check it,
so this is a limit of the code, never met in practice, that the theorems make
explicit. (List and tree arguments have checks of their own, which are modelled.)
It also keeps the word "leaf" for the arguments of leaves. `TreeAssumption` says
that trees are what the constructors build and that the caps are positive, as
`config.go` demands. `QueryAssumption` types the queries: a guarded fragment
contributes no result column, since R1 admits none in the select list.
`LiteralAssumption`, `MaxIntAssumption` and `MaxCasesAssumption` type the rest. TLC
evaluates each of them on the runs.

**Sums.** The library's induction theorems take an operator and cannot be used
here. `FiniteInduction` and `NaturalInduction` are induction for a *set* of
subsets or numbers, from the existence of a minimal counterexample; which is
enough, since what is to be proved can always be written as such a set. From the
first follow what `SumFunctionOnSet` computes: its recursion exists and is unique
(`RecursionExists`, `RecursionUnique`), a sum can be taken apart at any element
(`SumAt`) and depends on the values only (`SumSame`), sums are monotone. From the
second, that a recursive function over 0..n exists (`LoopRuns`) and keeps what
each round keeps (`LoopInduction`); these carry the loops of the code. The last
part is about sequences of sequences: what `FlattenSeq` puts where (`FlattenAt`,
`FlattenPlace`), that mapping and flattening commute (`MapFlatten`), and that two
flattened sequences which differ in one place and are equal are equal there
(`FlattenCancel`).

**ComposedCacheProofs.** `ServedMatches` is not inductive: a goroutine is served
what it finds in the map or the snapshot, so one has to know that entries sit
under their own map key in *both* (`OwnKey`), also across eviction, collision
and the snapshot's lag. The evicted entry comes from the list and is removed
from the map by its key, so `Listed` relates them. `Composable` says that only
shapes that compose were inserted; `Phases` what each program label implies for
the locals; `Exclusive` that a multi-step critical section belongs to the
holder of the mutex; `Sweepable` and `FiniteMap` that the hand always has an
entry to look at and `len(m)` is a number. The lemmas `RemovedList`, `MovedList`
and `PushedList` say what the three list operations keep; one lemma per action
shows that it preserves `IndInv`. From it follow

* `TypeCorrect`, `ServesOwnShape`, `RefusesSafely`;
* `SnapshotDiscipline`: a snapshot differs from the map only while
  `evictedSince` is set or the mutex is held, and the counters that postpone a
  publish stay below the capacity;
* `ImplementsService`: every step of the cache is a step of `ComposeService`
  or leaves its variables alone.

The second half of the module is about eviction. `EvictionSound` needs more than `IndInv`: that the list has no
repetitions and holds exactly the resident entries (`OneList`), that the ledger
is their sum in the middle of a critical section too (`Ledger`), how far over
its bounds the cache may be at each program label, and where the hand is
(`EvictionInv`). An insert of a goroutine sets no bit on the new entry that
nobody else can know yet, so with only the count bound the sweep meets that
entry at the latest with the bit clear. Theorems: `EvictionIsSound`, and the
action property `HitsAccumulate` (the counter `Stats` reports never decreases,
because every removal folds the entry's hits in the same step).

**PipelineProofs.** The invariant `Inv` adds to the stated properties what each
phase knows: nothing was written before admission (`Untouched`), the database
holds the run's schema, within the reset's reach, from admission to the last
description, and where the run made the database itself nothing beyond it that
the schema did not create (`Schemed`), the
renderings already worked off carry the adopted epoch (`Epochal`), consent,
record and mode belong to the phase (`Guarded`), and everything not on the list
of misses is answered by the committed cache (`Warmth`). The last is what makes
`SuccessIsWarm` inductive: it has to survive saves, an adoption and the sweep,
which deletes only what is not live (`Scoped` and the `stale`/`sweep` part of
`Warmth`). Theorems: `PipelineTypes`, `RefusalsWriteNothing`,
`DescriptionsMatchSchema`, `AdoptionIsComplete`, `SuccessStaysOffline`, and the
action properties `ConsentBeforeReset`, `EntriesUnderRecord`, `ChecksKeepFiles`.

The second half of the module is about the writes. `GenerateExact` speaks of the end of a run; `ExactInv` says what
each writing phase has achieved and the next may rely on: every live rendering
is on the list still to do or written (`Expansions`, `Emissions`,
`Explanations`), every file of anything else is on the list to delete or gone
(`Prunings`, `Sweepings`). That a sweep deletes no live entry, although the cache
directory may have changed since the look-up, comes from `Warmth`. Theorem: `GenerateIsExact`.

**EditorProofs.** Two arguments. The loops of a check compute what the reference
reads off disk and buffers without a loop (`AddedIs`, `AnalyzedIs`, `ClaimsAre`).
And the memos are current whenever their signatures are (`TargetsSound`,
`CatalogSound`), and what a check has gathered is what there is unless something
was written since it began (`FilesSound`). Together: `MemosNeverShow`. It has one
hypothesis, `NoUnseenWrites`: no file appears and no catalog is rewritten *during*
a check. The code takes those two signatures after the read they stand for, so
without it the statement is false (see the observations); for writes to
templates, the schema and entries, at any moment, nothing is assumed.
`NothingIsForgotten` has no hypothesis: what a check publishes is a superset of
the record, whatever it computed, and a panic changes neither.

**PolicyProofs.** Between the passes only this has to be remembered (`PolicyInv`):
the policies compiled, and the statement is what the weaver made of *some*
statement. The weight is in the lemmas: weaving changes neither which policies
apply nor what is refused (`SameApplies`, `WovenIs`); after it the clause of every
reference, its own branch's WHERE or its join's ON, contains the conjunct for
that reference's name, also where a loose OR is wrapped (`WovenClauses`); a reference that is not filtered is one the weaver refuses
(`RefusedOrFiltered`, `NothingExposed`). Theorems: `AcceptedQueriesAreScoped`,
`WeavingSettles`, and `EnforcementIsABackstop`, which does not mention the weaver:
a statement on which enforcement reports nothing exposes nothing, except through
references below the top level that only the weaver's refusal covers.

**ScopeProofs.** `ScopeInv` says what each stage knows of the statement. The
argument: the names the code collects on the way down a path are among those the
engine has there or, on PostgreSQL and MySQL, are items that a subquery in FROM
stands beside and does not see (`ScopesAreNearer`, an induction over the path). So
a qualified reference the code waves through as local is bound nearer by for
the engine too, unless it bears the name of such an item, which the premise
`Unshadowed` keeps apart from the optional joins; otherwise the relation found by name is the only one of that name, since the
database prepared the rendering (`ByNameIs`), and its guards are on wherever the
reference's are. An unqualified reference has one candidate, which the engine
also finds provided optional relations are known to the catalog; in subqueries
the code skips it, and so does the theorem (`Examined`). An optional join
is INNER or LEFT, so it null-extends nothing before it, in any statement
(`OptionalJoins`). Theorem:
`AcceptedScopesHold`.

**ComposerProofs.** The inductive invariant is `Stages`: what each stage of a call
knows of the template, the call, the key and the statement. What it takes to
state it is a theory of the composition, which is loops over items, sort keys,
list elements, tree nodes and, at the end, over everything that was written. Each
is turned into a map over sequences.

* *What is sent.* The fragment of an item writes what `Placed` makes of the
  template's pieces (a parameter becomes a field index); `Value` is what a write
  means once its bind is resolved; and `Value` after `Placed` is `Own`, the piece
  with its parameter's own value. So the fragment of every item means what
  `Intended` says of that item, one lemma per kind of construct. For trees this is
  an induction over the levels: the arguments of a subtree are the slice of the
  preorder arguments at the offset the walk carries (`Slice`), so the leaf's binds
  are the leaf's own arguments. The composer's loop keeps `Laid`: every token stands
  where it was written, and the placeholder of a bind leads to that bind, whether
  it was numbered afresh or reused. Theorem: `StatementsAsIntended`.
* *Nothing absent.* A write draws from the parameters its item shows (`Sourced`);
  R9 has it that an optional parameter occurs under its own guard only, and a
  guarded item whose guard is off writes nothing (`Filled`). Theorem:
  `ArgumentsPresent`.
* *What was verified.* Composer and renderer are run side by side over two lists
  of pieces that agree element by element (`Agrees`): the texts written are the
  same and the *k*-th bind is the *k*-th parameter (`Paired`, `Alike`), so both reuse a
  number at the same moments, which rests on the parameters' positions being
  distinct. For the other shapes, each part of a shape is found in one of the
  renderings on the list, the maximal one, one with that case, one with that
  default order, or the empty one (`Tested`, `Verified`), and what list elements and
  tree nodes add are separators (`Shown`). Theorem: `ComposedIsVerified`.

**RuleProofs.** No step has a history here, so the invariant only says that a
verdict is the code's; the weight is in the lemmas. Literals: the validator, the
replacement of doubled quotes and the database's reading are three loops over the
same characters, and what the validator has accepted so far keeps them in step
(`InStep`), with and without backslash escapes. Types: taking one case leaves the
rest of the maximal rendering as it is, so equal column lists mean equal columns
of that case (`FlattenCancel`), hence every combination of cases returns the
columns of the maximal rendering; and whatever a shape binds, some verified
rendering binds with the same type (`ShapeBindsSeen`). Theorems:
`AcceptedTypesEverywhere`, `AcceptedLiteralsMeanTheSame`.

**Only model-checked.**

* `CallsReturn`, `MutexReleased` and `RunEnds` are liveness under fairness, outside
  the prover.
* `KeyDetermines`, `ExpandedAgrees` and `ShapeNamesUnique` are about encodings. A
  key and a shape name are texts, put together with `ToString`, of which nothing
  can be proved, injectivity included; `ExpandedAgrees` also compares projected
  counts with the cardinality of an enumerated set of shapes.
* `OneNodePerSlot`, the scans' `JoinsScoped` and `BranchesScoped`,
  `NonNullThroughNesting` and the properties of `Scanner` are about parsers and
  nested queries, which are RECURSIVE operators the prover cannot read.
  `ClauseBinds` and `OrderKeysFree` are about token scans and compare them with a
  meaning given over whole sentences.

These quantify over all inputs of their instance. The theorems about policies,
scopes and composition start from what the scans, the parsers and the scanner
report; `ClauseBinds`, `JoinsScoped`, `BranchesScoped` and the properties of `scanner`
connect the former to the text.

## 6. What is not modelled

* Lexing character by character and the SQL parsers, which are third-party: the
  models work on tokens, and a grammar stands for a parser.
* The scanner's byte positions, the formatter, messages and their positions.
* The rules' probes of `@choose` cases and their warnings; lints; the tables of
  types; USING and NATURAL columns, author overrides and the reuse of analysed
  sub-trees in the nullability analysis.
* Weaving of renderings that do not parse.
* In the editor: degraded mode without a configuration, edits of the
  configuration, the shutdown flag, answers to requests, positions.
* Configuration, target resolution and path patterns: total functions without
  state, which table-driven tests reach.
* Text: Go declarations, imports, JSON and YAML.
* Two runs at once on one project or one database: the code has no lock and its
  documents promise nothing. Which objects a reset drops in each dialect, beyond
  the distinction between what it reaches and what it does not.
* The ranking `TopShapes` returns, `explain` methods, source maps, and the
  OpenTelemetry bridge.

## 7. Plan

Modelled: cache, composition, pipeline, editor, scanner, policies, structural
rules and nullability, in the order of how much a fault would cost. Proved:
every safety property of the cache, the pipeline, the editor, the weaver's
decisions, the scope rules and the rules about types and literals, and of the
composer that what is sent is what is meant, is verified and binds no absent
field. What is left, should the code around it change:

1. `KeyDetermines` with the key's encoding taken as an injective function, for
   which the proof of `StatementsAsIntended` has most of the lemmas: a composition
   reads of a call only what `ShapeKey` puts into the key.
2. `OrderKeysFree`: `ListRules` has no RECURSIVE operator, but what a scan at bracket
   level zero finds needs lemmas about `SelectSeq` and counting.

New theorems belong into the proof modules there are, grouped by component.
