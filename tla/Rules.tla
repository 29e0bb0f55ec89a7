-------------------------------- MODULE Rules --------------------------------
(***************************************************************************)
(* The structural rules (internal/rules): a template the rules accept is   *)
(* described once per verified rendering and then composed in every shape  *)
(* without being looked at again.  Each family of inputs is checked by the *)
(* rule's code, and what was accepted is compared with what every shape    *)
(* means.  A statement with optional joins goes through Scopes instead.    *)
(***************************************************************************)
EXTENDS WhereRules, ListRules, InputRules, Nullability, Scopes

CONSTANTS
    Templates,   \* items of WhereRules
    Lists,       \* records [slot, n, bodies, tail] of ListRules
    OrderBys,    \* records [keys, default, tail, distinctOn, ties] of ListRules
    Results      \* records [d, levels] of Nullability: a dialect, the verified renderings

InputInit ==
    /\ \/ OwnInput
       \/ job \in {[family |-> "where", style |-> s, items |-> t] : s \in LocStyles, t \in Templates}
       \/ job \in {[family |-> "list", list |-> l] : l \in Lists}
       \/ job \in {[family |-> "order", order |-> o] : o \in OrderBys}
       \/ job \in {[family |-> "result", result |-> r] : r \in Results}
    /\ stmt = <<>> /\ stage = "none"
StatementInit == Init /\ job = [family |-> "statement"]
RulesInit == (InputInit \/ StatementInit) /\ out = "none"

CheckConjuncts == job.family = "where" /\ Judge("where", CheckR1(job.style, job.items))
CheckLists == job.family = "list" /\ Judge("list", CheckList(job.list))
CheckOrder == job.family = "order" /\ Judge("order", CheckOrderBy(job.order))
\* Accepted: some column is given a Go type that cannot hold NULL.
CheckResults ==
    job.family = "result" /\ Judge("result", FALSE \in ToSet(AnalyzeAll(job.result.d, job.result.levels)))

CheckInput == CheckOwn \/ CheckConjuncts \/ CheckLists \/ CheckOrder \/ CheckResults
RulesNext ==
    \/ CheckInput /\ UNCHANGED vars
    \/ Next /\ UNCHANGED ruleVars

RulesSpec == RulesInit /\ [][RulesNext]_<<vars, ruleVars>>

-----------------------------------------------------------------------------
(* Properties.                                                             *)

\* "Exactly one complete AST node in its slot - so deleting a neighbor can
\* never regroup a fragment's meaning" (docs/spec.md, R1): in every shape of
\* an accepted template the clause is the skeleton's conjuncts and those of
\* the active constructs.  Where conjuncts are located by their first token,
\* this is for constructs that AND, another construct or the end follows.  A
\* body that passes its probe is one item of its list in every shape, and
\* brings no clause and no row of its own.
OneNodePerSlot ==
    /\ Accepts("where") /\ (job.style = "operator" \/ Followed(job.items)) => EveryShapeConjoins(job.style, job.items)
    /\ Accepts("list") => ListKeepsShape(job.list)

Undirected(o) ==
    (\A n \in DOMAIN o.keys : "DESC" \notin ToSet(o.keys[n])) /\ "DESC" \notin ToSet(o.tail)
\* "Every reachable shape parses" (docs/spec.md, soundness sketch): whatever
\* keys the caller picks, in whatever order and direction, the statement is one
\* the database takes, when no direction is written with a key or after the
\* construct.
OrderKeysFree ==
    Accepts("order") /\ Undirected(job.order) => \A seq \in Selections(job.order) : SelectionLegal(job.order, seq)

Verdicts == AnalyzeAll(job.result.d, job.result.levels)
\* "If Analyze reports a column non-nullable, no reachable shape can return NULL
\* there" (the correctness invariant of internal/nullability).
NonNullIsNonNull == Accepts("result") => SoundVerdicts(job.result.d, job.result.levels, Verdicts)

Plainly(d, l) == Direct(d, l) /\ NothingTotal(d, l) /\ (d = "sqlite" => Backward(l) /\ Spelled(l))
\* NonNullIsNonNull through any nesting of CTEs, derived tables and outer joins,
\* where names are written as declared, SQLite's definitions refer backwards and
\* its set operations start without an expression that is never NULL, and the
\* bodies that poison mention the tables themselves.
NonNullThroughNesting ==
    Accepts("result") /\ (\A n \in DOMAIN job.result.levels : Plainly(job.result.d, job.result.levels[n])) =>
        SoundVerdicts(job.result.d, job.result.levels, Verdicts)
=============================================================================
