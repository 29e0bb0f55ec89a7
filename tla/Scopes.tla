------------------------------- MODULE Scopes -------------------------------
(***************************************************************************)
(* What becomes of a statement with optional joins: CheckR1 looks at the   *)
(* joins (internal/rules/r1.go), the development database prepares the     *)
(* maximal rendering, and CheckResolved decides from that one rendering    *)
(* who may refer to what (resolved.go).                                    *)
(***************************************************************************)
EXTENDS ScopeRules

CONSTANT
    Statements   \* the statements, as ScopeRules describes them

RelationType ==
    [name : STRING, table : STRING, kind : {"table", "cte", "derived"}, cols : SUBSET STRING,
     join : {"BASE", "INNER", "LEFT", "RIGHT", "FULL"}, frag : Nat, guards : SUBSET STRING]
StepType == [step : Selects \cup {"test", "with"}, names : SUBSET STRING, seen : SUBSET STRING]
ReferenceType ==
    [qual : STRING, schema : BOOLEAN, col : STRING, guards : SUBSET STRING, path : Seq(StepType),
     sort : BOOLEAN]
StatementType ==
    [rels : Seq(RelationType), refs : SUBSET ReferenceType, stars : SUBSET STRING,
     aliases : SUBSET STRING, lock : BOOLEAN, setop : BOOLEAN,
     dialect : {"postgres", "mysql", "sqlite"}]

\* A fragment has a guard and the skeleton none; a table has the columns the
\* catalog lists for it; a subquery in FROM is in the FROM of a SELECT and sees
\* no item of it unless it is LATERAL.
FromSteps(path) ==
    \A n \in DOMAIN path : path[n].step \in {"derived", "lateral"} =>
        /\ n > 1 => path[n - 1].step \in Selects
        /\ path[n].step = "derived" => path[n].seen = {}
WellFormed(s) ==
    /\ \A ref \in s.refs : FromSteps(ref.path)
    /\ \A i \in DOMAIN s.rels :
          /\ s.rels[i].frag = 0 <=> s.rels[i].guards = {}
          /\ s.rels[i].kind = "table" /\ s.rels[i].table \in DOMAIN Catalog =>
                s.rels[i].cols = Catalog[s.rels[i].table]

ASSUME ScopeAssumption == Statements \subseteq StatementType /\ \A s \in Statements : WellFormed(s)

VARIABLES
    stmt,  \* the statement
    stage  \* "scanned", "probed", "described", "accepted" or "refused"

vars == <<stmt, stage>>

Init == stmt \in Statements /\ stage = "scanned"

Pass(from, ok, to) ==
    /\ stage = from
    /\ stage' = IF ok THEN to ELSE "refused"
    /\ UNCHANGED stmt

ProbeJoins == Pass("scanned", CheckJoins(stmt), "probed")
\* The database prepares the maximal rendering or refuses it.
Describe == Pass("probed", Prepared(stmt), "described")
Resolve == Pass("described", CheckResolved(stmt), "accepted")

Next == ProbeJoins \/ Describe \/ Resolve

Spec == Init /\ [][Next]_vars

-----------------------------------------------------------------------------
(* Properties.                                                             *)

\* What CheckResolved looks at: it skips unqualified references in subqueries,
\* and takes what stands beside a subquery in FROM for what shadows.
Examined(s) ==
    /\ \A ref \in s.refs : Unshadowed(s, ref) /\ (ref.qual = "" => ~InSubquery(ref.path))
    /\ Vouched(s) \/ \A ref \in s.refs : ref.qual # ""

\* R3 (docs/spec.md): in every shape of an accepted statement every reference
\* means what it means in the maximal rendering, where optional joins are of
\* tables the catalog knows by the name that is written, or the reference is
\* qualified, and where on PostgreSQL and MySQL no item that a subquery in FROM
\* stands beside, and cannot see, has an optional join's name; and no optional
\* join changes which relations are null-extended.
ScopesHold ==
    stage = "accepted" =>
        /\ Examined(stmt) => EveryShapeResolves(stmt)
        /\ EveryShapeNullable(stmt)
=============================================================================
