------------------------------- MODULE Policy -------------------------------
(***************************************************************************)
(* Cross-query policies (internal/policy, internal/cli/weave.go): the set  *)
(* of policies is compiled, a query is woven, and an enforcement pass that *)
(* trusts nothing the weaver decided checks the result.                    *)
(***************************************************************************)
EXTENDS PolicyRules

CONSTANTS
    Statements,  \* the queries
    Policies     \* the sets of policies a configuration may hold

\* A conjunct, a branch's WHERE clause as the scans report it, and the ON clause
\* found for an occurrence.
ConjunctType == Seq(STRING)
BranchType == [lexOK : BOOLEAN, hasOR : BOOLEAN, has : SUBSET ConjunctType,
               lead : {"SELECT", "TABLE", "VALUES"}]
OnType == [lexOK : BOOLEAN, hasOR : BOOLEAN, has : SUBSET ConjunctType,
           found : BOOLEAN, wrongJoin : BOOLEAN]
OccurrenceType ==
    [name : STRING, guarded : BOOLEAN, bare : BOOLEAN, folds : BOOLEAN, nullable : BOOLEAN,
     located : BOOLEAN, on : OnType, branch : Nat, at : Nat]
NestedKinds == {"update", "delete", "upsert", "insert"}
StatementFields ==
    [kind : Kinds, occ : Seq(OccurrenceType), target : BOOLEAN, sub : Nat,
     blocks : Seq(Seq(Nat) \ {<<>>}),
     nested : [always : SUBSET NestedKinds, sometimes : SUBSET NestedKinds],
     conflict : [update : BOOLEAN, del : BOOLEAN],
     wheres : Seq(BranchType), setop : {"none", "read", "unread"},
     optouts : SUBSET STRING, applies : SUBSET STRING,
     param : {"none", "value", "policy", "guard", "tree"}, hint : {"none", "same", "other"}]
StatementType ==
    {s \in StatementFields : \A i \in DOMAIN s.occ : s.occ[i].branch \in DOMAIN s.wheres}
PolicyType ==
    [name : STRING, kinds : SUBSET Kinds, placeholder : BOOLEAN, param : BOOLEAN, typed : BOOLEAN,
     refs : {"none", "own", "other"}, parses : BOOLEAN, reads : BOOLEAN, require : BOOLEAN]

ASSUME PolicyAssumption ==
    /\ Statements \subseteq StatementType
    /\ \A pols \in Policies : pols \subseteq PolicyType

VARIABLES
    pols,  \* the policies in force
    stmt,  \* the query, as far as it is woven
    stage, \* "read", "compiled", "woven", "done", or "refused" with the configuration
    diags  \* what the last pass reported

vars == <<pols, stmt, stage, diags>>

Init ==
    /\ pols \in Policies
    /\ stmt \in Statements
    /\ stage = "read"
    /\ diags = {}

Compile ==
    /\ stage = "read"
    /\ pols' = compilePolicies(pols).pols
    /\ diags' = compilePolicies(pols).diags
    /\ stage' = IF diags' = {} THEN "compiled" ELSE "refused"
    /\ UNCHANGED stmt

\* Weave; the pipeline stops at an error.
WeaveQuery ==
    /\ stage = "compiled"
    /\ stmt' = Weave(pols, stmt).stmt
    /\ diags' = Weave(pols, stmt).diags
    /\ stage' = IF diags' = {} THEN "woven" ELSE "done"
    /\ UNCHANGED pols

EnforcePolicies ==
    /\ stage = "woven"
    /\ diags' = Enforce(pols, stmt)
    /\ stage' = "done"
    /\ UNCHANGED <<pols, stmt>>

Next == Compile \/ WeaveQuery \/ EnforcePolicies

Spec == Init /\ [][Next]_vars

-----------------------------------------------------------------------------
(* Properties.                                                             *)

Live == {p \in pols : p.name \notin stmt.optouts}

\* A query that passes exposes no designated row in any shape, unless it opted
\* out, and every woven parameter is always bound.
PoliciesHold ==
    stage = "done" /\ diags = {} =>
        \A p \in Live : ~Exposed(p, stmt) /\ ~Starved(p, stmt)

\* The enforcement pass credits what the weaver wrote, and weaving a woven
\* template adds nothing.
WeaveSettles ==
    stage \in {"woven", "done"} =>
        /\ 124 \notin diags
        /\ 125 \notin diags => Weave(pols, stmt).needs = {}

=============================================================================
