----------------------------- MODULE PolicyRules -----------------------------
(***************************************************************************)
(* Which queries a policy bites, what the weaver refuses, and what the     *)
(* enforcement pass credits (internal/policy: policy.go, weave.go,         *)
(* enforce.go).  Clauses are known here by what the scans of ClauseScan,   *)
(* JoinScan and SetOpScan report of them.                                  *)
(*                                                                         *)
(* A statement has one designated table "t".  occ: its top-level           *)
(* occurrences; sub: reads of t in subqueries of every shape; blocks:      *)
(* for every @choose or @order-by the reads of t in each alternative, the  *)
(* first being the one of the maximal rendering; nested: data-modifying    *)
(* CTEs on t, in every shape or in an alternative only; target: whether    *)
(* the statement's target is t; wheres: the WHERE clause of every branch   *)
(* of a set operation, of the statement itself when it is none.  An        *)
(* occurrence is in a branch by the parser and at one by the scan.         *)
(***************************************************************************)
EXTENDS Integers, Sequences, FiniteSets

Kinds == {"select", "update", "delete", "insert"}

\* Policy.appliesTo, with the default of an empty list.
appliesTo(p, k) == IF p.kinds = {} THEN k \in {"select", "update", "delete"} ELSE k \in p.kinds
coversNested(p, d) ==
    IF d = "upsert" THEN appliesTo(p, "update") ELSE d \in {"update", "delete"} /\ appliesTo(p, d)
governedBy(p, c) == (c.update /\ appliesTo(p, "update")) \/ (c.del /\ appliesTo(p, "delete"))

\* Validate and validatePredicate: the defects of one policy of a set.
Validate_AnyRelation(pols, p) ==
    (IF \E q \in pols \ {p} : q.name = p.name THEN {"duplicate name"} ELSE {})
    \cup (IF p.refs = "other" \/ (p.param # (p.refs = "own")) THEN {"parameter"} ELSE {})
    \cup (IF p.parses THEN {} ELSE {"predicate"})
Validate(pols, p) ==
    (IF \E q \in pols \ {p} : q.name = p.name THEN {"duplicate name"} ELSE {})
    \cup (IF p.refs = "other" \/ (p.param # (p.refs = "own")) THEN {"parameter"} ELSE {})
    \cup (IF p.parses THEN {} ELSE {"predicate"})
    \cup (IF p.parses /\ p.refs # "other" /\ p.reads THEN {"relation"} ELSE {})

\* compilePolicies: one defect disables the whole set.
compilePolicies(pols) ==
    IF \E p \in pols : Validate(pols, p) # {}
    THEN [pols |-> {}, diags |-> {303}]
    ELSE [pols |-> pols, diags |-> {}]

-----------------------------------------------------------------------------
\* Occurrences of t beyond the top level, in the maximal rendering.
Hidden(s) == \/ s.sub > 0
             \/ \E k \in DOMAIN s.blocks : s.blocks[k][1] > 0
             \/ s.nested.always # {}

\* overreadDeep and designatedOverread: an alternative that reads t more often
\* than the one of the maximal rendering.
overread(s) == \E k \in DOMAIN s.blocks : \E j \in DOMAIN s.blocks[k] : s.blocks[k][j] > s.blocks[k][1]
designatedOverread(p, s) ==
    overread(s) /\ appliesTo(p, IF s.kind = "insert" THEN "select" ELSE s.kind)

NestedHit(p, s) == \E d \in s.nested.always \cup s.nested.sometimes : coversNested(p, d)
updateConflictTarget(p, s) ==
    s.kind = "update" /\ s.conflict.del /\ s.target /\ governedBy(p, s.conflict)

\* analyzeApplicability: shared by the weaver and the enforcement pass.
analyzeApplicability(p, s) ==
    \/ NestedHit(p, s)
    \/ s.kind = "insert" /\ Hidden(s) /\ appliesTo(p, "select")
    \/ s.kind = "insert" /\ Len(s.occ) > 0 /\ governedBy(p, s.conflict)
    \/ s.kind # "insert" /\ appliesTo(p, s.kind) /\ (Len(s.occ) > 0 \/ Hidden(s))
    \/ updateConflictTarget(p, s)

\* A policy applies in the maximal rendering, or in an alternative of it.
Applies(p, s) == analyzeApplicability(p, s) \/ designatedOverread(p, s)

-----------------------------------------------------------------------------
(* The weaver.                                                             *)

\* The clause an occurrence is scoped in: its join's ON clause when the
\* predicate names the relation and the relation is null-extended.
InOnClause(p, o) == p.placeholder /\ o.nullable

\* A policy's conjunct for an occurrence: its predicate with the bound name, or
\* as it is.
Conjunct(p, o) == IF p.placeholder THEN <<p.name, o.name>> ELSE <<p.name>>

\* What applyActive refuses, in the order of its checks after the opt-out.
RefusesStatement(p, s) ==
    \/ designatedOverread(p, s)
    \/ NestedHit(p, s)
    \/ s.kind = "insert"
    \/ updateConflictTarget(p, s)
    \/ Hidden(s)
\* checkSetOpOccurrences.
RefusesBranch(s, o) ==
    s.setop # "none" /\ (\/ s.setop = "unread"
                         \/ ~o.guarded /\ (o.at # o.branch \/ s.wheres[o.branch].lead # "SELECT"))
RefusesOccurrence(p, o) ==
    \/ o.guarded \/ ~o.bare
    \/ p.placeholder /\ o.folds
    \/ o.nullable /\ (~o.located \/ ~o.on.found \/ ~o.on.lexOK \/ o.on.wrongJoin)
\* policyParamKindCollision and the hint.
RefusesParam(p, s) ==
    p.param /\ (s.param \in {"guard", "tree"} \/ (p.typed /\ s.hint = "other"))
RefusesWhere(p, s) ==
    \E i \in DOMAIN s.occ : ~InOnClause(p, s.occ[i]) /\ ~s.wheres[s.occ[i].branch].lexOK

Refuses(p, s) ==
    \/ RefusesStatement(p, s)
    \/ \E i \in DOMAIN s.occ : RefusesBranch(s, s.occ[i]) \/ RefusesOccurrence(p, s.occ[i])
    \/ RefusesParam(p, s)
    \/ RefusesWhere(p, s)

annotationObligation(p, s) == p.require /\ p.name \notin s.applies \cup s.optouts

\* apply: 125 unless the query opted out, and 127 around it.
apply(p, s) ==
    IF ~Applies(p, s) THEN [woven |-> FALSE, diags |-> {}]
    ELSE LET out == p.name \in s.optouts
             diags == (IF ~out /\ Refuses(p, s) THEN {125} ELSE {})
                      \cup (IF annotationObligation(p, s) THEN {127} ELSE {})
         IN  [woven |-> ~out /\ ~Refuses(p, s), diags |-> diags]

\* wherePresent and onPresent: the clause holds the conjunct in every shape.
Present(clause, c) == clause.lexOK /\ ~clause.hasOR /\ c \in clause.has
Missing(clause, cs) == {c \in cs : ~Present(clause, c)}

\* A clause with conjuncts added: a wrapped one hides what it held before.
Extend(clause, cs) ==
    IF cs = {} THEN clause
    ELSE [clause EXCEPT !.has = cs \cup (IF clause.hasOR THEN {} ELSE @), !.hasOR = FALSE]

\* What the policies woven into a statement ask of one branch and of one ON.
InForce(pols, s) == {p \in pols : apply(p, s).woven}
WhereConjuncts(p, s, b) ==
    {Conjunct(p, s.occ[i]) : i \in {i \in DOMAIN s.occ : s.occ[i].branch = b /\ ~InOnClause(p, s.occ[i])}}
WhereNeeds_AnyBranch(pols, s, b) ==
    {c \in UNION {WhereConjuncts(p, s, b) : p \in InForce(pols, s)} :
        \A k \in DOMAIN s.wheres : ~Present(s.wheres[k], c)}
WhereNeeds(pols, s, b) ==
    Missing(s.wheres[b], UNION {WhereConjuncts(p, s, b) : p \in InForce(pols, s)})
OnNeeds(pols, s, o) ==
    Missing(o.on, {Conjunct(p, o) : p \in {p \in InForce(pols, s) : InOnClause(p, o)}})

Scope(pols, s, o) == [o EXCEPT !.on = Extend(@, OnNeeds(pols, s, o))]

\* Weave, splice and registerParams.
Weave(pols, s) ==
    LET woven == InForce(pols, s)
    IN  [diags |-> UNION {apply(p, s).diags : p \in pols},
         needs |-> UNION {WhereNeeds(pols, s, b) : b \in DOMAIN s.wheres}
                   \cup UNION {OnNeeds(pols, s, s.occ[i]) : i \in DOMAIN s.occ},
         stmt |-> [s EXCEPT
            !.wheres = [b \in DOMAIN s.wheres |-> Extend(s.wheres[b], WhereNeeds(pols, s, b))],
            !.occ = [i \in DOMAIN s.occ |-> Scope(pols, s, s.occ[i])],
            !.param = IF @ = "none" /\ \E p \in woven : p.param THEN "policy" ELSE @,
            !.hint = IF @ = "none" /\ \E p \in woven : p.param /\ p.typed THEN "same" ELSE @]]

-----------------------------------------------------------------------------
(* The enforcement pass, on the woven template.                            *)

\* One policy's SQLETCH124.
Unproved_FirstBranch(p, s) ==
    analyzeApplicability(p, s) /\ ~Hidden(s) /\ s.kind # "insert"
    /\ \E i \in DOMAIN s.occ : ~InOnClause(p, s.occ[i]) /\ ~Present(s.wheres[1], Conjunct(p, s.occ[i]))
Unproved(p, s) ==
    \/ designatedOverread(p, s) \/ NestedHit(p, s)
    \/ s.kind = "insert" /\ Len(s.occ) > 0 /\ governedBy(p, s.conflict)
    \/ updateConflictTarget(p, s)
    \/ /\ s.kind # "insert" /\ analyzeApplicability(p, s) /\ ~Hidden(s)
       /\ \E i \in DOMAIN s.occ :
             LET o == s.occ[i]
             IN  \/ p.placeholder /\ o.folds
                 \/ InOnClause(p, o) /\ ~(o.located /\ o.on.found /\ ~o.on.wrongJoin /\ Present(o.on, Conjunct(p, o)))
                 \/ ~InOnClause(p, o) /\ ~( /\ s.setop # "none" => s.setop = "read" /\ o.at = o.branch
                                           /\ Present(s.wheres[o.branch], Conjunct(p, o)))

\* Opt-outs and acknowledgments of unknown or inapplicable policies: 126.
BadAnnotations(pols, s) ==
    \/ \E n \in s.optouts \cup s.applies : ~\E p \in pols : p.name = n
    \/ s.optouts \cap s.applies # {}
    \/ \E p \in pols : p.name \in s.optouts \cup s.applies /\ ~Applies(p, s)

Enforce(pols, s) ==
    (IF BadAnnotations(pols, s) THEN {126} ELSE {})
    \cup (IF \E p \in pols : p.name \notin s.optouts /\ Unproved(p, s) THEN {124} ELSE {})

-----------------------------------------------------------------------------
(* What a policy asks for, shape by shape: rows of t are read or changed   *)
(* only through a reference that its conjunct filters.                     *)

\* Reads of t outside the top-level FROM clause, in some shape.
ReadsBelow(s) == \/ s.sub > 0
                 \/ \E k \in DOMAIN s.blocks : \E j \in DOMAIN s.blocks[k] : s.blocks[k][j] > 0
Filtered(p, s, o) ==
    IF InOnClause(p, o) THEN o.on.found /\ ~o.on.wrongJoin /\ ~o.on.hasOR /\ Conjunct(p, o) \in o.on.has
    ELSE ~s.wheres[o.branch].hasOR /\ Conjunct(p, o) \in s.wheres[o.branch].has
Exposed(p, s) ==
    \/ p.reads
    \/ \E d \in s.nested.always \cup s.nested.sometimes : coversNested(p, d)
    \/ s.kind = "insert" /\ Len(s.occ) > 0 /\ governedBy(p, s.conflict)
    \/ s.kind = "update" /\ s.conflict.del /\ s.target /\ appliesTo(p, "delete")
    \/ s.kind = "insert" /\ appliesTo(p, "select") /\ ReadsBelow(s)
    \/ /\ s.kind # "insert" /\ appliesTo(p, s.kind)
       /\ ReadsBelow(s) \/ \E i \in DOMAIN s.occ : ~Filtered(p, s, s.occ[i])
\* An unconditional conjunct whose parameter may be absent.
Starved(p, s) == p.param /\ Len(s.occ) > 0 /\ s.kind # "insert" /\ appliesTo(p, s.kind)
                 /\ s.param \in {"guard", "tree"}
=============================================================================
