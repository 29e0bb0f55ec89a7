---------------------------- MODULE PolicyProofs ----------------------------
(***************************************************************************)
(* Policies hold for every statement and every set of policies.            *)
(*                                                                         *)
(* The argument follows a policy that applies and is not opted out of.  An *)
(* accepted query was not refused by the weaver, so every aspect that the  *)
(* weaver cannot scope is absent (Refuses), and every clause that scopes   *)
(* an occurrence holds the conjunct afterwards (WovenClauses).  What the   *)
(* weaver changes is nothing that applicability reads (SameApplies), so    *)
(* the enforcement pass and a second weave come to the same policies.      *)
(***************************************************************************)
EXTENDS Policy, TLAPS

Woven(ps, s) == Weave(ps, s).stmt
Settled(ps, s) == 125 \notin Weave(ps, s).diags

\* What applicability reads of a statement.
Kept(s, t) ==
    /\ t.kind = s.kind /\ t.sub = s.sub /\ t.blocks = s.blocks /\ t.nested = s.nested
    /\ t.conflict = s.conflict /\ t.target = s.target /\ t.setop = s.setop
    /\ t.optouts = s.optouts /\ t.applies = s.applies
    /\ Len(t.occ) = Len(s.occ) /\ DOMAIN t.wheres = DOMAIN s.wheres

\* A clause with conjuncts added is a clause as readable as before; it holds
\* what was added, and what it held unless an OR had to be wrapped.
LEMMA ExtendedWhere ==
    ASSUME NEW c \in BranchType, NEW names \in SUBSET ConjunctType
    PROVE  /\ Extend(c, names) \in BranchType
           /\ Extend(c, names).lexOK = c.lexOK
           /\ \A n \in names : ~Extend(c, names).hasOR /\ n \in Extend(c, names).has
           /\ \A n \in c.has : ~c.hasOR => ~Extend(c, names).hasOR /\ n \in Extend(c, names).has
<1>1. CASE names = {}
  BY <1>1 DEF Extend
<1>2. CASE names # {}
  <2>1. Extend(c, names) = [c EXCEPT !.has = names \cup (IF c.hasOR THEN {} ELSE c.has), !.hasOR = FALSE]
    BY <1>2 DEF Extend
  <2>2. Extend(c, names) =
            [lexOK |-> c.lexOK, hasOR |-> FALSE, has |-> names \cup (IF c.hasOR THEN {} ELSE c.has),
             lead |-> c.lead]
    BY <2>1 DEF BranchType
  <2>3. /\ c.lexOK \in BOOLEAN /\ c.hasOR \in BOOLEAN /\ c.has \in SUBSET ConjunctType
        /\ c.lead \in {"SELECT", "TABLE", "VALUES"}
    BY DEF BranchType
  <2>4. names \cup (IF c.hasOR THEN {} ELSE c.has) \in SUBSET ConjunctType
    BY <2>3
  <2>5. Extend(c, names) \in BranchType
    BY <2>2, <2>3, <2>4 DEF BranchType
  <2> QED
    BY <2>2, <2>5
<1> QED
  BY <1>1, <1>2

\* The same for the ON clause of a join, which stays the clause it was.
LEMMA ExtendedOn ==
    ASSUME NEW c \in OnType, NEW names \in SUBSET ConjunctType
    PROVE  /\ Extend(c, names) \in OnType
           /\ Extend(c, names).lexOK = c.lexOK
           /\ Extend(c, names).found = c.found /\ Extend(c, names).wrongJoin = c.wrongJoin
           /\ \A n \in names : ~Extend(c, names).hasOR /\ n \in Extend(c, names).has
           /\ \A n \in c.has : ~c.hasOR => ~Extend(c, names).hasOR /\ n \in Extend(c, names).has
<1>1. CASE names = {}
  BY <1>1 DEF Extend
<1>2. CASE names # {}
  <2>1. Extend(c, names) = [c EXCEPT !.has = names \cup (IF c.hasOR THEN {} ELSE c.has), !.hasOR = FALSE]
    BY <1>2 DEF Extend
  <2>2. Extend(c, names) =
            [lexOK |-> c.lexOK, hasOR |-> FALSE, has |-> names \cup (IF c.hasOR THEN {} ELSE c.has),
             found |-> c.found, wrongJoin |-> c.wrongJoin]
    BY <2>1 DEF OnType
  <2>3. /\ c.lexOK \in BOOLEAN /\ c.hasOR \in BOOLEAN /\ c.has \in SUBSET ConjunctType
        /\ c.found \in BOOLEAN /\ c.wrongJoin \in BOOLEAN
    BY DEF OnType
  <2>4. names \cup (IF c.hasOR THEN {} ELSE c.has) \in SUBSET ConjunctType
    BY <2>3
  <2>5. Extend(c, names) \in OnType
    BY <2>2, <2>3, <2>4 DEF OnType
  <2> QED
    BY <2>2, <2>5
<1> QED
  BY <1>1, <1>2

\* What a statement's type says of its clauses and occurrences.
LEMMA StatementFacts ==
    ASSUME NEW s \in StatementType
    PROVE  /\ s \in StatementFields /\ s.wheres \in Seq(BranchType) /\ s.occ \in Seq(OccurrenceType)
           /\ \A b \in DOMAIN s.wheres : s.wheres[b] \in BranchType
           /\ \A i \in DOMAIN s.occ :
                 /\ s.occ[i] \in OccurrenceType /\ s.occ[i].on \in OnType
                 /\ s.occ[i].branch \in DOMAIN s.wheres
<1>1. s \in StatementFields /\ \A i \in DOMAIN s.occ : s.occ[i].branch \in DOMAIN s.wheres
  BY DEF StatementType
<1>2. s.wheres \in Seq(BranchType) /\ s.occ \in Seq(OccurrenceType)
  BY <1>1 DEF StatementFields
<1>3. \A i \in DOMAIN s.occ : s.occ[i] \in OccurrenceType
  BY <1>2
<1> QED
  BY <1>1, <1>2, <1>3 DEF OccurrenceType

\* What the weaver adds to a clause are conjuncts of the policies.
LEMMA NeedsAreConjuncts ==
    ASSUME NEW ps \in SUBSET PolicyType, NEW s \in StatementType
    PROVE  /\ \A b : WhereNeeds(ps, s, b) \in SUBSET ConjunctType
           /\ \A i \in DOMAIN s.occ : OnNeeds(ps, s, s.occ[i]) \in SUBSET ConjunctType
<1>1. \A p \in ps : \A i \in DOMAIN s.occ : Conjunct(p, s.occ[i]) \in ConjunctType
  <2> TAKE p \in ps
  <2> TAKE i \in DOMAIN s.occ
  <2>1. p.name \in STRING
    BY DEF PolicyType
  <2>2. s.occ[i].name \in STRING
    BY StatementFacts DEF OccurrenceType
  <2> QED
    BY <2>1, <2>2 DEF Conjunct, ConjunctType
<1>2. \A p \in ps : \A b : WhereConjuncts(p, s, b) \in SUBSET ConjunctType
  BY <1>1 DEF WhereConjuncts
<1>3. \A b : WhereNeeds(ps, s, b) \in SUBSET ConjunctType
  BY <1>2 DEF WhereNeeds, Missing, InForce
<1>4. \A i \in DOMAIN s.occ : OnNeeds(ps, s, s.occ[i]) \in SUBSET ConjunctType
  BY <1>1 DEF OnNeeds, Missing, InForce
<1> QED
  BY <1>3, <1>4

\* What the weaver makes of a statement: its clauses extended, a parameter
\* registered, everything else as it was.
LEMMA WovenIs ==
    ASSUME NEW ps \in SUBSET PolicyType, NEW s \in StatementType
    PROVE  /\ Woven(ps, s) \in StatementType
           /\ Kept(s, Woven(ps, s))
           /\ \A b \in DOMAIN s.wheres :
                 Woven(ps, s).wheres[b] = Extend(s.wheres[b], WhereNeeds(ps, s, b))
           /\ DOMAIN Woven(ps, s).occ = DOMAIN s.occ
           /\ \A i \in DOMAIN s.occ :
                 Woven(ps, s).occ[i] =
                    [s.occ[i] EXCEPT !.on = Extend(s.occ[i].on, OnNeeds(ps, s, s.occ[i]))]
           /\ Woven(ps, s).param \in {"guard", "tree"} => s.param = Woven(ps, s).param
<1> DEFINE woven == InForce(ps, s)
           occ == [i \in DOMAIN s.occ |-> Scope(ps, s, s.occ[i])]
           par == IF s.param = "none" /\ \E p \in woven : p.param THEN "policy" ELSE s.param
           hnt == IF s.hint = "none" /\ \E p \in woven : p.param /\ p.typed THEN "same" ELSE s.hint
           whr == [b \in DOMAIN s.wheres |-> Extend(s.wheres[b], WhereNeeds(ps, s, b))]
<1>1. Woven(ps, s) = [s EXCEPT !.wheres = whr, !.occ = occ, !.param = par, !.hint = hnt]
  BY DEF Woven, Weave
<1>2. whr \in Seq(BranchType) /\ DOMAIN whr = DOMAIN s.wheres
  <2>1. \A b \in DOMAIN s.wheres : whr[b] \in BranchType
    BY StatementFacts, ExtendedWhere, NeedsAreConjuncts
  <2>2. Len(s.wheres) \in Nat /\ DOMAIN s.wheres = 1 .. Len(s.wheres)
    BY StatementFacts
  <2>3. whr \in [1 .. Len(s.wheres) -> BranchType]
    BY <2>1, <2>2
  <2> HIDE DEF whr
  <2> QED
    BY <2>2, <2>3
<1>3. \A i \in DOMAIN s.occ :
          occ[i] = [s.occ[i] EXCEPT !.on = Extend(s.occ[i].on, OnNeeds(ps, s, s.occ[i]))]
  BY DEF Scope
<1>4. \A i \in DOMAIN s.occ : occ[i] \in OccurrenceType /\ occ[i].branch = s.occ[i].branch
  <2> TAKE i \in DOMAIN s.occ
  <2>1. Extend(s.occ[i].on, OnNeeds(ps, s, s.occ[i])) \in OnType
    BY StatementFacts, ExtendedOn, NeedsAreConjuncts
  <2>2. s.occ[i] \in OccurrenceType
    BY StatementFacts
  <2>3. occ[i] = [s.occ[i] EXCEPT !.on = Extend(s.occ[i].on, OnNeeds(ps, s, s.occ[i]))]
    BY <1>3
  <2> QED
    BY <2>1, <2>2, <2>3 DEF OccurrenceType
<1>5. occ \in Seq(OccurrenceType) /\ Len(occ) = Len(s.occ) /\ DOMAIN occ = DOMAIN s.occ
  <2>1. Len(s.occ) \in Nat /\ DOMAIN s.occ = 1 .. Len(s.occ)
    BY StatementFacts
  <2>2. occ \in [1 .. Len(s.occ) -> OccurrenceType]
    BY <1>4, <2>1
  <2> HIDE DEF occ
  <2> QED
    BY <2>1, <2>2
<1>6. /\ par \in {"none", "value", "policy", "guard", "tree"}
      /\ hnt \in {"none", "same", "other"}
      /\ par \in {"guard", "tree"} => s.param = par
  BY StatementFacts DEF StatementFields
<1>7. \A b \in DOMAIN s.wheres : whr[b] = Extend(s.wheres[b], WhereNeeds(ps, s, b))
  OBVIOUS
<1> HIDE DEF woven, occ, par, hnt, whr
<1>8. Woven(ps, s) \in StatementFields
  BY <1>1, <1>2, <1>5, <1>6, StatementFacts DEF StatementFields
<1>9. /\ Woven(ps, s).wheres = whr /\ Woven(ps, s).occ = occ
      /\ Woven(ps, s).param = par /\ Woven(ps, s).kind = s.kind
      /\ Woven(ps, s).sub = s.sub /\ Woven(ps, s).blocks = s.blocks
      /\ Woven(ps, s).nested = s.nested /\ Woven(ps, s).conflict = s.conflict
      /\ Woven(ps, s).target = s.target /\ Woven(ps, s).setop = s.setop
      /\ Woven(ps, s).optouts = s.optouts /\ Woven(ps, s).applies = s.applies
  BY <1>1, StatementFacts DEF StatementFields
<1>10. Kept(s, Woven(ps, s))
  BY <1>2, <1>5, <1>9 DEF Kept
<1>11. \A i \in DOMAIN occ : occ[i].branch \in DOMAIN whr
  BY <1>2, <1>4, <1>5, StatementFacts
<1>12. Woven(ps, s) \in StatementType
  BY <1>8, <1>9, <1>11 DEF StatementType
<1> QED
  BY <1>3, <1>5, <1>6, <1>7, <1>9, <1>10, <1>12

\* What an occurrence keeps when its ON clause is extended.
LEMMA SameOccurrence ==
    ASSUME NEW ps \in SUBSET PolicyType, NEW s \in StatementType, NEW i \in DOMAIN s.occ, NEW p
    PROVE  LET o == s.occ[i]
               w == Woven(ps, s).occ[i]
           IN  /\ w.on = Extend(o.on, OnNeeds(ps, s, o))
               /\ w.branch = o.branch /\ w.at = o.at /\ w.folds = o.folds /\ w.located = o.located
               /\ InOnClause(p, w) = InOnClause(p, o) /\ Conjunct(p, w) = Conjunct(p, o)
<1> DEFINE o == s.occ[i]
           w == Woven(ps, s).occ[i]
<1>1. o \in OccurrenceType
  BY StatementFacts
<1>2. w = [o EXCEPT !.on = Extend(o.on, OnNeeds(ps, s, o))]
  BY WovenIs
<1>3. /\ w.on = Extend(o.on, OnNeeds(ps, s, o)) /\ w.nullable = o.nullable /\ w.name = o.name
      /\ w.branch = o.branch /\ w.at = o.at /\ w.folds = o.folds /\ w.located = o.located
  BY <1>1, <1>2 DEF OccurrenceType
<1> QED
  BY <1>3 DEF InOnClause, Conjunct

\* Applicability reads nothing that the weaver changes.
LEMMA SameApplies ==
    ASSUME NEW s, NEW t, NEW p, Kept(s, t)
    PROVE  /\ Applies(p, t) = Applies(p, s)
           /\ analyzeApplicability(p, t) = analyzeApplicability(p, s)
           /\ designatedOverread(p, t) = designatedOverread(p, s)
           /\ NestedHit(p, t) = NestedHit(p, s)
           /\ updateConflictTarget(p, t) = updateConflictTarget(p, s)
           /\ Hidden(t) = Hidden(s)
<1>1. /\ designatedOverread(p, t) = designatedOverread(p, s)
      /\ NestedHit(p, t) = NestedHit(p, s)
      /\ updateConflictTarget(p, t) = updateConflictTarget(p, s)
      /\ Hidden(t) = Hidden(s)
  BY DEF Kept, designatedOverread, overread, NestedHit, updateConflictTarget, Hidden
<1>2. analyzeApplicability(p, t) = analyzeApplicability(p, s)
  BY <1>1 DEF Kept, analyzeApplicability
<1> QED
  BY <1>1, <1>2 DEF Applies

\* Where the weaver reports no SQLETCH125 it has woven every policy that applies
\* and is not opted out of, and refuses none of them.
LEMMA SettledWeaves ==
    ASSUME NEW ps, NEW s, Settled(ps, s), NEW p \in ps, Applies(p, s), p.name \notin s.optouts
    PROVE  ~Refuses(p, s) /\ apply(p, s).woven
<1>1. 125 \notin apply(p, s).diags
  BY DEF Settled, Weave
<1>2. apply(p, s).diags = (IF Refuses(p, s) THEN {125} ELSE {})
                          \cup (IF annotationObligation(p, s) THEN {127} ELSE {})
  BY DEF apply
<1>3. ~Refuses(p, s)
  BY <1>1, <1>2
<1> QED
  BY <1>3 DEF apply

\* A woven policy's conjunct is present in every clause that scopes an
\* occurrence.
LEMMA WovenClauses ==
    ASSUME NEW ps \in SUBSET PolicyType, NEW s \in StatementType,
           NEW p \in ps, apply(p, s).woven, ~Refuses(p, s),
           NEW i \in DOMAIN s.occ
    PROVE  LET c == Conjunct(p, s.occ[i])
               t == Woven(ps, s)
           IN  /\ InOnClause(p, s.occ[i]) =>
                     Present(t.occ[i].on, c) /\ t.occ[i].on.found /\ ~t.occ[i].on.wrongJoin
               /\ ~InOnClause(p, s.occ[i]) => Present(t.wheres[s.occ[i].branch], c)
<1> DEFINE o == s.occ[i]
           c == Conjunct(p, o)
           t == Woven(ps, s)
           b == o.branch
           W == s.wheres[b]
           wn == WhereNeeds(ps, s, b)
           on == OnNeeds(ps, s, o)
<1>1. o.on \in OnType /\ b \in DOMAIN s.wheres /\ W \in BranchType
  BY StatementFacts
<1>2. t.wheres[b] = Extend(W, wn)
  BY <1>1, WovenIs
<1>3. t.occ[i].on = Extend(o.on, on)
  BY SameOccurrence
<1>4. ~RefusesOccurrence(p, o) /\ ~RefusesWhere(p, s)
  BY DEF Refuses
<1>5. wn \in SUBSET ConjunctType /\ on \in SUBSET ConjunctType
  BY NeedsAreConjuncts
<1>6. p \in InForce(ps, s)
  BY DEF InForce
<1>7. ASSUME InOnClause(p, o)
      PROVE  Present(t.occ[i].on, c) /\ t.occ[i].on.found /\ ~t.occ[i].on.wrongJoin
  <2>1. o.on.found /\ o.on.lexOK /\ ~o.on.wrongJoin
    BY <1>4, <1>7 DEF RefusesOccurrence, InOnClause
  <2>2. Present(o.on, c) \/ c \in on
    BY <1>6, <1>7 DEF OnNeeds, Missing
  <2> HIDE DEF o, t, on, c
  <2>3. Present(o.on, c) => ~Extend(o.on, on).hasOR /\ c \in Extend(o.on, on).has
    BY <1>1, <1>5, ExtendedOn DEF Present
  <2>4. c \in on => ~Extend(o.on, on).hasOR /\ c \in Extend(o.on, on).has
    BY <1>1, <1>5, ExtendedOn
  <2>5. /\ Extend(o.on, on).lexOK = o.on.lexOK
        /\ Extend(o.on, on).found = o.on.found /\ Extend(o.on, on).wrongJoin = o.on.wrongJoin
    BY <1>1, <1>5, ExtendedOn
  <2> QED
    BY <1>3, <2>1, <2>2, <2>3, <2>4, <2>5 DEF Present
<1>8. ASSUME ~InOnClause(p, o)
      PROVE  Present(t.wheres[b], c)
  <2>1. W.lexOK
    BY <1>4, <1>8 DEF RefusesWhere
  <2>2. c \in WhereConjuncts(p, s, b)
    BY <1>8 DEF WhereConjuncts
  <2>3. Present(W, c) \/ c \in wn
    BY <1>6, <2>2 DEF WhereNeeds, Missing
  <2> HIDE DEF o, t, b, W, wn, c
  <2>4. Present(W, c) => ~Extend(W, wn).hasOR /\ c \in Extend(W, wn).has
    BY <1>1, <1>5, ExtendedWhere DEF Present
  <2>5. c \in wn => ~Extend(W, wn).hasOR /\ c \in Extend(W, wn).has
    BY <1>1, <1>5, ExtendedWhere
  <2>6. Extend(W, wn).lexOK = W.lexOK
    BY <1>1, <1>5, ExtendedWhere
  <2> QED
    BY <1>2, <2>1, <2>3, <2>4, <2>5, <2>6 DEF Present
<1> QED
  BY <1>7, <1>8

-----------------------------------------------------------------------------
\* A read of the table below the top level, in whichever shape, is one the
\* maximal rendering shows or one that an alternative has in excess of it.
LEMMA ReadsAreSeen ==
    ASSUME NEW s \in StatementType, ReadsBelow(s)
    PROVE  Hidden(s) \/ overread(s)
<1>1. CASE s.sub > 0
  BY <1>1 DEF Hidden
<1>2. CASE \E k \in DOMAIN s.blocks : \E j \in DOMAIN s.blocks[k] : s.blocks[k][j] > 0
  <2>1. PICK k \in DOMAIN s.blocks : \E j \in DOMAIN s.blocks[k] : s.blocks[k][j] > 0
    BY <1>2
  <2>2. PICK j \in DOMAIN s.blocks[k] : s.blocks[k][j] > 0
    BY <2>1
  <2>3. s.blocks[k] \in Seq(Nat) /\ s.blocks[k] # <<>>
    BY StatementFacts DEF StatementFields
  <2>4. s.blocks[k][j] \in Nat /\ s.blocks[k][1] \in Nat
    BY <2>3
  <2>5. s.blocks[k][1] > 0 \/ s.blocks[k][j] > s.blocks[k][1]
    BY <2>2, <2>4
  <2> QED
    BY <2>5 DEF Hidden, overread
<1> QED
  BY <1>1, <1>2 DEF ReadsBelow

\* A set of policies that compiles has no predicate that reads a relation.
LEMMA CompiledReadsNothing ==
    ASSUME NEW ps, NEW p \in ps, Validate(ps, p) = {}
    PROVE  ~p.reads
BY DEF Validate

\* Whatever a policy that does not apply asks for, the statement gives.
LEMMA ExposedApplies ==
    ASSUME NEW s \in StatementType, NEW p \in PolicyType, ~p.reads,
           Exposed(p, s) \/ Starved(p, s)
    PROVE  Applies(p, s)
<1>1. ASSUME ReadsBelow(s), appliesTo(p, IF s.kind = "insert" THEN "select" ELSE s.kind)
      PROVE  Applies(p, s)
  BY <1>1, ReadsAreSeen DEF Applies, analyzeApplicability, designatedOverread
<1>2. ASSUME \E i \in DOMAIN s.occ : TRUE
      PROVE  Len(s.occ) > 0
  <2>1. s.occ \in Seq(OccurrenceType)
    BY StatementFacts
  <2> QED
    BY <1>2, <2>1
<1>3. ASSUME s.kind # "insert", appliesTo(p, s.kind), Len(s.occ) > 0
      PROVE  Applies(p, s)
  BY <1>3 DEF Applies, analyzeApplicability
<1>4. CASE Starved(p, s)
  BY <1>3, <1>4 DEF Starved
<1>5. CASE Exposed(p, s)
  <2>1. CASE NestedHit(p, s)
    BY <2>1 DEF Applies, analyzeApplicability
  <2>2. CASE s.kind = "insert" /\ Len(s.occ) > 0 /\ governedBy(p, s.conflict)
    BY <2>2 DEF Applies, analyzeApplicability
  <2>3. CASE s.kind = "update" /\ s.conflict.del /\ s.target /\ appliesTo(p, "delete")
    BY <2>3 DEF Applies, analyzeApplicability, updateConflictTarget, governedBy
  <2>4. CASE s.kind = "insert" /\ appliesTo(p, "select") /\ ReadsBelow(s)
    BY <1>1, <2>4
  <2>5. CASE s.kind # "insert" /\ appliesTo(p, s.kind) /\ ReadsBelow(s)
    BY <1>1, <2>5
  <2>6. CASE /\ s.kind # "insert" /\ appliesTo(p, s.kind)
             /\ \E i \in DOMAIN s.occ : ~Filtered(p, s, s.occ[i])
    BY <1>2, <1>3, <2>6
  <2> QED
    BY <1>5, <2>1, <2>2, <2>3, <2>4, <2>5, <2>6 DEF Exposed, NestedHit
<1> QED
  BY <1>4, <1>5

\* What the weaver does not refuse is exposed by an unfiltered occurrence or
\* not at all.
LEMMA RefusedOrFiltered ==
    ASSUME NEW s \in StatementType, NEW p \in PolicyType, ~p.reads, ~RefusesStatement(p, s), Exposed(p, s)
    PROVE  s.kind # "insert" /\ \E i \in DOMAIN s.occ : ~Filtered(p, s, s.occ[i])
<1>1. /\ ~designatedOverread(p, s) /\ ~NestedHit(p, s) /\ s.kind # "insert"
      /\ ~updateConflictTarget(p, s) /\ ~Hidden(s)
  BY DEF RefusesStatement
<1>2. ~(appliesTo(p, s.kind) /\ ReadsBelow(s))
  BY <1>1, ReadsAreSeen DEF designatedOverread
<1>3. ~(s.kind = "update" /\ s.conflict.del /\ s.target /\ appliesTo(p, "delete"))
  BY <1>1 DEF updateConflictTarget, governedBy
<1> QED
  BY <1>1, <1>2, <1>3 DEF Exposed, NestedHit

\* A statement woven without a SQLETCH125, under policies that compile, exposes
\* nothing to a policy it did not opt out of, and binds its parameters.
LEMMA NothingExposed ==
    ASSUME NEW ps \in SUBSET PolicyType, NEW s \in StatementType, Settled(ps, s),
           NEW p \in ps, Validate(ps, p) = {}, p.name \notin s.optouts
    PROVE  ~Exposed(p, Woven(ps, s)) /\ ~Starved(p, Woven(ps, s))
<1> DEFINE t == Woven(ps, s)
<1>1. SUFFICES ASSUME Exposed(p, t) \/ Starved(p, t)
               PROVE  FALSE
  OBVIOUS
<1>2. ~p.reads /\ p \in PolicyType
  BY CompiledReadsNothing
<1>3. t \in StatementType /\ Kept(s, t)
  BY WovenIs
<1> HIDE DEF t
<1>4. Applies(p, t)
  BY <1>1, <1>2, <1>3, ExposedApplies
<1>5. Applies(p, s)
  BY <1>3, <1>4, SameApplies
<1>6. ~Refuses(p, s) /\ apply(p, s).woven
  BY <1>5, SettledWeaves
<1>7. ~Starved(p, t)
  <2>1. t.param \in {"guard", "tree"} => s.param = t.param
    BY WovenIs DEF t
  <2>2. ~RefusesParam(p, s)
    BY <1>6 DEF Refuses
  <2> QED
    BY <2>1, <2>2 DEF Starved, RefusesParam
<1>8. ~RefusesStatement(p, t)
  <2>1. ~RefusesStatement(p, s)
    BY <1>6 DEF Refuses
  <2>2. t.kind = s.kind
    BY <1>3 DEF Kept
  <2> QED
    BY <1>3, <2>1, <2>2, SameApplies DEF RefusesStatement
<1>9. \A i \in DOMAIN t.occ : Filtered(p, t, t.occ[i])
  <2> TAKE i \in DOMAIN t.occ
  <2>1. i \in DOMAIN s.occ
    BY WovenIs DEF t
  <2>2. /\ InOnClause(p, t.occ[i]) = InOnClause(p, s.occ[i])
        /\ Conjunct(p, t.occ[i]) = Conjunct(p, s.occ[i]) /\ t.occ[i].branch = s.occ[i].branch
    <3>1. \A q : /\ InOnClause(q, t.occ[i]) = InOnClause(q, s.occ[i])
                 /\ Conjunct(q, t.occ[i]) = Conjunct(q, s.occ[i]) /\ t.occ[i].branch = s.occ[i].branch
      <4> TAKE q
      <4> QED
        BY <2>1, SameOccurrence DEF t
    <3> QED
      BY <3>1
  <2>3. /\ InOnClause(p, s.occ[i]) =>
              /\ Present(t.occ[i].on, Conjunct(p, s.occ[i]))
              /\ t.occ[i].on.found /\ ~t.occ[i].on.wrongJoin
        /\ ~InOnClause(p, s.occ[i]) => Present(t.wheres[s.occ[i].branch], Conjunct(p, s.occ[i]))
    BY <1>6, <2>1, WovenClauses DEF t
  <2> QED
    BY <2>2, <2>3 DEF Filtered, Present
<1>10. Exposed(p, t)
  BY <1>1, <1>7
<1> QED
  BY <1>2, <1>3, <1>8, <1>9, <1>10, RefusedOrFiltered

\* The enforcement pass finds nothing to report in such a statement.
LEMMA NothingUnproved ==
    ASSUME NEW ps \in SUBSET PolicyType, NEW s \in StatementType, Settled(ps, s),
           NEW p \in ps, p.name \notin s.optouts
    PROVE  ~Unproved(p, Woven(ps, s))
<1> DEFINE t == Woven(ps, s)
<1>1. SUFFICES ASSUME Unproved(p, t)
               PROVE  FALSE
  OBVIOUS
<1>2. t \in StatementType /\ Kept(s, t)
  BY WovenIs
<1> HIDE DEF t
<1>3. Applies(p, t)
  BY <1>1 DEF Unproved, Applies, analyzeApplicability
<1>4. Applies(p, s)
  BY <1>2, <1>3, SameApplies
<1>5. ~Refuses(p, s) /\ apply(p, s).woven
  BY <1>4, SettledWeaves
<1>6. ~RefusesStatement(p, s)
  BY <1>5 DEF Refuses
<1>7. ~designatedOverread(p, t) /\ ~NestedHit(p, t) /\ t.kind # "insert" /\ ~updateConflictTarget(p, t)
  BY <1>2, <1>6, SameApplies DEF RefusesStatement, Kept
<1>8. PICK i \in DOMAIN t.occ :
          LET o == t.occ[i]
          IN  \/ p.placeholder /\ o.folds
              \/ /\ InOnClause(p, o)
                 /\ ~(o.located /\ o.on.found /\ ~o.on.wrongJoin /\ Present(o.on, Conjunct(p, o)))
              \/ /\ ~InOnClause(p, o)
                 /\ ~( /\ t.setop # "none" => t.setop = "read" /\ o.at = o.branch
                       /\ Present(t.wheres[o.branch], Conjunct(p, o)))
  BY <1>1, <1>7 DEF Unproved
<1>9. i \in DOMAIN s.occ
  BY WovenIs DEF t
<1>10. /\ t.occ[i].folds = s.occ[i].folds /\ t.occ[i].located = s.occ[i].located
       /\ t.occ[i].at = s.occ[i].at /\ t.occ[i].branch = s.occ[i].branch
       /\ InOnClause(p, t.occ[i]) = InOnClause(p, s.occ[i])
       /\ Conjunct(p, t.occ[i]) = Conjunct(p, s.occ[i])
  BY <1>9, SameOccurrence DEF t
<1>11. /\ InOnClause(p, s.occ[i]) =>
             /\ Present(t.occ[i].on, Conjunct(p, s.occ[i]))
             /\ t.occ[i].on.found /\ ~t.occ[i].on.wrongJoin
       /\ ~InOnClause(p, s.occ[i]) => Present(t.wheres[s.occ[i].branch], Conjunct(p, s.occ[i]))
  BY <1>5, <1>9, WovenClauses DEF t
<1>12. ~RefusesBranch(s, s.occ[i]) /\ ~RefusesOccurrence(p, s.occ[i])
  BY <1>5, <1>9 DEF Refuses
<1>13. s.setop \in {"none", "read", "unread"} /\ t.setop = s.setop
  BY <1>2, StatementFacts DEF StatementFields, Kept
<1>14. s.setop # "none" => s.setop = "read" /\ s.occ[i].at = s.occ[i].branch
  BY <1>12, <1>13 DEF RefusesBranch, RefusesOccurrence
<1>15. InOnClause(p, s.occ[i]) => s.occ[i].located
  BY <1>12 DEF RefusesOccurrence, InOnClause
<1>16. ~(p.placeholder /\ s.occ[i].folds)
  BY <1>12 DEF RefusesOccurrence
<1> QED
  BY <1>8, <1>10, <1>11, <1>13, <1>14, <1>15, <1>16

\* Weaving such a statement again adds no conjunct.
LEMMA NothingAdded ==
    ASSUME NEW ps \in SUBSET PolicyType, NEW s \in StatementType, Settled(ps, s)
    PROVE  Weave(ps, Woven(ps, s)).needs = {}
<1> DEFINE t == Woven(ps, s)
<1>1. t \in StatementType /\ Kept(s, t) /\ DOMAIN t.occ = DOMAIN s.occ
  BY WovenIs
<1> HIDE DEF t
<1>2. ASSUME NEW p \in ps, apply(p, t).woven
      PROVE  ~Refuses(p, s) /\ apply(p, s).woven
  <2>1. Applies(p, t) /\ p.name \notin t.optouts
    BY <1>2 DEF apply
  <2>2. Applies(p, s) /\ p.name \notin s.optouts
    BY <1>1, <2>1, SameApplies DEF Kept
  <2> QED
    BY <2>2, SettledWeaves
<1>3. ASSUME NEW i \in DOMAIN t.occ, NEW p
      PROVE  /\ i \in DOMAIN s.occ
             /\ InOnClause(p, t.occ[i]) = InOnClause(p, s.occ[i])
             /\ Conjunct(p, t.occ[i]) = Conjunct(p, s.occ[i]) /\ t.occ[i].branch = s.occ[i].branch
  <2>1. i \in DOMAIN s.occ
    BY <1>1
  <2> QED
    BY <2>1, SameOccurrence DEF t
<1>4. \A b \in DOMAIN t.wheres : WhereNeeds(ps, t, b) = {}
  <2> TAKE b \in DOMAIN t.wheres
  <2>1. ASSUME NEW p \in InForce(ps, t), NEW c \in WhereConjuncts(p, t, b)
        PROVE  Present(t.wheres[b], c)
    <3>1. p \in ps /\ apply(p, t).woven
      BY DEF InForce
    <3>2. PICK i \in DOMAIN t.occ : t.occ[i].branch = b /\ ~InOnClause(p, t.occ[i]) /\ c = Conjunct(p, t.occ[i])
      BY DEF WhereConjuncts
    <3>3. /\ i \in DOMAIN s.occ /\ ~InOnClause(p, s.occ[i])
          /\ c = Conjunct(p, s.occ[i]) /\ b = s.occ[i].branch
      BY <1>3, <3>2
    <3> QED
      BY <1>2, <3>1, <3>3, WovenClauses DEF t
  <2> QED
    BY <2>1 DEF WhereNeeds, Missing
<1>5. \A i \in DOMAIN t.occ : OnNeeds(ps, t, t.occ[i]) = {}
  <2> TAKE i \in DOMAIN t.occ
  <2>1. ASSUME NEW p \in InForce(ps, t), InOnClause(p, t.occ[i])
        PROVE  Present(t.occ[i].on, Conjunct(p, t.occ[i]))
    <3>1. p \in ps /\ apply(p, t).woven
      BY DEF InForce
    <3>2. i \in DOMAIN s.occ /\ InOnClause(p, s.occ[i]) /\ Conjunct(p, t.occ[i]) = Conjunct(p, s.occ[i])
      BY <1>3, <2>1
    <3> QED
      BY <1>2, <3>1, <3>2, WovenClauses DEF t
  <2> QED
    BY <2>1 DEF OnNeeds, Missing
<1>6. Weave(ps, t).needs = UNION {WhereNeeds(ps, t, b) : b \in DOMAIN t.wheres}
                           \cup UNION {OnNeeds(ps, t, t.occ[i]) : i \in DOMAIN t.occ}
  BY DEF Weave
<1>7. Weave(ps, t).needs = {}
  BY <1>4, <1>5, <1>6
<1> QED
  BY <1>7 DEF t

\* Enforce is a backstop that does not depend on the weaver: whatever wove a
\* statement, if the pass reports nothing and no read of the table is hidden
\* below the top level in the maximal rendering, which it leaves to the
\* weaver's refusal, then no policy that compiles is exposed.
THEOREM EnforcementIsABackstop ==
    ASSUME NEW ps \in SUBSET PolicyType, NEW s \in StatementType,
           Enforce(ps, s) = {}, ~Hidden(s),
           NEW p \in ps, Validate(ps, p) = {}, p.name \notin s.optouts
    PROVE  ~Exposed(p, s)
<1>1. ~p.reads
  BY CompiledReadsNothing
<1>2. ~Unproved(p, s)
  BY DEF Enforce
<1>3. /\ ~designatedOverread(p, s) /\ ~NestedHit(p, s) /\ ~updateConflictTarget(p, s)
      /\ ~(s.kind = "insert" /\ Len(s.occ) > 0 /\ governedBy(p, s.conflict))
  BY <1>2 DEF Unproved
<1>4. ~(appliesTo(p, IF s.kind = "insert" THEN "select" ELSE s.kind) /\ ReadsBelow(s))
  BY <1>3, ReadsAreSeen DEF designatedOverread
<1>5. ~(s.kind = "update" /\ s.conflict.del /\ s.target /\ appliesTo(p, "delete"))
  BY <1>3 DEF updateConflictTarget, governedBy
<1>6. ASSUME s.kind # "insert", appliesTo(p, s.kind), NEW i \in DOMAIN s.occ
      PROVE  Filtered(p, s, s.occ[i])
  <2>1. s.occ \in Seq(OccurrenceType)
    BY StatementFacts
  <2>2. Len(s.occ) > 0
    BY <1>6, <2>1
  <2>3. analyzeApplicability(p, s)
    BY <1>6, <2>2 DEF analyzeApplicability
  <2>4. /\ InOnClause(p, s.occ[i]) =>
              s.occ[i].on.found /\ ~s.occ[i].on.wrongJoin /\ Present(s.occ[i].on, Conjunct(p, s.occ[i]))
        /\ ~InOnClause(p, s.occ[i]) => Present(s.wheres[s.occ[i].branch], Conjunct(p, s.occ[i]))
    BY <1>2, <1>6, <2>3 DEF Unproved
  <2> QED
    BY <2>4 DEF Filtered, Present
<1> QED
  BY <1>1, <1>3, <1>4, <1>5, <1>6 DEF Exposed, NestedHit

-----------------------------------------------------------------------------
(* The specification.  Between the passes only this has to be remembered:  *)
(* the policies compiled, and the statement is what the weaver made of     *)
(* some statement, with the diagnostics that go with it.                  *)

PolicyTypes ==
    /\ pols \in SUBSET PolicyType
    /\ stmt \in StatementType
    /\ stage \in {"read", "compiled", "woven", "done", "refused"}
CompiledOK == stage \in {"compiled", "woven", "done"} => \A p \in pols : Validate(pols, p) = {}
\* The query s went through the weaver, and how the run went on.
WovenFrom(s) ==
    /\ stmt = Woven(pols, s)
    /\ \/ Weave(pols, s).diags = {} /\ stage = "woven" /\ diags = {}
       \/ Weave(pols, s).diags = {} /\ stage = "done" /\ diags = Enforce(pols, stmt)
       \/ Weave(pols, s).diags # {} /\ stage = "done" /\ diags = Weave(pols, s).diags
WovenOK == stage \in {"woven", "done"} => \E s \in StatementType : WovenFrom(s)

PolicyInv == PolicyTypes /\ CompiledOK /\ WovenOK

\* The three passes keep the invariant.
THEOREM PolicyInvariance == Spec => []PolicyInv
<1>1. Init => PolicyInv
  BY PolicyAssumption DEF Init, PolicyInv, PolicyTypes, CompiledOK, WovenOK
<1>2. PolicyInv /\ [Next]_vars => PolicyInv'
  <2> SUFFICES ASSUME PolicyInv, [Next]_vars
               PROVE  PolicyInv'
    OBVIOUS
  <2> USE DEF PolicyInv
  <2>1. CASE Compile
    <3>1. stage' \in {"compiled", "refused"} /\ stmt' = stmt
      BY <2>1 DEF Compile
    <3>2. CASE \E p \in pols : Validate(pols, p) # {}
      <4>1. pols' = {} /\ diags' = {303}
        BY <2>1, <3>2 DEF Compile, compilePolicies
      <4> QED
        BY <3>1, <4>1 DEF PolicyTypes, CompiledOK, WovenOK
    <3>3. CASE ~ \E p \in pols : Validate(pols, p) # {}
      <4>1. pols' = pols
        BY <2>1, <3>3 DEF Compile, compilePolicies
      <4> QED
        BY <3>1, <3>3, <4>1 DEF PolicyTypes, CompiledOK, WovenOK
    <3> QED
      BY <3>2, <3>3
  <2>2. CASE WeaveQuery
    <3>1. /\ stage = "compiled" /\ pols' = pols /\ stmt' = Woven(pols, stmt)
          /\ diags' = Weave(pols, stmt).diags
          /\ stage' = IF diags' = {} THEN "woven" ELSE "done"
      BY <2>2 DEF WeaveQuery, Woven
    <3>2. pols \in SUBSET PolicyType /\ stmt \in StatementType
      BY DEF PolicyTypes
    <3>3. stmt' \in StatementType
      BY <3>1, <3>2, WovenIs
    <3>4. PolicyTypes' /\ CompiledOK'
      BY <3>1, <3>2, <3>3 DEF PolicyTypes, CompiledOK
    <3>5. \E s \in StatementType :
             /\ stmt' = Woven(pols', s)
             /\ \/ Weave(pols', s).diags = {} /\ stage' = "woven" /\ diags' = {}
                \/ Weave(pols', s).diags # {} /\ stage' = "done" /\ diags' = Weave(pols', s).diags
      BY <3>1, <3>2
    <3> QED
      BY <3>4, <3>5 DEF WovenOK, WovenFrom
  <2>3. CASE EnforcePolicies
    <3>1. /\ stage = "woven" /\ stage' = "done" /\ pols' = pols /\ stmt' = stmt
          /\ diags' = Enforce(pols, stmt)
      BY <2>3 DEF EnforcePolicies
    <3>2. PICK s \in StatementType : stmt = Woven(pols, s) /\ Weave(pols, s).diags = {}
      BY <3>1 DEF WovenOK, WovenFrom
    <3>3. PolicyTypes' /\ CompiledOK'
      BY <3>1 DEF PolicyTypes, CompiledOK
    <3> QED
      BY <3>1, <3>2, <3>3 DEF WovenOK, WovenFrom
  <2>4. CASE UNCHANGED vars
    BY <2>4 DEF vars, PolicyTypes, CompiledOK, WovenOK, WovenFrom
  <2> QED
    BY <2>1, <2>2, <2>3, <2>4 DEF Next
<1> QED
  BY <1>1, <1>2, PTL DEF Spec

\* A query that passes exposes no row of a designated table, in any shape, to a
\* policy it did not opt out of, and binds every parameter a policy added:
\* compilePolicies, Weave and Enforce together, for every query and every set of
\* policies.
THEOREM AcceptedQueriesAreScoped == Spec => []PoliciesHold
<1>1. PolicyInv => PoliciesHold
  <2> SUFFICES ASSUME PolicyInv, stage = "done", diags = {}, NEW p \in Live
               PROVE  ~Exposed(p, stmt) /\ ~Starved(p, stmt)
    BY DEF PoliciesHold
  <2>1. PICK s \in StatementType : WovenFrom(s)
    BY DEF PolicyInv, WovenOK
  <2>2. stmt = Woven(pols, s) /\ Settled(pols, s)
    BY <2>1 DEF WovenFrom, Settled
  <2>3. pols \in SUBSET PolicyType /\ p \in pols /\ Validate(pols, p) = {} /\ p.name \notin stmt.optouts
    BY DEF PolicyInv, PolicyTypes, CompiledOK, Live
  <2>4. p.name \notin s.optouts
    BY <2>2, <2>3, WovenIs DEF Kept
  <2> QED
    BY <2>2, <2>3, <2>4, NothingExposed
<1> QED
  BY <1>1, PolicyInvariance, PTL

\* The enforcement pass never contradicts the weaver, and weaving is idempotent:
\* a woven template that was not refused needs no further conjunct.
THEOREM WeavingSettles == Spec => []WeaveSettles
<1>1. PolicyInv => WeaveSettles
  <2> SUFFICES ASSUME PolicyInv, stage \in {"woven", "done"}
               PROVE  124 \notin diags /\ (125 \notin diags => Weave(pols, stmt).needs = {})
    BY DEF WeaveSettles
  <2>1. PICK s \in StatementType : WovenFrom(s)
    BY DEF PolicyInv, WovenOK
  <2>2. stmt = Woven(pols, s) /\ pols \in SUBSET PolicyType
    BY <2>1 DEF WovenFrom, PolicyInv, PolicyTypes
  <2>3. 124 \notin Weave(pols, s).diags
    <3>1. \A p \in pols : 124 \notin apply(p, s).diags
      BY DEF apply
    <3> QED
      BY <3>1 DEF Weave
  <2>4. Settled(pols, s) => Weave(pols, stmt).needs = {}
    BY <2>2, NothingAdded
  <2>5. Settled(pols, s) => 124 \notin Enforce(pols, stmt)
    <3>1. stmt.optouts = s.optouts
      BY <2>2, WovenIs DEF Kept
    <3>2. Settled(pols, s) => \A p \in pols : p.name \notin stmt.optouts => ~Unproved(p, stmt)
      BY <2>2, <3>1, NothingUnproved
    <3> QED
      BY <3>2 DEF Enforce
  <2> QED
    BY <2>1, <2>3, <2>4, <2>5 DEF WovenFrom, Settled
<1> QED
  BY <1>1, PolicyInvariance, PTL
=============================================================================
