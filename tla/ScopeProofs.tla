----------------------------- MODULE ScopeProofs -----------------------------
(***************************************************************************)
(* R3 holds: CheckResolved looks at the maximal rendering only, and in     *)
(* every other shape each reference still means what it means there.  The  *)
(* scopes the code collects on its way down to a reference are among those *)
(* the engine has, but for the items beside a subquery in FROM on          *)
(* PostgreSQL and MySQL (ScopesAreNearer), a name has one relation at most *)
(* (ByNameIs), and a relation that is found covers the place it is         *)
(* referred to from, so it is there whenever the reference is.             *)
(***************************************************************************)
EXTENDS Scopes, Sums

\* The way down to a reference: what the code and what the engine know there.
Down == [scopes : SUBSET STRING, enclosing : SUBSET STRING, inSub : BOOLEAN]
Around == [scopes : SUBSET STRING, enclosing : SUBSET STRING, sees : BOOLEAN, enclosingSees : BOOLEAN]
DownTop == [scopes |-> {}, enclosing |-> {}, inSub |-> FALSE]
AroundTop == [scopes |-> {}, enclosing |-> {}, sees |-> TRUE, enclosingSees |-> FALSE]

\* One step down keeps the types.
LEMMA StepTypes ==
    ASSUME NEW dialect, NEW st \in StepType
    PROVE  /\ \A d \in Down : Entered(dialect, d, st) \in Down
           /\ \A d \in Around : Surrounded(d, st) \in Around
<1>0. /\ st.step \in {"body", "branches", "derived", "lateral", "test", "with"}
      /\ st.names \in SUBSET STRING /\ st.seen \in SUBSET STRING
  BY DEF StepType, Selects
<1>1. ASSUME NEW d \in Down PROVE Entered(dialect, d, st) \in Down
  BY <1>0 DEF Entered, EnteredBody, InBody, Down
<1>2. ASSUME NEW d \in Around PROVE Surrounded(d, st) \in Around
  BY <1>0 DEF Surrounded, Around
<1> QED
  BY <1>1, <1>2

\* g is the function behind collectColRefs, and h the one behind Visible.
IsDown(g, dialect, path) ==
    g = [n \in 0..Len(path) |-> IF n = 0 THEN DownTop ELSE Entered(dialect, g[n - 1], path[n])]
IsAround(h, path) ==
    h = [n \in 0..Len(path) |-> IF n = 0 THEN AroundTop ELSE Surrounded(h[n - 1], path[n])]

\* The descent of collectColRefs is defined for every path.
LEMMA DownRuns ==
    ASSUME NEW dialect, NEW path \in Seq(StepType)
    PROVE  \E g : IsDown(g, dialect, path) /\ collectColRefs(dialect, path) = g[Len(path)]
<1>1. collectColRefs(dialect, path) = (CHOOSE g : IsDown(g, dialect, path))[Len(path)]
  BY DEF collectColRefs, IsDown, DownTop
<1>2. \E g : IsDown(g, dialect, path)
  <2> DEFINE n == Len(path)
             round == [i \in 1..n |-> [d \in Down |-> Entered(dialect, d, path[i])]]
  <2>1. n \in Nat /\ \A i \in 1..n : path[i] \in StepType
    OBVIOUS
  <2>2. round \in [1..n -> [Down -> Down]]
    BY <2>1, StepTypes
  <2>3. \A i \in 1..n : \A d \in Down : round[i][d] = Entered(dialect, d, path[i])
    OBVIOUS
  <2>4. DownTop \in Down
    BY DEF Down, DownTop
  <2> HIDE DEF round
  <2>5. PICK f \in [0..n -> Down] : Runs(f, n, DownTop, round)
    BY <2>1, <2>2, <2>4, LoopRuns
  <2>6. \A i \in 1..n : i - 1 \in 0..n /\ f[i - 1] \in Down /\ f[i] = round[i][f[i - 1]]
    BY <2>1, <2>5 DEF Runs
  <2>7. \A i \in 0..n : f[i] = IF i = 0 THEN DownTop ELSE Entered(dialect, f[i - 1], path[i])
    <3>1. f[0] = DownTop
      BY <2>5 DEF Runs
    <3>2. \A i \in 0..n : i # 0 => i \in 1..n
      BY <2>1
    <3> QED
      BY <2>3, <2>6, <3>1, <3>2
  <2>8. IsDown(f, dialect, path)
    BY <2>5, <2>7 DEF IsDown
  <2> QED
    BY <2>8
<1>3. IsDown(CHOOSE g : IsDown(g, dialect, path), dialect, path)
  BY <1>2, Zenon
<1> QED
  BY <1>1, <1>3

\* And so is the engine's.
LEMMA AroundRuns ==
    ASSUME NEW path \in Seq(StepType)
    PROVE  \E h : IsAround(h, path) /\ Visible(path) = h[Len(path)]
<1>1. Visible(path) = (CHOOSE h : IsAround(h, path))[Len(path)]
  BY DEF Visible, IsAround, AroundTop
<1>2. \E h : IsAround(h, path)
  <2> DEFINE n == Len(path)
             round == [i \in 1..n |-> [d \in Around |-> Surrounded(d, path[i])]]
  <2>1. n \in Nat /\ \A i \in 1..n : path[i] \in StepType
    OBVIOUS
  <2>2. round \in [1..n -> [Around -> Around]]
    BY <2>1, StepTypes
  <2>3. \A i \in 1..n : \A d \in Around : round[i][d] = Surrounded(d, path[i])
    OBVIOUS
  <2>4. AroundTop \in Around
    BY DEF Around, AroundTop
  <2> HIDE DEF round
  <2>5. PICK f \in [0..n -> Around] : Runs(f, n, AroundTop, round)
    BY <2>1, <2>2, <2>4, LoopRuns
  <2>6. \A i \in 1..n : i - 1 \in 0..n /\ f[i - 1] \in Around /\ f[i] = round[i][f[i - 1]]
    BY <2>1, <2>5 DEF Runs
  <2>7. \A i \in 0..n : f[i] = IF i = 0 THEN AroundTop ELSE Surrounded(f[i - 1], path[i])
    <3>1. f[0] = AroundTop
      BY <2>5 DEF Runs
    <3>2. \A i \in 0..n : i # 0 => i \in 1..n
      BY <2>1
    <3> QED
      BY <2>3, <2>6, <3>1, <3>2
  <2>8. IsAround(f, path)
    BY <2>5, <2>7 DEF IsAround
  <2> QED
    BY <2>8
<1>3. IsAround(CHOOSE h : IsAround(h, path), path)
  BY <1>2, Zenon
<1> QED
  BY <1>1, <1>3

\* The code's descent is within the engine's, but for the names of X.
Within(d, e, X) == d.scopes \subseteq e.scopes \cup X /\ d.enclosing \subseteq e.enclosing \cup X

\* What a SELECT sees is what surrounds it and its own FROM.
Own(e, names) == e.scopes \subseteq e.enclosing \cup names

\* One step down a path keeps the code's names within the engine's.  A subquery
\* in FROM of a SELECT with these names brings those it does not see.
LEMMA StepWithin ==
    ASSUME NEW dialect, NEW st \in StepType, NEW d \in Down, NEW e \in Around, NEW X,
           Within(d, e, X), st.step = "derived" => st.seen = {},
           NEW names, st.step \in {"derived", "lateral"} => Own(e, names),
           st.step \in {"derived", "lateral"} /\ dialect # "sqlite" => names \ st.seen \subseteq X
    PROVE  /\ Within(Entered(dialect, d, st), Surrounded(e, st), X)
           /\ st.step \in Selects => Own(Surrounded(e, st), st.names)
           /\ st.step \notin Selects => Entered(dialect, d, st).inSub = d.inSub
<1>0. st.step \in Selects \cup {"test", "with"} /\ Selects = {"body", "branches", "derived", "lateral"}
  BY DEF StepType, Selects
<1>1. CASE st.step = "body"
  BY <1>0, <1>1 DEF Entered, EnteredBody, InBody, Surrounded, Within, Own
<1>2. CASE st.step = "branches"
  BY <1>0, <1>2 DEF Entered, EnteredBody, InBody, Surrounded, Within, Own
<1>3. CASE st.step = "derived"
  <2>1. /\ Surrounded(e, st).scopes = e.enclosing \cup st.names
        /\ Surrounded(e, st).enclosing = e.enclosing
    BY <1>3 DEF Surrounded, Around
  <2>2. CASE dialect = "sqlite"
    BY <1>0, <1>3, <2>1, <2>2 DEF Entered, EnteredBody, Within, Own
  <2>3. CASE dialect # "sqlite"
    <3>1. Entered(dialect, d, st) = InBody(d, st.names)
      BY <1>3, <2>3 DEF Entered, EnteredBody
    <3>2. d.scopes \subseteq e.enclosing \cup X
      BY <1>3, <2>3 DEF Within, Own
    <3> QED
      BY <1>0, <1>3, <2>1, <3>1, <3>2 DEF InBody, Within, Own
  <2> QED
    BY <2>2, <2>3
<1>4. CASE st.step = "lateral"
  <2>1. /\ Surrounded(e, st).scopes = e.enclosing \cup st.seen \cup st.names
        /\ Surrounded(e, st).enclosing = e.enclosing \cup st.seen
    BY <1>4 DEF Surrounded
  <2>2. CASE dialect = "sqlite"
    BY <1>0, <1>4, <2>1, <2>2 DEF Entered, EnteredBody, Within, Own
  <2>3. CASE dialect # "sqlite"
    <3>1. Entered(dialect, d, st) = InBody(d, st.names)
      BY <1>4, <2>3 DEF Entered, EnteredBody
    <3>2. d.scopes \subseteq e.enclosing \cup st.seen \cup X
      BY <1>4, <2>3 DEF Within, Own
    <3> QED
      BY <1>0, <1>4, <2>1, <3>1, <3>2 DEF InBody, Within, Own
  <2> QED
    BY <2>2, <2>3
<1>5. CASE st.step = "test"
  BY <1>0, <1>5 DEF Entered, Surrounded, Within
<1>6. CASE st.step = "with"
  BY <1>0, <1>6 DEF Entered, Surrounded, Within, Down, Around
<1> QED
  BY <1>0, <1>1, <1>2, <1>3, <1>4, <1>5, <1>6

\* The names collectColRefs takes for bound are bound, whatever bodies, set
\* operations, subqueries in FROM, tested operands and WITH clauses are on the
\* way, but for those PostgreSQL's and MySQL's walks take from beside a subquery
\* in FROM; and only a SELECT on the way makes it a subquery.
LEMMA ScopesAreNearer ==
    ASSUME NEW dialect, NEW path \in Seq(StepType), FromSteps(path)
    PROVE  /\ collectColRefs(dialect, path).scopes
                 \subseteq Visible(path).scopes \cup (IF dialect = "sqlite" THEN {} ELSE Unseen(path))
           /\ ~InSubquery(path) => ~collectColRefs(dialect, path).inSub
<1> DEFINE n == Len(path)
           X == IF dialect = "sqlite" THEN {} ELSE Unseen(path)
           Fits(g, h, i) ==
               /\ g[i] \in Down /\ h[i] \in Around /\ Within(g[i], h[i], X)
               /\ i = 0 => Own(h[i], {})
               /\ i > 0 /\ path[i].step \in Selects => Own(h[i], path[i].names)
               /\ ~InSubquery(path) => ~g[i].inSub
<1>1. n \in Nat /\ DOMAIN path = 1..n /\ \A i \in 1..n : path[i] \in StepType
  OBVIOUS
<1>2. PICK g : IsDown(g, dialect, path) /\ collectColRefs(dialect, path) = g[n]
  BY DownRuns
<1>3. PICK h : IsAround(h, path) /\ Visible(path) = h[n]
  BY AroundRuns
<1>4. g[0] = DownTop /\ \A i \in 1..n : g[i] = Entered(dialect, g[i - 1], path[i])
  BY <1>1, <1>2 DEF IsDown
<1>5. h[0] = AroundTop /\ \A i \in 1..n : h[i] = Surrounded(h[i - 1], path[i])
  BY <1>1, <1>3 DEF IsAround
<1> DEFINE D == {i \in 0..n : Fits(g, h, i)}
<1>6. 0 \in D
  <2>1. DownTop \in Down /\ AroundTop \in Around /\ Within(DownTop, AroundTop, X) /\ Own(AroundTop, {})
    BY DEF DownTop, AroundTop, Down, Around, Within, Own
  <2>2. ~DownTop.inSub
    BY DEF DownTop
  <2>3. 0 \in 0..n /\ ~(0 > 0)
    BY <1>1
  <2> QED
    BY <1>4, <1>5, <2>1, <2>2, <2>3
<1>7. ASSUME NEW i \in 1..n, i - 1 \in D PROVE i \in D
  <2>1. path[i] \in StepType /\ i \in 0..n /\ i # 0
    BY <1>1
  <2>2. g[i] = Entered(dialect, g[i - 1], path[i]) /\ h[i] = Surrounded(h[i - 1], path[i])
    BY <1>4, <1>5
  <2>3. Fits(g, h, i - 1)
    BY <1>7
  <2>4. g[i] \in Down /\ h[i] \in Around
    BY <2>1, <2>2, <2>3, StepTypes
  <2>5. PICK names : /\ path[i].step \in {"derived", "lateral"} => Own(h[i - 1], names)
                     /\ path[i].step \in {"derived", "lateral"} /\ dialect # "sqlite" =>
                           names \ path[i].seen \subseteq X
    <3>1. CASE i = 1
      <4>1. Own(h[i - 1], {})
        BY <2>3, <3>1
      <4> QED
        BY <4>1
    <3>2. CASE i # 1
      <4>1. i > 1 /\ i - 1 > 0 /\ i \in 2..n
        BY <1>1, <3>2
      <4>2. path[i].step \in {"derived", "lateral"} => Own(h[i - 1], path[i - 1].names)
        BY <1>1, <2>3, <4>1 DEF FromSteps
      <4>3. path[i].step \in {"derived", "lateral"} => path[i - 1].names \ path[i].seen \subseteq Unseen(path)
        BY <4>1 DEF Unseen
      <4> QED
        BY <4>2, <4>3
    <3> QED
      BY <3>1, <3>2
  <2>6. path[i].step = "derived" => path[i].seen = {}
    BY <1>1 DEF FromSteps
  <2>7. /\ Within(Entered(dialect, g[i - 1], path[i]), Surrounded(h[i - 1], path[i]), X)
        /\ path[i].step \in Selects => Own(Surrounded(h[i - 1], path[i]), path[i].names)
        /\ path[i].step \notin Selects => Entered(dialect, g[i - 1], path[i]).inSub = g[i - 1].inSub
    <3> DEFINE st == path[i]
               d == g[i - 1]
               e == h[i - 1]
    <3>1. st \in StepType /\ d \in Down /\ e \in Around /\ Within(d, e, X)
      BY <2>1, <2>3
    <3>2. st.step = "derived" => st.seen = {}
      BY <2>6
    <3>3. /\ st.step \in {"derived", "lateral"} => Own(e, names)
          /\ st.step \in {"derived", "lateral"} /\ dialect # "sqlite" => names \ st.seen \subseteq X
      BY <2>5
    <3> HIDE DEF st, d, e, X
    <3>4. /\ Within(Entered(dialect, d, st), Surrounded(e, st), X)
          /\ st.step \in Selects => Own(Surrounded(e, st), st.names)
          /\ st.step \notin Selects => Entered(dialect, d, st).inSub = d.inSub
      BY <3>1, <3>2, <3>3, StepWithin
    <3> QED
      BY <3>4 DEF st, d, e
  <2>8. ~InSubquery(path) => ~g[i].inSub
    <3>1. ~InSubquery(path) => path[i].step \notin Selects
      BY <1>1 DEF InSubquery
    <3> QED
      BY <2>2, <2>3, <2>7, <3>1
  <2> HIDE DEF X
  <2> QED
    BY <2>1, <2>2, <2>4, <2>7, <2>8
<1>8. \A i \in 0..n : i \in D
  <2> HIDE DEF D, n
  <2> QED
    BY <1>1, <1>6, <1>7, LoopInduction
<1>9. n \in D
  BY <1>1, <1>8
<1> QED
  BY <1>2, <1>3, <1>9 DEF Within

-----------------------------------------------------------------------------
\* What the lemmas below know of a statement: the joins passed R1 and the
\* database prepared the maximal rendering.
Admitted(s) == s \in StatementType /\ WellFormed(s) /\ CheckJoins(s) /\ Prepared(s)

\* What a statement's type says of its relations; the maximal rendering has all.
LEMMA RelationFacts ==
    ASSUME NEW s \in StatementType
    PROVE  /\ Len(s.rels) \in Nat /\ DOMAIN s.rels = 1..Len(s.rels)
           /\ \A i \in DOMAIN s.rels : s.rels[i] \in RelationType /\ i \in Nat /\ i # 0
           /\ \A S \in SUBSET DOMAIN s.rels : IsFiniteSet(S)
           /\ Active(s, Atoms(s)) = DOMAIN s.rels
<1>1. s.rels \in Seq(RelationType)
  BY DEF StatementType
<1>2. Len(s.rels) \in Nat /\ DOMAIN s.rels = 1..Len(s.rels)
  BY <1>1
<1>3. \A i \in DOMAIN s.rels : s.rels[i] \in RelationType /\ i \in Nat /\ i # 0
  BY <1>1, <1>2
<1>4. \A S \in SUBSET DOMAIN s.rels : IsFiniteSet(S)
  <2>1. IsFiniteSet(1..Len(s.rels))
    BY <1>2, FS_Interval
  <2> QED
    BY <1>2, <2>1, FS_Subset
<1>5. \A i \in DOMAIN s.rels : s.rels[i].guards \subseteq Atoms(s)
  BY DEF Atoms
<1> QED
  BY <1>2, <1>3, <1>4, <1>5 DEF Active

\* Only the empty name folds to the empty name.
LEMMA EmptyName ==
    ASSUME NEW s, NEW q, q # ""
    PROVE  ~Same(s, "", q)
BY LowerAssumption DEF Same, Fold

\* A relation is not after itself (a leaf of its own: Zenon knows no order).
LEMMA NotAbove == \A n \in Nat : n <= n
OBVIOUS

\* A prepared statement has one relation of a name: the resolver finds it.
LEMMA ByNameIs ==
    ASSUME NEW s, Admitted(s), NEW q, q # "", NEW i \in DOMAIN s.rels, Same(s, s.rels[i].name, q)
    PROVE  byName(s, q) = i
<1>1. s.rels[i].name # ""
  BY EmptyName
<1>2. \A j \in DOMAIN s.rels : Same(s, s.rels[j].name, q) => j = i
  BY DEF Admitted, Prepared, Same
<1>3. Named(s, q) = {i}
  BY <1>1, <1>2 DEF Named
<1>4. i \in Nat
  BY RelationFacts DEF Admitted
<1>5. byName(s, q) = CHOOSE k \in {i} : \A j \in {i} : j <= k
  BY <1>3 DEF byName
<1>6. \E k \in {i} : \A j \in {i} : j <= k
  <2>1. i <= i
    BY <1>4, NotAbove, Zenon
  <2> WITNESS i \in {i}
  <2> QED
    BY <2>1
<1> QED
  BY <1>5, <1>6

\* An optional join is an INNER or a LEFT join.
LEMMA OptionalJoins ==
    ASSUME NEW s, Admitted(s), NEW i \in DOMAIN s.rels, s.rels[i].guards # {}
    PROVE  s.rels[i].join \in {"INNER", "LEFT"}
<1> DEFINE f == s.rels[i].frag
<1>1. s \in StatementType /\ f # 0
  BY DEF Admitted, WellFormed
<1>2. f \in Fragments(s)
  BY <1>1 DEF Fragments
<1>3. Cardinality(RelsOf(s, f)) = 1 /\ checkJoinMembership(s, f)
  BY <1>2 DEF Admitted, CheckJoins, ProbeJoinItem
<1>4. i \in RelsOf(s, f) /\ RelsOf(s, f) \subseteq DOMAIN s.rels /\ Attributed(s, f) \subseteq RelsOf(s, f)
  BY DEF RelsOf, Attributed
<1> HIDE DEF f
<1>5. IsFiniteSet(RelsOf(s, f)) /\ IsFiniteSet(Attributed(s, f))
  BY <1>1, <1>4, RelationFacts
<1>6. RelsOf(s, f) = {i}
  BY <1>3, <1>4, <1>5, FS_Singleton
<1>7. \E x : Attributed(s, f) = {x}
  BY <1>3, <1>5, FS_Singleton DEF checkJoinMembership
<1>8. i \in Attributed(s, f)
  BY <1>4, <1>6, <1>7
<1> QED
  BY <1>3, <1>8 DEF checkJoinMembership

\* Which relations are null-extended is decided by joins that are always there.
LEMMA NullableEverywhere ==
    ASSUME NEW s, Admitted(s)
    PROVE  EveryShapeNullable(s)
<1> SUFFICES ASSUME NEW on \in SUBSET Atoms(s)
             PROVE  NullExtended(s, on) = NullExtended(s, Atoms(s)) \cap Active(s, on)
  BY DEF EveryShapeNullable
<1>1. Active(s, Atoms(s)) = DOMAIN s.rels /\ Active(s, on) \subseteq DOMAIN s.rels
  BY RelationFacts DEF Admitted, Active
<1>2. \A j \in DOMAIN s.rels : s.rels[j].join \in {"RIGHT", "FULL"} => j \in Active(s, on)
  <2> SUFFICES ASSUME NEW j \in DOMAIN s.rels, s.rels[j].join \in {"RIGHT", "FULL"}
               PROVE  s.rels[j].guards \subseteq on
    BY DEF Active
  <2>1. s.rels[j].guards = {}
    BY OptionalJoins
  <2> QED
    BY <2>1
<1> QED
  BY <1>1, <1>2 DEF NullExtended

\* A reference that is covered by its relation has it in every shape it is in
\* itself; R3 on qualified references.
LEMMA QualifiedResolves ==
    ASSUME NEW s, Admitted(s), NEW ref \in s.refs, ref.qual # "", Unshadowed(s, ref), ReferenceOK(s, ref),
           NEW on \in SUBSET Atoms(s), ref.guards \subseteq on
    PROVE  Bindings(s, ref, on) = Bindings(s, ref, Atoms(s))
<1>1. s \in StatementType /\ ref \in ReferenceType /\ ref.path \in Seq(StepType)
  BY DEF Admitted, StatementType, ReferenceType
<1> DEFINE v == Visible(ref.path)
           d == collectColRefs(s.dialect, ref.path)
           B(G) == {i \in (IF v.sees THEN Active(s, G) ELSE {}) : Same(s, s.rels[i].name, ref.qual)}
           near == ~ref.schema /\ \E n \in v.scopes : Same(s, n, ref.qual)
<1>2. \A G : Bindings(s, ref, G) = IF near THEN {0} ELSE B(G)
  BY DEF Bindings
<1>3. CASE near
  BY <1>2, <1>3
<1>4. CASE ~near
  <2>1. B(on) \subseteq B(Atoms(s))
    <3>1. Active(s, on) \subseteq Active(s, Atoms(s))
      BY DEF Active
    <3> QED
      BY <3>1
  <2>2. ASSUME NEW i \in B(Atoms(s)) PROVE i \in B(on)
    <3>1. v.sees /\ i \in DOMAIN s.rels /\ Same(s, s.rels[i].name, ref.qual)
      BY DEF Active
    <3>2. CASE s.rels[i].guards = {}
      BY <3>1, <3>2 DEF Active
    <3>3. CASE s.rels[i].guards # {}
      <4>1. byName(s, ref.qual) = i /\ i # 0
        BY <1>1, <3>1, ByNameIs, RelationFacts
      <4>2. QualifiedOK(s, ref, d)
        BY DEF ReferenceOK
      <4>3. d.scopes \subseteq v.scopes \cup (IF s.dialect = "sqlite" THEN {} ELSE Unseen(ref.path))
        BY <1>1, ScopesAreNearer DEF Admitted, WellFormed
      <4>4. ~(~ref.schema /\ scopeContains(s, d.scopes, ref.qual))
        <5>1. \A n \in Unseen(ref.path) : s.dialect # "sqlite" => ~Same(s, n, ref.qual)
          BY <3>1, <3>3 DEF Unshadowed, Same
        <5> HIDE DEF v, d
        <5> QED
          BY <1>4, <4>3, <5>1 DEF scopeContains
      <4>5. Covers(s, i, ref.guards)
        BY <4>1, <4>2, <4>4 DEF QualifiedOK
      <4>6. s.rels[i].guards \subseteq on
        BY <4>1, <4>5 DEF Covers
      <4> QED
        BY <3>1, <4>6 DEF Active
    <3> QED
      BY <3>2, <3>3
  <2> QED
    BY <1>2, <1>4, <2>1, <2>2
<1> QED
  BY <1>3, <1>4

\* R3 on the unqualified references it looks at: the columns the catalog has
\* for the optional joins are the columns they have.
LEMMA UnqualifiedResolves ==
    ASSUME NEW s, Admitted(s), Vouched(s),
           NEW ref \in s.refs, ref.qual = "", ~InSubquery(ref.path), ReferenceOK(s, ref),
           NEW on \in SUBSET Atoms(s), ref.guards \subseteq on
    PROVE  Bindings(s, ref, on) = Bindings(s, ref, Atoms(s))
<1>1. s \in StatementType /\ ref \in ReferenceType /\ ref.path \in Seq(StepType)
  BY DEF Admitted, StatementType, ReferenceType
<1> DEFINE v == Visible(ref.path)
           B(G) == {i \in (IF v.sees THEN Active(s, G) ELSE {}) : \E c \in s.rels[i].cols : Same(s, c, ref.col)}
           alias == ref.sort /\ IsOutputAlias(s, ref.col)
<1>2. \A G : Bindings(s, ref, G) = IF alias THEN {0} ELSE B(G)
  BY DEF Bindings
<1>3. CASE alias
  BY <1>2, <1>3
<1>4. CASE ~alias
  <2>1. B(on) \subseteq B(Atoms(s))
    <3>1. Active(s, on) \subseteq Active(s, Atoms(s))
      BY DEF Active
    <3> QED
      BY <3>1
  <2>2. ASSUME NEW i \in B(Atoms(s)) PROVE i \in B(on)
    <3>1. v.sees /\ i \in DOMAIN s.rels /\ \E c \in s.rels[i].cols : Same(s, c, ref.col)
      BY DEF Active
    <3>2. CASE s.rels[i].guards = {}
      BY <3>1, <3>2 DEF Active
    <3>3. CASE s.rels[i].guards # {}
      <4>1. s.rels[i].frag # 0
        BY <3>1, <3>3 DEF Admitted, WellFormed
      <4>2. s.rels[i].kind = "table" /\ s.rels[i].table \in DOMAIN Catalog
        BY <3>1, <4>1 DEF Vouched
      <4>3. TableCols(s.rels[i]) = s.rels[i].cols
        BY <3>1, <4>2 DEF TableCols, Admitted, WellFormed
      <4>4. i \in columnCandidates(s, ref.col)
        BY <3>1, <4>3 DEF columnCandidates
      <4>5. UnqualifiedOK(s, ref, collectColRefs(s.dialect, ref.path))
        BY DEF ReferenceOK
      <4>6. ~collectColRefs(s.dialect, ref.path).inSub
        BY <1>1, ScopesAreNearer DEF Admitted, WellFormed
      <4>7. Covers(s, i, ref.guards) /\ i # 0
        BY <1>1, <1>4, <3>1, <4>4, <4>5, <4>6, RelationFacts DEF UnqualifiedOK
      <4>8. s.rels[i].guards \subseteq on
        BY <4>7 DEF Covers
      <4> QED
        BY <3>1, <4>8 DEF Active
    <3> QED
      BY <3>2, <3>3
  <2> QED
    BY <1>2, <1>4, <2>1, <2>2
<1> QED
  BY <1>3, <1>4

\* R2: a star expands over the same relations in every shape.
LEMMA StarsExpand ==
    ASSUME NEW s, Admitted(s), NEW q, StarOK(s, q), NEW on \in SUBSET Atoms(s),
           NEW i \in DOMAIN s.rels, q = "" \/ Same(s, s.rels[i].name, q)
    PROVE  i \in Active(s, on)
<1>1. s.rels[i].guards = {}
  <2>1. CASE q = ""
    BY <2>1 DEF StarOK
  <2>2. CASE q # ""
    <3>1. byName(s, q) = i /\ i # 0
      BY <2>2, ByNameIs, RelationFacts DEF Admitted
    <3> QED
      BY <2>2, <3>1 DEF StarOK, Covers
  <2> QED
    BY <2>1, <2>2
<1> QED
  BY <1>1 DEF Active

\* Every reference and every star of what CheckResolved accepts means the same
\* in every shape.
LEMMA ShapesResolve ==
    ASSUME NEW s, Admitted(s), CheckResolved(s), Examined(s)
    PROVE  EveryShapeResolves(s)
<1> SUFFICES ASSUME NEW on \in SUBSET Atoms(s)
             PROVE  /\ \A ref \in s.refs :
                          ref.guards \subseteq on => Bindings(s, ref, on) = Bindings(s, ref, Atoms(s))
                    /\ \A q \in s.stars :
                          {i \in Active(s, on) : q = "" \/ Same(s, s.rels[i].name, q)}
                              = {i \in Active(s, Atoms(s)) : q = "" \/ Same(s, s.rels[i].name, q)}
  BY DEF EveryShapeResolves
<1>1. ASSUME NEW ref \in s.refs, ref.guards \subseteq on
      PROVE  Bindings(s, ref, on) = Bindings(s, ref, Atoms(s))
  <2>1. ReferenceOK(s, ref) /\ Unshadowed(s, ref)
    BY DEF CheckResolved, Examined
  <2>2. CASE ref.qual # ""
    BY <1>1, <2>1, <2>2, QualifiedResolves
  <2>3. CASE ref.qual = ""
    <3>1. Vouched(s) /\ ~InSubquery(ref.path)
      BY <2>3 DEF Examined
    <3> QED
      BY <1>1, <2>1, <2>3, <3>1, UnqualifiedResolves
  <2> QED
    BY <2>2, <2>3
<1>2. ASSUME NEW q \in s.stars
      PROVE  {i \in Active(s, on) : q = "" \/ Same(s, s.rels[i].name, q)}
                 = {i \in Active(s, Atoms(s)) : q = "" \/ Same(s, s.rels[i].name, q)}
  <2>1. StarOK(s, q)
    BY DEF CheckResolved
  <2>2. Active(s, Atoms(s)) = DOMAIN s.rels /\ Active(s, on) \subseteq DOMAIN s.rels
    BY RelationFacts DEF Admitted, Active
  <2>3. \A i \in DOMAIN s.rels : q = "" \/ Same(s, s.rels[i].name, q) => i \in Active(s, on)
    BY <2>1, StarsExpand
  <2> QED
    BY <2>2, <2>3
<1> QED
  BY <1>1, <1>2

-----------------------------------------------------------------------------
\* What each stage knows of the statement.
ScopeInv ==
    /\ stmt \in Statements
    /\ stage \in {"probed", "described", "accepted"} => CheckJoins(stmt)
    /\ stage \in {"described", "accepted"} => Prepared(stmt)
    /\ stage = "accepted" => CheckResolved(stmt)

\* R3 for every catalog and every set of statements: where Examined holds, what
\* CheckR1 and CheckResolved accept from the maximal rendering resolves alike in
\* every shape, and in every statement no optional join changes what is
\* null-extended.
THEOREM AcceptedScopesHold == Spec => []ScopesHold
<1>1. Init => ScopeInv
  BY DEF Init, ScopeInv
<1>2. ScopeInv /\ [Next]_vars => ScopeInv'
  BY DEF ScopeInv, Next, vars, ProbeJoins, Describe, Resolve, Pass
<1>3. ScopeInv => ScopesHold
  <2> SUFFICES ASSUME ScopeInv, stage = "accepted"
               PROVE  (Examined(stmt) => EveryShapeResolves(stmt)) /\ EveryShapeNullable(stmt)
    BY DEF ScopesHold
  <2>1. Admitted(stmt) /\ CheckResolved(stmt)
    BY ScopeAssumption DEF ScopeInv, Admitted
  <2> QED
    BY <2>1, ShapesResolve, NullableEverywhere
<1> QED
  BY <1>1, <1>2, <1>3, PTL DEF Spec
=============================================================================
