-------------------------------- MODULE Sums --------------------------------
(***************************************************************************)
(* What the sums and the loops of the models compute: the community        *)
(* modules' sum of a function over a finite set of indices, which is       *)
(* defined by recursion over the set, satisfies the equations a reader     *)
(* expects of it, and a loop is a function of the rounds done.  The        *)
(* induction is over finite sets and over the naturals, through the        *)
(* minimal element of a set of counterexamples.                            *)
(***************************************************************************)
EXTENDS Integers, FiniteSets, Functions, SequencesExt, FiniteSetTheorems, WellFoundedInduction, TLAPS

\* A non-empty family of subsets of a finite set has a minimal member.
LEMMA MinimalSubset ==
  ASSUME NEW S, IsFiniteSet(S), NEW D \in SUBSET SUBSET S, D # {}
  PROVE  \E T \in D : \A U \in D : U \subseteq T => U = T
<1>1. IsWellFoundedOn(StrictSubsetOrdering(S), SUBSET S)
  BY FS_StrictSubsetOrderingWellFounded, FS_FiniteSubsetsOfFinite
<1>2. PICK T \in D : \A U \in D : <<U, T>> \notin StrictSubsetOrdering(S)
  BY <1>1, WFMin
<1>3. ASSUME NEW U \in D, U \subseteq T, U # T PROVE FALSE
  <2>1. <<U, T>> \in (SUBSET S) \X (SUBSET S)
    OBVIOUS
  <2>2. <<U, T>> \in StrictSubsetOrdering(S)
    BY <1>3, <2>1 DEF StrictSubsetOrdering
  <2> QED BY <1>2, <2>2
<1> QED BY <1>3

\* Induction over a finite set: a family that holds the empty set and is
\* closed under adding an element of S holds S.
LEMMA FiniteInduction ==
  ASSUME NEW S, IsFiniteSet(S), NEW D, {} \in D,
         \A T \in SUBSET S, x \in S : x \notin T /\ T \in D => T \cup {x} \in D
  PROVE  S \in D
<1> SUFFICES ASSUME S \notin D PROVE FALSE
  OBVIOUS
<1> DEFINE B == {T \in SUBSET S : T \notin D}
<1>1. PICK T \in B : \A U \in B : U \subseteq T => U = T
  <2>1. B # {} /\ B \in SUBSET SUBSET S
    OBVIOUS
  <2> HIDE DEF B
  <2> QED BY <2>1, MinimalSubset
<1>2. PICK x \in T : TRUE
  OBVIOUS
<1> DEFINE U == T \ {x}
<1>3. U \in SUBSET S /\ U # T /\ U \subseteq T /\ x \notin U /\ x \in S /\ U \cup {x} = T
  BY <1>1, <1>2
<1>4. U \in D
  BY <1>1, <1>3
<1> QED BY <1>1, <1>3, <1>4

\* A non-empty set of naturals has a least member.
LEMMA LeastNatural ==
  ASSUME NEW B \in SUBSET Nat, B # {}
  PROVE  \E n \in B : \A k \in B : n <= k
<1>1. PICK b \in B : TRUE
  OBVIOUS
<1> DEFINE I == 0..b
           D == {0..k : k \in {j \in B : j <= b}}
<1>2. D # {} /\ D \in SUBSET SUBSET I
  OBVIOUS
<1>3. IsFiniteSet(I)
  BY FS_Interval
<1>4. PICK T \in D : \A U \in D : U \subseteq T => U = T
  <2> HIDE DEF D, I
  <2> QED BY <1>2, <1>3, MinimalSubset
<1>5. PICK n \in B : n <= b /\ T = 0..n
  BY <1>4
<1>6. ASSUME NEW k \in B, ~(n <= k) PROVE FALSE
  <2>1. k \in Nat /\ n \in Nat /\ b \in Nat /\ k < n /\ k <= b
    BY <1>5, <1>6
  <2>2. 0..k \in D /\ 0..k \subseteq T
    BY <1>5, <2>1
  <2>3. n \in T /\ n \notin 0..k
    BY <1>5, <2>1
  <2> QED BY <1>4, <2>2, <2>3
<1> QED BY <1>6

\* Induction over the naturals, for a set of them.
LEMMA NaturalInduction ==
  ASSUME NEW D, 0 \in D, \A n \in Nat : n \in D => n + 1 \in D
  PROVE  \A n \in Nat : n \in D
<1> DEFINE B == {n \in Nat : n \notin D}
<1> SUFFICES ASSUME B # {} PROVE FALSE
  OBVIOUS
<1>1. PICK n \in B : \A k \in B : n <= k
  <2>1. B \in SUBSET Nat
    OBVIOUS
  <2> HIDE DEF B
  <2> QED BY <2>1, LeastNatural
<1>2. n \in Nat /\ n # 0
  BY <1>1
<1>3. n - 1 \in Nat /\ ~(n <= n - 1) /\ (n - 1) + 1 = n
  BY <1>2
<1>4. n - 1 \in D
  BY <1>1, <1>3
<1> QED BY <1>1, <1>3, <1>4
-----------------------------------------------------------------------------
Pick(s) == CHOOSE x \in s : TRUE

\* it is the recursive function behind the sum of f over S.
Recursion(it, f, S) ==
  it = [s \in SUBSET S |-> IF s = {} THEN 0 ELSE f[Pick(s)] + it[s \ {Pick(s)}]]

\* A finite set of indices, all with an integer value.
Summable(f, S) == IsFiniteSet(S) /\ \A x \in S : f[x] \in Int

\* SumFunctionOnSet is the value of a recursive function at the whole set.
LEMMA SumUnfolds ==
  ASSUME NEW f, NEW S
  PROVE  SumFunctionOnSet(f, S) = (CHOOSE it : Recursion(it, f, S))[S]
BY DEF SumFunctionOnSet, FoldFunctionOnSet, MapThenFoldSet, Recursion, Pick

\* Two such functions agree wherever both are defined.
LEMMA RecursionUnique ==
  ASSUME NEW S, IsFiniteSet(S), NEW T \in SUBSET S, NEW f, NEW it, NEW jt,
         Recursion(it, f, S), Recursion(jt, f, T)
  PROVE  \A s \in SUBSET T : it[s] = jt[s]
<1> DEFINE B == {s \in SUBSET T : it[s] # jt[s]}
<1> SUFFICES ASSUME B # {} PROVE FALSE
  OBVIOUS
<1>1. PICK s \in B : \A u \in B : u \subseteq s => u = s
  <2>1. B \in SUBSET SUBSET S
    OBVIOUS
  <2> HIDE DEF B
  <2> QED BY <2>1, MinimalSubset
<1>2. s \in SUBSET T /\ s \in SUBSET S /\ it[s] # jt[s]
  BY <1>1
<1>3. CASE s = {}
  <2>1. it[s] = 0 /\ jt[s] = 0
    BY <1>2, <1>3 DEF Recursion
  <2> QED BY <1>2, <2>1
<1>4. CASE s # {}
  <2> DEFINE u == s \ {Pick(s)}
  <2>1. Pick(s) \in s
    BY <1>4 DEF Pick
  <2>2. u \in SUBSET T /\ u \subseteq s /\ u # s
    BY <1>2, <2>1
  <2>3. it[u] = jt[u]
    BY <1>1, <2>2
  <2>4. it[s] = f[Pick(s)] + it[u]
    BY <1>2, <1>4 DEF Recursion
  <2>5. jt[s] = f[Pick(s)] + jt[u]
    BY <1>2, <1>4 DEF Recursion
  <2> QED BY <1>2, <2>3, <2>4, <2>5
<1> QED BY <1>3, <1>4

\* Every finite set has one: the subsets of at most n elements do, for each n.
LEMMA RecursionExists ==
  ASSUME NEW S, IsFiniteSet(S), NEW f \in [S -> Int]
  PROVE  \E it \in [SUBSET S -> Int] : Recursion(it, f, S)
<1> DEFINE P == SUBSET S
           Small(n) == {s \in P : Cardinality(s) <= n}
           Step(it, s) == IF s = {} THEN 0 ELSE f[Pick(s)] + it[s \ {Pick(s)}]
           Good == {n \in Nat : \E it \in [Small(n) -> Int] :
                                  \A s \in Small(n) : it[s] = Step(it, s)}
<1>0. \A n, s : s \in Small(n) <=> s \in P /\ Cardinality(s) <= n
  OBVIOUS
<1> HIDE DEF Small, Step, Good, P
<1>1. ASSUME NEW s \in P
      PROVE  Cardinality(s) \in Nat /\ Cardinality(s) <= Cardinality(S)
  BY FS_Subset, FS_CardinalityType DEF P
<1>a. ASSUME NEW s \in P PROVE IsFiniteSet(s)
  BY FS_Subset DEF P
<1>b. ASSUME NEW s \in P, Cardinality(s) = 0 PROVE s = {}
  BY <1>a, <1>b, FS_EmptySet
<1>2. ASSUME NEW s \in P, s # {}
      PROVE  /\ Pick(s) \in s /\ Pick(s) \in S /\ f[Pick(s)] \in Int
             /\ s \ {Pick(s)} \in P
             /\ Cardinality(s \ {Pick(s)}) = Cardinality(s) - 1
  <2>1. Pick(s) \in s
    BY <1>2 DEF Pick
  <2>2. Pick(s) \in S /\ s \ {Pick(s)} \in P
    BY <2>1 DEF P
  <2>3. Cardinality(s \ {Pick(s)}) = Cardinality(s) - 1
    BY <1>a, <2>1, FS_RemoveElement
  <2> QED BY <2>1, <2>2, <2>3
<1>3. 0 \in Good
  <2> DEFINE z == [s \in Small(0) |-> 0]
  <2>1. \A s \in Small(0) : s = {}
    <3> TAKE s \in Small(0)
    <3>1. s \in P /\ Cardinality(s) <= 0
      BY <1>0
    <3>2. Cardinality(s) = 0
      BY <1>1, <3>1
    <3> QED BY <1>b, <3>1, <3>2
  <2>2. z \in [Small(0) -> Int] /\ \A s \in Small(0) : z[s] = Step(z, s)
    BY <2>1 DEF Step
  <2> QED BY <2>2 DEF Good
<1>4. ASSUME NEW n \in Good PROVE n + 1 \in Good
  <2>1. PICK it \in [Small(n) -> Int] : \A s \in Small(n) : it[s] = Step(it, s)
    BY <1>4 DEF Good
  <2> DEFINE jt == [s \in Small(n + 1) |-> Step(it, s)]
  <2>2. ASSUME NEW s \in Small(n + 1), s # {}
        PROVE  s \ {Pick(s)} \in Small(n) /\ s \ {Pick(s)} \in Small(n + 1)
    <3>1. s \in P /\ Cardinality(s) <= n + 1
      BY <1>0
    <3>2. Cardinality(s) \in Nat /\ n \in Nat
      BY <1>1, <1>4, <3>1 DEF Good
    <3>3. Cardinality(s \ {Pick(s)}) = Cardinality(s) - 1 /\ s \ {Pick(s)} \in P
      BY <1>2, <2>2, <3>1
    <3>4. Cardinality(s \ {Pick(s)}) <= n /\ Cardinality(s \ {Pick(s)}) <= n + 1
      BY <3>1, <3>2, <3>3
    <3> QED BY <1>0, <3>3, <3>4
  <2>3. \A s \in Small(n + 1) : Step(it, s) \in Int
    <3> TAKE s \in Small(n + 1)
    <3>1. CASE s = {}
      BY <3>1 DEF Step
    <3>2. CASE s # {}
      <4>1. f[Pick(s)] \in Int
        BY <1>0, <1>2, <3>2
      <4>2. it[s \ {Pick(s)}] \in Int
        BY <2>1, <2>2, <3>2
      <4> QED BY <3>2, <4>1, <4>2 DEF Step
    <3> QED BY <3>1, <3>2
  <2>4. jt \in [Small(n + 1) -> Int]
    BY <2>3
  <2>5. ASSUME NEW s \in Small(n) PROVE s \in Small(n + 1) /\ jt[s] = it[s]
    <3>1. s \in P /\ Cardinality(s) <= n
      BY <1>0
    <3>2. Cardinality(s) \in Nat /\ n \in Nat
      BY <1>1, <1>4, <3>1 DEF Good
    <3>3. s \in Small(n + 1)
      BY <1>0, <3>1, <3>2
    <3> QED BY <2>1, <3>3
  <2>6. ASSUME NEW s \in Small(n + 1) PROVE jt[s] = Step(jt, s)
    <3>1. jt[s] = Step(it, s)
      OBVIOUS
    <3>2. s # {} => jt[s \ {Pick(s)}] = it[s \ {Pick(s)}]
      <4> HIDE DEF jt
      <4> QED BY <2>2, <2>5
    <3> HIDE DEF jt
    <3> QED BY <3>1, <3>2 DEF Step
  <2>7. n + 1 \in Nat
    BY <1>4 DEF Good
  <2> HIDE DEF jt
  <2> QED BY <2>4, <2>6, <2>7 DEF Good
<1>5. Cardinality(S) \in Good
  <2>1. Cardinality(S) \in Nat
    BY FS_CardinalityType
  <2> QED BY <1>3, <1>4, <2>1, NaturalInduction
<1>6. \A s : s \in Small(Cardinality(S)) <=> s \in P
  BY <1>0, <1>1
<1>7. Small(Cardinality(S)) = P
  BY <1>6
<1>8. PICK it \in [P -> Int] : \A s \in P : it[s] = Step(it, s)
  <2>1. PICK it \in [Small(Cardinality(S)) -> Int] :
               \A s \in Small(Cardinality(S)) : it[s] = Step(it, s)
    BY <1>5 DEF Good
  <2> QED BY <1>7, <2>1
<1>9. Recursion(it, f, S)
  BY <1>8 DEF Recursion, Step, P
<1> QED BY <1>9 DEF P
-----------------------------------------------------------------------------
(* The sum of a function over a finite set of indices. *)

\* The recursion that defines a sum of integers exists.
LEMMA SumIsRecursive ==
  ASSUME NEW f, NEW S, Summable(f, S)
  PROVE  \E it \in [SUBSET S -> Int] : Recursion(it, f, S) /\ SumFunctionOnSet(f, S) = it[S]
<1> DEFINE g == [x \in S |-> f[x]]
           jt == CHOOSE it : Recursion(it, f, S)
<1>1. g \in [S -> Int] /\ IsFiniteSet(S)
  BY DEF Summable
<1>2. PICK it \in [SUBSET S -> Int] : Recursion(it, g, S)
  BY <1>1, RecursionExists
<1>3. \A s \in SUBSET S : s # {} => g[Pick(s)] = f[Pick(s)]
  BY DEF Pick
<1>4. Recursion(it, f, S)
  BY <1>2, <1>3 DEF Recursion
<1>5. Recursion(jt, f, S)
  BY <1>4
<1>6. jt = [s \in SUBSET S |-> jt[s]]
  BY <1>5 DEF Recursion
<1>7. \A s \in SUBSET S : jt[s] = it[s]
  <2> HIDE DEF jt
  <2> QED BY <1>1, <1>4, <1>5, RecursionUnique
<1>8. jt \in [SUBSET S -> Int]
  BY <1>6, <1>7
<1>9. SumFunctionOnSet(f, S) = jt[S]
  BY SumUnfolds
<1> QED BY <1>5, <1>8, <1>9

\* A sum of integers is an integer.
LEMMA SumInt ==
  ASSUME NEW f, NEW S, Summable(f, S)
  PROVE  SumFunctionOnSet(f, S) \in Int
<1>1. PICK it \in [SUBSET S -> Int] : SumFunctionOnSet(f, S) = it[S]
  BY SumIsRecursive
<1> QED BY <1>1

\* The empty sum is zero.
LEMMA SumEmpty ==
  ASSUME NEW f
  PROVE  SumFunctionOnSet(f, {}) = 0 /\ Summable(f, {})
<1>1. Summable(f, {})
  BY FS_EmptySet DEF Summable
<1>2. PICK it \in [SUBSET {} -> Int] : Recursion(it, f, {}) /\ SumFunctionOnSet(f, {}) = it[{}]
  BY <1>1, SumIsRecursive
<1> QED BY <1>1, <1>2 DEF Recursion

\* What can be added up can be added up in part.
LEMMA SummableSubset ==
  ASSUME NEW f, NEW S, Summable(f, S), NEW T, T \subseteq S
  PROVE  Summable(f, T)
BY FS_Subset DEF Summable

\* One unfolding, at the element the recursion picks.
LEMMA SumAtPick ==
  ASSUME NEW f, NEW S, Summable(f, S), S # {}
  PROVE  /\ SumFunctionOnSet(f, S) = f[Pick(S)] + SumFunctionOnSet(f, S \ {Pick(S)})
         /\ Pick(S) \in S
<1> DEFINE T == S \ {Pick(S)}
<1>1. Pick(S) \in S /\ IsFiniteSet(S)
  BY DEF Pick, Summable
<1>2. T \in SUBSET S /\ Summable(f, T)
  BY SummableSubset
<1> HIDE DEF T
<1>3. PICK it \in [SUBSET S -> Int] : Recursion(it, f, S) /\ SumFunctionOnSet(f, S) = it[S]
  BY SumIsRecursive
<1>4. PICK jt \in [SUBSET T -> Int] : Recursion(jt, f, T) /\ SumFunctionOnSet(f, T) = jt[T]
  BY <1>2, SumIsRecursive
<1>5. it[T] = jt[T]
  BY <1>1, <1>2, <1>3, <1>4, RecursionUnique
<1>6. it[S] = f[Pick(S)] + it[T]
  BY <1>3 DEF Recursion, T
<1> QED BY <1>1, <1>3, <1>4, <1>5, <1>6 DEF T

\* A sum may be unfolded at any of its indices.
THEOREM SumAt ==
  ASSUME NEW f, NEW S, Summable(f, S), NEW x \in S
  PROVE  SumFunctionOnSet(f, S) = f[x] + SumFunctionOnSet(f, S \ {x})
<1> DEFINE Bad == {T \in SUBSET S :
                    \E y \in T : SumFunctionOnSet(f, T) # f[y] + SumFunctionOnSet(f, T \ {y})}
<1> SUFFICES ASSUME Bad # {} PROVE FALSE
  OBVIOUS
<1>1. PICK T \in Bad : \A U \in Bad : U \subseteq T => U = T
  <2>1. Bad \in SUBSET SUBSET S /\ IsFiniteSet(S)
    BY DEF Summable
  <2> HIDE DEF Bad
  <2> QED BY <2>1, MinimalSubset
<1>2. T \subseteq S /\ Summable(f, T)
  BY SummableSubset
<1>3. PICK y \in T : SumFunctionOnSet(f, T) # f[y] + SumFunctionOnSet(f, T \ {y})
  BY <1>1
<1> DEFINE p == Pick(T)
<1>4. SumFunctionOnSet(f, T) = f[p] + SumFunctionOnSet(f, T \ {p}) /\ p \in T
  BY <1>2, <1>3, SumAtPick
<1> HIDE DEF p
<1>5. y # p
  BY <1>3, <1>4
<1>6. ASSUME NEW a \in T, NEW b \in T, a # b
      PROVE  SumFunctionOnSet(f, T \ {a}) = f[b] + SumFunctionOnSet(f, (T \ {a}) \ {b})
  <2>1. T \ {a} \subseteq T /\ T \ {a} # T /\ T \ {a} \in SUBSET S /\ b \in T \ {a}
    BY <1>2, <1>6
  <2>2. T \ {a} \notin Bad
    BY <1>1, <2>1
  <2> QED BY <2>1, <2>2
<1>7. (T \ {p}) \ {y} = (T \ {y}) \ {p}
  OBVIOUS
<1>8. SumFunctionOnSet(f, T \ {p}) = f[y] + SumFunctionOnSet(f, (T \ {p}) \ {y})
  BY <1>4, <1>5, <1>6
<1>9. SumFunctionOnSet(f, T \ {y}) = f[p] + SumFunctionOnSet(f, (T \ {p}) \ {y})
  BY <1>4, <1>5, <1>6, <1>7
<1>10. f[p] \in Int /\ f[y] \in Int /\ SumFunctionOnSet(f, (T \ {p}) \ {y}) \in Int
  <2>1. Summable(f, (T \ {p}) \ {y})
    BY <1>2, SummableSubset
  <2> QED BY <1>2, <1>4, <2>1, SumInt DEF Summable
<1> QED BY <1>3, <1>4, <1>8, <1>9, <1>10

\* Only the values at the indices matter.
THEOREM SumSame ==
  ASSUME NEW f, NEW h, NEW S, Summable(f, S), \A x \in S : f[x] = h[x]
  PROVE  SumFunctionOnSet(f, S) = SumFunctionOnSet(h, S) /\ Summable(h, S)
<1>1. \A T \in SUBSET S : Summable(f, T) /\ Summable(h, T)
  <2>1. Summable(h, S)
    BY DEF Summable
  <2> QED BY <2>1, SummableSubset
<1> DEFINE Bad == {T \in SUBSET S : SumFunctionOnSet(f, T) # SumFunctionOnSet(h, T)}
<1> SUFFICES ASSUME Bad # {} PROVE FALSE
  BY <1>1
<1>2. PICK T \in Bad : \A U \in Bad : U \subseteq T => U = T
  <2>1. Bad \in SUBSET SUBSET S /\ IsFiniteSet(S)
    BY DEF Summable
  <2> HIDE DEF Bad
  <2> QED BY <2>1, MinimalSubset
<1>3. T # {}
  BY <1>2, SumEmpty
<1>4. PICK x \in T : x \in S
  BY <1>2, <1>3
<1>5. SumFunctionOnSet(f, T \ {x}) = SumFunctionOnSet(h, T \ {x})
  <2>1. T \ {x} \subseteq T /\ T \ {x} # T /\ T \ {x} \in SUBSET S
    BY <1>4
  <2> QED BY <1>2, <2>1
<1>6. /\ SumFunctionOnSet(f, T) = f[x] + SumFunctionOnSet(f, T \ {x})
      /\ SumFunctionOnSet(h, T) = h[x] + SumFunctionOnSet(h, T \ {x})
  BY <1>1, <1>4, SumAt
<1> QED BY <1>2, <1>4, <1>5, <1>6

\* A sum of naturals is a natural, at least as large as each of them.
THEOREM SumNat ==
  ASSUME NEW f, NEW S, IsFiniteSet(S), \A x \in S : f[x] \in Nat
  PROVE  SumFunctionOnSet(f, S) \in Nat /\ \A x \in S : f[x] <= SumFunctionOnSet(f, S)
<1>0. Summable(f, S)
  BY DEF Summable
<1> DEFINE Good == {T \in SUBSET S : SumFunctionOnSet(f, T) \in Nat}
<1>1. {} \in Good
  BY SumEmpty
<1>2. ASSUME NEW T \in SUBSET S, NEW x \in S, x \notin T, T \in Good
      PROVE  T \cup {x} \in Good
  <2> DEFINE U == T \cup {x}
  <2>1. U \in SUBSET S /\ x \in U /\ U \ {x} = T
    BY <1>2
  <2>2. Summable(f, U)
    BY <1>0, <2>1, SummableSubset
  <2> HIDE DEF U
  <2>3. SumFunctionOnSet(f, U) = f[x] + SumFunctionOnSet(f, T)
    BY <2>1, <2>2, SumAt
  <2>4. SumFunctionOnSet(f, T) \in Nat
    BY <1>2
  <2>5. SumFunctionOnSet(f, U) \in Nat
    BY <2>3, <2>4
  <2> QED BY <2>1, <2>5 DEF U
<1>3. ASSUME NEW T \in SUBSET S PROVE T \in Good
  <2>1. IsFiniteSet(T)
    BY FS_Subset
  <2>2. \A V \in SUBSET T, x \in T : x \notin V /\ V \in Good => V \cup {x} \in Good
    BY <1>2
  <2> HIDE DEF Good
  <2> QED BY <1>1, <2>1, <2>2, FiniteInduction
<1>4. ASSUME NEW x \in S PROVE f[x] <= SumFunctionOnSet(f, S)
  <2>1. SumFunctionOnSet(f, S) = f[x] + SumFunctionOnSet(f, S \ {x})
    BY <1>0, SumAt
  <2>2. SumFunctionOnSet(f, S \ {x}) \in Nat
    BY <1>3
  <2> QED BY <2>1, <2>2
<1> QED BY <1>3, <1>4

\* A sum grows when its values do.
THEOREM SumMonotone ==
  ASSUME NEW f, NEW h, NEW S, Summable(f, S), Summable(h, S), \A x \in S : f[x] <= h[x]
  PROVE  SumFunctionOnSet(f, S) <= SumFunctionOnSet(h, S)
<1> DEFINE Good == {T \in SUBSET S : SumFunctionOnSet(f, T) <= SumFunctionOnSet(h, T)}
<1>1. {} \in Good
  BY SumEmpty
<1>2. ASSUME NEW T \in SUBSET S, NEW x \in S, x \notin T, T \in Good
      PROVE  T \cup {x} \in Good
  <2> DEFINE U == T \cup {x}
  <2>1. U \in SUBSET S /\ x \in U /\ U \ {x} = T
    BY <1>2
  <2>2. Summable(f, U) /\ Summable(h, U) /\ Summable(f, T) /\ Summable(h, T)
    BY <2>1, SummableSubset
  <2> HIDE DEF U
  <2>3. /\ SumFunctionOnSet(f, U) = f[x] + SumFunctionOnSet(f, T)
        /\ SumFunctionOnSet(h, U) = h[x] + SumFunctionOnSet(h, T)
    BY <2>1, <2>2, SumAt
  <2>4. /\ f[x] \in Int /\ h[x] \in Int /\ f[x] <= h[x]
        /\ SumFunctionOnSet(f, T) \in Int /\ SumFunctionOnSet(h, T) \in Int
        /\ SumFunctionOnSet(f, T) <= SumFunctionOnSet(h, T)
    BY <1>2, <2>2, SumInt DEF Summable
  <2>5. SumFunctionOnSet(f, U) <= SumFunctionOnSet(h, U)
    BY <2>3, <2>4
  <2> QED BY <2>1, <2>5 DEF U
<1>3. IsFiniteSet(S)
  BY DEF Summable
<1>4. S \in Good
  <2> HIDE DEF Good
  <2> QED BY <1>1, <1>2, <1>3, FiniteInduction
<1> QED BY <1>4

-----------------------------------------------------------------------------
(* Loops.  A loop over 1..n is a function of the number of rounds done.    *)

\* f is the loop from x0 whose round i takes x to step[i][x].
Runs(f, n, x0, step) ==
    /\ f[0] = x0
    /\ \A i \in 1..n : f[i] = step[i][f[i - 1]]

\* Every loop has such a function.
LEMMA LoopRuns ==
    ASSUME NEW n \in Nat, NEW X, NEW x0 \in X, NEW step \in [1..n -> [X -> X]]
    PROVE  \E f \in [0..n -> X] : Runs(f, n, x0, step)
<1> DEFINE D == {k \in Nat : k <= n => \E f \in [0..k -> X] : Runs(f, k, x0, step)}
<1>1. 0 \in D
  <2>1. [i \in 0..0 |-> x0] \in [0..0 -> X]
    OBVIOUS
  <2>2. Runs([i \in 0..0 |-> x0], 0, x0, step)
    BY DEF Runs
  <2> QED
    BY <2>1, <2>2
<1>2. ASSUME NEW k \in Nat, k \in D PROVE k + 1 \in D
  <2> SUFFICES ASSUME k + 1 <= n
               PROVE  \E f \in [0..(k + 1) -> X] : Runs(f, k + 1, x0, step)
    OBVIOUS
  <2>1. PICK f \in [0..k -> X] : Runs(f, k, x0, step)
    BY <1>2
  <2> DEFINE g == [i \in 0..(k + 1) |-> IF i = k + 1 THEN step[k + 1][f[k]] ELSE f[i]]
  <2>2. step[k + 1] \in [X -> X] /\ f[k] \in X
    OBVIOUS
  <2>3. g \in [0..(k + 1) -> X]
    BY <2>2
  <2>4. g[0] = x0
    BY <2>1 DEF Runs
  <2>5. ASSUME NEW i \in 1..(k + 1) PROVE g[i] = step[i][g[i - 1]]
    <3>1. CASE i = k + 1
      <4>1. g[i - 1] = f[k]
        BY <3>1
      <4> QED
        BY <3>1, <4>1
    <3>2. CASE i # k + 1
      <4>1. i \in 1..k /\ i \in 0..(k + 1) /\ i - 1 \in 0..(k + 1) /\ i - 1 # k + 1
        BY <3>2
      <4>2. g[i] = f[i] /\ g[i - 1] = f[i - 1]
        BY <3>2, <4>1
      <4> QED
        BY <2>1, <4>1, <4>2 DEF Runs
    <3> QED
      BY <3>1, <3>2
  <2>6. Runs(g, k + 1, x0, step)
    BY <2>4, <2>5 DEF Runs
  <2> QED
    BY <2>3, <2>6
<1>3. \A k \in Nat : k \in D
  <2> HIDE DEF D
  <2> QED
    BY <1>1, <1>2, NaturalInduction
<1> QED
  BY <1>3

\* What holds before a loop and after every round holds at its end.
LEMMA LoopInduction ==
    ASSUME NEW n \in Nat, NEW D, 0 \in D, \A i \in 1..n : i - 1 \in D => i \in D
    PROVE  \A i \in 0..n : i \in D
<1> DEFINE E == {k \in Nat : k <= n => k \in D}
<1>1. 0 \in E
  OBVIOUS
<1>2. ASSUME NEW k \in Nat, k \in E PROVE k + 1 \in E
  <2> SUFFICES ASSUME k + 1 <= n PROVE k + 1 \in D
    OBVIOUS
  <2>1. k + 1 \in 1..n /\ (k + 1) - 1 = k /\ k \in D
    BY <1>2
  <2> QED
    BY <2>1
<1>3. \A k \in Nat : k \in E
  <2> HIDE DEF E
  <2> QED
    BY <1>1, <1>2, NaturalInduction
<1> QED
  BY <1>3

-----------------------------------------------------------------------------
(* Concatenations.  FlattenSeq joins a sequence of sequences from the left. *)

\* f[i] is what the first i of the sequences make.
Joins(f, s) ==
    /\ f[0] = <<>>
    /\ \A i \in 1..Len(s) : f[i] = f[i - 1] \o s[i]

JoinsIn(f, s, X) == s \in Seq(Seq(X)) /\ f \in [0..Len(s) -> Seq(X)] /\ Joins(f, s)

\* g is the function behind FlattenSeq(s).
IsFlatten(g, s) == g = [i \in 1..Len(s) |-> IF i = 1 THEN s[i] ELSE g[i - 1] \o s[i]]

\* An element of a sequence and a value of a function are of the type given.
LEMMA ElementIn ==
    ASSUME NEW Y, NEW s \in Seq(Y), NEW i \in 1..Len(s)
    PROVE  s[i] \in Y
OBVIOUS
LEMMA ValueIn ==
    ASSUME NEW Y, NEW I, NEW f \in [I -> Y], NEW i \in I
    PROVE  f[i] \in Y
OBVIOUS
LEMMA EmptyFirst ==
    ASSUME NEW X, NEW u \in Seq(X)
    PROVE  <<>> \o u = u
OBVIOUS

\* FlattenSeq is the last of the partial concatenations.
LEMMA FlattenJoins ==
    ASSUME NEW X, NEW s \in Seq(Seq(X))
    PROVE  \E f \in [0..Len(s) -> Seq(X)] : Joins(f, s) /\ FlattenSeq(s) = f[Len(s)]
<1> DEFINE n == Len(s)
           Y == Seq(X)
           round == [i \in 1..n |-> [x \in Y |-> x \o s[i]]]
<1>1. n \in Nat /\ <<>> \in Y /\ \A i \in 1..n : s[i] \in Y
  OBVIOUS
<1>2. round \in [1..n -> [Y -> Y]]
  BY <1>1
<1>3. \A i \in 1..n : \A x \in Y : round[i][x] = x \o s[i]
  OBVIOUS
<1>4. PICK f \in [0..n -> Y] : Runs(f, n, <<>>, round)
  <2> HIDE DEF round, Y, n
  <2> QED
    BY <1>1, <1>2, LoopRuns
<1>5. Joins(f, s)
  <2>1. ASSUME NEW i \in 1..n PROVE f[i] = f[i - 1] \o s[i]
    <3> HIDE DEF round
    <3>1. f[i] = round[i][f[i - 1]] /\ i - 1 \in 0..n
      <4>1. i - 1 \in 0..n
        BY <1>1
      <4> QED
        BY <1>4, <4>1, Zenon DEF Runs
    <3>2. f[i - 1] \in Y
      BY <3>1, ValueIn
    <3> QED
      BY <1>3, <3>1, <3>2, Zenon
  <2> QED
    BY <1>4, <2>1, Zenon DEF Joins, Runs
<1>6. CASE n = 0
  <2>1. s = <<>> /\ FlattenSeq(s) = s
    BY <1>6 DEF FlattenSeq
  <2> QED
    BY <1>5, <1>6, <2>1 DEF Joins
<1>7. CASE n # 0
  <2> DEFINE c == CHOOSE g : IsFlatten(g, s)
  <2>1. FlattenSeq(s) = c[n]
    BY <1>7 DEF FlattenSeq, IsFlatten
  <2>2. IsFlatten([i \in 1..n |-> f[i]], s)
    <3> DEFINE h == [i \in 1..n |-> f[i]]
    <3>1. ASSUME NEW i \in 1..n PROVE h[i] = IF i = 1 THEN s[i] ELSE h[i - 1] \o s[i]
      <4>1. CASE i = 1
        <5>1. s[1] \in Seq(X) /\ 1 - 1 = 0
          BY <1>1, <4>1, ElementIn
        <5>2. f[1] = <<>> \o s[1]
          BY <1>5, <4>1, <5>1, Zenon DEF Joins
        <5>3. <<>> \o s[1] = s[1]
          BY <5>1, EmptyFirst
        <5> QED
          BY <4>1, <5>2, <5>3
      <4>2. CASE i # 1
        <5>1. i - 1 \in 1..n /\ i \in 1..Len(s)
          BY <1>1, <4>2
        <5> QED
          BY <1>5, <4>2, <5>1 DEF Joins
      <4> QED
        BY <4>1, <4>2
    <3>2. h = [i \in 1..n |-> IF i = 1 THEN s[i] ELSE h[i - 1] \o s[i]]
      BY <3>1
    <3> QED
      BY <3>2 DEF IsFlatten
  <2>3. IsFlatten(c, s)
    BY <2>2
  <2> HIDE DEF c
  <2> DEFINE D == {i \in 0..n : i = 0 \/ c[i] = f[i]}
  <2>4. \A i \in 1..n : c[i] = IF i = 1 THEN s[i] ELSE c[i - 1] \o s[i]
    BY <2>3 DEF IsFlatten
  <2>5. ASSUME NEW i \in 1..n, i - 1 \in D PROVE i \in D
    <3>1. CASE i = 1
      <4>1. s[1] \in Seq(X) /\ 1 - 1 = 0 /\ 1 \in 1..n
        BY <1>1, <3>1, ElementIn
      <4>2. f[1] = <<>> \o s[1]
        BY <1>5, <4>1, Zenon DEF Joins
      <4>3. <<>> \o s[1] = s[1]
        BY <4>1, EmptyFirst
      <4>4. c[1] = s[1]
        BY <2>4, <4>1
      <4> QED
        BY <3>1, <4>2, <4>3, <4>4
    <3>2. CASE i # 1
      <4>1. c[i - 1] = f[i - 1] /\ i \in 1..Len(s)
        BY <1>1, <2>5, <3>2
      <4>2. c[i] = c[i - 1] \o s[i]
        BY <2>4, <3>2, Zenon
      <4>3. f[i] = f[i - 1] \o s[i]
        BY <1>5, <4>1, Zenon DEF Joins
      <4>4. c[i] = f[i]
        BY <4>1, <4>2, <4>3, Zenon
      <4> QED
        BY <4>4
    <3> QED
      BY <3>1, <3>2
  <2>6. 0 \in D
    BY <1>1
  <2>7. \A i \in 0..n : i \in D
    <3> HIDE DEF D, n
    <3> QED
      BY <1>1, <2>5, <2>6, LoopInduction
  <2>8. c[n] = f[n]
    BY <1>1, <1>7, <2>7
  <2> QED
    BY <1>5, <2>1, <2>8
<1> QED
  BY <1>6, <1>7

\* Concatenation can be cancelled on either side.
LEMMA CancelLeft ==
    ASSUME NEW X, NEW u \in Seq(X), NEW a \in Seq(X), NEW b \in Seq(X), u \o a = u \o b
    PROVE  a = b
<1>1. Len(a) = Len(b)
  <2>1. Len(u \o a) = Len(u) + Len(a) /\ Len(u \o b) = Len(u) + Len(b)
    OBVIOUS
  <2> QED
    BY <2>1
<1>2. ASSUME NEW i \in 1..Len(a) PROVE a[i] = b[i]
  <2>1. (u \o a)[Len(u) + i] = a[i] /\ (u \o b)[Len(u) + i] = b[i]
    BY <1>1
  <2> QED
    BY <2>1
<1> QED
  BY <1>1, <1>2
LEMMA CancelRight ==
    ASSUME NEW X, NEW u \in Seq(X), NEW v \in Seq(X), NEW a \in Seq(X), u \o a = v \o a
    PROVE  u = v
<1>1. Len(u) = Len(v)
  <2>1. Len(u \o a) = Len(u) + Len(a) /\ Len(v \o a) = Len(v) + Len(a)
    OBVIOUS
  <2> QED
    BY <2>1
<1>2. ASSUME NEW i \in 1..Len(u) PROVE u[i] = v[i]
  <2>1. (u \o a)[i] = u[i] /\ (v \o a)[i] = v[i]
    BY <1>1
  <2> QED
    BY <2>1
<1> QED
  BY <1>1, <1>2

\* What stands in a sequence, and in two of them one after the other.
LEMMA SeqMembers ==
    ASSUME NEW X, NEW u \in Seq(X)
    PROVE  \A x : x \in ToSet(u) <=> \E i \in 1..Len(u) : x = u[i]
<1>1. DOMAIN u = 1..Len(u)
  OBVIOUS
<1> QED
  BY <1>1, Zenon DEF ToSet
LEMMA ConcatMembers ==
    ASSUME NEW X, NEW u \in Seq(X), NEW v \in Seq(X)
    PROVE  ToSet(u \o v) = ToSet(u) \cup ToSet(v)
<1>0. u \o v \in Seq(X) /\ Len(u \o v) = Len(u) + Len(v) /\ Len(u) \in Nat /\ Len(v) \in Nat
  OBVIOUS
<1>1. ASSUME NEW x, x \in ToSet(u \o v) PROVE x \in ToSet(u) \cup ToSet(v)
  <2>1. PICK i \in 1..Len(u \o v) : x = (u \o v)[i]
    BY <1>0, <1>1, SeqMembers
  <2>2. CASE i <= Len(u)
    <3>1. i \in 1..Len(u) /\ (u \o v)[i] = u[i]
      BY <1>0, <2>2
    <3>2. x \in ToSet(u)
      BY <2>1, <3>1, SeqMembers, Zenon
    <3> QED
      BY <3>2
  <2>3. CASE i > Len(u)
    <3>1. i - Len(u) \in 1..Len(v) /\ (u \o v)[i] = v[i - Len(u)]
      BY <1>0, <2>3
    <3>2. x \in ToSet(v)
      BY <2>1, <3>1, SeqMembers, Zenon
    <3> QED
      BY <3>2
  <2> QED
    BY <1>0, <2>2, <2>3
<1>2. ASSUME NEW x, x \in ToSet(u) PROVE x \in ToSet(u \o v)
  <2>1. PICK i \in 1..Len(u) : x = u[i]
    BY <1>2, SeqMembers
  <2>2. (u \o v)[i] = u[i] /\ i \in 1..Len(u \o v)
    BY <1>0
  <2> QED
    BY <1>0, <2>1, <2>2, SeqMembers, Zenon
<1>3. ASSUME NEW x, x \in ToSet(v) PROVE x \in ToSet(u \o v)
  <2>1. PICK i \in 1..Len(v) : x = v[i]
    BY <1>3, SeqMembers
  <2>2. (u \o v)[Len(u) + i] = v[i] /\ Len(u) + i \in 1..Len(u \o v)
    BY <1>0
  <2> QED
    BY <1>0, <2>1, <2>2, SeqMembers, Zenon
<1> QED
  BY <1>1, <1>2, <1>3, Zenon

\* What a concatenation holds its parts hold.
LEMMA FlattenMembers ==
    ASSUME NEW X, NEW s \in Seq(Seq(X))
    PROVE  /\ FlattenSeq(s) \in Seq(X)
           /\ \A x : x \in ToSet(FlattenSeq(s)) <=> \E i \in 1..Len(s) : x \in ToSet(s[i])
<1>1. PICK f \in [0..Len(s) -> Seq(X)] : Joins(f, s) /\ FlattenSeq(s) = f[Len(s)]
  BY FlattenJoins
<1> DEFINE n == Len(s)
           D == {k \in 0..n : \A x : x \in ToSet(f[k]) <=> \E i \in 1..k : x \in ToSet(s[i])}
<1>2. n \in Nat
  OBVIOUS
<1>3. 0 \in D
  <2>1. ToSet(f[0]) = {} /\ 1..0 = {} /\ 0 \in 0..n
    BY <1>1, <1>2 DEF Joins, ToSet
  <2> QED
    BY <2>1
<1>4. ASSUME NEW k \in 1..n, k - 1 \in D PROVE k \in D
  <2>1. k - 1 \in 0..n /\ k \in 0..n /\ k \in 1..Len(s)
    BY <1>2
  <2>2. f[k] = f[k - 1] \o s[k]
    BY <1>1, <2>1 DEF Joins
  <2>3. f[k - 1] \in Seq(X) /\ s[k] \in Seq(X)
    BY <2>1, ValueIn, ElementIn
  <2>4. ToSet(f[k]) = ToSet(f[k - 1]) \cup ToSet(s[k])
    BY <2>2, <2>3, ConcatMembers
  <2>5. 1..k = 1..(k - 1) \cup {k}
    BY <1>2
  <2>6. \A x : x \in ToSet(f[k - 1]) <=> \E i \in 1..(k - 1) : x \in ToSet(s[i])
    BY <1>4
  <2>7. \A x : x \in ToSet(f[k]) <=> \E i \in 1..k : x \in ToSet(s[i])
    BY <2>4, <2>5, <2>6, Zenon
  <2> QED
    BY <2>1, <2>7
<1>5. \A k \in 0..n : k \in D
  <2> HIDE DEF D, n
  <2> QED
    BY <1>2, <1>3, <1>4, LoopInduction
<1>6. n \in D /\ f[n] \in Seq(X)
  BY <1>2, <1>5
<1> QED
  BY <1>1, <1>6

\* When one part is exchanged the concatenation shows it.
LEMMA FlattenCancel ==
    ASSUME NEW X, NEW s \in Seq(Seq(X)), NEW t \in Seq(Seq(X)), Len(s) = Len(t), NEW p \in 1..Len(s),
           \A i \in 1..Len(s) : i # p => s[i] = t[i], FlattenSeq(s) = FlattenSeq(t)
    PROVE  s[p] = t[p]
<1> SUFFICES ASSUME s[p] # t[p] PROVE FALSE
  OBVIOUS
<1> DEFINE n == Len(s)
<1>1. n \in Nat /\ p \in 1..n
  OBVIOUS
<1>2. PICK f \in [0..n -> Seq(X)] : Joins(f, s) /\ FlattenSeq(s) = f[n]
  BY FlattenJoins
<1>3. PICK g \in [0..n -> Seq(X)] : Joins(g, t) /\ FlattenSeq(t) = g[n]
  BY FlattenJoins
<1>4. ASSUME NEW i \in 1..n
      PROVE  /\ f[i] = f[i - 1] \o s[i] /\ g[i] = g[i - 1] \o t[i]
             /\ f[i - 1] \in Seq(X) /\ g[i - 1] \in Seq(X) /\ s[i] \in Seq(X) /\ t[i] \in Seq(X)
  <2>1. i - 1 \in 0..n /\ i \in 1..Len(s) /\ i \in 1..Len(t)
    BY <1>1
  <2>2. f[i] = f[i - 1] \o s[i]
    BY <1>2, <2>1 DEF Joins
  <2>3. g[i] = g[i - 1] \o t[i]
    BY <1>3, <2>1 DEF Joins
  <2>4. f[i - 1] \in Seq(X) /\ g[i - 1] \in Seq(X)
    BY <2>1, ValueIn
  <2>5. s[i] \in Seq(X) /\ t[i] \in Seq(X)
    BY <2>1, ElementIn
  <2> QED
    BY <2>2, <2>3, <2>4, <2>5, Zenon
<1>5. f[0] = g[0]
  BY <1>2, <1>3 DEF Joins
<1> DEFINE D == {i \in 0..n : (i < p => f[i] = g[i]) /\ (i >= p => f[i] # g[i])}
<1>6. 0 \in D
  BY <1>1, <1>5
<1>7. ASSUME NEW i \in 1..n, i - 1 \in D PROVE i \in D
  <2> DEFINE u == f[i - 1]
             v == g[i - 1]
  <2>1. u \in Seq(X) /\ v \in Seq(X) /\ s[i] \in Seq(X) /\ t[i] \in Seq(X)
    BY <1>4
  <2>2. f[i] = u \o s[i] /\ g[i] = v \o t[i]
    BY <1>4
  <2>3. (i - 1 < p => u = v) /\ (i - 1 >= p => u # v)
    BY <1>7
  <2>4. i \in 0..n /\ i \in Nat /\ p \in Nat /\ (i # p => s[i] = t[i])
    BY <1>1
  <2> HIDE DEF u, v
  <2>5. SUFFICES (i < p => f[i] = g[i]) /\ (i >= p => f[i] # g[i])
    BY <2>4
  <2> HIDE DEF D
  <2>6. CASE i < p
    <3>1. u = v /\ s[i] = t[i]
      BY <2>3, <2>4, <2>6
    <3>2. f[i] = g[i]
      BY <2>2, <3>1, Zenon
    <3> QED
      BY <2>4, <2>6, <3>2
  <2>7. CASE i = p
    <3>1. u = v /\ s[i] # t[i]
      BY <2>3, <2>4, <2>7
    <3>2. f[i] # g[i]
      <4>1. u \o s[i] # u \o t[i]
        BY <2>1, <3>1, CancelLeft
      <4> QED
        BY <2>2, <3>1, <4>1, Zenon
    <3> QED
      BY <2>4, <2>7, <3>2
  <2>8. CASE i > p
    <3>1. u # v /\ s[i] = t[i]
      BY <2>3, <2>4, <2>8
    <3>2. f[i] # g[i]
      <4>1. u \o s[i] # v \o s[i]
        BY <2>1, <3>1, CancelRight
      <4> QED
        BY <2>2, <3>1, <4>1, Zenon
    <3> QED
      BY <2>4, <2>8, <3>2
  <2> QED
    BY <2>4, <2>6, <2>7, <2>8
<1>8. \A i \in 0..n : i \in D
  <2> HIDE DEF D, n
  <2> QED
    BY <1>1, <1>6, <1>7, LoopInduction
<1>9. n \in 0..n /\ n >= p
  BY <1>1
<1>10. f[n] # g[n]
  BY <1>8, <1>9
<1> QED
  BY <1>2, <1>3, <1>10

\* Where the elements of two sequences lie in their concatenation.
LEMMA ConcatSeq ==
    ASSUME NEW X, NEW u \in Seq(X), NEW v \in Seq(X)
    PROVE  /\ u \o v \in Seq(X) /\ Len(u \o v) = Len(u) + Len(v)
           /\ Len(u) \in Nat /\ Len(v) \in Nat
OBVIOUS
LEMMA ConcatLeft ==
    ASSUME NEW X, NEW u \in Seq(X), NEW v \in Seq(X), NEW i \in 1..Len(u)
    PROVE  (u \o v)[i] = u[i]
OBVIOUS
LEMMA ConcatRight ==
    ASSUME NEW X, NEW u \in Seq(X), NEW v \in Seq(X), NEW j \in 1..Len(v), NEW k, k = Len(u) + j
    PROVE  (u \o v)[k] = v[j]
OBVIOUS
LEMMA SameElements ==
    ASSUME NEW X, NEW u \in Seq(X), NEW v \in Seq(X), Len(u) = Len(v),
           \A i \in 1..Len(u) : u[i] = v[i]
    PROVE  u = v
OBVIOUS

\* The concatenation of the first parts is a partial concatenation.
LEMMA FlattenPrefix ==
    ASSUME NEW X, NEW s \in Seq(Seq(X)), NEW f \in [0..Len(s) -> Seq(X)], Joins(f, s),
           NEW k \in 0..Len(s)
    PROVE  FlattenSeq([i \in 1..k |-> s[i]]) = f[k]
<1> DEFINE n == Len(s)
           u == [i \in 1..k |-> s[i]]
<1>1. n \in Nat /\ k \in Nat /\ k <= n
  OBVIOUS
<1>2. \A i \in 1..k : i \in 1..Len(s) /\ s[i] \in Seq(X)
  BY <1>1, ElementIn
<1>3. u \in Seq(Seq(X)) /\ Len(u) = k
  <2> DEFINE Y == Seq(X)
  <2>1. \A i \in 1..k : s[i] \in Y
    BY <1>2
  <2> HIDE DEF Y
  <2>2. u \in Seq(Y) /\ Len(u) = k
    BY <1>1, <2>1
  <2> QED
    BY <2>2 DEF Y
<1>4. \A i \in 1..k : u[i] = s[i]
  OBVIOUS
<1> HIDE DEF u
<1>5. PICK g \in [0..Len(u) -> Seq(X)] : Joins(g, u) /\ FlattenSeq(u) = g[Len(u)]
  BY <1>3, FlattenJoins
<1> DEFINE D == {i \in 0..k : g[i] = f[i]}
<1>6. 0 \in D
  BY <1>1, <1>5 DEF Joins
<1>7. ASSUME NEW i \in 1..k, i - 1 \in D PROVE i \in D
  <2>1. i \in 1..Len(s) /\ i \in 1..Len(u) /\ i \in 0..k
    BY <1>1, <1>3
  <2>2. g[i] = g[i - 1] \o u[i]
    BY <1>5, <2>1, Zenon DEF Joins
  <2>3. f[i] = f[i - 1] \o s[i]
    BY <2>1, Zenon DEF Joins
  <2>4. g[i - 1] = f[i - 1] /\ u[i] = s[i]
    BY <1>4, <1>7
  <2>5. g[i] = f[i]
    BY <2>2, <2>3, <2>4, Zenon
  <2> QED
    BY <2>1, <2>5
<1>8. \A i \in 0..k : i \in D
  <2> HIDE DEF D
  <2> QED
    BY <1>1, <1>6, <1>7, LoopInduction
<1>9. g[k] = f[k]
  BY <1>1, <1>8
<1> QED
  BY <1>3, <1>5, <1>9 DEF u

\* Where the elements of a part lie in the concatenation.
LEMMA FlattenAt ==
    ASSUME NEW X, NEW s, NEW f, JoinsIn(f, s, X), NEW i \in 1..Len(s), NEW j \in 1..Len(s[i])
    PROVE  /\ Len(f[i - 1]) \in Nat /\ Len(f[i - 1]) + j \in 1..Len(f[Len(s)])
           /\ f[Len(s)][Len(f[i - 1]) + j] = s[i][j]
<1> s \in Seq(Seq(X)) /\ f \in [0..Len(s) -> Seq(X)] /\ Joins(f, s)
  BY DEF JoinsIn
<1> DEFINE n == Len(s)
           p == Len(f[i - 1]) + j
           D == {k \in 0..n : k >= i => p \in 1..Len(f[k]) /\ f[k][p] = s[i][j]}
<1>1. n \in Nat /\ i \in 1..n /\ i - 1 \in 0..n /\ s[i] \in Seq(X)
  BY ElementIn
<1>2. f[i - 1] \in Seq(X) /\ Len(f[i - 1]) \in Nat /\ Len(s[i]) \in Nat /\ p \in Nat
  <2>1. f[i - 1] \in Seq(X)
    BY <1>1, ValueIn
  <2> QED
    BY <1>1, <2>1
<1>3. 0 \in D
  BY <1>1
<1>4. ASSUME NEW k \in 1..n, k - 1 \in D PROVE k \in D
  <2>1. k \in 1..Len(s) /\ k - 1 \in 0..n /\ k \in 0..n
    BY <1>1
  <2>2. f[k] = f[k - 1] \o s[k]
    BY <2>1, Zenon DEF Joins
  <2>3. f[k - 1] \in Seq(X) /\ s[k] \in Seq(X)
    BY <2>1, ValueIn, ElementIn
  <2> DEFINE a == f[k - 1]
             b == s[k]
  <2>4. Len(a) \in Nat /\ Len(b) \in Nat /\ Len(a \o b) = Len(a) + Len(b)
    BY <2>3
  <2>5. CASE k = i
    <3>1. p = Len(a) + j /\ j \in 1..Len(b)
      BY <2>5
    <3> HIDE DEF a, b, p
    <3>2. p \in 1..Len(a \o b) /\ (a \o b)[p] = b[j]
      <4>1. p \in 1..Len(a \o b)
        BY <2>4, <3>1
      <4>2. (a \o b)[p] = b[j]
        <5>1. a \in Seq(X) /\ b \in Seq(X)
          BY <2>3 DEF a, b
        <5> QED
          BY <3>1, <5>1, ConcatRight
      <4> QED
        BY <4>1, <4>2, Zenon
    <3> QED
      BY <2>1, <2>2, <2>5, <3>2 DEF a, b
  <2>6. CASE k > i
    <3>1. p \in 1..Len(a) /\ a[p] = s[i][j]
      BY <1>1, <1>4, <2>6
    <3> HIDE DEF a, b, p
    <3>2. p \in 1..Len(a \o b) /\ (a \o b)[p] = a[p]
      <4>1. p \in 1..Len(a \o b)
        BY <2>4, <3>1
      <4>2. (a \o b)[p] = a[p]
        <5>1. a \in Seq(X) /\ b \in Seq(X)
          BY <2>3 DEF a, b
        <5> QED
          BY <3>1, <5>1, ConcatLeft
      <4> QED
        BY <4>1, <4>2, Zenon
    <3> QED
      BY <2>1, <2>2, <3>1, <3>2 DEF a, b
  <2>7. CASE k < i
    BY <1>1, <2>1, <2>7
  <2> QED
    BY <1>1, <2>5, <2>6, <2>7
<1>5. \A k \in 0..n : k \in D
  <2> HIDE DEF D, n
  <2> QED
    BY <1>1, <1>3, <1>4, LoopInduction
<1>6. n \in D /\ n >= i
  BY <1>1, <1>5
<1> QED
  BY <1>2, <1>6

StandsAt(w, k, x) == k \in 1..Len(w) /\ w[k] = x
LEMMA FlattenPlace ==
    ASSUME NEW X, NEW s, NEW f, JoinsIn(f, s, X),
           NEW i \in 1..Len(s), NEW j \in 1..Len(s[i]), NEW k, k = Len(f[i - 1]) + j
    PROVE  StandsAt(f[Len(s)], k, s[i][j])
BY FlattenAt DEF StandsAt


LEMMA JoinsExist ==
    ASSUME NEW X, NEW s \in Seq(Seq(X))
    PROVE  \E f : JoinsIn(f, s, X) /\ FlattenSeq(s) = f[Len(s)]
BY FlattenJoins DEF JoinsIn

LEMMA FlattenOne ==
    ASSUME NEW X, NEW s \in Seq(Seq(X)), NEW i \in 1..Len(s), NEW x, s[i] = <<x>>
    PROVE  StandsAt(FlattenSeq(s), Len(FlattenSeq([j \in 1..i |-> s[j]])), x)
<1>1. PICK f : JoinsIn(f, s, X) /\ FlattenSeq(s) = f[Len(s)]
    BY JoinsExist
<1>2. i \in 0..Len(s) /\ i - 1 \in 0..Len(s)
    OBVIOUS
<1>3. FlattenSeq([j \in 1..i |-> s[j]]) = f[i]
    BY <1>1, <1>2, FlattenPrefix DEF JoinsIn
<1>4. f[i] = f[i - 1] \o s[i] /\ f[i - 1] \in Seq(X)
    BY <1>1, <1>2, ValueIn DEF JoinsIn, Joins
<1>5. s[i] \in Seq(X)
    BY ElementIn
<1>6. Len(s[i]) = 1 /\ s[i][1] = x /\ 1 \in 1..Len(s[i])
    OBVIOUS
<1>7. Len(f[i]) = Len(f[i - 1]) + 1
    BY <1>4, <1>5, <1>6, ConcatSeq
<1>8. StandsAt(f[Len(s)], Len(f[i]), s[i][1])
    BY <1>1, <1>6, <1>7, FlattenPlace
<1> QED
    BY <1>1, <1>3, <1>6, <1>8 DEF StandsAt


LEMMA FlattenShort ==
    ASSUME NEW X, NEW s \in Seq(Seq(X)), Len(s) <= 1
    PROVE  FlattenSeq(s) = IF s = <<>> THEN <<>> ELSE s[1]
<1>1. PICK f : JoinsIn(f, s, X) /\ FlattenSeq(s) = f[Len(s)]
    BY JoinsExist
<1>2. CASE Len(s) = 0
    <2>1. s = <<>> /\ f[0] = <<>>
        BY <1>1, <1>2 DEF JoinsIn, Joins
    <2> QED
        BY <1>1, <1>2, <2>1
<1>3. CASE Len(s) = 1
    <2>1. 1 \in 1..Len(s) /\ s # <<>> /\ 1 - 1 = 0
        BY <1>3
    <2>2. f[1] = f[0] \o s[1] /\ f[0] = <<>>
        BY <1>1, <2>1 DEF JoinsIn, Joins
    <2>3. s[1] \in Seq(X)
        BY <2>1, ElementIn
    <2>4. f[1] = s[1]
        BY <2>2, <2>3, EmptyFirst
    <2> QED
        BY <1>1, <1>3, <2>1, <2>4
<1>4. Len(s) = 0 \/ Len(s) = 1
    <2>1. Len(s) \in Nat
        OBVIOUS
    <2>2. \A m \in Nat : m <= 1 => m = 0 \/ m = 1
        OBVIOUS
    <2> QED
        BY <2>1, <2>2, Zenon
<1> QED
    BY <1>2, <1>3, <1>4, Zenon


\* Parts of the same lengths make concatenations of the same length.
LEMMA FlattenLens ==
    ASSUME NEW X, NEW s \in Seq(Seq(X)), NEW Y, NEW t \in Seq(Seq(Y)), Len(s) = Len(t),
           \A i \in 1..Len(s) : Len(s[i]) = Len(t[i])
    PROVE  Len(FlattenSeq(s)) = Len(FlattenSeq(t))
<1> DEFINE n == Len(s)
<1>1. n \in Nat
  OBVIOUS
<1>2. PICK f \in [0..n -> Seq(X)] : Joins(f, s) /\ FlattenSeq(s) = f[n]
  BY FlattenJoins
<1>3. PICK g \in [0..n -> Seq(Y)] : Joins(g, t) /\ FlattenSeq(t) = g[n]
  BY FlattenJoins
<1> DEFINE D == {i \in 0..n : Len(f[i]) = Len(g[i])}
<1>4. 0 \in D
  BY <1>1, <1>2, <1>3 DEF Joins
<1>5. ASSUME NEW i \in 1..n, i - 1 \in D PROVE i \in D
  <2>1. i - 1 \in 0..n /\ i \in 1..Len(s) /\ i \in 1..Len(t) /\ i \in 0..n
    BY <1>1
  <2>2. f[i] = f[i - 1] \o s[i]
    BY <1>2, <2>1, Zenon DEF Joins
  <2>3. g[i] = g[i - 1] \o t[i]
    BY <1>3, <2>1, Zenon DEF Joins
  <2>4. f[i - 1] \in Seq(X) /\ s[i] \in Seq(X) /\ g[i - 1] \in Seq(Y) /\ t[i] \in Seq(Y)
    BY <2>1, ValueIn, ElementIn
  <2>5. Len(f[i - 1] \o s[i]) = Len(f[i - 1]) + Len(s[i])
    BY <2>4
  <2>6. Len(g[i - 1] \o t[i]) = Len(g[i - 1]) + Len(t[i])
    BY <2>4
  <2>7. Len(f[i - 1]) = Len(g[i - 1]) /\ Len(s[i]) = Len(t[i])
    BY <1>5, <2>1
  <2>8. Len(f[i]) = Len(g[i])
    BY <2>2, <2>3, <2>5, <2>6, <2>7, Zenon
  <2> QED
    BY <2>1, <2>8
<1>6. \A i \in 0..n : i \in D
  <2> HIDE DEF D, n
  <2> QED
    BY <1>1, <1>4, <1>5, LoopInduction
<1> QED
  BY <1>1, <1>2, <1>3, <1>6

-----------------------------------------------------------------------------
(* Sequences taken element by element through a function.                  *)

Mapped(m, u) == [i \in 1..Len(u) |-> m[u[i]]]
Maps(m, X, Y) == \A x \in X : m[x] \in Y

LEMMA MappedSeq ==
    ASSUME NEW X, NEW Y, NEW m, Maps(m, X, Y), NEW u \in Seq(X)
    PROVE  Mapped(m, u) \in Seq(Y) /\ Len(Mapped(m, u)) = Len(u)
<1>1. \A i \in 1..Len(u) : m[u[i]] \in Y
  BY DEF Maps
<1>2. Len(u) \in Nat
  OBVIOUS
<1> QED
  BY <1>1, <1>2 DEF Mapped
LEMMA MappedAt ==
    ASSUME NEW m, NEW u, NEW i \in 1..Len(u)
    PROVE  Mapped(m, u)[i] = m[u[i]]
BY DEF Mapped

LEMMA MapConcat ==
    ASSUME NEW X, NEW Y, NEW m, Maps(m, X, Y), NEW u \in Seq(X), NEW v \in Seq(X)
    PROVE  Mapped(m, u \o v) = Mapped(m, u) \o Mapped(m, v)
<1> DEFINE a == Mapped(m, u)
           b == Mapped(m, v)
           uv == u \o v
           c == Mapped(m, uv)
           w == a \o b
<1>1. uv \in Seq(X) /\ Len(uv) = Len(u) + Len(v) /\ Len(u) \in Nat /\ Len(v) \in Nat
  BY ConcatSeq
<1> HIDE DEF uv
<1>2. a \in Seq(Y) /\ Len(a) = Len(u)
  BY MappedSeq
<1>3. b \in Seq(Y) /\ Len(b) = Len(v)
  BY MappedSeq
<1>4. c \in Seq(Y) /\ Len(c) = Len(uv)
  BY <1>1, MappedSeq
<1>5. w \in Seq(Y) /\ Len(w) = Len(a) + Len(b)
  <2> HIDE DEF a, b
  <2> QED
    BY <1>2, <1>3, ConcatSeq
<1>6. Len(c) = Len(w)
  <2> HIDE DEF a, b, c, w
  <2> QED
    BY <1>1, <1>2, <1>3, <1>4, <1>5
<1>7. ASSUME NEW i \in 1..Len(c) PROVE c[i] = w[i]
  <2>0. i \in 1..(Len(u) + Len(v)) /\ i \in 1..Len(uv)
    <3> HIDE DEF c
    <3> QED
      BY <1>1, <1>4
  <2>1. c[i] = m[uv[i]]
    BY <2>0, MappedAt
  <2>2. CASE i <= Len(u)
    <3>1. i \in 1..Len(u) /\ i \in 1..Len(a)
      <4> HIDE DEF a
      <4> QED
        BY <1>1, <1>2, <2>0, <2>2
    <3>2. uv[i] = u[i]
      BY <3>1, ConcatLeft DEF uv
    <3>3. w[i] = a[i]
      <4> HIDE DEF a, b
      <4> QED
        BY <1>2, <1>3, <3>1, ConcatLeft
    <3>4. a[i] = m[u[i]]
      BY <3>1, MappedAt
    <3> HIDE DEF a, b, c, w
    <3> QED
      BY <2>1, <3>2, <3>3, <3>4
  <2>3. CASE i > Len(u)
    <3> DEFINE j == i - Len(u)
    <3>1. j \in 1..Len(v) /\ i = Len(u) + j
      BY <1>1, <2>0, <2>3
    <3>2. j \in 1..Len(b) /\ i = Len(a) + j
      <4> HIDE DEF a, b
      <4> QED
        BY <1>2, <1>3, <3>1
    <3> HIDE DEF j
    <3>3. uv[i] = v[j]
      BY <3>1, ConcatRight DEF uv
    <3>4. w[i] = b[j]
      <4> HIDE DEF a, b
      <4> QED
        BY <1>2, <1>3, <3>2, ConcatRight
    <3>5. b[j] = m[v[j]]
      BY <3>1, MappedAt
    <3> HIDE DEF a, b, c, w
    <3> QED
      BY <2>1, <3>3, <3>4, <3>5
  <2> HIDE DEF c, w
  <2> QED
    BY <1>1, <2>0, <2>2, <2>3
<1>8. c = w
  <2> HIDE DEF c, w
  <2> QED
    BY <1>4, <1>5, <1>6, <1>7, SameElements
<1> QED
  BY <1>8 DEF a, b, c, w, uv

IsConcat(w, u, v) == w = u \o v
LEMMA MapIsConcat ==
    ASSUME NEW X, NEW Y, NEW m, Maps(m, X, Y), NEW u \in Seq(X), NEW v \in Seq(X), NEW w,
           IsConcat(w, u, v)
    PROVE  IsConcat(Mapped(m, w), Mapped(m, u), Mapped(m, v))
BY MapConcat DEF IsConcat

\* ... whole concatenations too.
LEMMA MapFlatten ==
    ASSUME NEW X, NEW Y, NEW m, Maps(m, X, Y), NEW s \in Seq(Seq(X)), NEW t, Len(t) = Len(s),
           t \in Seq(Seq(Y)), \A i \in 1..Len(s) : t[i] = Mapped(m, s[i])
    PROVE  Mapped(m, FlattenSeq(s)) = FlattenSeq(t)
<1> DEFINE n == Len(s)
<1>0. Maps(m, X, Y)
  OBVIOUS
<1>1. n \in Nat
  OBVIOUS
<1>2. PICK f \in [0..n -> Seq(X)] : Joins(f, s) /\ FlattenSeq(s) = f[n]
  BY FlattenJoins
<1>3. PICK g \in [0..n -> Seq(Y)] : Joins(g, t) /\ FlattenSeq(t) = g[n]
  BY FlattenJoins
<1> DEFINE D == {i \in 0..n : Mapped(m, f[i]) = g[i]}
<1>4. 0 \in D
  <2>1. f[0] = <<>> /\ g[0] = <<>>
    BY <1>2, <1>3 DEF Joins
  <2>2. Mapped(m, <<>>) = <<>>
    BY DEF Mapped
  <2> QED
    BY <1>1, <2>1, <2>2
<1>5. ASSUME NEW i \in 1..n, i - 1 \in D PROVE i \in D
  <2>1. i - 1 \in 0..n /\ i \in 1..Len(s) /\ i \in 1..Len(t) /\ i \in 0..n
    BY <1>1
  <2>2. f[i] = f[i - 1] \o s[i]
    BY <1>2, <2>1, Zenon DEF Joins
  <2>3. g[i] = g[i - 1] \o t[i]
    BY <1>3, <2>1, Zenon DEF Joins
  <2>4. f[i - 1] \in Seq(X) /\ s[i] \in Seq(X)
    BY <2>1, ValueIn, ElementIn
  <2>5. IsConcat(Mapped(m, f[i]), Mapped(m, f[i - 1]), Mapped(m, s[i]))
    <3>1. IsConcat(f[i], f[i - 1], s[i])
      BY <2>2 DEF IsConcat
    <3> QED
      BY <1>0, <2>4, <3>1, MapIsConcat, Zenon
  <2>6. Mapped(m, f[i - 1]) = g[i - 1] /\ t[i] = Mapped(m, s[i])
    BY <1>5, <2>1
  <2>7. Mapped(m, f[i]) = g[i]
    BY <2>3, <2>5, <2>6, Zenon DEF IsConcat
  <2> QED
    BY <2>1, <2>7
<1>6. \A i \in 0..n : i \in D
  <2> HIDE DEF D, n
  <2> QED
    BY <1>1, <1>4, <1>5, LoopInduction
<1> QED
  BY <1>1, <1>2, <1>3, <1>6
=============================================================================
