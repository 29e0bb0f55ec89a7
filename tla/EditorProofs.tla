---------------------------- MODULE EditorProofs ----------------------------
(***************************************************************************)
(* The language server shows what the workspace is worth.  The loops of a  *)
(* check (the paths it adds, the memo it fills, the names it hands out)    *)
(* are shown to compute what LanguageServer reads off the disk and the     *)
(* buffers without a loop; the memos are shown to be current whenever      *)
(* their signatures are; and both together give MemosInvisible, for every  *)
(* set of paths, files, texts and bounds.                                  *)
(***************************************************************************)
EXTENDS LanguageServer, Sums

-----------------------------------------------------------------------------
(* The inductive invariant.                                                *)

Phases == {"idle", "exited", "targets", "stat", "read", "schema", "load", "record",
           "resolve"}
Cat == [fp : Schemas \cup {None}, gen : {0, 1}]
Check == [res : SUBSET Glob, sources : [Paths -> Contents \cup {None}],
          diags : [Keys -> SUBSET ToSet(Kinds)], dup : SUBSET (Paths \X Names),
          sig : Nat, cat : Cat]

ServerTypes ==
    /\ writes \in Nat /\ dirSig \in 0..writes
    /\ disk \in [Files -> Contents \cup {Locked, None}]
    /\ schema \in [text : Schemas, sig : 0..writes]
    /\ catalog \in [fp : Schemas \cup {None}, gen : {0, 1}, sig : 0..writes]
    /\ pc \in Phases
    /\ overlay \in [Paths -> Contents \cup {None}]
    /\ memo \in [Paths -> Contents \cup {None}]
    /\ check \in Check /\ check.sig \in 0..writes
    /\ dirty \in BOOLEAN

\* The resolution a check uses is the one of the disk, and so is the one in
\* the memo as long as the directories' signature is the memoized one.
TargetsSound ==
    /\ pc \in {"stat", "read", "schema", "load", "record", "resolve"} =>
          check.res = Resolution
    /\ tgtMemo # None =>
          /\ tgtMemo \in [sig : 0..writes, res : SUBSET Glob]
          /\ tgtMemo.sig = dirSig => tgtMemo.res = Resolution

\* The catalog the files hold for the schema they hold.
CatNow == IF catalog.fp = schema.text THEN [fp |-> catalog.fp, gen |-> catalog.gen]
          ELSE NoCatalog

CatalogSound ==
    /\ catMemo # None =>
          /\ catMemo \in [schema : 0..writes, sig : 0..writes, cat : Cat]
          /\ catMemo.schema = schema.sig /\ catMemo.sig = catalog.sig => catMemo.cat = CatNow
    /\ pc \in {"load", "record"} /\ ~dirty => check.sig = schema.sig
    /\ pc = "record" /\ check.sig = schema.sig => check.cat = CatNow
    /\ pc = "resolve" /\ ~dirty => check.cat = CatNow

\* What the per-file and the workspace phase find, without a loop.
SourcesNow == [p \in Paths |-> IF p \in Sound(Texts) THEN Texts[p] ELSE None]
DupNow == {e \in Paths \X Names : e[1] \in Sound(Texts) /\ e[2] \in Taken(Texts, e[1])}
DiagsNow == [k \in Keys |->
                CASE k = Config -> When(Resolution = {}, "targets")
                  [] k \in Sound(Texts) -> WithoutCatalog(Texts, k)
                  [] OTHER -> When(k \in DOMAIN Texts, "unreadable")]

\* The analyses a check got are those of the texts it read, and unless
\* something was written since it began, those are the ones there are.
FilesSound ==
    pc \in {"schema", "load", "record", "resolve"} =>
        /\ \A p \in Checked : memo[p] \in {None, check.sources[p]}
        /\ ~dirty => /\ check.sources = SourcesNow
                     /\ check.dup = DupNow
                     /\ check.diags = DiagsNow

ServerInv == /\ ServerTypes /\ TargetsSound /\ CatalogSound /\ FilesSound
             /\ NothingForgotten /\ MemosInvisible

\* The two windows of the checker in which a write goes unnoticed: a file that
\* appears between the walk and the look at its directories, and a catalog
\* rewritten between its load and the look at its signature.
NoUnseenWrites == "dirs" \notin Races /\ "catalog" \notin Races
-----------------------------------------------------------------------------
(* Paths.                                                                  *)

N == Len(Order)

\* The order lists every path once.
LEMMA OrderFacts ==
    /\ N \in Nat /\ DOMAIN Order = 1..N
    /\ \A i \in 1..N : Order[i] \in Paths
    /\ \A p \in Paths : /\ Rank[p] \in 1..N /\ Order[Rank[p]] = p
                        /\ \A i \in 1..N : Order[i] = p => i = Rank[p]
<1>1. Order \in Seq(ToSet(Order)) /\ IsInjective(Order)
  BY ServerAssumption
<1>2. N \in Nat /\ DOMAIN Order = 1..N
  BY <1>1 DEF N
<1>3. \A i \in 1..N : Order[i] \in Paths
  BY <1>2 DEF Paths, ToSet
<1>4. \A i, j \in 1..N : Order[i] = Order[j] => i = j
  BY <1>1, <1>2 DEF IsInjective
<1>5. ASSUME NEW p \in Paths
      PROVE  /\ Rank[p] \in 1..N /\ Order[Rank[p]] = p
             /\ \A i \in 1..N : Order[i] = p => i = Rank[p]
  <2>1. \E i \in 1..N : Order[i] = p
    BY <1>2 DEF Paths, ToSet
  <2>2. Rank[p] = CHOOSE i \in 1..N : Order[i] = p
    BY <1>2 DEF Rank
  <2>3. Rank[p] \in 1..N /\ Order[Rank[p]] = p
    BY <2>1, <2>2
  <2> QED
    BY <1>4, <2>3
<1> QED
  BY <1>2, <1>3, <1>5

\* g is the function behind Added(S, base).
IsAdded(g, S, base) ==
    g = [i \in 0..N |->
            IF i = 0 THEN base
            ELSE IF Order[i] \in S /\ \A r \in g[i - 1] : File[r] # File[Order[i]]
                 THEN g[i - 1] \cup {Order[i]} ELSE g[i - 1]]

\* The loop that adds paths (offline.go, add) runs to its end.
LEMMA AddedRuns ==
    ASSUME NEW S, NEW base \in SUBSET Paths
    PROVE  \E g : IsAdded(g, S, base) /\ Added(S, base) = g[N]
<1>1. Added(S, base) = (CHOOSE g : IsAdded(g, S, base))[N]
  BY DEF Added, IsAdded, N
<1>2. \E g : IsAdded(g, S, base)
  <2> DEFINE X == SUBSET Paths
             round == [i \in 1..N |-> [A \in X |->
                         IF Order[i] \in S /\ \A r \in A : File[r] # File[Order[i]]
                         THEN A \cup {Order[i]} ELSE A]]
  <2>1. N \in Nat /\ \A i \in 1..N : Order[i] \in Paths
    BY OrderFacts
  <2>2. round \in [1..N -> [X -> X]]
    BY <2>1
  <2>3. \A i \in 1..N : \A A \in X :
           round[i][A] = IF Order[i] \in S /\ \A r \in A : File[r] # File[Order[i]]
                         THEN A \cup {Order[i]} ELSE A
    OBVIOUS
  <2>4. base \in X
    OBVIOUS
  <2> HIDE DEF round, X
  <2>5. PICK f \in [0..N -> X] : Runs(f, N, base, round)
    BY <2>1, <2>2, <2>4, LoopRuns
  <2>6. \A i \in 1..N : i - 1 \in 0..N /\ f[i - 1] \in X /\ f[i] = round[i][f[i - 1]]
    BY <2>1, <2>5 DEF Runs
  <2>7. \A i \in 0..N :
           f[i] = IF i = 0 THEN base
                  ELSE IF Order[i] \in S /\ \A r \in f[i - 1] : File[r] # File[Order[i]]
                       THEN f[i - 1] \cup {Order[i]} ELSE f[i - 1]
    <3>1. f[0] = base
      BY <2>5 DEF Runs
    <3>2. \A i \in 0..N : i # 0 => i \in 1..N
      BY <2>1
    <3> QED
      BY <2>3, <2>6, <3>1, <3>2
  <2>8. IsAdded(f, S, base)
    BY <2>5, <2>7 DEF IsAdded
  <2> QED
    BY <2>8
<1>3. IsAdded(CHOOSE g : IsAdded(g, S, base), S, base)
  BY <1>2, Zenon
<1> QED
  BY <1>1, <1>3

\* No path before p, among those added or to add, leads to p's file.
Fresh(p, S, base) ==
    /\ \A r \in base : File[r] # File[p]
    /\ \A r \in S : Rank[r] < Rank[p] => File[r] # File[p]

\* The add loop keeps what was there and, of the rest, the first path to each
\* file; every path's file is reached.
LEMMA AddedIs ==
    ASSUME NEW S \in SUBSET Paths, NEW base \in SUBSET Paths
    PROVE  /\ Added(S, base) = base \cup {p \in S : Fresh(p, S, base)}
           /\ \A r \in S : \E q \in Added(S, base) : File[q] = File[r]
<1>1. PICK g : IsAdded(g, S, base) /\ Added(S, base) = g[N]
  BY AddedRuns
<1>2. N \in Nat
  BY OrderFacts
<1> DEFINE So(i) == base \cup {p \in S : Rank[p] <= i /\ Fresh(p, S, base)}
           Good(i) == /\ g[i] = So(i)
                      /\ \A r \in S : Rank[r] <= i => \E q \in g[i] : File[q] = File[r]
           D == {i \in 0..N : Good(i)}
<1>3. 0 \in D
  <2>1. g[0] = base
    BY <1>1, <1>2 DEF IsAdded
  <2>2. \A r \in S : ~(Rank[r] <= 0)
    BY OrderFacts
  <2>3. Good(0)
    BY <2>1, <2>2
  <2> QED
    BY <1>2, <2>3
<1>4. ASSUME NEW i \in 1..N, i - 1 \in D PROVE i \in D
  <2> DEFINE p == Order[i]
  <2>1. /\ p \in Paths /\ Rank[p] = i /\ i - 1 \in 0..N /\ i \in 0..N /\ i # 0
        /\ \A q \in Paths : Rank[q] \in 1..N /\ (Rank[q] = i => q = p)
    BY <1>2, OrderFacts
  <2>2. \A q \in Paths : (Rank[q] <= i <=> Rank[q] <= i - 1 \/ q = p)
    BY <2>1, <1>2
  <2>3. \A q \in Paths : Rank[q] <= i - 1 <=> Rank[q] < Rank[p]
    BY <2>1, <1>2
  <2>4. g[i] = IF p \in S /\ \A r \in g[i - 1] : File[r] # File[p]
               THEN g[i - 1] \cup {p} ELSE g[i - 1]
    BY <1>1, <2>1 DEF IsAdded
  <2>5. /\ g[i - 1] = So(i - 1)
        /\ \A r \in S : Rank[r] <= i - 1 => \E q \in g[i - 1] : File[q] = File[r]
    BY <1>4
  <2> HIDE DEF p
  <2>6. CASE p \in S /\ \A r \in g[i - 1] : File[r] # File[p]
    <3>1. Fresh(p, S, base)
      BY <2>3, <2>5, <2>6 DEF Fresh
    <3>2. So(i) = So(i - 1) \cup {p}
      BY <2>2, <2>6, <3>1
    <3>3. g[i] = So(i)
      BY <2>4, <2>5, <2>6, <3>2
    <3>4. \A r \in S : Rank[r] <= i => \E q \in g[i] : File[q] = File[r]
      BY <2>2, <2>4, <2>5, <2>6
    <3> QED
      BY <2>1, <3>3, <3>4
  <2>7. CASE p \in S /\ \E r \in g[i - 1] : File[r] = File[p]
    <3>1. PICK r \in g[i - 1] : File[r] = File[p]
      BY <2>7
    <3>2. ~Fresh(p, S, base)
      BY <2>3, <2>5, <3>1 DEF Fresh
    <3>3. So(i) = So(i - 1)
      BY <2>2, <3>2
    <3>4. g[i] = So(i)
      BY <2>4, <2>5, <2>7, <3>3
    <3>5. \A q \in S : Rank[q] <= i => \E t \in g[i] : File[t] = File[q]
      BY <2>2, <2>4, <2>5, <2>7
    <3> QED
      BY <2>1, <3>4, <3>5
  <2>8. CASE p \notin S
    <3>1. So(i) = So(i - 1)
      BY <2>2, <2>8
    <3>2. g[i] = So(i)
      BY <2>4, <2>5, <2>8, <3>1
    <3>3. \A q \in S : Rank[q] <= i => \E t \in g[i] : File[t] = File[q]
      BY <2>2, <2>4, <2>5, <2>8
    <3> QED
      BY <2>1, <3>2, <3>3
  <2> QED
    BY <2>6, <2>7, <2>8
<1>5. Good(N)
  <2>1. \A i \in 0..N : i \in D
    <3> HIDE DEF D
    <3> QED
      BY <1>2, <1>3, <1>4, LoopInduction
  <2> QED
    BY <1>2, <2>1
<1>6. \A p \in S : Rank[p] <= N
  BY OrderFacts
<1> QED
  BY <1>1, <1>5, <1>6

\* The paths a check works on are those of the texts of the workspace.
LEMMA FilesAre == FilesOf(Resolution) = DOMAIN Texts
<1> DEFINE opened == {p \in Open : ~\E r \in Open : File[r] = File[p] /\ Rank[r] < Rank[p]}
           matched == {p \in Resolution : ~\E r \in Open : File[r] = File[p]}
<1>1. DOMAIN Texts = opened \cup matched
  BY DEF Texts
<1>2. Open \in SUBSET Paths /\ Resolution \in SUBSET Paths /\ Resolution \subseteq Glob
  BY ServerAssumption DEF Open, Resolution
<1>3. /\ Added(Open, {}) = opened
      /\ \A r \in Open : \E q \in opened : File[q] = File[r]
  <2>1. /\ Added(Open, {}) = {} \cup {p \in Open : Fresh(p, Open, {})}
        /\ \A r \in Open : \E q \in Added(Open, {}) : File[q] = File[r]
    BY <1>2, AddedIs
  <2>2. {p \in Open : Fresh(p, Open, {})} = opened
    BY DEF Fresh
  <2> QED
    BY <2>1, <2>2
<1>4. opened \in SUBSET Paths /\ opened \subseteq Open
  BY <1>2
<1> HIDE DEF opened
<1>5. Added(Resolution, opened) = opened \cup {p \in Resolution : Fresh(p, Resolution, opened)}
  BY <1>2, <1>4, AddedIs
<1>6. ASSUME NEW p \in Resolution, NEW r \in Resolution, Rank[r] < Rank[p]
      PROVE  File[r] # File[p]
  <2>1. r # p
    BY <1>2, <1>6, OrderFacts
  <2> QED
    BY <1>2, <2>1, ServerAssumption
<1>7. {p \in Resolution : Fresh(p, Resolution, opened)} = matched
  BY <1>3, <1>4, <1>6 DEF Fresh
<1> QED
  BY <1>1, <1>3, <1>5, <1>7 DEF FilesOf

-----------------------------------------------------------------------------
(* The memo of the analyses.                                               *)

Memos == [Paths -> Contents \cup {None}]

\* An analysis leaves the memo of its path current, and of every other path
\* as it was or cleared.
LEMMA AnalyzeIs ==
    ASSUME NEW mm \in Memos, NEW p \in Paths, NEW src \in Contents
    PROVE  /\ Analyze(mm, p, src) \in Memos
           /\ Analyze(mm, p, src)[p] = src
           /\ \A q \in Paths : q # p => Analyze(mm, p, src)[q] \in {None, mm[q]}
<1> DEFINE full == mm[p] = None /\ Cardinality({r \in Paths : mm[r] # None}) >= MaxMemo
<1>1. Analyze(mm, p, src) = IF mm[p] = src THEN mm
                            ELSE IF full THEN [r \in Paths |-> IF r = p THEN src ELSE None]
                            ELSE [mm EXCEPT ![p] = src]
  BY DEF Analyze
<1> HIDE DEF full
<1> QED
  BY <1>1 DEF Memos

\* g is the function behind Analyzed(good).
IsAnalyzed(g, good) ==
    g = [i \in 0..N |->
            IF i = 0 THEN memo
            ELSE IF Order[i] \in good THEN Analyze(g[i - 1], Order[i], Source(Order[i]))
            ELSE g[i - 1]]

\* The loop over the files (offline.go, per-file phase) runs to its end.
LEMMA AnalyzedRuns ==
    ASSUME memo \in Memos, NEW good, \A p \in good : Source(p) \in Contents
    PROVE  \E g : IsAnalyzed(g, good) /\ Analyzed(good) = g[N]
<1>1. Analyzed(good) = (CHOOSE g : IsAnalyzed(g, good))[N]
  BY DEF Analyzed, IsAnalyzed, N
<1>2. \E g : IsAnalyzed(g, good)
  <2> DEFINE round == [i \in 1..N |-> [m \in Memos |->
                         IF Order[i] \in good THEN Analyze(m, Order[i], Source(Order[i])) ELSE m]]
  <2>1. N \in Nat /\ \A i \in 1..N : Order[i] \in Paths
    BY OrderFacts
  <2>2. round \in [1..N -> [Memos -> Memos]]
    BY <2>1, AnalyzeIs
  <2>3. \A i \in 1..N : \A m \in Memos :
           round[i][m] = IF Order[i] \in good THEN Analyze(m, Order[i], Source(Order[i])) ELSE m
    OBVIOUS
  <2> HIDE DEF round
  <2>5. PICK f \in [0..N -> Memos] : Runs(f, N, memo, round)
    BY <2>1, <2>2, LoopRuns
  <2>6. \A i \in 1..N : i - 1 \in 0..N /\ f[i - 1] \in Memos /\ f[i] = round[i][f[i - 1]]
    BY <2>1, <2>5 DEF Runs
  <2>7. \A i \in 0..N :
           f[i] = IF i = 0 THEN memo
                  ELSE IF Order[i] \in good
                       THEN Analyze(f[i - 1], Order[i], Source(Order[i])) ELSE f[i - 1]
    <3>1. f[0] = memo
      BY <2>5 DEF Runs
    <3>2. \A i \in 0..N : i # 0 => i \in 1..N
      BY <2>1
    <3> QED
      BY <2>3, <2>6, <3>1, <3>2
  <2>8. IsAnalyzed(f, good)
    BY <2>5, <2>7 DEF IsAnalyzed
  <2> QED
    BY <2>8
<1>3. IsAnalyzed(CHOOSE g : IsAnalyzed(g, good), good)
  BY <1>2, Zenon
<1> QED
  BY <1>1, <1>3

\* After the per-file phase the memo of a path that was read is its text or
\* was cleared for a later path, whatever was in it before.
LEMMA AnalyzedIs ==
    ASSUME memo \in Memos, NEW good \in SUBSET Paths,
           \A p \in good : Source(p) \in Contents
    PROVE  /\ Analyzed(good) \in Memos
           /\ \A p \in good : Analyzed(good)[p] \in {None, Source(p)}
<1>1. PICK g : IsAnalyzed(g, good) /\ Analyzed(good) = g[N]
  BY AnalyzedRuns
<1>2. N \in Nat
  BY OrderFacts
<1> DEFINE Good(i) == /\ g[i] \in Memos
                      /\ \A p \in good : Rank[p] <= i => g[i][p] \in {None, Source(p)}
           D == {i \in 0..N : Good(i)}
<1>3. 0 \in D
  <2>1. g[0] = memo
    BY <1>1, <1>2 DEF IsAnalyzed
  <2>2. \A r \in good : ~(Rank[r] <= 0)
    BY OrderFacts
  <2> QED
    BY <1>2, <2>1, <2>2
<1>4. ASSUME NEW i \in 1..N, i - 1 \in D PROVE i \in D
  <2> DEFINE p == Order[i]
  <2>1. /\ p \in Paths /\ i - 1 \in 0..N /\ i \in 0..N /\ i # 0
        /\ \A q \in Paths : Rank[q] \in 1..N /\ (Rank[q] = i => q = p)
    BY <1>2, OrderFacts
  <2>2. \A q \in Paths : Rank[q] <= i => Rank[q] <= i - 1 \/ q = p
    BY <2>1, <1>2
  <2>3. g[i] = IF p \in good THEN Analyze(g[i - 1], p, Source(p)) ELSE g[i - 1]
    BY <1>1, <2>1 DEF IsAnalyzed
  <2>4. Good(i - 1)
    BY <1>4
  <2> HIDE DEF p
  <2>5. CASE p \in good
    <3>1. /\ g[i] \in Memos /\ g[i][p] = Source(p)
          /\ \A q \in Paths : q # p => g[i][q] \in {None, g[i - 1][q]}
      BY <2>1, <2>3, <2>4, <2>5, AnalyzeIs
    <3> QED
      BY <2>1, <2>2, <2>4, <3>1
  <2>6. CASE p \notin good
    BY <2>1, <2>2, <2>3, <2>4, <2>6
  <2> QED
    BY <2>5, <2>6
<1>5. Good(N)
  <2>1. \A i \in 0..N : i \in D
    <3> HIDE DEF D
    <3> QED
      BY <1>2, <1>3, <1>4, LoopInduction
  <2> QED
    BY <1>2, <2>1
<1>6. \A p \in good : Rank[p] <= N
  BY OrderFacts
<1> QED
  BY <1>1, <1>5, <1>6

-----------------------------------------------------------------------------
(* The names the files define.                                             *)

Scopes(res) == {Scope(res, p) : p \in Paths}

\* The names handed out, and those claimed again, by the first i paths.
NamesAt(res, good, text, i) ==
    {e \in Scopes(res) \X Names :
        \E r \in good : Rank[r] <= i /\ Scope(res, r) = e[1] /\ e[2] \in text[r].queries}
DupAt(res, good, text, i) ==
    {e \in Paths \X Names :
        /\ e[1] \in good /\ Rank[e[1]] <= i /\ e[2] \in text[e[1]].queries
        /\ \E r \in good : /\ Rank[r] < Rank[e[1]] /\ e[2] \in text[r].queries
                           /\ Scope(res, r) = Scope(res, e[1])}

Own(res, text, p) == {Scope(res, p)} \X text[p].queries

\* A path that was read claims its own names against those before it.
LEMMA ClaimStep ==
    ASSUME NEW res, NEW good \in SUBSET Paths, NEW text,
           \A p \in good : text[p].queries \subseteq Names,
           NEW i \in 1..N, Order[i] \in good
    PROVE  /\ NamesAt(res, good, text, i)
                = NamesAt(res, good, text, i - 1) \cup Own(res, text, Order[i])
           /\ DupAt(res, good, text, i)
                = DupAt(res, good, text, i - 1)
                  \cup {<<Order[i], e[2]>> :
                           e \in Own(res, text, Order[i]) \cap NamesAt(res, good, text, i - 1)}
<1> DEFINE p == Order[i]
<1>1. N \in Nat
  BY OrderFacts
<1>2. /\ p \in Paths /\ Rank[p] = i
      /\ \A q \in Paths : Rank[q] \in 1..N /\ (Rank[q] = i => q = p)
  BY OrderFacts
<1>3. \A q \in Paths : /\ Rank[q] <= i <=> Rank[q] <= i - 1 \/ q = p
                       /\ Rank[q] <= i - 1 <=> Rank[q] < Rank[p]
  BY <1>1, <1>2
<1> HIDE DEF p
<1>4. Scope(res, p) \in Scopes(res)
  BY <1>2 DEF Scopes
<1>5. p \in good
  BY DEF p
<1>6. NamesAt(res, good, text, i) = NamesAt(res, good, text, i - 1) \cup Own(res, text, p)
  <2>1. ASSUME NEW e \in NamesAt(res, good, text, i)
        PROVE  e \in NamesAt(res, good, text, i - 1) \/ e \in Own(res, text, p)
    BY <1>3 DEF NamesAt, Own
  <2>2. ASSUME NEW e \in NamesAt(res, good, text, i - 1) PROVE e \in NamesAt(res, good, text, i)
    BY <1>3 DEF NamesAt
  <2>3. ASSUME NEW e \in Own(res, text, p) PROVE e \in NamesAt(res, good, text, i)
    <3>1. e \in Scopes(res) \X Names /\ e[1] = Scope(res, p) /\ e[2] \in text[p].queries
      BY <1>4, <1>5 DEF Own
    <3> QED
      BY <1>2, <1>3, <1>5, <3>1 DEF NamesAt
  <2> QED
    BY <2>1, <2>2, <2>3
<1> DEFINE Again == {<<p, e[2]>> : e \in Own(res, text, p) \cap NamesAt(res, good, text, i - 1)}
<1>7. DupAt(res, good, text, i) = DupAt(res, good, text, i - 1) \cup Again
  <2>1. ASSUME NEW n \in text[p].queries
        PROVE  <<Scope(res, p), n>> \in NamesAt(res, good, text, i - 1) <=>
               \E r \in good : /\ Rank[r] < Rank[p] /\ n \in text[r].queries
                               /\ Scope(res, r) = Scope(res, p)
    <3>1. <<Scope(res, p), n>> \in Scopes(res) \X Names
      BY <1>4, <1>5
    <3> QED
      BY <1>3, <3>1 DEF NamesAt
  <2>2. \A e : e \in Again <=>
           \E n \in text[p].queries :
              e = <<p, n>> /\ <<Scope(res, p), n>> \in NamesAt(res, good, text, i - 1)
    <3>1. ASSUME NEW e \in Again
          PROVE  \E n \in text[p].queries :
                    e = <<p, n>> /\ <<Scope(res, p), n>> \in NamesAt(res, good, text, i - 1)
      BY DEF Own
    <3>2. ASSUME NEW e, NEW n \in text[p].queries, e = <<p, n>>,
                 <<Scope(res, p), n>> \in NamesAt(res, good, text, i - 1)
          PROVE  e \in Again
      <4>1. <<Scope(res, p), n>> \in Own(res, text, p)
        BY DEF Own
      <4>2. <<Scope(res, p), n>>[2] = n
        OBVIOUS
      <4> QED
        BY <3>2, <4>1, <4>2
    <3> QED
      BY <3>1, <3>2
  <2> HIDE DEF Again
  <2>3. ASSUME NEW e \in DupAt(res, good, text, i)
        PROVE  e \in DupAt(res, good, text, i - 1) \/ e \in Again
    <3>1. CASE e[1] = p
      <4>1. e = <<p, e[2]>> /\ e[2] \in text[p].queries
        BY <3>1 DEF DupAt
      <4>2. <<Scope(res, p), e[2]>> \in NamesAt(res, good, text, i - 1)
        BY <2>1, <3>1, <4>1 DEF DupAt
      <4> QED
        BY <2>2, <4>1, <4>2
    <3>2. CASE e[1] # p
      BY <1>3, <3>2 DEF DupAt
    <3> QED
      BY <3>1, <3>2
  <2>4. ASSUME NEW e \in DupAt(res, good, text, i - 1) PROVE e \in DupAt(res, good, text, i)
    BY <1>3 DEF DupAt
  <2>5. ASSUME NEW e \in Again PROVE e \in DupAt(res, good, text, i)
    <3>1. PICK n \in text[p].queries :
             e = <<p, n>> /\ <<Scope(res, p), n>> \in NamesAt(res, good, text, i - 1)
      BY <2>2
    <3>2. e \in Paths \X Names /\ e[1] = p /\ e[2] = n
      BY <1>2, <1>5, <3>1
    <3> QED
      BY <1>2, <1>3, <1>5, <2>1, <3>1, <3>2 DEF DupAt
  <2> QED
    BY <2>3, <2>4, <2>5
<1> QED
  BY <1>6, <1>7 DEF p

\* A path that was not read claims nothing.
LEMMA SkipStep ==
    ASSUME NEW res, NEW good \in SUBSET Paths, NEW text,
           NEW i \in 1..N, Order[i] \notin good
    PROVE  /\ NamesAt(res, good, text, i) = NamesAt(res, good, text, i - 1)
           /\ DupAt(res, good, text, i) = DupAt(res, good, text, i - 1)
<1>1. N \in Nat
  BY OrderFacts
<1>2. \A q \in Paths : Rank[q] \in 1..N /\ (Rank[q] = i => q = Order[i])
  BY OrderFacts
<1>3. \A q \in good : Rank[q] <= i <=> Rank[q] <= i - 1
  BY <1>1, <1>2
<1> QED
  BY <1>3 DEF NamesAt, DupAt

\* g is the function behind Claims(res, good, text).
IsClaims(g, res, good, text) ==
    g = [i \in 0..N |->
            IF i = 0 THEN [names |-> {}, dup |-> {}]
            ELSE IF Order[i] \notin good THEN g[i - 1]
            ELSE [names |-> g[i - 1].names \cup Own(res, text, Order[i]),
                  dup |-> g[i - 1].dup
                          \cup {<<Order[i], e[2]>> :
                                   e \in Own(res, text, Order[i]) \cap g[i - 1].names}]]

\* The loop over the files flags exactly the names that a file before it in
\* its scope defines.
LEMMA ClaimsAre ==
    ASSUME NEW res, NEW good \in SUBSET Paths, NEW text,
           \A p \in good : text[p].queries \subseteq Names
    PROVE  Claims(res, good, text) = DupAt(res, good, text, N)
<1>1. Claims(res, good, text) = (CHOOSE g : IsClaims(g, res, good, text))[N].dup
  BY DEF Claims, IsClaims, Own, N
<1>2. N \in Nat
  BY OrderFacts
<1> DEFINE At(i) == [names |-> NamesAt(res, good, text, i), dup |-> DupAt(res, good, text, i)]
<1>3. At(0) = [names |-> {}, dup |-> {}]
  <2>1. \A r \in Paths : ~(Rank[r] <= 0)
    BY OrderFacts
  <2>2. NamesAt(res, good, text, 0) = {} /\ DupAt(res, good, text, 0) = {}
    BY <2>1 DEF NamesAt, DupAt
  <2> QED
    BY <2>2
<1>4. ASSUME NEW i \in 1..N
      PROVE  At(i) = IF Order[i] \notin good THEN At(i - 1)
                     ELSE [names |-> At(i - 1).names \cup Own(res, text, Order[i]),
                           dup |-> At(i - 1).dup
                                   \cup {<<Order[i], e[2]>> :
                                            e \in Own(res, text, Order[i]) \cap At(i - 1).names}]
  <2>1. CASE Order[i] \notin good
    BY <2>1, SkipStep
  <2>2. CASE Order[i] \in good
    <3> DEFINE own == Own(res, text, Order[i])
               nn == NamesAt(res, good, text, i - 1)
               dd == DupAt(res, good, text, i - 1)
    <3>1. /\ NamesAt(res, good, text, i) = nn \cup own
          /\ DupAt(res, good, text, i) = dd \cup {<<Order[i], e[2]>> : e \in own \cap nn}
      BY <2>2, ClaimStep
    <3>2. At(i - 1).names = nn /\ At(i - 1).dup = dd
      OBVIOUS
    <3>3. At(i) = [names |-> nn \cup own,
                   dup |-> dd \cup {<<Order[i], e[2]>> : e \in own \cap nn}]
      BY <3>1, Zenon
    <3> HIDE DEF nn, dd, own, At
    <3> QED
      BY <2>2, <3>2, <3>3, Zenon DEF own
  <2> QED
    BY <2>1, <2>2
<1> HIDE DEF At
<1>5. \E g : IsClaims(g, res, good, text)
  <2> DEFINE f == [i \in 0..N |-> At(i)]
  <2>1. \A i \in 1..N : i - 1 \in 0..N
    BY <1>2
  <2>2. \A i \in 0..N :
           At(i) = IF i = 0 THEN [names |-> {}, dup |-> {}]
                   ELSE IF Order[i] \notin good THEN f[i - 1]
                   ELSE [names |-> f[i - 1].names \cup Own(res, text, Order[i]),
                         dup |-> f[i - 1].dup
                                 \cup {<<Order[i], e[2]>> :
                                          e \in Own(res, text, Order[i]) \cap f[i - 1].names}]
    <3> SUFFICES ASSUME NEW i \in 0..N, i # 0
                 PROVE  At(i) = IF Order[i] \notin good THEN f[i - 1]
                   ELSE [names |-> f[i - 1].names \cup Own(res, text, Order[i]),
                         dup |-> f[i - 1].dup
                                 \cup {<<Order[i], e[2]>> :
                                          e \in Own(res, text, Order[i]) \cap f[i - 1].names}]
      BY <1>3
    <3>1. i \in 1..N /\ f[i - 1] = At(i - 1)
      BY <1>2, <2>1
    <3> HIDE DEF f
    <3> QED
      BY <1>4, <3>1
  <2>3. IsClaims(f, res, good, text)
    BY <2>2 DEF IsClaims
  <2> QED
    BY <2>3
<1> DEFINE g == CHOOSE h : IsClaims(h, res, good, text)
<1>6. IsClaims(g, res, good, text)
  BY <1>5, Zenon
<1> HIDE DEF g
<1> DEFINE D == {i \in 0..N : g[i] = At(i)}
<1>7. 0 \in D
  BY <1>2, <1>3, <1>6 DEF IsClaims
<1>8. ASSUME NEW i \in 1..N, i - 1 \in D PROVE i \in D
  <2>1. i \in 0..N /\ i # 0 /\ g[i - 1] = At(i - 1)
    BY <1>2, <1>8
  <2>2. g[i] = IF Order[i] \notin good THEN g[i - 1]
               ELSE [names |-> g[i - 1].names \cup Own(res, text, Order[i]),
                     dup |-> g[i - 1].dup
                             \cup {<<Order[i], e[2]>> :
                                      e \in Own(res, text, Order[i]) \cap g[i - 1].names}]
    BY <1>6, <2>1 DEF IsClaims
  <2>3. g[i] = At(i)
    BY <1>4, <2>1, <2>2
  <2> QED
    BY <2>1, <2>3
<1>9. g[N] = At(N)
  <2>1. \A i \in 0..N : i \in D
    <3> HIDE DEF D
    <3> QED
      BY <1>2, <1>7, <1>8, LoopInduction
  <2> QED
    BY <1>2, <2>1
<1>10. At(N).dup = DupAt(res, good, text, N)
  BY DEF At
<1> QED
  BY <1>1, <1>9, <1>10 DEF g

-----------------------------------------------------------------------------
(* What a check reads.                                                     *)

\* The texts of the workspace are the sources of their paths.
LEMMA TextsAre ==
    ASSUME ServerTypes
    PROVE  /\ DOMAIN Texts \subseteq Paths
           /\ \A p \in DOMAIN Texts : /\ Texts[p] = Source(p)
                                      /\ Texts[p] \in Contents \cup {Locked}
           /\ Sound(Texts) = {p \in FilesOf(Resolution) : Readable(p)}
<1> DEFINE opened == {p \in Open : ~\E r \in Open : File[r] = File[p] /\ Rank[r] < Rank[p]}
           matched == {p \in Resolution : ~\E r \in Open : File[r] = File[p]}
<1>1. /\ DOMAIN Texts = opened \cup matched
      /\ \A p \in DOMAIN Texts : Texts[p] = IF p \in Open THEN overlay[p] ELSE disk[File[p]]
  BY DEF Texts
<1>2. Glob \subseteq Paths
  BY ServerAssumption
<1>3. DOMAIN Texts \subseteq Paths
  BY <1>1, <1>2 DEF Open, Resolution
<1>4. ASSUME NEW p \in DOMAIN Texts
      PROVE  Texts[p] = Source(p) /\ Texts[p] \in Contents \cup {Locked}
  <2>1. Texts[p] = Source(p)
    BY <1>1, <1>3 DEF Source, Open
  <2>2. CASE p \in Open
    BY <1>1, <2>1, <2>2 DEF Open, ServerTypes
  <2>3. CASE p \notin Open
    <3>1. p \in Resolution
      BY <1>1, <2>3
    <3>2. disk[File[p]] # None /\ File[p] \in Files
      BY <1>2, <3>1 DEF Resolution, Files
    <3> QED
      BY <1>1, <2>1, <2>3, <3>2 DEF ServerTypes
  <2> QED
    BY <2>1, <2>2, <2>3
<1>5. Sound(Texts) = {p \in FilesOf(Resolution) : Readable(p)}
  BY <1>4, FilesAre DEF Sound, Readable
<1> QED
  BY <1>3, <1>4, <1>5

\* The names of a text are names.
LEMMA QueriesAreNames == \A c \in Contents : c.queries \subseteq Names
BY DEF Names

\* The duplicates of the workspace are those the loop over the files flags.
LEMMA ClaimsNow ==
    ASSUME ServerTypes, NEW text, \A p \in Sound(Texts) : text[p] = Texts[p]
    PROVE  /\ Claims(Resolution, Sound(Texts), text) = DupNow
           /\ DupNow \in SUBSET (Paths \X Names)
<1>1. /\ Sound(Texts) \in SUBSET Paths
      /\ \A p \in Sound(Texts) : Texts[p] \in Contents
  BY TextsAre DEF Sound
<1>2. \A p \in Sound(Texts) : text[p].queries \subseteq Names
  BY <1>1, QueriesAreNames
<1>3. Claims(Resolution, Sound(Texts), text) = DupAt(Resolution, Sound(Texts), text, N)
  BY <1>1, <1>2, ClaimsAre
<1>4. \A p \in Paths : Rank[p] <= N
  BY OrderFacts
<1>5. ASSUME NEW e \in Paths \X Names
      PROVE  e \in DupAt(Resolution, Sound(Texts), text, N) <=> e \in DupNow
  BY <1>1, <1>4 DEF DupAt, DupNow, Taken
<1>6. /\ DupAt(Resolution, Sound(Texts), text, N) \subseteq Paths \X Names
      /\ DupNow \subseteq Paths \X Names
  BY DEF DupAt, DupNow
<1> QED
  BY <1>3, <1>5, <1>6

\* The duplicates of one file, among its names.
LEMMA DupOf ==
    ASSUME ServerTypes, NEW p \in Sound(Texts)
    PROVE  /\ ({p} \X Texts[p].queries) \cap DupNow # {} <=> Taken(Texts, p) # {}
           /\ {p} \X Texts[p].queries \subseteq DupNow <=> Taken(Texts, p) = Texts[p].queries
           /\ \A n \in Texts[p].queries : <<p, n>> \in DupNow <=> n \in Taken(Texts, p)
<1>1. p \in Paths /\ Texts[p] \in Contents
  BY TextsAre DEF Sound
<1>2. Texts[p].queries \subseteq Names
  BY <1>1, QueriesAreNames
<1>3. \A n \in Texts[p].queries : <<p, n>> \in DupNow <=> n \in Taken(Texts, p)
  BY <1>1, <1>2 DEF DupNow
<1>4. Taken(Texts, p) \subseteq Texts[p].queries
  BY DEF Taken
<1>5. \A e \in {p} \X Texts[p].queries : e = <<p, e[2]>> /\ e[2] \in Texts[p].queries
  OBVIOUS
<1>6. \A n \in Texts[p].queries : <<p, n>> \in {p} \X Texts[p].queries
  OBVIOUS
<1>7. ({p} \X Texts[p].queries) \cap DupNow # {} <=> Taken(Texts, p) # {}
  BY <1>3, <1>4, <1>5, <1>6
<1>8. {p} \X Texts[p].queries \subseteq DupNow <=> Taken(Texts, p) = Texts[p].queries
  BY <1>3, <1>4, <1>5, <1>6
<1> QED
  BY <1>3, <1>7, <1>8

-----------------------------------------------------------------------------
(* One lemma per action.                                                   *)

\* The reference is a function of the files and the buffers.
LEMMA ReferenceSame ==
    ASSUME overlay' = overlay, disk' = disk
    PROVE  /\ Resolution' = Resolution /\ Texts' = Texts
           /\ SourcesNow' = SourcesNow /\ DupNow' = DupNow /\ DiagsNow' = DiagsNow
<1>1. Resolution' = Resolution
  BY DEF Resolution
<1>2. Texts' = Texts
  BY DEF Texts, Open, Resolution
<1>3. SourcesNow' = SourcesNow
  BY <1>2 DEF SourcesNow, Sound
<1>4. DupNow' = DupNow
  BY <1>1, <1>2 DEF DupNow, Sound, Taken
<1>5. DiagsNow' = DiagsNow
  BY <1>1, <1>2 DEF DiagsNow, Sound, Taken, WithoutCatalog
<1> QED
  BY <1>1, <1>2, <1>3, <1>4, <1>5

\* The empty check.
LEMMA NoCheckType == NoCheck \in Check /\ NoCheck.sig = 0
BY DEF NoCheck, Check, Cat, NoCatalog

\* A server that starts has memoized and published nothing.
LEMMA InitServer == Init => ServerInv
<1> SUFFICES ASSUME Init PROVE ServerInv
  OBVIOUS
<1>1. /\ writes = 0 /\ dirSig = 0 /\ pc = "idle" /\ dirty = TRUE /\ check = NoCheck
      /\ published = {} /\ shown = [k \in Keys |-> {}]
      /\ tgtMemo = None /\ catMemo = None
      /\ overlay = [p \in Paths |-> None] /\ memo = [p \in Paths |-> None]
      /\ disk = Start
  BY DEF Init
<1>2. disk \in [Files -> Contents \cup {Locked, None}]
  BY <1>1, ServerAssumption DEF Files
<1>3. schema \in [text : Schemas, sig : 0..0]
  <2>1. (CHOOSE s \in Schemas : TRUE) \in Schemas
    BY ServerAssumption
  <2> QED
    BY <2>1 DEF Init
<1>4. catalog \in [fp : Schemas \cup {None}, gen : {0, 1}, sig : 0..0]
  BY <1>3 DEF Init
<1>5. ServerTypes
  BY <1>1, <1>2, <1>3, <1>4, NoCheckType DEF ServerTypes, Phases
<1>6. TargetsSound /\ CatalogSound /\ FilesSound /\ MemosInvisible
  BY <1>1 DEF TargetsSound, CatalogSound, FilesSound, MemosInvisible
<1>7. NothingForgotten
  BY <1>1 DEF NothingForgotten
<1> QED
  BY <1>5, <1>6, <1>7 DEF ServerInv

\* A write marks the check under way as overtaken and touches nothing else of
\* the server.
LEMMA WriteKeeps ==
    ASSUME ServerInv, NEW what, Write(what)
    PROVE  /\ writes' = writes + 1 /\ writes' \in Nat /\ dirty' = TRUE
           /\ pc' = pc /\ overlay' = overlay /\ memo' = memo /\ check' = check
           /\ tgtMemo' = tgtMemo /\ catMemo' = catMemo
           /\ pc = "idle" \/ what \in Races
           /\ \A s \in 0..writes : s \in 0..writes' /\ s # writes'
           /\ writes' \in 0..writes'
           /\ FilesSound' /\ NothingForgotten' /\ MemosInvisible'
<1>1. /\ writes' = writes + 1 /\ dirty' = TRUE /\ pc' = pc /\ overlay' = overlay
      /\ memo' = memo /\ check' = check /\ tgtMemo' = tgtMemo /\ catMemo' = catMemo
      /\ published' = published /\ shown' = shown /\ (pc = "idle" \/ what \in Races)
  BY DEF Write, memos
<1>2. writes \in Nat
  BY DEF ServerInv, ServerTypes
<1>3. FilesSound'
  BY <1>1 DEF ServerInv, FilesSound, Checked
<1>4. NothingForgotten' /\ MemosInvisible'
  BY <1>1 DEF ServerInv, NothingForgotten, MemosInvisible
<1> QED
  BY <1>1, <1>2, <1>3, <1>4

\* A text saved in place leaves the resolution and the catalog alone.
LEMMA SaveFileKeeps == ASSUME ServerInv, SaveFile PROVE ServerInv'
<1>1. Write("files")
  BY DEF SaveFile
<1>2. PICK f \in Files, c \in Contents \cup {Locked} :
         disk[f] # None /\ disk' = [disk EXCEPT ![f] = c]
  BY DEF SaveFile
<1>3. dirSig' = dirSig /\ schema' = schema /\ catalog' = catalog
  BY DEF SaveFile
<1>4. disk' \in [Files -> Contents \cup {Locked, None}]
  BY <1>2 DEF ServerInv, ServerTypes
<1>5. Resolution' = Resolution
  <2>1. c # None
    BY <1>2, ServerAssumption
  <2>2. \A p \in Glob : File[p] \in Files
    BY ServerAssumption DEF Files
  <2> QED
    BY <1>2, <2>1, <2>2 DEF Resolution, ServerInv, ServerTypes
<1>6. ServerTypes'
  BY <1>1, <1>3, <1>4, WriteKeeps DEF ServerInv, ServerTypes, Check
<1>7. TargetsSound'
  BY <1>1, <1>3, <1>5, WriteKeeps DEF ServerInv, TargetsSound
<1>8. CatalogSound'
  BY <1>1, <1>3, WriteKeeps DEF ServerInv, CatalogSound, CatNow
<1> QED
  BY <1>1, <1>6, <1>7, <1>8, WriteKeeps DEF ServerInv

\* A file that appears or disappears moves the signature of its directory
\* away from the memoized one.
LEMMA MoveFileKeeps == ASSUME NoUnseenWrites, ServerInv, MoveFile PROVE ServerInv'
<1>1. Write("dirs")
  BY DEF MoveFile
<1>2. PICK f \in Files, c \in Contents \cup {None} : disk' = [disk EXCEPT ![f] = c]
  BY DEF MoveFile
<1>3. dirSig' = writes' /\ schema' = schema /\ catalog' = catalog
  BY DEF MoveFile
<1>4. disk' \in [Files -> Contents \cup {Locked, None}]
  BY <1>2 DEF ServerInv, ServerTypes
<1>5. pc = "idle"
  BY <1>1, WriteKeeps DEF NoUnseenWrites
<1>6. ServerTypes'
  BY <1>1, <1>3, <1>4, WriteKeeps DEF ServerInv, ServerTypes, Check
<1>7. TargetsSound'
  BY <1>1, <1>3, <1>5, WriteKeeps DEF ServerInv, TargetsSound
<1>8. CatalogSound'
  BY <1>1, <1>3, WriteKeeps DEF ServerInv, CatalogSound, CatNow
<1> QED
  BY <1>1, <1>6, <1>7, <1>8, WriteKeeps DEF ServerInv

\* A changed schema file has a signature no memo has.
LEMMA EditSchemaKeeps == ASSUME ServerInv, EditSchema PROVE ServerInv'
<1>1. Write("schema")
  BY DEF EditSchema
<1>2. PICK s \in Schemas : schema' = [text |-> s, sig |-> writes']
  BY DEF EditSchema
<1>3. disk' = disk /\ dirSig' = dirSig /\ catalog' = catalog
  BY DEF EditSchema
<1>4. overlay' = overlay
  BY <1>1, WriteKeeps
<1>5. Resolution' = Resolution
  BY <1>3, <1>4, ReferenceSame
<1>6. ServerTypes'
  BY <1>1, <1>2, <1>3, WriteKeeps DEF ServerInv, ServerTypes, Check
<1>7. TargetsSound'
  BY <1>1, <1>3, <1>5, WriteKeeps DEF ServerInv, TargetsSound
<1>8. CatalogSound'
  <2>1. schema'.sig = writes'
    BY <1>2
  <2>2. check.sig \in 0..writes
    BY DEF ServerInv, ServerTypes
  <2> QED
    BY <1>1, <1>3, <2>1, <2>2, WriteKeeps DEF ServerInv, CatalogSound
<1> QED
  BY <1>1, <1>6, <1>7, <1>8, WriteKeeps DEF ServerInv

\* A catalog written between two messages has a signature no memo has.
LEMMA WriteCatalogKeeps == ASSUME NoUnseenWrites, ServerInv, WriteCatalog PROVE ServerInv'
<1>1. Write("catalog")
  BY DEF WriteCatalog
<1>2. PICK g \in {0, 1} : catalog' = [fp |-> schema.text, gen |-> g, sig |-> writes']
  BY DEF WriteCatalog
<1>3. disk' = disk /\ dirSig' = dirSig /\ schema' = schema
  BY DEF WriteCatalog
<1>4. overlay' = overlay /\ pc = "idle"
  BY <1>1, WriteKeeps DEF NoUnseenWrites
<1>5. Resolution' = Resolution
  BY <1>3, <1>4, ReferenceSame
<1>6. ServerTypes'
  BY <1>1, <1>2, <1>3, WriteKeeps DEF ServerInv, ServerTypes, Check
<1>7. TargetsSound'
  BY <1>1, <1>3, <1>5, WriteKeeps DEF ServerInv, TargetsSound
<1>8. CatalogSound'
  <2>1. catalog'.sig = writes'
    BY <1>2
  <2> QED
    BY <1>1, <1>3, <1>4, <2>1, WriteKeeps DEF ServerInv, CatalogSound
<1> QED
  BY <1>1, <1>6, <1>7, <1>8, WriteKeeps DEF ServerInv

\* Entries are memoized nowhere.
LEMMA WriteEntryKeeps == ASSUME ServerInv, WriteEntry PROVE ServerInv'
<1>1. Write("entries")
  BY DEF WriteEntry
<1>2. disk' = disk /\ dirSig' = dirSig /\ schema' = schema /\ catalog' = catalog
  BY DEF WriteEntry
<1>3. Resolution' = Resolution
  BY <1>1, <1>2, WriteKeeps, ReferenceSame
<1>4. ServerTypes'
  BY <1>1, <1>2, WriteKeeps DEF ServerInv, ServerTypes, Check
<1>5. TargetsSound'
  BY <1>1, <1>2, <1>3, WriteKeeps DEF ServerInv, TargetsSound
<1>6. CatalogSound'
  BY <1>1, <1>2, WriteKeeps DEF ServerInv, CatalogSound, CatNow
<1> QED
  BY <1>1, <1>4, <1>5, <1>6, WriteKeeps DEF ServerInv

\* A message starts a check from nothing but the memos.
LEMMA MessageKeeps ==
    ASSUME ServerInv, DidOpenOrChange \/ DidSave \/ DidClose
    PROVE  ServerInv'
<1>1. BeginCheck
  BY DEF DidOpenOrChange, DidSave, DidClose
<1>2. /\ pc' = "targets" /\ check' = NoCheck /\ dirty' = FALSE
      /\ disk' = disk /\ dirSig' = dirSig /\ schema' = schema /\ catalog' = catalog
      /\ writes' = writes /\ published' = published /\ shown' = shown
      /\ memo' = memo /\ tgtMemo' = tgtMemo /\ catMemo' = catMemo
  BY <1>1 DEF BeginCheck, disks, memos
<1>3. overlay' \in [Paths -> Contents \cup {None}]
  BY DEF DidOpenOrChange, Tracks, DidSave, DidClose, ServerInv, ServerTypes
<1>4. ServerTypes'
  <2>1. check' \in Check /\ check'.sig \in 0..writes' /\ pc' \in Phases
    BY <1>2, NoCheckType DEF ServerInv, ServerTypes, Phases
  <2>2. dirty' \in BOOLEAN
    BY <1>1, Zenon DEF BeginCheck
  <2> QED
    BY <1>2, <1>3, <2>1, <2>2 DEF ServerInv, ServerTypes
<1>5. Resolution' = Resolution
  BY <1>2 DEF Resolution
<1>6. TargetsSound' /\ CatalogSound' /\ FilesSound'
  BY <1>2, <1>5 DEF ServerInv, TargetsSound, CatalogSound, CatNow, FilesSound
<1>7. NothingForgotten' /\ MemosInvisible'
  BY <1>2 DEF ServerInv, NothingForgotten, MemosInvisible
<1> QED
  BY <1>4, <1>6, <1>7 DEF ServerInv

\* A panic loses the check and keeps the memos.
LEMMA PanicKeeps == ASSUME ServerInv, Panic \/ ResolvePanics PROVE ServerInv'
<1>1. /\ pc' = "idle" /\ check' = NoCheck /\ dirty' = TRUE /\ overlay' = overlay
      /\ disk' = disk /\ dirSig' = dirSig /\ schema' = schema /\ catalog' = catalog
      /\ writes' = writes /\ published' = published /\ shown' = shown
      /\ memo' = memo /\ tgtMemo' = tgtMemo /\ catMemo' = catMemo
  BY DEF Panic, ResolvePanics, disks, memos
<1>2. ServerTypes'
  BY <1>1, NoCheckType DEF ServerInv, ServerTypes, Phases
<1>3. Resolution' = Resolution
  BY <1>1, ReferenceSame
<1>4. TargetsSound' /\ CatalogSound' /\ FilesSound'
  BY <1>1, <1>3 DEF ServerInv, TargetsSound, CatalogSound, CatNow, FilesSound
<1>5. NothingForgotten' /\ MemosInvisible'
  BY <1>1 DEF ServerInv, NothingForgotten, MemosInvisible
<1> QED
  BY <1>2, <1>4, <1>5 DEF ServerInv

\* The end of the session.
LEMMA ExitKeeps == ASSUME ServerInv, Exit PROVE ServerInv'
<1>1. /\ pc = "idle" /\ pc' = "exited" /\ check' = check /\ dirty' = dirty
      /\ overlay' = overlay /\ entries' = entries /\ last' = last
      /\ disk' = disk /\ dirSig' = dirSig /\ schema' = schema /\ catalog' = catalog
      /\ writes' = writes /\ published' = published /\ shown' = shown
      /\ memo' = memo /\ tgtMemo' = tgtMemo /\ catMemo' = catMemo
  BY DEF Exit, disks, memos
<1>2. ServerTypes'
  BY <1>1 DEF ServerInv, ServerTypes, Phases
<1>3. Resolution' = Resolution /\ Texts' = Texts
  BY <1>1, ReferenceSame
<1>4. TargetsSound' /\ CatalogSound' /\ FilesSound' /\ NothingForgotten'
  BY <1>1, <1>3 DEF ServerInv, TargetsSound, CatalogSound, CatNow, FilesSound, NothingForgotten
<1>5. Diagnosis' = Diagnosis
  BY <1>1, <1>3 DEF Diagnosis, Sound, WithoutCatalog, WithCatalog, Taken, Described
<1>6. MemosInvisible'
  BY <1>1, <1>3, <1>5 DEF ServerInv, MemosInvisible
<1> QED
  BY <1>2, <1>4, <1>6 DEF ServerInv

\* A step of a check that publishes nothing leaves the files, the buffers and
\* the screen as they are.
LEMMA CheckStep ==
    ASSUME ServerInv, UNCHANGED <<Within, published, shown>>, pc' \notin {"idle", "exited"}
    PROVE  /\ disk' = disk /\ dirSig' = dirSig /\ schema' = schema /\ catalog' = catalog
           /\ writes' = writes /\ overlay' = overlay /\ dirty' = dirty
           /\ Resolution' = Resolution /\ CatNow' = CatNow
           /\ SourcesNow' = SourcesNow /\ DupNow' = DupNow /\ DiagsNow' = DiagsNow
           /\ NothingForgotten' /\ MemosInvisible'
<1>1. /\ disk' = disk /\ dirSig' = dirSig /\ schema' = schema /\ catalog' = catalog
      /\ writes' = writes /\ overlay' = overlay /\ dirty' = dirty
      /\ published' = published /\ shown' = shown
  BY DEF Within, disks
<1>2. CatNow' = CatNow
  BY <1>1 DEF CatNow
<1>3. NothingForgotten' /\ MemosInvisible'
  BY <1>1 DEF ServerInv, NothingForgotten, MemosInvisible
<1> QED
  BY <1>1, <1>2, <1>3, ReferenceSame

\* A memo whose signature is current holds the resolution of the disk.
LEMMA ReuseTargetsKeeps == ASSUME ServerInv, ReuseTargets PROVE ServerInv'
<1>1. UNCHANGED <<Within, published, shown>> /\ pc' = "read" /\ pc = "targets"
  BY DEF ReuseTargets
<1>2. memo' = memo /\ tgtMemo' = tgtMemo /\ catMemo' = catMemo
  BY DEF ReuseTargets, memos
<1>3. tgtMemo # None /\ tgtMemo.sig = dirSig
  BY DEF ReuseTargets, TargetsCurrent
<1>4. tgtMemo.res = Resolution /\ tgtMemo.res \in SUBSET Glob
  BY <1>3 DEF ServerInv, TargetsSound
<1>5. check' = [check EXCEPT !.res = tgtMemo.res] /\ check \in Check
  BY DEF ReuseTargets, ServerInv, ServerTypes
<1>6. check' \in Check /\ check'.res = Resolution /\ check'.sig = check.sig
  BY <1>4, <1>5 DEF Check
<1>7. ServerTypes'
  BY <1>1, <1>2, <1>6, CheckStep DEF ServerInv, ServerTypes, Phases
<1>8. TargetsSound' /\ CatalogSound' /\ FilesSound'
  BY <1>1, <1>2, <1>6, CheckStep DEF ServerInv, TargetsSound, CatalogSound, FilesSound
<1> QED
  BY <1>1, <1>7, <1>8, CheckStep DEF ServerInv

\* The walk finds the resolution of the disk as it is.
LEMMA WalkTargetsKeeps == ASSUME ServerInv, WalkTargets PROVE ServerInv'
<1>1. UNCHANGED <<Within, published, shown>> /\ pc' = "stat" /\ pc = "targets"
  BY DEF WalkTargets
<1>2. memo' = memo /\ tgtMemo' = tgtMemo /\ catMemo' = catMemo
  BY DEF WalkTargets, memos
<1>3. check' = [check EXCEPT !.res = Resolution] /\ check \in Check
  BY DEF WalkTargets, ServerInv, ServerTypes
<1>4. Resolution \in SUBSET Glob
  BY DEF Resolution
<1>5. check' \in Check /\ check'.res = Resolution /\ check'.sig = check.sig
  BY <1>3, <1>4 DEF Check
<1>6. ServerTypes'
  BY <1>1, <1>2, <1>5, CheckStep DEF ServerInv, ServerTypes, Phases
<1>7. TargetsSound' /\ CatalogSound' /\ FilesSound'
  BY <1>1, <1>2, <1>5, CheckStep DEF ServerInv, TargetsSound, CatalogSound, FilesSound
<1> QED
  BY <1>1, <1>6, <1>7, CheckStep DEF ServerInv

\* The signatures are taken after the walk: nobody moved a file in between.
LEMMA StatTargetsKeeps == ASSUME ServerInv, StatTargets PROVE ServerInv'
<1>1. UNCHANGED <<Within, published, shown>> /\ pc' = "read" /\ pc = "stat"
  BY DEF StatTargets
<1>2. /\ memo' = memo /\ catMemo' = catMemo /\ check' = check
      /\ tgtMemo' = [sig |-> dirSig, res |-> check.res]
  BY DEF StatTargets
<1>3. check.res = Resolution /\ check.res \in SUBSET Glob /\ dirSig \in 0..writes
  BY <1>1 DEF ServerInv, TargetsSound, ServerTypes, Check
<1>4. ServerTypes'
  BY <1>1, <1>2, CheckStep DEF ServerInv, ServerTypes, Phases
<1>5. TargetsSound'
  BY <1>1, <1>2, <1>3, CheckStep DEF TargetsSound
<1>6. CatalogSound' /\ FilesSound'
  BY <1>1, <1>2, CheckStep DEF ServerInv, CatalogSound, FilesSound
<1> QED
  BY <1>1, <1>4, <1>5, <1>6, CheckStep DEF ServerInv

\* A memo whose two signatures are current holds the catalog of the files.
LEMMA ReuseCatalogKeeps == ASSUME ServerInv, ReuseCatalog PROVE ServerInv'
<1>1. UNCHANGED <<Within, published, shown>> /\ pc' = "resolve" /\ pc = "schema"
  BY DEF ReuseCatalog
<1>2. memo' = memo /\ tgtMemo' = tgtMemo /\ catMemo' = catMemo
  BY DEF ReuseCatalog, memos
<1>3. catMemo # None /\ catMemo.schema = schema.sig /\ catMemo.sig = catalog.sig
  BY DEF ReuseCatalog, CatalogCurrent
<1>4. catMemo.cat = CatNow /\ catMemo.cat \in Cat
  BY <1>3 DEF ServerInv, CatalogSound
<1>5. check' = [check EXCEPT !.cat = catMemo.cat] /\ check \in Check
  BY DEF ReuseCatalog, ServerInv, ServerTypes
<1>6. /\ check' \in Check /\ check'.cat = CatNow /\ check'.sig = check.sig
      /\ check'.res = check.res /\ check'.sources = check.sources
      /\ check'.dup = check.dup /\ check'.diags = check.diags
  BY <1>4, <1>5 DEF Check
<1>7. ServerTypes'
  BY <1>1, <1>2, <1>6, CheckStep DEF ServerInv, ServerTypes, Phases
<1>8. TargetsSound' /\ CatalogSound'
  BY <1>1, <1>2, <1>6, CheckStep DEF ServerInv, TargetsSound, CatalogSound
<1>9. FilesSound'
  BY <1>1, <1>2, <1>6, CheckStep DEF ServerInv, FilesSound, Checked
<1> QED
  BY <1>1, <1>7, <1>8, <1>9, CheckStep DEF ServerInv

\* The schema's signature is taken before the catalog is read.
LEMMA StatSchemaKeeps == ASSUME ServerInv, StatSchema PROVE ServerInv'
<1>1. UNCHANGED <<Within, published, shown>> /\ pc' = "load" /\ pc = "schema"
  BY DEF StatSchema
<1>2. memo' = memo /\ tgtMemo' = tgtMemo /\ catMemo' = catMemo
  BY DEF StatSchema, memos
<1>3. schema.sig \in 0..writes /\ schema.sig \in Nat
  BY DEF ServerInv, ServerTypes
<1>4. check' = [check EXCEPT !.sig = schema.sig] /\ check \in Check
  BY DEF StatSchema, ServerInv, ServerTypes
<1>5. /\ check' \in Check /\ check'.sig = schema.sig
      /\ check'.res = check.res /\ check'.sources = check.sources
      /\ check'.dup = check.dup /\ check'.diags = check.diags
  BY <1>3, <1>4 DEF Check
<1>6. ServerTypes'
  BY <1>1, <1>2, <1>3, <1>5, CheckStep DEF ServerInv, ServerTypes, Phases
<1>7. TargetsSound' /\ CatalogSound'
  BY <1>1, <1>2, <1>5, CheckStep DEF ServerInv, TargetsSound, CatalogSound
<1>8. FilesSound'
  BY <1>1, <1>2, <1>5, CheckStep DEF ServerInv, FilesSound, Checked
<1> QED
  BY <1>1, <1>6, <1>7, <1>8, CheckStep DEF ServerInv

\* The catalog is loaded for the schema as it is at this moment.
LEMMA LoadCatalogKeeps == ASSUME ServerInv, LoadCatalog PROVE ServerInv'
<1>1. UNCHANGED <<Within, published, shown>> /\ pc' = "record" /\ pc = "load"
  BY DEF LoadCatalog
<1>2. memo' = memo /\ tgtMemo' = tgtMemo /\ catMemo' = catMemo
  BY DEF LoadCatalog, memos
<1>3. CatNow \in Cat
  BY DEF CatNow, Cat, NoCatalog, ServerInv, ServerTypes
<1>4. check' = [check EXCEPT !.cat = CatNow] /\ check \in Check
  BY DEF LoadCatalog, CatNow, ServerInv, ServerTypes
<1>5. /\ check' \in Check /\ check'.cat = CatNow /\ check'.sig = check.sig
      /\ check'.res = check.res /\ check'.sources = check.sources
      /\ check'.dup = check.dup /\ check'.diags = check.diags
  BY <1>3, <1>4 DEF Check
<1>6. ServerTypes'
  BY <1>1, <1>2, <1>5, CheckStep DEF ServerInv, ServerTypes, Phases
<1>7. TargetsSound' /\ CatalogSound'
  BY <1>1, <1>2, <1>5, CheckStep DEF ServerInv, TargetsSound, CatalogSound
<1>8. FilesSound'
  BY <1>1, <1>2, <1>5, CheckStep DEF ServerInv, FilesSound, Checked
<1> QED
  BY <1>1, <1>6, <1>7, <1>8, CheckStep DEF ServerInv

\* The signature recorded for the schema is the one from before the load: a
\* schema written during the load makes the memo useless, not wrong.
LEMMA RecordCatalogKeeps == ASSUME ServerInv, RecordCatalog PROVE ServerInv'
<1>1. UNCHANGED <<Within, published, shown>> /\ pc' = "resolve" /\ pc = "record"
  BY DEF RecordCatalog
<1>2. /\ memo' = memo /\ tgtMemo' = tgtMemo /\ check' = check
      /\ catMemo' = [schema |-> check.sig, sig |-> catalog.sig, cat |-> check.cat]
  BY DEF RecordCatalog
<1>3. check.sig \in 0..writes /\ catalog.sig \in 0..writes /\ check.cat \in Cat
  BY DEF ServerInv, ServerTypes, Check
<1>4. ServerTypes'
  BY <1>1, <1>2, CheckStep DEF ServerInv, ServerTypes, Phases
<1>5. TargetsSound'
  BY <1>1, <1>2, CheckStep DEF ServerInv, TargetsSound
<1>6. CatalogSound'
  BY <1>1, <1>2, <1>3, CheckStep DEF ServerInv, CatalogSound
<1>7. FilesSound'
  BY <1>1, <1>2, CheckStep DEF ServerInv, FilesSound, Checked
<1> QED
  BY <1>1, <1>4, <1>5, <1>6, <1>7, CheckStep DEF ServerInv

\* What the per-file and the workspace phase compute, in the terms of the
\* reference: the memo cannot be told from the texts.
LEMMA ReadIs ==
    ASSUME ServerInv, pc = "read"
    PROVE  LET good == {p \in FilesOf(check.res) : Readable(p)}
               mm == Analyzed(good)
               text == [p \in good |-> IF mm[p] # None THEN mm[p] ELSE Source(p)]
           IN  /\ good = Sound(Texts) /\ FilesOf(check.res) = DOMAIN Texts
               /\ check.res = Resolution
               /\ mm \in Memos /\ \A p \in good : mm[p] \in {None, Source(p)}
               /\ \A p \in good : text[p] = Texts[p] /\ Source(p) = Texts[p]
               /\ Claims(check.res, good, text) = DupNow
<1> DEFINE good == {p \in FilesOf(check.res) : Readable(p)}
           mm == Analyzed(good)
           text == [p \in good |-> IF mm[p] # None THEN mm[p] ELSE Source(p)]
<1>1. ServerTypes /\ check.res = Resolution
  BY DEF ServerInv, TargetsSound
<1>2. good = Sound(Texts) /\ FilesOf(check.res) = DOMAIN Texts
  BY <1>1, TextsAre, FilesAre
<1>3. good \in SUBSET Paths /\ \A p \in good : Source(p) = Texts[p] /\ Source(p) \in Contents
  BY <1>1, <1>2, TextsAre DEF Sound
<1>4. memo \in Memos
  BY <1>1 DEF ServerTypes, Memos
<1> HIDE DEF good
<1>5. mm \in Memos /\ \A p \in good : mm[p] \in {None, Source(p)}
  BY <1>3, <1>4, AnalyzedIs
<1> HIDE DEF mm
<1>6. \A p \in good : text[p] = Texts[p]
  BY <1>3, <1>5
<1> HIDE DEF text
<1>7. Claims(Resolution, Sound(Texts), text) = DupNow
  BY <1>1, <1>2, <1>6, ClaimsNow
<1>8. Claims(check.res, good, text) = DupNow
  BY <1>1, <1>2, <1>7
<1> QED
  BY <1>1, <1>2, <1>3, <1>5, <1>6, <1>8 DEF good, mm, text

\* The phases write down the reference.
LEMMA ReadFilesWrites ==
    ASSUME ServerInv, ReadFiles
    PROVE  /\ pc = "read" /\ pc' = "schema"
           /\ memo' \in Memos /\ \A p \in Sound(Texts) : memo'[p] \in {None, Texts[p]}
           /\ check' = [check EXCEPT !.sources = SourcesNow, !.dup = DupNow, !.diags = DiagsNow]
           /\ check.res = Resolution
<1> DEFINE paths == FilesOf(check.res)
           good == {p \in paths : Readable(p)}
           mm == Analyzed(good)
           text == [p \in good |-> IF mm[p] # None THEN mm[p] ELSE Source(p)]
           dup == Claims(check.res, good, text)
           sources == [p \in Paths |-> IF p \in good THEN Source(p) ELSE None]
           diags == [p \in Keys |->
                  IF p \in good
                  THEN When(text[p].bad, "scan")
                       \cup When(({p} \X text[p].queries) \cap dup # {}, "duplicate")
                       \cup When(text[p].twice /\ ~({p} \X text[p].queries \subseteq dup), "override")
                  ELSE When(p \in paths, "unreadable")
                       \cup When(p = Config /\ check.res = {}, "targets")]
<1>1. /\ pc = "read" /\ pc' = "schema" /\ memo' = mm
      /\ check' = [check EXCEPT !.sources = sources, !.dup = dup, !.diags = diags]
  BY DEF ReadFiles
<1>2. /\ good = Sound(Texts) /\ paths = DOMAIN Texts /\ check.res = Resolution
      /\ mm \in Memos /\ \A p \in good : mm[p] \in {None, Source(p)}
      /\ \A p \in good : text[p] = Texts[p] /\ Source(p) = Texts[p]
      /\ dup = DupNow
  BY <1>1, ReadIs
<1>3. ServerTypes
  BY DEF ServerInv
<1> HIDE DEF paths, good, mm, text, dup
<1>4. sources = SourcesNow
  BY <1>2 DEF SourcesNow
<1>5. diags = DiagsNow
  <2>1. ASSUME NEW k \in Keys, k \in good
        PROVE  /\ k # Config
               /\ When(text[k].bad, "scan")
                  \cup When(({k} \X text[k].queries) \cap dup # {}, "duplicate")
                  \cup When(text[k].twice /\ ~({k} \X text[k].queries \subseteq dup), "override")
                  = WithoutCatalog(Texts, k)
    <3>1. k \in Sound(Texts) /\ text[k] = Texts[k] /\ dup = DupNow
      BY <1>2, <2>1
    <3>2. k # Config
      BY <1>3, <3>1, TextsAre, ServerAssumption DEF Sound
    <3>3. /\ ({k} \X Texts[k].queries) \cap DupNow # {} <=> Taken(Texts, k) # {}
          /\ {k} \X Texts[k].queries \subseteq DupNow <=> Taken(Texts, k) = Texts[k].queries
      BY <1>3, <3>1, DupOf
    <3> QED
      BY <3>1, <3>2, <3>3 DEF WithoutCatalog, When
  <2>2. ASSUME NEW k \in Keys, k \notin good, k # Config
        PROVE  When(k \in paths, "unreadable")
                  \cup When(k = Config /\ check.res = {}, "targets")
               = When(k \in DOMAIN Texts, "unreadable")
    BY <1>2, <2>2 DEF When
  <2>3. Config \notin good /\ Config \notin paths
    BY <1>2, <1>3, TextsAre, ServerAssumption DEF Sound
  <2>4. When(Config \in paths, "unreadable")
           \cup When(Config = Config /\ check.res = {}, "targets")
        = When(Resolution = {}, "targets")
    BY <1>2, <2>3 DEF When
  <2>5. ASSUME NEW k \in Keys PROVE diags[k] = DiagsNow[k]
    <3>1. CASE k \in good
      <4>1. DiagsNow[k] = WithoutCatalog(Texts, k)
        BY <1>2, <2>1, <3>1 DEF DiagsNow
      <4> QED
        BY <2>1, <3>1, <4>1
    <3>2. CASE k \notin good /\ k # Config
      <4>1. DiagsNow[k] = When(k \in DOMAIN Texts, "unreadable")
        BY <1>2, <3>2 DEF DiagsNow
      <4> QED
        BY <2>2, <3>2, <4>1
    <3>3. CASE k = Config
      <4>1. DiagsNow[k] = When(Resolution = {}, "targets")
        BY <1>2, <2>3, <3>3 DEF DiagsNow
      <4> QED
        BY <2>3, <2>4, <3>3, <4>1
    <3> QED
      BY <3>1, <3>2, <3>3
  <2> QED
    BY <2>5 DEF DiagsNow
<1>6. memo' \in Memos /\ \A p \in Sound(Texts) : memo'[p] \in {None, Texts[p]}
  BY <1>1, <1>2
<1> HIDE DEF sources, diags
<1> QED
  BY <1>1, <1>2, <1>4, <1>5, <1>6

\* The reference has the types of what a check holds.
LEMMA ReferenceTypes ==
    ASSUME ServerTypes
    PROVE  /\ SourcesNow \in [Paths -> Contents \cup {None}]
           /\ DiagsNow \in [Keys -> SUBSET ToSet(Kinds)]
           /\ DupNow \in SUBSET (Paths \X Names)
<1>1. SourcesNow \in [Paths -> Contents \cup {None}]
  BY DEF SourcesNow, Sound
<1>2. DupNow \in SUBSET (Paths \X Names)
  BY DEF DupNow
<1>3. {"unreadable", "scan", "duplicate", "override", "resolved", "targets"} \subseteq ToSet(Kinds)
  <2>1. /\ DOMAIN Kinds = 1..6
        /\ Kinds[1] = "unreadable" /\ Kinds[2] = "scan" /\ Kinds[3] = "duplicate"
        /\ Kinds[4] = "override" /\ Kinds[5] = "resolved" /\ Kinds[6] = "targets"
    BY DEF Kinds
  <2> QED
    BY <2>1 DEF ToSet
<1>4. \A k \in Keys : DiagsNow[k] \in SUBSET ToSet(Kinds)
  BY <1>3 DEF DiagsNow, When, WithoutCatalog
<1>5. DiagsNow = [k \in Keys |-> DiagsNow[k]]
  BY DEF DiagsNow
<1> QED
  BY <1>1, <1>2, <1>4, <1>5

\* The per-file and the workspace phase leave what the reference says.
LEMMA ReadFilesKeeps == ASSUME ServerInv, ReadFiles PROVE ServerInv'
<1>1. UNCHANGED <<Within, published, shown>> /\ tgtMemo' = tgtMemo /\ catMemo' = catMemo
  BY DEF ReadFiles
<1>2. /\ pc = "read" /\ pc' = "schema"
      /\ memo' \in Memos /\ \A p \in Sound(Texts) : memo'[p] \in {None, Texts[p]}
      /\ check' = [check EXCEPT !.sources = SourcesNow, !.dup = DupNow, !.diags = DiagsNow]
      /\ check.res = Resolution
  BY ReadFilesWrites
<1>3. ServerTypes /\ check \in Check
  BY DEF ServerInv, ServerTypes
<1>4. /\ SourcesNow \in [Paths -> Contents \cup {None}]
      /\ DiagsNow \in [Keys -> SUBSET ToSet(Kinds)]
      /\ DupNow \in SUBSET (Paths \X Names)
  BY <1>3, ReferenceTypes
<1>5. /\ check' \in Check /\ check'.sig = check.sig /\ check'.res = check.res
      /\ check'.sources = SourcesNow /\ check'.dup = DupNow /\ check'.diags = DiagsNow
  BY <1>2, <1>3, <1>4 DEF Check
<1>6. ServerTypes'
  BY <1>1, <1>2, <1>5, CheckStep DEF ServerInv, ServerTypes, Phases, Memos
<1>7. TargetsSound' /\ CatalogSound'
  BY <1>1, <1>2, <1>5, CheckStep DEF ServerInv, TargetsSound, CatalogSound
<1>8. \A p \in Checked' : memo'[p] \in {None, check'.sources[p]}
  <2>1. \A p \in Paths : SourcesNow[p] # None => p \in Sound(Texts) /\ SourcesNow[p] = Texts[p]
    BY DEF SourcesNow
  <2> QED
    BY <1>2, <1>5, <2>1 DEF Checked
<1>9. FilesSound'
  BY <1>1, <1>2, <1>5, <1>8, CheckStep DEF FilesSound
<1> QED
  BY <1>1, <1>2, <1>6, <1>7, <1>9, CheckStep DEF ServerInv

\* A cut list is empty only if the list was.
LEMMA TruncatedEmpty == Truncated({}) = {}
BY DEF Truncated

\* The catalog phase of a check nothing overtook adds what the reference adds:
\* it looks the analyses up in the memo again, which holds the texts or, where
\* it was cleared, ends the check in a panic.
LEMMA ResolvedIs ==
    ASSUME ServerInv, pc = "resolve", Resolvable, ~dirty
    PROVE  Resolved = Diagnosis
<1>1. ServerTypes
  BY DEF ServerInv
<1>2. /\ check.res = Resolution /\ check.cat = CatNow
      /\ check.sources = SourcesNow /\ check.dup = DupNow /\ check.diags = DiagsNow
      /\ \A p \in Checked : memo[p] \in {None, check.sources[p]}
  BY DEF ServerInv, TargetsSound, CatalogSound, FilesSound
<1>3. Checked = Sound(Texts) /\ \A p \in Checked : check.sources[p] = Texts[p]
  <2>1. Sound(Texts) \subseteq Paths /\ \A p \in Sound(Texts) : Texts[p] # None
    BY <1>1, TextsAre, ServerAssumption DEF Sound
  <2> QED
    BY <1>2, <2>1 DEF Checked, SourcesNow
<1>4. /\ CatNow # NoCatalog <=> catalog.fp = schema.text
      /\ CatNow # NoCatalog => CatNow.fp = schema.text /\ CatNow.gen = catalog.gen
  <2>1. schema.text # None
    BY <1>1, ServerAssumption DEF ServerTypes
  <2>2. CASE catalog.fp = schema.text
    <3>1. CatNow = [fp |-> catalog.fp, gen |-> catalog.gen]
      BY <2>2 DEF CatNow
    <3>2. CatNow.fp = schema.text /\ CatNow.gen = catalog.gen /\ NoCatalog.fp = None
      BY <2>2, <3>1 DEF NoCatalog
    <3> QED
      BY <2>1, <2>2, <3>2
  <2>3. CASE catalog.fp # schema.text
    BY <2>3 DEF CatNow
  <2> QED
    BY <2>2, <2>3
<1>5. ASSUME NEW k \in Keys, k \notin Sound(Texts) PROVE Resolved[k] = Diagnosis[k]
  <2>1. Resolved[k] = DiagsNow[k]
    BY <1>2, <1>3, <1>5 DEF Resolved, When
  <2>2. Diagnosis[k] = DiagsNow[k]
    BY <1>5 DEF Diagnosis, DiagsNow
  <2> QED
    BY <2>1, <2>2
<1>6. ASSUME NEW k \in Keys, k \in Sound(Texts) PROVE Resolved[k] = Diagnosis[k]
  <2>1. k # Config
    BY <1>1, <1>6, TextsAre, ServerAssumption DEF Sound
  <2>2. DiagsNow[k] = WithoutCatalog(Texts, k)
    BY <1>6, <2>1 DEF DiagsNow
  <2>3. Diagnosis[k] = WithoutCatalog(Texts, k) \cup WithCatalog(Texts, k)
    BY <1>6, <2>1 DEF Diagnosis
  <2> DEFINE Extra == /\ check.cat # NoCatalog
                      /\ k \in Checked /\ check.diags[k] = {}
                      /\ \E n \in memo[k].queries :
                            /\ <<k, n>> \notin check.dup
                            /\ Described(check.res, k, n, memo[k], check.cat.fp)
                            /\ Refused(memo[k], check.cat)
             Wanted == /\ WithoutCatalog(Texts, k) = {}
                       /\ catalog.fp = schema.text /\ Refused(Texts[k], catalog)
                       /\ \E n \in Texts[k].queries \ Taken(Texts, k) :
                             Described(Resolution, k, n, Texts[k], schema.text)
  <2>4. Resolved[k] = check.diags[k] \cup When(Extra, "resolved")
    BY DEF Resolved
  <2>5. WithCatalog(Texts, k) = When(Wanted, "resolved")
    BY DEF WithCatalog
  <2>6. Extra <=> Wanted
    <3>1. CASE check.cat = NoCatalog
      BY <1>2, <1>4, <3>1
    <3>2. CASE check.cat # NoCatalog
      <4>1. memo[k] = Texts[k]
        BY <1>2, <1>3, <1>6, <3>2 DEF Resolvable
      <4>2. check.cat.fp = schema.text /\ check.cat.gen = catalog.gen /\ catalog.fp = schema.text
        BY <1>2, <1>4, <3>2
      <4>3. \A n \in Texts[k].queries : <<k, n>> \in check.dup <=> n \in Taken(Texts, k)
        BY <1>1, <1>2, <1>6, DupOf
      <4>4. Refused(memo[k], check.cat) <=> Refused(Texts[k], catalog)
        BY <4>1, <4>2 DEF Refused
      <4>5. \A n : Described(check.res, k, n, memo[k], check.cat.fp)
                   <=> Described(Resolution, k, n, Texts[k], schema.text)
        BY <1>2, <4>1, <4>2
      <4> QED
        BY <1>2, <1>3, <1>6, <2>2, <3>2, <4>1, <4>2, <4>3, <4>4, <4>5
    <3> QED
      BY <3>1, <3>2
  <2> HIDE DEF Extra, Wanted
  <2> QED
    BY <1>2, <2>2, <2>3, <2>4, <2>5, <2>6 DEF When
<1>7. Resolved = [k \in Keys |-> Resolved[k]] /\ Diagnosis = [k \in Keys |-> Diagnosis[k]]
  BY DEF Resolved, Diagnosis
<1> QED
  BY <1>5, <1>6, <1>7

\* Everything with something to say is sent, and everything the client still
\* shows is among what was sent before.
LEMMA ResolveAndPublishKeeps == ASSUME ServerInv, ResolveAndPublish PROVE ServerInv'
<1> DEFINE ds == Resolved
           sent == Publishes(ds)
<1>1. /\ pc = "resolve" /\ Resolvable
      /\ shown' = [p \in Keys |-> IF p \in sent THEN Truncated(ds[p]) ELSE shown[p]]
      /\ published' = {p \in sent : Truncated(ds[p]) # {}}
      /\ last' = check.sources /\ pc' = "idle" /\ check' = NoCheck
      /\ memo' = memo /\ tgtMemo' = tgtMemo /\ catMemo' = catMemo
  BY DEF ResolveAndPublish, memos
<1>2. /\ disk' = disk /\ dirSig' = dirSig /\ schema' = schema /\ catalog' = catalog
      /\ entries' = entries /\ writes' = writes /\ overlay' = overlay /\ dirty' = dirty
  BY DEF ResolveAndPublish, Within, disks
<1>3. ServerTypes'
  BY <1>1, <1>2, NoCheckType DEF ServerInv, ServerTypes, Phases
<1>4. Resolution' = Resolution /\ Texts' = Texts
  BY <1>2, ReferenceSame
<1>5. TargetsSound' /\ CatalogSound' /\ FilesSound'
  BY <1>1, <1>2, <1>4 DEF ServerInv, TargetsSound, CatalogSound, CatNow, FilesSound
<1>6. /\ sent = Open \cup {p \in Keys : ds[p] # {}} \cup published
      /\ sent \subseteq Keys
      /\ \A k \in Keys : k \notin sent => shown[k] = {} /\ ds[k] = {}
  <2>1. sent = Open \cup {p \in Keys : ds[p] # {}} \cup published
    BY DEF Publishes
  <2>2. published = {k \in Keys : shown[k] # {}}
    BY DEF ServerInv, NothingForgotten
  <2> QED
    BY <2>1, <2>2 DEF Open, Keys
<1> HIDE DEF sent, ds
<1>7. NothingForgotten'
  BY <1>1, <1>6 DEF NothingForgotten
<1>8. MemosInvisible'
  <2> SUFFICES ASSUME ~dirty
               PROVE  /\ shown' = [k \in Keys |-> Truncated(Diagnosis'[k])]
                      /\ last' = [p \in Paths |->
                            IF p \in DOMAIN Texts' /\ Texts'[p] # Locked THEN Texts'[p] ELSE None]
    BY <1>2 DEF MemosInvisible
  <2>1. Diagnosis' = Diagnosis
    BY <1>2, <1>4 DEF Diagnosis, Sound, WithoutCatalog, WithCatalog, Taken, Described
  <2>2. ds = Diagnosis
    BY <1>1, ResolvedIs DEF ds
  <2>3. shown' = [k \in Keys |-> Truncated(ds[k])]
    <3>1. \A k \in Keys : shown'[k] = Truncated(ds[k])
      BY <1>1, <1>6, TruncatedEmpty
    <3> QED
      BY <1>1, <3>1
  <2>4. last' = SourcesNow
    BY <1>1 DEF ServerInv, FilesSound
  <2>5. \A p \in DOMAIN Texts : p \in Sound(Texts) <=> Texts[p] # Locked
    BY TextsAre, ServerAssumption DEF ServerInv, Sound
  <2>6. Sound(Texts) \subseteq DOMAIN Texts
    BY DEF Sound
  <2>7. SourcesNow = [p \in Paths |->
                        IF p \in DOMAIN Texts /\ Texts[p] # Locked THEN Texts[p] ELSE None]
    BY <2>5, <2>6 DEF SourcesNow
  <2> QED
    BY <1>4, <2>1, <2>2, <2>3, <2>4, <2>7
<1> QED
  BY <1>3, <1>5, <1>7, <1>8 DEF ServerInv

-----------------------------------------------------------------------------
(* Theorems.                                                               *)

\* Every step preserves the inductive invariant.
LEMMA NextServer ==
    ASSUME NoUnseenWrites
    PROVE  ServerInv /\ [Next]_vars => ServerInv'
<1> SUFFICES ASSUME ServerInv, [Next]_vars PROVE ServerInv'
  OBVIOUS
<1>1. CASE Others
  BY <1>1, SaveFileKeeps, MoveFileKeeps, EditSchemaKeeps, WriteCatalogKeeps, WriteEntryKeeps
     DEF Others
<1>2. CASE Message \/ Panic
  BY <1>2, MessageKeeps, ExitKeeps, PanicKeeps DEF Message
<1>3. CASE Checking
  BY <1>3, ReuseTargetsKeeps, WalkTargetsKeeps, StatTargetsKeeps, ReadFilesKeeps,
     ReuseCatalogKeeps, StatSchemaKeeps, LoadCatalogKeeps, RecordCatalogKeeps, PanicKeeps,
     ResolveAndPublishKeeps
     DEF Checking
<1>4. CASE UNCHANGED vars
  <2>1. /\ pc' = pc /\ check' = check /\ dirty' = dirty
        /\ overlay' = overlay /\ entries' = entries /\ last' = last
        /\ disk' = disk /\ dirSig' = dirSig /\ schema' = schema /\ catalog' = catalog
        /\ writes' = writes /\ published' = published /\ shown' = shown
        /\ memo' = memo /\ tgtMemo' = tgtMemo /\ catMemo' = catMemo
    BY <1>4 DEF vars, disks, memos
  <2>2. /\ Resolution' = Resolution /\ Texts' = Texts
        /\ SourcesNow' = SourcesNow /\ DupNow' = DupNow /\ DiagsNow' = DiagsNow
    BY <2>1, ReferenceSame
  <2>3. ServerTypes'
    BY <2>1 DEF ServerInv, ServerTypes
  <2>4. TargetsSound' /\ CatalogSound' /\ FilesSound' /\ NothingForgotten'
    BY <2>1, <2>2
       DEF ServerInv, TargetsSound, CatalogSound, CatNow, FilesSound, Checked, NothingForgotten
  <2>5. Diagnosis' = Diagnosis
    BY <2>1, <2>2 DEF Diagnosis, Sound, WithoutCatalog, WithCatalog, Taken, Described
  <2>6. MemosInvisible'
    BY <2>1, <2>2, <2>5 DEF ServerInv, MemosInvisible
  <2> QED
    BY <2>3, <2>4, <2>6 DEF ServerInv
<1> QED
  BY <1>1, <1>2, <1>3, <1>4 DEF Next

\* The inductive invariant holds in every reachable state of a server whose
\* directories and catalog file are written between two messages only; texts,
\* schema and entries may be written at any moment.
THEOREM ServerInvariance == ASSUME NoUnseenWrites PROVE Spec => []ServerInv
BY InitServer, NextServer, PTL DEF Spec

\* After a check over a disk that has not changed since it began, the client
\* shows what the files and buffers are worth, whatever the memos held.
THEOREM MemosNeverShow == ASSUME NoUnseenWrites PROVE Spec => []MemosInvisible
BY ServerInvariance, PTL DEF ServerInv

\* The record of what the client displays is exact, whatever is written when:
\* a path is cleared before it is forgotten.
THEOREM NothingIsForgotten == Spec => []NothingForgotten
<1>1. Init => NothingForgotten
  BY DEF Init, NothingForgotten
<1>2. ASSUME NothingForgotten, ResolveAndPublish PROVE NothingForgotten'
  <2> DEFINE ds == Resolved
             sent == Publishes(ds)
  <2>1. /\ shown' = [p \in Keys |-> IF p \in sent THEN Truncated(ds[p]) ELSE shown[p]]
        /\ published' = {p \in sent : Truncated(ds[p]) # {}}
    BY <1>2 DEF ResolveAndPublish
  <2>2. sent \subseteq Keys /\ \A k \in Keys : k \notin sent => shown[k] = {}
    BY <1>2 DEF Publishes, NothingForgotten, Open, Keys
  <2> HIDE DEF sent, ds
  <2> QED
    BY <2>1, <2>2 DEF NothingForgotten
<1>3. ASSUME NothingForgotten, Next, ~ResolveAndPublish PROVE NothingForgotten'
  <2>1. shown' = shown /\ published' = published
    BY <1>3 DEF Next, Others, SaveFile, MoveFile, EditSchema, WriteCatalog, WriteEntry, Write,
       Message, DidOpenOrChange, DidSave, DidClose, BeginCheck, Exit, Checking, ReuseTargets,
       WalkTargets, StatTargets, ReadFiles, ReuseCatalog, StatSchema, LoadCatalog,
       RecordCatalog, ResolvePanics, Panic
  <2> QED
    BY <1>3, <2>1 DEF NothingForgotten
<1>4. ASSUME NothingForgotten, UNCHANGED vars PROVE NothingForgotten'
  BY <1>4 DEF vars, NothingForgotten
<1>5. NothingForgotten /\ [Next]_vars => NothingForgotten'
  BY <1>2, <1>3, <1>4
<1> QED
  BY <1>1, <1>5, PTL DEF Spec
=============================================================================
