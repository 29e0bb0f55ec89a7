------------------------ MODULE ComposedCacheProofs ------------------------
(***************************************************************************)
(* Proofs about ComposedCache, for any number of goroutines, queries, keys *)
(* and capacity, and for any map-key encoding that satisfies               *)
(* CacheAssumption.                                                        *)
(***************************************************************************)
EXTENDS ComposedCache, Sums, SequenceTheorems, FiniteSetTheorems, TLAPS

(* Facts about the recency list. *)

\* Removing a listed element closes the gap it leaves.
LEMMA RemovedShape ==
  ASSUME NEW T, NEW s \in Seq(T), NEW e, \E i \in DOMAIN s : s[i] = e
  PROVE  /\ PositionOf(s, e) \in 1..Len(s) /\ s[PositionOf(s, e)] = e
         /\ Removed(s, e) \in Seq(T) /\ Len(Removed(s, e)) = Len(s) - 1
         /\ DOMAIN Removed(s, e) = 1..(Len(s) - 1)
         /\ \A i \in 1..(PositionOf(s, e) - 1) : Removed(s, e)[i] = s[i]
         /\ \A i \in PositionOf(s, e)..(Len(s) - 1) : Removed(s, e)[i] = s[i + 1]
<1> DEFINE p == PositionOf(s, e)
           a == SubSeq(s, 1, p - 1)
           b == SubSeq(s, p + 1, Len(s))
<1>1. /\ DOMAIN s = 1..Len(s) /\ Len(s) \in Nat
      /\ p \in 1..Len(s) /\ s[p] = e
  BY LenProperties DEF PositionOf
<1>2. /\ a \in Seq(T) /\ Len(a) = p - 1
      /\ \A i \in 1..(p - 1) : a[i] = s[i]
  BY <1>1, SubSeqProperties
<1>3. /\ b \in Seq(T) /\ Len(b) = Len(s) - p
      /\ \A i \in 1..(Len(s) - p) : b[i] = s[p + i]
  BY <1>1, SubSeqProperties
<1>4. Removed(s, e) = a \o b
  BY DEF Removed, RemoveAt
<1> HIDE DEF p, a, b
<1>5. /\ a \o b \in Seq(T) /\ Len(a \o b) = Len(s) - 1
      /\ DOMAIN (a \o b) = 1..(Len(s) - 1)
      /\ \A i \in 1..(p - 1) : (a \o b)[i] = s[i]
      /\ \A i \in p..(Len(s) - 1) : (a \o b)[i] = s[i + 1]
  <2>1. /\ a \o b \in Seq(T)
        /\ Len(a \o b) = Len(a) + Len(b)
        /\ \A i \in 1..(Len(a) + Len(b)) :
             (a \o b)[i] = IF i <= Len(a) THEN a[i] ELSE b[i - Len(a)]
    BY <1>2, <1>3, ConcatProperties
  <2>2. Len(a) + Len(b) = Len(s) - 1
    BY <1>1, <1>2, <1>3
  <2>3. DOMAIN (a \o b) = 1..(Len(s) - 1)
    BY <2>1, <2>2, LenProperties
  <2>4. ASSUME NEW i \in 1..(p - 1) PROVE (a \o b)[i] = s[i]
    BY <1>1, <1>2, <2>1, <2>2
  <2>5. ASSUME NEW i \in p..(Len(s) - 1) PROVE (a \o b)[i] = s[i + 1]
    <3>1. /\ i \in 1..(Len(a) + Len(b)) /\ ~(i <= Len(a))
          /\ i - Len(a) \in 1..(Len(s) - p) /\ p + (i - Len(a)) = i + 1
      BY <1>1, <1>2, <2>2
    <3>2. (a \o b)[i] = b[i - Len(a)]
      BY <2>1, <3>1
    <3> QED BY <1>3, <3>1, <3>2
  <2> QED BY <2>1, <2>2, <2>3, <2>4, <2>5
<1> QED BY <1>1, <1>4, <1>5 DEF p

\* ... and keeps a list of the same elements, minus it.
LEMMA RemovedList ==
  ASSUME NEW T, NEW s \in Seq(T), NEW e, \E i \in DOMAIN s : s[i] = e
  PROVE  /\ Removed(s, e) \in Seq(T)
         /\ Len(Removed(s, e)) = Len(s) - 1
         /\ \A i \in DOMAIN s : s[i] # e =>
              \E j \in DOMAIN Removed(s, e) : Removed(s, e)[j] = s[i]
<1> DEFINE p == PositionOf(s, e)
           r == Removed(s, e)
<1>1. DOMAIN s = 1..Len(s) /\ Len(s) \in Nat
  BY LenProperties
<1>2. /\ p \in 1..Len(s) /\ s[p] = e
      /\ r \in Seq(T) /\ Len(r) = Len(s) - 1 /\ DOMAIN r = 1..(Len(s) - 1)
      /\ \A i \in 1..(p - 1) : r[i] = s[i]
      /\ \A i \in p..(Len(s) - 1) : r[i] = s[i + 1]
  BY RemovedShape
<1> HIDE DEF p, r
<1>3. ASSUME NEW i \in 1..Len(s), s[i] # e
      PROVE  \E j \in 1..(Len(s) - 1) : r[j] = s[i]
  <2>1. CASE i < p
    <3>1. i \in 1..(p - 1) /\ i \in 1..(Len(s) - 1)
      BY <1>1, <1>2, <2>1
    <3>2. r[i] = s[i]
      BY <1>2, <3>1
    <3> QED BY <3>1, <3>2
  <2>2. CASE i > p
    <3> DEFINE k == i - 1
    <3>1. k \in p..(Len(s) - 1) /\ k \in 1..(Len(s) - 1) /\ k + 1 = i
      BY <1>1, <1>2, <2>2
    <3> HIDE DEF k
    <3>2. r[k] = s[i]
      BY <1>2, <3>1
    <3> QED BY <3>1, <3>2
  <2>3. i # p
    BY <1>2, <1>3
  <2>4. i < p \/ i > p
    BY <1>1, <1>2, <2>3
  <2> QED BY <2>1, <2>2, <2>4
<1>4. \A i \in DOMAIN s : s[i] # e => \E j \in DOMAIN r : r[j] = s[i]
  BY <1>1, <1>2, <1>3
<1> QED BY <1>2, <1>4 DEF r

\* Moving a listed element to the front loses no element.
LEMMA MovedList ==
  ASSUME NEW T, NEW s \in Seq(T), NEW e \in T, \E i \in DOMAIN s : s[i] = e
  PROVE  /\ MovedToFront(s, e) \in Seq(T)
         /\ MovedToFront(s, e) # <<>>
         /\ \A i \in DOMAIN s :
              \E j \in DOMAIN MovedToFront(s, e) : MovedToFront(s, e)[j] = s[i]
<1> DEFINE r == Removed(s, e)
           f == <<e>> \o r
<1>1. r \in Seq(T) /\ Len(r) \in Nat /\ DOMAIN r = 1..Len(r)
  BY RemovedList, LenProperties
<1>2. <<e>> \in Seq(T) /\ Len(<<e>>) = 1 /\ <<e>>[1] = e
  OBVIOUS
<1>3. /\ f \in Seq(T) /\ Len(f) = Len(r) + 1 /\ DOMAIN f = 1..(Len(r) + 1)
      /\ f[1] = e
      /\ \A j \in 1..Len(r) : f[j + 1] = r[j]
  BY <1>1, <1>2, ConcatProperties, LenProperties
<1>4. f # <<>>
  BY <1>1, <1>3
<1>5. ASSUME NEW i \in DOMAIN s PROVE \E j \in DOMAIN f : f[j] = s[i]
  <2>1. CASE s[i] = e
    BY <1>1, <1>3, <2>1
  <2>2. CASE s[i] # e
    <3>1. PICK j \in DOMAIN r : r[j] = s[i]
      BY <2>2, RemovedList
    <3>2. j + 1 \in DOMAIN f /\ f[j + 1] = s[i]
      BY <1>1, <1>3, <3>1
    <3> QED BY <3>2
  <2> QED BY <2>1, <2>2
<1> QED BY <1>3, <1>4, <1>5 DEF MovedToFront

\* Pushing a new element loses no element.
LEMMA PushedList ==
  ASSUME NEW T, NEW s \in Seq(T), NEW e \in T
  PROVE  /\ <<e>> \o s \in Seq(T)
         /\ (<<e>> \o s)[1] = e /\ 1 \in DOMAIN (<<e>> \o s)
         /\ \A i \in DOMAIN s : \E j \in DOMAIN (<<e>> \o s) : (<<e>> \o s)[j] = s[i]
<1>1. Len(s) \in Nat /\ DOMAIN s = 1..Len(s)
  BY LenProperties
<1>2. <<e>> \in Seq(T) /\ Len(<<e>>) = 1 /\ <<e>>[1] = e
  OBVIOUS
<1>3. /\ <<e>> \o s \in Seq(T) /\ DOMAIN (<<e>> \o s) = 1..(Len(s) + 1)
      /\ (<<e>> \o s)[1] = e
      /\ \A j \in 1..Len(s) : (<<e>> \o s)[j + 1] = s[j]
  BY <1>1, <1>2, ConcatProperties, LenProperties
<1>4. ASSUME NEW i \in DOMAIN s
      PROVE  \E j \in DOMAIN (<<e>> \o s) : (<<e>> \o s)[j] = s[i]
  <2>1. i + 1 \in DOMAIN (<<e>> \o s) /\ (<<e>> \o s)[i + 1] = s[i]
    BY <1>1, <1>3
  <2> QED BY <2>1
<1> QED BY <1>1, <1>3, <1>4
-----------------------------------------------------------------------------
(* The inductive invariant. *)

\* Entries sit under their own map key, in the map and in the snapshot.
OwnKey ==
  \A k \in Encodings : /\ m[k] # NoEntry => MapKey(m[k]) = k
                       /\ fast[k] # NoEntry => MapKey(fast[k]) = k

\* Only shapes that compose were ever inserted.
Composable == \A e \in Positions : ShapeOf(e) \notin TooLong

\* Every resident entry is in the recency list.
Listed ==
  \A k \in Encodings : m[k] # NoEntry => \E i \in DOMAIN order : order[i] = m[k]

\* What a goroutine's label says about its local variables.
Phase(g) ==
  /\ pc[g] \in {"idle", "scrape"} => req[g] = NoCall /\ ent[g] = NoEntry
  /\ pc[g] = "refuse" => req[g] # NoCall /\ ~req[g].ok /\ ent[g] = NoEntry
  /\ pc[g] \in {"lock", "compose", "insert"} =>
       req[g] # NoCall /\ req[g].ok /\ ent[g] = NoEntry
  /\ pc[g] = "insert" => Shape(req[g]) \notin TooLong
  /\ pc[g] \in {"evict", "sweep"} => (req[g] # NoCall <=> ent[g] # NoEntry)
  /\ pc[g] \in {"touch", "touchTwin", "count", "observe"} =>
       req[g] # NoCall /\ ent[g] # NoEntry
  /\ req[g] # NoCall /\ ent[g] # NoEntry => req[g].ok
Phases == \A g \in Goroutines : Phase(g)

\* Exactly the goroutine inside a multi-step critical section holds the mutex.
Exclusive == \A g \in Goroutines : pc[g] \in {"insert", "evict", "sweep"} <=> mu = g

\* The hand has something to look at, and len(m) is a number.
Sweepable == \A g \in Goroutines : pc[g] = "sweep" => order # <<>>
FiniteMap == IsFiniteSet(Resident)

IndInv == /\ TypeOK /\ OwnKey /\ Composable /\ Listed /\ Phases
          /\ Exclusive /\ Sweepable /\ FiniteMap /\ ServedMatches
-----------------------------------------------------------------------------
(* How the parts of a step preserve it. *)

\* An entry keeps its shape when its bit or its counter changes.
LEMMA EntryUpdated ==
  ASSUME IndInv, NEW e \in Positions, NEW f \in Entry,
         f.src = heap[e].src, f.key = heap[e].key, heap' = [heap EXCEPT ![e] = f]
  PROVE  /\ heap' \in Seq(Entry)
         /\ Positions' = Positions
         /\ \A x \in Positions : ShapeOf(x)' = ShapeOf(x)
<1>1. heap \in Seq(Entry) /\ DOMAIN heap = 1..Len(heap)
  BY LenProperties DEF IndInv, TypeOK
<1>2. heap' \in Seq(Entry)
  BY <1>1, ExceptSeq DEF Positions
<1> QED BY <1>1, <1>2 DEF Positions, ShapeOf

\* The shapes behind the map and the snapshot are the same as before.
LEMMA ShapesSame ==
  ASSUME IndInv, Positions' = Positions, \A x \in Positions : ShapeOf(x)' = ShapeOf(x)
  PROVE  /\ Composable'
         /\ UNCHANGED <<m, fast>> => OwnKey' /\ FiniteMap'
         /\ UNCHANGED <<m, order>> => Listed'
         /\ UNCHANGED m /\ fast' = m => OwnKey' /\ FiniteMap'
<1>1. Composable'
  BY DEF IndInv, Composable
<1>2. \A k \in Encodings : /\ m[k] # NoEntry => m[k] \in Positions
                           /\ fast[k] # NoEntry => fast[k] \in Positions
  BY DEF IndInv, TypeOK
<1>3. UNCHANGED <<m, fast>> => OwnKey'
  BY <1>2 DEF IndInv, OwnKey, MapKey
<1>4. UNCHANGED m /\ fast' = m => OwnKey'
  BY <1>2 DEF IndInv, OwnKey, MapKey
<1>5. UNCHANGED m => FiniteMap'
  BY DEF IndInv, FiniteMap, Resident
<1>6. UNCHANGED <<m, order>> => Listed'
  BY DEF IndInv, Listed
<1> QED BY <1>1, <1>3, <1>4, <1>5, <1>6

LEMMA EntriesSame ==
  ASSUME IndInv, UNCHANGED heap
  PROVE  Positions' = Positions /\ \A x \in Positions : ShapeOf(x)' = ShapeOf(x)
BY DEF Positions, ShapeOf

\* A lookup that compares the full key finds an entry of the very shape.
LEMMA LookupMatches ==
  ASSUME IndInv, NEW c \in Calls
  PROVE  /\ Found(c) # NoEntry => /\ Found(c) \in Positions
                                  /\ ShapeOf(Found(c)) = Shape(c)
                                  /\ \E i \in DOMAIN order : order[i] = Found(c)
         /\ FastHit(c) # NoEntry => /\ FastHit(c) \in Positions
                                    /\ ShapeOf(FastHit(c)) = Shape(c)
<1>1. /\ Shape(c) \in Shapes /\ Shape(c).key = c.key
      /\ Encode[Shape(c)] \in Encodings
  BY CacheAssumption DEF Shape, Shapes
<1>2. \A e \in Positions : ShapeOf(e) \in Shapes /\ ShapeOf(e).key = heap[e].key
  <2>1. \A e \in Positions : heap[e] \in Entry
    BY ElementOfSeq, LenProperties DEF IndInv, TypeOK, Positions
  <2> QED BY <2>1 DEF ShapeOf, Shapes, Entry
<1>3. ASSUME Found(c) # NoEntry
      PROVE  /\ Found(c) \in Positions /\ ShapeOf(Found(c)) = Shape(c)
             /\ \E i \in DOMAIN order : order[i] = Found(c)
  <2>1. Found(c) = m[Encode[Shape(c)]] /\ heap[Found(c)].key = c.key
    BY <1>3 DEF Found
  <2>2. Found(c) \in Positions /\ \E i \in DOMAIN order : order[i] = Found(c)
    BY <1>1, <1>3, <2>1 DEF IndInv, TypeOK, Listed
  <2>3. Encode[ShapeOf(Found(c))] = Encode[Shape(c)]
    BY <1>1, <1>3, <2>1 DEF IndInv, OwnKey, MapKey
  <2>4. ShapeOf(Found(c)) = Shape(c)
    BY <1>1, <1>2, <2>1, <2>2, <2>3, CacheAssumption
  <2> QED BY <2>2, <2>4
<1>4. ASSUME FastHit(c) # NoEntry
      PROVE  FastHit(c) \in Positions /\ ShapeOf(FastHit(c)) = Shape(c)
  <2>1. FastHit(c) = fast[Encode[Shape(c)]] /\ heap[FastHit(c)].key = c.key
    BY <1>4 DEF FastHit
  <2>2. FastHit(c) \in Positions
    BY <1>1, <1>4, <2>1 DEF IndInv, TypeOK
  <2>3. Encode[ShapeOf(FastHit(c))] = Encode[Shape(c)]
    BY <1>1, <1>4, <2>1 DEF IndInv, OwnKey, MapKey
  <2>4. ShapeOf(FastHit(c)) = Shape(c)
    BY <1>1, <1>2, <2>1, <2>2, <2>3, CacheAssumption
  <2> QED BY <2>2, <2>4
<1> QED BY <1>3, <1>4

\* A resident entry moved to the front.
LEMMA MoveStep ==
  ASSUME IndInv, NEW e \in Positions, \E i \in DOMAIN order : order[i] = e,
         order' = MovedToFront(order, e), UNCHANGED m
  PROVE  order' \in Seq(Positions) /\ order' # <<>> /\ Listed'
<1>1. order \in Seq(Positions)
  BY DEF IndInv, TypeOK
<1>2. /\ order' \in Seq(Positions) /\ order' # <<>>
      /\ \A i \in DOMAIN order : \E j \in DOMAIN order' : order'[j] = order[i]
  BY <1>1, MovedList
<1> QED BY <1>2 DEF IndInv, Listed

\* remove(e) of a listed entry.
LEMMA RemoveStep ==
  ASSUME IndInv, NEW e \in Positions, \E i \in DOMAIN order : order[i] = e,
         RemoveEntry(e), UNCHANGED <<heap, fast>>
  PROVE  /\ order' \in Seq(Positions)
         /\ m' \in [Encodings -> Positions \cup {NoEntry}]
         /\ hitsFolded' \in Nat /\ totalBytes' \in Int /\ evictedSince' = TRUE
         /\ OwnKey' /\ Composable' /\ Listed' /\ FiniteMap'
<1>1. /\ order \in Seq(Positions) /\ m \in [Encodings -> Positions \cup {NoEntry}]
      /\ hitsFolded \in Nat /\ totalBytes \in Int
  BY DEF IndInv, TypeOK
<1>2. heap[e] \in Entry
  BY ElementOfSeq, LenProperties DEF IndInv, TypeOK, Positions
<1>3. ShapeOf(e) \in Shapes /\ Bytes[ShapeOf(e)] \in Nat /\ heap[e].hits \in Nat
  BY <1>2, CacheAssumption DEF ShapeOf, Shapes, Entry
<1>4. /\ order' \in Seq(Positions)
      /\ \A i \in DOMAIN order : order[i] # e =>
           \E j \in DOMAIN order' : order'[j] = order[i]
  BY <1>1, RemovedList DEF RemoveEntry
<1>5. /\ m' \in [Encodings -> Positions \cup {NoEntry}]
      /\ \A k \in Encodings : m'[k] # NoEntry => m'[k] = m[k] /\ k # MapKey(e)
  BY <1>1 DEF RemoveEntry
<1>6. /\ hitsFolded' \in Nat /\ totalBytes' \in Int /\ evictedSince' = TRUE
  BY <1>1, <1>3 DEF RemoveEntry
<1>7. Composable'
  BY EntriesSame DEF IndInv, Composable
<1>8. OwnKey'
  BY <1>5 DEF IndInv, OwnKey, MapKey, ShapeOf
<1>9. Listed'
  BY <1>4, <1>5 DEF IndInv, Listed, OwnKey
<1>10. FiniteMap'
  <2>1. Resident' \subseteq Resident
    BY <1>5 DEF Resident
  <2> QED BY <2>1, FS_Subset DEF IndInv, FiniteMap
<1> QED BY <1>4, <1>5, <1>6, <1>7, <1>8, <1>9, <1>10

\* Dropping the entry that shares the map key, if there is one.
LEMMA DropStep ==
  ASSUME IndInv, NEW c \in Calls, DropColliding(c), UNCHANGED <<heap, fast>>
  PROVE  /\ order' \in Seq(Positions)
         /\ m' \in [Encodings -> Positions \cup {NoEntry}]
         /\ hitsFolded' \in Nat /\ totalBytes' \in Int /\ evictedSince' \in BOOLEAN
         /\ OwnKey' /\ Composable' /\ Listed' /\ FiniteMap'
<1> DEFINE e == m[Encode[Shape(c)]]
<1>1. Encode[Shape(c)] \in Encodings
  BY CacheAssumption DEF Shape, Shapes
<1>2. CASE e = NoEntry
  <2>1. UNCHANGED <<order, m, hitsFolded, totalBytes, evictedSince>>
    BY <1>2 DEF DropColliding
  <2>2. Composable' /\ OwnKey' /\ FiniteMap' /\ Listed'
    BY <2>1, EntriesSame, ShapesSame
  <2> QED BY <2>1, <2>2 DEF IndInv, TypeOK
<1>3. CASE e # NoEntry
  <2>1. e \in Positions /\ \E i \in DOMAIN order : order[i] = e
    BY <1>1, <1>3 DEF IndInv, TypeOK, Listed
  <2>2. RemoveEntry(e)
    BY <1>3 DEF DropColliding
  <2> QED BY <2>1, <2>2, RemoveStep
<1> QED BY <1>2, <1>3
-----------------------------------------------------------------------------
(* One lemma per action, or per group of actions that change the same state. *)

LEMMA CallStep ==
  ASSUME IndInv, NEW g \in Goroutines, NEW c \in Calls, Call(g, c)
  PROVE  IndInv'
<1>1. UNCHANGED <<heap, fast, m, order, mu>>
  BY DEF Call, entries
<1>2. /\ Positions' = Positions /\ \A x \in Positions : ShapeOf(x)' = ShapeOf(x)
      /\ OwnKey' /\ Composable' /\ Listed' /\ FiniteMap'
  BY <1>1, EntriesSame, ShapesSame
<1>3. /\ FastHit(c) # NoEntry => FastHit(c) \in Positions /\ ShapeOf(FastHit(c)) = Shape(c)
      /\ c # NoCall
  BY LookupMatches, NoCallAssumption
<1>4. TypeOK'
  BY <1>1, <1>2, <1>3 DEF IndInv, TypeOK, Call, Goto, snapInfo, bytes, obsInfo, stats, Labels
<1>5. Phases'
  BY <1>3 DEF IndInv, TypeOK, Call, Goto, Phases, Phase, Valid
<1>6. Exclusive' /\ Sweepable'
  BY <1>1 DEF IndInv, TypeOK, Call, Goto, Exclusive, Sweepable
<1>7. ServedMatches'
  BY <1>2, <1>3 DEF IndInv, TypeOK, Call, Goto, ServedMatches, Phases, Phase
<1> QED BY <1>2, <1>4, <1>5, <1>6, <1>7 DEF IndInv

\* The three ways out of entry().
LEMMA ReturnStep ==
  ASSUME IndInv, NEW g \in Goroutines, Refuse(g) \/ ComposeFails(g) \/ Observe(g)
  PROVE  IndInv'
<1>1. UNCHANGED <<heap, fast, m, order, mu>>
  BY DEF Refuse, ComposeFails, Observe, entries
<1>2. /\ Positions' = Positions /\ \A x \in Positions : ShapeOf(x)' = ShapeOf(x)
      /\ OwnKey' /\ Composable' /\ Listed' /\ FiniteMap'
  BY <1>1, EntriesSame, ShapesSame
<1>3. PICK r \in {NoReply, Refused} \cup {Statement(s) : s \in Shapes} : Return(g, r)
  <2>1. CASE Observe(g)
    <3>1. ent[g] \in Positions
      BY <2>1 DEF Observe, IndInv, TypeOK, Phases, Phase
    <3>2. ShapeOf(ent[g]) \in Shapes
      <4>1. heap[ent[g]] \in Entry
        BY <3>1, ElementOfSeq, LenProperties DEF IndInv, TypeOK, Positions
      <4> QED BY <4>1 DEF ShapeOf, Shapes, Entry
    <3> QED BY <2>1, <3>2 DEF Observe
  <2> QED BY <2>1 DEF Refuse, ComposeFails
<1>4. TypeOK'
  BY <1>1, <1>2, <1>3 DEF IndInv, TypeOK, Refuse, ComposeFails, Observe, Return, Goto,
     snapInfo, bytes, obsInfo, stats, Labels
<1>5. Phases'
  BY <1>3 DEF IndInv, TypeOK, Return, Goto, Phases, Phase
<1>6. Exclusive' /\ Sweepable'
  BY <1>1, <1>3 DEF IndInv, TypeOK, Refuse, ComposeFails, Observe, Return, Goto,
     Exclusive, Sweepable
<1>7. ServedMatches'
  BY <1>2, <1>3 DEF IndInv, TypeOK, Return, Goto, ServedMatches
<1> QED BY <1>2, <1>4, <1>5, <1>6, <1>7 DEF IndInv

LEMMA DeferredHitStep ==
  ASSUME IndInv, NEW g \in Goroutines, DeferredHit(g)
  PROVE  IndInv'
<1> DEFINE e == Found(req[g])
<1>1. /\ req[g] \in Calls /\ req[g].ok /\ e # NoEntry
      /\ order' = MovedToFront(order, e) /\ UNCHANGED <<heap, m, mu>>
  BY DEF DeferredHit, IndInv, TypeOK, Phases, Phase
<1>2. /\ e \in Positions /\ ShapeOf(e) = Shape(req[g])
      /\ \E i \in DOMAIN order : order[i] = e
  BY <1>1, LookupMatches
<1>3. order' \in Seq(Positions) /\ order' # <<>> /\ Listed'
  BY <1>1, <1>2, MoveStep
<1>4. fast' = fast \/ fast' = m
  BY DEF DeferredHit, PublishNow
<1>5. /\ Positions' = Positions /\ \A x \in Positions : ShapeOf(x)' = ShapeOf(x)
      /\ OwnKey' /\ Composable' /\ FiniteMap'
  BY <1>1, <1>4, EntriesSame, ShapesSame
<1> HIDE DEF e
<1>6. ent' = [ent EXCEPT ![g] = e] /\ pc' = [pc EXCEPT ![g] = "touch"]
  BY DEF DeferredHit, Goto, e
<1>7. TypeOK'
  <2>1. /\ sinceSnap' \in Nat /\ pendingHits' \in Nat
        /\ evictedSince' \in BOOLEAN /\ hitFlushCredit' \in BOOLEAN
    <3>1. CASE FlushDue
      <4>1. PublishNow(FALSE)
        BY <3>1 DEF DeferredHit
      <4> QED BY <4>1 DEF PublishNow
    <3>2. CASE ~FlushDue
      BY <3>2 DEF DeferredHit, IndInv, TypeOK
    <3> QED BY <3>1, <3>2
  <2>2. heap' \in Seq(Entry) /\ fast' \in [Encodings -> Positions' \cup {NoEntry}]
        /\ m' \in [Encodings -> Positions' \cup {NoEntry}]
    BY <1>1, <1>4, <1>5 DEF IndInv, TypeOK
  <2> QED BY <1>2, <1>3, <1>5, <1>6, <2>1, <2>2
      DEF DeferredHit, IndInv, TypeOK, bytes, obsInfo, stats, Labels
<1>8. Phases'
  BY <1>1, <1>6 DEF DeferredHit, IndInv, TypeOK, Phases, Phase
<1>9. Exclusive' /\ Sweepable'
  BY <1>1, <1>3, <1>6 DEF DeferredHit, IndInv, TypeOK, Exclusive, Sweepable
<1>10. ServedMatches'
  BY <1>2, <1>5, <1>6 DEF DeferredHit, IndInv, TypeOK, ServedMatches
<1> QED BY <1>3, <1>5, <1>7, <1>8, <1>9, <1>10 DEF IndInv

LEMMA FirstMissStep ==
  ASSUME IndInv, NEW g \in Goroutines, FirstMiss(g)
  PROVE  IndInv'
<1>1. /\ req[g] \in Calls /\ req[g].ok /\ ent[g] = NoEntry
      /\ pc' = [pc EXCEPT ![g] = "compose"]
      /\ DropColliding(req[g]) /\ UNCHANGED <<heap, fast, mu>> /\ mu = NoOne
  BY DEF FirstMiss, Goto, Locked, IndInv, TypeOK, Phases, Phase
<1>2. /\ order' \in Seq(Positions)
      /\ m' \in [Encodings -> Positions \cup {NoEntry}]
      /\ hitsFolded' \in Nat /\ totalBytes' \in Int /\ evictedSince' \in BOOLEAN
      /\ OwnKey' /\ Composable' /\ Listed' /\ FiniteMap'
  BY <1>1, DropStep
<1>3. Positions' = Positions /\ \A x \in Positions : ShapeOf(x)' = ShapeOf(x)
  BY <1>1, EntriesSame
<1>4. TypeOK'
  BY <1>1, <1>2, <1>3 DEF FirstMiss, IndInv, TypeOK, obsInfo, Labels
<1>5. Phases'
  BY <1>1 DEF FirstMiss, IndInv, TypeOK, Phases, Phase
<1>6. Exclusive' /\ Sweepable'
  BY <1>1, NoOneAssumption DEF FirstMiss, IndInv, TypeOK, Exclusive, Sweepable
<1>7. ServedMatches'
  BY <1>3 DEF FirstMiss, IndInv, TypeOK, ServedMatches
<1> QED BY <1>2, <1>4, <1>5, <1>6, <1>7 DEF IndInv

LEMMA RacedStep ==
  ASSUME IndInv, NEW g \in Goroutines, Raced(g)
  PROVE  IndInv'
<1> DEFINE e == Found(req[g])
<1>1. /\ req[g] \in Calls /\ req[g].ok /\ e # NoEntry
      /\ order' = MovedToFront(order, e) /\ UNCHANGED <<heap, fast, m, mu>>
  BY DEF Raced, IndInv, TypeOK, Phases, Phase
<1>2. /\ e \in Positions /\ ShapeOf(e) = Shape(req[g])
      /\ \E i \in DOMAIN order : order[i] = e
  BY <1>1, LookupMatches
<1>3. order' \in Seq(Positions) /\ order' # <<>> /\ Listed'
  BY <1>1, <1>2, MoveStep
<1>4. /\ Positions' = Positions /\ \A x \in Positions : ShapeOf(x)' = ShapeOf(x)
      /\ OwnKey' /\ Composable' /\ FiniteMap'
  BY <1>1, EntriesSame, ShapesSame
<1> HIDE DEF e
<1>5. ent' = [ent EXCEPT ![g] = e] /\ pc' = [pc EXCEPT ![g] = "touchTwin"]
  BY DEF Raced, Goto, e
<1>6. TypeOK'
  BY <1>1, <1>2, <1>3, <1>4, <1>5
     DEF Raced, IndInv, TypeOK, snapInfo, bytes, obsInfo, Labels
<1>7. Phases'
  BY <1>1, <1>5 DEF Raced, IndInv, TypeOK, Phases, Phase
<1>8. Exclusive' /\ Sweepable'
  BY <1>1, <1>3, <1>5 DEF Raced, IndInv, TypeOK, Exclusive, Sweepable
<1>9. ServedMatches'
  BY <1>2, <1>4, <1>5 DEF Raced, IndInv, TypeOK, ServedMatches
<1> QED BY <1>3, <1>4, <1>6, <1>7, <1>8, <1>9 DEF IndInv

LEMMA RelockStep ==
  ASSUME IndInv, NEW g \in Goroutines, Relock(g)
  PROVE  IndInv'
<1>1. /\ req[g] \in Calls /\ req[g].ok /\ ent[g] = NoEntry /\ Shape(req[g]) \notin TooLong
      /\ pc' = [pc EXCEPT ![g] = "insert"] /\ mu = NoOne /\ mu' = g
      /\ DropColliding(req[g]) /\ UNCHANGED <<heap, fast>>
  BY DEF Relock, Goto, Locked, IndInv, TypeOK, Phases, Phase
<1>2. /\ order' \in Seq(Positions)
      /\ m' \in [Encodings -> Positions \cup {NoEntry}]
      /\ hitsFolded' \in Nat /\ totalBytes' \in Int /\ evictedSince' \in BOOLEAN
      /\ OwnKey' /\ Composable' /\ Listed' /\ FiniteMap'
  BY <1>1, DropStep
<1>3. Positions' = Positions /\ \A x \in Positions : ShapeOf(x)' = ShapeOf(x)
  BY <1>1, EntriesSame
<1>4. TypeOK'
  BY <1>1, <1>2, <1>3 DEF Relock, IndInv, TypeOK, obsInfo, Labels
<1>5. Phases'
  BY <1>1 DEF Relock, IndInv, TypeOK, Phases, Phase
<1>6. Exclusive' /\ Sweepable'
  BY <1>1, NoOneAssumption DEF Relock, IndInv, TypeOK, Exclusive, Sweepable
<1>7. ServedMatches'
  BY <1>3 DEF Relock, IndInv, TypeOK, ServedMatches
<1> QED BY <1>2, <1>4, <1>5, <1>6, <1>7 DEF IndInv

LEMMA InsertStep ==
  ASSUME IndInv, NEW g \in Goroutines, Insert(g)
  PROVE  IndInv'
<1>a. PICK new : new = Len(heap) + 1
  OBVIOUS
<1>b. PICK k : k = Encode[Shape(req[g])]
  OBVIOUS
<1>1. /\ req[g] \in Calls /\ req[g].ok /\ Shape(req[g]) \notin TooLong
      /\ heap' = Append(heap, NewEntry(req[g]))
      /\ order' = <<new>> \o order
      /\ m' = [m EXCEPT ![k] = new]
      /\ ent' = [ent EXCEPT ![g] = new]
      /\ pc' = [pc EXCEPT ![g] = "evict"]
      /\ UNCHANGED <<fast, mu>>
  BY <1>a, <1>b DEF Insert, Goto, IndInv, TypeOK, Phases, Phase
<1>2. /\ Shape(req[g]) \in Shapes /\ k \in Encodings /\ NewEntry(req[g]) \in Entry
      /\ Bytes[Shape(req[g])] \in Nat
  BY <1>1, <1>b, CacheAssumption DEF Shape, Shapes, NewEntry, Entry
<1>3. /\ heap \in Seq(Entry) /\ Len(heap) \in Nat /\ Positions = 1..Len(heap)
      /\ order \in Seq(Positions) /\ m \in [Encodings -> Positions \cup {NoEntry}]
  BY LenProperties DEF IndInv, TypeOK, Positions
<1>4. /\ heap' \in Seq(Entry) /\ Positions' = 1..(Len(heap) + 1)
      /\ heap'[new] = NewEntry(req[g])
      /\ \A x \in 1..Len(heap) : heap'[x] = heap[x]
  BY <1>1, <1>2, <1>3, <1>a, AppendProperties, LenProperties DEF Positions
<1>5. /\ Positions \subseteq Positions' /\ new \in Positions' /\ new # NoEntry
      /\ \A x \in Positions : ShapeOf(x)' = ShapeOf(x)
      /\ ShapeOf(new)' = Shape(req[g])
  <2>1. /\ Positions \subseteq Positions' /\ new \in Positions' /\ new # NoEntry
        /\ \A x \in Positions : heap'[x] = heap[x]
    BY <1>3, <1>4, <1>a DEF NoEntry
  <2>2. \A x \in Positions : ShapeOf(x)' = ShapeOf(x)
    BY <2>1 DEF ShapeOf
  <2>3. ShapeOf(new)' = Shape(req[g])
    <3>1. heap'[new].src = req[g].src /\ heap'[new].key = req[g].key
      BY <1>4 DEF NewEntry
    <3> QED BY <3>1, <1>1 DEF ShapeOf, Shape
  <2> QED BY <2>1, <2>2, <2>3
<1>6. order \in Seq(Positions')
  BY <1>3, <1>5, SeqMonotonic
<1>7. /\ order' \in Seq(Positions') /\ order'[1] = new /\ 1 \in DOMAIN order'
      /\ \A i \in DOMAIN order : \E j \in DOMAIN order' : order'[j] = order[i]
  BY <1>1, <1>5, <1>6, PushedList
<1>8. /\ m' \in [Encodings -> Positions' \cup {NoEntry}] /\ m'[k] = new
      /\ \A x \in Encodings : x # k => m'[x] = m[x]
  BY <1>1, <1>2, <1>3, <1>5
<1>9. TypeOK'
  BY <1>1, <1>2, <1>4, <1>5, <1>7, <1>8
     DEF Insert, IndInv, TypeOK, snapInfo, obsInfo, stats, Labels
<1>10. OwnKey'
  <2>1. \A x \in Encodings : fast[x] # NoEntry => fast[x] \in Positions
    BY DEF IndInv, TypeOK
  <2>2. \A x \in Encodings : m[x] # NoEntry => m[x] \in Positions
    BY DEF IndInv, TypeOK
  <2>4. ASSUME NEW x \in Encodings, m'[x] # NoEntry PROVE MapKey(m[x])' = x
    <3>1. CASE x = k
      <4>1. MapKey(new)' = Encode[Shape(req[g])]
        BY <1>5 DEF MapKey
      <4> QED BY <1>8, <1>b, <3>1, <4>1 DEF MapKey, ShapeOf
    <3>2. CASE x # k
      BY <1>5, <1>8, <2>2, <2>4, <3>2 DEF IndInv, OwnKey, MapKey
    <3> QED BY <3>1, <3>2
  <2>5. ASSUME NEW x \in Encodings, fast'[x] # NoEntry PROVE MapKey(fast[x])' = x
    BY <1>1, <1>5, <2>1, <2>5 DEF IndInv, OwnKey, MapKey
  <2> QED BY <2>4, <2>5 DEF OwnKey
<1>11. Composable'
  <2>1. \A x \in Positions' : x \in Positions \/ x = new
    BY <1>3, <1>4, <1>a
  <2> QED BY <1>1, <1>5, <2>1 DEF IndInv, Composable
<1>12. Listed'
  BY <1>7, <1>8 DEF IndInv, Listed
<1>13. FiniteMap'
  <2>1. Resident' \subseteq Resident \cup {k}
    BY <1>8 DEF Resident
  <2> QED BY <2>1, FS_AddElement, FS_Subset DEF IndInv, FiniteMap
<1>14. Phases'
  BY <1>1, <1>5 DEF Insert, IndInv, TypeOK, Phases, Phase
<1>15. Exclusive' /\ Sweepable'
  <2>1. Exclusive'
    BY <1>1 DEF Insert, IndInv, TypeOK, Exclusive
  <2>2. \A h \in Goroutines : pc'[h] # "sweep"
    BY <1>1 DEF Insert, IndInv, TypeOK, Exclusive
  <2> QED BY <2>1, <2>2 DEF Sweepable
<1>16. ServedMatches'
  <2>1. \A h \in Goroutines : ent[h] # NoEntry => ent[h] \in Positions
    BY DEF IndInv, TypeOK
  <2> QED BY <1>1, <1>5, <2>1 DEF Insert, IndInv, TypeOK, ServedMatches
<1> QED BY <1>9, <1>10, <1>11, <1>12, <1>13, <1>14, <1>15, <1>16 DEF IndInv

LEMMA EvictOneStep ==
  ASSUME IndInv, NEW g \in Goroutines, EvictOne(g)
  PROVE  IndInv'
<1>1. /\ pc[g] = "evict" /\ pc' = [pc EXCEPT ![g] = "sweep"]
      /\ sweep' = Cardinality(Resident)
      /\ UNCHANGED <<heap, fast, m, order, mu, req, ent>>
  BY DEF EvictOne, Goto, entries
<1>2. /\ Positions' = Positions /\ \A x \in Positions : ShapeOf(x)' = ShapeOf(x)
      /\ OwnKey' /\ Composable' /\ Listed' /\ FiniteMap'
  BY <1>1, EntriesSame, ShapesSame
<1>3. Cardinality(Resident) \in Nat
  BY FS_CardinalityType DEF IndInv, FiniteMap
<1>4. order # <<>>
  <2>1. Cardinality(Resident) > 0
    BY <1>3, CacheAssumption DEF EvictOne, OverBound, OverBytes, OverCap
  <2>2. PICK k \in Encodings : m[k] # NoEntry
    BY <2>1, FS_EmptySet DEF Resident
  <2> QED BY <2>2 DEF IndInv, Listed
<1>5. TypeOK'
  BY <1>1, <1>2, <1>3 DEF EvictOne, IndInv, TypeOK, snapInfo, bytes, obsInfo, stats, Labels
<1>6. Phases'
  BY <1>1 DEF EvictOne, IndInv, TypeOK, Phases, Phase
<1>7. Exclusive' /\ Sweepable'
  BY <1>1, <1>4 DEF IndInv, TypeOK, Exclusive, Sweepable
<1>8. ServedMatches'
  BY <1>1, <1>2 DEF IndInv, TypeOK, ServedMatches
<1> QED BY <1>2, <1>5, <1>6, <1>7, <1>8 DEF IndInv

\* What the CLOCK hand points at is a listed entry.
LEMMA HandListed ==
  ASSUME IndInv, NEW g \in Goroutines, pc[g] = "sweep"
  PROVE  /\ Last(order) \in Positions
         /\ \E i \in DOMAIN order : order[i] = Last(order)
         /\ heap[Last(order)] \in Entry
<1>1. order \in Seq(Positions) /\ order # <<>> /\ heap \in Seq(Entry)
  BY DEF IndInv, TypeOK, Sweepable
<1>2. Len(order) \in DOMAIN order
  BY <1>1, EmptySeq, LenProperties
<1>3. order[Len(order)] \in Positions
  BY <1>1, <1>2, LenProperties
<1>4. heap[order[Len(order)]] \in Entry
  BY <1>1, <1>3, ElementOfSeq, LenProperties DEF Positions
<1> QED BY <1>2, <1>3, <1>4 DEF Last

LEMMA SecondChanceStep ==
  ASSUME IndInv, NEW g \in Goroutines, SecondChance(g)
  PROVE  IndInv'
<1>1. PICK e : e = Last(order)
  OBVIOUS
<1>2. PICK f : f = [heap[e] EXCEPT !.ref = FALSE]
  OBVIOUS
<1>3. /\ e \in Positions /\ \E i \in DOMAIN order : order[i] = e
      /\ heap[e] \in Entry
  BY <1>1, HandListed DEF SecondChance
<1>4. f \in Entry /\ f.src = heap[e].src /\ f.key = heap[e].key
  BY <1>2, <1>3 DEF Entry
<1>5. /\ heap' = [heap EXCEPT ![e] = f] /\ order' = MovedToFront(order, e)
      /\ sweep > 0 /\ sweep' = sweep - 1
      /\ UNCHANGED <<fast, m, mu, pc, req, ent>>
  BY <1>1, <1>2 DEF SecondChance
<1>6. /\ heap' \in Seq(Entry) /\ Positions' = Positions
      /\ \A x \in Positions : ShapeOf(x)' = ShapeOf(x)
  BY <1>3, <1>4, <1>5, EntryUpdated
<1>7. OwnKey' /\ Composable' /\ FiniteMap'
  BY <1>5, <1>6, ShapesSame
<1>8. order' \in Seq(Positions) /\ order' # <<>> /\ Listed'
  BY <1>3, <1>5, MoveStep
<1>9. TypeOK'
  BY <1>5, <1>6, <1>8 DEF SecondChance, IndInv, TypeOK, snapInfo, bytes, obsInfo, stats
<1>10. Phases' /\ Exclusive' /\ Sweepable'
  BY <1>5, <1>8 DEF IndInv, Phases, Phase, Exclusive, Sweepable
<1>11. ServedMatches'
  BY <1>5, <1>6 DEF IndInv, TypeOK, ServedMatches
<1> QED BY <1>7, <1>8, <1>9, <1>10, <1>11 DEF IndInv

LEMMA EvictStep ==
  ASSUME IndInv, NEW g \in Goroutines, Evict(g)
  PROVE  IndInv'
<1>1. PICK e : e = Last(order)
  OBVIOUS
<1>2. /\ e \in Positions /\ \E i \in DOMAIN order : order[i] = e
  BY <1>1, HandListed DEF Evict
<1>3. /\ RemoveEntry(e) /\ pc[g] = "sweep" /\ pc' = [pc EXCEPT ![g] = "evict"]
      /\ UNCHANGED <<heap, fast, mu, req, ent>>
  BY <1>1 DEF Evict, Goto
<1>4. /\ order' \in Seq(Positions)
      /\ m' \in [Encodings -> Positions \cup {NoEntry}]
      /\ hitsFolded' \in Nat /\ totalBytes' \in Int /\ evictedSince' = TRUE
      /\ OwnKey' /\ Composable' /\ Listed' /\ FiniteMap'
  BY <1>2, <1>3, RemoveStep
<1>5. Positions' = Positions /\ \A x \in Positions : ShapeOf(x)' = ShapeOf(x)
  BY <1>3, EntriesSame
<1>6. TypeOK'
  BY <1>3, <1>4, <1>5 DEF Evict, IndInv, TypeOK, obsInfo, Labels
<1>7. Phases'
  BY <1>3 DEF IndInv, TypeOK, Phases, Phase
<1>8. Exclusive' /\ Sweepable'
  BY <1>3 DEF IndInv, TypeOK, Exclusive, Sweepable
<1>9. ServedMatches'
  BY <1>3, <1>5 DEF IndInv, TypeOK, ServedMatches
<1> QED BY <1>4, <1>6, <1>7, <1>8, <1>9 DEF IndInv

\* The two ends of an eviction loop: the lock is released, the snapshot kept
\* or replaced by the map.
LEMMA UnlockStep ==
  ASSUME IndInv, NEW g \in Goroutines, Inserted(g) \/ MaxBytesSet(g)
  PROVE  IndInv'
<1>1. /\ pc[g] = "evict" /\ mu = g /\ mu' = NoOne
      /\ UNCHANGED <<heap, m, order, req, ent>>
  BY DEF Inserted, MaxBytesSet, IndInv, Exclusive
<1>2. /\ sinceSnap' \in Nat /\ pendingHits' \in Nat
      /\ evictedSince' \in BOOLEAN /\ hitFlushCredit' \in BOOLEAN
      /\ fast' = fast \/ fast' = m
  <2>1. CASE PublishNow(TRUE)
    BY <2>1 DEF PublishNow
  <2>2. CASE Publish
    <3>1. CASE ~(evictedSince /\ sinceSnap + 1 < Cap)
      BY <2>1, <2>2, <3>1 DEF Publish
    <3>2. CASE evictedSince /\ sinceSnap + 1 < Cap
      BY <2>2, <3>2 DEF Publish, IndInv, TypeOK
    <3> QED BY <3>1, <3>2
  <2> QED BY <2>1, <2>2 DEF Inserted, MaxBytesSet
<1>3. /\ Positions' = Positions /\ \A x \in Positions : ShapeOf(x)' = ShapeOf(x)
      /\ OwnKey' /\ Composable' /\ Listed' /\ FiniteMap'
  BY <1>1, <1>2, EntriesSame, ShapesSame
<1>4. PICK l \in {"idle", "observe"} :
        /\ pc' = [pc EXCEPT ![g] = l]
        /\ l = "idle" => req[g] = NoCall
        /\ l = "observe" => req[g] # NoCall
  BY DEF Inserted, MaxBytesSet, Goto
<1>5. TypeOK'
  BY <1>1, <1>2, <1>3, <1>4 DEF Inserted, MaxBytesSet, IndInv, TypeOK, bytes, obsInfo,
     stats, Labels
<1>6. Phases'
  BY <1>1, <1>4 DEF IndInv, TypeOK, Phases, Phase
<1>7. Exclusive' /\ Sweepable'
  BY <1>1, <1>4, NoOneAssumption DEF IndInv, TypeOK, Exclusive, Sweepable
<1>8. ServedMatches'
  BY <1>1, <1>3 DEF IndInv, TypeOK, ServedMatches
<1> QED BY <1>3, <1>5, <1>6, <1>7, <1>8 DEF IndInv

LEMMA TouchStep ==
  ASSUME IndInv, NEW g \in Goroutines, Touch(g) \/ CountHit(g)
  PROVE  IndInv'
<1>1. PICK e : e = ent[g]
  OBVIOUS
<1>2. /\ pc[g] \in {"touch", "touchTwin", "count"}
      /\ UNCHANGED <<fast, m, order, mu, req, ent>>
  BY DEF Touch, CountHit
<1>3. e \in Positions
  BY <1>1, <1>2 DEF IndInv, TypeOK, Phases, Phase
<1>4. heap[e] \in Entry
  BY <1>3, ElementOfSeq, LenProperties DEF IndInv, TypeOK, Positions
<1>5. /\ heap' \in Seq(Entry) /\ Positions' = Positions
      /\ \A x \in Positions : ShapeOf(x)' = ShapeOf(x)
  <2>1. CASE heap' = heap
    BY <2>1, EntriesSame DEF IndInv, TypeOK
  <2>2. CASE heap' = [heap EXCEPT ![e].ref = TRUE]
    <3>1. PICK f : f = [heap[e] EXCEPT !.ref = TRUE]
      OBVIOUS
    <3>2. f \in Entry /\ f.src = heap[e].src /\ f.key = heap[e].key
      BY <1>4, <3>1 DEF Entry
    <3> QED BY <1>3, <2>2, <3>1, <3>2, EntryUpdated
  <2>3. CASE heap' = [heap EXCEPT ![e].hits = @ + 1]
    <3>1. PICK f : f = [heap[e] EXCEPT !.hits = @ + 1]
      OBVIOUS
    <3>2. f \in Entry /\ f.src = heap[e].src /\ f.key = heap[e].key
      BY <1>4, <3>1 DEF Entry
    <3> QED BY <1>3, <2>3, <3>1, <3>2, EntryUpdated
  <2> QED BY <1>1, <2>1, <2>2, <2>3 DEF Touch, CountHit
<1>6. OwnKey' /\ Composable' /\ FiniteMap' /\ Listed'
  BY <1>2, <1>5, ShapesSame
<1>7. PICK l \in {"count", "observe"} : pc' = [pc EXCEPT ![g] = l]
  BY DEF Touch, CountHit, Goto
<1>8. TypeOK'
  BY <1>2, <1>5, <1>7 DEF Touch, CountHit, IndInv, TypeOK, snapInfo, bytes, obsInfo,
     stats, Labels
<1>9. Phases'
  BY <1>2, <1>7 DEF IndInv, TypeOK, Phases, Phase
<1>10. Exclusive' /\ Sweepable'
  BY <1>2, <1>7 DEF IndInv, TypeOK, Exclusive, Sweepable
<1>11. ServedMatches'
  BY <1>2, <1>5 DEF IndInv, TypeOK, ServedMatches
<1> QED BY <1>6, <1>8, <1>9, <1>10, <1>11 DEF IndInv

\* SetMaxBytes takes the lock; SetObserver, Stats and TopShapes only look.
LEMMA AdminStep ==
  ASSUME IndInv, NEW g \in Goroutines,
         \/ \E n \in ByteBounds : SetMaxBytes(g, n)
         \/ \E on \in BOOLEAN : SetObserver(g, on)
         \/ Stats(g) \/ ReadStats(g)
  PROVE  IndInv'
<1>1. UNCHANGED <<heap, fast, m, order, req, ent>>
  BY DEF SetMaxBytes, SetObserver, Stats, ReadStats, entries, local
<1>2. /\ Positions' = Positions /\ \A x \in Positions : ShapeOf(x)' = ShapeOf(x)
      /\ OwnKey' /\ Composable' /\ Listed' /\ FiniteMap'
  BY <1>1, EntriesSame, ShapesSame
<1>3. \/ pc[g] = "idle" /\ mu = NoOne /\ mu' = g /\ pc' = [pc EXCEPT ![g] = "evict"]
      \/ mu' = mu /\ pc' = pc
      \/ pc[g] = "idle" /\ mu' = mu /\ pc' = [pc EXCEPT ![g] = "scrape"]
      \/ pc[g] = "scrape" /\ mu' = mu /\ pc' = [pc EXCEPT ![g] = "idle"]
  BY DEF SetMaxBytes, SetObserver, Stats, ReadStats, Goto, Locked, local
<1>4. maxBytes' \in Nat /\ obs' \in BOOLEAN /\ track' \in BOOLEAN
  BY CacheAssumption DEF SetMaxBytes, SetObserver, Stats, ReadStats, bytes, obsInfo,
     IndInv, TypeOK
<1>5. TypeOK'
  BY <1>1, <1>2, <1>3, <1>4 DEF SetMaxBytes, SetObserver, Stats, ReadStats, IndInv, TypeOK,
     snapInfo, bytes, stats, local, Labels
<1>6. Phases'
  BY <1>1, <1>3 DEF IndInv, TypeOK, Phases, Phase
<1>7. Exclusive' /\ Sweepable'
  BY <1>1, <1>3, NoOneAssumption DEF IndInv, TypeOK, Exclusive, Sweepable
<1>8. ServedMatches'
  BY <1>1, <1>2 DEF IndInv, TypeOK, ServedMatches
<1> QED BY <1>2, <1>5, <1>6, <1>7, <1>8 DEF IndInv
-----------------------------------------------------------------------------
(* The theorems. *)

LEMMA InitInv == Init => IndInv
<1> SUFFICES ASSUME Init PROVE IndInv
  OBVIOUS
<1>1. TypeOK
  <2>1. heap \in Seq(Entry) /\ order \in Seq(Positions)
    BY EmptySeq DEF Init
  <2>2. /\ fast \in [Encodings -> Positions \cup {NoEntry}]
        /\ m \in [Encodings -> Positions \cup {NoEntry}]
        /\ ent \in [Goroutines -> Positions \cup {NoEntry}]
    BY DEF Init
  <2>3. reply \in [Goroutines -> {NoReply, Refused} \cup {Statement(s) : s \in Shapes}]
    BY DEF Init
  <2>4. /\ pc \in [Goroutines -> Labels] /\ req \in [Goroutines -> Calls \cup {NoCall}]
        /\ mu \in Goroutines \cup {NoOne} /\ maxBytes \in Nat
    BY CacheAssumption DEF Init, Labels
  <2>5. /\ sinceSnap \in Nat /\ pendingHits \in Nat /\ totalBytes \in Int
        /\ misses \in Nat /\ evictions \in Nat /\ hitsFolded \in Nat /\ sweep \in Nat
    BY DEF Init
  <2>6. /\ evictedSince \in BOOLEAN /\ hitFlushCredit \in BOOLEAN
        /\ obs \in BOOLEAN /\ track \in BOOLEAN
    BY DEF Init
  <2> QED BY <2>1, <2>2, <2>3, <2>4, <2>5, <2>6 DEF TypeOK
<1>2. FiniteMap
  <2>1. Resident = {}
    BY DEF Init, Resident
  <2> QED BY <2>1, FS_EmptySet DEF FiniteMap
<1>3. OwnKey /\ Listed /\ Phases /\ Exclusive /\ Sweepable /\ ServedMatches
  BY NoOneAssumption DEF Init, OwnKey, Listed, Phases, Phase, Exclusive, Sweepable, ServedMatches
<1>4. Composable
  BY DEF Init, Composable, Positions
<1> QED BY <1>1, <1>2, <1>3, <1>4 DEF IndInv

LEMMA NextInv == IndInv /\ [Next]_vars => IndInv'
<1> SUFFICES ASSUME IndInv, [Next]_vars PROVE IndInv'
  OBVIOUS
<1>1. CASE UNCHANGED vars
  <2>1. UNCHANGED <<heap, fast, m, order>>
    BY <1>1 DEF vars, entries
  <2>2. /\ Positions' = Positions /\ \A x \in Positions : ShapeOf(x)' = ShapeOf(x)
        /\ OwnKey' /\ Composable' /\ Listed' /\ FiniteMap'
    BY <2>1, EntriesSame, ShapesSame
  <2>3. TypeOK' /\ Phases' /\ Exclusive' /\ Sweepable'
    BY <1>1, <2>2 DEF IndInv, vars, entries, snapInfo, bytes, obsInfo, stats, local,
       TypeOK, Phases, Phase, Exclusive, Sweepable
  <2>4. ServedMatches'
    BY <1>1, <2>2 DEF IndInv, TypeOK, ServedMatches, vars, local
  <2> QED BY <2>2, <2>3, <2>4 DEF IndInv
<1>2. ASSUME NEW g \in Goroutines, NEW c \in Calls, Call(g, c) PROVE IndInv'
  BY <1>2, CallStep
<1>3. ASSUME NEW g \in Goroutines, Acquire(g) PROVE IndInv'
  BY <1>3, DeferredHitStep, FirstMissStep, RacedStep, RelockStep, ReturnStep, AdminStep
     DEF Acquire
<1>4. ASSUME NEW g \in Goroutines, Proceed(g) PROVE IndInv'
  BY <1>4, ReturnStep, InsertStep, EvictOneStep, SecondChanceStep, EvictStep, UnlockStep,
     TouchStep DEF Proceed
<1>5. ASSUME NEW g \in Goroutines,
             \/ \E n \in ByteBounds : SetMaxBytes(g, n)
             \/ \E on \in BOOLEAN : SetObserver(g, on)
             \/ Stats(g)
      PROVE IndInv'
  BY <1>5, AdminStep
<1> QED BY <1>1, <1>2, <1>3, <1>4, <1>5 DEF Next

\* The invariant holds in every reachable state of the cache.
THEOREM Invariance == Spec => []IndInv
BY InitInv, NextInv, PTL DEF Spec

\* The cache's fields keep their types, whatever the sizes of the instance.
THEOREM TypeCorrect == Spec => []TypeOK
<1>1. IndInv => TypeOK
  BY DEF IndInv
<1> QED BY <1>1, Invariance, PTL

\* Nobody is ever served another query's, style's or shape's statement, even
\* if the encoding of shape keys collides (entry()'s keysEqual checks).
THEOREM ServesOwnShape == Spec => []ServedMatches
<1>1. IndInv => ServedMatches
  BY DEF IndInv
<1> QED BY <1>1, Invariance, PTL

\* A refused tree or a failing composition never yields an entry, though the
\* map key leaves the tree's arity out (the validation at the top of entry()).
THEOREM RefusesSafely == Spec => []RefusedNeverServed
<1>1. IndInv => RefusedNeverServed
  BY DEF IndInv, TypeOK, Phases, Phase, Composable, ServedMatches, RefusedNeverServed
<1> QED BY <1>1, Invariance, PTL

\* A lagging snapshot is always marked as lagging, and both counters that
\* postpone its replacement stay below the capacity (publish, DeferredHit).
THEOREM SnapshotDiscipline == Spec => [](SnapshotFresh /\ NotStranded)
<1> DEFINE I == SnapshotFresh /\ NotStranded
<1>1. Init => I
  BY CacheAssumption DEF Init, SnapshotFresh, NotStranded
<1>2. IndInv /\ I /\ [Next]_vars => I'
  <2> SUFFICES ASSUME IndInv, I, [Next]_vars PROVE I'
    OBVIOUS
  <2> USE CacheAssumption DEF SnapshotFresh, NotStranded, Locked
  <2>1. ASSUME PublishNow(TRUE) \/ PublishNow(FALSE), UNCHANGED m PROVE I'
    BY <2>1 DEF PublishNow
  <2>2. ASSUME UNCHANGED <<mu, fast, m, snapInfo>> PROVE I'
    BY <2>2 DEF snapInfo
  <2>3. ASSUME NEW g \in Goroutines, DeferredHit(g) PROVE I'
    <3>1. CASE FlushDue
      BY <2>1, <2>3, <3>1 DEF DeferredHit
    <3>2. CASE ~FlushDue
      BY <2>3, <3>2 DEF DeferredHit, FlushDue, IndInv, TypeOK
    <3> QED BY <3>1, <3>2
  <2>4. ASSUME NEW g \in Goroutines, FirstMiss(g) PROVE I'
    BY <2>4 DEF FirstMiss, DropColliding, RemoveEntry
  <2>5. ASSUME NEW g \in Goroutines, Relock(g) PROVE I'
    BY <2>5, NoOneAssumption DEF Relock, DropColliding
  <2>6. ASSUME NEW g \in Goroutines, Insert(g) PROVE I'
    BY <2>6, NoOneAssumption DEF Insert, IndInv, Exclusive, snapInfo
  <2>7. ASSUME NEW g \in Goroutines, Evict(g) PROVE I'
    BY <2>7 DEF Evict, RemoveEntry
  <2>8. ASSUME NEW g \in Goroutines, Inserted(g) PROVE I'
    <3>1. CASE evictedSince /\ sinceSnap + 1 < Cap
      BY <2>8, <3>1 DEF Inserted, Publish, IndInv, TypeOK
    <3>2. CASE ~(evictedSince /\ sinceSnap + 1 < Cap)
      BY <2>1, <2>8, <3>2 DEF Inserted, Publish
    <3> QED BY <3>1, <3>2
  <2>9. ASSUME NEW g \in Goroutines, MaxBytesSet(g) PROVE I'
    BY <2>1, <2>9 DEF MaxBytesSet
  <2>10. ASSUME NEW g \in Goroutines, NEW n \in ByteBounds, SetMaxBytes(g, n) PROVE I'
    BY <2>10, NoOneAssumption DEF SetMaxBytes, snapInfo, entries
  <2>11. ASSUME NEW g \in Goroutines,
                \/ \E c \in Calls : Call(g, c)
                \/ Refuse(g) \/ ComposeFails(g) \/ Raced(g) \/ EvictOne(g)
                \/ SecondChance(g) \/ Touch(g) \/ CountHit(g) \/ Observe(g)
                \/ Stats(g) \/ ReadStats(g) \/ \E on \in BOOLEAN : SetObserver(g, on)
         PROVE I'
    <3>1. UNCHANGED <<mu, fast, m, snapInfo>>
      BY <2>11 DEF Call, Refuse, ComposeFails, Raced, EvictOne, SecondChance, Touch, CountHit,
         Observe, Stats, ReadStats, SetObserver, entries
    <3> QED BY <2>2, <3>1
  <2>12. CASE UNCHANGED vars
    BY <2>2, <2>12 DEF vars, entries
  <2> QED BY <2>3, <2>4, <2>5, <2>6, <2>7, <2>8, <2>9, <2>10, <2>11, <2>12
      DEF Next, Acquire, Proceed
<1> QED BY <1>1, <1>2, Invariance, PTL DEF Spec

\* The cache implements the service that has no cache: every reply is the
\* statement of the caller's own shape, or the refusal the composer owes it.
THEOREM ImplementsService == Spec => ServiceSpec
<1>1. Init => Service!Init
  BY DEF Init, Service!Init, Service!NoCall, Service!NoReply, NoCall, NoReply
<1>2. IndInv /\ RefusedNeverServed /\ [Next]_vars => [Service!Next]_(Service!svars)
  <2> SUFFICES ASSUME IndInv, RefusedNeverServed, [Next]_vars
               PROVE  [Service!Next]_(Service!svars)
    OBVIOUS
  <2> USE DEF Service!NoCall, Service!NoReply, Service!Refused, Service!Shape,
              Service!Statement, NoCall, NoReply, Refused, Shape, Statement
  <2>1. ASSUME NEW g \in Goroutines, NEW c \in Calls, Call(g, c) PROVE Service!Next
    <3>1. req[g] = NoCall
      BY <2>1 DEF Call, IndInv, Phases, Phase
    <3>2. Service!Ask(g, c)
      BY <2>1, <3>1 DEF Call, Service!Ask
    <3> QED BY <3>2 DEF Service!Next
  <2>2. ASSUME NEW g \in Goroutines, Refuse(g) PROVE Service!Next
    <3>1. req[g] # NoCall /\ ~req[g].ok
      BY <2>2 DEF Refuse, IndInv, Phases, Phase
    <3>2. Service!Answer(g)
      BY <2>2, <3>1 DEF Refuse, Return, Service!Answer
    <3> QED BY <3>2 DEF Service!Next
  <2>3. ASSUME NEW g \in Goroutines, ComposeFails(g) PROVE Service!Next
    <3>1. req[g] # NoCall /\ Shape(req[g]) \in TooLong
      BY <2>3 DEF ComposeFails, IndInv, Phases, Phase
    <3>2. Service!Answer(g)
      BY <2>3, <3>1 DEF ComposeFails, Return, Service!Answer
    <3> QED BY <3>2 DEF Service!Next
  <2>4. ASSUME NEW g \in Goroutines, Observe(g) PROVE Service!Next
    <3>1. req[g] # NoCall /\ ent[g] # NoEntry
      BY <2>4 DEF Observe, IndInv, Phases, Phase
    <3>2. ShapeOf(ent[g]) = Shape(req[g])
      BY <3>1 DEF IndInv, ServedMatches
    <3>3. req[g].ok /\ Shape(req[g]) \notin TooLong
      BY <3>1 DEF IndInv, Phases, Phase, RefusedNeverServed
    <3>4. Service!Answer(g)
      BY <2>4, <3>1, <3>2, <3>3 DEF Observe, Return, Service!Answer
    <3> QED BY <3>4 DEF Service!Next
  <2>5. ASSUME NEW g \in Goroutines,
               \/ DeferredHit(g) \/ FirstMiss(g) \/ Raced(g) \/ Relock(g) \/ ReadStats(g)
               \/ Insert(g) \/ EvictOne(g) \/ SecondChance(g) \/ Evict(g) \/ Inserted(g)
               \/ Touch(g) \/ CountHit(g) \/ MaxBytesSet(g) \/ Stats(g)
               \/ \E n \in ByteBounds : SetMaxBytes(g, n)
               \/ \E on \in BOOLEAN : SetObserver(g, on)
        PROVE UNCHANGED Service!svars
    BY <2>5 DEF DeferredHit, FirstMiss, Raced, Relock, ReadStats, Insert, EvictOne,
       SecondChance, Evict, Inserted, Touch, CountHit, MaxBytesSet, Stats, SetMaxBytes,
       SetObserver, local, Service!svars
  <2>6. CASE UNCHANGED vars
    BY <2>6 DEF vars, local, Service!svars
  <2> QED BY <2>1, <2>2, <2>3, <2>4, <2>5, <2>6 DEF Next, Acquire, Proceed
<1> QED BY <1>1, <1>2, Invariance, RefusesSafely, PTL DEF Spec, ServiceSpec, Service!Spec

-----------------------------------------------------------------------------
(***************************************************************************)
(* Proofs about eviction in ComposedCache, for any number of goroutines,   *)
(* any capacity and any byte sizes: the map, the recency list and the byte *)
(* ledger agree, the bounds hold whenever the mutex is free, the CLOCK     *)
(* hand finds an untouched entry, and the cumulative hits never decrease.  *)
(***************************************************************************)

(* The recency list without repetitions. *)

\* Taking an entry out of the list takes out that entry alone.
LEMMA RemovedKeeps ==
  ASSUME NEW T, NEW s \in Seq(T), NEW e, \E i \in DOMAIN s : s[i] = e, IsInjective(s)
  PROVE  IsInjective(Removed(s, e)) /\ ToSet(Removed(s, e)) = ToSet(s) \ {e}
<1> DEFINE p == PositionOf(s, e)
           r == Removed(s, e)
           q(i) == IF i < p THEN i ELSE i + 1
<1>1. DOMAIN s = 1..Len(s) /\ Len(s) \in Nat
  BY LenProperties
<1>2. /\ p \in 1..Len(s) /\ s[p] = e /\ DOMAIN r = 1..(Len(s) - 1)
      /\ \A i \in 1..(p - 1) : r[i] = s[i]
      /\ \A i \in p..(Len(s) - 1) : r[i] = s[i + 1]
  BY RemovedShape
<1> HIDE DEF p, r
<1>3. ASSUME NEW i \in DOMAIN r PROVE q(i) \in DOMAIN s /\ q(i) # p /\ r[i] = s[q(i)]
  <2>1. CASE i < p
    <3>1. i \in 1..(p - 1) /\ i \in 1..Len(s)
      BY <1>1, <1>2, <2>1
    <3> QED BY <1>1, <1>2, <2>1, <3>1
  <2>2. CASE ~(i < p)
    <3>1. i \in p..(Len(s) - 1) /\ i + 1 \in 1..Len(s) /\ i + 1 # p
      BY <1>1, <1>2, <2>2
    <3> QED BY <1>1, <1>2, <2>2, <3>1
  <2> QED BY <2>1, <2>2
<1>4. ASSUME NEW i \in DOMAIN s, i # p PROVE \E j \in DOMAIN r : r[j] = s[i]
  <2>1. CASE i < p
    <3>1. i \in 1..(p - 1) /\ i \in 1..(Len(s) - 1)
      BY <1>1, <1>2, <2>1
    <3> QED BY <1>2, <3>1
  <2>2. CASE i > p
    <3>1. i - 1 \in p..(Len(s) - 1) /\ i - 1 \in 1..(Len(s) - 1) /\ (i - 1) + 1 = i
      BY <1>1, <1>2, <2>2
    <3> QED BY <1>2, <3>1
  <2>3. i < p \/ i > p
    BY <1>1, <1>2, <1>4
  <2> QED BY <2>1, <2>2, <2>3
<1>5. IsInjective(r)
  <2> SUFFICES ASSUME NEW a \in DOMAIN r, NEW b \in DOMAIN r, r[a] = r[b] PROVE a = b
    BY DEF IsInjective
  <2>1. q(a) = q(b)
    BY <1>3 DEF IsInjective
  <2>2. a \in Int /\ b \in Int /\ p \in Int
    BY <1>1, <1>2
  <2> QED BY <2>1, <2>2
<1>6. ASSUME NEW x PROVE x \in ToSet(r) <=> x \in ToSet(s) \ {e}
  <2>1. ASSUME x \in ToSet(r) PROVE x \in ToSet(s) \ {e}
    <3>1. PICK i \in DOMAIN r : x = r[i]
      BY <2>1 DEF ToSet
    <3>2. PICK j \in DOMAIN s : j # p /\ x = s[j]
      BY <1>3, <3>1
    <3>3. x # e
      BY <1>1, <1>2, <3>2 DEF IsInjective
    <3> QED BY <3>2, <3>3 DEF ToSet
  <2>2. ASSUME x \in ToSet(s), x # e PROVE x \in ToSet(r)
    <3>1. PICK i \in DOMAIN s : x = s[i]
      BY <2>2 DEF ToSet
    <3>2. i # p
      BY <1>2, <2>2, <3>1
    <3> QED BY <1>4, <3>1, <3>2 DEF ToSet
  <2> QED BY <2>1, <2>2
<1> QED BY <1>5, <1>6 DEF r

\* Pushing a new entry to the front keeps the list without repetitions.
LEMMA PushedKeeps ==
  ASSUME NEW T, NEW s \in Seq(T), NEW e \in T, e \notin ToSet(s), IsInjective(s)
  PROVE  /\ IsInjective(<<e>> \o s) /\ ToSet(<<e>> \o s) = ToSet(s) \cup {e}
         /\ Len(<<e>> \o s) = Len(s) + 1 /\ (<<e>> \o s)[1] = e
         /\ \A i \in 1..Len(s) : (<<e>> \o s)[i + 1] = s[i]
<1> DEFINE f == <<e>> \o s
<1>1. DOMAIN s = 1..Len(s) /\ Len(s) \in Nat
  BY LenProperties
<1>2. <<e>> \in Seq(T) /\ Len(<<e>>) = 1 /\ <<e>>[1] = e
  OBVIOUS
<1>3. /\ f \in Seq(T) /\ Len(f) = Len(s) + 1 /\ DOMAIN f = 1..(Len(s) + 1)
      /\ f[1] = e
      /\ \A j \in 1..Len(s) : f[j + 1] = s[j]
  BY <1>1, <1>2, ConcatProperties, LenProperties
<1> HIDE DEF f
<1>4. ASSUME NEW i \in DOMAIN f, i # 1 PROVE i - 1 \in DOMAIN s /\ f[i] = s[i - 1]
  <2>1. i - 1 \in 1..Len(s) /\ (i - 1) + 1 = i
    BY <1>1, <1>3, <1>4
  <2> QED BY <1>1, <1>3, <2>1
<1>5. ASSUME NEW i \in DOMAIN s PROVE i + 1 \in DOMAIN f /\ f[i + 1] = s[i] /\ s[i] # e
  BY <1>1, <1>3 DEF ToSet
<1>6. IsInjective(f)
  <2> SUFFICES ASSUME NEW a \in DOMAIN f, NEW b \in DOMAIN f, f[a] = f[b] PROVE a = b
    BY DEF IsInjective
  <2>1. a \in Int /\ b \in Int
    BY <1>1, <1>3
  <2>2. CASE a # 1 /\ b # 1
    <3>1. a - 1 = b - 1
      BY <1>4, <2>2 DEF IsInjective
    <3> QED BY <2>1, <3>1
  <2>3. CASE a = 1 \/ b = 1
    BY <1>3, <1>4, <1>5, <2>3
  <2> QED BY <2>2, <2>3
<1>7. ASSUME NEW x PROVE x \in ToSet(f) <=> x \in ToSet(s) \cup {e}
  <2>1. ASSUME x \in ToSet(f) PROVE x \in ToSet(s) \cup {e}
    BY <1>3, <1>4, <2>1 DEF ToSet
  <2>2. ASSUME x \in ToSet(s) PROVE x \in ToSet(f)
    BY <1>5, <2>2 DEF ToSet
  <2>3. e \in ToSet(f)
    BY <1>1, <1>3 DEF ToSet
  <2> QED BY <2>1, <2>2, <2>3
<1> QED BY <1>3, <1>6, <1>7 DEF f

\* Moving an entry to the front keeps the same entries.
LEMMA MovedKeeps ==
  ASSUME NEW T, NEW s \in Seq(T), NEW e \in T, \E i \in DOMAIN s : s[i] = e, IsInjective(s)
  PROVE  /\ IsInjective(MovedToFront(s, e)) /\ ToSet(MovedToFront(s, e)) = ToSet(s)
         /\ Len(MovedToFront(s, e)) = Len(s)
<1> DEFINE r == Removed(s, e)
<1>1. /\ r \in Seq(T) /\ Len(r) = Len(s) - 1
      /\ IsInjective(r) /\ ToSet(r) = ToSet(s) \ {e}
  BY RemovedShape, RemovedKeeps
<1>2. e \in ToSet(s) /\ e \notin ToSet(r) /\ Len(s) \in Nat
  BY <1>1, LenProperties DEF ToSet
<1> HIDE DEF r
<1>3. /\ IsInjective(<<e>> \o r) /\ ToSet(<<e>> \o r) = ToSet(r) \cup {e}
      /\ Len(<<e>> \o r) = Len(r) + 1
  BY <1>1, <1>2, PushedKeeps
<1>4. ToSet(r) \cup {e} = ToSet(s) /\ Len(r) + 1 = Len(s)
  BY <1>1, <1>2
<1> QED BY <1>3, <1>4 DEF MovedToFront, r
-----------------------------------------------------------------------------
(* The inductive invariant, on top of IndInv. *)

InLoop(g)    == pc[g] \in {"evict", "sweep"}
Inserting(g) == InLoop(g) /\ req[g] # NoCall

\* The slot a goroutine is about to fill is free and the count is within the
\* capacity; SetMaxBytes' loop starts within it too.
Ready ==
  \A g \in Goroutines :
    /\ pc[g] = "insert" => m[Encode[Shape(req[g])]] = NoEntry
    /\ pc[g] = "insert" \/ (InLoop(g) /\ req[g] = NoCall) => Cardinality(Resident) <= Cap

\* Nobody else can reach an entry before the lock that inserted it is released.
Private ==
  \A g \in Goroutines : Inserting(g) =>
    /\ \A h \in Goroutines : h # g => ent[h] # ent[g]
    /\ \A k \in Encodings : fast[k] # ent[g]

\* With only the count bound one entry too many was inserted, untouched, and
\* the hand has sweep - 1 second chances to give before it meets it.
Hand ==
  \A g \in Goroutines : Inserting(g) /\ maxBytes = 0 =>
    /\ ~heap[ent[g]].ref /\ Cardinality(Resident) <= Cap + 1
    /\ pc[g] = "evict" /\ OverCap => order[1] = ent[g]
    /\ pc[g] = "sweep" => sweep \in 1..Len(order) /\ order[Len(order) + 1 - sweep] = ent[g]

EvictionInv == OneList /\ Ledger /\ Bounded /\ Ready /\ Private /\ Hand
-----------------------------------------------------------------------------
(* How the parts of a step preserve the list and the ledger. *)

ShapesKept == Positions' = Positions /\ \A x \in Positions : ShapeOf(x)' = ShapeOf(x)
BytesAt == [k \in Resident |-> Bytes[ShapeOf(m[k])]]

\* What the cache's invariant says of single entries.
LEMMA EntryTypes ==
  ASSUME IndInv
  PROVE  /\ \A e \in Positions : /\ heap[e] \in Entry /\ ShapeOf(e) \in Shapes
                                  /\ Bytes[ShapeOf(e)] \in Nat /\ heap[e].hits \in Nat
         /\ \A k \in Resident : k \in Encodings /\ m[k] \in Positions /\ MapKey(m[k]) = k
<1>1. \A e \in Positions : heap[e] \in Entry
  BY ElementOfSeq, LenProperties DEF IndInv, TypeOK, Positions
<1>2. \A e \in Positions : ShapeOf(e) \in Shapes /\ heap[e].hits \in Nat
  BY <1>1 DEF ShapeOf, Shapes, Entry
<1>3. \A e \in Positions : Bytes[ShapeOf(e)] \in Nat
  BY <1>2, CacheAssumption
<1>4. \A k \in Resident : k \in Encodings /\ m[k] \in Positions /\ MapKey(m[k]) = k
  BY DEF Resident, IndInv, TypeOK, OwnKey
<1> QED BY <1>1, <1>2, <1>3, <1>4

\* The sizes of the resident entries can be added up.
LEMMA BytesSummable ==
  ASSUME IndInv
  PROVE  /\ Summable(BytesAt, Resident) /\ DOMAIN BytesAt = Resident
         /\ \A k \in Resident : BytesAt[k] = Bytes[ShapeOf(m[k])] /\ BytesAt[k] \in Nat
<1>1. /\ DOMAIN BytesAt = Resident
      /\ \A k \in Resident : BytesAt[k] = Bytes[ShapeOf(m[k])] /\ BytesAt[k] \in Nat
  BY EntryTypes DEF BytesAt
<1> QED BY <1>1 DEF Summable, IndInv, FiniteMap

\* The ledger as a sum over the resident keys.
LEMMA LedgerSum ==
  Ledger <=> totalBytes = SumFunctionOnSet(BytesAt, Resident)
BY DEF Ledger, BytesAt, SumFunction

\* The list holds exactly the resident entries, so they are as many.
LEMMA ListedResident ==
  ASSUME IndInv, OneList
  PROVE  /\ Cardinality(Resident) = Len(order)
         /\ \A i \in DOMAIN order : /\ order[i] \in Positions
                                    /\ MapKey(order[i]) \in Resident
                                    /\ m[MapKey(order[i])] = order[i]
         /\ \A k \in Resident : \E i \in DOMAIN order : order[i] = m[k]
<1>1. order \in Seq(Positions) /\ DOMAIN order = 1..Len(order) /\ Len(order) \in Nat
  BY LenProperties DEF IndInv, TypeOK
<1>2. ASSUME NEW i \in DOMAIN order
      PROVE  /\ order[i] \in Positions /\ MapKey(order[i]) \in Resident
             /\ m[MapKey(order[i])] = order[i]
  <2>1. order[i] \in ToSet(order)
    BY DEF ToSet
  <2>2. PICK k \in Resident : order[i] = m[k]
    BY <2>1 DEF OneList
  <2> QED BY <2>2, EntryTypes
<1>3. ASSUME NEW k \in Resident PROVE \E i \in DOMAIN order : order[i] = m[k]
  BY DEF OneList, ToSet
<1> DEFINE f == [i \in 1..Len(order) |-> MapKey(order[i])]
<1>4. f \in Bijection(1..Len(order), Resident)
  <2>1. f \in [1..Len(order) -> Resident]
    BY <1>1, <1>2
  <2>2. \A a, b \in 1..Len(order) : f[a] = f[b] => a = b
    <3> SUFFICES ASSUME NEW a \in 1..Len(order), NEW b \in 1..Len(order), f[a] = f[b]
                 PROVE  a = b
      OBVIOUS
    <3>1. order[a] = order[b]
      BY <1>1, <1>2
    <3> QED BY <1>1, <3>1 DEF OneList, IsInjective
  <2>3. \A k \in Resident : \E i \in 1..Len(order) : f[i] = k
    BY <1>1, <1>3, EntryTypes
  <2> HIDE DEF f
  <2> QED BY <2>1, <2>2, <2>3 DEF Bijection, Injection, Surjection, IsInjective
<1>5. Cardinality(Resident) = Len(order)
  BY <1>1, <1>4, FS_CountingElements DEF ExistsBijection
<1> QED BY <1>2, <1>3, <1>5

\* Map and list agree as long as neither changes.
LEMMA ListKept ==
  ASSUME IndInv, OneList, UNCHANGED <<m, order>>
  PROVE  OneList' /\ Resident' = Resident
BY DEF OneList, Resident

\* The ledger is exact as long as neither it nor the map changes.
LEMMA LedgerKept ==
  ASSUME IndInv, Ledger, UNCHANGED <<m, totalBytes>>, ShapesKept
  PROVE  Ledger'
<1>1. Resident' = Resident
  BY DEF Resident
<1>2. BytesAt' = BytesAt
  BY <1>1, EntryTypes DEF BytesAt, ShapesKept
<1> QED BY <1>1, <1>2, LedgerSum DEF Ledger, BytesAt

\* A second chance or a deferred hit reorders the list and nothing else.
LEMMA MoveKeeps ==
  ASSUME IndInv, OneList, NEW e, \E i \in DOMAIN order : order[i] = e,
         order' = MovedToFront(order, e), UNCHANGED m
  PROVE  OneList' /\ Resident' = Resident
<1>1. order \in Seq(Positions) /\ e \in Positions
  BY ListedResident DEF IndInv, TypeOK
<1>2. IsInjective(order') /\ ToSet(order') = ToSet(order)
  BY <1>1, MovedKeeps DEF OneList
<1> QED BY <1>2 DEF OneList, Resident

\* remove(e): one entry fewer, its bytes released, its slot free.
LEMMA RemoveKeeps ==
  ASSUME IndInv, OneList, Ledger, NEW e, \E i \in DOMAIN order : order[i] = e,
         RemoveEntry(e), UNCHANGED heap
  PROVE  /\ OneList' /\ Ledger' /\ m'[MapKey(e)] = NoEntry
         /\ Resident' = Resident \ {MapKey(e)} /\ MapKey(e) \in Resident
         /\ Cardinality(Resident') = Cardinality(Resident) - 1
         /\ totalBytes' <= totalBytes
<1> DEFINE k == MapKey(e)
<1>1. e \in Positions /\ k \in Resident /\ k \in Encodings /\ m[k] = e
  BY ListedResident, EntryTypes
<1>2. order \in Seq(Positions) /\ m \in [Encodings -> Positions \cup {NoEntry}]
  BY DEF IndInv, TypeOK
<1>3. m' = [m EXCEPT ![k] = NoEntry] /\ order' = Removed(order, e)
  BY DEF RemoveEntry
<1> HIDE DEF k
<1>4. m'[k] = NoEntry /\ \A x \in Encodings : x # k => m'[x] = m[x]
  BY <1>1, <1>2, <1>3
<1>5. Resident' = Resident \ {k}
  BY <1>4 DEF Resident
<1>6. IsInjective(order') /\ ToSet(order') = ToSet(order) \ {e}
  BY <1>2, <1>3, RemovedKeeps DEF OneList
<1>7. \A x \in Resident : x # k => m[x] # e
  BY <1>1, EntryTypes DEF k
<1>8. ASSUME NEW x PROVE x \in ToSet(order') <=> x \in {m'[y] : y \in Resident'}
  <2>1. x \in ToSet(order') <=> x # e /\ \E y \in Resident : x = m[y]
    BY <1>6 DEF OneList
  <2>2. (x # e /\ \E y \in Resident : x = m[y]) <=> \E y \in Resident \ {k} : x = m[y]
    BY <1>1, <1>7
  <2>3. (\E y \in Resident \ {k} : x = m[y]) <=> \E y \in Resident' : x = m'[y]
    BY <1>4, <1>5 DEF Resident
  <2> QED BY <2>1, <2>2, <2>3
<1>9. OneList'
  <2>1. ToSet(order') = {m'[y] : y \in Resident'}
    BY <1>8
  <2> QED BY <1>6, <2>1 DEF OneList
<1>10. Cardinality(Resident') = Cardinality(Resident) - 1
  BY <1>1, <1>5, FS_RemoveElement DEF IndInv, FiniteMap
<1>11. totalBytes' = totalBytes - Bytes[ShapeOf(e)] /\ Bytes[ShapeOf(e)] \in Nat
       /\ totalBytes \in Int
  BY <1>1, EntryTypes DEF RemoveEntry, IndInv, TypeOK
<1>12. Ledger'
  <2>1. Summable(BytesAt, Resident) /\ Summable(BytesAt, Resident \ {k})
    BY BytesSummable, SummableSubset
  <2>2. SumFunctionOnSet(BytesAt, Resident)
          = BytesAt[k] + SumFunctionOnSet(BytesAt, Resident \ {k})
    BY <1>1, <2>1, SumAt
  <2>3. BytesAt[k] = Bytes[ShapeOf(e)]
    BY <1>1, BytesSummable
  <2>4. SumFunctionOnSet(BytesAt, Resident \ {k}) \in Int
    BY <2>1, SumInt
  <2>5. \A x \in Resident \ {k} : BytesAt[x] = BytesAt'[x]
    BY <1>4, <1>5 DEF BytesAt, ShapeOf, Resident
  <2>6. SumFunctionOnSet(BytesAt, Resident \ {k}) = SumFunctionOnSet(BytesAt', Resident')
    BY <1>5, <2>1, <2>5, SumSame
  <2>7. totalBytes = SumFunctionOnSet(BytesAt, Resident)
    BY LedgerSum
  <2>8. totalBytes' = SumFunctionOnSet(BytesAt', Resident')
    BY <1>11, <2>2, <2>3, <2>4, <2>6, <2>7
  <2> QED BY <2>8 DEF Ledger, BytesAt, SumFunction
<1> QED BY <1>1, <1>4, <1>5, <1>9, <1>10, <1>11, <1>12 DEF k
-----------------------------------------------------------------------------
(* One lemma per action, or per group of actions that change the same state. *)

\* A step that leaves the map, the list, the bounds and the mutex alone.
LEMMA OutsideStep ==
  ASSUME IndInv, EvictionInv, NEW g \in Goroutines, ~InLoop(g), pc[g] # "insert",
         UNCHANGED <<m, order, totalBytes, maxBytes, mu, fast, sweep>>, ShapesKept,
         NEW l \in Labels \ {"insert", "evict", "sweep"}, pc' = [pc EXCEPT ![g] = l],
         \A h \in Goroutines : h # g => req'[h] = req[h] /\ ent'[h] = ent[h],
         \/ ent'[g] \in {ent[g], NoEntry}
         \/ \E k \in Encodings : ent'[g] = fast[k],
         \A e \in Positions : e # ent[g] => heap'[e].ref = heap[e].ref
  PROVE  EvictionInv'
<1>1. OneList' /\ Resident' = Resident /\ Ledger'
  BY ListKept, LedgerKept DEF EvictionInv
<1>2. Bounded'
  BY <1>1 DEF EvictionInv, Bounded, OverBytes, Locked
<1>3. /\ pc'[g] = l /\ ~InLoop(g)' /\ pc'[g] # "insert"
      /\ \A h \in Goroutines : h # g => pc'[h] = pc[h] /\ req'[h] = req[h] /\ ent'[h] = ent[h]
  BY DEF IndInv, TypeOK, InLoop
<1>4. Ready'
  BY <1>1, <1>3 DEF EvictionInv, Ready, InLoop, Shape
<1>5. \A h \in Goroutines : Inserting(h)' => h # g /\ Inserting(h)
  BY <1>3 DEF Inserting, InLoop
<1>6. \A h \in Goroutines : Inserting(h) => ent[h] \in Positions /\ ent[h] # NoEntry
  BY DEF IndInv, TypeOK, Phases, Phase, Inserting, InLoop
<1>7. Private'
  BY <1>3, <1>5, <1>6 DEF EvictionInv, Private
<1>8. Hand'
  <2> SUFFICES ASSUME NEW h \in Goroutines, Inserting(h)', maxBytes' = 0
               PROVE  /\ ~heap'[ent'[h]].ref /\ Cardinality(Resident') <= Cap + 1
                      /\ pc'[h] = "evict" /\ OverCap' => order'[1] = ent'[h]
                      /\ pc'[h] = "sweep" => /\ sweep' \in 1..Len(order')
                                             /\ order'[Len(order') + 1 - sweep'] = ent'[h]
    BY DEF Hand
  <2>1. h # g /\ Inserting(h) /\ ent'[h] = ent[h] /\ pc'[h] = pc[h]
    BY <1>3, <1>5
  <2>2. ent[h] # ent[g] /\ ent[h] \in Positions
    BY <1>6, <2>1 DEF EvictionInv, Private
  <2>3. ~heap'[ent[h]].ref
    BY <2>1, <2>2 DEF EvictionInv, Hand
  <2> QED BY <1>1, <2>1, <2>3 DEF EvictionInv, Hand, OverCap
<1> QED BY <1>1, <1>2, <1>4, <1>7, <1>8 DEF EvictionInv

\* A hit or a second chance writes one field of an entry.
LEMMA EntryFields ==
  ASSUME NEW r \in Entry, NEW f, (\E b \in BOOLEAN : f = [r EXCEPT !.ref = b])
                                \/ f = [r EXCEPT !.hits = @ + 1]
  PROVE  f \in Entry /\ f.src = r.src /\ f.key = r.key /\ f.hits >= r.hits
<1>1. r.hits \in Nat
  BY DEF Entry
<1>2. ASSUME NEW b \in BOOLEAN, f = [r EXCEPT !.ref = b]
      PROVE  f \in Entry /\ f.src = r.src /\ f.key = r.key /\ f.hits = r.hits
  BY <1>2 DEF Entry
<1>3. ASSUME f = [r EXCEPT !.hits = r.hits + 1]
      PROVE  f \in Entry /\ f.src = r.src /\ f.key = r.key /\ f.hits = r.hits + 1
  BY <1>3 DEF Entry
<1> QED BY <1>1, <1>2, <1>3

\* A lock-free touch or count changes one entry's bit or counter.
LEMMA TouchKeeps ==
  ASSUME IndInv, NEW e \in Positions,
         \/ heap' = heap
         \/ heap' = [heap EXCEPT ![e].ref = TRUE] \/ heap' = [heap EXCEPT ![e].ref = FALSE]
         \/ heap' = [heap EXCEPT ![e].hits = @ + 1]
  PROVE  /\ ShapesKept /\ \A x \in Positions : heap'[x].hits >= heap[x].hits
         /\ \A x \in Positions : x # e => heap'[x].ref = heap[x].ref
<1>1. heap \in Seq(Entry) /\ DOMAIN heap = 1..Len(heap) /\ Len(heap) \in Nat
      /\ heap[e] \in Entry /\ \A x \in Positions : heap[x].hits \in Nat
  BY EntryTypes, LenProperties DEF IndInv, TypeOK
<1>2. ASSUME NEW f \in Entry, f.src = heap[e].src, f.key = heap[e].key, f.hits >= heap[e].hits,
             heap' = [heap EXCEPT ![e] = f]
      PROVE  /\ ShapesKept /\ \A x \in Positions : heap'[x].hits >= heap[x].hits
             /\ \A x \in Positions : x # e => heap'[x].ref = heap[x].ref
  <2>1. ShapesKept
    BY <1>2, EntryUpdated DEF ShapesKept
  <2>2. \A x \in Positions : x # e => heap'[x] = heap[x]
    BY <1>1, <1>2 DEF Positions
  <2>3. heap'[e] = f
    BY <1>1, <1>2 DEF Positions
  <2> QED BY <1>1, <1>2, <2>1, <2>2, <2>3
<1>3. CASE heap' = heap
  BY <1>1, <1>3, EntriesSame DEF ShapesKept
<1>4. CASE heap' = [heap EXCEPT ![e].ref = TRUE] \/ heap' = [heap EXCEPT ![e].ref = FALSE]
  <2>1. PICK b \in BOOLEAN : heap' = [heap EXCEPT ![e] = [heap[e] EXCEPT !.ref = b]]
    BY <1>4
  <2> DEFINE f == [heap[e] EXCEPT !.ref = b]
  <2>2. f \in Entry /\ f.src = heap[e].src /\ f.key = heap[e].key /\ f.hits >= heap[e].hits
    BY <1>1, EntryFields
  <2> HIDE DEF f
  <2> QED BY <1>2, <2>1, <2>2 DEF f
<1>5. CASE heap' = [heap EXCEPT ![e].hits = @ + 1]
  <2> DEFINE f == [heap[e] EXCEPT !.hits = @ + 1]
  <2>1. heap' = [heap EXCEPT ![e] = f]
    BY <1>5
  <2>2. f \in Entry /\ f.src = heap[e].src /\ f.key = heap[e].key /\ f.hits >= heap[e].hits
    BY <1>1, EntryFields
  <2> HIDE DEF f
  <2> QED BY <1>2, <2>1, <2>2
<1> QED BY <1>3, <1>4, <1>5

\* A call starts: its look-up in the snapshot touches nothing shared.
LEMMA EvCallStep ==
  ASSUME IndInv, EvictionInv, NEW g \in Goroutines, NEW c \in Calls, Call(g, c)
  PROVE  EvictionInv'
<1>1. /\ pc[g] = "idle" /\ UNCHANGED <<heap, m, order, totalBytes, maxBytes, mu, fast, sweep>>
      /\ \A h \in Goroutines : h # g => req'[h] = req[h] /\ ent'[h] = ent[h]
  BY DEF Call, entries, bytes, IndInv, TypeOK
<1>2. PICK l \in {"refuse", "touch", "lock"} : pc' = [pc EXCEPT ![g] = l]
  BY DEF Call, Goto
<1>3. ent'[g] \in {ent[g], NoEntry} \/ \E k \in Encodings : ent'[g] = fast[k]
  <2>1. Encode[Shape(c)] \in Encodings
    BY CacheAssumption DEF Shape, Shapes
  <2>2. FastHit(c) = NoEntry \/ FastHit(c) = fast[Encode[Shape(c)]]
    BY DEF FastHit
  <2>3. ent' = ent \/ ent' = [ent EXCEPT ![g] = FastHit(c)]
    BY DEF Call
  <2> QED BY <2>1, <2>2, <2>3 DEF IndInv, TypeOK
<1>4. ShapesKept
  BY <1>1, EntriesSame DEF ShapesKept
<1> QED BY <1>1, <1>2, <1>3, <1>4, OutsideStep DEF InLoop, Labels

\* The ways out of entry(), the lock-free touches and the observation API.
LEMMA EvQuietStep ==
  ASSUME IndInv, EvictionInv, NEW g \in Goroutines,
         \/ Refuse(g) \/ ComposeFails(g) \/ Observe(g) \/ Touch(g) \/ CountHit(g)
         \/ Stats(g) \/ ReadStats(g)
  PROVE  EvictionInv'
<1>1. /\ pc[g] \in {"refuse", "compose", "observe", "touch", "touchTwin", "count", "idle", "scrape"}
      /\ UNCHANGED <<m, order, totalBytes, maxBytes, mu, fast, sweep>>
  BY DEF Refuse, ComposeFails, Observe, Touch, CountHit, Stats, ReadStats, entries, bytes
<1>2. \A h \in Goroutines : h # g => req'[h] = req[h] /\ ent'[h] = ent[h]
  BY DEF Refuse, ComposeFails, Observe, Touch, CountHit, Stats, ReadStats, Return, IndInv, TypeOK
<1>3. ent'[g] \in {ent[g], NoEntry}
  BY DEF Refuse, ComposeFails, Observe, Touch, CountHit, Stats, ReadStats, Return, IndInv, TypeOK
<1>4. PICK l \in {"idle", "count", "observe", "scrape"} : pc' = [pc EXCEPT ![g] = l]
  BY DEF Refuse, ComposeFails, Observe, Touch, CountHit, Stats, ReadStats, Return, Goto
<1>5. ShapesKept /\ \A e \in Positions : e # ent[g] => heap'[e].ref = heap[e].ref
  <2>1. CASE Touch(g) \/ CountHit(g)
    <3>1. ent[g] \in Positions
      BY <2>1 DEF Touch, CountHit, IndInv, TypeOK, Phases, Phase
    <3>2. \/ heap' = heap \/ heap' = [heap EXCEPT ![ent[g]].ref = TRUE]
          \/ heap' = [heap EXCEPT ![ent[g]].hits = @ + 1]
      BY <2>1 DEF Touch, CountHit
    <3> QED BY <3>1, <3>2, TouchKeeps
  <2>2. CASE heap' = heap
    BY <2>2, EntriesSame DEF ShapesKept
  <2> QED BY <2>1, <2>2 DEF Refuse, ComposeFails, Observe, Stats, ReadStats, entries
<1> QED BY <1>1, <1>2, <1>3, <1>4, <1>5, OutsideStep DEF InLoop, Labels

\* Nobody is in a critical section, before or after: only the list, the map
\* and the ledger matter, and the bounds when an entry was removed.
LEMMA UnlockedStep ==
  ASSUME IndInv, IndInv', EvictionInv, mu = NoOne, mu' = NoOne, OneList', Ledger',
         Cardinality(Resident') <= Cardinality(Resident), totalBytes' <= totalBytes,
         UNCHANGED maxBytes
  PROVE  EvictionInv'
<1>1. \A h \in Goroutines : pc'[h] \notin {"insert", "evict", "sweep"}
  BY NoOneAssumption DEF IndInv, Exclusive
<1>2. Ready' /\ Private' /\ Hand'
  BY <1>1 DEF Ready, Private, Hand, Inserting, InLoop
<1>3. /\ Cardinality(Resident) \in Nat /\ Cardinality(Resident') \in Nat
      /\ totalBytes \in Int /\ totalBytes' \in Int /\ maxBytes \in Nat /\ Cap \in Nat
  BY FS_CardinalityType, CacheAssumption DEF IndInv, FiniteMap, TypeOK
<1>4. Bounded'
  BY <1>3 DEF EvictionInv, Bounded, OverBytes, Locked
<1> QED BY <1>2, <1>4 DEF EvictionInv

\* The entry of a colliding key leaves the map, the list and the ledger at once.
LEMMA DropKeeps ==
  ASSUME IndInv, OneList, Ledger, NEW c \in Calls, Found(c) = NoEntry, DropColliding(c),
         UNCHANGED heap
  PROVE  /\ OneList' /\ Ledger' /\ m'[Encode[Shape(c)]] = NoEntry
         /\ Cardinality(Resident') <= Cardinality(Resident) /\ totalBytes' <= totalBytes
<1> DEFINE k == Encode[Shape(c)]
<1>1. k \in Encodings /\ Cardinality(Resident) \in Nat /\ totalBytes \in Int
  BY FS_CardinalityType, CacheAssumption DEF Shape, Shapes, IndInv, FiniteMap, TypeOK
<1>2. CASE m[k] = NoEntry
  <2>1. UNCHANGED <<order, m, totalBytes>>
    BY <1>2 DEF DropColliding
  <2> QED BY <1>1, <1>2, <2>1, ListKept, LedgerKept, EntriesSame DEF ShapesKept
<1>3. CASE m[k] # NoEntry
  <2>1. RemoveEntry(m[k])
    BY <1>3 DEF DropColliding
  <2>2. k \in Resident /\ \E i \in DOMAIN order : order[i] = m[k]
    BY <1>1, <1>3, ListedResident DEF Resident
  <2>3. MapKey(m[k]) = k
    BY <2>2, EntryTypes
  <2> QED BY <1>1, <2>1, <2>2, <2>3, RemoveKeeps
<1> QED BY <1>2, <1>3

\* The critical sections that are one step: a deferred hit, a race lost, a miss.
LEMMA EvLockStep ==
  ASSUME IndInv, IndInv', EvictionInv, NEW g \in Goroutines,
         DeferredHit(g) \/ Raced(g) \/ FirstMiss(g)
  PROVE  EvictionInv'
<1>1. /\ mu = NoOne /\ mu' = NoOne /\ UNCHANGED <<heap, maxBytes>> /\ req[g] \in Calls
      /\ totalBytes \in Int /\ Cardinality(Resident) \in Nat /\ OneList /\ Ledger
  BY FS_CardinalityType DEF DeferredHit, Raced, FirstMiss, Locked, bytes, IndInv, TypeOK, Phases,
     Phase, FiniteMap, EvictionInv
<1>2. ShapesKept
  BY <1>1, EntriesSame DEF ShapesKept
<1>3. /\ OneList' /\ Ledger' /\ Cardinality(Resident') <= Cardinality(Resident)
      /\ totalBytes' <= totalBytes
  <2>1. CASE DeferredHit(g) \/ Raced(g)
    <3>1. /\ order' = MovedToFront(order, Found(req[g])) /\ UNCHANGED <<m, totalBytes>>
          /\ Found(req[g]) # NoEntry
      BY <2>1 DEF DeferredHit, Raced, bytes
    <3>2. OneList' /\ Resident' = Resident
      BY <1>1, <3>1, LookupMatches, MoveKeeps
    <3> QED BY <1>1, <1>2, <3>1, <3>2, LedgerKept
  <2>2. CASE FirstMiss(g)
    BY <1>1, <2>2, DropKeeps DEF FirstMiss
  <2> QED BY <2>1, <2>2
<1> QED BY <1>1, <1>3, UnlockedStep

\* A goroutine takes the mutex: to insert, or to evict for SetMaxBytes.
LEMMA EvTakeStep ==
  ASSUME IndInv, IndInv', EvictionInv, NEW g \in Goroutines,
         Relock(g) \/ \E n \in ByteBounds : SetMaxBytes(g, n)
  PROVE  EvictionInv'
<1>1. /\ mu = NoOne /\ mu' = g /\ UNCHANGED <<heap, req>>
      /\ Cardinality(Resident) <= Cap /\ Cap \in Nat
      /\ totalBytes \in Int /\ Cardinality(Resident) \in Nat /\ Cardinality(Resident') \in Nat
      /\ OneList /\ Ledger
  BY FS_CardinalityType, CacheAssumption DEF Relock, SetMaxBytes, Locked, IndInv, TypeOK,
     FiniteMap, EvictionInv, Bounded, entries
<1>2. \A h \in Goroutines : h # g => pc'[h] \notin {"insert", "evict", "sweep"}
  BY <1>1 DEF IndInv, Exclusive
<1>3. Bounded'
  BY <1>1, NoOneAssumption DEF Bounded, Locked
<1>4. CASE Relock(g)
  <2>1. /\ pc'[g] = "insert" /\ req[g] \in Calls /\ DropColliding(req[g])
        /\ Found(req[g]) = NoEntry
    BY <1>4 DEF Relock, Goto, IndInv, TypeOK, Phases, Phase
  <2>2. /\ OneList' /\ Ledger' /\ m'[Encode[Shape(req[g])]] = NoEntry
        /\ Cardinality(Resident') <= Cardinality(Resident)
    BY <1>1, <2>1, DropKeeps
  <2>3. Cardinality(Resident') <= Cap
    BY <1>1, <2>2
  <2>4. Ready'
    BY <1>1, <1>2, <2>1, <2>2, <2>3 DEF Ready, InLoop, Shape
  <2>5. Private' /\ Hand'
    BY <1>2, <2>1 DEF Private, Hand, Inserting, InLoop
  <2> QED BY <1>3, <2>2, <2>4, <2>5 DEF EvictionInv
<1>5. CASE \E n \in ByteBounds : SetMaxBytes(g, n)
  <2>1. /\ pc'[g] = "evict" /\ req[g] = NoCall /\ UNCHANGED <<m, order, totalBytes>>
    BY <1>5 DEF SetMaxBytes, Goto, entries, IndInv, TypeOK, Phases, Phase
  <2>2. OneList' /\ Ledger' /\ Resident' = Resident
    BY <1>1, <2>1, ListKept, LedgerKept, EntriesSame DEF ShapesKept
  <2>3. Ready'
    BY <1>1, <1>2, <2>1, <2>2 DEF Ready, InLoop
  <2>4. Private' /\ Hand'
    BY <1>1, <1>2, <2>1 DEF Private, Hand, Inserting, InLoop
  <2> QED BY <1>3, <2>2, <2>3, <2>4 DEF EvictionInv
<1> QED BY <1>4, <1>5

\* The mutex is released once the loop's bounds hold.
LEMMA EvUnlockStep ==
  ASSUME IndInv, IndInv', EvictionInv, NEW g \in Goroutines, Inserted(g) \/ MaxBytesSet(g)
  PROVE  EvictionInv'
<1>1. /\ pc[g] = "evict" /\ mu' = NoOne /\ UNCHANGED <<heap, m, order, totalBytes, maxBytes>>
      /\ Cap \in Nat /\ Cardinality(Resident) \in Nat /\ OneList /\ Ledger
  BY FS_CardinalityType, CacheAssumption DEF Inserted, MaxBytesSet, bytes, EvictionInv,
     IndInv, FiniteMap
<1>2. ~OverBytes /\ Cardinality(Resident) <= Cap
  <2>1. CASE req[g] # NoCall
    <3>1. ~OverBytes /\ ~OverCap
      BY <2>1 DEF Inserted, MaxBytesSet, OverBound
    <3> QED BY <1>1, <3>1 DEF OverCap
  <2>2. CASE req[g] = NoCall
    BY <1>1, <2>2 DEF Inserted, MaxBytesSet, OverBound, EvictionInv, Ready, InLoop
  <2> QED BY <2>1, <2>2
<1>3. OneList' /\ Ledger' /\ Resident' = Resident
  BY <1>1, ListKept, LedgerKept, EntriesSame DEF ShapesKept
<1>4. Bounded'
  BY <1>1, <1>2, <1>3 DEF Bounded, OverBytes
<1>5. \A h \in Goroutines : pc'[h] \notin {"insert", "evict", "sweep"}
  BY <1>1, NoOneAssumption DEF IndInv, Exclusive
<1>6. Ready' /\ Private' /\ Hand'
  BY <1>5 DEF Ready, Private, Hand, Inserting, InLoop
<1> QED BY <1>3, <1>4, <1>6 DEF EvictionInv

\* The composed entry enters the map, the list and the ledger at once.
LEMMA EvInsertStep ==
  ASSUME IndInv, IndInv', EvictionInv, NEW g \in Goroutines, Insert(g)
  PROVE  EvictionInv'
<1>a. PICK new : new = Len(heap) + 1
  OBVIOUS
<1>b. PICK k : k = Encode[Shape(req[g])]
  OBVIOUS
<1>1. /\ req[g] \in Calls /\ pc[g] = "insert" /\ mu = g /\ mu' = g
      /\ heap' = Append(heap, NewEntry(req[g]))
      /\ order' = <<new>> \o order
      /\ m' = [m EXCEPT ![k] = new]
      /\ totalBytes' = totalBytes + Bytes[Shape(req[g])]
      /\ ent' = [ent EXCEPT ![g] = new]
      /\ pc' = [pc EXCEPT ![g] = "evict"]
      /\ UNCHANGED <<fast, req, maxBytes>>
  BY <1>a, <1>b DEF Insert, Goto, IndInv, TypeOK, Phases, Phase, Exclusive
<1>2. /\ Shape(req[g]) \in Shapes /\ k \in Encodings /\ Bytes[Shape(req[g])] \in Nat
      /\ NewEntry(req[g]) \in Entry
      /\ m[k] = NoEntry /\ Cardinality(Resident) <= Cap /\ Cap \in Nat
  BY <1>1, <1>b, CacheAssumption DEF Shape, Shapes, EvictionInv, Ready, NewEntry, Entry
<1>3. /\ heap \in Seq(Entry) /\ Len(heap) \in Nat /\ Positions = 1..Len(heap)
      /\ order \in Seq(Positions) /\ m \in [Encodings -> Positions \cup {NoEntry}]
      /\ fast \in [Encodings -> Positions \cup {NoEntry}]
      /\ ent \in [Goroutines -> Positions \cup {NoEntry}] /\ totalBytes \in Int
  BY LenProperties DEF IndInv, TypeOK, Positions
<1>4. /\ heap'[new] = NewEntry(req[g]) /\ Positions' = 1..(Len(heap) + 1)
      /\ \A x \in Positions : heap'[x] = heap[x]
  BY <1>1, <1>2, <1>3, <1>a, AppendProperties, LenProperties DEF Positions
<1>5. new \notin Positions /\ new # NoEntry /\ new \in Positions' /\ Positions \subseteq Positions'
  BY <1>3, <1>4, <1>a DEF NoEntry
<1>6. /\ \A x \in Positions : ShapeOf(x)' = ShapeOf(x)
      /\ ShapeOf(new)' = Shape(req[g]) /\ ~heap'[new].ref
  BY <1>4 DEF ShapeOf, Shape, NewEntry
<1>7. Resident' = Resident \cup {k} /\ k \notin Resident
  BY <1>1, <1>2, <1>3, <1>5 DEF Resident
<1>8. m'[k] = new /\ \A x \in Resident : m'[x] = m[x] /\ m[x] \in Positions
  BY <1>1, <1>2, <1>3, <1>7, EntryTypes
<1>9. OneList' /\ order'[1] = new
  <2>1. order \in Seq(Positions') /\ new \notin ToSet(order)
    <3>1. order \in Seq(Positions')
      BY <1>3, <1>5, SeqMonotonic
    <3>2. \A i \in DOMAIN order : order[i] \in Positions
      BY <1>3, ElementOfSeq, LenProperties
    <3> QED BY <1>5, <3>1, <3>2 DEF ToSet
  <2>2. IsInjective(order') /\ ToSet(order') = ToSet(order) \cup {new} /\ order'[1] = new
    BY <1>1, <1>5, <2>1, PushedKeeps DEF EvictionInv, OneList
  <2>3. ASSUME NEW x PROVE x \in ToSet(order') <=> x \in {m'[y] : y \in Resident'}
    BY <1>7, <1>8, <2>2 DEF EvictionInv, OneList
  <2>4. ToSet(order') = {m'[y] : y \in Resident'}
    BY <2>3
  <2> QED BY <2>2, <2>4 DEF OneList
<1>10. Ledger'
  <2>1. Summable(BytesAt', Resident') /\ BytesAt'[k] = Bytes[Shape(req[g])]
    <3>1. BytesAt' = [x \in Resident' |-> Bytes[ShapeOf(m[x])']]
      BY DEF BytesAt
    <3>2. BytesAt'[k] = Bytes[ShapeOf(m[k])']
      BY <1>7, <3>1
    <3>3. ShapeOf(m[k])' = Shape(req[g])
      BY <1>6, <1>8 DEF ShapeOf
    <3>4. \A x \in Resident : BytesAt'[x] = Bytes[ShapeOf(m[x])]
      <4> TAKE x \in Resident
      <4>1. ShapeOf(m[x])' = ShapeOf(m[x])
        BY <1>4, <1>8 DEF ShapeOf
      <4> QED BY <1>7, <3>1, <4>1
    <3>5. \A x \in Resident' : BytesAt'[x] \in Int
      BY <1>2, <1>7, <1>8, <3>2, <3>3, <3>4, EntryTypes
    <3>6. IsFiniteSet(Resident')
      BY DEF IndInv, FiniteMap
    <3> QED BY <3>2, <3>3, <3>5, <3>6 DEF Summable
  <2>2. \A x \in Resident : BytesAt[x] = BytesAt'[x]
    <3> TAKE x \in Resident
    <3>1. ShapeOf(m[x])' = ShapeOf(m[x])
      BY <1>4, <1>8 DEF ShapeOf
    <3> QED BY <1>7, <3>1 DEF BytesAt
  <2>3. Resident' \ {k} = Resident /\ k \in Resident'
    BY <1>7
  <2>4. SumFunctionOnSet(BytesAt', Resident')
          = BytesAt'[k] + SumFunctionOnSet(BytesAt', Resident)
    BY <2>1, <2>3, SumAt
  <2>5. SumFunctionOnSet(BytesAt, Resident) = SumFunctionOnSet(BytesAt', Resident)
    BY <2>2, BytesSummable, SumSame
  <2>6. totalBytes = SumFunctionOnSet(BytesAt, Resident)
    BY LedgerSum DEF EvictionInv
  <2>7. totalBytes' = SumFunctionOnSet(BytesAt', Resident')
    BY <1>1, <1>2, <1>3, <2>1, <2>4, <2>5, <2>6
  <2> QED BY <2>7 DEF Ledger, BytesAt, SumFunction
<1>11. Cardinality(Resident') <= Cap + 1
  <2>1. Cardinality(Resident') = Cardinality(Resident) + 1 /\ Cardinality(Resident) \in Nat
    BY <1>7, FS_AddElement, FS_CardinalityType DEF IndInv, FiniteMap
  <2> QED BY <1>2, <2>1
<1>12. Bounded'
  BY <1>1, NoOneAssumption DEF Bounded, Locked
<1>13. /\ \A h \in Goroutines : h # g => /\ pc'[h] \notin {"insert", "evict", "sweep"}
                                        /\ ent'[h] = ent[h] /\ ent[h] # new
       /\ pc'[g] = "evict" /\ ent'[g] = new /\ req'[g] # NoCall
  BY <1>1, <1>3, <1>5, NoCallAssumption DEF IndInv, TypeOK, Exclusive
<1>14. Ready'
  BY <1>13 DEF Ready, InLoop
<1>15. Private'
  BY <1>1, <1>3, <1>5, <1>13 DEF Private, Inserting, InLoop
<1>16. Hand'
  BY <1>6, <1>9, <1>11, <1>13 DEF Hand, Inserting, InLoop
<1> QED BY <1>9, <1>10, <1>12, <1>14, <1>15, <1>16 DEF EvictionInv

\* The sweep starts with as many chances as there are entries.
LEMMA EvStartStep ==
  ASSUME IndInv, IndInv', EvictionInv, NEW g \in Goroutines, EvictOne(g)
  PROVE  EvictionInv'
<1>1. /\ pc[g] = "evict" /\ pc' = [pc EXCEPT ![g] = "sweep"] /\ OverBound(g)
      /\ sweep' = Cardinality(Resident)
      /\ UNCHANGED <<heap, fast, m, order, mu, req, ent, totalBytes, maxBytes>>
      /\ mu = g /\ OneList /\ Ledger
  BY DEF EvictOne, Goto, entries, bytes, IndInv, Exclusive, EvictionInv
<1>2. OneList' /\ Ledger' /\ Resident' = Resident
  BY <1>1, ListKept, LedgerKept, EntriesSame DEF ShapesKept
<1>3. Bounded'
  BY <1>1, NoOneAssumption DEF Bounded, Locked
<1>4. \A h \in Goroutines : /\ InLoop(h)' <=> InLoop(h)
                            /\ pc'[h] = "insert" <=> pc[h] = "insert"
  BY <1>1 DEF InLoop, IndInv, TypeOK
<1>5. Ready' /\ Private'
  BY <1>1, <1>2, <1>4 DEF EvictionInv, Ready, Private, Inserting, Shape
<1>6. Hand'
  <2> SUFFICES ASSUME NEW h \in Goroutines, Inserting(h)', maxBytes' = 0
               PROVE  /\ ~heap'[ent'[h]].ref /\ Cardinality(Resident') <= Cap + 1
                      /\ pc'[h] = "evict" /\ OverCap' => order'[1] = ent'[h]
                      /\ pc'[h] = "sweep" => /\ sweep' \in 1..Len(order')
                                             /\ order'[Len(order') + 1 - sweep'] = ent'[h]
    BY DEF Hand
  <2>1. Inserting(h)
    BY <1>1, <1>4 DEF Inserting
  <2>2. h = g
    BY <1>1, <2>1 DEF Inserting, InLoop, IndInv, Exclusive
  <2>3. OverCap
    BY <1>1 DEF OverBound, OverBytes
  <2>4. order[1] = ent[g] /\ ~heap[ent[g]].ref /\ Cardinality(Resident) <= Cap + 1
    BY <1>1, <2>1, <2>2, <2>3 DEF EvictionInv, Hand
  <2>5. Cardinality(Resident) = Len(order) /\ Cardinality(Resident) \in Nat /\ Cap \in Nat
    BY <1>1, ListedResident, FS_CardinalityType, CacheAssumption DEF IndInv, FiniteMap
  <2>6. Len(order) > 0
    BY <2>3, <2>5 DEF OverCap
  <2>7. sweep' \in 1..Len(order') /\ Len(order') + 1 - sweep' = 1
    BY <1>1, <2>5, <2>6
  <2>8. pc'[g] = "sweep"
    BY <1>1 DEF IndInv, TypeOK
  <2> QED BY <1>1, <1>2, <2>2, <2>4, <2>7, <2>8
<1> QED BY <1>2, <1>3, <1>5, <1>6 DEF EvictionInv

\* The hand clears a touched entry's bit and spares it.
LEMMA EvSecondChanceStep ==
  ASSUME IndInv, IndInv', EvictionInv, NEW g \in Goroutines, SecondChance(g)
  PROVE  EvictionInv'
<1>a. PICK e : e = Last(order)
  OBVIOUS
<1>1. /\ pc[g] = "sweep" /\ sweep > 0 /\ heap[e].ref /\ mu = g
      /\ heap' = [heap EXCEPT ![e].ref = FALSE]
      /\ order' = MovedToFront(order, e) /\ sweep' = sweep - 1
      /\ UNCHANGED <<fast, m, mu, pc, req, ent, totalBytes, maxBytes>> /\ OneList /\ Ledger
  BY <1>a DEF SecondChance, bytes, IndInv, Exclusive, EvictionInv
<1>2. /\ e \in Positions /\ \E i \in DOMAIN order : order[i] = e
  BY <1>1, <1>a, HandListed
<1>3. ShapesKept /\ \A x \in Positions : x # e => heap'[x].ref = heap[x].ref
  BY <1>1, <1>2, TouchKeeps
<1>4. OneList' /\ Resident' = Resident
  BY <1>1, <1>2, MoveKeeps
<1>5. Ledger'
  BY <1>1, <1>3, LedgerKept
<1>6. Bounded'
  BY <1>1, NoOneAssumption DEF Bounded, Locked
<1>7. Ready' /\ Private'
  BY <1>1, <1>4 DEF EvictionInv, Ready, Private, Inserting, InLoop, Shape
<1>8. Hand'
  <2> SUFFICES ASSUME NEW h \in Goroutines, Inserting(h)', maxBytes' = 0
               PROVE  /\ ~heap'[ent'[h]].ref /\ Cardinality(Resident') <= Cap + 1
                      /\ pc'[h] = "evict" /\ OverCap' => order'[1] = ent'[h]
                      /\ pc'[h] = "sweep" => /\ sweep' \in 1..Len(order')
                                             /\ order'[Len(order') + 1 - sweep'] = ent'[h]
    BY DEF Hand
  <2>1. Inserting(h) /\ h = g
    BY <1>1 DEF Inserting, InLoop, IndInv, Exclusive
  <2> DEFINE n == Len(order)
  <2>2. /\ ~heap[ent[g]].ref /\ Cardinality(Resident) <= Cap + 1
        /\ sweep \in 1..n /\ order[n + 1 - sweep] = ent[g] /\ ent[g] \in Positions
    BY <1>1, <2>1 DEF EvictionInv, Hand, IndInv, TypeOK, Phases, Phase, Inserting
  <2>3. ent[g] # e
    BY <1>1, <2>2
  <2>4. ~heap'[ent[g]].ref
    BY <1>3, <2>2, <2>3
  <2>5. order \in Seq(Positions) /\ n \in Nat /\ DOMAIN order = 1..n /\ order[n] = e
    BY <1>a, LenProperties DEF IndInv, TypeOK, Last
  <2>6. sweep # 1 /\ sweep \in 2..n
    <3>1. sweep = 1 => n + 1 - sweep = n
      BY <2>5
    <3> QED BY <2>2, <2>3, <2>5, <3>1
  <2> DEFINE r == Removed(order, e)
  <2>7. PositionOf(order, e) = n
    <3>1. PositionOf(order, e) \in 1..n /\ order[PositionOf(order, e)] = e
      BY <1>2, <2>5, RemovedShape
    <3>2. n \in 1..n
      BY <2>2, <2>5
    <3> QED BY <1>1, <2>5, <3>1, <3>2 DEF OneList, IsInjective
  <2>8. r \in Seq(Positions) /\ Len(r) = n - 1 /\ \A i \in 1..(n - 1) : r[i] = order[i]
    <3> DEFINE p == PositionOf(order, e)
    <3>1. r \in Seq(Positions) /\ Len(r) = Len(order) - 1
      BY <1>2, <2>5, RemovedShape
    <3>2. \A i \in 1..(p - 1) : r[i] = order[i]
      BY <1>2, <2>5, RemovedShape
    <3> HIDE DEF p, r
    <3> QED BY <2>7, <3>1, <3>2 DEF p
  <2>9. IsInjective(r) /\ e \notin ToSet(r)
    BY <1>1, <1>2, <2>5, RemovedKeeps DEF OneList
  <2>10. /\ order' = <<e>> \o r /\ Len(order') = Len(r) + 1
         /\ \A i \in 1..Len(r) : order'[i + 1] = r[i]
    <3>1. order' = <<e>> \o r
      BY <1>1 DEF MovedToFront
    <3> HIDE DEF r
    <3> QED BY <1>2, <2>8, <2>9, <3>1, PushedKeeps
  <2>11. n + 1 - sweep \in 1..(n - 1) /\ n + 1 - sweep' = (n + 1 - sweep) + 1 /\ sweep' \in 1..n
    BY <1>1, <2>5, <2>6
  <2>12. Len(order') = n
    <3> HIDE DEF r, n
    <3>1. Len(order') = (n - 1) + 1 /\ n \in Nat
      BY <2>5, <2>8, <2>10
    <3> QED BY <3>1
  <2>13. order'[(n + 1 - sweep) + 1] = ent[g]
    <3> HIDE DEF r, n
    <3>1. order'[(n + 1 - sweep) + 1] = r[n + 1 - sweep]
      BY <2>8, <2>10, <2>11
    <3> QED BY <2>2, <2>8, <2>11, <3>1
  <2>14. pc'[g] = "sweep" /\ ent'[g] = ent[g]
    BY <1>1
  <2> HIDE DEF r, n
  <2> QED BY <1>4, <2>1, <2>2, <2>4, <2>11, <2>12, <2>13, <2>14
<1> QED BY <1>4, <1>5, <1>6, <1>7, <1>8 DEF EvictionInv

\* The hand drops the entry it stands at.
LEMMA EvEvictStep ==
  ASSUME IndInv, IndInv', EvictionInv, NEW g \in Goroutines, Evict(g)
  PROVE  EvictionInv'
<1>a. PICK e : e = Last(order)
  OBVIOUS
<1>1. /\ pc[g] = "sweep" /\ mu = g /\ RemoveEntry(e) /\ pc' = [pc EXCEPT ![g] = "evict"]
      /\ UNCHANGED <<heap, fast, mu, req, ent, maxBytes>> /\ OneList /\ Ledger
  BY <1>a DEF Evict, Goto, IndInv, Exclusive, EvictionInv
<1>2. \E i \in DOMAIN order : order[i] = e
  BY <1>1, <1>a, HandListed
<1>3. /\ OneList' /\ Ledger' /\ Cardinality(Resident') = Cardinality(Resident) - 1
  BY <1>1, <1>2, RemoveKeeps
<1>4. Cardinality(Resident) \in Nat /\ Cap \in Nat
  BY FS_CardinalityType, CacheAssumption DEF IndInv, FiniteMap
<1>5. Bounded'
  BY <1>1, NoOneAssumption DEF Bounded, Locked
<1>6. \A h \in Goroutines : /\ InLoop(h)' <=> InLoop(h)
                            /\ pc'[h] # "sweep"
                            /\ h # g => pc[h] \notin {"insert", "evict", "sweep"} /\ pc'[h] = pc[h]
  BY <1>1 DEF InLoop, IndInv, TypeOK, Exclusive
<1>7. Ready'
  <2>1. \A h \in Goroutines : pc'[h] # "insert"
    BY <1>1, <1>6 DEF IndInv, TypeOK
  <2>2. \A h \in Goroutines : InLoop(h)' /\ req'[h] = NoCall => Cardinality(Resident') <= Cap
    BY <1>1, <1>3, <1>4, <1>6 DEF EvictionInv, Ready
  <2> QED BY <2>1, <2>2 DEF Ready
<1>8. Private'
  BY <1>1, <1>6 DEF EvictionInv, Private, Inserting
<1>9. ASSUME NEW h \in Goroutines, Inserting(h)', maxBytes' = 0
      PROVE  ~heap'[ent'[h]].ref /\ Cardinality(Resident') <= Cap /\ Cardinality(Resident') <= Cap + 1
  <2>1. Inserting(h)
    BY <1>1, <1>6, <1>9 DEF Inserting
  <2>2. ~heap[ent[h]].ref /\ Cardinality(Resident) <= Cap + 1
    BY <1>1, <1>9, <2>1 DEF EvictionInv, Hand
  <2> QED BY <1>1, <1>3, <1>4, <2>2
<1>10. Hand'
  BY <1>4, <1>6, <1>9, <1>3 DEF Hand, OverCap
<1> QED BY <1>3, <1>5, <1>7, <1>8, <1>10 DEF EvictionInv
-----------------------------------------------------------------------------
(* The theorems. *)

\* An empty cache.
LEMMA EvictionInit == Init => EvictionInv
<1> SUFFICES ASSUME Init PROVE EvictionInv
  OBVIOUS
<1>1. Resident = {} /\ order = <<>> /\ totalBytes = 0
  BY DEF Init, Resident
<1>2. OneList
  BY <1>1 DEF OneList, IsInjective, ToSet
<1>3. Ledger
  BY <1>1, SumEmpty, LedgerSum
<1>4. Bounded
  BY <1>1, FS_EmptySet, CacheAssumption DEF Bounded, OverBytes
<1>5. Ready /\ Private /\ Hand
  BY DEF Init, Ready, Private, Hand, Inserting, InLoop
<1> QED BY <1>2, <1>3, <1>4, <1>5 DEF EvictionInv

\* Every step keeps the invariant of eviction.
LEMMA EvictionNext == IndInv /\ IndInv' /\ EvictionInv /\ [Next]_vars => EvictionInv'
<1> SUFFICES ASSUME IndInv, IndInv', EvictionInv, [Next]_vars PROVE EvictionInv'
  OBVIOUS
<1>1. CASE UNCHANGED vars
  <2>1. UNCHANGED <<heap, fast, m, order, mu, maxBytes, totalBytes, pc, req, ent, sweep>>
    BY <1>1 DEF vars, entries, bytes, local
  <2>2. OneList' /\ Resident' = Resident /\ Ledger'
    BY <2>1, ListKept, LedgerKept, EntriesSame DEF EvictionInv, ShapesKept
  <2>3. Bounded' /\ Ready' /\ Private' /\ Hand'
    BY <2>1, <2>2 DEF EvictionInv, Bounded, Locked, OverBytes, OverCap, Ready, Private, Hand,
       Inserting, InLoop, Shape
  <2> QED BY <2>2, <2>3 DEF EvictionInv
<1>2. ASSUME NEW g \in Goroutines, NEW c \in Calls, Call(g, c) PROVE EvictionInv'
  BY <1>2, EvCallStep
<1>3. ASSUME NEW g \in Goroutines, Acquire(g) PROVE EvictionInv'
  BY <1>3, EvLockStep, EvTakeStep, EvQuietStep DEF Acquire
<1>4. ASSUME NEW g \in Goroutines, Proceed(g) PROVE EvictionInv'
  BY <1>4, EvQuietStep, EvInsertStep, EvStartStep, EvSecondChanceStep, EvEvictStep, EvUnlockStep
     DEF Proceed
<1>5. ASSUME NEW g \in Goroutines, \E n \in ByteBounds : SetMaxBytes(g, n) PROVE EvictionInv'
  BY <1>5, EvTakeStep
<1>6. ASSUME NEW g \in Goroutines, NEW on \in BOOLEAN, SetObserver(g, on) PROVE EvictionInv'
  <2>1. /\ pc[g] = "idle" /\ pc' = pc
        /\ UNCHANGED <<heap, m, order, totalBytes, maxBytes, mu, fast, sweep, req, ent>>
    BY <1>6 DEF SetObserver, entries, bytes, local
  <2>2. pc' = [pc EXCEPT ![g] = "idle"]
    BY <2>1 DEF IndInv, TypeOK
  <2>3. ShapesKept
    BY <2>1, EntriesSame DEF ShapesKept
  <2> QED BY <2>1, <2>2, <2>3, OutsideStep DEF InLoop, Labels
<1>7. ASSUME NEW g \in Goroutines, Stats(g) PROVE EvictionInv'
  BY <1>7, EvQuietStep
<1> QED BY <1>1, <1>2, <1>3, <1>4, <1>5, <1>6, <1>7 DEF Next

\* Map, list, ledger, bounds and hand agree in every reachable state.
THEOREM EvictionInvariance == Spec => []EvictionInv
<1>1. IndInv /\ IndInv' /\ EvictionInv /\ [Next]_vars => EvictionInv'
  BY EvictionNext
<1> QED BY <1>1, EvictionInit, Invariance, PTL DEF Spec

\* Whatever hits, misses, collisions and evictions race: the map, the recency
\* list and the byte ledger describe one set of entries, the cache is within
\* both bounds whenever the mutex is free, and with only the count bound no
\* touched entry is dropped (entry(), remove(), evictOne(), SetMaxBytes).
THEOREM EvictionIsSound == Spec => []EvictionSound
<1>1. IndInv /\ EvictionInv => EvictionSound
  <2> SUFFICES ASSUME IndInv, EvictionInv PROVE EvictionSound
    OBVIOUS
  <2>1. OwnKeys
    BY EntryTypes DEF OwnKeys
  <2>2. SweepFindsVictim
    BY DEF EvictionInv, Hand, Inserting, InLoop, SweepFindsVictim
  <2> QED BY <2>1, <2>2 DEF EvictionInv, EvictionSound, Coherent
<1> QED BY <1>1, Invariance, EvictionInvariance, PTL
-----------------------------------------------------------------------------
(* The cumulative hits. *)

HitsAt == [k \in Resident |-> heap[m[k]].hits]
HitSum == SumFunctionOnSet(HitsAt, Resident)

\* The hits of the resident entries can be added up,
LEMMA HitsSummable ==
  ASSUME IndInv
  PROVE  /\ Summable(HitsAt, Resident) /\ HitSum \in Int /\ hitsFolded \in Nat
         /\ \A x \in Resident : HitsAt[x] = heap[m[x]].hits
         /\ CumulativeHits = hitsFolded + HitSum
<1>1. \A k \in Resident : HitsAt[k] = heap[m[k]].hits /\ HitsAt[k] \in Nat
  BY EntryTypes DEF HitsAt
<1>2. Summable(HitsAt, Resident)
  BY <1>1 DEF Summable, IndInv, FiniteMap
<1> QED BY <1>1, <1>2, SumInt DEF HitSum, HitsAt, CumulativeHits, SumFunction, IndInv, TypeOK

\* and so they can after a step.
LEMMA HitsSummableNext ==
  ASSUME IndInv'
  PROVE  /\ Summable(HitsAt', Resident') /\ HitSum' \in Int
         /\ \A x \in Resident' : HitsAt'[x] = heap'[m'[x]].hits
         /\ CumulativeHits' = hitsFolded' + HitSum'
<1>1. /\ Summable(HitsAt, Resident)' /\ (HitSum \in Int)'
      /\ (\A x \in Resident : HitsAt[x] = heap[m[x]].hits)'
      /\ (CumulativeHits = hitsFolded + HitSum)'
  BY HitsSummable, PTL
<1> QED BY <1>1 DEF Summable

\* A step that keeps the map and loses no entry's hits.
LEMMA HitsKept ==
  ASSUME IndInv, IndInv', UNCHANGED <<m, hitsFolded>>,
         \A e \in Positions : heap'[e].hits >= heap[e].hits
  PROVE  CumulativeHits' >= CumulativeHits
<1>1. Resident' = Resident /\ \A k \in Resident : m'[k] = m[k] /\ m[k] \in Positions
  BY EntryTypes DEF Resident
<1>2. /\ Summable(HitsAt, Resident) /\ HitSum \in Int /\ hitsFolded \in Nat
      /\ \A x \in Resident : HitsAt[x] = heap[m[x]].hits
      /\ CumulativeHits = hitsFolded + HitSum
  BY HitsSummable
<1>3. /\ Summable(HitsAt', Resident') /\ HitSum' \in Int
      /\ \A x \in Resident' : HitsAt'[x] = heap'[m'[x]].hits
      /\ CumulativeHits' = hitsFolded' + HitSum'
  BY HitsSummableNext
<1>4. \A k \in Resident : HitsAt[k] <= HitsAt'[k]
  <2> TAKE k \in Resident
  <2>1. HitsAt[k] \in Int /\ HitsAt'[k] \in Int
    BY <1>1, <1>2, <1>3 DEF Summable
  <2> QED BY <1>1, <1>2, <1>3, <2>1
<1>5. HitSum <= HitSum'
  BY <1>1, <1>2, <1>3, <1>4, SumMonotone DEF HitSum
<1>6. hitsFolded' = hitsFolded /\ hitsFolded \in Int /\ HitSum \in Int /\ HitSum' \in Int
  BY <1>2, <1>3
<1>7. CumulativeHits = hitsFolded + HitSum /\ CumulativeHits' = hitsFolded + HitSum'
  BY <1>2, <1>3, <1>6
<1> HIDE DEF HitSum, CumulativeHits
<1> QED BY <1>5, <1>6, <1>7

\* remove(e) folds exactly the hits its map slot stops showing.
LEMMA HitsFoldedBy ==
  ASSUME IndInv, IndInv', OneList, NEW e, \E i \in DOMAIN order : order[i] = e,
         RemoveEntry(e), UNCHANGED heap
  PROVE  CumulativeHits' >= CumulativeHits
<1> DEFINE k == MapKey(e)
<1>1. e \in Positions /\ k \in Resident /\ k \in Encodings /\ m[k] = e
  BY ListedResident, EntryTypes
<1>2. m \in [Encodings -> Positions \cup {NoEntry}] /\ m' = [m EXCEPT ![k] = NoEntry]
  BY DEF IndInv, TypeOK, RemoveEntry
<1> HIDE DEF k
<1>3. Resident' = Resident \ {k} /\ \A x \in Resident' : m'[x] = m[x]
  BY <1>1, <1>2 DEF Resident
<1>4. /\ Summable(HitsAt, Resident) /\ HitSum \in Int /\ hitsFolded \in Nat
      /\ HitsAt[k] = heap[e].hits /\ CumulativeHits = hitsFolded + HitSum
  BY <1>1, HitsSummable
<1>5. CumulativeHits' = hitsFolded' + HitSum'
  BY HitsSummableNext
<1>6. \A x \in Resident \ {k} : HitsAt[x] = HitsAt'[x]
  BY <1>3 DEF HitsAt
<1>7. Summable(HitsAt, Resident \ {k})
  BY <1>4, SummableSubset
<1>8. SumFunctionOnSet(HitsAt, Resident \ {k}) = HitSum'
  BY <1>3, <1>6, <1>7, SumSame DEF HitSum
<1>9. HitSum = HitsAt[k] + HitSum'
  BY <1>1, <1>4, <1>8, SumAt DEF HitSum
<1>10. HitSum' \in Int /\ heap[e].hits \in Int
  BY <1>1, <1>7, <1>8, SumInt, EntryTypes
<1>11. hitsFolded' = hitsFolded + heap[e].hits
  BY DEF RemoveEntry
<1> HIDE DEF HitSum, CumulativeHits
<1>12. CumulativeHits' = CumulativeHits /\ CumulativeHits \in Int
  BY <1>4, <1>5, <1>9, <1>10, <1>11
<1> QED BY <1>12

\* A fresh entry brings no hits, and the one it displaced was folded.
LEMMA HitsInserted ==
  ASSUME IndInv, IndInv', EvictionInv, NEW g \in Goroutines, Insert(g)
  PROVE  CumulativeHits' >= CumulativeHits
<1>a. PICK new : new = Len(heap) + 1
  OBVIOUS
<1>b. PICK k : k = Encode[Shape(req[g])]
  OBVIOUS
<1>1. /\ req[g] \in Calls /\ pc[g] = "insert"
      /\ heap' = Append(heap, NewEntry(req[g])) /\ m' = [m EXCEPT ![k] = new]
      /\ hitsFolded' = hitsFolded
  BY <1>a, <1>b DEF Insert, stats, IndInv, TypeOK, Phases, Phase
<1>2. k \in Encodings /\ NewEntry(req[g]) \in Entry /\ m[k] = NoEntry
  BY <1>1, <1>b, CacheAssumption DEF Shape, Shapes, EvictionInv, Ready, NewEntry, Entry
<1>3. /\ heap \in Seq(Entry) /\ Len(heap) \in Nat /\ Positions = 1..Len(heap)
      /\ m \in [Encodings -> Positions \cup {NoEntry}]
  BY LenProperties DEF IndInv, TypeOK, Positions
<1>4. heap'[new] = NewEntry(req[g]) /\ \A x \in Positions : heap'[x] = heap[x]
  BY <1>1, <1>2, <1>3, <1>a, AppendProperties, LenProperties DEF Positions
<1>5. Resident' = Resident \cup {k} /\ k \notin Resident
  BY <1>1, <1>2, <1>3, <1>a DEF Resident, NoEntry
<1>6. m'[k] = new /\ \A x \in Resident : m'[x] = m[x] /\ m[x] \in Positions
  BY <1>1, <1>2, <1>3, <1>5, EntryTypes
<1>7. /\ Summable(HitsAt, Resident) /\ HitSum \in Int /\ hitsFolded \in Nat
      /\ \A x \in Resident : HitsAt[x] = heap[m[x]].hits
      /\ CumulativeHits = hitsFolded + HitSum
  BY HitsSummable
<1>8. /\ Summable(HitsAt', Resident') /\ CumulativeHits' = hitsFolded' + HitSum'
      /\ \A x \in Resident' : HitsAt'[x] = heap'[m'[x]].hits
  BY HitsSummableNext
<1>9. HitsAt'[k] = 0
  BY <1>4, <1>5, <1>6, <1>8 DEF NewEntry
<1>10. \A x \in Resident : HitsAt[x] = HitsAt'[x]
  BY <1>4, <1>5, <1>6, <1>7, <1>8
<1>11. HitSum' = HitsAt'[k] + SumFunctionOnSet(HitsAt', Resident)
  <2>1. Resident' \ {k} = Resident /\ k \in Resident'
    BY <1>5
  <2> QED BY <1>8, <2>1, SumAt DEF HitSum
<1>12. SumFunctionOnSet(HitsAt', Resident) = HitSum
  BY <1>7, <1>10, SumSame DEF HitSum
<1> HIDE DEF HitSum, CumulativeHits
<1>13. CumulativeHits' = CumulativeHits /\ CumulativeHits \in Int
  BY <1>1, <1>7, <1>8, <1>9, <1>11, <1>12
<1> QED BY <1>13

\* Dropping the entry of a colliding key folds its hits.
LEMMA HitsDropped ==
  ASSUME IndInv, IndInv', EvictionInv, NEW c \in Calls, DropColliding(c), UNCHANGED heap
  PROVE  CumulativeHits' >= CumulativeHits
<1> DEFINE k == Encode[Shape(c)]
<1>1. k \in Encodings
  BY CacheAssumption DEF Shape, Shapes
<1>2. CASE m[k] = NoEntry
  <2>1. UNCHANGED <<m, hitsFolded>>
    BY <1>2 DEF DropColliding
  <2> QED BY <2>1, HitsKept, EntryTypes
<1>3. CASE m[k] # NoEntry
  <2>1. RemoveEntry(m[k])
    BY <1>3 DEF DropColliding
  <2>2. \E i \in DOMAIN order : order[i] = m[k]
    BY <1>1, <1>3, ListedResident DEF Resident, EvictionInv
  <2> QED BY <2>1, <2>2, HitsFoldedBy DEF EvictionInv
<1> QED BY <1>2, <1>3

\* The cumulative hits Stats reports never decrease, in any step of any
\* goroutine: an insert shows none, a removal folds what it hides, and a count
\* that lands on an evicted entry is lost to both (remove(), Stats()).
THEOREM HitsAccumulate == Spec => HitsNeverDecrease
<1> DEFINE Grows == CumulativeHits' >= CumulativeHits
<1>1. IndInv /\ IndInv' /\ EvictionInv /\ [Next]_vars => [Grows]_vars
  <2> SUFFICES ASSUME IndInv, IndInv', EvictionInv, Next PROVE Grows
    OBVIOUS
  <2>0. \A e \in Positions : heap[e].hits >= heap[e].hits
    BY EntryTypes
  <2>1. ASSUME UNCHANGED <<heap, m, hitsFolded>> PROVE Grows
    BY <2>0, <2>1, HitsKept
  <2>2. ASSUME NEW g \in Goroutines,
               \/ \E c \in Calls : Call(g, c)
               \/ DeferredHit(g) \/ Raced(g) \/ Observe(g) \/ ReadStats(g)
               \/ Refuse(g) \/ ComposeFails(g) \/ EvictOne(g) \/ Inserted(g) \/ MaxBytesSet(g)
               \/ \E n \in ByteBounds : SetMaxBytes(g, n)
               \/ \E on \in BOOLEAN : SetObserver(g, on)
               \/ Stats(g)
        PROVE  Grows
    <3>1. UNCHANGED <<heap, m, hitsFolded>>
      BY <2>2 DEF Call, DeferredHit, Raced, Observe, ReadStats, Refuse, ComposeFails, EvictOne,
         Inserted, MaxBytesSet, SetMaxBytes, SetObserver, Stats, entries, stats
    <3> HIDE DEF Grows
    <3> QED BY <2>1, <3>1
  <2>3. ASSUME NEW g \in Goroutines, Touch(g) \/ CountHit(g) PROVE Grows
    <3>1. ent[g] \in Positions /\ UNCHANGED <<m, hitsFolded>>
      BY <2>3 DEF Touch, CountHit, stats, IndInv, TypeOK, Phases, Phase
    <3>2. \/ heap' = heap \/ heap' = [heap EXCEPT ![ent[g]].ref = TRUE]
          \/ heap' = [heap EXCEPT ![ent[g]].hits = @ + 1]
      BY <2>3 DEF Touch, CountHit
    <3>3. \A e \in Positions : heap'[e].hits >= heap[e].hits
      BY <3>1, <3>2, TouchKeeps
    <3> QED BY <3>1, <3>3, HitsKept
  <2>4. ASSUME NEW g \in Goroutines, SecondChance(g) PROVE Grows
    <3>1. pc[g] = "sweep" /\ UNCHANGED <<m, hitsFolded>>
          /\ heap' = [heap EXCEPT ![Last(order)].ref = FALSE]
      BY <2>4 DEF SecondChance, stats
    <3>2. \A e \in Positions : heap'[e].hits >= heap[e].hits
      BY <3>1, HandListed, TouchKeeps
    <3> QED BY <3>1, <3>2, HitsKept
  <2>5. ASSUME NEW g \in Goroutines, FirstMiss(g) \/ Relock(g) PROVE Grows
    <3>1. req[g] \in Calls /\ DropColliding(req[g]) /\ UNCHANGED heap
      BY <2>5 DEF FirstMiss, Relock, IndInv, TypeOK, Phases, Phase
    <3> QED BY <3>1, HitsDropped
  <2>6. ASSUME NEW g \in Goroutines, Evict(g) PROVE Grows
    <3>1. pc[g] = "sweep" /\ RemoveEntry(Last(order)) /\ UNCHANGED heap /\ OneList
      BY <2>6 DEF Evict, EvictionInv
    <3> QED BY <3>1, HandListed, HitsFoldedBy
  <2>7. ASSUME NEW g \in Goroutines, Insert(g) PROVE Grows
    BY <2>7, HitsInserted
  <2> HIDE DEF Grows
  <2> QED BY <2>2, <2>3, <2>4, <2>5, <2>6, <2>7 DEF Next, Acquire, Proceed
<1> QED BY <1>1, Invariance, EvictionInvariance, PTL DEF Spec, HitsNeverDecrease
=============================================================================
