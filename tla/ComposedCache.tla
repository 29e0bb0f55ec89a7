--------------------------- MODULE ComposedCache ---------------------------
(***************************************************************************)
(* The composed-SQL cache of the runtime (runtime/runtime.go, type         *)
(* ComposedCache, and the observation API of runtime/observe.go).          *)
(*                                                                         *)
(* Goroutines call entry(): a hit in the published snapshot takes no lock, *)
(* everything else goes through the mutex.  Entries live in a heap and are *)
(* named by their position in it, so an evicted entry that a stale         *)
(* snapshot or a caller still points to keeps existing, as it does under   *)
(* Go's garbage collector.  A critical section is one step, except for the *)
(* CLOCK sweep of evictOne, which races the lock-free touches.             *)
(***************************************************************************)
EXTENDS Integers, Sequences, FiniteSets, SequencesExt

CONSTANTS
  Goroutines,   \* callers of the cache
  Srcs,         \* (placeholder style, query name) pairs
  Keys,         \* shape keys, as values: keysEqual is equality
  Encodings,    \* map keys, the strings entry() builds
  Encode,       \* Encode[[src, key]]: the map key of a (src, key)
  Calls,        \* records [src, key, ok]; ok = FALSE is a tree validate refuses
  TooLong,      \* the shapes whose composition fails (@in over MaxInArity)
  Cap,          \* NewComposedCache's capacity
  Bytes,        \* Bytes[[src, key]]: entryBytes of the composed entry
  InitMaxBytes, \* defaultCacheMaxBytes
  ByteBounds,   \* the values SetMaxBytes is called with; 0 disables the bound
  MaxWork       \* bound on compositions plus counted hits

Shapes == [src : Srcs, key : Keys]
Shape(c) == [src |-> c.src, key |-> c.key]

(***************************************************************************)
(* The map key is "style|query|" followed by the key's encoding, so for    *)
(* one shape key it determines the style and query.  That two shape keys   *)
(* never share an encoding is NOT assumed: entry() does not trust it.      *)
(***************************************************************************)
ASSUME CacheAssumption ==
  /\ Cap \in Nat \ {0}
  /\ Encode \in [Shapes -> Encodings]
  /\ \A s, t \in Shapes : Encode[s] = Encode[t] /\ s.key = t.key => s = t
  /\ Calls \subseteq [src : Srcs, key : Keys, ok : BOOLEAN]
  /\ Bytes \in [Shapes -> Nat]
  /\ InitMaxBytes \in Nat /\ ByteBounds \subseteq Nat
  /\ MaxWork \in Nat

NoEntry == 0      \* no entry under this map key; heap positions start at 1
NoCall  == [src |-> "none", key |-> "none", ok |-> FALSE]
NoReply == [kind |-> "none"]
Refused == [kind |-> "error"]
Statement(s) == [kind |-> "sql", shape |-> s]
CONSTANT NoOne    \* no goroutine holds the mutex
ASSUME NoOneAssumption == NoOne \notin Goroutines

ASSUME NoCallAssumption == NoCall \notin Calls

VARIABLES
  \* the cache
  heap,           \* every cacheEntry ever made: [src, key, ref, hits]
  fast,           \* the published snapshot: map key -> heap position
  mu,             \* the goroutine holding the mutex, or NoOne
  m,              \* the entry map: map key -> heap position
  order,          \* recency list, front = most recent
  sinceSnap,      \* inserts since the last publish
  evictedSince,   \* did an entry leave m since the last publish
  hitFlushCredit, \* may the next deferred hit publish at once
  pendingHits,    \* deferred hits since the last publish
  maxBytes, totalBytes,
  obs, track,     \* is an observer installed; are hits counted
  misses, evictions, hitsFolded,
  \* the goroutines
  pc,             \* where each one is in entry() or an administrative call
  req,            \* the call it is serving, NoCall outside entry()
  ent,            \* its local variable e: a heap position, or NoEntry
  reply,          \* what its last call returned
  sweep           \* the loop counter i of evictOne, used by mu's holder

entries  == <<heap, fast, m, order>>
snapInfo == <<sinceSnap, evictedSince, hitFlushCredit, pendingHits>>
bytes    == <<maxBytes, totalBytes>>
obsInfo  == <<obs, track>>
stats    == <<misses, evictions, hitsFolded>>
local    == <<pc, req, ent, reply, sweep>>
vars == <<entries, mu, snapInfo, bytes, obsInfo, stats, local>>
-----------------------------------------------------------------------------
ShapeOf(e) == [src |-> heap[e].src, key |-> heap[e].key]
MapKey(e)  == Encode[ShapeOf(e)]
Resident   == {k \in Encodings : m[k] # NoEntry}
Locked     == mu # NoOne

\* container/list: remove an element wherever it is, or move it to the front.
PositionOf(s, e) == CHOOSE i \in DOMAIN s : s[i] = e
Removed(s, e)     == RemoveAt(s, PositionOf(s, e))
MovedToFront(s, e) == <<e>> \o Removed(s, e)

Goto(g, label) == pc' = [pc EXCEPT ![g] = label]

\* entry() returns e, or an error, to its caller.
Return(g, r) ==
  /\ Goto(g, "idle")
  /\ req' = [req EXCEPT ![g] = NoCall]
  /\ ent' = [ent EXCEPT ![g] = NoEntry]
  /\ reply' = [reply EXCEPT ![g] = r]

\* newCacheEntry: no hit yet, no second chance.
NewEntry(c) == [src |-> c.src, key |-> c.key, ref |-> FALSE, hits |-> 0]

RemoveEntry_NoFold(e) ==
  /\ order' = Removed(order, e)
  /\ m' = [m EXCEPT ![MapKey(e)] = NoEntry]
  /\ totalBytes' = totalBytes - Bytes[ShapeOf(e)]
  /\ evictedSince' = TRUE
  /\ UNCHANGED hitsFolded

RemoveEntry_Unfold(e) ==
  /\ order' = Removed(order, e)
  /\ m' = [m EXCEPT ![MapKey(e)] = NoEntry]
  /\ hitsFolded' = hitsFolded - heap[e].hits
  /\ totalBytes' = totalBytes - Bytes[ShapeOf(e)]
  /\ evictedSince' = TRUE

RemoveEntry_KeepBytes(e) ==
  /\ order' = Removed(order, e)
  /\ m' = [m EXCEPT ![MapKey(e)] = NoEntry]
  /\ hitsFolded' = hitsFolded + heap[e].hits
  /\ evictedSince' = TRUE
  /\ UNCHANGED totalBytes

\* remove(e): out of the map and the list, its hits folded, bytes released.
RemoveEntry(e) ==
  /\ order' = Removed(order, e)
  /\ m' = [m EXCEPT ![MapKey(e)] = NoEntry]
  /\ hitsFolded' = hitsFolded + heap[e].hits
  /\ totalBytes' = totalBytes - Bytes[ShapeOf(e)]
  /\ evictedSince' = TRUE

\* publishNow(): copy the map into the snapshot and re-arm the window.
PublishNow(credit) ==
  /\ fast' = m
  /\ sinceSnap' = 0
  /\ evictedSince' = FALSE
  /\ pendingHits' = 0
  /\ hitFlushCredit' = credit

Publish_AlwaysAmortized ==
  IF sinceSnap + 1 < Cap
    THEN /\ sinceSnap' = sinceSnap + 1
         /\ UNCHANGED <<fast, evictedSince, pendingHits, hitFlushCredit>>
    ELSE PublishNow(TRUE)

\* publish(): amortized while the shape set does not fit the capacity.
Publish ==
  IF evictedSince /\ sinceSnap + 1 < Cap
    THEN /\ sinceSnap' = sinceSnap + 1
         /\ UNCHANGED <<fast, evictedSince, pendingHits, hitFlushCredit>>
    ELSE PublishNow(TRUE)

\* A deferred hit publishes on credit, or when it is the Cap-th one.
FlushDue == hitFlushCredit \/ pendingHits + 1 >= Cap

\* The loop conditions of entry() and SetMaxBytes.
OverBytes == /\ maxBytes > 0
             /\ totalBytes > maxBytes
             /\ Cardinality(Resident) > 1
OverCap   == Cardinality(Resident) > Cap
OverBound(g) == OverBytes \/ (req[g] # NoCall /\ OverCap)
-----------------------------------------------------------------------------
Init ==
  /\ heap = <<>>
  /\ fast = [k \in Encodings |-> NoEntry]
  /\ m = [k \in Encodings |-> NoEntry]
  /\ order = <<>>
  /\ mu = NoOne
  /\ sinceSnap = 0 /\ evictedSince = FALSE
  /\ hitFlushCredit = FALSE /\ pendingHits = 0
  /\ maxBytes = InitMaxBytes /\ totalBytes = 0
  /\ obs = FALSE /\ track = FALSE
  /\ misses = 0 /\ evictions = 0 /\ hitsFolded = 0
  /\ pc = [g \in Goroutines |-> "idle"]
  /\ req = [g \in Goroutines |-> NoCall]
  /\ ent = [g \in Goroutines |-> NoEntry]
  /\ reply = [g \in Goroutines |-> NoReply]
  /\ sweep = 0

\* The model stops making calls that grow its counters at MaxWork; calls the
\* snapshot serves uncounted never stop.
CountedHits == SumFunction([e \in DOMAIN heap |-> heap[e].hits])
InFlight == Cardinality({g \in Goroutines : req[g] # NoCall})
WithinBound(c, e) ==
  \/ misses + CountedHits + InFlight < MaxWork
  \/ ~c.ok
  \/ e # NoEntry /\ ~track

FastHit_TrustEncoding(c) == fast[Encode[Shape(c)]]

\* The snapshot lookup: an entry is served only when the full key matches.
FastHit(c) ==
  LET e == fast[Encode[Shape(c)]]
  IN IF e # NoEntry /\ heap[e].key = c.key THEN e ELSE NoEntry

\* The same lookup in the map, under the mutex.
Found_TrustEncoding(c) == m[Encode[Shape(c)]]
Found(c) ==
  LET e == m[Encode[Shape(c)]]
  IN IF e # NoEntry /\ heap[e].key = c.key THEN e ELSE NoEntry

\* Under the mutex and not found: an entry that shares the map key is dropped.
DropColliding(c) ==
  LET e == m[Encode[Shape(c)]]
  IN IF e = NoEntry
       THEN UNCHANGED <<order, m, hitsFolded, totalBytes, evictedSince>>
       ELSE RemoveEntry(e)

\* Arity and caps of a tree are checked before any lookup can serve it.
Valid(c) == c.ok

\* entry() up to and including its lock-free lookup: the tree is validated,
\* the map key built, the snapshot loaded.
Call(g, c) ==
  /\ pc[g] = "idle"
  /\ WithinBound(c, FastHit(c))
  /\ req' = [req EXCEPT ![g] = c]
  /\ reply' = [reply EXCEPT ![g] = NoReply]
  /\ \/ ~Valid(c) /\ Goto(g, "refuse") /\ UNCHANGED ent
     \/ /\ Valid(c) /\ FastHit(c) # NoEntry
        /\ Goto(g, "touch")
        /\ ent' = [ent EXCEPT ![g] = FastHit(c)]
     \/ Valid(c) /\ FastHit(c) = NoEntry /\ Goto(g, "lock") /\ UNCHANGED ent
  /\ UNCHANGED <<entries, mu, snapInfo, bytes, obsInfo, stats, sweep>>

\* validate's error goes back before any shared state is touched.
Refuse(g) ==
  /\ pc[g] = "refuse"
  /\ Return(g, Refused)
  /\ UNCHANGED <<entries, mu, snapInfo, bytes, obsInfo, stats, sweep>>

\* First critical section, the entry is in m but was not in the snapshot:
\* a deferred hit, which publishes on credit or after Cap of them.
DeferredHit(g) ==
  LET e == Found(req[g])
  IN /\ pc[g] = "lock" /\ ~Locked
     /\ e # NoEntry
     /\ order' = MovedToFront(order, e)
     /\ IF FlushDue
          THEN PublishNow(FALSE)
          ELSE /\ pendingHits' = pendingHits + 1
               /\ UNCHANGED <<fast, sinceSnap, evictedSince, hitFlushCredit>>
     /\ ent' = [ent EXCEPT ![g] = e]
     /\ Goto(g, "touch")
     /\ UNCHANGED <<heap, m, mu, bytes, obsInfo, stats, req, reply, sweep>>

\* First critical section, a miss: an entry whose full key differs is dropped.
FirstMiss(g) ==
  /\ pc[g] = "lock" /\ ~Locked
  /\ Found(req[g]) = NoEntry
  /\ DropColliding(req[g])
  /\ Goto(g, "compose")
  /\ UNCHANGED <<heap, fast, mu, sinceSnap, hitFlushCredit, pendingHits, maxBytes,
                 obsInfo, misses, evictions, req, ent, reply, sweep>>

\* Composition runs outside the lock and may fail; nothing is inserted then.
ComposeFails(g) ==
  /\ pc[g] = "compose" /\ Shape(req[g]) \in TooLong
  /\ Return(g, Refused)
  /\ UNCHANGED <<entries, mu, snapInfo, bytes, obsInfo, stats, sweep>>

\* Second critical section: another goroutine composed the shape meanwhile;
\* its entry is kept and served.
Raced(g) ==
  LET e == Found(req[g])
  IN /\ pc[g] = "compose" /\ Shape(req[g]) \notin TooLong /\ ~Locked
     /\ e # NoEntry
     /\ misses' = misses + 1
     /\ order' = MovedToFront(order, e)
     /\ ent' = [ent EXCEPT ![g] = e]
     /\ Goto(g, "touchTwin")
     /\ UNCHANGED <<heap, fast, m, mu, snapInfo, bytes, obsInfo, evictions, hitsFolded,
                    req, reply, sweep>>

\* Second critical section, not raced: a colliding entry is dropped ...
Relock(g) ==
  /\ pc[g] = "compose" /\ Shape(req[g]) \notin TooLong /\ ~Locked
  /\ Found(req[g]) = NoEntry
  /\ DropColliding(req[g])
  /\ misses' = misses + 1
  /\ mu' = g
  /\ Goto(g, "insert")
  /\ UNCHANGED <<heap, fast, sinceSnap, hitFlushCredit, pendingHits, maxBytes,
                 obsInfo, evictions, req, ent, reply, sweep>>

\* ... and the new entry goes to the front of the list and into the map.
Insert(g) ==
  LET new == Len(heap) + 1
  IN /\ pc[g] = "insert"
     /\ heap' = Append(heap, NewEntry(req[g]))
     /\ order' = <<new>> \o order
     /\ m' = [m EXCEPT ![Encode[Shape(req[g])]] = new]
     /\ totalBytes' = totalBytes + Bytes[Shape(req[g])]
     /\ ent' = [ent EXCEPT ![g] = new]
     /\ Goto(g, "evict")
     /\ UNCHANGED <<fast, mu, snapInfo, maxBytes, obsInfo, stats, req, reply, sweep>>

\* evictOne() starts one sweep of at most len(m) second chances.
EvictOne(g) ==
  /\ pc[g] = "evict" /\ OverBound(g)
  /\ sweep' = Cardinality(Resident)
  /\ Goto(g, "sweep")
  /\ UNCHANGED <<entries, mu, snapInfo, bytes, obsInfo, stats, req, ent, reply>>

SecondChance_Unbounded(g) ==
  LET e == Last(order)
  IN /\ pc[g] = "sweep" /\ heap[e].ref
     /\ heap' = [heap EXCEPT ![e].ref = FALSE]
     /\ order' = MovedToFront(order, e)
     /\ UNCHANGED <<fast, m, mu, snapInfo, bytes, obsInfo, stats, local>>

\* The hand clears the oldest entry's bit and moves it to the front ...
SecondChance(g) ==
  LET e == Last(order)
  IN /\ pc[g] = "sweep" /\ sweep > 0 /\ heap[e].ref
     /\ heap' = [heap EXCEPT ![e].ref = FALSE]
     /\ order' = MovedToFront(order, e)
     /\ sweep' = sweep - 1
     /\ UNCHANGED <<fast, m, mu, snapInfo, bytes, obsInfo, stats, pc, req, ent, reply>>

\* ... or drops it: its bit is clear, or the sweep is over.
Evict(g) ==
  LET e == Last(order)
  IN /\ pc[g] = "sweep" /\ (sweep = 0 \/ ~heap[e].ref)
     /\ RemoveEntry(e)
     /\ evictions' = evictions + 1
     /\ sweep' = 0
     /\ Goto(g, "evict")
     /\ UNCHANGED <<heap, fast, mu, sinceSnap, hitFlushCredit, pendingHits, maxBytes,
                    obsInfo, misses, req, ent, reply>>

Inserted_ObserveLocked(g) ==
  /\ pc[g] = "evict" /\ req[g] # NoCall /\ ~OverBound(g)
  /\ Publish
  /\ mu' = IF obs THEN mu ELSE NoOne
  /\ Goto(g, "observe")
  /\ UNCHANGED <<heap, m, order, bytes, obsInfo, stats, req, ent, reply, sweep>>

\* The insert is within both bounds again: publish and unlock.
Inserted(g) ==
  /\ pc[g] = "evict" /\ req[g] # NoCall /\ ~OverBound(g)
  /\ Publish
  /\ mu' = NoOne
  /\ Goto(g, "observe")
  /\ UNCHANGED <<heap, m, order, bytes, obsInfo, stats, req, ent, reply, sweep>>

\* touch(e), after any unlock: the second-chance bit.
Touch(g) ==
  /\ pc[g] \in {"touch", "touchTwin"}
  /\ heap' = [heap EXCEPT ![ent[g]].ref = TRUE]
  /\ Goto(g, IF pc[g] = "touch" THEN "count" ELSE "observe")
  /\ UNCHANGED <<fast, m, order, mu, snapInfo, bytes, obsInfo, stats, req, ent, reply, sweep>>

\* A hit is counted on its entry, once somebody looks at the counters.
CountHit(g) ==
  /\ pc[g] = "count"
  /\ heap' = IF track THEN [heap EXCEPT ![ent[g]].hits = @ + 1] ELSE heap
  /\ Goto(g, "observe")
  /\ UNCHANGED <<fast, m, order, mu, snapInfo, bytes, obsInfo, stats, req, ent, reply, sweep>>

\* The observer is the application's; the most it may do to the cache is to
\* read its statistics, which takes the mutex and turns hit counting on.
Observe(g) ==
  /\ pc[g] = "observe"
  /\ obs => ~Locked
  /\ track' = (track \/ obs)
  /\ Return(g, Statement(ShapeOf(ent[g])))
  /\ UNCHANGED <<entries, mu, snapInfo, bytes, obs, stats, sweep>>

\* SetMaxBytes(n): the same eviction loop, then an unconditional publish.
SetMaxBytes(g, n) ==
  /\ pc[g] = "idle" /\ ~Locked
  /\ maxBytes' = n
  /\ mu' = g
  /\ Goto(g, "evict")
  /\ UNCHANGED <<entries, snapInfo, totalBytes, obsInfo, stats, req, ent, reply, sweep>>

MaxBytesSet(g) ==
  /\ pc[g] = "evict" /\ req[g] = NoCall /\ ~OverBound(g)
  /\ PublishNow(TRUE)
  /\ mu' = NoOne
  /\ Goto(g, "idle")
  /\ UNCHANGED <<heap, m, order, bytes, obsInfo, stats, req, ent, reply, sweep>>

\* SetObserver(o), o nil or not; counting is sticky.
SetObserver(g, on) ==
  /\ pc[g] = "idle"
  /\ obs' = on /\ track' = TRUE
  /\ UNCHANGED <<entries, mu, snapInfo, bytes, stats, local>>

\* Stats() and TopShapes(n) turn counting on before they take the mutex.
Stats(g) ==
  /\ pc[g] = "idle"
  /\ track' = TRUE
  /\ Goto(g, "scrape")
  /\ UNCHANGED <<entries, mu, snapInfo, bytes, obs, stats, req, ent, reply, sweep>>

ReadStats(g) ==
  /\ pc[g] = "scrape" /\ ~Locked
  /\ Goto(g, "idle")
  /\ UNCHANGED <<entries, mu, snapInfo, bytes, obsInfo, stats, req, ent, reply, sweep>>

\* Steps of a goroutine that needs the mutex, and its other steps.
Acquire(g) == DeferredHit(g) \/ FirstMiss(g) \/ Raced(g) \/ Relock(g)
              \/ Observe(g) \/ ReadStats(g)
Proceed(g) == Refuse(g) \/ ComposeFails(g) \/ Insert(g) \/ EvictOne(g) \/ SecondChance(g)
              \/ Evict(g) \/ Inserted(g) \/ Touch(g) \/ CountHit(g) \/ MaxBytesSet(g)

Next == \E g \in Goroutines :
  \/ \E c \in Calls : Call(g, c)
  \/ Acquire(g)
  \/ Proceed(g)
  \/ \E n \in ByteBounds : SetMaxBytes(g, n)
  \/ \E on \in BOOLEAN : SetObserver(g, on)
  \/ Stats(g)

Spec == Init /\ [][Next]_vars

\* A Go mutex does not starve a waiter, and a runnable goroutine runs.
Fairness == \A g \in Goroutines : WF_vars(Proceed(g)) /\ SF_vars(Acquire(g))
FairSpec == Spec /\ Fairness
-----------------------------------------------------------------------------
(* Properties *)

Labels == {"idle", "refuse", "lock", "compose", "insert", "evict", "sweep",
           "touch", "touchTwin", "count", "observe", "scrape"}
Positions == DOMAIN heap
Entry == [src : Srcs, key : Keys, ref : BOOLEAN, hits : Nat]

\* Type invariant of the cache's fields and of entry()'s local variables.
TypeOK ==
  /\ heap \in Seq(Entry)
  /\ fast \in [Encodings -> Positions \cup {NoEntry}]
  /\ m \in [Encodings -> Positions \cup {NoEntry}]
  /\ order \in Seq(Positions)
  /\ mu \in Goroutines \cup {NoOne}
  /\ sinceSnap \in Nat /\ pendingHits \in Nat
  /\ evictedSince \in BOOLEAN /\ hitFlushCredit \in BOOLEAN
  /\ maxBytes \in Nat /\ totalBytes \in Int
  /\ obs \in BOOLEAN /\ track \in BOOLEAN
  /\ misses \in Nat /\ evictions \in Nat /\ hitsFolded \in Nat
  /\ pc \in [Goroutines -> Labels]
  /\ req \in [Goroutines -> Calls \cup {NoCall}]
  /\ ent \in [Goroutines -> Positions \cup {NoEntry}]
  /\ reply \in [Goroutines -> {NoReply, Refused} \cup {Statement(s) : s \in Shapes}]
  /\ sweep \in Nat

\* An entry a goroutine is about to be served is the one for its own style,
\* query and shape key, whatever was evicted, raced or collided meanwhile
\* (the keysEqual checks on every path of entry()).
ServedMatches ==
  \A g \in Goroutines :
    req[g] # NoCall /\ ent[g] # NoEntry => ShapeOf(ent[g]) = Shape(req[g])

\* A call whose tree fails validation, or whose composition fails, never gets
\* as far as holding an entry (the error returns of entry()).
RefusedNeverServed ==
  \A g \in Goroutines :
    req[g] # NoCall /\ (~req[g].ok \/ Shape(req[g]) \in TooLong) => ent[g] = NoEntry

\* The map, the recency list and the byte ledger of entry(), remove() and
\* evictOne() describe one set of entries, each under its own map key.
OneList == IsInjective(order) /\ ToSet(order) = {m[k] : k \in Resident}
OwnKeys == \A k \in Resident : MapKey(m[k]) = k
Ledger  == totalBytes = SumFunction([k \in Resident |-> Bytes[ShapeOf(m[k])]])
Coherent == OneList /\ OwnKeys /\ Ledger

\* Whenever the mutex is free the cache is within its entry capacity and its
\* byte ceiling, except that one oversized entry may stay (both eviction loops).
Bounded == ~Locked => Cardinality(Resident) <= Cap /\ ~OverBytes

\* A snapshot that lags the map is always known to lag: with the mutex free
\* and no removal recorded since the last publish, every resident entry is
\* served without the lock (publish() and its amortization).
SnapshotFresh == ~Locked /\ ~evictedSince => fast = m

\* No resident entry is stranded off the lock-free path: fewer than Cap
\* deferred hits, and fewer than Cap inserts, separate it from a publish.
NotStranded == pendingHits < Cap /\ sinceSnap < Cap

\* On the insert path with only the count bound, the sweep always meets an
\* untouched entry (the new one at the latest), so a touched entry is never
\* dropped by exhaustion however many lock-free hits race the hand (evictOne).
SweepFindsVictim ==
  \A g \in Goroutines :
    pc[g] = "sweep" /\ req[g] # NoCall /\ maxBytes = 0
      => sweep > 0 \/ ~heap[Last(order)].ref

\* Eviction, in whichever loop and however raced: the ledger stays exact, the
\* bounds hold whenever the mutex is free, and no touched entry is dropped.
EvictionSound == Coherent /\ Bounded /\ SweepFindsVictim

\* The cumulative hit counter Stats reports never decreases: removal folds an
\* entry's hits before it disappears (remove(), Stats()).
CumulativeHits == hitsFolded + SumFunction([k \in Resident |-> heap[m[k]].hits])
HitsNeverDecrease == [][CumulativeHits' >= CumulativeHits]_vars

\* Every call of entry() returns, though hits keep racing the eviction sweep
\* and observers call back into the cache.
CallsReturn == \A g \in Goroutines : req[g] # NoCall ~> req[g] = NoCall

\* The eviction loops end, so the mutex is always released again.
MutexReleased == Locked ~> ~Locked

\* The cache is invisible: callers see the service that composes every call
\* afresh (Get, GetBindsStyle, GetTreeStyle).
Service == INSTANCE ComposeService WITH asked <- req
ServiceSpec == Service!Spec
=============================================================================
