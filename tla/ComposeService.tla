--------------------------- MODULE ComposeService ---------------------------
(***************************************************************************)
(* What the composed-SQL cache promises its callers, with no cache in it:  *)
(* a call is either refused, or answered with the statement that belongs   *)
(* to exactly the (style and query, shape key) it asked for.  Memoization, *)
(* eviction, snapshots and races must all be invisible behind it.          *)
(***************************************************************************)
CONSTANTS
  Goroutines,   \* the callers
  Calls,        \* the calls they make: records with fields src, key, ok
  TooLong       \* the [src, key] pairs whose composition exceeds MaxInArity

VARIABLES
  asked,        \* asked[g]: the call g is waiting on, or NoCall
  reply         \* reply[g]: what g's last call returned

NoCall  == [src |-> "none", key |-> "none", ok |-> FALSE]
NoReply == [kind |-> "none"]
Refused == [kind |-> "error"]
Shape(c)    == [src |-> c.src, key |-> c.key]
Statement(c) == [kind |-> "sql", shape |-> Shape(c)]

svars == <<asked, reply>>

Init ==
  /\ asked = [g \in Goroutines |-> NoCall]
  /\ reply = [g \in Goroutines |-> NoReply]

Ask(g, c) ==
  /\ asked[g] = NoCall
  /\ asked' = [asked EXCEPT ![g] = c]
  /\ reply' = [reply EXCEPT ![g] = NoReply]

\* A wrong-arity tree and an over-long @in list are refused; every other
\* call is answered with its own statement.
Answer(g) ==
  /\ asked[g] # NoCall
  /\ asked' = [asked EXCEPT ![g] = NoCall]
  /\ reply' = [reply EXCEPT ![g] =
                 IF asked[g].ok /\ Shape(asked[g]) \notin TooLong
                   THEN Statement(asked[g]) ELSE Refused]

Next == \E g \in Goroutines : (\E c \in Calls : Ask(g, c)) \/ Answer(g)

Spec == Init /\ [][Next]_svars
=============================================================================
