-------------------------- MODULE MCComposedCache --------------------------
(* Instances of ComposedCache for TLC. *)
EXTENDS ComposedCache

CONSTANTS q1, q2, k1, k2, k3

S(q, k) == [src |-> q, key |-> k]
C(q, k) == [src |-> q, key |-> k, ok |-> TRUE]
Bad(q, k) == [src |-> q, key |-> k, ok |-> FALSE]

\* One query whose shapes have a map key each.
DistinctEncode == [s \in Shapes |-> s]
TwoShapes == {C(q1, k1), C(q1, k2)}
ThreeShapes == TwoShapes \cup {C(q1, k3)}

\* Two queries; within a query the keys k1 and k2 share a map key.  Composing
\* (q1, k2) fails, and (q2, k1) is also called with a tree of the wrong arity.
CollidingEncode == [s \in Shapes |-> s.src]
CollidingCalls == {C(q1, k1), C(q1, k2), C(q2, k1), C(q2, k2), Bad(q2, k1)}
RefusedShapes == {S(q1, k2)}

UnitBytes == [s \in Shapes |-> 1]
\* k1 is small, the other shapes are large.
MixedBytes == [s \in Shapes |-> IF s.key = k1 THEN 1 ELSE 2]

GoroutineSymmetry == Permutations(Goroutines)
=============================================================================
