----------------------------- MODULE FilterTree -----------------------------
(***************************************************************************)
(* The boolean trees an application hands to a @filter-tree query          *)
(* (runtime/tree.go).  A leaf names a predicate, counted from 0, and       *)
(* carries its arguments; NoTree is the zero Tree.                         *)
(*                                                                         *)
(* A walk down a tree is a function of the levels it may still descend:    *)
(* what it computes of t with d levels left is walk[d][t].  Every walk     *)
(* but validate's is of a tree no deeper than MaxDepth.                    *)
(***************************************************************************)
EXTENDS Integers, Sequences, SequencesExt, FiniteSetsExt

CONSTANTS
    Trees,               \* the trees an application may build, subtrees included
    MaxNodes, MaxDepth,  \* filter_tree_caps
    MaxIndex             \* the largest int16: MaxInArity and MaxTreeArgs

NoTree == [op |-> "zero"]
Unscoped == [op |-> "true"]
NewLeaf(pred, args) == [op |-> "leaf", pred |-> pred, args |-> args]

\* combine: zero trees drop out, nothing left is TRUE, one is itself.
Combine(op, ts) ==
    LET kids == SelectSeq(ts, LAMBDA t : t # NoTree)
    IN  CASE Len(kids) = 0 -> Unscoped
          [] Len(kids) = 1 -> kids[1]
          [] OTHER -> [op |-> op, kids |-> kids]

And(ts) == Combine("and", ts)
Or(ts) == Combine("or", ts)

Kids(t) == IF t.op \in {"and", "or"} THEN t.kids ELSE <<>>

\* The values a leaf carries, told apart from the fields of a call.
LeafArg == {"leaf"} \X Nat
LeafNode == [op : {"leaf"}, pred : Int, args : Seq(LeafArg)]
InnerNode == [op : {"and", "or"}, kids : Seq(Trees)]

\* Trees are what the constructors build, and the caps are positive
\* (config.go); an int16 holds at least one index.
ASSUME TreeAssumption ==
    /\ Trees \subseteq {NoTree, Unscoped} \cup LeafNode \cup InnerNode
    /\ MaxNodes \in Nat \ {0} /\ MaxDepth \in Nat \ {0} /\ MaxIndex \in Nat

NodeCount[d \in 0..MaxDepth] ==
    IF d = 0 THEN [t \in Trees |-> 1]
    ELSE [t \in Trees |-> 1 + FoldLeft(LAMBDA n, k : n + NodeCount[d - 1][k], 0, Kids(t))]

\* appendArgs: leaf arguments in preorder.
ArgsTo[d \in 0..MaxDepth] ==
    IF d = 0 THEN [t \in Trees |-> <<>>]
    ELSE [t \in Trees |->
             IF t.op = "leaf" THEN t.args
             ELSE FlattenSeq([i \in DOMAIN Kids(t) |-> ArgsTo[d - 1][Kids(t)[i]]])]
TreeArgs(t) == ArgsTo[MaxDepth][t]

\* checkCaps, but for the depth.
CheckCaps(t) == NodeCount[MaxDepth][t] <= MaxNodes /\ Len(TreeArgs(t)) <= MaxIndex

\* leafArity: enough arguments to cover the largest index of the predicate.
LeafArity(pred) ==
    Max({0} \cup {pred[i].idx + 1 : i \in {j \in DOMAIN pred : "idx" \in DOMAIN pred[j]}})

\* A predicate in range, with its number of arguments.
LeafFits(l, preds) ==
    l.pred \in 0..(Len(preds) - 1) /\ Len(l.args) = LeafArity(preds[l.pred + 1])

\* The nodes that checkCaps' depth and validate's walk object to.
Faults(preds, tree) ==
    LET faults[d \in 0..MaxDepth] ==
            IF d = 0 THEN [t \in Trees |-> {t}]
            ELSE [t \in Trees |->
                     IF t.op = "leaf" THEN (IF LeafFits(t, preds) THEN {} ELSE {t})
                     ELSE UNION {faults[d - 1][Kids(t)[i]] : i \in DOMAIN Kids(t)}]
    IN  faults[MaxDepth][tree]

Validate(t, preds) == CheckCaps(t) /\ Faults(preds, t) = {}

EncodeTo_Flat[d \in 0..MaxDepth] ==
    IF d = 0 THEN [t \in Trees |-> <<>>]
    ELSE [t \in Trees |->
             CASE t.op \in {"zero", "true"} -> <<"T">>
               [] t.op = "leaf" -> <<"p", ToString(t.pred)>>
               [] OTHER -> <<IF t.op = "and" THEN "&" ELSE "|">>
                           \o FlattenSeq([i \in DOMAIN t.kids |-> EncodeTo_Flat[d - 1][t.kids[i]]])]
EncodeTree_Flat(tree) == EncodeTo_Flat[MaxDepth][tree]
\* Encode: the structure, without the values.
EncodeTo[d \in 0..MaxDepth] ==
    IF d = 0 THEN [t \in Trees |-> <<>>]
    ELSE [t \in Trees |->
             CASE t.op \in {"zero", "true"} -> <<"T">>
               [] t.op = "leaf" -> <<"p", ToString(t.pred)>>
               [] OTHER -> <<IF t.op = "and" THEN "&" ELSE "|", "(">>
                           \o FlattenSeq([i \in DOMAIN t.kids |->
                                  (IF i > 1 THEN <<",">> ELSE <<>>) \o EncodeTo[d - 1][t.kids[i]]])
                           \o <<")">>]
EncodeTree(tree) == EncodeTo[MaxDepth][tree]
=============================================================================
