------------------------------ MODULE JoinScan ------------------------------
(***************************************************************************)
(* Scoping a relation on the null-extended side of an outer join: the      *)
(* relations the front ends collect from a FROM tree, joinOn's search for  *)
(* the ON clause in the text, and onGates' decision whether a conjunct     *)
(* there removes the relation's own rows (splice.go).                      *)
(*                                                                         *)
(* A FROM tree is a relation, or a join of two trees with an id; "#1" and  *)
(* "#2" stand for the conditions of the joins with those ids.              *)
(***************************************************************************)
EXTENDS ClauseScan, TLC

Leaf(r) == [type |-> "REL", rel |-> r]
Join(type, natural, left, right, paren, id) ==
    [type |-> type, natural |-> natural, left |-> left, right |-> right,
     paren |-> paren, id |-> id]

HasOn(t) == t.type # "REL" /\ t.type # "CROSS" /\ ~t.natural

\* The text of a tree; outer: whether the word OUTER is spelled.
RECURSIVE Text(_, _)
Text(t, outer) ==
    IF t.type = "REL" THEN <<t.rel>>
    ELSE LET words == (IF t.natural THEN <<"NATURAL">> ELSE <<>>)
                      \o (IF t.type = "INNER" THEN <<>> ELSE <<t.type>>)
                      \o (IF outer /\ t.type \in {"LEFT", "RIGHT", "FULL"} THEN <<"OUTER">> ELSE <<>>)
                      \o <<"JOIN">>
             body == Text(t.left, outer) \o words \o Text(t.right, outer)
                     \o (IF HasOn(t) THEN <<"ON", IF t.id = 1 THEN "#1" ELSE "#2">> ELSE <<>>)
         IN  IF t.paren THEN <<"(">> \o body \o <<")">> ELSE body

\* mapJoinType: a NATURAL join is reported as the join it is otherwise.
mapJoinType(t) == t.type

\* collectFromItem: LEFT null-extends its right operand, RIGHT its left, FULL
\* both; a left operand inherits the join of the level above.
RECURSIVE collectFromItem(_, _, _)
collectFromItem(t, join, nullable) ==
    IF t.type = "REL" THEN {[rel |-> t.rel, join |-> join, nullable |-> nullable]}
    ELSE collectFromItem(t.left, join, nullable \/ t.type \in {"RIGHT", "FULL"})
         \cup collectFromItem(t.right, mapJoinType(t), nullable \/ t.type \in {"LEFT", "FULL"})

\* joinKindOf: only the outer keywords are told apart.
joinKindOf(t) == IF t \in {"LEFT", "RIGHT", "FULL"} THEN t ELSE "INNER"

onGates_RightOnly(ownJoin, crossed) ==
    IF crossed # "none" THEN crossed # "FULL" ELSE ownJoin \in {"INNER", "LEFT"}
\* onGates: the left operand of the crossed join, else the right one of its own.
onGates(ownJoin, crossed) ==
    IF crossed # "none" THEN crossed \in {"INNER", "RIGHT"} ELSE ownJoin \in {"INNER", "LEFT"}

\* naturalIntroducesRight: a run of join keywords with NATURAL ends at the reference.
naturalIntroducesRight(toks, at) ==
    \E k \in 1..(at - 1) : toks[k] = "NATURAL" /\ \A j \in k..(at - 1) : toks[j] \in joinKeywords

\* One token of joinOn's search: mode is seek, on or done.
OnClosers == joinKeywords \cup tailKeywords \cup {"WHERE", "SET"}
Seek(st, t, i) ==
    LET top == st.paren = 0 /\ ~st.dot
        deeper == [st EXCEPT !.dot = t = ".",
                             !.paren = CASE t = "(" -> @ + 1 [] t = ")" -> @ - 1 [] OTHER -> @]
        anchor == t = "JOIN"
    IN  CASE st.paren = 0 /\ t \in {")", ",", ";"} \cup Constructs -> [st EXCEPT !.mode = "done"]
          [] top /\ t = "ON" -> [st EXCEPT !.mode = "on", !.at = i]
          [] top /\ t \in {"USING", "NATURAL", "WHERE", "SET"} \cup tailKeywords ->
                 [st EXCEPT !.mode = "done"]
          [] top /\ t \in joinKeywords /\ st.crossed = "none" ->
                 [st EXCEPT !.crossed = joinKindOf(t), !.anchored = anchor]
          [] top /\ t \in joinKeywords /\ st.crossed # "none" ->
                 IF st.anchored THEN [st EXCEPT !.second = TRUE] ELSE [st EXCEPT !.anchored = anchor]
          [] OTHER -> deeper

InOn(st, t, i, pipesOr) ==
    IF st.scan.paren = 0 /\ t \in {")", ",", ";"} \cup Constructs THEN [st EXCEPT !.mode = "done"]
    ELSE LET scan == Step(st.scan, t, i, OnClosers, pipesOr)
         IN  [st EXCEPT !.scan = scan, !.mode = IF scan.over THEN "done" ELSE "on"]

\* joinOn: the ON clause found from the reference at token `at`, and whether it
\* belongs to a join that cannot gate the reference's rows.
joinOn(toks, at, ownJoin, pipesOr) ==
    LET start == [mode |-> "seek", paren |-> 0, dot |-> FALSE, crossed |-> "none",
                  anchored |-> FALSE, second |-> FALSE, at |-> 0, scan |-> NewScan]
        search[i \in at..Len(toks)] ==
            IF i = at THEN start
            ELSE LET st == search[i - 1]
                 IN  CASE st.mode = "seek" -> Seek(st, toks[i], i)
                       [] st.mode = "on" -> InOn(st, toks[i], i, pipesOr)
                       [] OTHER -> st
        end == search[Len(toks)]
    IN  [found |-> end.at # 0, at |-> end.at, scan |-> Result(end.scan),
         wrongJoin |-> end.at # 0 /\ (\/ end.second
                                      \/ ~onGates(ownJoin, end.crossed)
                                      \/ end.crossed = "none" /\ naturalIntroducesRight(toks, at))]

-----------------------------------------------------------------------------
(* What a FROM tree returns: the designated relation "r" has a row of the  *)
(* caller's and a foreign one, every other relation one row.               *)

RECURSIVE Rels(_)
Rels(t) == IF t.type = "REL" THEN {t.rel} ELSE Rels(t.left) \cup Rels(t.right)
Nulls(t) == [r \in Rels(t) |-> "null"]

\* A condition is true, false, or true of one row of r; extra, the id of the
\* join whose condition also holds the scoping conjunct, or 0.
Conditions == {{"own", "foreign", "null"}, {}, {"own"}, {"foreign"}}
RowOf(row) == IF "r" \in DOMAIN row THEN row["r"] ELSE "null"

RECURSIVE Rows(_, _, _, _)
Rows(t, rows, cond, extra) ==
    IF t.type = "REL" THEN {[r \in {t.rel} |-> x] : x \in IF t.rel = "r" THEN rows ELSE {"row"}}
    ELSE LET L == Rows(t.left, rows, cond, extra)
             R == Rows(t.right, rows, cond, extra)
             Match(x, y) == LET v == RowOf(x @@ y)
                            IN  /\ t.type = "CROSS" \/ v \in cond[t.id]
                                /\ extra = t.id => v = "own"
         IN  {z[1] @@ z[2] : z \in {z \in L \X R : Match(z[1], z[2])}}
             \cup (IF t.type \notin {"LEFT", "FULL"} THEN {}
                   ELSE {x @@ Nulls(t.right) : x \in {x \in L : ~\E y \in R : Match(x, y)}})
             \cup (IF t.type \notin {"RIGHT", "FULL"} THEN {}
                   ELSE {Nulls(t.left) @@ y : y \in {y \in R : ~\E x \in L : Match(x, y)}})
Both == {"own", "foreign"}

\* The joins of at most three relations: bare right operands need an ON to
\* close them.
Types == {<<"INNER", FALSE>>, <<"LEFT", FALSE>>, <<"RIGHT", FALSE>>, <<"FULL", FALSE>>,
          <<"CROSS", FALSE>>, <<"INNER", TRUE>>, <<"LEFT", TRUE>>, <<"RIGHT", TRUE>>, <<"FULL", TRUE>>}
Trees ==
    LET Two(x, y, id, paren) == {Join(k[1], k[2], Leaf(x), Leaf(y), paren, id) : k \in Types}
        orders == {<<"r", "s", "u">>, <<"s", "r", "u">>, <<"s", "u", "r">>}
        Inner(x, y) == Two(x, y, 1, FALSE) \cup Two(x, y, 1, TRUE)
    IN  Two("r", "s", 1, FALSE) \cup Two("s", "r", 1, FALSE)
        \cup UNION {{Join(k[1], k[2], l, Leaf(o[3]), FALSE, 2) :
                        k \in Types, l \in Inner(o[1], o[2])} : o \in orders}
        \cup {t \in UNION {{Join(k[1], k[2], Leaf(o[1]), l, FALSE, 2) :
                        k \in Types, l \in Inner(o[2], o[3])} : o \in orders} :
                  t.right.paren \/ HasOn(t)}
=============================================================================
