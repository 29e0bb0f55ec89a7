------------------------------ MODULE SetOpScan ------------------------------
(***************************************************************************)
(* The weaver's own split of a set operation into its branches             *)
(* (internal/policy/setop.go): a recursive descent over the tokens,        *)
(* independent of the dialect's parser, that finds for every leaf SELECT   *)
(* where its WHERE clause is or would go.                                  *)
(***************************************************************************)
EXTENDS ClauseScan

setOpKeywords == {"UNION", "INTERSECT", "EXCEPT"}
coreTailKeywords == {"GROUP", "HAVING", "ORDER", "LIMIT", "OFFSET"}

\* setOpElems: the tokens with the paren depth outside each of them.
setOpElems(toks) ==
    LET after[i \in 0..Len(toks)] ==
            IF i = 0 THEN 0
            ELSE after[i - 1] + (CASE toks[i] = "(" -> 1 [] toks[i] = ")" -> -1 [] OTHER -> 0)
    IN  [toks |-> toks, ok |-> after[Len(toks)] = 0 /\ \A i \in DOMAIN toks : after[i] >= 0,
         depth |-> [i \in DOMAIN toks |-> IF toks[i] = "(" THEN after[i] - 1 ELSE after[i]]]

\* The parser's state: the next token, the branches so far.
Peek(E, st) == IF st.i > Len(E.toks) THEN "end" ELSE E.toks[st.i]
AtDepth(E, st, d) == st.i <= Len(E.toks) /\ E.depth[st.i] = d
Skip(st, n) == [st EXCEPT !.i = @ + n]
Fail(st) == [st EXCEPT !.failed = TRUE]
First(S, none) == IF S = {} THEN none ELSE CHOOSE i \in S : \A j \in S : i <= j
Undotted(E, i) == i = 1 \/ E.toks[i - 1] # "."

skipParen(E, st, d) ==
    LET close == First({j \in st.i + 1..Len(E.toks) : E.depth[j] = d /\ E.toks[j] = ")"}, 0)
    IN  IF close = 0 \/ Peek(E, st) # "(" THEN Fail(st) ELSE [st EXCEPT !.i = close + 1]

\* skipWith: name [(cols)] AS [NOT] [MATERIALIZED] (body), and more after a comma.
Name(E, st) == IF IsIdent(Peek(E, st)) THEN Skip(st, 1) ELSE Fail(st)
Word(E, st, w) == IF Peek(E, st) = w THEN Skip(st, 1) ELSE Fail(st)
Optional(E, st, w) == IF Peek(E, st) = w THEN Skip(st, 1) ELSE st
ColumnList(E, st, d) == IF Peek(E, st) = "(" THEN skipParen(E, st, d) ELSE st
Cte(E, st, d) ==
    skipParen(E, Optional(E, Optional(E, Word(E, ColumnList(E, Name(E, st), d), "AS"), "NOT"), "MATERIALIZED"), d)
RECURSIVE Ctes(_, _, _)
Ctes(E, st, d) ==
    IF st.failed \/ ~AtDepth(E, st, d) \/ Peek(E, st) # "," THEN st
    ELSE Ctes(E, Cte(E, Skip(st, 1), d), d)
skipWith(E, st, d) == Ctes(E, Cte(E, Optional(E, Skip(st, 1), "RECURSIVE"), d), d)

\* core: one leaf, from its first token to the next set operator at its depth,
\* the parenthesis around it, or the end of the statement.
core(E, st, d, pipesOr) ==
    LET own(j) == E.depth[j] = d /\ Undotted(E, j)
        stop == First({j \in st.i..Len(E.toks) :
                          \/ E.depth[j] < d
                          \/ own(j) /\ E.toks[j] \in setOpKeywords \cup {";"}}, Len(E.toks) + 1)
        here == st.i..stop - 1
        from == First({j \in here : own(j) /\ E.toks[j] = "FROM"}, stop)
        kw == First({j \in here : own(j) /\ E.toks[j] = "WHERE"}, 0)
        tail == First({j \in from..stop - 1 :
                          own(j) /\ E.toks[j] \in coreTailKeywords \cup {"@order-by"}}, stop)
        scan[j \in kw..stop] ==
            IF j = kw THEN NewScan
            ELSE LET prev == scan[j - 1] IN Step(prev, E.toks[j], j, tailKeywords, pipesOr)
    IN  [st EXCEPT !.i = stop,
                   !.branches = Append(@, [lead |-> E.toks[st.i], first |-> st.i, end |-> stop - 1,
                                           kw |-> kw, tail |-> tail - 1,
                                           scan |-> Result(IF kw = 0 THEN NewScan ELSE scan[stop - 1])])]

\* query: operands between set operators, then what belongs to no core.
RECURSIVE query(_, _, _, _)
RECURSIVE Operands(_, _, _, _)
Closed(E, st, d) == IF st.failed \/ ~AtDepth(E, st, d) THEN Fail(st) ELSE Word(E, st, ")")
operand(E, st, d, pipesOr) ==
    IF ~AtDepth(E, st, d) \/ Peek(E, st) \in Constructs THEN Fail(st)
    ELSE IF Peek(E, st) # "(" THEN core(E, st, d, pipesOr)
    ELSE Closed(E, query(E, Skip(st, 1), d + 1, pipesOr), d)
Operator(E, st) == Skip(st, IF Peek(E, Skip(st, 1)) \in {"ALL", "DISTINCT"} THEN 2 ELSE 1)
Operands(E, st, d, pipesOr) ==
    IF st.failed \/ ~AtDepth(E, st, d) \/ Peek(E, st) \notin setOpKeywords THEN st
    ELSE Operands(E, operand(E, Operator(E, st), d, pipesOr), d, pipesOr)
Rest(E, st, d) ==
    IF st.failed THEN st
    ELSE [st EXCEPT !.i = First({j \in st.i..Len(E.toks) :
             E.depth[j] < d \/ (E.depth[j] = d /\ E.toks[j] = ";")}, Len(E.toks) + 1)]
Withs(E, st, d) == IF Peek(E, st) = "WITH" THEN skipWith(E, st, d) ELSE st
query(E, st, d, pipesOr) ==
    LET with == Withs(E, st, d)
    IN  IF with.failed THEN with
        ELSE Rest(E, Operands(E, operand(E, with, d, pipesOr), d, pipesOr), d)

scanSetOp(toks, pipesOr) ==
    LET E == setOpElems(toks)
        end == query(E, [i |-> 1, branches |-> <<>>, failed |-> FALSE], 0, pipesOr)
    IN  IF E.ok /\ ~end.failed /\ \A j \in end.i..Len(toks) : toks[j] = ";"
        THEN [ok |-> TRUE, branches |-> end.branches]
        ELSE [ok |-> FALSE, branches |-> <<>>]

\* branchOf: the branch a token of the statement lies in, or 0.
branchOf(so, at) ==
    First({k \in DOMAIN so.branches : at \in so.branches[k].first..so.branches[k].end}, 0)

WeaveBranch_AtEnd(toks, b, conjunct) == WeaveWhere(toks, b.kw, b.scan, b.end, conjunct)
\* The WHERE slot of one branch.
WeaveBranch(toks, b, conjunct) ==
    WeaveWhere(toks, b.kw, b.scan, IF b.tail < b.end THEN b.tail ELSE b.end, conjunct)

\* The branches that need the conjunct get it, last first so that earlier
\* offsets stay what they were.
RECURSIVE WeaveBranches(_, _, _, _)
WeaveBranches(toks, so, k, need) ==
    IF k = 0 THEN toks
    ELSE WeaveBranches(IF k \in need THEN WeaveBranch(toks, so.branches[k], PolicyConjunct) ELSE toks,
                       so, k - 1, need)

-----------------------------------------------------------------------------
(* Set operations as the grammar writes them: a core, a parenthesized      *)
(* query, or the operation of a query and an operand.                      *)

Core(lead, rel, where, tail) ==
    [type |-> "core", lead |-> lead, rel |-> rel, where |-> where, tail |-> tail]
Par(q, tail) == [type |-> "par", query |-> q, tail |-> tail]
Op(l, r) == [type |-> "op", left |-> l, right |-> r]
NoWhere == Expr(<<>>, 5, Worlds, TrueIn("p"))

\* The text of a query; scoped: with the conjunct where it belongs, in the
\* WHERE clause of every core that reads "r".
RECURSIVE QueryText(_, _)
QueryText(q, scoped) ==
    CASE q.type = "op" -> QueryText(q.left, scoped) \o <<"UNION", "ALL">> \o QueryText(q.right, scoped)
      [] q.type = "par" -> <<"(">> \o QueryText(q.query, scoped) \o <<")">> \o q.tail
      [] q.type = "core" /\ q.lead # "SELECT" -> <<q.lead, "(", "9", ")">>
      [] OTHER ->
            LET has == q.where # NoWhere
                own == <<"(">> \o PolicyConjunct \o <<")">>
                where == IF scoped /\ q.rel = "r" /\ q.where # Conj
                         THEN IF has THEN own \o <<"AND">> \o Operand(q.where, 3).text ELSE own
                         ELSE q.where.text
            IN  <<"SELECT", "c", "FROM", q.rel>>
                \o (IF where = <<>> THEN <<>> ELSE <<"WHERE">> \o where) \o q.tail

RECURSIVE Leaves(_)
Leaves(q) == CASE q.type = "core" -> <<q>>
               [] q.type = "par" -> Leaves(q.query)
               [] OTHER -> Leaves(q.left) \o Leaves(q.right)

With == <<"WITH", "w", "AS", "(", "SELECT", "c", "FROM", "u", "UNION", "SELECT", "c", "FROM", "u", ")">>
SetOps ==
    LET atom == Atom("b", <<"b">>)
        wheres == {NoWhere, atom, Or(Atom("a", <<"a">>), atom, "OR"), Conj,
                   CaseOf(atom, Conj, atom), Or(Conj, atom, "OR")}
        plain == {Core("SELECT", r, w, <<>>) : r \in {"r", "u"}, w \in wheres}
        cores == plain \cup {Core("SELECT", "r", w, <<"GROUP", "a">>) : w \in wheres}
                 \cup {Core("VALUES", "u", NoWhere, <<>>)}
        few == {Core("SELECT", "r", w, <<>>) : w \in {NoWhere, Or(Conj, atom, "OR")}}
        pairs == {Op(l, r) : l \in cores, r \in cores}
        operands == few \cup {Par(q, t) : q \in few \cup {Op(l, r) : l \in few, r \in few},
                                          t \in {<<>>, <<"ORDER", "c">>}}
        last == {Core("SELECT", "r", w, <<"ORDER", "c">>) : w \in wheres}
    IN  pairs \cup {Op(l, r) : l \in {o \in operands : o.type = "core" \/ o.tail = <<>>},
                               r \in operands \cup last}
        \cup {Op(Op(l, m), r) : l \in few, m \in cores, r \in last}
=============================================================================
