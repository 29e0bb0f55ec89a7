------------------------------ MODULE MCScanner ------------------------------
(* Families of small template files for Scanner: statements with joins,     *)
(* subqueries and conflict clauses; directives around queries; markers in   *)
(* any order; INSERT lists; clauses that start with an optional item.       *)
EXTENDS Scanner

W(s) == [i \in DOMAIN s |-> Word(s[i])]
Opts(S) == {<<>>} \cup S
Cat(S, T) == {s \o t : s \in S, t \in T}
UpTo(n, S) == UNION {[1..m -> S] : m \in 0..n}
Joined(ss) == FlattenSeq(ss)
Paren(s) == <<LParen>> \o s \o <<RParen>>
Query(s) == <<Header("q")>> \o s

\* ---- statements ---------------------------------------------------------
Sub == Paren(W(<<"SELECT", "C", "FROM", "R", "WHERE", "C">>))
Columns == {W(<<c>>) : c \in {"C", "CONFLICT", "CROSS", "NATURAL", "WINDOW", "STRAIGHT_JOIN"}} \cup {Sub}
Joins == {W(<<"JOIN", "R", "ON", "CONFLICT">>), W(<<"CROSS", "JOIN", "R">>), W(<<"NATURAL", "LEFT", "JOIN", "R">>),
          W(<<"STRAIGHT_JOIN", "R", "ON", "CONFLICT">>), W(<<"JOIN", "R", "USING">>) \o Paren(W(<<"C">>)),
          W(<<"LEFT", "JOIN">>) \o Sub \o W(<<"ON", "C">>)}
Block(args, body) == <<Mark("if-present", args)>> \o body \o <<Mark("endif", <<>>)>>
OwnWhere == <<As("where", Word("WHERE")), Word("TRUE")>>
Wheres == {<<>>, OwnWhere, OwnWhere \o Block(<<"a">>, <<Word("AND"), Ref("a")>>)}
AsTail(s) == <<As("tail", s[1])>> \o SubSeq(s, 2, Len(s))
Tails == {AsTail(W(<<"ORDER", "BY", "C">>)), AsTail(W(<<"GROUP", "BY", "C", "HAVING", "TRUE">>)), AsTail(W(<<"FOR", "UPDATE">>)),
          AsTail(W(<<"WINDOW", "V", "AS">>) \o Paren(W(<<"ORDER", "BY", "C">>)) \o W(<<"LIMIT", "C">>)),
          AsTail(<<Mark("order-by", <<"o">>), Mark("key", <<"k">>), Word("C"), Mark("end", <<>>)>> \o W(<<"LIMIT", "C">>)),
          AsTail(<<Mark("choose", <<"o">>), Mark("case", <<"k">>)>> \o W(<<"GROUP", "BY", "C">>)
               \o <<Mark("default", <<>>), Mark("end", <<>>)>> \o W(<<"ORDER", "BY", "C">>))}
Select(cols, joins, wheres, tails) ==
    {W(<<"SELECT">>) \o c \o W(<<"FROM", "R">>) \o j \o w \o t :
        c \in cols, j \in joins, w \in wheres, t \in tails}
Conflicts == {W(<<"ON", "CONFLICT">>) \o Paren(W(<<"C">>)) \o W(<<"WHERE", "C", "DO", "UPDATE", "SET", "C", "WHERE", "C">>),
              W(<<"ON", "CONFLICT", "DO", "UPDATE", "SET", "C">>)}
Insert == W(<<"INSERT", "INTO", "T">>) \o Paren(W(<<"C">>))
Statements ==
    Select(Columns, Opts(Joins), Wheres, Opts(Tails))
    \cup Cat({Insert}, Cat(Select(Columns, Opts(Joins) \cup Cat(Joins, Joins), {<<>>, OwnWhere}, {<<>>}), Conflicts))
    \cup {Insert \o W(<<"VALUES">>) \o Sub \o c \o r : c \in Opts(Conflicts), r \in Opts({W(<<"RETURNING", "C">>)})}
    \cup {W(<<"UPDATE", "T", "SET", "C">>) \o f \o w \o r :
             f \in Opts(Cat({W(<<"FROM", "R">>)}, Joins)), w \in Wheres, r \in Opts({AsTail(W(<<"RETURNING", "C">>))})}
    \cup {W(<<"DELETE", "FROM", "T">>) \o u \o w : u \in Opts({W(<<"USING", "R">>)}), w \in Wheres}
    \cup {W(<<"WITH", "X", "AS">>) \o Sub \o s : s \in Select(Columns, {<<>>}, Wheres, Opts(Tails))}
MCStatements == {Query(s \o e) : s \in Statements, e \in {<<>>}} \cup {Query(s \o <<Semi, Comment>>) : s \in Select(Columns, Opts(Joins), Wheres, {<<>>})}

\* ---- directives -----------------------------------------------------------
Stmt == W(<<"SELECT", "C", "FROM", "R">>) \o OwnWhere
Hint(t) == Directive("param", "a", t, TRUE)
Timeout(v) == Directive("timeout", "", v, TRUE)
Pieces == {<<Header("r")>>, <<Semi>>, <<Hint("int")>>, <<Directive("optout", "p", "", TRUE)>>, <<Timeout("2s")>>,
           Block(<<"a">>, <<Word("AND"), Ref("a")>>), Stmt}
Around == {Query(Joined(ps)) : ps \in UpTo(4, Pieces)}
Details == {<<Hint("text")>>, <<Comment>>, <<Directive("nolint", "", {"L001", "L002"}, TRUE)>>, <<Timeout("none")>>,
            <<Directive("nolint", "", {"L001", "E100"}, TRUE)>>, <<Directive("nullable", "C", "true", TRUE)>>,
            <<Directive("nullable", "C", "false", FALSE)>>, <<Timeout("0s")>>, <<Directive("apply", "p", "", FALSE)>>}
Detailed == {<<Comment, Hint("int")>> \o Query(Stmt \o Joined(ps) \o <<Semi, Header("r")>> \o Stmt) : ps \in UpTo(2, Details \cup {<<Hint("int")>>})}
            \cup {Query(Stmt \o <<Semi>> \o Joined(ps) \o <<Header("r")>> \o Stmt) : ps \in UpTo(2, Details)}
MCDirectives == Around \cup Detailed

\* ---- markers ------------------------------------------------------------
Marks == {Mark("if-present", <<"a">>), Mark("endif", <<>>), Word("AND"), Ref("a"), Mark("end", <<>>), Mark("when", <<"b", "=1">>),
          Mark("choose", <<"c">>), Mark("case", <<"x">>)}
Cases == {<<Mark("case", <<"x">>), Word("ORDER"), Word("BY"), Ref("a")>>, <<Mark("case", <<"y">>), Word("ORDER"), Word("BY"), Ref("b")>>,
          <<Mark("case", <<"z">>), Word("GROUP"), Word("BY"), Word("C")>>, <<Mark("default", <<>>)>>}
Entry == Cases \cup {
          <<Mark("case", <<"x">>), Mark("choose", <<"d">>), Mark("end", <<>>)>>, <<Ref("a")>>, <<BadMark("case")>>,
          <<Mark("key", <<"x">>), Ref("a")>>, <<Mark("predicate", <<"x">>), Ref("a")>>, <<Mark("predicate", <<"y">>), Ref("a"), Mark("in", <<"a">>)>>}
Blocks == {<<Word("AND"), Mark(m, <<"c">>)>> \o Joined(es) \o <<Mark("end", <<>>)>> \o t :
              m \in {"choose", "order-by", "filter-tree"}, es \in UpTo(2, Entry) \cup [1..3 -> Cases], t \in {<<>>, W(<<"LIMIT", "C">>)}}
Projected == {W(<<"SELECT">>) \o <<Mark("choose", <<"c">>)>> \o Joined(es) \o <<Mark("end", <<>>)>> \o W(<<"FROM", "R">>) :
                 es \in UpTo(2, Entry \cup {<<Mark("case", <<"y">>)>>})}
Odd == {<<Word("SELECT"), Comment, Positional, RParen>>, <<Mark("in", <<"a">>), Word("SELECT"), Mark("endif", <<>>)>>, Stmt \o <<Mark("in", <<"a">>), Unlexable>>,
        Stmt \o <<BadMark("if-present"), BadMark("order-by"), Semi, Mark("in", <<"a">>), Word("SELECT")>>, Stmt \o <<LoneCR>>,
        Stmt \o Block(<<"a", "a", "b", "c">>, <<Word("AND"), Ref("Bad"), Unlexable>>), <<Mark("order-by", <<"o">>), Mark("end", <<>>)>>,
        Stmt \o <<Word("AND"), Mark("filter-tree", <<"f">>), Mark("predicate", <<"x">>), Ref("a"), Mark("end", <<>>)>> \o W(<<"OR", "C">>)}
MCMarkers == {Query(Stmt \o ms) : ms \in UpTo(4, Marks)} \cup {Query(Stmt \o b) : b \in Blocks}
             \cup {Query(p) : p \in Projected \cup Odd} \cup {<<Mark("endif", <<>>), Word("C")>> \o Query(Stmt)}

\* ---- INSERT lists and anchors ----------------------------------------------
Conditions == {<<>>, <<"a">>, <<"b">>, <<"a", "b">>}
ListItem(t, g) == IF g = <<>> THEN <<t>> ELSE Block(g, <<Comma, t>>)
List(t, gs) ==
    Paren(Joined([i \in DOMAIN gs |-> (IF i > 1 /\ gs[i] = <<>> THEN <<Comma>> ELSE <<>>) \o ListItem(t, gs[i])]))
Lists == UNION {[1..n -> Conditions] : n \in 1..3}
Col == As("col", Word("C"))
Val(r) == As(r, Word("1"))
InsertOf(cs, r1) == W(<<"INSERT", "INTO", "T">>) \o List(Col, cs) \o W(<<"VALUES">>) \o List(Val("row1"), r1)
MCInserts == {Query(InsertOf(cs, r)) : cs \in Lists, r \in Lists}
             \cup {Query(InsertOf(cs, r) \o <<Comma>> \o List(Val("row2"), r2)) :
                      cs \in {<<<<>>, <<"a">>>>}, r \in {<<<<>>, <<"a">>>>}, r2 \in Lists}
             \cup {Query(W(<<"INSERT", "INTO", "T">>) \o List(Col, <<<<>>, <<"a">>>>) \o Stmt)}
Optional == {Block(<<"a">>, <<Word("AND"), Ref("a")>>), Block(<<"b">>, <<Comma, Ref("b")>>), <<Comment>>, W(<<"C">>)}
MCAnchors == {Query(h \o Joined(os)) : os \in UpTo(3, Optional),
                 h \in {W(<<"SELECT", "C", "FROM", "R">>) \o <<OwnWhere[1]>>, W(<<"UPDATE", "T", "SET">>),
                        W(<<"SELECT", "C", "FROM", "R">>) \o AsTail(W(<<"GROUP", "BY", "C", "HAVING">>))}}

MCTexts == MCStatements \cup MCDirectives \cup MCMarkers \cup MCInserts \cup MCAnchors
=============================================================================
