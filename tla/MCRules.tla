------------------------------- MODULE MCRules -------------------------------
(* Families of small inputs for Rules: skeletons of three tokens and some   *)
(* longer ones with fragments at every gap, lists with every body of three  *)
(* tokens, two blocks of cases; and for Scopes: a table and an optional or   *)
(* unconditional join of every kind, references at every depth, a third     *)
(* relation, stars, locks.                                                  *)
EXTENDS Rules

Upto(S, n) == UNION {[1..k -> S] : k \in 1..n}

Names == <<"a", "b", "c", "d">>
Lettered(s) == [i \in DOMAIN s |-> IF s[i] = "x" THEN Names[i] ELSE s[i]]
\* Without those no fragment could complete.
Plausible(s) ==
    s[1] \in {"x", "NOT"} /\ s[Len(s)] = "x" /\ \A i \in 2..Len(s) : ~(s[i - 1] = "x" /\ s[i] = "x")
Short == {<<"WHERE">> \o Lettered(s) : s \in {s \in Upto({"x", "AND", "OR", "NOT", "=", "BETWEEN"}, 4) : Plausible(s)}}
Long == {<<"WHERE", "a", "AND", "b", "=", "c">>, <<"WHERE", "a", "BETWEEN", "b", "AND", "c">>,
         <<"WHERE", "a", "AND", "b", "BETWEEN", "c", "AND", "d">>, <<"WHERE", "(", "a", "OR", "b", ")", "AND", "c">>,
         <<"WHERE", "a", "OR", "b", "OR", "c">>, <<"WHERE", "NOT", "a", "AND", "b">>,
         <<"WHERE", "a", "AND", "b", "HAVING", "c">>, <<"WHERE", "a", "HAVING", "b", "OR", "c">>,
         <<"WHERE", "a", "UNION", "WHERE", "b", "AND", "c">>, <<"WHERE", "a", "OR", "b", "UNION", "WHERE", "c">>,
         <<"WHERE", "a", "HAVING", "b", "UNION", "WHERE", "c", "=", "d">>}
Bodies == {<<"y">>, <<"NOT", "y">>, <<"y", "OR", "z">>, <<"y", "AND", "z">>, <<"y", "=", "z">>, <<"y", "z">>,
           <<"AND", "y">>, <<"(", "y", ")">>, <<"y", ")">>, <<"y", ")", "OR", "(", "z">>, <<"y", ")", "AND", "(", "z">>,
           <<"y", ")", "=", "(", "z">>}
\* A fragment stands outside parentheses, after a token of the clause.
Gaps(s) == {i \in 2..Len(s) : s[i] \notin ClauseWords /\ Depth(s, 1, i + 1) = 0}
Items0(s) == [i \in DOMAIN s |-> Tok(s[i])]
With(s, g, body) == InsertAt(Items0(s), g + 1, Frag(body))
Preds == {<< <<"y">> >>, << <<"y">>, <<"z">> >>, << <<"y", "OR", "z">> >>, << <<"y", "AND", "z">>, <<"y", ")", "OR", "(", "z">> >>}
TreeHeads == {<<"WHERE", "a", "AND">>, <<"WHERE", "a", "OR", "b", "AND">>, <<"WHERE", "NOT", "a", "AND">>,
              <<"WHERE", "a", "BETWEEN", "b", "AND">>, <<"WHERE", "a", "HAVING", "b", "AND">>,
              <<"WHERE", "a", "UNION", "WHERE", "b", "AND">>}
TreeTails == {<<>>, <<Tok("AND"), Tok("d")>>, <<Frag(<<"w">>)>>, <<Tok("HAVING"), Tok("d")>>}
MCTemplates ==
    UNION {{With(s, g, b) : g \in Gaps(s), b \in Bodies} : s \in Short \cup Long}
    \cup UNION {{InsertAt(With(s, g, <<"y">>), h + 1, Frag(<<"w">>)) : g \in Gaps(s), h \in Gaps(s)} : s \in Long}
    \cup {Items0(h) \o <<Tree(p)>> \o t : h \in TreeHeads, p \in Preds, t \in TreeTails}

ListBodies == Upto({"v", ",", "(", ")", "DESC", "WHERE", "RETURNING", "ORDER"}, 3)
              \cup {<<"v", ")", ",", "(", "v">>, <<"v", ")", "ORDER", "(", "v">>, <<"v", ")", "RETURNING", "(", "v">>}
MCLists ==
    [slot : {"SET", "VALUES"}, n : {1}, bodies : {<<b>> : b \in ListBodies}, tail : {<<>>, <<"RETURNING", "v">>}]
    \cup [slot : {"SET", "VALUES"}, n : {1, 2}, bodies : [1..2 -> {<<"v">>, <<"(", "v", ")">>, <<"v", ",", "v">>}],
          tail : {<<>>, <<"RETURNING", "v">>}]

Keys == {<<"v">>, <<"(", "v", ")">>, <<"v", "DESC">>, <<"v", ",", "v">>, <<"v", "LIMIT", "v">>}
MCOrderBys ==
    [keys : Upto(Keys, 2), default : {<<>>, << <<"ORDER", "v">> >>, << <<"ORDER", "v", "DESC">> >>, << <<"LIMIT", "v">> >>},
     tail : {<<>>, <<"LIMIT", "v">>, <<",", "v">>, <<"DESC">>}, distinctOn : BOOLEAN, ties : BOOLEAN]

Alt(c, p) == [cols |-> c, params |-> p]
P(t) == <<"p", t>>
Alts == {Alt(c, p) : c \in {<< <<"c", "int">> >>, << <<"c", "text">> >>}, p \in {<<>>, <<P("int")>>, <<P("text")>>}}
Bare == {Alt(<<>>, <<>>), Alt(<<>>, <<P("int")>>), Alt(<<>>, <<P("text"), P("int")>>)}
Item(k, alts) == [kind |-> k, alts |-> alts]
MCQueries ==
    {[style |-> s, items |-> <<Item("text", <<t>>), Item("choose", a), Item("choose", b), Item("guarded", <<g>>)>>,
      controls |-> c] :
        s \in {"dollar", "question"}, t \in {Alt(<<>>, <<>>), Alt(<< <<"k", "int">> >>, <<P("int")>>)},
        a \in [1..2 -> Alts], b \in [1..2 -> Bare], g \in {Alt(<<>>, <<>>), Alt(<<>>, <<P("text")>>)},
        c \in {{}, {<<"p", "int">>}}}

Occ(p) == [param : {p}, in : {"sql", "tree", "in"}, max : BOOLEAN,
           writes : {{}} \cup {{[col |-> c, own |-> o]} : c \in {"n", "m"}, o \in BOOLEAN}]
MCWrites ==
    {[kind |-> k, target |-> [kind |-> t, cols |-> [n |-> TRUE, m |-> FALSE]], occs |-> {a, b}, policy |-> x, control |-> y] :
        k \in {"insert", "update", "delete"}, t \in {"table", "view"}, a \in Occ("p"), b \in Occ("p") \cup {CHOOSE o \in Occ("q") : TRUE},
        x \in {{}, {"p"}}, y \in {{}, {"p"}}}

Tab(notnull, cols, children, view) == [notnull |-> notnull, cols |-> cols, children |-> children, view |-> view]
MCTables == [u |-> Tab({"c"}, {"c", "d"}, FALSE, FALSE), o |-> Tab({"e"}, {"e"}, FALSE, FALSE),
             k |-> Tab({"c"}, {"c"}, TRUE, FALSE), v |-> Tab({}, {"c"}, FALSE, TRUE)]
R(alias, name, join) ==
    [alias |-> alias, name |-> name, schema |-> FALSE, only |-> FALSE, join |-> join, guarded |-> FALSE, sub |-> <<>>]
Derived(alias, l, join) == [R(alias, "", join) EXCEPT !.sub = <<l>>]
Target(kind, qual, col) == [kind |-> kind, qual |-> qual, col |-> col, sub |-> <<>>]
Select(ctes, from, targets) ==
    [kind |-> "select", ctes |-> ctes, from |-> from, targets |-> targets, group |-> FALSE, rollup |-> FALSE,
     setop |-> FALSE, notnull |-> {}]
C(qual) == <<Target("col", qual, "c")>>
\* Bodies that show c of the relation n: kept, null-extended, or hazardous.
Simple(n) == Select(<<>>, <<R("x", n, "BASE")>>, C("x"))
Outer(n) == Select(<<>>, <<R("p", "o", "BASE"), R("x", n, "LEFT")>>, C("x"))
Sub(n) == <<[Target("sublink", "", "") EXCEPT !.sub = <<Simple(n)>>]>>
Kept(n) == {Simple(n), Outer(n), Select(<<>>, <<R("x", n, "BASE"), R("p", "o", "RIGHT")>>, C("x")),
            Select(<<>>, <<R("p", "o", "BASE"), Derived("x", Simple(n), "LEFT")>>, C("x"))}
Odd(n) == {[Simple(n) EXCEPT !.setop = TRUE], [Simple(n) EXCEPT !.rollup = TRUE],
           Select(<<>>, <<R("p", "o", "BASE")>>, Sub(n)), Select(<<>>, <<Derived("x", Simple(n), "BASE")>>, C("x"))}
Cte(name, body, rec, dml) == [name |-> name, body |-> body, recursive |-> rec, dml |-> dml]
Withs ==
    {<<Cte(n, b, FALSE, FALSE)>> : n \in {"a", "A", "u"}, b \in Kept("u") \cup Odd("u")}
    \cup {<<Cte("a", Outer("u"), TRUE, FALSE)>>, <<Cte("a", Simple("u"), FALSE, TRUE)>>, <<Cte("a", Simple("k"), FALSE, FALSE)>>}
    \cup {<<Cte("a", x, FALSE, FALSE), Cte("b", y, FALSE, FALSE)>> :
             x \in Kept("u") \cup Kept("b") \cup Odd("u"), y \in Kept("u") \cup {Simple("a"), [Simple("a") EXCEPT !.setop = TRUE]}}
    \cup {<<Cte("a", x, FALSE, FALSE), Cte("u", y, FALSE, FALSE)>> : x \in Kept("u"), y \in {Simple("a"), Outer("a")}}
Firsts == {R("x", n, "BASE") : n \in {"a", "b", "u"}} \cup {Derived("x", b, "BASE") : b \in {Outer("a")} \cup Odd("a")}
Beside == {<<>>, <<R("y", "u", "INNER")>>, <<[R("y", "u", "INNER") EXCEPT !.schema = TRUE]>>}
Nested == {Select(w, <<f>> \o s, C("x")) : w \in Withs, f \in Firsts, s \in Beside}
Flat ==
    {Select(<<>>, <<f>> \o s, t) :
        f \in {R("x", "u", "BASE"), R("x", "k", "BASE"), [R("x", "k", "BASE") EXCEPT !.only = TRUE], R("x", "v", "BASE"),
               R("x", "V", "BASE"), Derived("x", Outer("u"), "BASE")},
        s \in Beside \cup {<<R("y", "u", "LEFT")>>, <<[R("y", "u", "LEFT") EXCEPT !.guarded = TRUE]>>,
                           <<R("y", "o", "RIGHT")>>, <<R("y", "o", "FULL")>>},
        t \in {C("x"), <<Target("agg", "x", "c")>>, <<Target("count", "", ""), Target("total", "", "")>>,
               <<Target("star", "", "")>> \o Sub("u"), <<Target("star", "", "")>>, Sub("u") \o C("x")}}
Where == {{}} \cup {{[qual |-> q, col |-> "c", guarded |-> b]} : q \in {"x", "y"}, b \in BOOLEAN}
Flatter ==
    {[l EXCEPT !.notnull = n, !.group = g] : l \in Flat, n \in Where, g \in BOOLEAN}
    \cup {[l EXCEPT !.notnull = n, !.kind = "update", !.targets = <<Target("col", "x", "d")>>] :
             l \in {m \in Flat : m.from[1].name = "u"}, n \in {{[qual |-> "x", col |-> "d", guarded |-> FALSE]}}}
\* The rules took it (no star over an optional join, nothing outside its guard
\* refers to it) and the database prepared it: names are bound, none is circular.
Prepares(d, l) ==
    /\ \A i \in DOMAIN l.from : l.from[i].guarded =>
          (\A t \in DOMAIN l.targets : l.targets[t].kind # "star")
          /\ \A n \in l.notnull : n.qual = l.from[i].alias => n.guarded
    /\ \A n \in l.notnull : \E i \in DOMAIN l.from : l.from[i].alias = n.qual /\ l.from[i].name # "o"
    /\ \A n \in DeepTables(l) : \E m \in CteNames(l) \cup DOMAIN Tables : Matching(d, m, n)
    /\ \A i \in DOMAIN l.ctes : \A n \in DeepTables(l.ctes[i].body) :
          IF d = "sqlite"
          THEN ~Matching(d, n, l.ctes[i].name)
               /\ \A j \in DOMAIN l.ctes : n = l.ctes[j].name => l.ctes[i].name \notin DeepTables(l.ctes[j].body)
          ELSE n \in DOMAIN Tables \/ \E j \in 1..(i - 1) : n = l.ctes[j].name
Unions == [1..2 -> {Simple("u"), Simple("k"), Outer("u"), Select(<<>>, <<R("x", "u", "BASE")>>, <<Target("col", "x", "d")>>)}]
Asked(L) == {r \in {[d |-> d, levels |-> <<l>>] : d \in Dialects, l \in L} : Prepares(r.d, r.levels[1])}
MCNestedResults == Asked(Nested \cup Flatter) \cup {[d |-> d, levels |-> u] : d \in Dialects, u \in Unions}
\* Set operations and ROLLUP of the statement itself.
MCResults ==
    MCNestedResults
    \cup Asked({[l EXCEPT !.setop = TRUE] : l \in Flat} \cup {[l EXCEPT !.rollup = TRUE, !.group = TRUE] : l \in Flat})

MCIntTexts == Upto({0, 1, 7, 8}, 4)
MCStringTexts == {<<"q">> \o s : s \in Upto({"q", "b", "a"}, 5)}

-----------------------------------------------------------------------------
(* Statements of Scopes. *)

MCLower == [U |-> "u", O |-> "o", X |-> "x"]
MCCatalog == [u |-> {"id", "org"}, o |-> {"id", "x"}]
Rel(n, t, k, c, j, f, g) == [name |-> n, table |-> t, kind |-> k, cols |-> c, join |-> j, frag |-> f, guards |-> g]
Users == Rel("u", "u", "table", {"id", "org"}, "BASE", 0, {})
Orgs(t, k, j, g) ==
    Rel("o", t, k, IF k = "cte" /\ t = "o" THEN {"id", "y"} ELSE {"id", "x"}, j, IF g = {} THEN 0 ELSE 1, g)
Guards == {{}, {"g"}, {"g", "h"}}
OrgKinds == {<<"o", "table">>, <<"O", "table">>, <<"r", "cte">>, <<"o", "cte">>, <<"", "derived">>}
OrgRels(joins) == {Orgs(k[1], k[2], j, g) : k \in OrgKinds, j \in joins, g \in Guards}
Others == {<<>>} \cup {<<Rel("p", "p", k, {"id", "z"}, j, f, IF f = 0 THEN {} ELSE {"g"})>> :
                          k \in {"table", "derived"}, j \in {"INNER", "FULL"}, f \in 1..2}
Ref(q, s, c, g, p, o) == [qual |-> q, schema |-> s, col |-> c, guards |-> g, path |-> p, sort |-> o]
Step(k, names) == [step |-> k, names |-> names, seen |-> {}]
Enter(names) == Step("body", names)
Branches(names) == Step("branches", names)
From(names) == Step("derived", names)
Lateral(seen) == [Step("lateral", {"a"}) EXCEPT !.seen = seen]
Test == Step("test", {})
WithClause == Step("with", {})
Paths == {<<>>, <<Enter({"o"})>>, <<Enter({"O"})>>, <<Enter({"a"})>>, <<Test>>, <<Enter({"a"}), Enter({"o"})>>,
          <<Enter({"o"}), WithClause, Enter({"a"})>>, <<WithClause, Enter({"a"})>>, <<Enter({"o"}), Test>>,
          <<Branches({"o"})>>, <<Branches({"o"}), Enter({"a"})>>, <<Enter({"a"}), WithClause, Branches({"o"})>>,
          <<From({"a"})>>, <<From({"o"})>>, <<Enter({"o"}), From({"a"})>>, <<Enter({"b"}), From({"o"})>>,
          <<Enter({"o"}), Enter({"b"}), From({"a"})>>, <<Enter({"o"}), From({"a"}), WithClause, Enter({"a"})>>,
          <<From({"o"}), From({"a"})>>, <<Enter({"b"}), From({}), Branches({"o"})>>,
          <<Lateral({})>>, <<Enter({"o"}), Lateral({"o"})>>, <<Enter({"b", "o"}), Lateral({"b"})>>,
          <<Enter({"o"}), Lateral({"o"}), From({"b"})>>}
Qualified == {Ref(q, s, "x", g, p, FALSE) : q \in {"o", "O", "u"}, s \in BOOLEAN, g \in Guards, p \in Paths}
Unqualified == {Ref("", FALSE, c, g, p, o) : c \in {"x", "X", "y", "org"}, g \in Guards, p \in {<<>>, <<Test>>}, o \in BOOLEAN}
MCStatements ==
    [rels : {<<Users, o>> : o \in OrgRels({"INNER"})}, refs : {{r} : r \in Qualified}, stars : {{}},
     aliases : {{}}, lock : {FALSE}, setop : {FALSE}, dialect : Dialects]
    \cup [rels : {<<Users, o>> : o \in OrgRels({"INNER"})}, refs : {{r} : r \in Unqualified}, stars : {{}},
          aliases : {{}, {"x"}}, lock : {FALSE}, setop : {FALSE}, dialect : Dialects]
    \cup [rels : {<<Users, o>> \o p : o \in OrgRels({"BASE", "INNER", "LEFT", "RIGHT"}), p \in Others},
          refs : {{}}, stars : {{}, {""}, {"u"}, {"o"}}, aliases : {{}}, lock : BOOLEAN, setop : BOOLEAN,
          dialect : {"postgres"}]
=============================================================================
