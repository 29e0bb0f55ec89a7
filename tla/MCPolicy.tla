------------------------------ MODULE MCPolicy ------------------------------
(* Statements for Policy, varied two aspects at a time, under 14 sets of    *)
(* policies; and families of small inputs for the scans: expressions of two *)
(* operators in three dialects, joins of three relations, set operations of *)
(* up to four cores.                                                        *)
EXTENDS PolicyScans

Clause(l, o, h) == [lexOK |-> l, hasOR |-> o, has |-> h]
Clear == Clause(TRUE, FALSE, {})
On(f, w, c) == c @@ [found |-> f, wrongJoin |-> w]
Where(c) == c @@ [lead |-> "SELECT"]
Occ == [name |-> "t", guarded |-> FALSE, bare |-> TRUE, folds |-> FALSE, nullable |-> FALSE, located |-> TRUE,
        on |-> On(FALSE, FALSE, Clear), branch |-> 1, at |-> 1]
Other == [Occ EXCEPT !.name = "u"]
Base == [kind |-> "select", occ |-> <<Occ>>, target |-> FALSE, sub |-> 0, blocks |-> <<>>,
         nested |-> [always |-> {}, sometimes |-> {}], conflict |-> [update |-> FALSE, del |-> FALSE],
         wheres |-> <<Where(Clear)>>, setop |-> "none", optouts |-> {}, applies |-> {}, param |-> "none", hint |-> "none"]

Written == {Clear} \cup {Clause(l, o, {<<"p", "t">>, <<"p">>}) : l \in BOOLEAN, o \in BOOLEAN}
Wheres == {Where(c) : c \in Written \cup {Clause(TRUE, FALSE, {<<"p", "u">>})}}
Ons == {On(FALSE, FALSE, Clear), On(TRUE, TRUE, Clause(TRUE, FALSE, {<<"p", "t">>, <<"p", "u">>}))}
       \cup {On(TRUE, FALSE, c) : c \in Written}
Occs == {<<>>, <<Occ>>, <<Occ, Other>>}
        \cup {<<Occ, o>> : o \in {[Other EXCEPT !.nullable = TRUE, !.on = c] : c \in Ons}}
        \cup {<<o>> : o \in {[Occ EXCEPT !.guarded = TRUE], [Occ EXCEPT !.bare = FALSE], [Occ EXCEPT !.folds = TRUE],
                             [Occ EXCEPT !.nullable = TRUE, !.located = FALSE]}
                            \cup {[Occ EXCEPT !.nullable = TRUE, !.on = c] : c \in Ons}}
Blocks == {<<>>, << <<0, 0>> >>, << <<0, 1>> >>, << <<1, 0>> >>, << <<0, 0>>, <<0, 1>> >>}
Nested == {[always |-> {}, sometimes |-> {}]} \cup {[always |-> {d}, sometimes |-> {}] : d \in {"update", "delete", "upsert", "insert"}}
Conflicts == [update : BOOLEAN, del : BOOLEAN]
BranchOccs == {<<Occ, [o EXCEPT !.branch = 2, !.at = n]>> : o \in {Occ, Other, [Occ EXCEPT !.guarded = TRUE]}, n \in 0..2}
MCStatements ==
    {[Base EXCEPT !.kind = k, !.occ = o, !.wheres = <<w>>] : k \in {"select", "update"}, o \in Occs, w \in Wheres}
    \cup {[Base EXCEPT !.kind = k, !.occ = o, !.sub = n, !.blocks = b] :
              k \in Kinds, o \in {<<>>, <<Occ>>}, n \in {0, 1}, b \in Blocks}
    \cup {[Base EXCEPT !.kind = k, !.occ = o, !.target = o # <<>>, !.nested = n, !.conflict = c] :
              k \in Kinds, o \in {<<>>, <<Occ>>}, n \in Nested, c \in Conflicts}
    \cup {[Base EXCEPT !.kind = k, !.blocks = << <<0, 1>> >>, !.nested = [always |-> {}, sometimes |-> {d}], !.occ = o] :
              k \in Kinds, o \in {<<>>, <<Occ>>}, d \in {"update", "delete"}}
    \cup {[Base EXCEPT !.kind = k, !.occ = o, !.sub = n, !.optouts = x, !.applies = y] :
              k \in Kinds, o \in {<<>>, <<Occ>>}, n \in {0, 1}, x \in SUBSET {"p", "q"}, y \in SUBSET {"p", "q"}}
    \cup {[Base EXCEPT !.param = a, !.hint = h, !.wheres = <<w>>] :
              a \in {"none", "value", "guard", "tree"}, h \in {"none", "same", "other"}, w \in Wheres}
    \cup {[Base EXCEPT !.setop = u, !.occ = o, !.wheres = <<v, w>>] :
              u \in {"read", "unread"}, v \in Wheres, w \in Wheres \cup {[lead |-> "TABLE"] @@ Clear},
              o \in {<<Occ>>, <<[Occ EXCEPT !.branch = 2]>>} \cup BranchOccs}

Pol == [name |-> "p", kinds |-> {}, placeholder |-> TRUE, param |-> TRUE, typed |-> TRUE, refs |-> "own",
        parses |-> TRUE, reads |-> FALSE, require |-> FALSE]
MCPolicies ==
    {{p} : p \in {[Pol EXCEPT !.kinds = k, !.placeholder = h] : k \in {{}, {"select"}, {"delete"}, {"update", "delete"}}, h \in BOOLEAN}}
    \cup {{Pol, [Pol EXCEPT !.name = "q", !.kinds = k, !.require = TRUE, !.param = FALSE, !.refs = "none"]} : k \in {{}, {"delete"}}}
    \cup {{[Pol EXCEPT !.reads = TRUE]}, {[Pol EXCEPT !.refs = "other"]}, {[Pol EXCEPT !.parses = FALSE], [Pol EXCEPT !.name = "q"]},
          {[Pol EXCEPT !.placeholder = TRUE], [Pol EXCEPT !.placeholder = FALSE]}}

-----------------------------------------------------------------------------
(* Texts for the scans. *)

Heads == {<<"SELECT", "c", "FROM", "r">>,
          <<"SELECT", "(", "SELECT", "c", "WHERE", "c", ")", ",", "c", ".", "WHERE", "FROM", "r">>}
Tails == {<<>>, <<"GROUP", "a">>, <<"@order-by">>, <<"OFFSET", "9">>}
MCClauses ==
    UNION {{[dialect |-> d, expr |-> e, head |-> <<"SELECT", "c", "FROM", "r">>, tail |-> <<"GROUP", "a">>] :
                e \in Expressions(d)} : d \in {"postgres", "mysql", "sqlite"}}
    \cup {[dialect |-> "sqlite", expr |-> e, head |-> h, tail |-> t] :
             e \in Compound("sqlite"), h \in Heads, t \in Tails}
    \cup {[dialect |-> "mysql", expr |-> Expr(e.text \o <<"@if">>, e.level, e.sat, e.pre),
           head |-> <<"FROM", "r">>, tail |-> t] : e \in Simple("mysql") \cup Binary("mysql", Simple("mysql"), {Conj}), t \in Tails}
MCJoins == [tree : Trees, outer : BOOLEAN]
MCCompounds == [query : SetOps, with : BOOLEAN]
=============================================================================
