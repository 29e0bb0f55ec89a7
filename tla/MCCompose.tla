------------------------------ MODULE MCCompose ------------------------------
(***************************************************************************)
(* Templates and trees for the Composer: every construct, alone and next   *)
(* to every other in both orders, and a few longer templates.              *)
(***************************************************************************)
EXTENDS Composer

Select == Skeleton(<<Text("select"), Param("a")>>)

\* The parameter a is shared by several fragments; b is bound out of its guard
\* by Bare, l as a scalar by Bare, u out of its predicate by Mixed.
Bare == Skeleton(<<Text("where"), Param("a"), Param("b"), Param("a")>>)
Mixed == Skeleton(<<Text("having"), Param("l"), Param("u")>>)
OptB == IfPresent(<<Atom("b", "")>>, "and", <<Text("b ="), Param("b")>>)
OptBC == IfPresent(<<Atom("c", ""), Atom("b", "")>>, "comma",
                   <<Param("c"), Text("set"), Param("b"), Param("a")>>)
WhenM == IfPresent(<<Atom("m", "=")>>, "none", <<Text("join"), Param("m")>>)
UnlessM == IfPresent(<<Atom("m", "!=")>>, "and", <<Text("unless")>>)
Case(n, body) == [name |-> n, body |-> body]
ChooseS == Choose("s", <<Case("x", <<Text("case x"), Param("d")>>),
                         Case("y", <<Text("case y"), Param("a")>>)>>, <<>>)
ChooseR == Choose("r", <<Case("z", <<Text("case z")>>)>>, << <<Text("otherwise"), Param("a")>> >>)
\* A case called default beside a @default.
ChooseDefault == Choose("t", <<Case("x", <<Text("case x")>>), Case("default", <<Text("case y")>>)>>,
                        << <<Text("otherwise")>> >>)
Sort == OrderBy("o", << <<Text("k0"), Param("a")>>, <<Text("k1")>> >>, << <<Text("sorted")>> >>)
Member == InExpr("l")
MemberK == InExpr("k")
Scope == FilterTree("f", TRUE, << <<Text("p0"), Param("u")>>,
                                  <<Text("p1"), Param("v"), Param("u"), Param("v")>> >>)

Items == {Bare, Mixed, OptB, OptBC, WhenM, UnlessM, ChooseS, ChooseR, Sort, Member, MemberK, Scope}

\* A second enum or sort-key type of one name is refused by the generator.
NoTypeTwice(s) ==
    \A i, j \in DOMAIN s : s[i] = s[j] /\ s[i].kind \in {"choose", "orderby"} => i = j

MCTemplates ==
    {<<Select>> \o s : s \in {r \in BoundedSeq(Items, 2) : NoTypeTwice(r)}}
    \cup {<<Select, OptBC, OptB, ChooseS, Sort>>, <<Select, OptB, Scope, OptBC, ChooseR>>,
          <<Select, Member, OptB, MemberK, Member>>, <<ChooseR, UnlessM, WhenM, Sort>>,
          <<Select, ChooseS, ChooseR, UnlessM, WhenM>>, <<Select, Member, Scope, WhenM, Sort>>,
          <<Select, ChooseDefault, Member>>}

L(x) == NewLeaf(0, <<<<"leaf", x>>>>)
M(x, y) == NewLeaf(1, <<<<"leaf", x>>, <<"leaf", y>>>>)
Built ==
    {NoTree, Unscoped, L(1), M(1, 2), And(<<>>), And(<<NoTree, L(1)>>),
     And(<<L(1), M(2, 3)>>), Or(<<M(1, 2), L(3)>>), Or(<<L(1), And(<<M(2, 3), L(4)>>)>>),
     And(<<And(<<L(1), L(2), L(3)>>), L(4)>>), And(<<And(<<L(1), L(2)>>), L(3), L(4)>>),
     Or(<<L(1), Unscoped>>),
     \* refused: arity, predicate, arguments, nodes, depth
     And(<<NewLeaf(1, <<<<"leaf", 1>>>>), L(2)>>), NewLeaf(0, <<>>),
     And(<<NewLeaf(0, <<<<"leaf", 1>>, <<"leaf", 2>>>>), L(3)>>), NewLeaf(2, <<>>),
     And(<<M(1, 2), M(3, 4), M(5, 6), M(7, 8)>>),
     Or(<<L(1), L(2), L(3), L(4), L(5), L(6)>>), Or(<<L(1), And(<<L(2), Or(<<L(3), L(4)>>)>>)>>)}

\* ... and what they are built from.
Parts(ts) == UNION {ToSet(Kids(t)) : t \in ts}
AllBuilt == Built \cup Parts(Built) \cup Parts(Parts(Built))
MCTrees == AllBuilt
=============================================================================
