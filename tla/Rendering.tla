------------------------------ MODULE Rendering ------------------------------
(***************************************************************************)
(* The verification side: the renderings of a template that are parsed,    *)
(* described and cached (internal/ast/render.go, internal/ast/shape.go),   *)
(* and the space of shapes it can take at run time                         *)
(* (internal/shape/shape.go).                                              *)
(*                                                                         *)
(* A shape key is [guards, choices, orders, arities]: the set of guard     *)
(* bits, an ordinal per @choose, a key sequence per @order-by (Maximal, or *)
(* elements 2 * key + desc), and a list length per @in.                    *)
(***************************************************************************)
EXTENDS Template, Integers, FiniteSets, FiniteSetsExt

Styles == {"dollar", "question"}

\* A nil order selection: every key in declaration order.
Maximal == <<-1>>

-----------------------------------------------------------------------------
(* Emission.  A rendering is first the list of its pieces: text and        *)
(* parameter references.                                                   *)

MaxOrdinal_NamedOnly(c) == Len(c.cases)
MaxOrdinal(c) == Len(c.cases) + Len(c.default)

\* caseBody, by ordinal from 0; the default follows the named cases.
CaseBody(c, ord) ==
    IF ord < Len(c.cases) THEN c.cases[ord + 1].body
    ELSE IF c.default # <<>> THEN c.default[1] ELSE <<>>

Active(q, it, guards) ==
    \A a \in ToSet(it.guards) :
        \E b \in DOMAIN GuardAtoms(q) : GuardAtoms(q)[b] = a /\ b - 1 \in guards

\* Bodies joined by a separator.
Joined(bodies, sep) ==
    FlattenSeq([i \in DOMAIN bodies |->
        IF i = 1 THEN bodies[i] ELSE <<Text(sep)>> \o bodies[i]])

GuardedPieces(it) ==
    CASE it.sep = "and" -> <<Text("\n"), Text("AND (")>> \o it.body \o <<Text(")")>>
      [] it.sep = "comma" -> <<Text("\n"), Text(", ")>> \o it.body
      [] it.sep = "none" -> <<Text("\n")>> \o it.body

OrderPieces(it, seq) ==
    LET Element(e) == it.keys[(e \div 2) + 1]
                      \o (IF e % 2 = 1 THEN <<Text(" DESC")>> ELSE <<>>)
    IN  <<Text("\n")>> \o
        CASE seq = Maximal -> <<Text("ORDER BY ")>> \o Joined(it.keys, ", ")
          [] seq = <<>> -> FlattenSeq(it.default)
          [] OTHER -> <<Text("ORDER BY ")>>
                      \o Joined([i \in DOMAIN seq |-> Element(seq[i])], ", ")

InEmpty == <<Text("IN (empty)")>>
InPieces(it, style, arity) ==
    CASE style = "dollar" -> <<Text("= ANY("), Param(it.param), Text(")")>>
      [] style = "question" /\ arity = 0 -> InEmpty
      [] OTHER -> <<Text("IN ("), Param(it.param), Text(")")>>

TreePieces(it, tree) ==
    IF tree = 0 THEN <<Text("TRUE")>>
    ELSE <<Text("(")>>
         \o Joined([i \in DOMAIN it.preds |->
                        <<Text("(")>> \o it.preds[i] \o <<Text(")")>>], " AND ")
         \o <<Text(")")>>

\* How many items of the same kind precede item i.
Nth(q, i) == Len(OfKind(SubSeq(q, 1, i), q[i].kind))

At(s, i, default) == IF i \in DOMAIN s THEN s[i] ELSE default

\* renderCore, with each tree in its maximal (1) or empty (0) form:
\* missing selections mean the maximal one.
Pieces(style, q, guards, choices, orders, ins, trees) ==
    LET Of(i) ==
        LET it == q[i]
            n == Nth(q, i)
        IN  CASE it.kind = "skeleton" -> it.body
              [] it.kind = "guarded" ->
                     IF Active(q, it, guards) THEN GuardedPieces(it) ELSE <<>>
              [] it.kind = "choose" -> <<Text("\n")>> \o CaseBody(it, At(choices, n, 0))
              [] it.kind = "orderby" -> OrderPieces(it, At(orders, n, Maximal))
              [] it.kind = "in" -> InPieces(it, style, At(ins, n, 1))
              [] it.kind = "tree" -> TreePieces(it, At(trees, n, 1))
    IN  FlattenSeq([i \in DOMAIN q |-> Of(i)])

\* placeholder: `?` per occurrence, or $n numbered by name in order of first
\* occurrence.
Placeholder(style, r, p) ==
    LET params == IF style = "question" \/ ~Contains(r.params, p)
                  THEN Append(r.params, p) ELSE r.params
        n == IndexIn(params, p)
    IN  [sql |-> Append(r.sql, [ph |-> IF style = "question" THEN 0 ELSE n]),
         params |-> params]

\* emitText and emitSynth.
EmitPiece(style, r, piece) ==
    IF IsParam(piece) THEN Placeholder(style, r, piece.param)
    ELSE [sql |-> Append(r.sql, piece), params |-> r.params]
Render(style, pieces) ==
    LET r[n \in 0..Len(pieces)] ==
            IF n = 0 THEN [sql |-> <<>>, params |-> <<>>]
            ELSE EmitPiece(style, r[n - 1], pieces[n])
    IN  r[Len(pieces)]

AllGuards(q) == {b - 1 : b \in DOMAIN GuardAtoms(q)}

-----------------------------------------------------------------------------
(* The verified renderings of a template.                                  *)

Blocks(q, kind) == Len(OfKind(q, kind))
\* All ones except position i.
AllBut(n, i) == [j \in 1..n |-> IF j = i THEN 0 ELSE 1]

Variant(kind, block, ord, pieces) ==
    [kind |-> kind, block |-> block, ord |-> ord, pieces |-> pieces]

\* Renderings: the maximal one, each further @choose ordinal, each @order-by
\* default, each empty @in (expanding dialects) and each empty tree.
Renderings(style, q) ==
    LET All(choices, orders, ins, trees) ==
            Pieces(style, q, AllGuards(q), choices, orders, ins, trees)
        chooses == OfKind(q, "choose")
        orderBys == OfKind(q, "orderby")
        ins == Blocks(q, "in")
        trees == Blocks(q, "tree")
    IN  <<Variant("maximal", 0, 0, All(<<>>, <<>>, <<>>, <<>>))>>
        \o FlattenSeq([c \in DOMAIN chooses |->
               [o \in 1..(MaxOrdinal(chooses[c]) - 1) |->
                   Variant("case", c, o, All([j \in 1..c |-> IF j = c THEN o ELSE 0],
                                             <<>>, <<>>, <<>>))]])
        \o FlattenSeq([b \in DOMAIN orderBys |->
               IF orderBys[b].default = <<>> THEN <<>>
               ELSE <<Variant("order-default", b, 0,
                          All(<<>>, [j \in DOMAIN orderBys |->
                                        IF j = b THEN <<>> ELSE Maximal], <<>>, <<>>))>>])
        \o (IF style = "dollar" THEN <<>>
            ELSE [i \in 1..ins |-> Variant("in-empty", i, 0,
                                       All(<<>>, <<>>, AllBut(ins, i), <<>>))])
        \o [t \in 1..trees |-> Variant("tree-empty", t, 0,
                                   All(<<>>, <<>>, <<>>, AllBut(trees, t)))]

RenderingCount(style, q) ==
    1 + FoldLeft(LAMBDA n, c : n + MaxOrdinal(c) - 1, 0, OfKind(q, "choose"))
      + Len(SelectSeq(OfKind(q, "orderby"), LAMBDA o : o.default # <<>>))
      + Blocks(q, "tree")
      + (IF style = "question" THEN Blocks(q, "in") ELSE 0)

\* assignShapes, before disambiguation: named for the construct.  Names are
\* snake_case, so the parts of a file name can be read back from it.
BaseName(q, r) ==
    CASE r.kind = "maximal" -> <<"maximal">>
      [] r.kind = "case" ->
             LET c == OfKind(q, "choose")[r.block]
             IN  <<"case", c.param,
                   IF r.ord < Len(c.cases) THEN c.cases[r.ord + 1].name ELSE "default">>
      [] r.kind = "order-default" -> <<"order-default", OfKind(q, "orderby")[r.block].param>>
      [] r.kind = "in-empty" -> <<"in-empty", OfKind(q, "in")[r.block].param>>
      [] r.kind = "tree-empty" -> <<"tree-empty", OfKind(q, "tree")[r.block].param>>

ShapeNames_NoIndex(style, q) ==
    LET rs == Renderings(style, q) IN [i \in DOMAIN rs |-> <<BaseName(q, rs[i])>>]
\* Every member of a colliding group gets its block index.
ShapeNames(style, q) ==
    LET rs == Renderings(style, q)
        base == [i \in DOMAIN rs |-> BaseName(q, rs[i])]
    IN  [i \in DOMAIN rs |->
            IF \E j \in DOMAIN rs \ {i} : base[j] = base[i]
            THEN <<base[i], rs[i].block - 1>> ELSE <<base[i]>>]

-----------------------------------------------------------------------------
(* The shape space.                                                        *)

\* orderOptions: the backtracking walk over the keys not yet used.
OrderOptions(n) ==
    LET opts[free \in SUBSET (0..(n - 1))] ==
            {<<>>} \cup UNION {{<<2 * k + d>> \o rest : d \in 0..1, rest \in opts[free \ {k}]} :
                                   k \in free}
    IN  opts[0..(n - 1)]

Ordinals(c) == IF MaxOrdinal(c) = 0 THEN 1 ELSE MaxOrdinal(c)

\* Ordered selections of distinct keys, each in either direction.
OrderCount(n) ==
    FoldLeft(LAMBDA acc, k : LET term == acc.term * (n - k + 1) * 2
                             IN  [term |-> term, total |-> acc.total + term],
             [term |-> 1, total |-> 1], [k \in 1..n |-> k]).total

Product(s) == FoldLeft(LAMBDA a, b : a * b, 1, s)

\* CountExpand.
Count(q, expandIn) ==
    LET chooses == OfKind(q, "choose")
        orders == OfKind(q, "orderby")
    IN  2^Len(GuardAtoms(q))
        * Product([i \in DOMAIN chooses |-> Ordinals(chooses[i])])
        * Product([i \in DOMAIN orders |-> OrderCount(Len(orders[i].keys))])
        * (IF expandIn THEN 2^Blocks(q, "in") ELSE 1)

\* One element of each set, in order: the nested walks of EnumerateExpand.
Tuples(sets) ==
    {t \in [DOMAIN sets -> UNION ToSet(sets)] : \A i \in DOMAIN sets : t[i] \in sets[i]}

\* EnumerateExpand, without its cap and its order.
Enumerate(q, expandIn) ==
    LET chooses == OfKind(q, "choose")
        orders == OfKind(q, "orderby")
    IN  [guards : SUBSET AllGuards(q),
         choices : Tuples([i \in DOMAIN chooses |-> 0..(Ordinals(chooses[i]) - 1)]),
         orders : Tuples([i \in DOMAIN orders |-> OrderOptions(Len(orders[i].keys))]),
         arities : IF expandIn THEN Tuples([i \in 1..Blocks(q, "in") |-> 0..1])
                   ELSE {<<>>}]
=============================================================================
