------------------------------ MODULE Composer ------------------------------
(***************************************************************************)
(* A generated query method, from the application's call to the statement  *)
(* it sends: the preamble codegen writes (generate.go, writePreamble), the *)
(* fragment table it is generated with (frags.go), and the runtime's       *)
(* composition (runtime.go).  The composed cache between them is           *)
(* ComposedCache; here every call composes.                                *)
(*                                                                         *)
(* Values are abstract: an argument taken from field p is <<p, 0>>, its    *)
(* e-th element is <<p, e>>.                                               *)
(***************************************************************************)
EXTENDS Rendering, FilterTree

CONSTANTS
    Templates,  \* the scanned templates
    Lens,       \* the lengths of the lists an application may pass to an @in
    MaxSorts    \* how many sort keys it may pass to an @order-by

\* Parameters are indexed by an int16.
ASSUME ComposerAssumption ==
    /\ \A t \in Templates :
          /\ t \in Seq(Item) /\ \A i \in DOMAIN t : IsItem(t[i])
          /\ Len(ParamOrder(t)) <= MaxIndex + 1 /\ ~Contains(ParamOrder(t), "leaf")
    /\ Lens \subseteq Nat /\ MaxSorts \in Nat

VARIABLES
    q, style,  \* the template and the dialect's placeholder style
    pc,        \* "scanned", "rejected", "called", "refused", "keyed", "sent"
    call,      \* the arguments of the method
    key,       \* the shape key derived from them
    sent       \* the statement handed to the driver

vars == <<q, style, pc, call, key, sent>>

-----------------------------------------------------------------------------
(* The generated fragment table.                                           *)

\* paramSpans: the parameter tokens, by index; an unknown name stays text.
Spans(body, names) ==
    [i \in DOMAIN body |->
        IF ~IsParam(body[i]) THEN body[i]
        ELSE IF Contains(names, body[i].param)
        THEN [idx |-> IndexIn(names, body[i].param) - 1]
        ELSE Text(body[i].param)]

BuildFrag(s, names, atoms, it) ==
    LET All(bodies) == [i \in DOMAIN bodies |-> Spans(bodies[i], names)]
    IN  CASE it.kind = "skeleton" -> [kind |-> "skeleton", body |-> Spans(it.body, names)]
          [] it.kind = "guarded" ->
                 [kind |-> "guarded", sep |-> it.sep, body |-> Spans(it.body, names),
                  mask |-> {IndexIn(atoms, g) - 1 : g \in ToSet(it.guards)}]
          [] it.kind = "choose" ->
                 [kind |-> "choose",
                  cases |-> All([i \in DOMAIN it.cases |-> it.cases[i].body] \o it.default)]
          [] it.kind = "orderby" ->
                 [kind |-> "orderby", cases |-> All(it.keys),
                  default |-> All(it.default)]
          [] it.kind = "in" ->
                 [kind |-> IF s = "question" THEN "inlist" ELSE "inany",
                  idx |-> IndexIn(names, it.param) - 1]
          [] it.kind = "tree" ->
                 \* A predicate's indices count its own distinct parameters.
                 [kind |-> "tree",
                  cases |-> [i \in DOMAIN it.preds |->
                                Spans(it.preds[i], Distinct(ParamsOf(it.preds[i])))]]

BuildFrags(s, t) ==
    LET names == ParamOrder(t)
        atoms == GuardAtoms(t)
    IN  [i \in DOMAIN t |-> BuildFrag(s, names, atoms, t[i])]

-----------------------------------------------------------------------------
(* Composition.  A fragment writes a sequence of texts and binds; the      *)
(* composer co, [b, binds], appends each text and places each bind.        *)

\* An int16.
Wrap(n) == IF n > MaxIndex THEN n - 2 * (MaxIndex + 1) ELSE n

\* from: "field" or "tree".
Bind(from, idx, elem) == [bind |-> [from |-> from, idx |-> Wrap(idx), elem |-> Wrap(elem)]]

\* emitFrom: the parameters of the body, counted from base.
EmitFrom(body, from, base) ==
    [i \in DOMAIN body |-> IF "idx" \in DOMAIN body[i]
                           THEN Bind(from, base + body[i].idx, 0) ELSE body[i]]

Emit(body) == EmitFrom(body, "field", 0)

TreeArgBase_Fixed(base, d, kids, i) == base
\* treeArgBase at the i-th subtree: past the arguments of those before it.
TreeArgBase(base, d, kids, i) ==
    Wrap(base + Len(FlattenSeq([j \in 1..(i - 1) |-> ArgsTo[d][kids[j]]])))

\* A query has one tree at most, so its arguments count from 0.
EmitTree(preds, tree) ==
    LET emit[d \in 0..MaxDepth] ==
        IF d = 0 THEN [t \in Trees |-> [base \in Int |-> <<>>]]
        ELSE [t \in Trees |-> [base \in Int |->
            CASE t.op \in {"zero", "true"} -> <<Text("TRUE")>>
              [] t.op = "leaf" ->
                     <<Text("(")>> \o EmitFrom(At(preds, t.pred + 1, <<>>), "tree", base)
                     \o <<Text(")")>>
              [] OTHER ->
                     <<Text("(")>>
                     \o Joined([i \in DOMAIN t.kids |->
                                   emit[d - 1][t.kids[i]][TreeArgBase(base, d - 1, t.kids, i)]],
                               IF t.op = "or" THEN " OR " ELSE " AND ")
                     \o <<Text(")")>>]]
    IN  emit[MaxDepth][tree][0]

EmitGuarded(f) ==
    CASE f.sep = "and" -> <<Text("\n"), Text("AND (")>> \o Emit(f.body) \o <<Text(")")>>
      [] f.sep = "comma" -> <<Text("\n"), Text(", ")>> \o Emit(f.body)
      [] f.sep = "none" -> <<Text("\n")>> \o Emit(f.body)

EmitOrder(f, seq) ==
    LET Element(e) == Emit(f.cases[(e \div 2) + 1])
                      \o (IF e % 2 = 1 THEN <<Text(" DESC")>> ELSE <<>>)
    IN  CASE seq = Maximal ->
                 <<Text("\n"), Text("ORDER BY ")>>
                 \o Joined([i \in DOMAIN f.cases |-> Emit(f.cases[i])], ", ")
          [] seq = <<>> ->
                 <<Text("\n")>> \o (IF f.default = <<>> THEN <<>> ELSE Emit(f.default[1]))
          [] OTHER ->
                 <<Text("\n"), Text("ORDER BY ")>>
                 \o Joined([i \in DOMAIN seq |-> Element(seq[i])], ", ")

EmitList(f, n) ==
    IF n = 0 THEN InEmpty
    ELSE <<Text("IN (")>> \o Joined([e \in 1..n |-> <<Bind("field", f.idx, e)>>], ", ")
         \o <<Text(")")>>

\* One turn of ComposeTreeStyle's loop.
EmitFrag(frags, i, k, tree) ==
    LET f == frags[i]
        n == Nth(frags, i)
    IN  CASE f.kind = "skeleton" -> Emit(f.body)
          [] f.kind = "orderby" -> EmitOrder(f, At(k.orders, n, Maximal))
          [] f.kind = "guarded" -> IF f.mask \subseteq k.guards THEN EmitGuarded(f) ELSE <<>>
          [] f.kind = "choose" ->
                 <<Text("\n")>> \o Emit(At(f.cases, At(k.choices, n, 0) + 1, <<>>))
          [] f.kind = "inany" -> <<Text("= ANY("), Bind("field", f.idx, 0), Text(")")>>
          [] f.kind = "inlist" -> EmitList(f, At(k.arities, n, 1))
          [] f.kind = "tree" ->
                 IF tree = NoTree THEN <<Text("TRUE")>> ELSE EmitTree(f.cases, tree)

Place_NeverReuses(s, co, bd) ==
    [b |-> Append(co.b, [ph |-> IF s = "question" THEN 0 ELSE Len(co.binds) + 1]),
     binds |-> Append(co.binds, bd)]
\* place: `?` per occurrence, or the number of the first equal bind.
Place(s, co, bd) ==
    LET reuse == s = "dollar" /\ Contains(co.binds, bd)
        binds == IF reuse THEN co.binds ELSE Append(co.binds, bd)
        n == IF s = "question" THEN 0 ELSE IndexIn(binds, bd)
    IN  [b |-> Append(co.b, [ph |-> n]), binds |-> binds]

Write(s, co, w) ==
    IF "bind" \in DOMAIN w THEN Place(s, co, w.bind)
    ELSE [b |-> Append(co.b, w), binds |-> co.binds]

\* The error returns of ComposeTreeStyle: a list too long, a tree refused.
Composable(frags, k, tree) ==
    \A i \in DOMAIN frags :
        /\ frags[i].kind = "inlist" => At(k.arities, Nth(frags, i), 1) <= MaxIndex
        /\ frags[i].kind = "tree" /\ tree # NoTree => Validate(tree, frags[i].cases)

Writes(frags, k, tree) == FlattenSeq([i \in DOMAIN frags |-> EmitFrag(frags, i, k, tree)])

ComposeTreeStyle(s, frags, k, tree) ==
    LET writes == Writes(frags, k, tree)
        co[n \in 0..Len(writes)] ==
            IF n = 0 THEN [b |-> <<>>, binds |-> <<>>] ELSE Write(s, co[n - 1], writes[n])
    IN  co[Len(writes)]

-----------------------------------------------------------------------------
(* Static expansion: a table of composed shapes, by encoded key.           *)

\* ShapeKey.String and shape.Key.String.
Listed(strings, sep) ==
    FlattenSeq([i \in DOMAIN strings |->
        IF i = 1 THEN strings[i] ELSE <<sep>> \o strings[i]])
Segment(tag, parts, sep) == IF parts = <<>> THEN <<>> ELSE <<tag>> \o Listed(parts, sep)
EncodeOrder_KeyOnly(seq) ==
    IF seq = <<>> THEN <<"-">>
    ELSE Listed([i \in DOMAIN seq |-> <<ToString(seq[i] \div 2)>>], ",")
EncodeOrder(seq) ==
    CASE seq = Maximal -> <<"*">>
      [] seq = <<>> -> <<"-">>
      [] OTHER -> Listed([i \in DOMAIN seq |-> <<ToString(seq[i] \div 2),
                              IF seq[i] % 2 = 1 THEN "d" ELSE "a">>], ",")
\* trees: the encodings the cache adds for a @filter-tree query.
EncodeKey(k, trees) ==
    LET Digits(ns) == [i \in DOMAIN ns |-> <<ToString(ns[i])>>]
    IN  <<"g=", ToString(FoldSet(LAMBDA b, n : n + 2^b, 0, k.guards))>>
        \o Segment(";c=", Digits(k.choices), ",")
        \o Segment(";o=", [i \in DOMAIN k.orders |-> EncodeOrder(k.orders[i])], "|")
        \o Segment(";t=", trees, "|")
        \o Segment(";n=", Digits(k.arities), ",")

\* Run's refusals: trees, and lists on an expanding dialect, are not expanded.
Expandable(s, t) == Blocks(t, "tree") = 0 /\ (s = "question" => Blocks(t, "in") = 0)

\* expandShapes: one entry per encoding; of several keys with one encoding,
\* one is kept.
ExpandShapes(s, t) ==
    LET keys == Enumerate(t, FALSE)
        KeyOf(e) == CHOOSE k \in keys : EncodeKey(k, <<>>) = e
    IN  [e \in {EncodeKey(k, <<>>) : k \in keys} |->
            ComposeTreeStyle(s, BuildFrags(s, t), KeyOf(e), NoTree)]

-----------------------------------------------------------------------------
(* The method.                                                             *)

ListParams(t) == {t[i].param : i \in {j \in DOMAIN t : t[j].kind = "in"}}

\* What an application may pass: enum values and sort keys out of range, a
\* sort key twice, any list, any tree.
Calls(t) ==
    LET chooses == OfKind(t, "choose")
        orders == OfKind(t, "orderby")
        ps == ToSet(ParamOrder(t))
        SortKeys(o) == BoundedSeq(0..(2 * Len(o.keys)), MaxSorts)
    IN  [absent : SUBSET {p \in ps : Optional(t, p)},
         matching : SUBSET {p \in ps : IsWhen(t, p)},
         enums : Tuples([i \in DOMAIN chooses |-> 0..(Len(chooses[i].cases) + 1)]),
         orders : Tuples([i \in DOMAIN orders |-> SortKeys(orders[i])]),
         lens : [ListParams(t) -> Lens],
         tree : IF Blocks(t, "tree") = 0 THEN {NoTree} ELSE Trees]

\* The guard conditions of the preamble.
Holds(a, c) ==
    CASE a.op = "" -> a.param \notin c.absent
      [] a.op = "=" -> a.param \in c.matching
      [] a.op = "!=" -> a.param \notin c.matching

\* ChooseOrdinal: the zero value selects the default, if there is one.
ChooseOrdinalFails(c, v) == v > Len(c.cases) \/ (v = 0 /\ c.default = <<>>)
ChooseOrdinal(c, v) == IF v = 0 THEN Len(c.cases) ELSE v - 1

\* OrderSeq: in range, and no key twice, whatever the directions.
OrderSeqFails(o, vals) ==
    \/ \E i \in DOMAIN vals : vals[i] \div 2 >= Len(o.keys)
    \/ \E i, j \in DOMAIN vals : i # j /\ vals[i] \div 2 = vals[j] \div 2

CallRefused(t, c) ==
    \/ \E i \in 1..Blocks(t, "choose") : ChooseOrdinalFails(OfKind(t, "choose")[i], c.enums[i])
    \/ \E i \in 1..Blocks(t, "orderby") : OrderSeqFails(OfKind(t, "orderby")[i], c.orders[i])
    \/ \E i \in 1..Blocks(t, "tree") : OfKind(t, "tree")[i].required /\ c.tree = NoTree

\* writePreamble: the shape key.
ShapeKey(s, t, c) ==
    LET atoms == GuardAtoms(t)
        chooses == OfKind(t, "choose")
        ins == OfKind(t, "in")
    IN  [guards |-> {b - 1 : b \in {i \in DOMAIN atoms : Holds(atoms[i], c)}},
         choices |-> [i \in DOMAIN chooses |-> ChooseOrdinal(chooses[i], c.enums[i])],
         orders |-> c.orders,
         arities |-> IF s = "question" THEN [i \in DOMAIN ins |-> c.lens[ins[i].param]]
                     ELSE <<>>]

\* ResolveArgs: from the fields of the params struct and the tree's arguments.
Resolve(b, fields, args) ==
    IF b.from = "tree" THEN At(args, b.idx + 1, <<"out of range", 0>>)
    ELSE <<fields[b.idx + 1], IF b.elem > 0 THEN b.elem ELSE 0>>
ResolveArgs(binds, t, tree) ==
    LET fields == ParamOrder(t)
        args == TreeArgs(tree)
    IN  [i \in DOMAIN binds |-> Resolve(binds[i], fields, args)]

None == [sql |-> <<>>, binds |-> <<>>, args |-> <<>>]
NoCall == [absent |-> {}, matching |-> {}, enums |-> <<>>, orders |-> <<>>,
           lens |-> <<>>, tree |-> NoTree]
NoKey == [guards |-> {}, choices |-> <<>>, orders |-> <<>>, arities |-> <<>>]

Init ==
    /\ q \in Templates
    /\ style \in Styles
    /\ pc = "scanned"
    /\ call = NoCall /\ key = NoKey /\ sent = None

\* CheckLexical refuses the template.
Reject ==
    /\ pc = "scanned" /\ ~Accepted(q)
    /\ pc' = "rejected"
    /\ UNCHANGED <<q, style, call, key, sent>>

\* The application calls the generated method.
Call ==
    /\ pc = "scanned" /\ Accepted(q)
    /\ call' \in Calls(q)
    /\ pc' = "called"
    /\ UNCHANGED <<q, style, key, sent>>

\* ErrChooseRequired, ErrOrderKey, ErrFilterRequired: nothing is composed.
RefuseCall ==
    /\ pc = "called" /\ CallRefused(q, call)
    /\ pc' = "refused"
    /\ UNCHANGED <<q, style, call, key, sent>>

DeriveKey ==
    /\ pc = "called" /\ ~CallRefused(q, call)
    /\ key' = ShapeKey(style, q, call)
    /\ pc' = "keyed"
    /\ UNCHANGED <<q, style, call, sent>>

\* The composer returns an error: nothing is sent.
ComposeFails ==
    /\ pc = "keyed" /\ ~Composable(BuildFrags(style, q), key, call.tree)
    /\ pc' = "refused"
    /\ UNCHANGED <<q, style, call, key, sent>>

Send ==
    LET co == ComposeTreeStyle(style, BuildFrags(style, q), key, call.tree)
    IN  /\ pc = "keyed" /\ Composable(BuildFrags(style, q), key, call.tree)
        /\ sent' = [sql |-> co.b, binds |-> co.binds,
                    args |-> ResolveArgs(co.binds, q, call.tree)]
        /\ pc' = "sent"
        /\ UNCHANGED <<q, style, call, key>>

Next == Reject \/ Call \/ RefuseCall \/ DeriveKey \/ ComposeFails \/ Send

Spec == Init /\ [][Next]_vars
-----------------------------------------------------------------------------
(* The statement a call asks for, read off the template and the call       *)
(* without a shape key, a fragment table or a bind plan.                   *)

\* A body with its parameters' own values.
Whole(body) ==
    [i \in DOMAIN body |->
        IF IsParam(body[i]) THEN [val |-> <<body[i].param, 0>>] ELSE body[i]]

\* Every leaf with its own arguments.
LeafText(l, pred) ==
    LET own == Distinct(ParamsOf(pred))
    IN  <<Text("(")>>
        \o [i \in DOMAIN pred |->
               IF IsParam(pred[i]) THEN [val |-> l.args[IndexIn(own, pred[i].param)]] ELSE pred[i]]
        \o <<Text(")")>>
TreeText(preds, tree) ==
    LET text[d \in 0..MaxDepth] ==
        IF d = 0 THEN [t \in Trees |-> <<>>]
        ELSE [t \in Trees |->
            CASE t.op \in {"zero", "true"} -> <<Text("TRUE")>>
              [] t.op = "leaf" -> LeafText(t, At(preds, t.pred + 1, <<>>))
              [] OTHER ->
                     <<Text("(")>>
                     \o Joined([i \in DOMAIN t.kids |-> text[d - 1][t.kids[i]]],
                               IF t.op = "or" THEN " OR " ELSE " AND ")
                     \o <<Text(")")>>]
    IN  text[MaxDepth][tree]

ListText(s, p, n) ==
    IF s = "dollar" THEN Whole(<<Text("= ANY("), Param(p), Text(")")>>)
    ELSE IF n = 0 THEN InEmpty
    ELSE <<Text("IN (")>> \o Joined([e \in 1..n |-> <<[val |-> <<p, e>>]>>], ", ")
         \o <<Text(")")>>

ItemText(s, t, i, c) ==
    LET it == t[i]
        n == Nth(t, i)
    IN  CASE it.kind = "skeleton" -> Whole(it.body)
          [] it.kind = "guarded" ->
                 IF \A a \in ToSet(it.guards) : Holds(a, c) THEN Whole(GuardedPieces(it)) ELSE <<>>
          [] it.kind = "choose" ->
                 <<Text("\n")>>
                 \o Whole(IF c.enums[n] = 0 THEN it.default[1] ELSE it.cases[c.enums[n]].body)
          [] it.kind = "orderby" -> Whole(OrderPieces(it, c.orders[n]))
          [] it.kind = "in" -> ListText(s, it.param, c.lens[it.param])
          [] it.kind = "tree" ->
                 IF c.tree = NoTree THEN <<Text("TRUE")>> ELSE TreeText(it.preds, c.tree)
Intended(s, t, c) == FlattenSeq([i \in DOMAIN t |-> ItemText(s, t, i, c)])

\* What the database executes: every placeholder replaced by its argument.
Executed(stmt) ==
    LET IsPh(tok) == "ph" \in DOMAIN tok
        Rank(i) == Cardinality({j \in 1..i : IsPh(stmt.sql[j])})
    IN  [i \in DOMAIN stmt.sql |->
            LET tok == stmt.sql[i]
            IN  IF ~IsPh(tok) THEN tok
                ELSE [val |-> stmt.args[IF tok.ph = 0 THEN Rank(i) ELSE tok.ph]]]

-----------------------------------------------------------------------------
(* Properties.                                                             *)

\* The glue the composer adds between elements.
Glue == {", ", " DESC", " OR ", " AND "}
\* What is verified is byte-wise what is composed: a shape of an accepted
\* template that the renderer can also produce (no tree, or an empty one, and
\* lists of at most one element) is sent with the renderer's text and, in the
\* renderer's numbering, the renderer's parameters; and of every other shape,
\* each text but the glue occurs in a rendering that was parsed and described.
Conforms ==
    LET r == Render(style, Pieces(style, q, key.guards, key.choices, key.orders,
                                  key.arities, <<0>>))
        verified == {x \in UNION {ToSet(v.pieces) : v \in ToSet(Renderings(style, q))} : ~IsParam(x)}
    IN  pc = "sent" =>
            /\ call.tree \in {NoTree, Unscoped} /\ (\A i \in DOMAIN key.arities : key.arities[i] <= 1)
               => sent.sql = r.sql /\ [i \in DOMAIN sent.args |-> sent.args[i][1]] = r.params
            /\ \A tok \in ToSet(sent.sql) :
                  "text" \in DOMAIN tok => tok \in verified \/ tok.text \in Glue

\* The statement sent is the one the call asks for: the case, the sort keys,
\* the guarded fragments and the tree it names, with every placeholder bound to
\* the value, list element or leaf argument that belongs there.
SentAsIntended == pc = "sent" => Executed(sent) = Intended(style, q, call)

\* No argument comes from a field that holds nothing: an optional one that is
\* absent, or the empty slot of a predicate's parameter.
NothingAbsent ==
    pc = "sent" =>
        \A i \in DOMAIN sent.args :
            sent.args[i][1] \notin call.absent /\ ~InPredicate(q, sent.args[i][1])

\* Static expansion changes nothing: the space it was admitted for has the size
\* CountExpand projected, and whatever the call, its shape is in the generated
\* table with the entry the composer would have built.
ExpandedAgrees ==
    LET table == ExpandShapes(style, q)
        frags == BuildFrags(style, q)
    IN  pc = "scanned" /\ Accepted(q) =>
            /\ \A expandIn \in BOOLEAN : Count(q, expandIn) = Cardinality(Enumerate(q, expandIn))
            /\ Expandable(style, q) =>
                  \A k \in {ShapeKey(style, q, c) : c \in {d \in Calls(q) : ~CallRefused(q, d)}} :
                      /\ EncodeKey(k, <<>>) \in DOMAIN table
                      /\ table[EncodeKey(k, <<>>)] = ComposeTreeStyle(style, frags, k, NoTree)

\* The encoded key determines the composition: two calls with one encoding
\* compose the same text and bind plan, so a cached entry serves both.
KeyDetermines ==
    LET frags == BuildFrags(style, q)
        shapes == {<<ShapeKey(style, q, c), c.tree>> : c \in {d \in Calls(q) : ~CallRefused(q, d)}}
        TreeSegment(t) == IF Blocks(q, "tree") = 0 THEN <<>> ELSE <<EncodeTree(t)>>
        entries == {<<EncodeKey(s[1], TreeSegment(s[2])), ComposeTreeStyle(style, frags, s[1], s[2])>> :
                        s \in {x \in shapes : Composable(frags, x[1], x[2])}}
    IN  pc = "scanned" /\ Accepted(q) =>
            Cardinality(entries) = Cardinality({e[1] : e \in entries})

NamesDefault(p) ==
    \E i \in DOMAIN p : p[i].kind = "choose" /\ \E j \in DOMAIN p[i].cases : p[i].cases[j].name = "default"
\* A rendering's shape name is unique within its query (ast/shape.go): it is
\* the last path component of the committed cache entry, and RenderingCount
\* projects how many there are.  A case called default beside a @default would
\* share its name.
ShapeNamesUnique ==
    LET names == ShapeNames(style, q)
    IN  pc = "scanned" /\ Accepted(q) /\ ~NamesDefault(q) =>
            Cardinality(ToSet(names)) = RenderingCount(style, q)
=============================================================================
