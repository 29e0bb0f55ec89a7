--------------------------- MODULE ComposerProofs ---------------------------
(***************************************************************************)
(* Proofs about Composer, for any set of templates and of trees, any caps  *)
(* and any int16 limit that holds the template's parameters.               *)
(*                                                                         *)
(* The composition is taken apart into maps over sequences.  The fragment  *)
(* of an item writes what Placed makes of the renderer's pieces of it;     *)
(* Value is what a write means once its bind is placed and resolved; and   *)
(* Value after Placed is Own, the piece with its parameter's own value.    *)
(***************************************************************************)
EXTENDS Composer, Sums, SequenceTheorems

\* The texts the composer and the renderer add of their own.
Lits == {Text("\n"), Text("AND ("), Text(")"), Text(", "), Text("ORDER BY "), Text(" DESC"),
         Text("IN (empty)"), Text("IN ("), Text("= ANY("), Text("TRUE"), Text("("),
         Text(" OR "), Text(" AND ")}
Word == [text : STRING] \cup Lits
Piece == Word \cup [param : STRING]
BindPlan == [from : {"field", "tree"}, idx : Int, elem : Int]
Cell == Word \cup [bind : BindPlan]

\* The pieces whose parameters are among the fields of the params struct.
Named(names) == {x \in Piece : IsParam(x) => Contains(names, x.param)}

\* What a piece is written as.
Placed(names) ==
    [x \in Piece |-> IF IsParam(x) THEN Bind("field", IndexIn(names, x.param) - 1, 0) ELSE x]
\* What a write means to the database.
Value(fields, args) ==
    [w \in Cell |-> IF "bind" \in DOMAIN w THEN [val |-> Resolve(w.bind, fields, args)] ELSE w]
Meaning(fields, args) == {Value(fields, args)[w] : w \in Cell}
\* A piece with its parameter's own value.
Own == [x \in Piece |-> IF IsParam(x) THEN [val |-> <<x.param, 0>>] ELSE x]

\* v is u taken element by element through m.
Image(m, X, u, v) == u \in Seq(X) /\ v = Mapped(m, u)

-----------------------------------------------------------------------------
(* Words, pieces and cells.                                                *)

LEMMA LitWords ==
  /\ Text("\n") \in Word /\ Text("AND (") \in Word /\ Text(")") \in Word /\ Text(", ") \in Word
  /\ Text("ORDER BY ") \in Word /\ Text(" DESC") \in Word /\ Text("IN (empty)") \in Word
  /\ Text("IN (") \in Word /\ Text("= ANY(") \in Word /\ Text("TRUE") \in Word
  /\ Text("(") \in Word /\ Text(" OR ") \in Word /\ Text(" AND ") \in Word
BY DEF Word, Lits

LEMMA WordFields ==
  ASSUME NEW w \in Word
  PROVE  /\ DOMAIN w = {"text"} /\ ~IsParam(w)
         /\ "bind" \notin DOMAIN w /\ "ph" \notin DOMAIN w /\ "idx" \notin DOMAIN w
<1>1. DOMAIN w = {"text"}
  BY DEF Word, Lits, Text
<1> QED
  BY <1>1 DEF IsParam

LEMMA ParamFields ==
  ASSUME NEW w \in [param : STRING]
  PROVE  IsParam(w) /\ w.param \in STRING
<1>1. DOMAIN w = {"param"}
  OBVIOUS
<1> QED
  BY <1>1 DEF IsParam

LEMMA BindFields ==
  ASSUME NEW w \in [bind : BindPlan]
  PROVE  "bind" \in DOMAIN w /\ w.bind \in BindPlan
<1>1. DOMAIN w = {"bind"}
  OBVIOUS
<1> QED
  BY <1>1

LEMMA PieceKinds ==
  ASSUME NEW x \in Piece
  PROVE  (~IsParam(x) /\ x \in Word) \/ (IsParam(x) /\ x \in [param : STRING])
BY WordFields, ParamFields DEF Piece

LEMMA CellKinds ==
  ASSUME NEW w \in Cell
  PROVE  \/ "bind" \notin DOMAIN w /\ w \in Word
         \/ "bind" \in DOMAIN w /\ w \in [bind : BindPlan]
BY WordFields, BindFields DEF Cell

LEMMA TokenPieces == Token \subseteq Piece
BY DEF Token, Piece, Word

\* Text of a name is a word.
LEMMA NameWord == ASSUME NEW n \in STRING PROVE Text(n) \in Word
BY DEF Word, Text

-----------------------------------------------------------------------------
(* Images of concatenations.                                               *)

LEMMA ImageTyped ==
  ASSUME NEW m, NEW X, NEW Y, Maps(m, X, Y), NEW u, NEW v, Image(m, X, u, v)
  PROVE  u \in Seq(X) /\ v \in Seq(Y) /\ Len(v) = Len(u)
BY MappedSeq DEF Image

LEMMA ImageEmpty ==
  ASSUME NEW m, NEW X
  PROVE  Image(m, X, <<>>, <<>>)
BY DEF Image, Mapped

LEMMA ImageOne ==
  ASSUME NEW m, NEW X, NEW x \in X, NEW y, y = m[x]
  PROVE  Image(m, X, <<x>>, <<y>>)
<1>1. <<x>> \in Seq(X) /\ Len(<<x>>) = 1 /\ <<x>>[1] = x
  OBVIOUS
<1>2. Mapped(m, <<x>>) = [i \in 1..1 |-> m[<<x>>[i]]]
  BY <1>1 DEF Mapped
<1>3. <<y>> = [i \in 1..1 |-> m[<<x>>[i]]]
  OBVIOUS
<1> QED
  BY <1>1, <1>2, <1>3 DEF Image

LEMMA ImageConcat ==
  ASSUME NEW m, NEW X, NEW Y, Maps(m, X, Y), NEW u, NEW v, Image(m, X, u, v),
         NEW a, NEW b, Image(m, X, a, b)
  PROVE  Image(m, X, u \o a, v \o b)
<1>1. u \in Seq(X) /\ a \in Seq(X) /\ v = Mapped(m, u) /\ b = Mapped(m, a)
  BY DEF Image
<1>2. u \o a \in Seq(X)
  BY <1>1, ConcatSeq
<1>3. PICK w : w = u \o a
  OBVIOUS
<1>4. IsConcat(w, u, a)
  BY <1>3 DEF IsConcat
<1>5. IsConcat(Mapped(m, w), Mapped(m, u), Mapped(m, a))
  BY <1>1, <1>4, MapIsConcat
<1> QED
  BY <1>1, <1>2, <1>3, <1>5 DEF Image, IsConcat

LEMMA ImageFlatten ==
  ASSUME NEW m, NEW X, NEW Y, Maps(m, X, Y), NEW n \in Nat, NEW s, NEW t,
         s = [i \in 1..n |-> s[i]], t = [i \in 1..n |-> t[i]],
         \A i \in 1..n : Image(m, X, s[i], t[i])
  PROVE  Image(m, X, FlattenSeq(s), FlattenSeq(t))
<1>1. s \in Seq(Seq(X)) /\ Len(s) = n
  BY DEF Image
<1>2. t \in Seq(Seq(Y)) /\ Len(t) = n
  <2>1. \A i \in 1..n : t[i] \in Seq(Y)
    BY ImageTyped
  <2> QED
    BY <2>1
<1>3. \A i \in 1..Len(s) : t[i] = Mapped(m, s[i])
  BY <1>1 DEF Image
<1>4. Mapped(m, FlattenSeq(s)) = FlattenSeq(t)
  BY <1>1, <1>2, <1>3, MapFlatten
<1>5. FlattenSeq(s) \in Seq(X)
  BY <1>1, FlattenMembers
<1> QED
  BY <1>4, <1>5 DEF Image

LEMMA ImageJoined ==
  ASSUME NEW m, NEW X, NEW Y, Maps(m, X, Y), NEW n \in Nat, NEW s, NEW t,
         s = [i \in 1..n |-> s[i]], t = [i \in 1..n |-> t[i]],
         \A i \in 1..n : Image(m, X, s[i], t[i]),
         NEW sep, Text(sep) \in X, m[Text(sep)] = Text(sep)
  PROVE  Image(m, X, Joined(s, sep), Joined(t, sep))
<1> DEFINE S == [i \in 1..n |-> IF i = 1 THEN s[i] ELSE <<Text(sep)>> \o s[i]]
           T == [i \in 1..n |-> IF i = 1 THEN t[i] ELSE <<Text(sep)>> \o t[i]]
<1>1. Image(m, X, <<Text(sep)>>, <<Text(sep)>>)
  BY ImageOne
<1>2. ASSUME NEW i \in 1..n PROVE Image(m, X, S[i], T[i])
  <2>1. Image(m, X, s[i], t[i])
    OBVIOUS
  <2>2. Image(m, X, <<Text(sep)>> \o s[i], <<Text(sep)>> \o t[i])
    BY <1>1, <2>1, ImageConcat
  <2> QED
    BY <2>1, <2>2
<1>3. Joined(s, sep) = FlattenSeq(S) /\ Joined(t, sep) = FlattenSeq(T)
  <2>1. DOMAIN s = 1..n /\ DOMAIN t = 1..n
    OBVIOUS
  <2> QED
    BY <2>1 DEF Joined
<1>4. S = [i \in 1..n |-> S[i]] /\ T = [i \in 1..n |-> T[i]]
  OBVIOUS
<1>5. Image(m, X, FlattenSeq(S), FlattenSeq(T))
  <2> HIDE DEF S, T
  <2> QED
    BY <1>2, <1>4, ImageFlatten
<1> QED
  BY <1>3, <1>5

-----------------------------------------------------------------------------
(* Writing a piece, and reading it back.                                   *)

LEMMA IndexAt ==
  ASSUME NEW s, Len(s) \in Nat, NEW e, Contains(s, e)
  PROVE  IndexIn(s, e) \in 1..Len(s) /\ s[IndexIn(s, e)] = e
<1> DEFINE I == {i \in 1..Len(s) : s[i] = e}
<1>1. I \in SUBSET Nat /\ I # {}
  BY DEF Contains
<1>2. PICK n \in I : \A k \in I : n <= k
  BY <1>1, LeastNatural
<1>3. IndexIn(s, e) = Min(I)
  BY <1>1 DEF IndexIn, SelectInSeq
<1>4. Min(I) \in I
  BY <1>2 DEF Min
<1> QED
  BY <1>3, <1>4

LEMMA IndexInt ==
  ASSUME NEW s, Len(s) \in Nat, NEW e
  PROVE  IndexIn(s, e) \in Int
<1>1. CASE Contains(s, e)
  BY <1>1, IndexAt
<1>2. CASE ~Contains(s, e)
  <2>1. {i \in 1..Len(s) : s[i] = e} = {}
    BY <1>2 DEF Contains
  <2> QED
    BY <2>1 DEF IndexIn, SelectInSeq
<1> QED
  BY <1>1, <1>2

LEMMA WrapInt ==
  ASSUME NEW n \in Int
  PROVE  Wrap(n) \in Int /\ (n <= MaxIndex => Wrap(n) = n)
BY TreeAssumption DEF Wrap

LEMMA BindTyped ==
  ASSUME NEW from \in {"field", "tree"}, NEW i \in Int, NEW e \in Int
  PROVE  /\ Bind(from, i, e) \in [bind : BindPlan]
         /\ Bind(from, i, e).bind = [from |-> from, idx |-> Wrap(i), elem |-> Wrap(e)]
         /\ Bind(from, i, e) \in Cell
BY WrapInt DEF Bind, BindPlan, Cell

LEMMA PlacedMaps ==
  ASSUME NEW names, Len(names) \in Nat
  PROVE  Maps(Placed(names), Named(names), Cell)
<1> SUFFICES ASSUME NEW x \in Named(names)
             PROVE  Placed(names)[x] \in Cell
  BY DEF Maps
<1>1. x \in Piece
  BY DEF Named
<1>2. CASE IsParam(x)
  <2>1. Placed(names)[x] = Bind("field", IndexIn(names, x.param) - 1, 0)
    BY <1>1, <1>2 DEF Placed
  <2>2. PICK i \in Int : i = IndexIn(names, x.param) - 1
    BY IndexInt
  <2>3. Bind("field", i, 0) \in Cell
    <3>1. "field" \in {"field", "tree"} /\ 0 \in Int
      OBVIOUS
    <3> QED
      BY <3>1, BindTyped
  <2> QED
    BY <2>1, <2>2, <2>3
<1>3. CASE ~IsParam(x)
  <2>1. x \in Word
    BY <1>1, <1>3, PieceKinds
  <2>2. Placed(names)[x] = x
    BY <1>1, <1>3 DEF Placed
  <2> QED
    BY <2>1, <2>2 DEF Cell
<1> QED
  BY <1>2, <1>3

LEMMA ValueMaps ==
  ASSUME NEW fields, NEW args
  PROVE  Maps(Value(fields, args), Cell, Meaning(fields, args))
BY DEF Maps, Meaning

LEMMA OwnMaps ==
  ASSUME NEW X \in SUBSET Piece
  PROVE  Maps(Own, X, {Own[x] : x \in Piece})
BY DEF Maps

LEMMA ValueWord ==
  ASSUME NEW fields, NEW args, NEW w \in Word
  PROVE  w \in Cell /\ Value(fields, args)[w] = w
<1>1. w \in Cell /\ "bind" \notin DOMAIN w
  BY WordFields DEF Cell
<1> QED
  BY <1>1 DEF Value

LEMMA NamedWord ==
  ASSUME NEW names, NEW w \in Word
  PROVE  w \in Named(names) /\ Placed(names)[w] = w /\ Own[w] = w
<1>1. w \in Piece /\ ~IsParam(w)
  BY WordFields DEF Piece
<1> QED
  BY <1>1 DEF Named, Placed, Own

\* A piece that is written and read back has its parameter's own value.
LEMMA ValueOfPlaced ==
  ASSUME NEW names \in Seq(STRING), Len(names) <= MaxIndex + 1, NEW args, NEW x \in Named(names)
  PROVE  Value(names, args)[Placed(names)[x]] = Own[x]
<1>0. x \in Piece /\ (IsParam(x) => Contains(names, x.param))
  BY DEF Named
<1>1. CASE IsParam(x)
  <2> DEFINE i == IndexIn(names, x.param)
             b == Bind("field", i - 1, 0)
  <2>1. i \in 1..Len(names) /\ names[i] = x.param /\ Len(names) \in Nat
    BY <1>0, <1>1, IndexAt
  <2>2. i - 1 <= MaxIndex /\ 0 <= MaxIndex /\ i - 1 \in Int /\ MaxIndex \in Nat
    BY <2>1, TreeAssumption
  <2> HIDE DEF i
  <2>3. b \in Cell /\ b.bind = [from |-> "field", idx |-> Wrap(i - 1), elem |-> Wrap(0)]
        /\ "bind" \in DOMAIN b
    BY <2>2, BindTyped, BindFields
  <2>4. Wrap(i - 1) = i - 1 /\ Wrap(0) = 0
    BY <2>2, WrapInt
  <2>5. Resolve(b.bind, names, args) = <<x.param, 0>>
    <3> HIDE DEF b
    <3>1. b.bind.from = "field" /\ b.bind.idx = i - 1 /\ b.bind.elem = 0
      BY <2>3, <2>4
    <3>2. b.bind.idx + 1 = i
      BY <2>1, <3>1
    <3> QED
      BY <2>1, <3>1, <3>2 DEF Resolve
  <2>6. Placed(names)[x] = b
    BY <1>0, <1>1 DEF Placed, i
  <2> HIDE DEF b
  <2>7. Value(names, args)[b] = [val |-> Resolve(b.bind, names, args)]
    BY <2>3 DEF Value
  <2>8. Own[x] = [val |-> <<x.param, 0>>]
    BY <1>0, <1>1 DEF Own
  <2> QED
    BY <2>5, <2>6, <2>7, <2>8
<1>2. CASE ~IsParam(x)
  <2>1. x \in Word
    BY <1>0, <1>2, PieceKinds
  <2> QED
    BY <2>1, ValueWord, NamedWord
<1> QED
  BY <1>1, <1>2

LEMMA ImageOfPlaced ==
  ASSUME NEW names \in Seq(STRING), Len(names) <= MaxIndex + 1, NEW args,
         NEW u, NEW w, Image(Placed(names), Named(names), u, w)
  PROVE  Image(Value(names, args), Cell, w, Mapped(Own, u))
<1>1. u \in Seq(Named(names)) /\ w = Mapped(Placed(names), u) /\ Len(names) \in Nat
  BY DEF Image
<1>2. w \in Seq(Cell) /\ Len(w) = Len(u)
  BY <1>1, PlacedMaps, ImageTyped
<1>3. ASSUME NEW i \in 1..Len(u) PROVE Value(names, args)[w[i]] = Own[u[i]]
  <2>1. u[i] \in Named(names)
    BY <1>1, ElementIn
  <2>2. w[i] = Placed(names)[u[i]]
    BY <1>1, MappedAt
  <2> QED
    BY <2>1, <2>2, ValueOfPlaced
<1>4. Mapped(Value(names, args), w) = Mapped(Own, u)
  BY <1>2, <1>3 DEF Mapped
<1> QED
  BY <1>2, <1>4 DEF Image

LEMMA WholeIsOwn ==
  ASSUME NEW u \in Seq(Piece)
  PROVE  Whole(u) = Mapped(Own, u)
<1>1. DOMAIN u = 1..Len(u)
  OBVIOUS
<1>2. ASSUME NEW i \in 1..Len(u)
      PROVE  Own[u[i]] = IF IsParam(u[i]) THEN [val |-> <<u[i].param, 0>>] ELSE u[i]
  <2>1. u[i] \in Piece
    BY ElementIn
  <2> QED
    BY <2>1 DEF Own
<1> QED
  BY <1>1, <1>2 DEF Whole, Mapped

\* A body's spans write its pieces.
LEMMA EmitSpans ==
  ASSUME NEW names, Len(names) \in Nat, NEW body \in Seq(Named(names))
  PROVE  Image(Placed(names), Named(names), body, Emit(Spans(body, names)))
<1> DEFINE sp == Spans(body, names)
<1>1. DOMAIN body = 1..Len(body) /\ DOMAIN sp = 1..Len(body)
  BY DEF Spans
<1>2. ASSUME NEW i \in 1..Len(body)
      PROVE  (IF "idx" \in DOMAIN sp[i] THEN Bind("field", 0 + sp[i].idx, 0) ELSE sp[i])
             = Placed(names)[body[i]]
  <2>1. body[i] \in Named(names) /\ body[i] \in Piece
    BY ElementIn DEF Named
  <2>2. CASE IsParam(body[i])
    <3>1. Contains(names, body[i].param)
      BY <2>1, <2>2 DEF Named
    <3>2. sp[i] = [idx |-> IndexIn(names, body[i].param) - 1]
      BY <1>1, <2>2, <3>1 DEF Spans
    <3>3. "idx" \in DOMAIN sp[i] /\ sp[i].idx = IndexIn(names, body[i].param) - 1
      BY <3>2
    <3>4. 0 + sp[i].idx = IndexIn(names, body[i].param) - 1
      BY <3>3, IndexInt
    <3> QED
      BY <2>1, <2>2, <3>3, <3>4 DEF Placed
  <2>3. CASE ~IsParam(body[i])
    <3>1. sp[i] = body[i]
      BY <1>1, <2>3 DEF Spans
    <3>2. body[i] \in Word
      BY <2>1, <2>3, PieceKinds
    <3> HIDE DEF sp
    <3> QED
      BY <3>1, <3>2, WordFields, NamedWord
  <2> QED
    BY <2>2, <2>3
<1> HIDE DEF sp
<1>3. Emit(sp) = [i \in 1..Len(body) |->
                     IF "idx" \in DOMAIN sp[i] THEN Bind("field", 0 + sp[i].idx, 0) ELSE sp[i]]
  BY <1>1 DEF Emit, EmitFrom
<1>4. Emit(sp) = Mapped(Placed(names), body)
  BY <1>2, <1>3 DEF Mapped
<1> QED
  BY <1>4 DEF Image, sp

-----------------------------------------------------------------------------
(* The template: its items, their bodies and their parameters.             *)

AtomType == [param : STRING, op : {"", "=", "!="}]
\* An appearance of p in an item.
Appearance(it, p) ==
    [param |-> p, guards |-> IF it.kind = "guarded" THEN ToSet(it.guards) ELSE {},
     inCase |-> it.kind \in {"choose", "orderby"}, inTree |-> it.kind = "tree",
     inIn |-> it.kind = "in"]
Appearances == UNION {{Appearance(it, p) : p \in STRING} : it \in Item}

LEMMA InSet ==
  ASSUME NEW X, NEW s \in Seq(X), NEW e
  PROVE  e \in ToSet(s) <=> Contains(s, e)
BY SeqMembers DEF Contains

LEMMA OneSeq == ASSUME NEW X, NEW x \in X PROVE <<x>> \in Seq(X)
OBVIOUS

LEMMA OneElement == ASSUME NEW x PROVE Len(<<x>>) = 1 /\ <<x>>[1] = x
OBVIOUS

LEMMA DistinctMembers ==
  ASSUME NEW X, NEW s \in Seq(X)
  PROVE  Distinct(s) \in Seq(X) /\ \A x : x \in ToSet(Distinct(s)) <=> x \in ToSet(s)
<1> DEFINE S == [i \in 1..Len(s) |-> IF \E j \in 1..(i - 1) : s[j] = s[i] THEN <<>> ELSE <<s[i]>>]
<1>1. \A i \in 1..Len(s) : s[i] \in X
  BY ElementIn
<1>2. S \in Seq(Seq(X)) /\ Len(S) = Len(s)
  <2>1. ASSUME NEW i \in 1..Len(s) PROVE S[i] \in Seq(X)
    BY <1>1
  <2> HIDE DEF S
  <2>2. S = [i \in 1..Len(s) |-> S[i]]
    BY DEF S
  <2> QED
    BY <2>1, <2>2
<1>3. Distinct(s) = FlattenSeq(S)
  <2>1. DOMAIN s = 1..Len(s)
    OBVIOUS
  <2> QED
    BY <2>1, Zenon DEF Distinct
<1>4. \A i \in 1..Len(s) : \A x : x \in ToSet(S[i]) <=> x = s[i] /\ ~\E j \in 1..(i - 1) : s[j] = s[i]
  BY DEF ToSet
<1>5. \A x : x \in ToSet(s) <=> \E i \in 1..Len(s) : x = s[i]
  BY SeqMembers
<1> HIDE DEF S
<1>6. /\ FlattenSeq(S) \in Seq(X)
      /\ \A x : x \in ToSet(FlattenSeq(S)) <=> \E i \in 1..Len(s) : x \in ToSet(S[i])
  BY <1>2, FlattenMembers
<1>7. ASSUME NEW x, x \in ToSet(s) PROVE \E i \in 1..Len(s) : x \in ToSet(S[i])
  <2> DEFINE I == {i \in 1..Len(s) : s[i] = x}
  <2>1. I \in SUBSET Nat /\ I # {}
    BY <1>5, <1>7
  <2>2. PICK i \in I : \A k \in I : i <= k
    BY <2>1, LeastNatural
  <2>3. ~\E j \in 1..(i - 1) : s[j] = s[i]
    BY <2>2
  <2> QED
    BY <1>4, <2>2, <2>3
<1> QED
  BY <1>3, <1>4, <1>5, <1>6, <1>7

LEMMA ParamsOfMembers ==
  ASSUME NEW body \in Body
  PROVE  /\ ParamsOf(body) \in Seq(STRING)
         /\ \A i \in 1..Len(body) : IsParam(body[i]) => body[i].param \in ToSet(ParamsOf(body))
<1> DEFINE S == [i \in 1..Len(body) |-> IF IsParam(body[i]) THEN <<body[i].param>> ELSE <<>>]
<1>1. \A i \in 1..Len(body) : IsParam(body[i]) => body[i].param \in STRING
  <2> SUFFICES ASSUME NEW i \in 1..Len(body), IsParam(body[i])
               PROVE  body[i].param \in STRING
    OBVIOUS
  <2>1. body[i] \in Piece
    BY ElementIn, TokenPieces DEF Body
  <2> QED
    BY <2>1, PieceKinds, ParamFields
<1>2. S \in Seq(Seq(STRING)) /\ Len(S) = Len(body)
  <2>0. Len(body) \in Nat
    BY DEF Body
  <2>1. ASSUME NEW i \in 1..Len(body) PROVE S[i] \in Seq(STRING)
    <3>1. CASE IsParam(body[i])
      <4>1. PICK x \in STRING : x = body[i].param
        BY <1>1, <3>1
      <4>2. S[i] = <<x>>
        BY <3>1, <4>1
      <4>3. <<x>> \in Seq(STRING)
        BY OneSeq
      <4> QED
        BY <4>2, <4>3
    <3>2. CASE ~IsParam(body[i])
      BY <3>2
    <3> QED
      BY <3>1, <3>2
  <2> HIDE DEF S
  <2>2. S = [i \in 1..Len(body) |-> S[i]]
    BY DEF S
  <2> QED
    BY <2>0, <2>1, <2>2
<1>3. ParamsOf(body) = FlattenSeq(S)
  BY DEF ParamsOf, Body
<1>4. \A i \in 1..Len(body) : IsParam(body[i]) => body[i].param \in ToSet(S[i])
  BY DEF ToSet
<1> HIDE DEF S
<1>6. /\ FlattenSeq(S) \in Seq(STRING)
      /\ \A x : x \in ToSet(FlattenSeq(S)) <=> \E i \in 1..Len(body) : x \in ToSet(S[i])
  BY <1>2, FlattenMembers
<1> QED
  BY <1>3, <1>4, <1>6

LEMMA ItemBodies ==
  ASSUME NEW it \in Item
  PROVE  Bodies(it) \in Seq(Body)
<1>1. CASE it \in SkeletonItem
  BY <1>1 DEF SkeletonItem, Bodies
<1>2. CASE it \in GuardedItem
  <2>1. it.kind = "guarded" /\ it.body \in Body
    BY <1>2 DEF GuardedItem
  <2> QED
    BY <2>1 DEF Bodies
<1>3. CASE it \in ChooseItem
  <2>1. it.kind = "choose" /\ it.default \in Seq(Body) /\ it.cases \in Seq([name : STRING, body : Body])
    BY <1>3 DEF ChooseItem
  <2>2. ASSUME NEW i \in 1..Len(it.cases) PROVE it.cases[i].body \in Body
    <3>1. it.cases[i] \in [name : STRING, body : Body]
      BY <2>1, ElementIn
    <3> QED
      BY <3>1
  <2>3. [i \in DOMAIN it.cases |-> it.cases[i].body] \in Seq(Body)
    BY <2>1, <2>2
  <2> QED
    BY <2>1, <2>3, ConcatSeq DEF Bodies
<1>4. CASE it \in OrderItem
  <2>1. it.kind = "orderby" /\ it.default \in Seq(Body) /\ it.keys \in Seq(Body)
    BY <1>4 DEF OrderItem
  <2> QED
    BY <2>1, ConcatSeq DEF Bodies
<1>5. CASE it \in InItem
  <2>1. it.kind = "in" /\ Param(it.param) \in Token
    BY <1>5 DEF InItem, Param, Token
  <2> QED
    BY <2>1 DEF Bodies, Body
<1>6. CASE it \in TreeItem
  BY <1>6 DEF TreeItem, Bodies
<1> QED
  BY <1>1, <1>2, <1>3, <1>4, <1>5, <1>6 DEF Item

LEMMA ItemAppearances ==
  ASSUME NEW it \in Item
  PROVE  /\ ItemOccurrences(it) \in Seq(Appearances)
         /\ \A o \in ToSet(ItemOccurrences(it)) : \E p \in STRING : o = Appearance(it, p)
         /\ \A b \in 1..Len(Bodies(it)) : \A i \in 1..Len(Bodies(it)[b]) :
               IsParam(Bodies(it)[b][i]) =>
                  Appearance(it, Bodies(it)[b][i].param) \in ToSet(ItemOccurrences(it))
<1> DEFINE bodies == Bodies(it)
           whole == FlattenSeq(bodies)
           ps == ParamsOf(whole)
<1>1. bodies \in Seq(Seq(Token))
  BY ItemBodies DEF Body
<1>2. whole \in Body /\ \A x : x \in ToSet(whole) <=> \E b \in 1..Len(bodies) : x \in ToSet(bodies[b])
  <2> HIDE DEF bodies
  <2> QED
    BY <1>1, FlattenMembers DEF Body
<1>3. ItemOccurrences(it) = [i \in DOMAIN ps |-> Appearance(it, ps[i])]
  BY DEF ItemOccurrences, Appearance
<1>4. ps \in Seq(STRING) /\ \A i \in 1..Len(whole) : IsParam(whole[i]) => whole[i].param \in ToSet(ps)
  <2> HIDE DEF whole
  <2> QED
    BY <1>2, ParamsOfMembers
<1> HIDE DEF ps
<1>5. DOMAIN ps = 1..Len(ps) /\ Len(ps) \in Nat /\ \A i \in 1..Len(ps) : ps[i] \in STRING
  BY <1>4, ElementIn
<1>6. \A i \in 1..Len(ps) : Appearance(it, ps[i]) \in Appearances
  BY <1>5 DEF Appearances
<1>7. ItemOccurrences(it) \in Seq(Appearances)
  BY <1>3, <1>5, <1>6
<1>8. \A o : o \in ToSet(ItemOccurrences(it)) <=> \E i \in 1..Len(ps) : o = Appearance(it, ps[i])
  BY <1>3, <1>5 DEF ToSet
<1>9. ASSUME NEW b \in 1..Len(bodies), NEW i \in 1..Len(bodies[b]), IsParam(bodies[b][i])
      PROVE  Appearance(it, bodies[b][i].param) \in ToSet(ItemOccurrences(it))
  <2>1. bodies[b] \in Seq(Token)
    BY <1>1, ElementIn
  <2>2. bodies[b][i] \in ToSet(whole)
    BY <1>2, <2>1, SeqMembers
  <2>3. PICK j \in 1..Len(whole) : bodies[b][i] = whole[j]
    BY <1>2, <2>2, SeqMembers DEF Body
  <2>4. bodies[b][i].param \in ToSet(ps)
    BY <1>4, <1>9, <2>3
  <2>5. PICK k \in 1..Len(ps) : bodies[b][i].param = ps[k]
    BY <1>4, <2>4, SeqMembers
  <2> QED
    BY <1>8, <2>5
<1> QED
  BY <1>5, <1>7, <1>8, <1>9

LEMMA AppearanceFields ==
  ASSUME NEW it, NEW p
  PROVE  /\ Appearance(it, p).param = p
         /\ it.kind = "guarded" => Appearance(it, p).guards = ToSet(it.guards)
         /\ it.kind # "guarded" => Appearance(it, p).guards = {}
         /\ Appearance(it, p).inTree <=> it.kind = "tree"
BY DEF Appearance

LEMMA AtomsMembers ==
  ASSUME NEW t \in Seq(Item)
  PROVE  /\ GuardAtoms(t) \in Seq(AtomType)
         /\ \A i \in 1..Len(t) : t[i].kind = "guarded" =>
               \A g \in ToSet(t[i].guards) : Contains(GuardAtoms(t), g)
<1> DEFINE S == [i \in 1..Len(t) |-> IF t[i].kind = "guarded" THEN t[i].guards ELSE <<>>]
<1>1. ASSUME NEW i \in 1..Len(t) PROVE S[i] \in Seq(AtomType)
  <2>1. t[i] \in Item
    BY ElementIn
  <2>2. t[i].kind = "guarded" => t[i].guards \in Seq(AtomType)
    BY <2>1 DEF Item, SkeletonItem, GuardedItem, ChooseItem, OrderItem, InItem, TreeItem, AtomType
  <2> QED
    BY <2>2
<1>2. GuardAtoms(t) = Distinct(FlattenSeq(S))
  <2>1. DOMAIN t = 1..Len(t)
    OBVIOUS
  <2> QED
    BY <2>1, Zenon DEF GuardAtoms
<1>3. \A i \in 1..Len(t) : t[i].kind = "guarded" => S[i] = t[i].guards
  OBVIOUS
<1>4. S \in Seq(Seq(AtomType)) /\ Len(S) = Len(t)
  <2>1. S = [i \in 1..Len(t) |-> S[i]] /\ Len(t) \in Nat
    OBVIOUS
  <2> HIDE DEF S
  <2> QED
    BY <1>1, <2>1
<1> HIDE DEF S
<1>5. /\ FlattenSeq(S) \in Seq(AtomType)
      /\ \A g : g \in ToSet(FlattenSeq(S)) <=> \E i \in 1..Len(t) : g \in ToSet(S[i])
  BY <1>4, FlattenMembers
<1>6. /\ GuardAtoms(t) \in Seq(AtomType)
      /\ \A g : g \in ToSet(GuardAtoms(t)) <=> \E i \in 1..Len(t) : g \in ToSet(S[i])
  BY <1>2, <1>5, DistinctMembers
<1>7. ASSUME NEW i \in 1..Len(t), t[i].kind = "guarded", NEW g \in ToSet(t[i].guards)
      PROVE  Contains(GuardAtoms(t), g)
  <2>1. g \in ToSet(GuardAtoms(t))
    BY <1>3, <1>6, <1>7
  <2> QED
    BY <1>6, <2>1, InSet
<1> QED
  BY <1>6, <1>7

LEMMA OccurrenceMembers ==
  ASSUME NEW t \in Seq(Item)
  PROVE  /\ Occurrences(t) \in Seq(Appearances)
         /\ \A o : o \in ToSet(Occurrences(t)) <=> \E i \in 1..Len(t) : o \in ToSet(ItemOccurrences(t[i]))
<1> DEFINE S == [i \in 1..Len(t) |-> ItemOccurrences(t[i])]
<1>1. ASSUME NEW i \in 1..Len(t) PROVE S[i] \in Seq(Appearances)
  BY ElementIn, ItemAppearances
<1>2. Occurrences(t) = FlattenSeq(S)
  <2>1. DOMAIN t = 1..Len(t)
    OBVIOUS
  <2> QED
    BY <2>1, Zenon DEF Occurrences
<1>3. \A i \in 1..Len(t) : S[i] = ItemOccurrences(t[i])
  OBVIOUS
<1>4. S \in Seq(Seq(Appearances)) /\ Len(S) = Len(t)
  <2>1. S = [i \in 1..Len(t) |-> S[i]] /\ Len(t) \in Nat
    OBVIOUS
  <2> HIDE DEF S
  <2> QED
    BY <1>1, <2>1
<1> HIDE DEF S
<1> QED
  BY <1>2, <1>3, <1>4, FlattenMembers

LEMMA ParamOrderMembers ==
  ASSUME NEW t \in Seq(Item)
  PROVE  /\ ParamOrder(t) \in Seq(STRING)
         /\ \A i \in 1..Len(t) : \A o \in ToSet(ItemOccurrences(t[i])) : Contains(ParamOrder(t), o.param)
<1> DEFINE occ == Occurrences(t)
           atoms == GuardAtoms(t)
           u == [i \in DOMAIN occ |-> occ[i].param]
           v == [i \in DOMAIN atoms |-> atoms[i].param]
<1>1. ParamOrder(t) = Distinct(u \o v)
  BY DEF ParamOrder
<1>2. occ \in Seq(Appearances) /\ atoms \in Seq(AtomType)
  BY OccurrenceMembers, AtomsMembers
<1> HIDE DEF occ, atoms
<1>3. u \in Seq(STRING) /\ Len(u) = Len(occ) /\ \A i \in 1..Len(occ) : u[i] = occ[i].param
  <2>1. ASSUME NEW i \in 1..Len(occ) PROVE occ[i].param \in STRING
    <3>1. occ[i] \in Appearances
      BY <1>2, ElementIn
    <3>2. PICK it \in Item, p \in STRING : occ[i] = Appearance(it, p)
      BY <3>1 DEF Appearances
    <3> QED
      BY <3>2, AppearanceFields
  <2>2. DOMAIN occ = 1..Len(occ) /\ Len(occ) \in Nat
    BY <1>2
  <2> QED
    BY <2>1, <2>2
<1>4. v \in Seq(STRING)
  <2>1. ASSUME NEW i \in 1..Len(atoms) PROVE atoms[i].param \in STRING
    <3>1. atoms[i] \in AtomType
      BY <1>2, ElementIn
    <3> QED
      BY <3>1 DEF AtomType
  <2>2. DOMAIN atoms = 1..Len(atoms) /\ Len(atoms) \in Nat
    BY <1>2
  <2> QED
    BY <2>1, <2>2
<1> HIDE DEF u, v
<1>5. u \o v \in Seq(STRING) /\ ToSet(u \o v) = ToSet(u) \cup ToSet(v)
  BY <1>3, <1>4, ConcatSeq, ConcatMembers
<1>6. ParamOrder(t) \in Seq(STRING) /\ \A x : x \in ToSet(ParamOrder(t)) <=> x \in ToSet(u \o v)
  BY <1>1, <1>5, DistinctMembers
<1>7. ASSUME NEW i \in 1..Len(t), NEW o \in ToSet(ItemOccurrences(t[i]))
      PROVE  Contains(ParamOrder(t), o.param)
  <2>1. o \in ToSet(occ)
    BY OccurrenceMembers DEF occ
  <2>2. PICK k \in 1..Len(occ) : o = occ[k]
    BY <1>2, <2>1, SeqMembers
  <2>3. o.param \in ToSet(u)
    BY <1>3, <2>2, SeqMembers
  <2>4. o.param \in ToSet(ParamOrder(t))
    BY <1>5, <1>6, <2>3
  <2> QED
    BY <1>6, <2>4, InSet
<1> QED
  BY <1>6, <1>7

\* Every body of an item names fields of the params struct.
LEMMA BodiesNamed ==
  ASSUME NEW t \in Seq(Item), NEW i \in 1..Len(t), NEW b \in 1..Len(Bodies(t[i]))
  PROVE  Bodies(t[i])[b] \in Seq(Named(ParamOrder(t)))
<1> DEFINE body == Bodies(t[i])[b]
<1>1. t[i] \in Item
  BY ElementIn
<1>2. body \in Body
  BY <1>1, ItemBodies, ElementIn
<1>3. ASSUME NEW k \in 1..Len(body) PROVE body[k] \in Named(ParamOrder(t))
  <2>1. body[k] \in Piece
    BY <1>2, ElementIn, TokenPieces DEF Body
  <2>2. ASSUME IsParam(body[k]) PROVE Contains(ParamOrder(t), body[k].param)
    <3>1. Appearance(t[i], body[k].param) \in ToSet(ItemOccurrences(t[i]))
      BY <1>1, <2>2, ItemAppearances
    <3> QED
      BY <3>1, ParamOrderMembers, AppearanceFields
  <2> QED
    BY <2>1, <2>2 DEF Named
<1>4. Len(body) \in Nat /\ body = [k \in 1..Len(body) |-> body[k]]
  BY <1>2 DEF Body
<1> HIDE DEF body
<1>5. body \in Seq(Named(ParamOrder(t)))
  BY <1>3, <1>4
<1> QED
  BY <1>5 DEF body

-----------------------------------------------------------------------------
(* The items of a kind, in order.                                          *)

\* What OfKind concatenates.
Picked(t, kind) == [j \in 1..Len(t) |-> IF t[j].kind = kind THEN <<t[j]>> ELSE <<>>]

LEMMA PickedSeq ==
  ASSUME NEW X, NEW t \in Seq(X), NEW kind
  PROVE  /\ Picked(t, kind) \in Seq(Seq(X)) /\ Len(Picked(t, kind)) = Len(t)
         /\ OfKind(t, kind) = FlattenSeq(Picked(t, kind))
<1>1. Len(t) \in Nat /\ DOMAIN t = 1..Len(t)
  OBVIOUS
<1>2. ASSUME NEW j \in 1..Len(t) PROVE Picked(t, kind)[j] \in Seq(X)
  <2>1. <<t[j]>> \in Seq(X)
    BY ElementIn, OneSeq
  <2> QED
    BY <2>1 DEF Picked
<1>3. Picked(t, kind) = [j \in 1..Len(t) |-> Picked(t, kind)[j]]
  BY DEF Picked
<1>4. Picked(t, kind) \in Seq(Seq(X)) /\ Len(Picked(t, kind)) = Len(t)
  BY <1>1, <1>2, <1>3
<1>5. OfKind(t, kind) = FlattenSeq(Picked(t, kind))
  BY <1>1, Zenon DEF OfKind, Picked
<1> QED
  BY <1>4, <1>5

LEMMA Prefix ==
  ASSUME NEW X, NEW t \in Seq(X), NEW i \in 1..Len(t)
  PROVE  /\ SubSeq(t, 1, i) \in Seq(X) /\ Len(SubSeq(t, 1, i)) = i
         /\ \A j \in 1..i : SubSeq(t, 1, i)[j] = t[j]
OBVIOUS

LEMMA PrefixPicked ==
  ASSUME NEW X, NEW t \in Seq(X), NEW i \in 1..Len(t), NEW kind
  PROVE  Picked(SubSeq(t, 1, i), kind) = [j \in 1..i |-> Picked(t, kind)[j]]
<1>1. PICK u : u = SubSeq(t, 1, i)
  OBVIOUS
<1>2. Len(u) = i /\ \A j \in 1..i : u[j] = t[j]
  BY <1>1, Prefix
<1>3. \A j \in 1..i : j \in 1..Len(t)
  OBVIOUS
<1> QED
  BY <1>1, <1>2, <1>3 DEF Picked

LEMMA NthOfKind ==
  ASSUME NEW X, NEW t \in Seq(X), NEW i \in 1..Len(t)
  PROVE  /\ Nth(t, i) \in 1..Len(OfKind(t, t[i].kind))
         /\ OfKind(t, t[i].kind)[Nth(t, i)] = t[i]
         /\ OfKind(t, t[i].kind) \in Seq(X)
<1> DEFINE k == t[i].kind
           S == Picked(t, k)
<1>1. S \in Seq(Seq(X)) /\ Len(S) = Len(t) /\ OfKind(t, k) = FlattenSeq(S)
  BY PickedSeq
<1>2. S[i] = <<t[i]>> /\ Len(S[i]) = 1
  BY DEF Picked
<1>3. Nth(t, i) = Len(FlattenSeq([j \in 1..i |-> S[j]]))
  <2>1. SubSeq(t, 1, i) \in Seq(X)
    BY Prefix
  <2>2. OfKind(SubSeq(t, 1, i), k) = FlattenSeq(Picked(SubSeq(t, 1, i), k))
    BY <2>1, PickedSeq
  <2> QED
    BY <2>2, PrefixPicked DEF Nth
<1> HIDE DEF S
<1>4. StandsAt(FlattenSeq(S), Nth(t, i), t[i])
  BY <1>1, <1>2, <1>3, FlattenOne
<1>5. FlattenSeq(S) \in Seq(X)
  BY <1>1, FlattenMembers
<1> QED
  BY <1>1, <1>4, <1>5 DEF StandsAt

LEMMA NthSame ==
  ASSUME NEW X, NEW t \in Seq(X), NEW Y, NEW r \in Seq(Y), Len(t) = Len(r), NEW i \in 1..Len(t),
         \A j \in 1..Len(t) : t[j].kind = t[i].kind <=> r[j].kind = r[i].kind
  PROVE  Nth(t, i) = Nth(r, i)
<1> DEFINE S == Picked(SubSeq(t, 1, i), t[i].kind)
           R == Picked(SubSeq(r, 1, i), r[i].kind)
<1>1. SubSeq(t, 1, i) \in Seq(X) /\ SubSeq(r, 1, i) \in Seq(Y)
      /\ Len(SubSeq(t, 1, i)) = i /\ Len(SubSeq(r, 1, i)) = i
  BY Prefix
<1>2. S \in Seq(Seq(X)) /\ Len(S) = i /\ R \in Seq(Seq(Y)) /\ Len(R) = i
  BY <1>1, PickedSeq
<1>3. ASSUME NEW j \in 1..i PROVE Len(S[j]) = Len(R[j])
  <2>1. SubSeq(t, 1, i)[j] = t[j] /\ SubSeq(r, 1, i)[j] = r[j] /\ j \in 1..Len(t)
    BY Prefix
  <2>2. PICK u : u = SubSeq(t, 1, i)
    OBVIOUS
  <2>3. PICK v : v = SubSeq(r, 1, i)
    OBVIOUS
  <2>4. S[j] = (IF t[j].kind = t[i].kind THEN <<t[j]>> ELSE <<>>)
    BY <1>1, <2>1, <2>2 DEF Picked
  <2>5. R[j] = (IF r[j].kind = r[i].kind THEN <<r[j]>> ELSE <<>>)
    BY <1>1, <2>1, <2>3 DEF Picked
  <2> QED
    BY <2>1, <2>4, <2>5
<1>4. Nth(t, i) = Len(FlattenSeq(S)) /\ Nth(r, i) = Len(FlattenSeq(R))
  BY <1>1, PickedSeq DEF Nth
<1> HIDE DEF S, R
<1>5. Len(FlattenSeq(S)) = Len(FlattenSeq(R))
  BY <1>2, <1>3, FlattenLens
<1> QED
  BY <1>4, <1>5

-----------------------------------------------------------------------------
(* The fragment of an item writes the pieces of the item.                  *)

\* w writes the pieces u.
Writing(names, u, w) == Image(Placed(names), Named(names), u, w)

LEMMA WritingWords ==
  ASSUME NEW names, NEW v \in Word, NEW w \in Word
  PROVE  Writing(names, <<w>>, <<w>>) /\ Writing(names, <<v, w>>, <<v, w>>)
<1>1. v \in Named(names) /\ w \in Named(names) /\ Placed(names)[v] = v /\ Placed(names)[w] = w
  BY NamedWord
<1>2. Image(Placed(names), Named(names), <<w>>, <<w>>)
  BY <1>1, ImageOne
<1>3. <<v, w>> \in Seq(Named(names)) /\ Len(<<v, w>>) = 2
  BY <1>1
<1>4. Mapped(Placed(names), <<v, w>>) = <<v, w>>
  <2>1. Mapped(Placed(names), <<v, w>>) = [i \in 1..2 |-> Placed(names)[<<v, w>>[i]]]
    BY <1>3 DEF Mapped
  <2>2. ASSUME NEW i \in 1..2 PROVE Placed(names)[<<v, w>>[i]] = <<v, w>>[i]
    BY <1>1
  <2> QED
    BY <2>1, <2>2
<1> QED
  BY <1>2, <1>3, <1>4 DEF Image, Writing

LEMMA WritingConcat ==
  ASSUME NEW names, Len(names) \in Nat, NEW u, NEW v, Writing(names, u, v),
         NEW a, NEW b, Writing(names, a, b)
  PROVE  Writing(names, u \o a, v \o b)
<1>1. Maps(Placed(names), Named(names), Cell)
  BY PlacedMaps
<1> QED
  BY <1>1, ImageConcat DEF Writing

LEMMA WritingBody ==
  ASSUME NEW names, Len(names) \in Nat, NEW body \in Seq(Named(names))
  PROVE  Writing(names, body, Emit(Spans(body, names)))
BY EmitSpans DEF Writing

LEMMA WritingJoined ==
  ASSUME NEW names, Len(names) \in Nat, NEW n \in Nat, NEW s, NEW t,
         s = [i \in 1..n |-> s[i]], t = [i \in 1..n |-> t[i]],
         \A i \in 1..n : Writing(names, s[i], t[i])
  PROVE  Writing(names, Joined(s, ", "), Joined(t, ", "))
<1>1. Maps(Placed(names), Named(names), Cell)
  BY PlacedMaps
<1>2. Text(", ") \in Named(names) /\ Placed(names)[Text(", ")] = Text(", ")
  BY LitWords, NamedWord
<1> QED
  BY <1>1, <1>2, ImageJoined DEF Writing

LEMMA NamedPieces ==
  ASSUME NEW names, NEW u \in Seq(Named(names))
  PROVE  u \in Seq(Piece)
<1>1. \A i \in 1..Len(u) : u[i] \in Piece
  BY ElementIn DEF Named
<1> QED
  BY <1>1

\* What is written so means the pieces with their own values.
LEMMA WritingMeans ==
  ASSUME NEW names \in Seq(STRING), Len(names) <= MaxIndex + 1, NEW args,
         NEW u, NEW w, Writing(names, u, w)
  PROVE  Image(Value(names, args), Cell, w, Whole(u))
<1>1. Image(Value(names, args), Cell, w, Mapped(Own, u))
  BY ImageOfPlaced DEF Writing
<1>2. u \in Seq(Piece)
  BY NamedPieces DEF Writing, Image
<1> QED
  BY <1>1, <1>2, WholeIsOwn

LEMMA WritingGuarded ==
  ASSUME NEW names, Len(names) \in Nat, NEW it, it.sep \in {"and", "comma", "none"},
         it.body \in Seq(Named(names)), NEW f, f.sep = it.sep, f.body = Spans(it.body, names)
  PROVE  Writing(names, GuardedPieces(it), EmitGuarded(f))
<1>1. Writing(names, it.body, Emit(f.body))
  BY WritingBody
<1>2. CASE it.sep = "and"
  <2> DEFINE a == <<Text("\n"), Text("AND (")>>
             z == <<Text(")")>>
  <2>1. Writing(names, a, a) /\ Writing(names, z, z)
    BY LitWords, WritingWords
  <2> HIDE DEF a, z
  <2>2. Writing(names, a \o it.body, a \o Emit(f.body))
    BY <1>1, <2>1, WritingConcat
  <2>3. Writing(names, a \o it.body \o z, a \o Emit(f.body) \o z)
    BY <2>1, <2>2, WritingConcat
  <2>4. GuardedPieces(it) = a \o it.body \o z /\ EmitGuarded(f) = a \o Emit(f.body) \o z
    BY <1>2 DEF GuardedPieces, EmitGuarded, a, z
  <2> QED
    BY <2>3, <2>4
<1>3. CASE it.sep = "comma"
  <2> DEFINE a == <<Text("\n"), Text(", ")>>
  <2>1. Writing(names, a, a)
    BY LitWords, WritingWords
  <2> HIDE DEF a
  <2>2. Writing(names, a \o it.body, a \o Emit(f.body))
    BY <1>1, <2>1, WritingConcat
  <2>3. GuardedPieces(it) = a \o it.body /\ EmitGuarded(f) = a \o Emit(f.body)
    BY <1>3 DEF GuardedPieces, EmitGuarded, a
  <2> QED
    BY <2>2, <2>3
<1>4. CASE it.sep = "none"
  <2> DEFINE a == <<Text("\n")>>
  <2>1. Writing(names, a, a)
    BY LitWords, WritingWords
  <2> HIDE DEF a
  <2>2. Writing(names, a \o it.body, a \o Emit(f.body))
    BY <1>1, <2>1, WritingConcat
  <2>3. GuardedPieces(it) = a \o it.body /\ EmitGuarded(f) = a \o Emit(f.body)
    BY <1>4 DEF GuardedPieces, EmitGuarded, a
  <2> QED
    BY <2>2, <2>3
<1> QED
  BY <1>2, <1>3, <1>4

LEMMA TwoFirst ==
  ASSUME NEW X, NEW y \in Seq(X), NEW a \in X, NEW b \in X
  PROVE  <<a>> \o (<<b>> \o y) = <<a, b>> \o y
<1>1. PICK u \in Seq(X) : u = <<a>> /\ Len(u) = 1 /\ u[1] = a
  BY OneSeq, OneElement
<1>2. PICK v \in Seq(X) : v = <<b>> /\ Len(v) = 1 /\ v[1] = b
  BY OneSeq, OneElement
<1>3. u \o v = <<a, b>>
  <2>1. u \o v \in Seq(X) /\ Len(u \o v) = 2
    BY <1>1, <1>2, ConcatSeq
  <2>2. (u \o v)[1] = a
    BY <1>1, ConcatLeft
  <2>3. (u \o v)[2] = b
    <3>1. 2 = Len(u) + 1 /\ 1 \in 1..Len(v)
      BY <1>1, <1>2
    <3> QED
      BY <1>2, <3>1, ConcatRight
  <2>4. PICK w \in Seq(X) : w = u \o v
    BY <2>1
  <2>5. Len(w) = 2 /\ w[1] = a /\ w[2] = b
    BY <2>1, <2>2, <2>3, <2>4
  <2>6. w = <<a, b>>
    BY <2>5
  <2> QED
    BY <2>4, <2>6
<1>4. (u \o v) \o y = u \o (v \o y)
  BY ConcatAssociative
<1> QED
  BY <1>1, <1>2, <1>3, <1>4

LEMMA OneLong ==
  ASSUME NEW X, NEW s \in Seq(X), s # <<>>, Len(s) <= 1
  PROVE  Len(s) = 1 /\ 1 \in 1..Len(s) /\ DOMAIN s = 1..Len(s)
<1>1. Len(s) \in Nat /\ DOMAIN s = 1..Len(s)
  OBVIOUS
<1>2. Len(s) # 0
  OBVIOUS
<1> QED
  BY <1>1, <1>2

LEMMA WritingOrder ==
  ASSUME NEW names, Len(names) \in Nat, NEW it,
         it.keys \in Seq(Seq(Named(names))), it.default \in Seq(Seq(Named(names))), Len(it.default) <= 1,
         NEW f, f.cases = [i \in DOMAIN it.keys |-> Spans(it.keys[i], names)],
         f.default = [i \in DOMAIN it.default |-> Spans(it.default[i], names)],
         NEW seq \in Seq(Nat), \A i \in 1..Len(seq) : seq[i] \div 2 < Len(it.keys)
  PROVE  Writing(names, OrderPieces(it, seq), EmitOrder(f, seq))
<1> DEFINE nl == <<Text("\n")>>
           ob == <<Text("ORDER BY ")>>
           Key(e) == it.keys[(e \div 2) + 1] \o (IF e % 2 = 1 THEN <<Text(" DESC")>> ELSE <<>>)
           Elem(e) == Emit(f.cases[(e \div 2) + 1]) \o (IF e % 2 = 1 THEN <<Text(" DESC")>> ELSE <<>>)
<1>1. Writing(names, nl, nl) /\ Writing(names, ob, ob)
  BY LitWords, WritingWords
<1>2. CASE seq = <<>>
  <2>1. OrderPieces(it, seq) = nl \o FlattenSeq(it.default)
    BY <1>2 DEF OrderPieces, Maximal
  <2>2. EmitOrder(f, seq) = nl \o (IF f.default = <<>> THEN <<>> ELSE Emit(f.default[1]))
    BY <1>2 DEF EmitOrder, Maximal
  <2>3. FlattenSeq(it.default) = IF it.default = <<>> THEN <<>> ELSE it.default[1]
    BY FlattenShort
  <2>4. Writing(names, FlattenSeq(it.default), IF f.default = <<>> THEN <<>> ELSE Emit(f.default[1]))
    <3>1. CASE it.default = <<>>
      <4>1. f.default = <<>>
        BY <3>1
      <4> QED
        BY <2>3, <3>1, <4>1, ImageEmpty DEF Writing
    <3>2. CASE it.default # <<>>
      <4>1. Len(it.default) = 1 /\ 1 \in 1..Len(it.default) /\ DOMAIN it.default = 1..Len(it.default)
        BY <3>2, OneLong
      <4>2. it.default[1] \in Seq(Named(names))
        BY <4>1, ElementIn
      <4>3. f.default # <<>> /\ f.default[1] = Spans(it.default[1], names)
        BY <4>1
      <4> QED
        BY <2>3, <3>2, <4>2, <4>3, WritingBody
    <3> QED
      BY <3>1, <3>2
  <2> HIDE DEF nl, ob
  <2> QED
    BY <1>1, <2>1, <2>2, <2>4, WritingConcat
<1>3. CASE seq # <<>>
  <2> DEFINE S == [i \in 1..Len(seq) |-> Key(seq[i])]
             T == [i \in 1..Len(seq) |-> Elem(seq[i])]
  <2>0. Len(seq) \in Nat /\ DOMAIN seq = 1..Len(seq) /\ seq # Maximal
    <3>1. seq # Maximal
      <4> SUFFICES ASSUME seq = <<-1>> PROVE FALSE
        BY DEF Maximal
      <4>1. seq[1] = -1 /\ 1 \in 1..Len(seq)
        OBVIOUS
      <4> QED
        BY <4>1, ElementIn
    <3> QED
      BY <3>1
  <2>1. OrderPieces(it, seq) = nl \o (ob \o Joined(S, ", "))
    BY <1>3, <2>0 DEF OrderPieces
  <2>2. EmitOrder(f, seq) = <<Text("\n"), Text("ORDER BY ")>> \o Joined(T, ", ")
    BY <1>3, <2>0 DEF EmitOrder
  <2>3. ASSUME NEW i \in 1..Len(seq) PROVE Writing(names, S[i], T[i])
    <3> DEFINE n == (seq[i] \div 2) + 1
               d == IF seq[i] % 2 = 1 THEN <<Text(" DESC")>> ELSE <<>>
    <3>1. n \in 1..Len(it.keys) /\ DOMAIN it.keys = 1..Len(it.keys)
      <4>1. seq[i] \in Nat /\ seq[i] \div 2 < Len(it.keys) /\ Len(it.keys) \in Nat
        BY ElementIn
      <4>2. seq[i] \div 2 \in Nat
        BY <4>1
      <4> QED
        BY <4>1, <4>2
    <3>2. it.keys[n] \in Seq(Named(names))
      BY <3>1, ElementIn
    <3>3. f.cases[n] = Spans(it.keys[n], names)
      BY <3>1
    <3>4. Writing(names, d, d)
      BY LitWords, WritingWords, ImageEmpty DEF Writing
    <3>5. S[i] = it.keys[n] \o d /\ T[i] = Emit(f.cases[n]) \o d
      OBVIOUS
    <3> HIDE DEF n, d, S, T
    <3>6. Writing(names, it.keys[n], Emit(f.cases[n]))
      BY <3>2, <3>3, WritingBody
    <3>7. Writing(names, it.keys[n] \o d, Emit(f.cases[n]) \o d)
      BY <3>4, <3>6, WritingConcat
    <3> QED
      BY <3>5, <3>7
  <2>4. S = [i \in 1..Len(seq) |-> S[i]] /\ T = [i \in 1..Len(seq) |-> T[i]]
    OBVIOUS
  <2> HIDE DEF S, T
  <2>5. Writing(names, Joined(S, ", "), Joined(T, ", "))
    BY <2>0, <2>3, <2>4, WritingJoined
  <2>6. Joined(T, ", ") \in Seq(Cell)
    BY <2>5, PlacedMaps, ImageTyped DEF Writing
  <2>7. nl \o (ob \o Joined(T, ", ")) = <<Text("\n"), Text("ORDER BY ")>> \o Joined(T, ", ")
    <3>1. Text("\n") \in Cell /\ Text("ORDER BY ") \in Cell
      BY LitWords DEF Cell
    <3> QED
      BY <2>6, <3>1, TwoFirst
  <2> HIDE DEF nl, ob
  <2>8. Writing(names, ob \o Joined(S, ", "), ob \o Joined(T, ", "))
    BY <1>1, <2>5, WritingConcat
  <2>9. Writing(names, nl \o (ob \o Joined(S, ", ")), nl \o (ob \o Joined(T, ", ")))
    BY <1>1, <2>8, WritingConcat
  <2> QED
    BY <2>1, <2>2, <2>7, <2>9
<1> QED
  BY <1>2, <1>3

-----------------------------------------------------------------------------
(* A call, its key and the fragment table.                                 *)

\* A call that reaches the composer.
InCall(s, t, c) == t \in Templates /\ s \in Styles /\ c \in Calls(t) /\ ~CallRefused(t, c)

\* What the fragment of item i writes means what the call asks of it.
FragmentMeans(s, t, c, i) ==
    Image(Value(ParamOrder(t), TreeArgs(c.tree)), Cell,
          EmitFrag(BuildFrags(s, t), i, ShapeKey(s, t, c), c.tree), ItemText(s, t, i, c))

\* The writes of pieces.
PlacedCells(names) == {Placed(names)[x] : x \in Named(names)}
\* ... and, outside lists and trees, each of its binds is the one of its name.
FragmentPlaces(s, t, c, i) ==
    EmitFrag(BuildFrags(s, t), i, ShapeKey(s, t, c), c.tree) \in Seq(PlacedCells(ParamOrder(t)))

LEMMA TemplateFacts ==
  ASSUME NEW t \in Templates
  PROVE  /\ t \in Seq(Item) /\ Len(t) \in Nat /\ DOMAIN t = 1..Len(t)
         /\ \A i \in 1..Len(t) : t[i] \in Item /\ IsItem(t[i])
         /\ ParamOrder(t) \in Seq(STRING) /\ Len(ParamOrder(t)) \in Nat
         /\ Len(ParamOrder(t)) <= MaxIndex + 1 /\ ~Contains(ParamOrder(t), "leaf")
<1>1. /\ t \in Seq(Item) /\ \A i \in DOMAIN t : IsItem(t[i])
      /\ Len(ParamOrder(t)) <= MaxIndex + 1 /\ ~Contains(ParamOrder(t), "leaf")
  BY ComposerAssumption
<1>2. Len(t) \in Nat /\ DOMAIN t = 1..Len(t)
  BY <1>1
<1>3. ParamOrder(t) \in Seq(STRING)
  BY <1>1, ParamOrderMembers
<1>4. Len(ParamOrder(t)) \in Nat
  BY <1>3
<1> QED
  BY <1>1, <1>2, <1>3, <1>4 DEF IsItem

LEMMA CallFields ==
  ASSUME NEW t, NEW c \in Calls(t)
  PROVE  /\ \A p \in c.absent : p \in ToSet(ParamOrder(t)) /\ Optional(t, p)
         /\ c.enums \in Tuples([i \in DOMAIN OfKind(t, "choose") |->
                                   0..(Len(OfKind(t, "choose")[i].cases) + 1)])
         /\ c.orders \in Tuples([i \in DOMAIN OfKind(t, "orderby") |->
                                    BoundedSeq(0..(2 * Len(OfKind(t, "orderby")[i].keys)), MaxSorts)])
         /\ c.lens \in [ListParams(t) -> Lens]
         /\ c.tree \in (IF Blocks(t, "tree") = 0 THEN {NoTree} ELSE Trees)
BY DEF Calls

LEMMA TupleAt ==
  ASSUME NEW sets, NEW t \in Tuples(sets)
  PROVE  DOMAIN t = DOMAIN sets /\ \A i \in DOMAIN sets : t[i] \in sets[i]
BY DEF Tuples

LEMMA SortKeySeq ==
  ASSUME NEW n \in Nat, NEW seq \in BoundedSeq(0..(2 * n), MaxSorts)
  PROVE  seq \in Seq(Nat)
<1>1. BoundedSeq(0..(2 * n), MaxSorts) = UNION {[1..m -> 0..(2 * n)] : m \in 0..MaxSorts}
  BY Zenon DEF BoundedSeq, SeqOf
<1>2. PICK m \in 0..MaxSorts : seq \in [1..m -> 0..(2 * n)]
  BY <1>1
<1>3. m \in Nat
  BY <1>2, ComposerAssumption
<1>4. \A i \in 1..m : seq[i] \in Nat
  BY <1>2
<1>5. seq = [i \in 1..m |-> seq[i]]
  BY <1>2
<1> QED
  BY <1>3, <1>4, <1>5

LEMMA KeyFields ==
  ASSUME NEW s, NEW t, NEW c
  PROVE  LET k == ShapeKey(s, t, c)
             atoms == GuardAtoms(t)
             chooses == OfKind(t, "choose")
             ins == OfKind(t, "in")
         IN  /\ k.guards = {b - 1 : b \in {i \in DOMAIN atoms : Holds(atoms[i], c)}}
             /\ k.choices = [i \in DOMAIN chooses |-> ChooseOrdinal(chooses[i], c.enums[i])]
             /\ k.orders = c.orders
             /\ s = "question" => k.arities = [i \in DOMAIN ins |-> c.lens[ins[i].param]]
BY DEF ShapeKey

\* A fragment is on under the key's guard bits when all its conditions hold.
LEMMA GuardBits ==
  ASSUME NEW s, NEW t \in Seq(Item), NEW c, NEW i \in 1..Len(t), t[i].kind = "guarded"
  PROVE  ({IndexIn(GuardAtoms(t), g) - 1 : g \in ToSet(t[i].guards)} \subseteq ShapeKey(s, t, c).guards)
         <=> \A a \in ToSet(t[i].guards) : Holds(a, c)
<1> DEFINE atoms == GuardAtoms(t)
           on == {b \in DOMAIN atoms : Holds(atoms[b], c)}
<1>1. ShapeKey(s, t, c).guards = {b - 1 : b \in on}
  BY DEF ShapeKey
<1>2. atoms \in Seq(AtomType) /\ DOMAIN atoms = 1..Len(atoms) /\ Len(atoms) \in Nat
  <2>1. atoms \in Seq(AtomType)
    BY AtomsMembers
  <2> QED
    BY <2>1
<1>3. ASSUME NEW g \in ToSet(t[i].guards)
      PROVE  IndexIn(atoms, g) - 1 \in {b - 1 : b \in on} <=> Holds(g, c)
  <2>1. Contains(atoms, g)
    BY AtomsMembers
  <2>2. PICK n : n = IndexIn(atoms, g)
    OBVIOUS
  <2>3. n \in DOMAIN atoms /\ atoms[n] = g /\ n \in Int
    BY <1>2, <2>1, <2>2, IndexAt
  <2>4. n \in on <=> Holds(g, c)
    BY <2>3
  <2>5. on \subseteq Int
    BY <1>2
  <2> HIDE DEF on
  <2>6. n - 1 \in {b - 1 : b \in on} <=> n \in on
    BY <2>3, <2>5
  <2> QED
    BY <2>2, <2>4, <2>6
<1> HIDE DEF on, atoms
<1>4. ({IndexIn(atoms, g) - 1 : g \in ToSet(t[i].guards)} \subseteq {b - 1 : b \in on})
      <=> \A a \in ToSet(t[i].guards) : Holds(a, c)
  BY <1>3
<1> QED
  BY <1>1, <1>4 DEF atoms

-----------------------------------------------------------------------------
(* The fragment table.                                                     *)

LEMMA FragmentAt ==
  ASSUME NEW s, NEW t, NEW i \in DOMAIN t
  PROVE  /\ BuildFrags(s, t)[i] = BuildFrag(s, ParamOrder(t), GuardAtoms(t), t[i])
         /\ DOMAIN BuildFrags(s, t) = DOMAIN t
BY DEF BuildFrags

\* The kind of a fragment.
FragKind(s, kind) == IF kind = "in" THEN (IF s = "question" THEN "inlist" ELSE "inany") ELSE kind
Kinds == {"skeleton", "guarded", "choose", "orderby", "in", "tree"}

LEMMA ItemKinds ==
  ASSUME NEW it \in Item
  PROVE  /\ it.kind \in Kinds
         /\ it.kind = "skeleton" => it \in SkeletonItem
         /\ it.kind = "guarded" => it \in GuardedItem
         /\ it.kind = "choose" => it \in ChooseItem
         /\ it.kind = "orderby" => it \in OrderItem
         /\ it.kind = "in" => it \in InItem
         /\ it.kind = "tree" => it \in TreeItem
BY DEF Item, SkeletonItem, GuardedItem, ChooseItem, OrderItem, InItem, TreeItem, Kinds

LEMMA FragmentKind ==
  ASSUME NEW s, NEW names, NEW atoms, NEW it, it.kind \in Kinds
  PROVE  BuildFrag(s, names, atoms, it).kind = FragKind(s, it.kind)
<1>1. CASE it.kind = "skeleton"
  BY <1>1 DEF BuildFrag, FragKind
<1>2. CASE it.kind = "guarded"
  BY <1>2 DEF BuildFrag, FragKind
<1>3. CASE it.kind = "choose"
  BY <1>3 DEF BuildFrag, FragKind
<1>4. CASE it.kind = "orderby"
  BY <1>4 DEF BuildFrag, FragKind
<1>5. CASE it.kind = "in"
  BY <1>5 DEF BuildFrag, FragKind
<1>6. CASE it.kind = "tree"
  BY <1>6 DEF BuildFrag, FragKind
<1> QED
  BY <1>1, <1>2, <1>3, <1>4, <1>5, <1>6 DEF Kinds

\* The spans of several bodies.
AllSpans(bodies, names) == [i \in DOMAIN bodies |-> Spans(bodies[i], names)]

\* f is the fragment generated for the item.
IsFragment(f, s, names, atoms, it) ==
    /\ f.kind = FragKind(s, it.kind)
    /\ it.kind = "skeleton" => f.body = Spans(it.body, names)
    /\ it.kind = "guarded" =>
          /\ f.sep = it.sep /\ f.body = Spans(it.body, names)
          /\ f.mask = {IndexIn(atoms, g) - 1 : g \in ToSet(it.guards)}
    /\ it.kind = "choose" =>
          f.cases = AllSpans([i \in DOMAIN it.cases |-> it.cases[i].body] \o it.default, names)
    /\ it.kind = "orderby" =>
          f.cases = AllSpans(it.keys, names) /\ f.default = AllSpans(it.default, names)
    /\ it.kind = "in" => f.idx = IndexIn(names, it.param) - 1
    /\ it.kind = "tree" =>
          f.cases = [i \in DOMAIN it.preds |-> Spans(it.preds[i], Distinct(ParamsOf(it.preds[i])))]

LEMMA BuiltFragment ==
  ASSUME NEW s, NEW names, NEW atoms, NEW it, it.kind \in Kinds
  PROVE  IsFragment(BuildFrag(s, names, atoms, it), s, names, atoms, it)
<1> USE DEF IsFragment
<1>0. BuildFrag(s, names, atoms, it).kind = FragKind(s, it.kind)
  BY FragmentKind
<1>1. CASE it.kind = "skeleton"
  BY <1>0, <1>1 DEF BuildFrag
<1>2. CASE it.kind = "guarded"
  BY <1>0, <1>2 DEF BuildFrag
<1>3. CASE it.kind = "choose"
  BY <1>0, <1>3 DEF BuildFrag, AllSpans
<1>4. CASE it.kind = "orderby"
  BY <1>0, <1>4 DEF BuildFrag, AllSpans
<1>5. CASE it.kind = "in"
  BY <1>0, <1>5 DEF BuildFrag
<1>6. CASE it.kind = "tree"
  BY <1>0, <1>6 DEF BuildFrag
<1> QED
  BY <1>1, <1>2, <1>3, <1>4, <1>5, <1>6 DEF Kinds

LEMMA Fragment ==
  ASSUME NEW s, NEW t \in Templates, NEW i \in 1..Len(t)
  PROVE  IsFragment(BuildFrags(s, t)[i], s, ParamOrder(t), GuardAtoms(t), t[i])
<1>1. t[i] \in Item /\ i \in DOMAIN t
  BY TemplateFacts
<1>2. t[i].kind \in Kinds
  BY <1>1, ItemKinds
<1>3. BuildFrags(s, t)[i] = BuildFrag(s, ParamOrder(t), GuardAtoms(t), t[i])
  BY <1>1, FragmentAt
<1> QED
  BY <1>2, <1>3, BuiltFragment

LEMMA FragmentNth ==
  ASSUME NEW s, NEW t \in Templates, NEW i \in 1..Len(t)
  PROVE  Nth(BuildFrags(s, t), i) = Nth(t, i)
<1> DEFINE F == BuildFrags(s, t)
           Y == {F[j] : j \in 1..Len(t)}
<1>1. /\ t \in Seq(Item) /\ Len(t) \in Nat /\ DOMAIN t = 1..Len(t)
      /\ \A j \in 1..Len(t) : t[j] \in Item
  BY TemplateFacts
<1>2. F \in Seq(Y) /\ Len(F) = Len(t)
  <2>1. F = [j \in 1..Len(t) |-> F[j]]
    BY <1>1 DEF BuildFrags
  <2> HIDE DEF F
  <2> QED
    BY <1>1, <2>1
<1>3. ASSUME NEW j \in 1..Len(t) PROVE F[j].kind = FragKind(s, t[j].kind) /\ t[j].kind \in Kinds
  BY <1>1, ItemKinds, FragmentAt, FragmentKind
<1>4. ASSUME NEW j \in 1..Len(t) PROVE t[j].kind = t[i].kind <=> F[j].kind = F[i].kind
  <2> HIDE DEF F
  <2>1. \A a, b \in Kinds : a = b <=> FragKind(s, a) = FragKind(s, b)
    BY DEF Kinds, FragKind
  <2> QED
    BY <1>3, <2>1
<1> HIDE DEF F, Y
<1>5. Nth(t, i) = Nth(F, i)
  BY <1>1, <1>2, <1>4, NthSame
<1> QED
  BY <1>5 DEF F

-----------------------------------------------------------------------------
(* Item by item, the fragment means what the call asks.                    *)

\* Pieces that are written mean what is asked when they are what is asked.
LEMMA WritingPlaces ==
  ASSUME NEW names, NEW u, NEW w, Writing(names, u, w)
  PROVE  w \in Seq(PlacedCells(names))
<1>1. Maps(Placed(names), Named(names), PlacedCells(names))
  BY DEF Maps, PlacedCells
<1> QED
  BY <1>1, ImageTyped DEF Writing

LEMMA WritingFragment ==
  ASSUME NEW s, NEW t \in Templates, NEW c, NEW i \in 1..Len(t), NEW u,
         Writing(ParamOrder(t), u, EmitFrag(BuildFrags(s, t), i, ShapeKey(s, t, c), c.tree)),
         ItemText(s, t, i, c) = Whole(u)
  PROVE  FragmentMeans(s, t, c, i) /\ FragmentPlaces(s, t, c, i)
<1>1. FragmentMeans(s, t, c, i)
  BY TemplateFacts, WritingMeans DEF FragmentMeans
<1>2. FragmentPlaces(s, t, c, i)
  BY WritingPlaces DEF FragmentPlaces
<1> QED
  BY <1>1, <1>2

LEMMA SkeletonMeans ==
  ASSUME NEW s, NEW t \in Templates, NEW c, NEW i \in 1..Len(t), t[i].kind = "skeleton"
  PROVE  FragmentMeans(s, t, c, i) /\ FragmentPlaces(s, t, c, i)
<1> DEFINE it == t[i]
           names == ParamOrder(t)
           F == BuildFrags(s, t)
           f == F[i]
<1>1. t \in Seq(Item) /\ it \in Item /\ Len(names) \in Nat /\ i \in DOMAIN t
  BY TemplateFacts
<1>2. it.body \in Seq(Named(names))
  <2>1. Bodies(it) = <<it.body>>
    BY DEF Bodies
  <2>2. 1 \in 1..Len(Bodies(it)) /\ Bodies(it)[1] = it.body
    BY <2>1
  <2> QED
    BY <1>1, <2>2, BodiesNamed
<1>3. f.kind = "skeleton" /\ f.body = Spans(it.body, names)
  <2>1. IsFragment(f, s, names, GuardAtoms(t), it)
    BY Fragment
  <2> HIDE DEF F, f, names
  <2> QED
    BY <2>1 DEF IsFragment, FragKind
<1>4. ItemText(s, t, i, c) = Whole(it.body)
  BY DEF ItemText
<1> HIDE DEF F
<1>5. EmitFrag(F, i, ShapeKey(s, t, c), c.tree) = Emit(f.body)
  BY <1>3 DEF EmitFrag
<1> HIDE DEF f, names
<1>6. Writing(names, it.body, Emit(f.body))
  BY <1>1, <1>2, <1>3, WritingBody
<1> QED
  BY <1>4, <1>5, <1>6, WritingFragment DEF names, F

LEMMA GuardedMeans ==
  ASSUME NEW s, NEW t \in Templates, NEW c, NEW i \in 1..Len(t), t[i].kind = "guarded"
  PROVE  FragmentMeans(s, t, c, i) /\ FragmentPlaces(s, t, c, i)
<1> DEFINE it == t[i]
           names == ParamOrder(t)
           F == BuildFrags(s, t)
           f == F[i]
           k == ShapeKey(s, t, c)
           on == \A a \in ToSet(it.guards) : Holds(a, c)
<1>1. t \in Seq(Item) /\ it \in Item /\ Len(names) \in Nat /\ i \in DOMAIN t
  BY TemplateFacts
<1>2. it.body \in Seq(Named(names))
  <2>1. Bodies(it) = <<it.body>>
    BY DEF Bodies
  <2>2. 1 \in 1..Len(Bodies(it)) /\ Bodies(it)[1] = it.body
    BY <2>1
  <2> QED
    BY <1>1, <2>2, BodiesNamed
<1>3. it.sep \in {"and", "comma", "none"}
  <2>1. it \in GuardedItem
    BY <1>1, ItemKinds
  <2> QED
    BY <2>1 DEF GuardedItem
<1>4. /\ f.kind = "guarded" /\ f.sep = it.sep /\ f.body = Spans(it.body, names)
      /\ f.mask = {IndexIn(GuardAtoms(t), g) - 1 : g \in ToSet(it.guards)}
  <2>1. IsFragment(f, s, names, GuardAtoms(t), it)
    BY Fragment
  <2> HIDE DEF F, f, names
  <2> QED
    BY <2>1 DEF IsFragment, FragKind
<1>5. (f.mask \subseteq k.guards) <=> on
  BY <1>1, <1>4, GuardBits
<1>6. ItemText(s, t, i, c) = (IF on THEN Whole(GuardedPieces(it)) ELSE <<>>)
  BY DEF ItemText
<1> HIDE DEF F, k
<1>7. EmitFrag(F, i, k, c.tree) = IF f.mask \subseteq k.guards THEN EmitGuarded(f) ELSE <<>>
  BY <1>4 DEF EmitFrag
<1> HIDE DEF f, names, on
<1>8. CASE on
  <2>1. Writing(names, GuardedPieces(it), EmitGuarded(f))
    BY <1>1, <1>2, <1>3, <1>4, WritingGuarded
  <2>2. EmitFrag(F, i, k, c.tree) = EmitGuarded(f) /\ ItemText(s, t, i, c) = Whole(GuardedPieces(it))
    BY <1>5, <1>6, <1>7, <1>8
  <2> QED
    BY <2>1, <2>2, WritingFragment DEF names, F, k
<1>9. CASE ~on
  <2>1. EmitFrag(F, i, k, c.tree) = <<>> /\ ItemText(s, t, i, c) = <<>>
    BY <1>5, <1>6, <1>7, <1>9
  <2> QED
    BY <2>1, ImageEmpty DEF FragmentMeans, FragmentPlaces, names, F, k
<1> QED
  BY <1>8, <1>9

LEMMA WholeConcat ==
  ASSUME NEW u \in Seq(Piece), NEW v \in Seq(Piece)
  PROVE  Whole(u \o v) = Whole(u) \o Whole(v)
<1>1. PICK w : w = u \o v
  OBVIOUS
<1>2. w \in Seq(Piece)
  BY <1>1, ConcatSeq
<1>3. Maps(Own, Piece, {Own[x] : x \in Piece})
  BY OwnMaps
<1>5. IsConcat(w, u, v)
  BY <1>1 DEF IsConcat
<1>4. IsConcat(Mapped(Own, w), Mapped(Own, u), Mapped(Own, v))
  BY <1>3, <1>5, MapIsConcat
<1> QED
  BY <1>1, <1>2, <1>4, WholeIsOwn DEF IsConcat

LEMMA WholeWord ==
  ASSUME NEW w \in Word
  PROVE  <<w>> \in Seq(Piece) /\ Whole(<<w>>) = <<w>>
<1>1. w \in Piece /\ Own[w] = w
  BY NamedWord DEF Piece
<1>2. Image(Own, Piece, <<w>>, <<w>>)
  BY <1>1, ImageOne
<1> QED
  BY <1>2, WholeIsOwn DEF Image

LEMMA NthItem ==
  ASSUME NEW t \in Templates, NEW i \in 1..Len(t), NEW kind, t[i].kind = kind
  PROVE  /\ Nth(t, i) \in 1..Blocks(t, kind) /\ OfKind(t, kind)[Nth(t, i)] = t[i]
         /\ DOMAIN OfKind(t, kind) = 1..Blocks(t, kind)
<1>1. t \in Seq(Item)
  BY TemplateFacts
<1>2. /\ Nth(t, i) \in 1..Len(OfKind(t, kind)) /\ OfKind(t, kind)[Nth(t, i)] = t[i]
      /\ OfKind(t, kind) \in Seq(Item)
  BY <1>1, NthOfKind
<1>3. DOMAIN OfKind(t, kind) = 1..Len(OfKind(t, kind))
  BY <1>2
<1> QED
  BY <1>2, <1>3 DEF Blocks

LEMMA ConcatStands ==
  ASSUME NEW X, NEW u \in Seq(X), NEW v \in Seq(X), NEW w, IsConcat(w, u, v)
  PROVE  /\ \A i \in 1..Len(u) : StandsAt(w, i, u[i])
         /\ \A k : k = Len(u) + 1 /\ v # <<>> => StandsAt(w, k, v[1])
<1>1. w \in Seq(X) /\ Len(w) = Len(u) + Len(v) /\ Len(u) \in Nat /\ Len(v) \in Nat
  BY ConcatSeq DEF IsConcat
<1>2. ASSUME NEW i \in 1..Len(u) PROVE StandsAt(w, i, u[i])
  <2>1. w[i] = u[i]
    BY ConcatLeft DEF IsConcat
  <2>2. i \in 1..Len(w)
    BY <1>1
  <2> QED
    BY <2>1, <2>2 DEF StandsAt
<1>3. ASSUME NEW k, k = Len(u) + 1, v # <<>> PROVE StandsAt(w, k, v[1])
  <2>1. Len(v) # 0
    BY <1>3
  <2>2. 1 \in 1..Len(v) /\ k \in 1..Len(w)
    BY <1>1, <1>3, <2>1
  <2>3. w[k] = v[1]
    BY <1>3, <2>2, ConcatRight DEF IsConcat
  <2> QED
    BY <2>2, <2>3 DEF StandsAt
<1> QED
  BY <1>2, <1>3

\* The case a call that is not refused selects.
LEMMA ChosenBody ==
  ASSUME NEW it \in ChooseItem, NEW v \in Nat, ~ChooseOrdinalFails(it, v)
  PROVE  LET n == ChooseOrdinal(it, v) + 1
         IN  /\ n \in 1..Len(Bodies(it))
             /\ Bodies(it)[n] = IF v = 0 THEN it.default[1] ELSE it.cases[v].body
<1> DEFINE named == [i \in DOMAIN it.cases |-> it.cases[i].body]
<1>1. /\ it.kind = "choose" /\ it.cases \in Seq([name : STRING, body : Body]) /\ it.default \in Seq(Body)
  BY DEF ChooseItem
<1>2. IsConcat(Bodies(it), named, it.default)
  BY <1>1 DEF Bodies, IsConcat
<1>3. /\ Len(it.cases) \in Nat /\ DOMAIN it.cases = 1..Len(it.cases)
  BY <1>1
<1>4. named \in Seq(Body) /\ Len(named) = Len(it.cases)
      /\ \A i \in 1..Len(it.cases) : named[i] = it.cases[i].body
  <2>1. ASSUME NEW i \in 1..Len(it.cases) PROVE it.cases[i].body \in Body
    <3>1. it.cases[i] \in [name : STRING, body : Body]
      BY <1>1, ElementIn
    <3> QED
      BY <3>1
  <2> QED
    BY <1>3, <2>1
<1> HIDE DEF named
<1>5. /\ \A i \in 1..Len(named) : StandsAt(Bodies(it), i, named[i])
      /\ \A k : k = Len(named) + 1 /\ it.default # <<>> => StandsAt(Bodies(it), k, it.default[1])
  BY <1>1, <1>2, <1>4, ConcatStands
<1>6. v <= Len(it.cases) /\ (v = 0 => it.default # <<>>)
  BY <1>3 DEF ChooseOrdinalFails
<1>7. CASE v = 0
  <2>1. ChooseOrdinal(it, v) + 1 = Len(named) + 1
    BY <1>4, <1>7 DEF ChooseOrdinal
  <2>2. StandsAt(Bodies(it), ChooseOrdinal(it, v) + 1, it.default[1])
    BY <1>5, <1>6, <1>7, <2>1
  <2> QED
    BY <1>7, <2>2 DEF StandsAt
<1>8. CASE v # 0
  <2>1. ChooseOrdinal(it, v) + 1 = v /\ v \in 1..Len(named)
    BY <1>3, <1>4, <1>6, <1>8 DEF ChooseOrdinal
  <2>2. StandsAt(Bodies(it), v, named[v])
    BY <1>5, <2>1
  <2>3. named[v] = it.cases[v].body
    BY <1>4, <2>1
  <2> QED
    BY <1>8, <2>1, <2>2, <2>3 DEF StandsAt
<1> QED
  BY <1>7, <1>8

LEMMA ChosenCase ==
  ASSUME NEW s, NEW t, NEW c, InCall(s, t, c), NEW i \in 1..Len(t), t[i].kind = "choose"
  PROVE  LET it == t[i]
             v == c.enums[Nth(t, i)]
             n == ChooseOrdinal(it, v) + 1
         IN  /\ ChooseOrdinal(it, v) \in Nat /\ n \in 1..Len(Bodies(it))
             /\ Bodies(it)[n] = IF v = 0 THEN it.default[1] ELSE it.cases[v].body
<1> DEFINE it == t[i]
           n == Nth(t, i)
           v == c.enums[n]
<1>0. t \in Templates /\ c \in Calls(t) /\ ~CallRefused(t, c)
  BY DEF InCall
<1>1. it \in Item
  BY <1>0, TemplateFacts
<1>2. /\ n \in 1..Blocks(t, "choose") /\ OfKind(t, "choose")[n] = it
      /\ DOMAIN OfKind(t, "choose") = 1..Blocks(t, "choose")
  BY <1>0, NthItem
<1>3. it \in ChooseItem
  BY <1>1, ItemKinds
<1>4. v \in Nat
  <2>1. v \in 0..(Len(OfKind(t, "choose")[n].cases) + 1)
    BY <1>0, <1>2, CallFields, TupleAt
  <2> QED
    BY <2>1
<1>5. ~ChooseOrdinalFails(it, v)
  BY <1>0, <1>2 DEF CallRefused
<1>6. ChooseOrdinal(it, v) \in Nat
  <2>1. it.cases \in Seq([name : STRING, body : Body])
    BY <1>3 DEF ChooseItem
  <2>2. Len(it.cases) \in Nat
    BY <2>1
  <2> QED
    BY <1>4, <2>2 DEF ChooseOrdinal
<1> QED
  BY <1>3, <1>4, <1>5, <1>6, ChosenBody

LEMMA ChooseMeans ==
  ASSUME NEW s, NEW t, NEW c, InCall(s, t, c), NEW i \in 1..Len(t), t[i].kind = "choose"
  PROVE  FragmentMeans(s, t, c, i) /\ FragmentPlaces(s, t, c, i)
<1> DEFINE it == t[i]
           names == ParamOrder(t)
           F == BuildFrags(s, t)
           f == F[i]
           k == ShapeKey(s, t, c)
           n == Nth(t, i)
           v == c.enums[n]
           ord == ChooseOrdinal(it, v)
           body == Bodies(it)[ord + 1]
           nl == <<Text("\n")>>
<1>0. t \in Templates /\ c \in Calls(t) /\ ~CallRefused(t, c)
  BY DEF InCall
<1>1. t \in Seq(Item) /\ it \in Item /\ Len(names) \in Nat
  BY <1>0, TemplateFacts
<1>2. /\ n \in 1..Blocks(t, "choose") /\ OfKind(t, "choose")[n] = it
      /\ DOMAIN OfKind(t, "choose") = 1..Blocks(t, "choose")
  BY <1>0, NthItem
<1>6. ord + 1 \in 1..Len(Bodies(it)) /\ body = IF v = 0 THEN it.default[1] ELSE it.cases[v].body
  BY ChosenCase
<1>7. body \in Seq(Named(names))
  BY <1>1, <1>6, BodiesNamed
<1>8. f.kind = "choose" /\ f.cases = AllSpans(Bodies(it), names)
  <2>1. IsFragment(f, s, names, GuardAtoms(t), it)
    BY <1>0, Fragment
  <2>2. Bodies(it) = [j \in DOMAIN it.cases |-> it.cases[j].body] \o it.default
    BY DEF Bodies
  <2> HIDE DEF F, f, names
  <2> QED
    BY <2>1, <2>2 DEF IsFragment, FragKind
<1>9. At(f.cases, ord + 1, <<>>) = Spans(body, names)
  <2>1. DOMAIN Bodies(it) = 1..Len(Bodies(it))
    BY <1>1, ItemBodies
  <2> HIDE DEF ord, names, f
  <2> QED
    BY <1>6, <1>8, <2>1 DEF At, AllSpans
<1>10. At(k.choices, n, 0) = ord
  <2>1. k.choices = [j \in DOMAIN OfKind(t, "choose") |-> ChooseOrdinal(OfKind(t, "choose")[j], c.enums[j])]
    BY DEF ShapeKey
  <2> HIDE DEF k, n
  <2> QED
    BY <1>2, <2>1 DEF At
<1>11. Nth(F, i) = n
  BY <1>0, FragmentNth
<1>12. ItemText(s, t, i, c) = nl \o Whole(body)
  <2>1. ItemText(s, t, i, c) = nl \o Whole(IF v = 0 THEN it.default[1] ELSE it.cases[v].body)
    BY DEF ItemText
  <2> QED
    BY <1>6, <2>1
<1> HIDE DEF F, k, n, f, ord, body, names
<1>13. EmitFrag(F, i, k, c.tree) = nl \o Emit(Spans(body, names))
  <2>1. F[i].kind = "choose" /\ At(F[i].cases, ord + 1, <<>>) = Spans(body, names)
    BY <1>8, <1>9 DEF f
  <2> QED
    BY <1>10, <1>11, <2>1 DEF EmitFrag
<1>14. Writing(names, nl, nl) /\ nl \in Seq(Piece) /\ Whole(nl) = nl
  BY LitWords, WritingWords, WholeWord
<1>15. Writing(names, body, Emit(Spans(body, names)))
  BY <1>1, <1>7, WritingBody
<1> HIDE DEF nl
<1>16. Writing(names, nl \o body, nl \o Emit(Spans(body, names)))
  BY <1>1, <1>14, <1>15, WritingConcat
<1>17. Whole(nl \o body) = nl \o Whole(body)
  BY <1>7, <1>14, NamedPieces, WholeConcat
<1> QED
  BY <1>0, <1>12, <1>13, <1>16, <1>17, WritingFragment DEF names, F, k

\* A sequence of sequences, part by part.
LEMMA SeqOfSeqs ==
  ASSUME NEW X, NEW Z, NEW s \in Seq(Z), \A i \in 1..Len(s) : s[i] \in Seq(X)
  PROVE  s \in Seq(Seq(X))
<1>1. Len(s) \in Nat /\ s = [i \in 1..Len(s) |-> s[i]]
  OBVIOUS
<1> QED
  BY <1>1

\* The keys and the default of a sort block name fields of the params struct.
LEMMA OrderNamed ==
  ASSUME NEW it \in Item, IsItem(it), it.kind = "orderby", NEW names,
         \A b \in 1..Len(Bodies(it)) : Bodies(it)[b] \in Seq(Named(names))
  PROVE  /\ it.keys \in Seq(Seq(Named(names))) /\ it.default \in Seq(Seq(Named(names)))
         /\ Len(it.keys) \in Nat /\ Len(it.default) <= 1
<1> DEFINE X == Named(names)
<1>2. it \in OrderItem /\ Len(it.default) <= 1
  BY ItemKinds DEF IsItem
<1>3. it.keys \in Seq(Body) /\ it.default \in Seq(Body)
  BY <1>2 DEF OrderItem
<1>4. IsConcat(Bodies(it), it.keys, it.default)
  BY DEF Bodies, IsConcat
<1>5. /\ \A j \in 1..Len(it.keys) : StandsAt(Bodies(it), j, it.keys[j])
      /\ \A k : k = Len(it.keys) + 1 /\ it.default # <<>> => StandsAt(Bodies(it), k, it.default[1])
  BY <1>3, <1>4, ConcatStands
<1>6. \A k \in 1..Len(Bodies(it)) : Bodies(it)[k] \in Seq(X)
  OBVIOUS
<1>7. \A k, x : StandsAt(Bodies(it), k, x) => x \in Seq(X)
  BY <1>6 DEF StandsAt
<1> HIDE DEF X
<1>8. \A j \in 1..Len(it.keys) : it.keys[j] \in Seq(X)
  BY <1>5, <1>7
<1>9. \A j \in 1..Len(it.default) : it.default[j] \in Seq(X)
  <2> TAKE j \in 1..Len(it.default)
  <2>1. it.default # <<>> /\ j = 1
    <3>1. PICK d \in Seq(Body) : d = it.default
      BY <1>3
    <3>2. Len(d) \in Nat /\ j \in 1..Len(d) /\ Len(d) <= 1
      BY <1>2, <3>1
    <3>3. d # <<>>
      BY <3>2
    <3>4. j = 1
      BY <3>2
    <3> QED
      BY <3>1, <3>3, <3>4
  <2> QED
    BY <1>5, <1>7, <2>1
<1>10. it.keys \in Seq(Seq(X)) /\ it.default \in Seq(Seq(X))
  BY <1>3, <1>8, <1>9, SeqOfSeqs
<1>11. Len(it.keys) \in Nat
  BY <1>3
<1> QED
  BY <1>2, <1>10, <1>11 DEF X

\* The sort keys of a call that is not refused are keys of the block.
LEMMA SortKeys ==
  ASSUME NEW s, NEW t, NEW c, InCall(s, t, c), NEW i \in 1..Len(t), t[i].kind = "orderby"
  PROVE  LET v == c.orders[Nth(t, i)]
         IN  /\ v \in Seq(Nat) /\ Nth(t, i) \in DOMAIN c.orders
             /\ \A j \in 1..Len(v) : v[j] \div 2 < Len(t[i].keys)
<1> DEFINE it == t[i]
           n == Nth(t, i)
           v == c.orders[n]
<1>0. t \in Templates /\ c \in Calls(t) /\ ~CallRefused(t, c)
  BY DEF InCall
<1>2. /\ n \in 1..Blocks(t, "orderby") /\ OfKind(t, "orderby")[n] = it
      /\ DOMAIN OfKind(t, "orderby") = 1..Blocks(t, "orderby")
  BY <1>0, NthItem
<1>3. Len(it.keys) \in Nat
  <2>1. it \in OrderItem
    BY <1>0, TemplateFacts, ItemKinds
  <2>2. it.keys \in Seq(Body)
    BY <2>1 DEF OrderItem
  <2> QED
    BY <2>2
<1>4. v \in Seq(Nat) /\ n \in DOMAIN c.orders
  <2>1. v \in BoundedSeq(0..(2 * Len(it.keys)), MaxSorts) /\ n \in DOMAIN c.orders
    <3> DEFINE blocks == OfKind(t, "orderby")
               sets == [j \in DOMAIN blocks |-> BoundedSeq(0..(2 * Len(blocks[j].keys)), MaxSorts)]
    <3>1. c.orders \in Tuples(sets)
      BY <1>0, CallFields
    <3>2. n \in DOMAIN sets /\ sets[n] = BoundedSeq(0..(2 * Len(it.keys)), MaxSorts)
      <4> HIDE DEF n, it
      <4> QED
        BY <1>2
    <3> HIDE DEF sets
    <3> QED
      BY <3>1, <3>2, TupleAt
  <2> QED
    BY <1>3, <2>1, SortKeySeq
<1>5. \A j \in 1..Len(v) : v[j] \div 2 < Len(it.keys)
  <2>1. ~OrderSeqFails(it, v)
    BY <1>0, <1>2 DEF CallRefused
  <2> HIDE DEF v, it
  <2>2. \A j \in 1..Len(v) : ~(v[j] \div 2 >= Len(it.keys))
    BY <1>4, <2>1 DEF OrderSeqFails
  <2>3. ASSUME NEW j \in 1..Len(v) PROVE v[j] \div 2 \in Nat
    <3>1. v[j] \in Nat
      BY <1>4, ElementIn
    <3> QED
      BY <3>1
  <2> QED
    BY <1>3, <2>2, <2>3
<1> QED
  BY <1>4, <1>5

LEMMA OrderMeans ==
  ASSUME NEW s, NEW t, NEW c, InCall(s, t, c), NEW i \in 1..Len(t), t[i].kind = "orderby"
  PROVE  FragmentMeans(s, t, c, i) /\ FragmentPlaces(s, t, c, i)
<1> DEFINE it == t[i]
           names == ParamOrder(t)
           F == BuildFrags(s, t)
           f == F[i]
           k == ShapeKey(s, t, c)
           n == Nth(t, i)
           v == c.orders[n]
<1>0. t \in Templates /\ c \in Calls(t) /\ ~CallRefused(t, c)
  BY DEF InCall
<1>1. Len(names) \in Nat
  BY <1>0, TemplateFacts
<1>2. /\ n \in 1..Blocks(t, "orderby") /\ OfKind(t, "orderby")[n] = it
      /\ DOMAIN OfKind(t, "orderby") = 1..Blocks(t, "orderby")
  BY <1>0, NthItem
<1>3. /\ it.keys \in Seq(Seq(Named(names))) /\ it.default \in Seq(Seq(Named(names)))
      /\ Len(it.keys) \in Nat /\ Len(it.default) <= 1
  <2>1. t \in Seq(Item) /\ it \in Item /\ IsItem(it)
    BY <1>0, TemplateFacts
  <2>2. \A b \in 1..Len(Bodies(it)) : Bodies(it)[b] \in Seq(Named(names))
    BY <2>1, BodiesNamed
  <2> HIDE DEF names, it
  <2> QED
    BY <2>1, <2>2, OrderNamed DEF it
<1>4. /\ v \in Seq(Nat) /\ n \in DOMAIN c.orders
      /\ \A j \in 1..Len(v) : v[j] \div 2 < Len(it.keys)
  BY SortKeys
<1>6. f.kind = "orderby" /\ f.cases = AllSpans(it.keys, names) /\ f.default = AllSpans(it.default, names)
  <2>1. IsFragment(f, s, names, GuardAtoms(t), it)
    BY <1>0, Fragment
  <2> HIDE DEF F, f, names
  <2> QED
    BY <2>1 DEF IsFragment, FragKind
<1>7. Nth(F, i) = n
  BY <1>0, FragmentNth
<1>8. At(k.orders, n, Maximal) = v
  <2>1. k.orders = c.orders
    BY DEF ShapeKey
  <2> HIDE DEF k, n
  <2> QED
    BY <1>4, <2>1 DEF At
<1>9. ItemText(s, t, i, c) = Whole(OrderPieces(it, v))
  BY DEF ItemText
<1> HIDE DEF F, k, n, v, names
<1>10. EmitFrag(F, i, k, c.tree) = EmitOrder(f, v)
  BY <1>6, <1>7, <1>8 DEF EmitFrag
<1>11. Writing(names, OrderPieces(it, v), EmitOrder(f, v))
  <2> HIDE DEF it, f
  <2> QED
    BY <1>1, <1>3, <1>4, <1>6, WritingOrder DEF AllSpans
<1> QED
  BY <1>0, <1>9, <1>10, <1>11, WritingFragment DEF names, F, k

\* The element e of field p, or the whole of it, comes from field p.
LEMMA ValueOfField ==
  ASSUME NEW names \in Seq(STRING), Len(names) <= MaxIndex + 1, NEW args,
         NEW p, Contains(names, p), NEW e \in 0..MaxIndex, NEW b, b = Bind("field", IndexIn(names, p) - 1, e)
  PROVE  b \in Cell /\ Value(names, args)[b] = [val |-> <<p, e>>]
<1>1. PICK i : i = IndexIn(names, p)
  OBVIOUS
<1>2. i \in 1..Len(names) /\ names[i] = p /\ Len(names) \in Nat
  BY <1>1, IndexAt
<1>3. i - 1 <= MaxIndex /\ e <= MaxIndex /\ i - 1 \in Int /\ e \in Int /\ MaxIndex \in Nat /\ e >= 0
  BY <1>2, TreeAssumption
<1>4. b = Bind("field", i - 1, e)
  BY <1>1
<1>5. /\ b \in Cell /\ b.bind = [from |-> "field", idx |-> Wrap(i - 1), elem |-> Wrap(e)]
      /\ "bind" \in DOMAIN b
  BY <1>3, <1>4, BindTyped, BindFields
<1>6. Wrap(i - 1) = i - 1 /\ Wrap(e) = e
  BY <1>3, WrapInt
<1>7. b.bind.from = "field" /\ b.bind.idx = i - 1 /\ b.bind.elem = e
  BY <1>5, <1>6
<1>8. b.bind.idx + 1 = i /\ (IF e > 0 THEN e ELSE 0) = e
  BY <1>2, <1>3, <1>7
<1>9. Resolve(b.bind, names, args) = <<p, e>>
  BY <1>2, <1>7, <1>8 DEF Resolve
<1> QED
  BY <1>5, <1>9 DEF Value

LEMMA InNamed ==
  ASSUME NEW t \in Templates, NEW i \in 1..Len(t), t[i].kind = "in"
  PROVE  Param(t[i].param) \in Piece /\ Contains(ParamOrder(t), t[i].param) /\ t[i].param \in ListParams(t)
<1> DEFINE it == t[i]
           x == Param(it.param)
<1>1. t \in Seq(Item) /\ i \in DOMAIN t
  BY TemplateFacts
<1>2. Bodies(it) = << <<x>> >>
  BY DEF Bodies
<1>3. 1 \in 1..Len(Bodies(it)) /\ Bodies(it)[1] = <<x>>
  BY <1>2
<1>4. <<x>> \in Seq(Named(ParamOrder(t)))
  BY <1>1, <1>3, BodiesNamed
<1>5. x \in Named(ParamOrder(t))
  <2>1. <<x>>[1] = x /\ 1 \in 1..Len(<<x>>)
    OBVIOUS
  <2> HIDE DEF x
  <2> QED
    BY <1>4, <2>1, ElementIn
<1>6. IsParam(x) /\ x.param = it.param
  BY DEF IsParam, Param
<1>7. it.param \in ListParams(t)
  BY <1>1 DEF ListParams
<1> QED
  BY <1>5, <1>6, <1>7 DEF Named

LEMMA InAnyMeans ==
  ASSUME NEW s, NEW t, NEW c, InCall(s, t, c), NEW i \in 1..Len(t), t[i].kind = "in", s = "dollar"
  PROVE  FragmentMeans(s, t, c, i) /\ FragmentPlaces(s, t, c, i)
<1> DEFINE it == t[i]
           names == ParamOrder(t)
           args == TreeArgs(c.tree)
           m == Value(names, args)
           F == BuildFrags(s, t)
           f == F[i]
           k == ShapeKey(s, t, c)
           p == it.param
           b == Bind("field", IndexIn(names, p) - 1, 0)
           a == Text("= ANY(")
           z == Text(")")
<1>0. t \in Templates
  BY DEF InCall
<1>1. names \in Seq(STRING) /\ Len(names) <= MaxIndex + 1
  BY <1>0, TemplateFacts
<1>2. Param(p) \in Piece /\ Contains(names, p)
  BY <1>0, InNamed
<1>3. f.kind = "inany" /\ f.idx = IndexIn(names, p) - 1
  <2>1. IsFragment(f, s, names, GuardAtoms(t), it)
    BY <1>0, Fragment
  <2> HIDE DEF F, f, names
  <2> QED
    BY <2>1 DEF IsFragment, FragKind
<1>4. ItemText(s, t, i, c) = <<a, [val |-> <<p, 0>>], z>>
  <2>1. ItemText(s, t, i, c) = Whole(<<a, Param(p), z>>)
    BY DEF ItemText, ListText
  <2>2. ~IsParam(a) /\ ~IsParam(z) /\ IsParam(Param(p)) /\ Param(p).param = p
    BY DEF IsParam, Text, Param
  <2> HIDE DEF a, z, p
  <2>3. Whole(<<a, Param(p), z>>) = <<a, [val |-> <<p, 0>>], z>>
    BY <2>2 DEF Whole
  <2> QED
    BY <2>1, <2>3
<1> HIDE DEF F, k
<1>5. EmitFrag(F, i, k, c.tree) = <<a, b, z>>
  BY <1>3 DEF EmitFrag
<1>6. 0 \in 0..MaxIndex
  BY TreeAssumption
<1>7. b \in Cell /\ m[b] = [val |-> <<p, 0>>]
  <2> HIDE DEF p, names, args
  <2> QED
    BY <1>1, <1>2, <1>6, ValueOfField
<1>8. a \in Cell /\ z \in Cell /\ m[a] = a /\ m[z] = z
  BY LitWords, ValueWord
<1> HIDE DEF a, b, z, m
<1>9. <<a, b, z>> \in Seq(Cell) /\ Len(<<a, b, z>>) = 3
  BY <1>7, <1>8
<1>10. Mapped(m, <<a, b, z>>) = <<a, [val |-> <<p, 0>>], z>>
  <2>1. Mapped(m, <<a, b, z>>) = [j \in 1..3 |-> m[<<a, b, z>>[j]]]
    BY <1>9 DEF Mapped
  <2>2. [j \in 1..3 |-> m[<<a, b, z>>[j]]] = <<m[a], m[b], m[z]>>
    OBVIOUS
  <2> QED
    BY <1>7, <1>8, <2>1, <2>2
<1>11. Image(m, Cell, <<a, b, z>>, <<a, [val |-> <<p, 0>>], z>>)
  BY <1>9, <1>10 DEF Image
<1>12. <<a, b, z>> \in Seq(PlacedCells(names))
  <2>1. Param(p) \in Named(names) /\ Placed(names)[Param(p)] = b
    <3>1. IsParam(Param(p)) /\ Param(p).param = p
      BY DEF IsParam, Param
    <3> HIDE DEF p, names
    <3> QED
      BY <1>2, <3>1 DEF Named, Placed, b
  <2>2. a \in PlacedCells(names) /\ z \in PlacedCells(names)
    BY LitWords, NamedWord DEF PlacedCells, a, z
  <2>3. b \in PlacedCells(names)
    BY <2>1 DEF PlacedCells
  <2> QED
    BY <2>2, <2>3
<1> QED
  BY <1>4, <1>5, <1>11, <1>12 DEF FragmentMeans, FragmentPlaces, m, F, k, names

LEMMA InListMeans ==
  ASSUME NEW s, NEW t, NEW c, InCall(s, t, c), Composable(BuildFrags(s, t), ShapeKey(s, t, c), c.tree),
         NEW i \in 1..Len(t), t[i].kind = "in", s = "question"
  PROVE  FragmentMeans(s, t, c, i)
<1> DEFINE it == t[i]
           names == ParamOrder(t)
           args == TreeArgs(c.tree)
           m == Value(names, args)
           F == BuildFrags(s, t)
           f == F[i]
           k == ShapeKey(s, t, c)
           p == it.param
           n == c.lens[p]
           a == <<Text("IN (")>>
           z == <<Text(")")>>
           S == [e \in 1..n |-> <<Bind("field", IndexIn(names, p) - 1, e)>>]
           T == [e \in 1..n |-> <<[val |-> <<p, e>>]>>]
<1>0. t \in Templates /\ c \in Calls(t)
  BY DEF InCall
<1>1. names \in Seq(STRING) /\ Len(names) <= MaxIndex + 1 /\ DOMAIN t = 1..Len(t)
  BY <1>0, TemplateFacts
<1>2. Contains(names, p) /\ p \in ListParams(t)
  BY <1>0, InNamed
<1>3. n \in Nat
  <2>1. c.lens \in [ListParams(t) -> Lens]
    BY <1>0, CallFields
  <2>2. n \in Lens
    BY <1>2, <2>1
  <2> QED
    BY <2>2, ComposerAssumption
<1>4. f.kind = "inlist" /\ f.idx = IndexIn(names, p) - 1
  <2>1. IsFragment(f, s, names, GuardAtoms(t), it)
    BY <1>0, Fragment
  <2> HIDE DEF F, f, names
  <2> QED
    BY <2>1 DEF IsFragment, FragKind
<1>5. Nth(F, i) = Nth(t, i)
  BY <1>0, FragmentNth
<1>6. At(k.arities, Nth(F, i), 1) = n
  <2> DEFINE ins == OfKind(t, "in")
             j == Nth(t, i)
  <2>1. j \in DOMAIN ins /\ ins[j] = it
    BY <1>0, NthItem
  <2>2. k.arities = [x \in DOMAIN ins |-> c.lens[ins[x].param]]
    BY DEF ShapeKey
  <2> HIDE DEF k, j, ins
  <2>3. At(k.arities, j, 1) = n
    BY <2>1, <2>2 DEF At
  <2> QED
    BY <1>5, <2>3 DEF j
<1>7. n <= MaxIndex
  <2>1. i \in DOMAIN F
    BY <1>1 DEF BuildFrags
  <2>2. Composable(F, k, c.tree)
    OBVIOUS
  <2> HIDE DEF F, k, n
  <2> QED
    BY <1>4, <1>6, <2>1, <2>2 DEF Composable
<1>8. ItemText(s, t, i, c) = ListText(s, p, n)
  BY DEF ItemText
<1> HIDE DEF F, k, n
<1>9. EmitFrag(F, i, k, c.tree) = EmitList(f, n)
  BY <1>4, <1>6 DEF EmitFrag
<1> HIDE DEF f
<1>10. CASE n = 0
  <2>1. ListText(s, p, n) = <<Text("IN (empty)")>> /\ EmitList(f, n) = <<Text("IN (empty)")>>
    BY <1>10 DEF ListText, EmitList, InEmpty
  <2>2. Text("IN (empty)") \in Cell /\ m[Text("IN (empty)")] = Text("IN (empty)")
    BY LitWords, ValueWord
  <2>3. Image(m, Cell, <<Text("IN (empty)")>>, <<Text("IN (empty)")>>)
    <3> HIDE DEF m
    <3> QED
      BY <2>2, ImageOne
  <2> QED
    BY <1>8, <1>9, <2>1, <2>3 DEF FragmentMeans, m, F, k
<1>11. CASE n # 0
  <2>1. ListText(s, p, n) = a \o Joined(T, ", ") \o z
    BY <1>11 DEF ListText
  <2>2. EmitList(f, n) = a \o Joined(S, ", ") \o z
    BY <1>4, <1>11 DEF EmitList
  <2>3. ASSUME NEW e \in 1..n PROVE Image(m, Cell, S[e], T[e])
    <3>1. e \in 0..MaxIndex
      BY <1>3, <1>7, TreeAssumption
    <3>2. PICK b : b = Bind("field", IndexIn(names, p) - 1, e)
      OBVIOUS
    <3>3. b \in Cell /\ m[b] = [val |-> <<p, e>>]
      <4> HIDE DEF p, names, args
      <4> QED
        BY <1>1, <1>2, <3>1, <3>2, ValueOfField
    <3>4. S[e] = <<b>> /\ T[e] = <<[val |-> <<p, e>>]>>
      BY <3>2
    <3> HIDE DEF S, T, m
    <3> QED
      BY <3>3, <3>4, ImageOne
  <2>4. S = [e \in 1..n |-> S[e]] /\ T = [e \in 1..n |-> T[e]]
    OBVIOUS
  <2>5. Text(", ") \in Cell /\ m[Text(", ")] = Text(", ")
        /\ Text("IN (") \in Cell /\ m[Text("IN (")] = Text("IN (")
        /\ Text(")") \in Cell /\ m[Text(")")] = Text(")")
    BY LitWords, ValueWord
  <2>6. Maps(m, Cell, Meaning(names, args))
    BY ValueMaps
  <2> HIDE DEF S, T, m
  <2>7. Image(m, Cell, Joined(S, ", "), Joined(T, ", "))
    BY <1>3, <2>3, <2>4, <2>5, <2>6, ImageJoined
  <2>8. Image(m, Cell, a, a) /\ Image(m, Cell, z, z)
    BY <2>5, ImageOne
  <2> HIDE DEF a, z
  <2>9. Image(m, Cell, a \o Joined(S, ", "), a \o Joined(T, ", "))
    BY <2>6, <2>7, <2>8, ImageConcat
  <2>10. Image(m, Cell, a \o Joined(S, ", ") \o z, a \o Joined(T, ", ") \o z)
    BY <2>6, <2>8, <2>9, ImageConcat
  <2> QED
    BY <1>8, <1>9, <2>1, <2>2, <2>10 DEF FragmentMeans, m, F, k
<1> QED
  BY <1>10, <1>11

-----------------------------------------------------------------------------
(* The parts of a concatenation.                                           *)

\* u lies in w, after the first base elements.
Slice(w, base, u) ==
    /\ base \in Nat /\ Len(u) \in Nat /\ Len(w) \in Nat /\ base + Len(u) <= Len(w)
    /\ \A j \in 1..Len(u) : w[base + j] = u[j]

\* c is the sum of the naturals a and b.
Adds(a, b, c) == a \in Nat /\ b \in Nat /\ c \in Nat /\ c = a + b

LEMMA AddsOrder ==
  ASSUME NEW a, NEW b, NEW c, Adds(a, b, c)
  PROVE  /\ a <= c /\ a \in Nat /\ c \in Nat
         /\ \A x \in Nat : x <= a => x <= c
         /\ \A x, y, z \in Nat : c <= x /\ y + x <= z => y + a \in Nat /\ (y + a) + b <= z /\ y + a <= z
BY DEF Adds

LEMMA LenNat == ASSUME NEW X, NEW u \in Seq(X) PROVE Len(u) \in Nat
OBVIOUS

LEMMA JoinsStep ==
  ASSUME NEW X, NEW s, NEW f, JoinsIn(f, s, X), NEW i \in 1..Len(s)
  PROVE  Adds(Len(f[i - 1]), Len(s[i]), Len(f[i]))
<1>1. s \in Seq(Seq(X)) /\ f \in [0..Len(s) -> Seq(X)] /\ Joins(f, s)
  BY DEF JoinsIn
<1>2. i - 1 \in 0..Len(s) /\ i \in 0..Len(s)
  BY <1>1
<1>3. f[i - 1] \in Seq(X) /\ f[i] \in Seq(X)
  BY <1>1, <1>2, ValueIn
<1>4. s[i] \in Seq(X)
  BY <1>1, ElementIn
<1>5. f[i] = f[i - 1] \o s[i]
  BY <1>1 DEF Joins
<1> HIDE <1>1
<1>6. Len(f[i]) = Len(f[i - 1]) + Len(s[i]) /\ Len(f[i - 1]) \in Nat /\ Len(s[i]) \in Nat
  BY <1>3, <1>4, <1>5, ConcatSeq
<1>7. Len(f[i]) \in Nat
  BY <1>3, LenNat
<1> QED
  BY <1>6, <1>7 DEF Adds

LEMMA JoinsGrow ==
  ASSUME NEW X, NEW s, NEW f, JoinsIn(f, s, X), NEW i \in 1..Len(s)
  PROVE  Len(f[i]) <= Len(f[Len(s)]) /\ Len(f[Len(s)]) \in Nat
<1>1. Len(s) \in Nat
  BY DEF JoinsIn
<1>2. PICK n \in Nat : n = Len(s)
  BY <1>1
<1>0. Len(f[i]) \in Nat /\ Len(f[i]) <= Len(f[i])
  <2>1. Adds(Len(f[i - 1]), Len(s[i]), Len(f[i]))
    BY JoinsStep
  <2>2. Len(f[i]) \in Nat
    BY <2>1, AddsOrder
  <2> QED
    BY <2>2
<1> DEFINE D == {k \in 0..n : k >= i => Len(f[i]) <= Len(f[k]) /\ Len(f[k]) \in Nat}
<1>3. 0 \in D
  BY <1>2
<1>4. ASSUME NEW k \in 1..n, k - 1 \in D PROVE k \in D
  <2>1. k \in 1..Len(s) /\ k \in 0..n
    BY <1>2
  <2>2. Adds(Len(f[k - 1]), Len(s[k]), Len(f[k]))
    BY <2>1, JoinsStep
  <2>3. Len(f[k]) \in Nat /\ \A x \in Nat : x <= Len(f[k - 1]) => x <= Len(f[k])
    BY <2>2, AddsOrder
  <2>4. k >= i /\ k # i => k - 1 >= i
    BY <1>2
  <2>5. k - 1 >= i => Len(f[i]) <= Len(f[k - 1])
    BY <1>4
  <2>6. k >= i => Len(f[i]) <= Len(f[k])
    BY <1>0, <2>3, <2>4, <2>5, Zenon
  <2> QED
    BY <2>1, <2>3, <2>6, Zenon
<1> HIDE DEF D
<1>5. \A k \in 0..n : k \in D
  BY <1>3, <1>4, LoopInduction
<1>6. n \in 0..n /\ n >= i
  BY <1>2
<1>7. n \in D
  BY <1>5, <1>6
<1> QED
  BY <1>2, <1>6, <1>7 DEF D

\* A part of what lies in w lies in w, after the parts before it.
LEMMA SliceOfPart ==
  ASSUME NEW X, NEW s, NEW f, JoinsIn(f, s, X), NEW i \in 1..Len(s),
         NEW w, NEW base, Slice(w, base, f[Len(s)]), NEW from, from = base + Len(f[i - 1])
  PROVE  Slice(w, from, s[i])
<1> DEFINE last == f[Len(s)]
<1>1. Adds(Len(f[i - 1]), Len(s[i]), Len(f[i]))
  BY JoinsStep
<1>2. Len(f[i]) <= Len(last)
  BY JoinsGrow
<1>3. /\ base \in Nat /\ Len(last) \in Nat /\ Len(w) \in Nat /\ base + Len(last) <= Len(w)
      /\ \A j \in 1..Len(last) : w[base + j] = last[j]
  BY DEF Slice
<1>6. Len(f[i - 1]) \in Nat /\ Len(s[i]) \in Nat
  BY <1>1 DEF Adds
<1>4. ASSUME NEW j \in 1..Len(s[i]) PROVE w[from + j] = s[i][j]
  <2>1. PICK k : k = Len(f[i - 1]) + j
    OBVIOUS
  <2>2. StandsAt(last, k, s[i][j])
    BY <2>1, FlattenPlace
  <2> HIDE DEF last
  <2>3. k \in 1..Len(last) /\ last[k] = s[i][j]
    BY <2>2 DEF StandsAt
  <2>4. w[base + k] = last[k]
    BY <1>3, <2>3
  <2>5. from + j = base + k
    <3>1. \A x, y, z \in Nat : (x + y) + z = x + (y + z)
      OBVIOUS
    <3>2. j \in Nat
      OBVIOUS
    <3> QED
      BY <1>3, <1>6, <2>1, <3>1, <3>2, Zenon
  <2> QED
    BY <2>3, <2>4, <2>5
<1> HIDE DEF last
<1>5. from \in Nat /\ from + Len(s[i]) <= Len(w)
  <2>1. PICK a, b, c, x, z : a = Len(f[i - 1]) /\ b = Len(s[i]) /\ c = Len(f[i]) /\ x = Len(last) /\ z = Len(w)
    OBVIOUS
  <2>2. Adds(a, b, c) /\ c <= x /\ base + x <= z /\ base \in Nat /\ x \in Nat /\ z \in Nat
    BY <1>1, <1>2, <1>3, <2>1
  <2>3. base + a \in Nat /\ (base + a) + b <= z
    BY <2>2, AddsOrder
  <2> QED
    BY <2>1, <2>3
<1> QED
  BY <1>3, <1>4, <1>5, <1>6 DEF Slice

-----------------------------------------------------------------------------
(* The walks over a tree, level by level.                                  *)

LEMMA TreeFields ==
  ASSUME NEW t \in Trees
  PROVE  /\ t.op \in {"zero", "true", "leaf", "and", "or"}
         /\ t.op = "leaf" => t.pred \in Int /\ t.args \in Seq(LeafArg)
         /\ t.op \in {"and", "or"} => t.kids \in Seq(Trees) /\ Kids(t) = t.kids
         /\ t.op \notin {"and", "or"} => Kids(t) = <<>>
<1>1. t \in {NoTree, Unscoped} \cup LeafNode \cup InnerNode
  BY TreeAssumption
<1>2. CASE t \in {NoTree, Unscoped}
  BY <1>2 DEF NoTree, Unscoped, Kids
<1>3. CASE t \in LeafNode
  BY <1>3 DEF LeafNode, Kids
<1>4. CASE t \in InnerNode
  BY <1>4 DEF InnerNode, Kids
<1> QED
  BY <1>1, <1>2, <1>3, <1>4

\* The arguments of t, given those of its subtrees.
ArgsAt(t, g) ==
    IF t.op = "leaf" THEN t.args ELSE FlattenSeq([i \in DOMAIN Kids(t) |-> g[Kids(t)[i]]])
IsArgs(f, n) ==
    f = [d \in 0..n |-> IF d = 0 THEN [t \in Trees |-> <<>>]
                        ELSE [t \in Trees |-> ArgsAt(t, f[d - 1])]]

LEMMA ArgsExist ==
  ASSUME NEW N \in Nat
  PROVE  \E f : IsArgs(f, N)
<1> DEFINE D == {n \in Nat : \E f : IsArgs(f, n)}
<1>1. 0 \in D
  <2>1. IsArgs([d \in 0..0 |-> [t \in Trees |-> <<>>]], 0)
    BY DEF IsArgs
  <2> QED
    BY <2>1
<1>2. ASSUME NEW n \in Nat, n \in D PROVE n + 1 \in D
  <2>1. PICK f : IsArgs(f, n)
    BY <1>2
  <2> DEFINE g == [d \in 0..(n + 1) |-> IF d = n + 1 THEN [t \in Trees |-> ArgsAt(t, f[n])] ELSE f[d]]
  <2>2. ASSUME NEW d \in 0..(n + 1)
        PROVE  g[d] = IF d = 0 THEN [t \in Trees |-> <<>>] ELSE [t \in Trees |-> ArgsAt(t, g[d - 1])]
    <3>1. CASE d = n + 1
      <4>1. d - 1 = n /\ n # n + 1 /\ n \in 0..(n + 1) /\ d # 0
        BY <3>1
      <4>2. g[d - 1] = f[n] /\ g[d] = [t \in Trees |-> ArgsAt(t, f[n])]
        BY <3>1, <4>1
      <4> HIDE DEF g
      <4> QED
        BY <4>1, <4>2
    <3>2. CASE d # n + 1
      <4>1. d \in 0..n /\ (d # 0 => d - 1 \in 0..(n + 1) /\ d - 1 # n + 1)
        BY <3>2
      <4>2. g[d] = f[d] /\ (d # 0 => g[d - 1] = f[d - 1])
        BY <3>2, <4>1
      <4>3. f[d] = IF d = 0 THEN [t \in Trees |-> <<>>] ELSE [t \in Trees |-> ArgsAt(t, f[d - 1])]
        BY <2>1, <4>1 DEF IsArgs
      <4> HIDE DEF g
      <4> QED
        BY <4>2, <4>3
    <3> QED
      BY <3>1, <3>2
  <2>3. g = [d \in 0..(n + 1) |-> g[d]]
    OBVIOUS
  <2> HIDE DEF g
  <2>4. IsArgs(g, n + 1)
    BY <2>2, <2>3 DEF IsArgs
  <2> QED
    BY <2>4
<1> HIDE DEF D
<1>3. N \in D
  BY <1>1, <1>2, NaturalInduction
<1> QED
  BY <1>3 DEF D

LEMMA ArgsLevels ==
  /\ ArgsTo[0] = [t \in Trees |-> <<>>]
  /\ \A d \in 1..MaxDepth : ArgsTo[d] = [t \in Trees |-> ArgsAt(t, ArgsTo[d - 1])]
<1>1. MaxDepth \in Nat
  BY TreeAssumption
<1>2. ArgsTo = CHOOSE f : IsArgs(f, MaxDepth)
  BY DEF ArgsTo, IsArgs, ArgsAt
<1>3. IsArgs(ArgsTo, MaxDepth)
  BY <1>1, <1>2, ArgsExist, Zenon
<1>4. \A d \in 0..MaxDepth : ArgsTo[d] = IF d = 0 THEN [t \in Trees |-> <<>>]
                                         ELSE [t \in Trees |-> ArgsAt(t, ArgsTo[d - 1])]
  BY <1>3 DEF IsArgs
<1>5. 0 \in 0..MaxDepth /\ \A d \in 1..MaxDepth : d \in 0..MaxDepth /\ d # 0
  BY <1>1
<1> QED
  BY <1>4, <1>5


\* The nodes of t that validate objects to, given those of its subtrees.
FaultsAt(preds, t, g) ==
    IF t.op = "leaf" THEN (IF LeafFits(t, preds) THEN {} ELSE {t})
    ELSE UNION {g[Kids(t)[i]] : i \in DOMAIN Kids(t)}
IsFaults(f, preds, n) ==
    f = [d \in 0..n |-> IF d = 0 THEN [t \in Trees |-> {t}]
                        ELSE [t \in Trees |-> FaultsAt(preds, t, f[d - 1])]]

LEMMA FaultsExist ==
  ASSUME NEW preds, NEW N \in Nat
  PROVE  \E f : IsFaults(f, preds, N)
<1> DEFINE D == {n \in Nat : \E f : IsFaults(f, preds, n)}
<1>1. 0 \in D
  <2>1. IsFaults([d \in 0..0 |-> [t \in Trees |-> {t}]], preds, 0)
    BY DEF IsFaults
  <2> QED
    BY <2>1
<1>2. ASSUME NEW n \in Nat, n \in D PROVE n + 1 \in D
  <2>1. PICK f : IsFaults(f, preds, n)
    BY <1>2
  <2> DEFINE g == [d \in 0..(n + 1) |->
                     IF d = n + 1 THEN [t \in Trees |-> FaultsAt(preds, t, f[n])] ELSE f[d]]
  <2>2. ASSUME NEW d \in 0..(n + 1)
        PROVE  g[d] = IF d = 0 THEN [t \in Trees |-> {t}]
                      ELSE [t \in Trees |-> FaultsAt(preds, t, g[d - 1])]
    <3>1. CASE d = n + 1
      <4>1. d - 1 = n /\ n # n + 1 /\ n \in 0..(n + 1) /\ d # 0
        BY <3>1
      <4>2. g[d - 1] = f[n] /\ g[d] = [t \in Trees |-> FaultsAt(preds, t, f[n])]
        BY <3>1, <4>1
      <4> HIDE DEF g
      <4> QED
        BY <3>1, <4>1, <4>2
    <3>2. CASE d # n + 1
      <4>1. d \in 0..n /\ (d # 0 => d - 1 \in 0..(n + 1) /\ d - 1 # n + 1)
        BY <3>2
      <4>2. g[d] = f[d] /\ (d # 0 => g[d - 1] = f[d - 1])
        BY <3>2, <4>1
      <4>3. f[d] = IF d = 0 THEN [t \in Trees |-> {t}]
                   ELSE [t \in Trees |-> FaultsAt(preds, t, f[d - 1])]
        BY <2>1, <4>1 DEF IsFaults
      <4> HIDE DEF g
      <4> QED
        BY <4>2, <4>3
    <3> QED
      BY <3>1, <3>2
  <2>3. g = [d \in 0..(n + 1) |-> g[d]]
    OBVIOUS
  <2> HIDE DEF g
  <2>4. IsFaults(g, preds, n + 1)
    BY <2>2, <2>3 DEF IsFaults
  <2> QED
    BY <2>4
<1> HIDE DEF D
<1>3. N \in D
  BY <1>1, <1>2, NaturalInduction
<1> QED
  BY <1>3 DEF D

LEMMA FaultsLevels ==
  ASSUME NEW preds, NEW tree
  PROVE  \E f : IsFaults(f, preds, MaxDepth) /\ Faults(preds, tree) = f[MaxDepth][tree]
<1>1. Faults(preds, tree) = (CHOOSE f : IsFaults(f, preds, MaxDepth))[MaxDepth][tree]
  BY DEF Faults, IsFaults, FaultsAt
<1>2. IsFaults(CHOOSE f : IsFaults(f, preds, MaxDepth), preds, MaxDepth)
  BY TreeAssumption, FaultsExist, Zenon
<1> QED
  BY <1>1, <1>2

\* What is written of t at level d, given what is written of its subtrees.
EmitAt(preds, d, t, base, g) ==
    CASE t.op \in {"zero", "true"} -> <<Text("TRUE")>>
      [] t.op = "leaf" ->
             <<Text("(")>> \o EmitFrom(At(preds, t.pred + 1, <<>>), "tree", base) \o <<Text(")")>>
      [] OTHER ->
             <<Text("(")>>
             \o Joined([i \in DOMAIN t.kids |-> g[t.kids[i]][TreeArgBase(base, d - 1, t.kids, i)]],
                       IF t.op = "or" THEN " OR " ELSE " AND ")
             \o <<Text(")")>>
IsEmit(f, preds, n) ==
    f = [d \in 0..n |-> IF d = 0 THEN [t \in Trees |-> [base \in Int |-> <<>>]]
                        ELSE [t \in Trees |-> [base \in Int |-> EmitAt(preds, d, t, base, f[d - 1])]]]

LEMMA EmitExist ==
  ASSUME NEW preds, NEW N \in Nat
  PROVE  \E f : IsEmit(f, preds, N)
<1> DEFINE D == {n \in Nat : \E f : IsEmit(f, preds, n)}
<1>1. 0 \in D
  <2>1. IsEmit([d \in 0..0 |-> [t \in Trees |-> [base \in Int |-> <<>>]]], preds, 0)
    BY DEF IsEmit
  <2> QED
    BY <2>1
<1>2. ASSUME NEW n \in Nat, n \in D PROVE n + 1 \in D
  <2>1. PICK f : IsEmit(f, preds, n)
    BY <1>2
  <2> DEFINE g == [d \in 0..(n + 1) |->
                     IF d = n + 1 THEN [t \in Trees |-> [base \in Int |-> EmitAt(preds, (n + 1), t, base, f[n])]] ELSE f[d]]
  <2>2. ASSUME NEW d \in 0..(n + 1)
        PROVE  g[d] = IF d = 0 THEN [t \in Trees |-> [base \in Int |-> <<>>]]
                      ELSE [t \in Trees |-> [base \in Int |-> EmitAt(preds, d, t, base, g[d - 1])]]
    <3>1. CASE d = n + 1
      <4>1. d - 1 = n /\ n # n + 1 /\ n \in 0..(n + 1) /\ d # 0
        BY <3>1
      <4>2. g[d - 1] = f[n] /\ g[d] = [t \in Trees |-> [base \in Int |-> EmitAt(preds, (n + 1), t, base, f[n])]]
        BY <3>1, <4>1
      <4> HIDE DEF g
      <4> QED
        BY <3>1, <4>1, <4>2
    <3>2. CASE d # n + 1
      <4>1. d \in 0..n /\ (d # 0 => d - 1 \in 0..(n + 1) /\ d - 1 # n + 1)
        BY <3>2
      <4>2. g[d] = f[d] /\ (d # 0 => g[d - 1] = f[d - 1])
        BY <3>2, <4>1
      <4>3. f[d] = IF d = 0 THEN [t \in Trees |-> [base \in Int |-> <<>>]]
                   ELSE [t \in Trees |-> [base \in Int |-> EmitAt(preds, d, t, base, f[d - 1])]]
        BY <2>1, <4>1 DEF IsEmit
      <4> HIDE DEF g
      <4> QED
        BY <4>2, <4>3
    <3> QED
      BY <3>1, <3>2
  <2>3. g = [d \in 0..(n + 1) |-> g[d]]
    OBVIOUS
  <2> HIDE DEF g
  <2>4. IsEmit(g, preds, n + 1)
    BY <2>2, <2>3 DEF IsEmit
  <2> QED
    BY <2>4
<1> HIDE DEF D
<1>3. N \in D
  BY <1>1, <1>2, NaturalInduction
<1> QED
  BY <1>3 DEF D

LEMMA EmitLevels ==
  ASSUME NEW preds, NEW tree
  PROVE  \E f : IsEmit(f, preds, MaxDepth) /\ EmitTree(preds, tree) = f[MaxDepth][tree][0]
<1>1. EmitTree(preds, tree) = (CHOOSE f : IsEmit(f, preds, MaxDepth))[MaxDepth][tree][0]
  BY DEF EmitTree, IsEmit, EmitAt
<1>2. IsEmit(CHOOSE f : IsEmit(f, preds, MaxDepth), preds, MaxDepth)
  BY TreeAssumption, EmitExist, Zenon
<1> QED
  BY <1>1, <1>2

\* What t asks for, given what its subtrees ask for.
TextAt(preds, t, g) ==
    CASE t.op \in {"zero", "true"} -> <<Text("TRUE")>>
      [] t.op = "leaf" -> LeafText(t, At(preds, t.pred + 1, <<>>))
      [] OTHER ->
             <<Text("(")>>
             \o Joined([i \in DOMAIN t.kids |-> g[t.kids[i]]], IF t.op = "or" THEN " OR " ELSE " AND ")
             \o <<Text(")")>>
IsText(f, preds, n) ==
    f = [d \in 0..n |-> IF d = 0 THEN [t \in Trees |-> <<>>]
                        ELSE [t \in Trees |-> TextAt(preds, t, f[d - 1])]]

LEMMA TextExist ==
  ASSUME NEW preds, NEW N \in Nat
  PROVE  \E f : IsText(f, preds, N)
<1> DEFINE D == {n \in Nat : \E f : IsText(f, preds, n)}
<1>1. 0 \in D
  <2>1. IsText([d \in 0..0 |-> [t \in Trees |-> <<>>]], preds, 0)
    BY DEF IsText
  <2> QED
    BY <2>1
<1>2. ASSUME NEW n \in Nat, n \in D PROVE n + 1 \in D
  <2>1. PICK f : IsText(f, preds, n)
    BY <1>2
  <2> DEFINE g == [d \in 0..(n + 1) |->
                     IF d = n + 1 THEN [t \in Trees |-> TextAt(preds, t, f[n])] ELSE f[d]]
  <2>2. ASSUME NEW d \in 0..(n + 1)
        PROVE  g[d] = IF d = 0 THEN [t \in Trees |-> <<>>]
                      ELSE [t \in Trees |-> TextAt(preds, t, g[d - 1])]
    <3>1. CASE d = n + 1
      <4>1. d - 1 = n /\ n # n + 1 /\ n \in 0..(n + 1) /\ d # 0
        BY <3>1
      <4>2. g[d - 1] = f[n] /\ g[d] = [t \in Trees |-> TextAt(preds, t, f[n])]
        BY <3>1, <4>1
      <4> HIDE DEF g
      <4> QED
        BY <3>1, <4>1, <4>2
    <3>2. CASE d # n + 1
      <4>1. d \in 0..n /\ (d # 0 => d - 1 \in 0..(n + 1) /\ d - 1 # n + 1)
        BY <3>2
      <4>2. g[d] = f[d] /\ (d # 0 => g[d - 1] = f[d - 1])
        BY <3>2, <4>1
      <4>3. f[d] = IF d = 0 THEN [t \in Trees |-> <<>>]
                   ELSE [t \in Trees |-> TextAt(preds, t, f[d - 1])]
        BY <2>1, <4>1 DEF IsText
      <4> HIDE DEF g
      <4> QED
        BY <4>2, <4>3
    <3> QED
      BY <3>1, <3>2
  <2>3. g = [d \in 0..(n + 1) |-> g[d]]
    OBVIOUS
  <2> HIDE DEF g
  <2>4. IsText(g, preds, n + 1)
    BY <2>2, <2>3 DEF IsText
  <2> QED
    BY <2>4
<1> HIDE DEF D
<1>3. N \in D
  BY <1>1, <1>2, NaturalInduction
<1> QED
  BY <1>3 DEF D

LEMMA TextLevels ==
  ASSUME NEW preds, NEW tree
  PROVE  \E f : IsText(f, preds, MaxDepth) /\ TreeText(preds, tree) = f[MaxDepth][tree]
<1>1. TreeText(preds, tree) = (CHOOSE f : IsText(f, preds, MaxDepth))[MaxDepth][tree]
  BY DEF TreeText, IsText, TextAt
<1>2. IsText(CHOOSE f : IsText(f, preds, MaxDepth), preds, MaxDepth)
  BY TreeAssumption, TextExist, Zenon
<1> QED
  BY <1>1, <1>2

-----------------------------------------------------------------------------
(* Every leaf finds its own arguments.                                     *)

LEMMA ArgsAtLevel ==
  ASSUME NEW d \in 1..MaxDepth, NEW t \in Trees
  PROVE  ArgsTo[d][t] = ArgsAt(t, ArgsTo[d - 1])
BY ArgsLevels

KidArgs(d, t) == [i \in 1..Len(t.kids) |-> ArgsTo[d][t.kids[i]]]

LEMMA ArgsTyped ==
  \A d \in 0..MaxDepth : \A t \in Trees : ArgsTo[d][t] \in Seq(LeafArg)
<1> DEFINE D == {d \in 0..MaxDepth : \A t \in Trees : ArgsTo[d][t] \in Seq(LeafArg)}
<1>0. MaxDepth \in Nat
  BY TreeAssumption
<1>1. 0 \in D
  <2>1. 0 \in 0..MaxDepth /\ <<>> \in Seq(LeafArg)
    BY <1>0
  <2>2. \A t \in Trees : ArgsTo[0][t] = <<>>
    BY ArgsLevels
  <2> QED
    BY <2>1, <2>2
<1>2. ASSUME NEW d \in 1..MaxDepth, d - 1 \in D PROVE d \in D
  <2>1. ASSUME NEW t \in Trees PROVE ArgsTo[d][t] \in Seq(LeafArg)
    <3>1. ArgsTo[d][t] = ArgsAt(t, ArgsTo[d - 1])
      BY ArgsAtLevel
    <3>2. CASE t.op = "leaf"
      <4>1. t.args \in Seq(LeafArg)
        BY <3>2, TreeFields
      <4> QED
        BY <3>1, <3>2, <4>1 DEF ArgsAt
    <3>3. CASE t.op # "leaf"
      <4> DEFINE kids == Kids(t)
                 S == [i \in DOMAIN kids |-> ArgsTo[d - 1][kids[i]]]
      <4>1. kids \in Seq(Trees)
        <5>1. <<>> \in Seq(Trees)
          OBVIOUS
        <5> QED
          BY <5>1, TreeFields
      <4>2. ArgsAt(t, ArgsTo[d - 1]) = FlattenSeq(S)
        BY <3>3 DEF ArgsAt
      <4> HIDE DEF kids
      <4>3. DOMAIN kids = 1..Len(kids) /\ Len(kids) \in Nat
        BY <4>1
      <4>4. ASSUME NEW i \in 1..Len(kids) PROVE S[i] \in Seq(LeafArg)
        <5>1. kids[i] \in Trees
          BY <4>1, ElementIn
        <5> QED
          BY <1>2, <4>3, <5>1
      <4>5. S = [i \in 1..Len(kids) |-> S[i]]
        BY <4>3
      <4> HIDE DEF S
      <4>6. S \in Seq(Seq(LeafArg))
        BY <4>3, <4>4, <4>5
      <4>7. FlattenSeq(S) \in Seq(LeafArg)
        BY <4>6, FlattenMembers
      <4> QED
        BY <3>1, <4>2, <4>7
    <3> QED
      BY <3>2, <3>3
  <2>2. d \in 0..MaxDepth
    BY <1>0
  <2> QED
    BY <2>1, <2>2
<1> HIDE DEF D
<1>3. \A d \in 0..MaxDepth : d \in D
  BY <1>0, <1>1, <1>2, LoopInduction
<1> QED
  BY <1>3 DEF D

LEMMA InnerArgs ==
  ASSUME NEW d \in 1..MaxDepth, NEW t \in Trees, t.op \in {"and", "or"}
  PROVE  /\ KidArgs(d - 1, t) \in Seq(Seq(LeafArg)) /\ Len(KidArgs(d - 1, t)) = Len(t.kids)
         /\ ArgsTo[d][t] = FlattenSeq(KidArgs(d - 1, t))
         /\ t.kids \in Seq(Trees) /\ Len(t.kids) \in Nat /\ DOMAIN t.kids = 1..Len(t.kids)
<1>1. t.kids \in Seq(Trees) /\ Kids(t) = t.kids
  BY TreeFields
<1>2. Len(t.kids) \in Nat /\ DOMAIN t.kids = 1..Len(t.kids)
  BY <1>1
<1>3. d - 1 \in 0..MaxDepth
  BY TreeAssumption
<1>4. ASSUME NEW i \in 1..Len(t.kids) PROVE KidArgs(d - 1, t)[i] \in Seq(LeafArg)
  <2>1. t.kids[i] \in Trees
    BY <1>1, ElementIn
  <2> QED
    BY <1>3, <2>1, ArgsTyped DEF KidArgs
<1>5. KidArgs(d - 1, t) = [i \in 1..Len(t.kids) |-> KidArgs(d - 1, t)[i]]
  BY DEF KidArgs
<1>6. KidArgs(d - 1, t) \in Seq(Seq(LeafArg)) /\ Len(KidArgs(d - 1, t)) = Len(t.kids)
  BY <1>2, <1>4, <1>5
<1>7. ArgsTo[d][t] = FlattenSeq([i \in DOMAIN t.kids |-> ArgsTo[d - 1][t.kids[i]]])
  BY <1>1, ArgsAtLevel DEF ArgsAt
<1> QED
  BY <1>1, <1>2, <1>6, <1>7 DEF KidArgs

\* The base handed to a subtree is where its arguments start.
LEMMA KidBase ==
  ASSUME NEW d \in 1..MaxDepth, NEW t \in Trees, t.op \in {"and", "or"},
         NEW args, NEW base, Slice(args, base, ArgsTo[d][t]), Len(args) <= MaxIndex,
         NEW i \in 1..Len(t.kids)
  PROVE  Slice(args, TreeArgBase(base, d - 1, t.kids, i), ArgsTo[d - 1][t.kids[i]])
<1> DEFINE s == KidArgs(d - 1, t)
<1>1. /\ s \in Seq(Seq(LeafArg)) /\ Len(s) = Len(t.kids) /\ ArgsTo[d][t] = FlattenSeq(s)
      /\ Len(t.kids) \in Nat
  BY InnerArgs
<1>2. s[i] = ArgsTo[d - 1][t.kids[i]]
  BY DEF KidArgs
<1>3. [j \in 1..(i - 1) |-> ArgsTo[d - 1][t.kids[j]]] = [j \in 1..(i - 1) |-> s[j]]
  <2>1. \A j \in 1..(i - 1) : j \in 1..Len(t.kids)
    BY <1>1
  <2> QED
    BY <2>1 DEF KidArgs
<1> HIDE DEF s
<1>4. PICK f : JoinsIn(f, s, LeafArg) /\ FlattenSeq(s) = f[Len(s)]
  BY <1>1, JoinsExist
<1>5. i - 1 \in 0..Len(s) /\ i \in 1..Len(s)
  BY <1>1
<1>6. FlattenSeq([j \in 1..(i - 1) |-> s[j]]) = f[i - 1]
  <2>1. PICK k \in 0..Len(s) : k = i - 1
    BY <1>5
  <2>2. s \in Seq(Seq(LeafArg)) /\ f \in [0..Len(s) -> Seq(LeafArg)] /\ Joins(f, s)
    BY <1>4 DEF JoinsIn
  <2>3. FlattenSeq([j \in 1..k |-> s[j]]) = f[k]
    BY <2>2, FlattenPrefix
  <2> QED
    BY <2>1, <2>3
<1>7. PICK from : from = base + Len(f[i - 1])
  OBVIOUS
<1>8. Slice(args, from, s[i])
  BY <1>1, <1>4, <1>5, <1>7, SliceOfPart
<1>9. from \in Int /\ from <= MaxIndex
  <2>1. from \in Nat /\ Len(s[i]) \in Nat /\ Len(args) \in Nat /\ from + Len(s[i]) <= Len(args)
    BY <1>8 DEF Slice
  <2> QED
    BY <2>1, TreeAssumption
<1>10. TreeArgBase(base, d - 1, t.kids, i) = from
  <2>1. TreeArgBase(base, d - 1, t.kids, i) = Wrap(from)
    BY <1>3, <1>6, <1>7 DEF TreeArgBase
  <2> QED
    BY <1>9, <2>1, WrapInt
<1> QED
  BY <1>2, <1>8, <1>10

\* leafArity covers every index of the predicate.
LEMMA ArityCovers ==
  ASSUME NEW sp, NEW n \in Nat,
         \A j \in DOMAIN sp : "idx" \in DOMAIN sp[j] => sp[j].idx + 1 \in 0..n
  PROVE  \A j \in DOMAIN sp : "idx" \in DOMAIN sp[j] => sp[j].idx + 1 <= LeafArity(sp)
<1> DEFINE S == {0} \cup {sp[i].idx + 1 : i \in {j \in DOMAIN sp : "idx" \in DOMAIN sp[j]}}
<1>1. S \subseteq 0..n /\ 0 \in S
  OBVIOUS
<1>2. \A j \in DOMAIN sp : "idx" \in DOMAIN sp[j] => sp[j].idx + 1 \in S
  OBVIOUS
<1>3. LeafArity(sp) = Max(S)
  BY DEF LeafArity
<1> HIDE DEF S
<1>4. \E x \in S : \A y \in S : x >= y
  <2> DEFINE B == {n - x : x \in S}
  <2>1. B \in SUBSET Nat /\ B # {}
    BY <1>1
  <2>2. PICK m \in B : \A k \in B : m <= k
    <3> HIDE DEF B
    <3> QED
      BY <2>1, LeastNatural
  <2>3. PICK x \in S : m = n - x
    BY <2>2
  <2>4. ASSUME NEW y \in S PROVE x >= y
    <3>1. n - y \in B
      OBVIOUS
    <3>2. m <= n - y
      BY <2>2, <3>1
    <3>3. x \in 0..n /\ y \in 0..n
      BY <1>1, <2>3
    <3> QED
      BY <2>3, <3>2, <3>3
  <2> QED
    BY <2>3, <2>4
<1>5. \A y \in S : Max(S) >= y
  BY <1>4 DEF Max
<1>6. Max(S) \in S
  BY <1>4 DEF Max
<1>7. ASSUME NEW j \in DOMAIN sp, "idx" \in DOMAIN sp[j] PROVE sp[j].idx + 1 <= LeafArity(sp)
  <2>1. PICK y \in S : y = sp[j].idx + 1
    BY <1>2, <1>7
  <2>2. PICK x \in S : x = Max(S)
    BY <1>6
  <2>3. x >= y /\ x \in 0..n /\ y \in 0..n
    BY <1>1, <1>5, <2>1, <2>2
  <2>4. y <= x
    BY <2>3
  <2> QED
    BY <1>3, <2>1, <2>2, <2>4
<1> QED
  BY <1>7

\* Sequences whose elements correspond.
LEMMA ImageAt ==
  ASSUME NEW m, NEW X, NEW n \in Nat, NEW u, NEW v, u = [i \in 1..n |-> u[i]], v = [i \in 1..n |-> v[i]],
         \A i \in 1..n : u[i] \in X /\ m[u[i]] = v[i]
  PROVE  Image(m, X, u, v)
<1>1. u \in Seq(X) /\ Len(u) = n
  OBVIOUS
<1>2. Mapped(m, u) = [i \in 1..n |-> m[u[i]]]
  BY <1>1 DEF Mapped
<1>3. v = [i \in 1..n |-> m[u[i]]]
  OBVIOUS
<1> QED
  BY <1>1, <1>2, <1>3 DEF Image

\* w is a sequence.
Listing(w) == w = [j \in 1..Len(w) |-> w[j]]

\* A write of a tree: a word, or a bind of one of the tree's arguments.
TreeCell(args) ==
    {w \in Cell : "bind" \in DOMAIN w => w.bind.from = "tree" /\ w.bind.idx + 1 \in 1..Len(args)}

LEMMA TreeWord ==
  ASSUME NEW fields, NEW args, NEW w \in Word
  PROVE  w \in TreeCell(args) /\ Value(fields, args)[w] = w
<1>1. w \in Cell /\ Value(fields, args)[w] = w
  BY ValueWord
<1>2. "bind" \notin DOMAIN w
  BY WordFields
<1> QED
  BY <1>1, <1>2 DEF TreeCell

LEMMA TreeMaps ==
  ASSUME NEW fields, NEW args
  PROVE  Maps(Value(fields, args), TreeCell(args), Meaning(fields, args))
BY DEF Maps, Meaning, TreeCell

\* An argument of a leaf is read where the leaf's arguments lie.
LEMMA ValueOfLeaf ==
  ASSUME NEW fields, NEW args, Len(args) <= MaxIndex, NEW base, NEW u, Slice(args, base, u),
         Listing(args),
         NEW n \in 1..Len(u), NEW b, b = Bind("tree", base + (n - 1), 0)
  PROVE  b \in TreeCell(args) /\ Value(fields, args)[b] = [val |-> u[n]]
<1>1. /\ base \in Nat /\ Len(u) \in Nat /\ Len(args) \in Nat /\ base + Len(u) <= Len(args)
      /\ args[base + n] = u[n]
  BY DEF Slice
<1>2. PICK k : k = base + (n - 1)
  OBVIOUS
<1>3. k \in Int /\ k <= MaxIndex /\ k + 1 = base + n /\ k + 1 \in 1..Len(args) /\ 0 <= MaxIndex
  BY <1>1, <1>2, TreeAssumption
<1>4. b = Bind("tree", k, 0)
  BY <1>2
<1>5. /\ b \in Cell /\ b.bind = [from |-> "tree", idx |-> Wrap(k), elem |-> Wrap(0)]
      /\ "bind" \in DOMAIN b
  BY <1>3, <1>4, BindTyped, BindFields
<1>6. Wrap(k) = k
  BY <1>3, WrapInt
<1>7. b.bind.from = "tree" /\ b.bind.idx = k
  BY <1>5, <1>6
<1>8. At(args, k + 1, <<"out of range", 0>>) = u[n]
  <2>1. DOMAIN args = 1..Len(args)
    BY DEF Listing
  <2> QED
    BY <1>1, <1>3, <2>1 DEF At
<1>9. Resolve(b.bind, fields, args) = u[n]
  BY <1>7, <1>8 DEF Resolve
<1>10. b \in TreeCell(args)
  BY <1>3, <1>5, <1>7 DEF TreeCell
<1> QED
  BY <1>5, <1>9, <1>10 DEF Value

LEMMA LeafBodyMeans ==
  ASSUME NEW fields, NEW args, Len(args) <= MaxIndex, Listing(args),
         NEW base, NEW u, Slice(args, base, u),
         NEW body \in Body, NEW own, own = Distinct(ParamsOf(body)),
         NEW sp, sp = Spans(body, own), Len(u) = LeafArity(sp)
  PROVE  Image(Value(fields, args), TreeCell(args), EmitFrom(sp, "tree", base),
               [i \in DOMAIN body |-> IF IsParam(body[i]) THEN [val |-> u[IndexIn(own, body[i].param)]]
                                      ELSE body[i]])
<1> DEFINE m == Value(fields, args)
           w == EmitFrom(sp, "tree", base)
           v == [i \in DOMAIN body |-> IF IsParam(body[i]) THEN [val |-> u[IndexIn(own, body[i].param)]]
                                       ELSE body[i]]
<1>1. /\ DOMAIN body = 1..Len(body) /\ Len(body) \in Nat
      /\ \A i \in 1..Len(body) : body[i] \in Piece
  <2>1. \A i \in 1..Len(body) : body[i] \in Piece
    BY ElementIn, TokenPieces DEF Body
  <2> QED
    BY <2>1 DEF Body
<1>2. /\ ParamsOf(body) \in Seq(STRING)
      /\ \A i \in 1..Len(body) : IsParam(body[i]) => body[i].param \in ToSet(ParamsOf(body))
  BY ParamsOfMembers
<1>3. own \in Seq(STRING) /\ \A x : x \in ToSet(own) <=> x \in ToSet(ParamsOf(body))
  BY <1>2, DistinctMembers
<1>4. Len(own) \in Nat /\ base \in Nat
  BY <1>3, LenNat DEF Slice
<1>5. ASSUME NEW i \in 1..Len(body), IsParam(body[i])
      PROVE  /\ IndexIn(own, body[i].param) \in 1..Len(own)
             /\ sp[i] = [idx |-> IndexIn(own, body[i].param) - 1]
  <2>1. Contains(own, body[i].param)
    BY <1>2, <1>3, <1>5, InSet
  <2>2. IndexIn(own, body[i].param) \in 1..Len(own)
    BY <1>4, <2>1, IndexAt
  <2>3. sp[i] = [idx |-> IndexIn(own, body[i].param) - 1]
    BY <1>1, <1>5, <2>1 DEF Spans
  <2> QED
    BY <2>2, <2>3
<1>6. ASSUME NEW i \in 1..Len(body), ~IsParam(body[i])
      PROVE  sp[i] = body[i] /\ body[i] \in Word /\ "idx" \notin DOMAIN sp[i]
  <2>1. sp[i] = body[i]
    BY <1>1, <1>6 DEF Spans
  <2>2. body[i] \in Word
    BY <1>1, <1>6, PieceKinds
  <2> QED
    BY <2>1, <2>2, WordFields
<1>7. DOMAIN sp = 1..Len(body)
  BY <1>1 DEF Spans
<1>8. \A j \in DOMAIN sp : "idx" \in DOMAIN sp[j] => sp[j].idx + 1 \in 0..Len(own)
  <2> SUFFICES ASSUME NEW j \in 1..Len(body), "idx" \in DOMAIN sp[j]
               PROVE  sp[j].idx + 1 \in 0..Len(own)
    BY <1>7
  <2>1. IsParam(body[j])
    BY <1>6
  <2>2. PICK n \in 1..Len(own) : n = IndexIn(own, body[j].param)
    BY <1>5, <2>1
  <2>3. sp[j] = [idx |-> n - 1]
    BY <1>5, <2>1, <2>2
  <2>4. sp[j].idx = n - 1
    BY <2>3
  <2> QED
    BY <1>4, <2>4
<1>9. \A j \in DOMAIN sp : "idx" \in DOMAIN sp[j] => sp[j].idx + 1 <= LeafArity(sp)
  BY <1>4, <1>8, ArityCovers
<1>10. ASSUME NEW i \in 1..Len(body) PROVE w[i] \in TreeCell(args) /\ m[w[i]] = v[i]
  <2>1. w[i] = IF "idx" \in DOMAIN sp[i] THEN Bind("tree", base + sp[i].idx, 0) ELSE sp[i]
    BY <1>7 DEF EmitFrom
  <2>2. v[i] = IF IsParam(body[i]) THEN [val |-> u[IndexIn(own, body[i].param)]] ELSE body[i]
    BY <1>1
  <2> HIDE DEF v, w
  <2>3. CASE IsParam(body[i])
    <3>1. PICK n \in 1..Len(own) : n = IndexIn(own, body[i].param)
      BY <1>5, <2>3
    <3>2. sp[i] = [idx |-> n - 1]
      BY <1>5, <2>3, <3>1
    <3>3. "idx" \in DOMAIN sp[i] /\ sp[i].idx = n - 1
      BY <3>2
    <3>4. n \in 1..Len(u)
      <4>1. sp[i].idx + 1 <= LeafArity(sp)
        BY <1>7, <1>9, <3>3
      <4>2. (n - 1) + 1 <= Len(u) /\ Len(u) \in Nat
        BY <3>3, <4>1 DEF Slice
      <4> QED
        BY <4>2
    <3>5. w[i] = Bind("tree", base + (n - 1), 0)
      BY <2>1, <3>3
    <3>6. w[i] \in TreeCell(args) /\ m[w[i]] = [val |-> u[n]]
      BY <3>4, <3>5, ValueOfLeaf
    <3> QED
      BY <2>2, <2>3, <3>1, <3>6
  <2>4. CASE ~IsParam(body[i])
    <3>1. w[i] = body[i] /\ body[i] \in Word
      BY <1>6, <2>1, <2>4
    <3> QED
      BY <2>2, <2>4, <3>1, TreeWord
  <2> QED
    BY <2>3, <2>4
<1>11. w = [i \in 1..Len(body) |-> w[i]] /\ v = [i \in 1..Len(body) |-> v[i]]
  BY <1>1, <1>7 DEF EmitFrom
<1> HIDE DEF m, v, w
<1>12. Image(m, TreeCell(args), w, v)
  BY <1>1, <1>10, <1>11, ImageAt
<1> QED
  BY <1>12 DEF m, v, w

LEMMA FaultsAtLevel ==
  ASSUME NEW preds, NEW f, IsFaults(f, preds, MaxDepth), NEW t \in Trees
  PROVE  f[0][t] = {t} /\ \A d \in 1..MaxDepth : f[d][t] = FaultsAt(preds, t, f[d - 1])
<1>1. 0 \in 0..MaxDepth
  BY TreeAssumption
<1>2. f[0] = [x \in Trees |-> {x}]
  BY <1>1 DEF IsFaults
<1>3. ASSUME NEW d \in 1..MaxDepth PROVE f[d][t] = FaultsAt(preds, t, f[d - 1])
  <2>1. d \in 0..MaxDepth /\ d # 0
    BY TreeAssumption
  <2>2. f[d] = [x \in Trees |-> FaultsAt(preds, x, f[d - 1])]
    BY <2>1 DEF IsFaults
  <2> QED
    BY <2>2
<1> QED
  BY <1>2, <1>3

LEMMA TextAtLevel ==
  ASSUME NEW preds, NEW f, IsText(f, preds, MaxDepth), NEW t \in Trees, NEW d \in 1..MaxDepth
  PROVE  f[d][t] = TextAt(preds, t, f[d - 1])
<1>1. d \in 0..MaxDepth /\ d # 0
  BY TreeAssumption
<1>2. f[d] = [x \in Trees |-> TextAt(preds, x, f[d - 1])]
  BY <1>1 DEF IsText
<1> QED
  BY <1>2

LEMMA EmitAtLevel ==
  ASSUME NEW preds, NEW f, IsEmit(f, preds, MaxDepth), NEW t \in Trees, NEW d \in 1..MaxDepth,
         NEW base \in Int
  PROVE  f[d][t][base] = EmitAt(preds, d, t, base, f[d - 1])
<1>1. d \in 0..MaxDepth /\ d # 0
  BY TreeAssumption
<1>2. f[d] = [x \in Trees |-> [b \in Int |-> EmitAt(preds, d, x, b, f[d - 1])]]
  BY <1>1 DEF IsEmit
<1> QED
  BY <1>2

\* What is written between parentheses.
LEMMA ImageParens ==
  ASSUME NEW fields, NEW args, NEW u, NEW v, Image(Value(fields, args), TreeCell(args), u, v)
  PROVE  Image(Value(fields, args), TreeCell(args), <<Text("(")>> \o u \o <<Text(")")>>,
                                          <<Text("(")>> \o v \o <<Text(")")>>)
<1> DEFINE m == Value(fields, args)
           a == <<Text("(")>>
           z == <<Text(")")>>
<1>1. Text("(") \in TreeCell(args) /\ m[Text("(")] = Text("(") /\ Text(")") \in TreeCell(args) /\ m[Text(")")] = Text(")")
  BY LitWords, TreeWord
<1>2. Maps(m, TreeCell(args), Meaning(fields, args))
  BY TreeMaps
<1> HIDE DEF m
<1>3. Image(m, TreeCell(args), a, a) /\ Image(m, TreeCell(args), z, z)
  BY <1>1, ImageOne
<1>4. Image(m, TreeCell(args), u, v)
  BY DEF m
<1> HIDE DEF a, z
<1>5. Image(m, TreeCell(args), a \o u, a \o v)
  BY <1>2, <1>3, <1>4, ImageConcat
<1>6. Image(m, TreeCell(args), a \o u \o z, a \o v \o z)
  BY <1>2, <1>3, <1>5, ImageConcat
<1> QED
  BY <1>6 DEF m, a, z

\* The fragments of a tree's predicates.
PredSpans(preds) == [i \in DOMAIN preds |-> Spans(preds[i], Distinct(ParamsOf(preds[i])))]

\* A leaf that fits writes its predicate with its own arguments.
LEMMA LeafMeans ==
  ASSUME NEW fields, NEW args, Len(args) <= MaxIndex, Listing(args),
         NEW preds \in Seq(Body), NEW t \in Trees, t.op = "leaf", LeafFits(t, PredSpans(preds)),
         NEW base, Slice(args, base, t.args)
  PROVE  Image(Value(fields, args), TreeCell(args),
               <<Text("(")>> \o EmitFrom(At(PredSpans(preds), t.pred + 1, <<>>), "tree", base) \o <<Text(")")>>,
               LeafText(t, At(preds, t.pred + 1, <<>>)))
<1>1. PICK n : n = t.pred + 1
  OBVIOUS
<1>2. Len(preds) \in Nat /\ DOMAIN preds = 1..Len(preds) /\ DOMAIN PredSpans(preds) = 1..Len(preds)
      /\ Len(PredSpans(preds)) = Len(preds)
  BY DEF PredSpans
<1>3. n \in 1..Len(preds) /\ Len(t.args) = LeafArity(PredSpans(preds)[n])
  <2>1. t.pred \in 0..(Len(PredSpans(preds)) - 1) /\ Len(t.args) = LeafArity(PredSpans(preds)[t.pred + 1])
    BY DEF LeafFits
  <2> QED
    BY <1>1, <1>2, <2>1
<1>4. PICK body \in Body : body = preds[n]
  BY <1>3, ElementIn
<1>5. PICK own : own = Distinct(ParamsOf(body))
  OBVIOUS
<1>6. PICK sp : sp = Spans(body, own)
  OBVIOUS
<1>7. PredSpans(preds)[n] = sp
  BY <1>2, <1>3, <1>4, <1>5, <1>6 DEF PredSpans
<1>8. At(PredSpans(preds), t.pred + 1, <<>>) = sp /\ At(preds, t.pred + 1, <<>>) = body
  BY <1>1, <1>2, <1>3, <1>4, <1>7 DEF At
<1> DEFINE v == [i \in DOMAIN body |-> IF IsParam(body[i]) THEN [val |-> t.args[IndexIn(own, body[i].param)]]
                                       ELSE body[i]]
<1>9. Image(Value(fields, args), TreeCell(args), EmitFrom(sp, "tree", base), v)
  BY <1>3, <1>5, <1>6, <1>7, LeafBodyMeans
<1>10. LeafText(t, body) = <<Text("(")>> \o v \o <<Text(")")>>
  BY <1>5 DEF LeafText
<1> HIDE DEF v
<1>11. Image(Value(fields, args), TreeCell(args), <<Text("(")>> \o EmitFrom(sp, "tree", base) \o <<Text(")")>>,
                                        <<Text("(")>> \o v \o <<Text(")")>>)
  BY <1>9, ImageParens
<1> QED
  BY <1>8, <1>10, <1>11

\* By induction on the levels left, a subtree writes what it asks for.
LEMMA WalkMeans ==
  ASSUME NEW fields, NEW args, Len(args) <= MaxIndex, Listing(args),
         NEW preds \in Seq(Body), NEW F, IsFaults(F, PredSpans(preds), MaxDepth),
         NEW E, IsEmit(E, PredSpans(preds), MaxDepth), NEW T, IsText(T, preds, MaxDepth)
  PROVE  \A d \in 0..MaxDepth : \A t \in Trees, base \in Int :
            F[d][t] = {} /\ Slice(args, base, ArgsTo[d][t])
            => Image(Value(fields, args), TreeCell(args), E[d][t][base], T[d][t])
<1> DEFINE m == Value(fields, args)
           cases == PredSpans(preds)
           Means(d, t, base) == F[d][t] = {} /\ Slice(args, base, ArgsTo[d][t])
                                => Image(m, TreeCell(args), E[d][t][base], T[d][t])
           D == {d \in 0..MaxDepth : \A t \in Trees, base \in Int : Means(d, t, base)}
<1>0. MaxDepth \in Nat \ {0}
  BY TreeAssumption
<1>1. 0 \in D
  <2>1. 1 \in 1..MaxDepth /\ 0 \in 0..MaxDepth
    BY <1>0
  <2>2. \A t \in Trees : F[0][t] = {t}
    BY FaultsAtLevel
  <2>3. \A t \in Trees, base \in Int : Means(0, t, base)
    BY <2>2
  <2> QED
    BY <2>1, <2>3
<1>2. ASSUME NEW d \in 1..MaxDepth, d - 1 \in D PROVE d \in D
  <2>1. d \in 0..MaxDepth
    BY <1>0
  <2>2. ASSUME NEW t \in Trees, NEW base \in Int, F[d][t] = {}, Slice(args, base, ArgsTo[d][t])
        PROVE  Image(m, TreeCell(args), E[d][t][base], T[d][t])
    <3>1. /\ F[d][t] = FaultsAt(cases, t, F[d - 1]) /\ T[d][t] = TextAt(preds, t, T[d - 1])
          /\ E[d][t][base] = EmitAt(cases, d, t, base, E[d - 1])
      <4> HIDE DEF cases
      <4>1. IsFaults(F, cases, MaxDepth) /\ IsEmit(E, cases, MaxDepth)
        BY DEF cases
      <4>2. F[d][t] = FaultsAt(cases, t, F[d - 1])
        BY <4>1, FaultsAtLevel
      <4>3. E[d][t][base] = EmitAt(cases, d, t, base, E[d - 1])
        BY <4>1, EmitAtLevel
      <4> QED
        BY <4>2, <4>3, TextAtLevel
    <3>2. CASE t.op \in {"zero", "true"}
      <4>1. T[d][t] = <<Text("TRUE")>> /\ E[d][t][base] = <<Text("TRUE")>>
        BY <3>1, <3>2 DEF TextAt, EmitAt
      <4>2. Text("TRUE") \in TreeCell(args) /\ m[Text("TRUE")] = Text("TRUE")
        BY LitWords, TreeWord
      <4> HIDE DEF m
      <4> QED
        BY <4>1, <4>2, ImageOne
    <3>3. CASE t.op = "leaf"
      <4>1. LeafFits(t, cases)
        BY <2>2, <3>1, <3>3 DEF FaultsAt
      <4>2. ArgsTo[d][t] = t.args
        BY <3>3, ArgsAtLevel DEF ArgsAt
      <4>3. /\ T[d][t] = LeafText(t, At(preds, t.pred + 1, <<>>))
            /\ E[d][t][base] = <<Text("(")>> \o EmitFrom(At(cases, t.pred + 1, <<>>), "tree", base) \o <<Text(")")>>
        BY <3>1, <3>3 DEF TextAt, EmitAt
      <4> QED
        BY <2>2, <3>3, <4>1, <4>2, <4>3, LeafMeans
    <3>4. CASE t.op \in {"and", "or"}
      <4> DEFINE kids == t.kids
                 n == Len(kids)
                 sep == IF t.op = "or" THEN " OR " ELSE " AND "
                 U == [i \in 1..n |-> E[d - 1][kids[i]][TreeArgBase(base, d - 1, kids, i)]]
                 V == [i \in 1..n |-> T[d - 1][kids[i]]]
      <4>1. kids \in Seq(Trees) /\ n \in Nat /\ DOMAIN kids = 1..n
        BY <3>4, InnerArgs
      <4>2. /\ T[d][t] = <<Text("(")>> \o Joined(V, sep) \o <<Text(")")>>
            /\ E[d][t][base] = <<Text("(")>> \o Joined(U, sep) \o <<Text(")")>>
        BY <3>1, <3>4, <4>1 DEF TextAt, EmitAt
      <4>3. ASSUME NEW i \in 1..n PROVE Image(m, TreeCell(args), U[i], V[i])
        <5>1. kids[i] \in Trees
          BY <4>1, ElementIn
        <5>2. F[d - 1][kids[i]] = {}
          <6>1. F[d][t] = UNION {F[d - 1][Kids(t)[j]] : j \in DOMAIN Kids(t)}
            BY <3>1, <3>4 DEF FaultsAt
          <6>2. Kids(t) = kids
            BY <3>4, TreeFields
          <6> QED
            BY <2>2, <4>1, <6>1, <6>2
        <5>3. PICK from : from = TreeArgBase(base, d - 1, kids, i)
          OBVIOUS
        <5>4. Slice(args, from, ArgsTo[d - 1][kids[i]])
          BY <2>2, <3>4, <5>3, KidBase
        <5>5. from \in Int
          BY <5>4 DEF Slice
        <5>6. Means(d - 1, kids[i], from)
          BY <1>2, <5>1, <5>5
        <5>7. U[i] = E[d - 1][kids[i]][from] /\ V[i] = T[d - 1][kids[i]]
          BY <5>3
        <5> HIDE DEF U, V, m
        <5> QED
          BY <5>2, <5>4, <5>6, <5>7
      <4>4. U = [i \in 1..n |-> U[i]] /\ V = [i \in 1..n |-> V[i]]
        OBVIOUS
      <4>5. Text(sep) \in TreeCell(args) /\ m[Text(sep)] = Text(sep)
        <5>1. Text(sep) \in Word
          BY LitWords
        <5> HIDE DEF sep
        <5> QED
          BY <5>1, TreeWord
      <4>6. Maps(m, TreeCell(args), Meaning(fields, args))
        BY TreeMaps
      <4> HIDE DEF U, V, m, n, sep
      <4>7. Image(m, TreeCell(args), Joined(U, sep), Joined(V, sep))
        BY <4>1, <4>3, <4>4, <4>5, <4>6, ImageJoined
      <4>8. Image(m, TreeCell(args), <<Text("(")>> \o Joined(U, sep) \o <<Text(")")>>,
                           <<Text("(")>> \o Joined(V, sep) \o <<Text(")")>>)
        BY <4>7, ImageParens DEF m
      <4> QED
        BY <4>2, <4>8
    <3> QED
      BY <3>2, <3>3, <3>4, TreeFields
  <2> QED
    BY <2>1, <2>2
<1> HIDE DEF D
<1>3. \A d \in 0..MaxDepth : d \in D
  BY <1>0, <1>1, <1>2, LoopInduction
<1> QED
  BY <1>3 DEF D

LEMMA TreeImage ==
  ASSUME NEW s, NEW t, NEW c, InCall(s, t, c), Composable(BuildFrags(s, t), ShapeKey(s, t, c), c.tree),
         NEW i \in 1..Len(t), t[i].kind = "tree"
  PROVE  Image(Value(ParamOrder(t), TreeArgs(c.tree)), TreeCell(TreeArgs(c.tree)),
               EmitFrag(BuildFrags(s, t), i, ShapeKey(s, t, c), c.tree), ItemText(s, t, i, c))
<1> DEFINE it == t[i]
           preds == it.preds
           names == ParamOrder(t)
           tree == c.tree
           args == TreeArgs(tree)
           m == Value(names, args)
           F == BuildFrags(s, t)
           f == F[i]
           k == ShapeKey(s, t, c)
<1>0. t \in Templates /\ c \in Calls(t)
  BY DEF InCall
<1>1. it \in Item /\ DOMAIN t = 1..Len(t)
  BY <1>0, TemplateFacts
<1>2. preds \in Seq(Body)
  <2>1. it \in TreeItem
    BY <1>1, ItemKinds
  <2> QED
    BY <2>1 DEF TreeItem
<1>3. f.kind = "tree" /\ f.cases = PredSpans(preds)
  <2>1. IsFragment(f, s, names, GuardAtoms(t), it)
    BY <1>0, Fragment
  <2> HIDE DEF F, f, names
  <2> QED
    BY <2>1 DEF IsFragment, FragKind, PredSpans
<1>4. ItemText(s, t, i, c) = IF tree = NoTree THEN <<Text("TRUE")>> ELSE TreeText(preds, tree)
  BY DEF ItemText
<1>5. EmitFrag(F, i, k, tree) = IF tree = NoTree THEN <<Text("TRUE")>> ELSE EmitTree(PredSpans(preds), tree)
  <2> HIDE DEF F, k, tree
  <2> QED
    BY <1>3 DEF EmitFrag
<1>6. CASE tree = NoTree
  <2>1. Text("TRUE") \in TreeCell(args) /\ m[Text("TRUE")] = Text("TRUE")
    BY LitWords, TreeWord
  <2>2. Image(m, TreeCell(args), <<Text("TRUE")>>, <<Text("TRUE")>>)
    <3> HIDE DEF m
    <3> QED
      BY <2>1, ImageOne
  <2> QED
    BY <1>4, <1>5, <1>6, <2>2
<1>7. CASE tree # NoTree
  <2>1. tree \in Trees
    <3>1. Nth(t, i) \in 1..Blocks(t, "tree")
      BY <1>0, NthItem
    <3>2. Blocks(t, "tree") # 0
      BY <3>1
    <3> QED
      BY <1>0, <3>2, CallFields
  <2>2. Len(args) <= MaxIndex /\ Faults(PredSpans(preds), tree) = {}
    <3>1. i \in DOMAIN F
      BY <1>1 DEF BuildFrags
    <3>2. Composable(F, k, tree)
      OBVIOUS
    <3> HIDE DEF F, k, tree
    <3>3. Validate(tree, PredSpans(preds))
      BY <1>3, <1>7, <3>1, <3>2 DEF Composable
    <3> QED
      BY <3>3 DEF Validate, CheckCaps
  <2>3. MaxDepth \in 0..MaxDepth /\ args = ArgsTo[MaxDepth][tree]
    BY TreeAssumption DEF TreeArgs
  <2>4. args \in Seq(LeafArg)
    BY <2>1, <2>3, ArgsTyped
  <2> HIDE DEF args, tree, preds
  <2>5. Listing(args) /\ Slice(args, 0, args)
    <3>1. Len(args) \in Nat /\ args = [j \in 1..Len(args) |-> args[j]]
      BY <2>4
    <3>2. \A j \in 1..Len(args) : 0 + j = j
      OBVIOUS
    <3> QED
      BY <3>1, <3>2 DEF Listing, Slice
  <2>6. PICK Fa : IsFaults(Fa, PredSpans(preds), MaxDepth)
                  /\ Faults(PredSpans(preds), tree) = Fa[MaxDepth][tree]
    BY FaultsLevels
  <2>7. PICK E : IsEmit(E, PredSpans(preds), MaxDepth)
                 /\ EmitTree(PredSpans(preds), tree) = E[MaxDepth][tree][0]
    BY EmitLevels
  <2>8. PICK T : IsText(T, preds, MaxDepth) /\ TreeText(preds, tree) = T[MaxDepth][tree]
    BY TextLevels
  <2>9. \A d \in 0..MaxDepth : \A x \in Trees, base \in Int :
           Fa[d][x] = {} /\ Slice(args, base, ArgsTo[d][x]) => Image(m, TreeCell(args), E[d][x][base], T[d][x])
    BY <1>2, <2>2, <2>5, <2>6, <2>7, <2>8, WalkMeans
  <2>10. Image(m, TreeCell(args), E[MaxDepth][tree][0], T[MaxDepth][tree])
    <3> HIDE DEF m
    <3> QED
      BY <2>1, <2>2, <2>3, <2>5, <2>6, <2>9
  <2> QED
    BY <1>4, <1>5, <1>7, <2>7, <2>8, <2>10 DEF args, tree
<1> QED
  BY <1>6, <1>7

LEMMA TreeMeans ==
  ASSUME NEW s, NEW t, NEW c, InCall(s, t, c), Composable(BuildFrags(s, t), ShapeKey(s, t, c), c.tree),
         NEW i \in 1..Len(t), t[i].kind = "tree"
  PROVE  FragmentMeans(s, t, c, i)
<1> DEFINE args == TreeArgs(c.tree)
           m == Value(ParamOrder(t), args)
           u == EmitFrag(BuildFrags(s, t), i, ShapeKey(s, t, c), c.tree)
           v == ItemText(s, t, i, c)
<1>1. Image(m, TreeCell(args), u, v)
  BY TreeImage
<1> HIDE DEF u, v, m, args
<1>2. u \in Seq(TreeCell(args)) /\ v = Mapped(m, u)
  BY <1>1 DEF Image
<1>3. \A j \in 1..Len(u) : u[j] \in Cell
  BY <1>2, ElementIn DEF TreeCell
<1>4. u \in Seq(Cell)
  BY <1>2, <1>3
<1> QED
  BY <1>2, <1>4 DEF Image, FragmentMeans, u, v, m, args

\* What the composer writes means what the call asks for.
LEMMA WritesMean ==
  ASSUME NEW s, NEW t, NEW c, InCall(s, t, c), Composable(BuildFrags(s, t), ShapeKey(s, t, c), c.tree)
  PROVE  Image(Value(ParamOrder(t), TreeArgs(c.tree)), Cell,
               Writes(BuildFrags(s, t), ShapeKey(s, t, c), c.tree), Intended(s, t, c))
<1> DEFINE F == BuildFrags(s, t)
           k == ShapeKey(s, t, c)
           m == Value(ParamOrder(t), TreeArgs(c.tree))
           S == [i \in DOMAIN t |-> EmitFrag(F, i, k, c.tree)]
           T == [i \in DOMAIN t |-> ItemText(s, t, i, c)]
<1>0. t \in Templates /\ s \in {"dollar", "question"}
  BY DEF InCall, Styles
<1>1. Len(t) \in Nat /\ DOMAIN t = 1..Len(t) /\ \A i \in 1..Len(t) : t[i] \in Item
  BY <1>0, TemplateFacts
<1>2. DOMAIN F = DOMAIN t
  BY DEF BuildFrags
<1>3. ASSUME NEW i \in 1..Len(t) PROVE FragmentMeans(s, t, c, i)
  <2>1. t[i].kind \in Kinds
    BY <1>1, ItemKinds
  <2>2. CASE t[i].kind = "skeleton"
    BY <1>0, <2>2, SkeletonMeans
  <2>3. CASE t[i].kind = "guarded"
    BY <1>0, <2>3, GuardedMeans
  <2>4. CASE t[i].kind = "choose"
    BY <2>4, ChooseMeans
  <2>5. CASE t[i].kind = "orderby"
    BY <2>5, OrderMeans
  <2>6. CASE t[i].kind = "in"
    <3>1. CASE s = "dollar"
      BY <2>6, <3>1, InAnyMeans
    <3>2. CASE s = "question"
      BY <2>6, <3>2, InListMeans
    <3> QED
      BY <1>0, <3>1, <3>2
  <2>7. CASE t[i].kind = "tree"
    BY <2>7, TreeMeans
  <2> QED
    BY <2>1, <2>2, <2>3, <2>4, <2>5, <2>6, <2>7 DEF Kinds
<1>4. ASSUME NEW i \in 1..Len(t) PROVE Image(m, Cell, S[i], T[i])
  <2>1. Image(m, Cell, EmitFrag(F, i, k, c.tree), ItemText(s, t, i, c))
    BY <1>3 DEF FragmentMeans
  <2> QED
    BY <1>1, <2>1
<1>5. Writes(F, k, c.tree) = FlattenSeq(S) /\ Intended(s, t, c) = FlattenSeq(T)
  BY <1>2 DEF Writes, Intended
<1>6. S = [i \in 1..Len(t) |-> S[i]] /\ T = [i \in 1..Len(t) |-> T[i]]
  BY <1>1
<1>7. Maps(m, Cell, Meaning(ParamOrder(t), TreeArgs(c.tree)))
  BY ValueMaps
<1> HIDE DEF S, T, m
<1>8. Image(m, Cell, FlattenSeq(S), FlattenSeq(T))
  BY <1>1, <1>4, <1>6, <1>7, ImageFlatten
<1> QED
  BY <1>5, <1>8 DEF m

-----------------------------------------------------------------------------
(* Placing the writes.                                                     *)

Start == [b |-> <<>>, binds |-> <<>>]
\* f[n] is the composer after the first n writes.
IsComposer(f, s, w, n) == f = [i \in 0..n |-> IF i = 0 THEN Start ELSE Write(s, f[i - 1], w[i])]

LEMMA ComposerExists ==
  ASSUME NEW s, NEW w, NEW N \in Nat
  PROVE  \E f : IsComposer(f, s, w, N)
<1> DEFINE D == {n \in Nat : \E f : IsComposer(f, s, w, n)}
<1>1. 0 \in D
  <2>1. IsComposer([i \in 0..0 |-> Start], s, w, 0)
    BY DEF IsComposer
  <2> QED
    BY <2>1
<1>2. ASSUME NEW n \in Nat, n \in D PROVE n + 1 \in D
  <2>1. PICK f : IsComposer(f, s, w, n)
    BY <1>2
  <2> DEFINE g == [i \in 0..(n + 1) |-> IF i = n + 1 THEN Write(s, f[n], w[n + 1]) ELSE f[i]]
  <2>2. ASSUME NEW i \in 0..(n + 1)
        PROVE  g[i] = IF i = 0 THEN Start ELSE Write(s, g[i - 1], w[i])
    <3>1. CASE i = n + 1
      <4>1. i - 1 = n /\ n # n + 1 /\ n \in 0..(n + 1) /\ i # 0
        BY <3>1
      <4>2. g[i - 1] = f[n] /\ g[i] = Write(s, f[n], w[n + 1])
        BY <3>1, <4>1
      <4> HIDE DEF g
      <4> QED
        BY <3>1, <4>1, <4>2
    <3>2. CASE i # n + 1
      <4>1. i \in 0..n /\ (i # 0 => i - 1 \in 0..(n + 1) /\ i - 1 # n + 1)
        BY <3>2
      <4>2. g[i] = f[i] /\ (i # 0 => g[i - 1] = f[i - 1])
        BY <3>2, <4>1
      <4>3. f[i] = IF i = 0 THEN Start ELSE Write(s, f[i - 1], w[i])
        BY <2>1, <4>1 DEF IsComposer
      <4> HIDE DEF g
      <4> QED
        BY <4>2, <4>3
    <3> QED
      BY <3>1, <3>2
  <2>3. g = [i \in 0..(n + 1) |-> g[i]]
    OBVIOUS
  <2> HIDE DEF g
  <2>4. IsComposer(g, s, w, n + 1)
    BY <2>2, <2>3 DEF IsComposer
  <2> QED
    BY <2>4
<1> HIDE DEF D
<1>3. N \in D
  BY <1>1, <1>2, NaturalInduction
<1> QED
  BY <1>3 DEF D

LEMMA ComposerRuns ==
  ASSUME NEW s, NEW frags, NEW k, NEW tree, NEW w, w = Writes(frags, k, tree), Len(w) \in Nat
  PROVE  \E f : IsComposer(f, s, w, Len(w)) /\ ComposeTreeStyle(s, frags, k, tree) = f[Len(w)]
<1>1. ComposeTreeStyle(s, frags, k, tree) = (CHOOSE f : IsComposer(f, s, w, Len(w)))[Len(w)]
  BY DEF ComposeTreeStyle, IsComposer, Start
<1>2. IsComposer(CHOOSE f : IsComposer(f, s, w, Len(w)), s, w, Len(w))
  BY ComposerExists, Zenon
<1> QED
  BY <1>1, <1>2

Out == Word \cup [ph : Nat]
IsBind(x) == "bind" \in DOMAIN x
\* The binds among the first n writes.
BindsTo(w, n) == {j \in 1..n : IsBind(w[j])}

\* Write i has its placeholder: the k-th bind is its own.
Numbered(s, w, co, i) ==
    IF s = "question"
    THEN co.b[i] = [ph |-> 0] /\ StandsAt(co.binds, Cardinality(BindsTo(w, i)), w[i].bind)
    ELSE \E k \in Nat \ {0} : co.b[i] = [ph |-> k] /\ StandsAt(co.binds, k, w[i].bind)

\* The composer after the first n writes.
Laid(s, w, n, co) ==
    /\ co.b \in Seq(Out) /\ Len(co.b) = n
    /\ co.binds \in Seq(BindPlan)
    /\ s = "question" => Len(co.binds) = Cardinality(BindsTo(w, n))
    /\ \A i \in 1..n : IF IsBind(w[i]) THEN Numbered(s, w, co, i) ELSE co.b[i] = w[i]
    /\ \A k \in 1..Len(co.binds) : \E i \in 1..n : IsBind(w[i]) /\ w[i].bind = co.binds[k]

LEMMA AppendAt ==
  ASSUME NEW X, NEW u \in Seq(X), NEW x \in X
  PROVE  /\ Append(u, x) \in Seq(X) /\ Len(Append(u, x)) = Len(u) + 1 /\ Len(u) \in Nat
         /\ \A k, y : StandsAt(u, k, y) => StandsAt(Append(u, x), k, y)
         /\ StandsAt(Append(u, x), Len(u) + 1, x)
         /\ \A k \in 1..(Len(u) + 1) : k \in 1..Len(u) \/ k = Len(u) + 1
BY DEF StandsAt

LEMMA BindsToNext ==
  ASSUME NEW w, NEW n \in Nat
  PROVE  /\ IsFiniteSet(BindsTo(w, n)) /\ Cardinality(BindsTo(w, n)) \in Nat
         /\ IsBind(w[n + 1]) => Cardinality(BindsTo(w, n + 1)) = Cardinality(BindsTo(w, n)) + 1
         /\ ~IsBind(w[n + 1]) => BindsTo(w, n + 1) = BindsTo(w, n)
<1>1. IsFiniteSet(1..n)
  BY FS_Interval
<1>2. IsFiniteSet(BindsTo(w, n))
  BY <1>1, FS_Subset DEF BindsTo
<1>3. n + 1 \notin BindsTo(w, n)
  BY DEF BindsTo
<1>4. IsBind(w[n + 1]) => BindsTo(w, n + 1) = BindsTo(w, n) \cup {n + 1}
  BY DEF BindsTo
<1>5. ~IsBind(w[n + 1]) => BindsTo(w, n + 1) = BindsTo(w, n)
  BY DEF BindsTo
<1> QED
  BY <1>2, <1>3, <1>4, <1>5, FS_AddElement, FS_CardinalityType

\* Every bind of the plan is written before n.
Written(w, n, binds) == \A k \in 1..Len(binds) : \E i \in 1..n : IsBind(w[i]) /\ w[i].bind = binds[k]
\* What stands in u stands in v.
Keeps(u, v) == \A k, y : StandsAt(u, k, y) => StandsAt(v, k, y)
\* Write i was laid out.
Done(s, w, co, i) == IF IsBind(w[i]) THEN Numbered(s, w, co, i) ELSE co.b[i] = w[i]

LEMMA DoneStays ==
  ASSUME NEW s, NEW w, NEW n \in Nat, NEW co, Laid(s, w, n, co), NEW later,
         Keeps(co.b, later.b), Keeps(co.binds, later.binds), NEW i \in 1..n
  PROVE  Done(s, w, later, i)
<1>1. Done(s, w, co, i)
  BY DEF Laid, Done
<1>2. StandsAt(co.b, i, co.b[i])
  BY DEF Laid, StandsAt
<1>3. later.b[i] = co.b[i]
  BY <1>2 DEF Keeps, StandsAt
<1>4. ASSUME Numbered(s, w, co, i) PROVE Numbered(s, w, later, i)
  <2>1. CASE s = "question"
    BY <1>3, <1>4, <2>1, Zenon DEF Numbered, Keeps
  <2>2. CASE s # "question"
    BY <1>3, <1>4, <2>2, Zenon DEF Numbered, Keeps
  <2> QED
    BY <2>1, <2>2
<1> QED
  BY <1>1, <1>3, <1>4 DEF Done

LEMMA LaidExtends ==
  ASSUME NEW s, NEW w, NEW n \in Nat, NEW co, Laid(s, w, n, co),
         NEW later, NEW x \in Out, later.b = Append(co.b, x), later.binds \in Seq(BindPlan),
         Keeps(co.binds, later.binds),
         s = "question" => Len(later.binds) = Cardinality(BindsTo(w, n + 1)),
         Done(s, w, later, n + 1), Written(w, n + 1, later.binds)
  PROVE  Laid(s, w, n + 1, later)
<1>1. co.b \in Seq(Out) /\ Len(co.b) = n
  BY DEF Laid
<1>2. later.b \in Seq(Out) /\ Len(later.b) = n + 1 /\ Keeps(co.b, later.b)
  BY <1>1, AppendAt DEF Keeps
<1>3. ASSUME NEW i \in 1..(n + 1) PROVE Done(s, w, later, i)
  <2>1. CASE i = n + 1
    BY <2>1
  <2>2. CASE i # n + 1
    <3>1. i \in 1..n
      BY <2>2
    <3> QED
      BY <1>2, <3>1, DoneStays
  <2> QED
    BY <2>1, <2>2
<1> QED
  BY <1>2, <1>3 DEF Laid, Done, Written

LEMMA WrittenNext ==
  ASSUME NEW w, NEW n \in Nat, NEW binds, Written(w, n, binds)
  PROVE  Written(w, n + 1, binds)
<1>1. \A i \in 1..n : i \in 1..(n + 1)
  OBVIOUS
<1> QED
  BY <1>1 DEF Written

LEMMA WrittenAppend ==
  ASSUME NEW w, NEW n \in Nat, NEW binds \in Seq(BindPlan), Written(w, n, binds), IsBind(w[n + 1]),
         w[n + 1].bind \in BindPlan
  PROVE  Written(w, n + 1, Append(binds, w[n + 1].bind))
<1> DEFINE bd == w[n + 1].bind
           later == Append(binds, bd)
<1>1. Written(w, n + 1, binds)
  BY WrittenNext
<1>2. \A k \in 1..Len(later) : (k \in 1..Len(binds) /\ later[k] = binds[k]) \/ later[k] = bd
  OBVIOUS
<1>3. n + 1 \in 1..(n + 1)
  OBVIOUS
<1>4. ASSUME NEW k \in 1..Len(later) PROVE \E i \in 1..(n + 1) : IsBind(w[i]) /\ w[i].bind = later[k]
  <2> HIDE DEF later
  <2>1. CASE later[k] = bd
    BY <1>3, <2>1
  <2>2. CASE later[k] # bd
    <3>1. k \in 1..Len(binds) /\ later[k] = binds[k]
      BY <1>2, <2>2
    <3>2. \E i \in 1..(n + 1) : IsBind(w[i]) /\ w[i].bind = binds[k]
      BY <1>1, <3>1 DEF Written
    <3> QED
      BY <3>1, <3>2
  <2> QED
    BY <2>1, <2>2
<1> QED
  BY <1>4 DEF Written

\* One more write is laid out.
LEMMA LaidWrite ==
  ASSUME NEW s \in Styles, NEW w, NEW n \in Nat, w[n + 1] \in Cell, NEW co, Laid(s, w, n, co)
  PROVE  Laid(s, w, n + 1, Write(s, co, w[n + 1]))
<1> DEFINE x == w[n + 1]
           later == Write(s, co, x)
<1>1. /\ co.b \in Seq(Out) /\ Len(co.b) = n /\ co.binds \in Seq(BindPlan)
      /\ s = "question" => Len(co.binds) = Cardinality(BindsTo(w, n))
      /\ Written(w, n, co.binds)
  BY DEF Laid, Written
<1>2. CASE ~IsBind(x)
  <2>1. x \in Word
    BY <1>2, CellKinds DEF IsBind
  <2>2. x \in Out
    BY <2>1 DEF Out
  <2>3. later.b = Append(co.b, x) /\ later.binds = co.binds
    BY <1>2 DEF Write, IsBind
  <2> HIDE DEF later
  <2>4. later.b[n + 1] = x
    BY <1>1, <2>2, <2>3, AppendAt DEF StandsAt
  <2>5. Done(s, w, later, n + 1)
    BY <1>2, <2>4 DEF Done
  <2>6. Written(w, n + 1, later.binds)
    BY <1>1, <2>3, WrittenNext
  <2>7. BindsTo(w, n + 1) = BindsTo(w, n)
    BY <1>2, BindsToNext
  <2>8. Keeps(co.binds, later.binds)
    BY <2>3 DEF Keeps
  <2>9. later.binds \in Seq(BindPlan) /\ (s = "question" => Len(later.binds) = Cardinality(BindsTo(w, n + 1)))
    BY <1>1, <2>3, <2>7
  <2>10. Laid(s, w, n + 1, later)
    BY <2>2, <2>3, <2>5, <2>6, <2>8, <2>9, LaidExtends
  <2> QED
    BY <2>10 DEF later
<1>3. CASE IsBind(x)
  <2> DEFINE bd == x.bind
  <2>1. bd \in BindPlan
    BY <1>3, CellKinds, BindFields DEF IsBind
  <2>2. later = Place(s, co, bd)
    BY <1>3 DEF Write, IsBind
  <2>3. CASE s = "question"
    <3>1. later.b = Append(co.b, [ph |-> 0]) /\ later.binds = Append(co.binds, bd)
      BY <2>2, <2>3 DEF Place
    <3>2. [ph |-> 0] \in Out
      BY DEF Out
    <3> HIDE DEF later, x
    <3>3. later.binds \in Seq(BindPlan) /\ Keeps(co.binds, later.binds)
          /\ StandsAt(later.binds, Len(co.binds) + 1, bd) /\ Len(later.binds) = Len(co.binds) + 1
      BY <1>1, <2>1, <3>1, AppendAt DEF Keeps
    <3>4. StandsAt(later.b, n + 1, [ph |-> 0])
      BY <1>1, <3>1, <3>2, AppendAt
    <3>5. Cardinality(BindsTo(w, n + 1)) = Len(co.binds) + 1
      BY <1>1, <1>3, <2>3, BindsToNext DEF x
    <3>6. Done(s, w, later, n + 1)
      <4>1. Numbered(s, w, later, n + 1)
        BY <2>3, <3>3, <3>4, <3>5 DEF Numbered, StandsAt, x
      <4> QED
        BY <1>3, <4>1 DEF Done, x
    <3>7. Written(w, n + 1, later.binds)
      BY <1>1, <1>3, <2>1, <3>1, WrittenAppend DEF x
    <3>8. Len(later.binds) = Cardinality(BindsTo(w, n + 1))
      BY <3>3, <3>5
    <3>9. Laid(s, w, n + 1, later)
      BY <3>1, <3>2, <3>3, <3>6, <3>7, <3>8, LaidExtends
    <3> QED
      BY <3>9 DEF later, x
  <2>4. CASE s = "dollar"
    <3> DEFINE binds == IF Contains(co.binds, bd) THEN co.binds ELSE Append(co.binds, bd)
               k == IndexIn(binds, bd)
    <3>1. later.b = Append(co.b, [ph |-> k]) /\ later.binds = binds
      BY <2>2, <2>4 DEF Place
    <3>2. /\ binds \in Seq(BindPlan) /\ Keeps(co.binds, binds) /\ Contains(binds, bd)
          /\ Written(w, n + 1, binds)
      <4>1. CASE Contains(co.binds, bd)
        <5>1. binds = co.binds
          BY <4>1
        <5> HIDE DEF binds
        <5> QED
          BY <1>1, <4>1, <5>1, WrittenNext DEF Keeps
      <4>2. CASE ~Contains(co.binds, bd)
        <5>1. binds = Append(co.binds, bd)
          BY <4>2
        <5> HIDE DEF binds, x
        <5>2. binds \in Seq(BindPlan) /\ Keeps(co.binds, binds) /\ StandsAt(binds, Len(co.binds) + 1, bd)
          BY <1>1, <2>1, <5>1, AppendAt DEF Keeps
        <5>3. Contains(binds, bd)
          BY <5>2 DEF Contains, StandsAt
        <5>4. Written(w, n + 1, binds)
          BY <1>1, <1>3, <2>1, <5>1, WrittenAppend DEF x
        <5> QED
          BY <5>2, <5>3, <5>4
      <4> QED
        BY <4>1, <4>2
    <3> HIDE DEF binds, later, x
    <3>3. k \in 1..Len(binds) /\ binds[k] = bd
      BY <3>2, IndexAt, LenNat
    <3>4. k \in Nat \ {0} /\ StandsAt(binds, k, bd)
      BY <3>3 DEF StandsAt
    <3> HIDE DEF k
    <3>5. [ph |-> k] \in Out
      BY <3>4 DEF Out
    <3>6. StandsAt(later.b, n + 1, [ph |-> k])
      BY <1>1, <3>1, <3>5, AppendAt
    <3>7. Done(s, w, later, n + 1)
      <4>1. Numbered(s, w, later, n + 1)
        BY <2>4, <3>1, <3>4, <3>6 DEF Numbered, StandsAt, x
      <4> QED
        BY <1>3, <4>1 DEF Done, x
    <3>8. s # "question"
      BY <2>4
    <3>9. Laid(s, w, n + 1, later)
      BY <3>1, <3>2, <3>5, <3>7, <3>8, LaidExtends
    <3> QED
      BY <3>9 DEF later, x
  <2> QED
    BY <2>3, <2>4 DEF Styles
<1> QED
  BY <1>2, <1>3

LEMMA ComposedLaid ==
  ASSUME NEW s \in Styles, NEW frags, NEW k, NEW tree, Writes(frags, k, tree) \in Seq(Cell)
  PROVE  Laid(s, Writes(frags, k, tree), Len(Writes(frags, k, tree)), ComposeTreeStyle(s, frags, k, tree))
<1>1. PICK w : w = Writes(frags, k, tree)
  OBVIOUS
<1>2. w \in Seq(Cell) /\ Len(w) \in Nat
  BY <1>1, LenNat
<1>3. PICK f : IsComposer(f, s, w, Len(w)) /\ ComposeTreeStyle(s, frags, k, tree) = f[Len(w)]
  BY <1>1, <1>2, ComposerRuns
<1>4. PICK N \in Nat : N = Len(w)
  BY <1>2
<1> DEFINE D == {n \in 0..N : Laid(s, w, n, f[n])}
<1>5. \A n \in 0..N : f[n] = IF n = 0 THEN Start ELSE Write(s, f[n - 1], w[n])
  BY <1>3, <1>4 DEF IsComposer
<1>6. 0 \in D
  <2>1. f[0] = Start /\ 0 \in 0..N
    BY <1>5
  <2>2. Start.b = <<>> /\ Start.binds = <<>>
    BY DEF Start
  <2>3. BindsTo(w, 0) = {} /\ Cardinality({}) = 0
    BY FS_EmptySet DEF BindsTo
  <2>5. /\ Start.b \in Seq(Out) /\ Len(Start.b) = 0
        /\ Start.binds \in Seq(BindPlan) /\ Len(Start.binds) = 0
    BY <2>2
  <2>6. 1..0 = {}
    OBVIOUS
  <2>7. /\ \A i \in 1..0 : IF IsBind(w[i]) THEN Numbered(s, w, Start, i) ELSE Start.b[i] = w[i]
        /\ \A j \in 1..Len(Start.binds) : \E i \in 1..0 : IsBind(w[i]) /\ w[i].bind = Start.binds[j]
    BY <2>5, <2>6, Zenon
  <2>4. Laid(s, w, 0, Start)
    BY <2>3, <2>5, <2>7, Zenon DEF Laid
  <2> QED
    BY <2>1, <2>4
<1>7. ASSUME NEW n \in 1..N, n - 1 \in D PROVE n \in D
  <2>1. PICK j \in Nat : j = n - 1
    OBVIOUS
  <2>2. n = j + 1 /\ n \in 0..N /\ n # 0
    BY <2>1
  <2>3. w[n] \in Cell
    BY <1>2, <1>4, ElementIn
  <2>4. Laid(s, w, j, f[j])
    BY <1>7, <2>1
  <2>5. Laid(s, w, j + 1, Write(s, f[j], w[j + 1]))
    BY <2>2, <2>3, <2>4, LaidWrite
  <2>6. f[n] = Write(s, f[j], w[j + 1])
    BY <1>5, <2>1, <2>2
  <2> QED
    BY <2>2, <2>5, <2>6
<1> HIDE DEF D
<1>8. \A n \in 0..N : n \in D
  BY <1>6, <1>7, LoopInduction
<1>9. N \in D
  BY <1>8
<1> QED
  BY <1>1, <1>3, <1>4, <1>9 DEF D

\* What the database executes is what the writes mean.
LEMMA ExecutedMeans ==
  ASSUME NEW s, NEW w \in Seq(Cell), NEW co, Laid(s, w, Len(w), co), NEW t, NEW tree,
         NEW stmt, stmt.sql = co.b, stmt.args = ResolveArgs(co.binds, t, tree)
  PROVE  Executed(stmt) = Mapped(Value(ParamOrder(t), TreeArgs(tree)), w)
<1> DEFINE fields == ParamOrder(t)
           args == TreeArgs(tree)
           m == Value(fields, args)
           n == Len(w)
           Rank(i) == Cardinality({j \in 1..i : "ph" \in DOMAIN stmt.sql[j]})
<1>1. n \in Nat /\ \A i \in 1..n : w[i] \in Cell
  BY LenNat, ElementIn
<1>2. /\ co.b \in Seq(Out) /\ Len(co.b) = n /\ co.binds \in Seq(BindPlan)
      /\ \A i \in 1..n : Done(s, w, co, i)
  BY DEF Laid, Done
<1>3. DOMAIN stmt.sql = 1..n
  <2>1. DOMAIN co.b = 1..Len(co.b)
    BY <1>2
  <2> QED
    BY <1>2, <2>1
<1>4. \A k, y : StandsAt(co.binds, k, y) => stmt.args[k] = Resolve(y, fields, args)
  <2>1. DOMAIN co.binds = 1..Len(co.binds)
    BY <1>2
  <2> QED
    BY <2>1 DEF ResolveArgs, StandsAt
<1>5. ASSUME NEW i \in 1..n PROVE "ph" \in DOMAIN stmt.sql[i] <=> IsBind(w[i])
  <2>1. CASE IsBind(w[i])
    <3>1. \E k \in Nat : stmt.sql[i] = [ph |-> k]
      BY <1>2, <2>1 DEF Done, Numbered
    <3> QED
      BY <2>1, <3>1
  <2>2. CASE ~IsBind(w[i])
    <3>1. stmt.sql[i] = w[i]
      BY <1>2, <2>2 DEF Done
    <3>2. w[i] \in Word
      BY <1>1, <2>2, CellKinds DEF IsBind
    <3> QED
      BY <2>2, <3>1, <3>2, WordFields
  <2> QED
    BY <2>1, <2>2
<1>6. ASSUME NEW i \in 1..n PROVE Rank(i) = Cardinality(BindsTo(w, i))
  <2>1. \A j \in 1..i : j \in 1..n
    BY <1>1
  <2>2. {j \in 1..i : "ph" \in DOMAIN stmt.sql[j]} = BindsTo(w, i)
    BY <1>5, <2>1 DEF BindsTo
  <2> QED
    BY <2>2
<1>7. ASSUME NEW i \in 1..n
      PROVE  m[w[i]] = IF ~("ph" \in DOMAIN stmt.sql[i]) THEN stmt.sql[i]
                       ELSE [val |-> stmt.args[IF stmt.sql[i].ph = 0 THEN Rank(i) ELSE stmt.sql[i].ph]]
  <2>1. CASE IsBind(w[i])
    <3>1. m[w[i]] = [val |-> Resolve(w[i].bind, fields, args)]
      BY <1>1, <2>1 DEF Value, IsBind
    <3>2. CASE s = "question"
      <4>1. stmt.sql[i] = [ph |-> 0] /\ StandsAt(co.binds, Rank(i), w[i].bind)
        BY <1>2, <1>6, <2>1, <3>2 DEF Done, Numbered
      <4>2. stmt.args[Rank(i)] = Resolve(w[i].bind, fields, args)
        BY <1>4, <4>1
      <4>3. stmt.sql[i].ph = 0
        BY <4>1
      <4> HIDE DEF Rank
      <4> QED
        BY <1>5, <2>1, <3>1, <4>2, <4>3
    <3>3. CASE s # "question"
      <4>1. PICK k \in Nat \ {0} : stmt.sql[i] = [ph |-> k] /\ StandsAt(co.binds, k, w[i].bind)
        BY <1>2, <2>1, <3>3 DEF Done, Numbered
      <4>2. stmt.args[k] = Resolve(w[i].bind, fields, args)
        BY <1>4, <4>1
      <4>3. stmt.sql[i].ph = k /\ k # 0
        BY <4>1
      <4> HIDE DEF Rank
      <4> QED
        BY <1>5, <2>1, <3>1, <4>2, <4>3
    <3> QED
      BY <3>2, <3>3
  <2>2. CASE ~IsBind(w[i])
    <3>1. stmt.sql[i] = w[i]
      BY <1>2, <2>2 DEF Done
    <3>2. m[w[i]] = w[i]
      BY <1>1, <2>2 DEF Value, IsBind
    <3> HIDE DEF Rank, m
    <3> QED
      BY <1>5, <2>2, <3>1, <3>2
  <2> QED
    BY <2>1, <2>2
<1>8. Executed(stmt) = [i \in 1..n |->
                          IF ~("ph" \in DOMAIN stmt.sql[i]) THEN stmt.sql[i]
                          ELSE [val |-> stmt.args[IF stmt.sql[i].ph = 0 THEN Rank(i) ELSE stmt.sql[i].ph]]]
  BY <1>3, Zenon DEF Executed
<1> HIDE DEF Rank, m
<1>9. Mapped(m, w) = [i \in 1..n |->
                          IF ~("ph" \in DOMAIN stmt.sql[i]) THEN stmt.sql[i]
                          ELSE [val |-> stmt.args[IF stmt.sql[i].ph = 0 THEN Rank(i) ELSE stmt.sql[i].ph]]]
  BY <1>7 DEF Mapped
<1> QED
  BY <1>8, <1>9 DEF m

-----------------------------------------------------------------------------
(* The method.                                                             *)

\* The statement of a call.
Statement(s, t, k, c) ==
    LET co == ComposeTreeStyle(s, BuildFrags(s, t), k, c.tree)
    IN  [sql |-> co.b, binds |-> co.binds, args |-> ResolveArgs(co.binds, t, c.tree)]

\* A call whose statement was composed.
IsComposed(s, t, c) == InCall(s, t, c) /\ Composable(BuildFrags(s, t), ShapeKey(s, t, c), c.tree)

\* Stages: what each step of the method leaves behind.
Stages ==
    /\ q \in Templates /\ style \in Styles
    /\ pc \in {"called", "keyed", "sent"} => Accepted(q) /\ call \in Calls(q)
    /\ pc \in {"keyed", "sent"} => ~CallRefused(q, call) /\ key = ShapeKey(style, q, call)
    /\ pc = "sent" => /\ Composable(BuildFrags(style, q), key, call.tree)
                      /\ sent = Statement(style, q, key, call)

LEMMA InitStages == Init => Stages
BY DEF Init, Stages

LEMMA NextStages == Stages /\ [Next]_vars => Stages'
<1> SUFFICES ASSUME Stages, [Next]_vars PROVE Stages'
  OBVIOUS
<1>1. CASE Reject
  BY <1>1 DEF Reject, Stages
<1>2. CASE Call
  BY <1>2 DEF Call, Stages
<1>3. CASE RefuseCall
  BY <1>3 DEF RefuseCall, Stages
<1>4. CASE DeriveKey
  BY <1>4 DEF DeriveKey, Stages
<1>5. CASE ComposeFails
  BY <1>5 DEF ComposeFails, Stages
<1>6. CASE Send
  <2>1. /\ pc = "keyed" /\ Composable(BuildFrags(style, q), key, call.tree) /\ pc' = "sent"
        /\ UNCHANGED <<q, style, call, key>> /\ sent' = Statement(style, q, key, call)
    BY <1>6 DEF Send, Statement
  <2> QED
    BY <2>1 DEF Stages
<1>7. CASE UNCHANGED vars
  BY <1>7 DEF vars, Stages
<1> QED
  BY <1>1, <1>2, <1>3, <1>4, <1>5, <1>6, <1>7 DEF Next

LEMMA SpecStages == Spec => []Stages
BY InitStages, NextStages, PTL DEF Spec

LEMMA SentIsComposed ==
  ASSUME Stages, pc = "sent"
  PROVE  /\ IsComposed(style, q, call) /\ Accepted(q)
         /\ sent = Statement(style, q, ShapeKey(style, q, call), call)
BY DEF Stages, IsComposed, InCall

\* The binds and the text of a statement are laid out from its writes.
LEMMA StatementLaid ==
  ASSUME NEW s, NEW t, NEW c, IsComposed(s, t, c), NEW stmt, stmt = Statement(s, t, ShapeKey(s, t, c), c)
  PROVE  \E w, co :
            /\ Image(Value(ParamOrder(t), TreeArgs(c.tree)), Cell, w, Intended(s, t, c))
            /\ Laid(s, w, Len(w), co)
            /\ stmt.sql = co.b /\ stmt.binds = co.binds /\ stmt.args = ResolveArgs(co.binds, t, c.tree)
<1> DEFINE frags == BuildFrags(s, t)
           k == ShapeKey(s, t, c)
           w == Writes(frags, k, c.tree)
           co == ComposeTreeStyle(s, frags, k, c.tree)
<1>1. Image(Value(ParamOrder(t), TreeArgs(c.tree)), Cell, w, Intended(s, t, c))
  BY WritesMean DEF IsComposed
<1>2. w \in Seq(Cell) /\ s \in Styles
  BY <1>1 DEF Image, IsComposed, InCall
<1>3. Laid(s, w, Len(w), co)
  <2> HIDE DEF frags, k
  <2> QED
    BY <1>2, ComposedLaid
<1>4. stmt.sql = co.b /\ stmt.binds = co.binds /\ stmt.args = ResolveArgs(co.binds, t, c.tree)
  BY DEF Statement
<1> HIDE DEF w, co
<1> QED
  BY <1>1, <1>3, <1>4

LEMMA StatementMeans ==
  ASSUME NEW s, NEW t, NEW c, IsComposed(s, t, c), NEW stmt, stmt = Statement(s, t, ShapeKey(s, t, c), c)
  PROVE  Executed(stmt) = Intended(s, t, c)
<1>1. PICK w, co :
            /\ Image(Value(ParamOrder(t), TreeArgs(c.tree)), Cell, w, Intended(s, t, c))
            /\ Laid(s, w, Len(w), co)
            /\ stmt.sql = co.b /\ stmt.binds = co.binds /\ stmt.args = ResolveArgs(co.binds, t, c.tree)
  BY StatementLaid
<1>2. w \in Seq(Cell) /\ Intended(s, t, c) = Mapped(Value(ParamOrder(t), TreeArgs(c.tree)), w)
  BY <1>1 DEF Image
<1>3. Executed(stmt) = Mapped(Value(ParamOrder(t), TreeArgs(c.tree)), w)
  BY <1>1, <1>2, ExecutedMeans
<1> QED
  BY <1>2, <1>3

\* What runtime.go sends is what the call asks for: for every template that
\* CheckLexical accepts and every call the preamble lets through, the text the
\* database executes, with each placeholder replaced by the argument resolved
\* for it, is the template's own, with the case, the sort keys, the guarded
\* fragments, the list elements and the leaf arguments the call names.
THEOREM StatementsAsIntended == Spec => []SentAsIntended
<1>1. Stages => SentAsIntended
  BY SentIsComposed, StatementMeans DEF SentAsIntended
<1> QED
  BY <1>1, SpecStages, PTL


-----------------------------------------------------------------------------
(* Where the arguments of a statement come from.                           *)

\* The parameters that stand in an item's bodies.
ItemParams(it) == ParamsOf(FlattenSeq(Bodies(it)))
\* A word, or a value of one of the sources.
Sourced(sources) == Word \cup {[val |-> v] : v \in sources \X Nat}
\* What a call fills in: its fields that hold something, and its leaves.
Filled(t, c) ==
    {p \in ToSet(ParamOrder(t)) \cup {"leaf"} : p \notin c.absent /\ ~InPredicate(t, p)}

LEMMA OwnNamed ==
  ASSUME NEW it \in Item
  PROVE  /\ ItemParams(it) \in Seq(STRING)
         /\ \A b \in 1..Len(Bodies(it)) : Bodies(it)[b] \in Seq(Named(ItemParams(it)))
         /\ \A p \in ToSet(ItemParams(it)) : Appearance(it, p) \in ToSet(ItemOccurrences(it))
<1> DEFINE bodies == Bodies(it)
           whole == FlattenSeq(bodies)
           ps == ItemParams(it)
<1>1. bodies \in Seq(Seq(Token))
  BY ItemBodies DEF Body
<1>2. whole \in Body /\ \A x : x \in ToSet(whole) <=> \E b \in 1..Len(bodies) : x \in ToSet(bodies[b])
  <2> HIDE DEF bodies
  <2> QED
    BY <1>1, FlattenMembers DEF Body
<1>3. ItemOccurrences(it) = [i \in DOMAIN ps |-> Appearance(it, ps[i])]
  BY DEF ItemOccurrences, Appearance, ItemParams
<1>4. ps \in Seq(STRING) /\ \A i \in 1..Len(whole) : IsParam(whole[i]) => whole[i].param \in ToSet(ps)
  <2>1. ps = ParamsOf(whole)
    BY DEF ItemParams
  <2> HIDE DEF whole, ps
  <2> QED
    BY <1>2, <2>1, ParamsOfMembers
<1> HIDE DEF ps
<1>5. DOMAIN ps = 1..Len(ps)
  BY <1>4
<1>6. ASSUME NEW p \in ToSet(ps) PROVE Appearance(it, p) \in ToSet(ItemOccurrences(it))
  <2>1. PICK j \in 1..Len(ps) : p = ps[j]
    BY <1>4, SeqMembers
  <2> QED
    BY <1>3, <1>5, <2>1 DEF ToSet
<1>7. ASSUME NEW b \in 1..Len(bodies) PROVE bodies[b] \in Seq(Named(ps))
  <2> DEFINE body == bodies[b]
  <2>1. body \in Seq(Token)
    BY <1>1, ElementIn
  <2>2. ASSUME NEW k \in 1..Len(body) PROVE body[k] \in Named(ps)
    <3>1. body[k] \in Piece
      BY <2>1, ElementIn, TokenPieces
    <3>2. ASSUME IsParam(body[k]) PROVE Contains(ps, body[k].param)
      <4>1. body[k] \in ToSet(whole)
        BY <1>2, <2>1, SeqMembers
      <4>2. PICK j \in 1..Len(whole) : body[k] = whole[j]
        BY <1>2, <4>1, SeqMembers DEF Body
      <4>3. body[k].param \in ToSet(ps)
        BY <1>4, <3>2, <4>2
      <4> QED
        BY <1>4, <4>3, InSet
    <3> QED
      BY <3>1, <3>2 DEF Named
  <2>3. Len(body) \in Nat /\ body = [k \in 1..Len(body) |-> body[k]]
    BY <2>1
  <2> HIDE DEF body
  <2>4. body \in Seq(Named(ps))
    BY <2>2, <2>3
  <2> QED
    BY <2>4 DEF body
<1> QED
  BY <1>4, <1>6, <1>7 DEF ps

LEMMA WholeSourced ==
  ASSUME NEW names \in Seq(STRING), NEW u \in Seq(Named(names))
  PROVE  Whole(u) \in Seq(Sourced(ToSet(names)))
<1>1. ASSUME NEW x \in Named(names) PROVE Own[x] \in Sourced(ToSet(names))
  <2>1. x \in Piece /\ (IsParam(x) => Contains(names, x.param))
    BY DEF Named
  <2>2. CASE IsParam(x)
    <3>1. x.param \in ToSet(names) /\ Own[x] = [val |-> <<x.param, 0>>]
      BY <2>1, <2>2, InSet DEF Own
    <3>2. <<x.param, 0>> \in ToSet(names) \X Nat
      BY <3>1
    <3> QED
      BY <3>1, <3>2 DEF Sourced
  <2>3. CASE ~IsParam(x)
    <3>1. x \in Word /\ Own[x] = x
      BY <2>1, <2>3, PieceKinds, ParamFields DEF Own
    <3> QED
      BY <3>1 DEF Sourced
  <2> QED
    BY <2>2, <2>3
<1>2. Maps(Own, Named(names), Sourced(ToSet(names)))
  <2>1. \A x \in Named(names) : x \in Piece
    BY DEF Named
  <2> QED
    BY <1>1, <2>1 DEF Maps
<1>3. Mapped(Own, u) \in Seq(Sourced(ToSet(names)))
  BY <1>2, MappedSeq
<1>4. u \in Seq(Piece)
  BY NamedPieces
<1> QED
  BY <1>3, <1>4, WholeIsOwn


LEMMA JoinedTyped ==
  ASSUME NEW X, NEW n \in Nat, NEW s, s = [i \in 1..n |-> s[i]], \A i \in 1..n : s[i] \in Seq(X),
         NEW sep, Text(sep) \in X
  PROVE  Joined(s, sep) \in Seq(X)
<1> DEFINE m == [x \in X |-> x]
<1>1. Maps(m, X, X) /\ m[Text(sep)] = Text(sep)
  BY DEF Maps
<1>2. ASSUME NEW i \in 1..n PROVE Image(m, X, s[i], s[i])
  <2>1. PICK u \in Seq(X) : u = s[i]
    OBVIOUS
  <2>2. Len(u) \in Nat /\ u = [j \in 1..Len(u) |-> u[j]] /\ \A j \in 1..Len(u) : u[j] \in X /\ m[u[j]] = u[j]
    OBVIOUS
  <2> HIDE DEF m
  <2>3. Image(m, X, u, u)
    BY <2>2, ImageAt
  <2> QED
    BY <2>1, <2>3
<1> HIDE DEF m
<1>3. Image(m, X, Joined(s, sep), Joined(s, sep))
  BY <1>1, <1>2, ImageJoined
<1> QED
  BY <1>3 DEF Image

LEMMA ListSourced ==
  ASSUME NEW s \in Styles, NEW p, NEW n \in Nat
  PROVE  ListText(s, p, n) \in Seq(Sourced({p}))
<1> DEFINE X == Sourced({p})
           T == [e \in 1..n |-> <<[val |-> <<p, e>>]>>]
           a == <<Text("IN (")>>
           z == <<Text(")")>>
<1>1. \A w \in Word : w \in X
  BY DEF Sourced
<1>2. \A e \in Nat : [val |-> <<p, e>>] \in X
  BY DEF Sourced
<1> HIDE DEF X
<1>3. CASE s = "dollar"
  <2> DEFINE b == Text("= ANY(")
             y == Text(")")
  <2>1. ListText(s, p, n) = Whole(<<b, Param(p), y>>)
    BY <1>3 DEF ListText
  <2>2. ~IsParam(b) /\ ~IsParam(y) /\ IsParam(Param(p)) /\ Param(p).param = p
    BY DEF IsParam, Text, Param
  <2>3. b \in X /\ y \in X /\ [val |-> <<p, 0>>] \in X
    BY <1>1, <1>2, LitWords
  <2> HIDE DEF b, y
  <2>4. Whole(<<b, Param(p), y>>) = <<b, [val |-> <<p, 0>>], y>>
    BY <2>2 DEF Whole
  <2>5. \A x, y1, z1 : x \in X /\ y1 \in X /\ z1 \in X => <<x, y1, z1>> \in Seq(X)
    OBVIOUS
  <2>6. <<b, [val |-> <<p, 0>>], y>> \in Seq(X)
    BY <2>3, <2>5, Zenon
  <2> QED
    BY <2>1, <2>4, <2>6 DEF X
<1>4. CASE s # "dollar" /\ n = 0
  <2>1. ListText(s, p, n) = <<Text("IN (empty)")>>
    BY <1>4 DEF ListText, InEmpty
  <2>2. Text("IN (empty)") \in X
    BY <1>1, LitWords
  <2> QED
    BY <2>1, <2>2, OneSeq DEF X
<1>5. CASE s # "dollar" /\ n # 0
  <2>1. ListText(s, p, n) = a \o Joined(T, ", ") \o z
    BY <1>5 DEF ListText
  <2>2. ASSUME NEW e \in 1..n PROVE T[e] \in Seq(X)
    <3>1. PICK x : x = [val |-> <<p, e>>]
      OBVIOUS
    <3>2. x \in X
      BY <1>2, <3>1
    <3>3. T[e] = <<x>>
      BY <3>1
    <3> HIDE DEF T
    <3> QED
      BY <3>2, <3>3, OneSeq
  <2>3. T = [e \in 1..n |-> T[e]]
    OBVIOUS
  <2>4. Text(", ") \in X /\ a \in Seq(X) /\ z \in Seq(X)
    BY <1>1, LitWords, OneSeq
  <2> HIDE DEF T, a, z
  <2>5. Joined(T, ", ") \in Seq(X)
    BY <2>2, <2>3, <2>4, JoinedTyped
  <2> QED
    BY <2>1, <2>4, <2>5, ConcatSeq DEF X
<1> QED
  BY <1>3, <1>4, <1>5


\* Outside a tree, an item takes its values from its own parameters.
LEMMA ItemSourced ==
  ASSUME NEW s, NEW t, NEW c, InCall(s, t, c), NEW i \in 1..Len(t), t[i].kind # "tree"
  PROVE  ItemText(s, t, i, c) \in Seq(Sourced(ToSet(ItemParams(t[i]))))
<1> DEFINE it == t[i]
           names == ItemParams(it)
           X == Sourced(ToSet(names))
<1>0. t \in Templates /\ s \in Styles /\ c \in Calls(t)
  BY DEF InCall
<1>1. it \in Item /\ IsItem(it) /\ it.kind \in Kinds
  BY <1>0, TemplateFacts, ItemKinds
<1>2. names \in Seq(STRING) /\ \A b \in 1..Len(Bodies(it)) : Bodies(it)[b] \in Seq(Named(names))
  BY <1>1, OwnNamed
<1>3. Len(names) \in Nat
  BY <1>2
<1>4. \A u \in Seq(Named(names)) : Whole(u) \in Seq(X)
  BY <1>2, WholeSourced
<1>5. \A w \in Word : w \in X
  BY DEF Sourced
<1>6. ASSUME it.kind \in {"skeleton", "guarded"} PROVE it.body \in Seq(Named(names))
  <2>1. Bodies(it) = <<it.body>>
    BY <1>6 DEF Bodies
  <2>2. 1 \in 1..Len(Bodies(it)) /\ Bodies(it)[1] = it.body
    BY <2>1
  <2> QED
    BY <1>2, <2>2
<1>7. CASE it.kind = "skeleton"
  <2>1. ItemText(s, t, i, c) = Whole(it.body)
    BY <1>7 DEF ItemText
  <2> QED
    BY <1>4, <1>6, <1>7, <2>1
<1>8. CASE it.kind = "guarded"
  <2> DEFINE f == [sep |-> it.sep, body |-> Spans(it.body, names)]
  <2>1. ItemText(s, t, i, c) \in {Whole(GuardedPieces(it)), <<>>}
    BY <1>8 DEF ItemText
  <2>2. it \in GuardedItem
    BY <1>1, <1>8, ItemKinds
  <2>3. it.sep \in {"and", "comma", "none"}
    BY <2>2 DEF GuardedItem
  <2>4. f.sep = it.sep /\ f.body = Spans(it.body, names)
    OBVIOUS
  <2> HIDE DEF f
  <2>5. Writing(names, GuardedPieces(it), EmitGuarded(f))
    <3> HIDE DEF names, it
    <3> QED
      BY <1>3, <1>6, <1>8, <2>3, <2>4, WritingGuarded
  <2>6. GuardedPieces(it) \in Seq(Named(names))
    BY <2>5 DEF Writing, Image
  <2>7. Whole(GuardedPieces(it)) \in Seq(X) /\ <<>> \in Seq(X)
    BY <1>4, <2>6
  <2> QED
    BY <2>1, <2>7
<1>9. CASE it.kind = "choose"
  <2> DEFINE v == c.enums[Nth(t, i)]
             n == ChooseOrdinal(it, v) + 1
             nl == <<Text("\n")>>
  <2>1. n \in 1..Len(Bodies(it)) /\ Bodies(it)[n] = IF v = 0 THEN it.default[1] ELSE it.cases[v].body
    BY <1>9, ChosenCase
  <2>2. ItemText(s, t, i, c) = nl \o Whole(IF v = 0 THEN it.default[1] ELSE it.cases[v].body)
    BY <1>9 DEF ItemText
  <2>3. nl \in Seq(X)
    BY <1>5, LitWords, OneSeq
  <2> HIDE DEF nl, n, v
  <2>4. Whole(Bodies(it)[n]) \in Seq(X)
    BY <1>2, <1>4, <2>1
  <2> QED
    BY <2>1, <2>2, <2>3, <2>4, ConcatSeq
<1>10. CASE it.kind = "orderby"
  <2> DEFINE v == c.orders[Nth(t, i)]
             f == [cases |-> AllSpans(it.keys, names), default |-> AllSpans(it.default, names)]
  <2>1. v \in Seq(Nat) /\ \A j \in 1..Len(v) : v[j] \div 2 < Len(it.keys)
    BY <1>10, SortKeys
  <2>2. /\ it.keys \in Seq(Seq(Named(names))) /\ it.default \in Seq(Seq(Named(names)))
        /\ Len(it.default) <= 1
    <3> HIDE DEF names, it
    <3> QED
      BY <1>1, <1>2, <1>10, OrderNamed
  <2>3. ItemText(s, t, i, c) = Whole(OrderPieces(it, v))
    BY <1>10 DEF ItemText
  <2>4. f.cases = AllSpans(it.keys, names) /\ f.default = AllSpans(it.default, names)
    OBVIOUS
  <2> HIDE DEF f, v
  <2>5. Writing(names, OrderPieces(it, v), EmitOrder(f, v))
    <3> HIDE DEF names, it
    <3> QED
      BY <1>3, <2>1, <2>2, <2>4, WritingOrder DEF AllSpans
  <2>6. OrderPieces(it, v) \in Seq(Named(names))
    BY <2>5 DEF Writing, Image
  <2> QED
    BY <1>4, <2>3, <2>6
<1>11. CASE it.kind = "in"
  <2> DEFINE p == it.param
             n == c.lens[p]
  <2>1. n \in Nat
    <3>1. c.lens \in [ListParams(t) -> Lens] /\ p \in ListParams(t)
      BY <1>0, <1>11, CallFields, InNamed
    <3>2. n \in Lens
      BY <3>1
    <3> QED
      BY <3>2, ComposerAssumption
  <2>2. ItemText(s, t, i, c) = ListText(s, p, n)
    BY <1>11 DEF ItemText
  <2>3. ListText(s, p, n) \in Seq(Sourced({p}))
    <3> HIDE DEF p, n
    <3> QED
      BY <1>0, <2>1, ListSourced
  <2>4. p \in ToSet(names)
    <3> DEFINE x == Param(p)
    <3>1. Bodies(it) = << <<x>> >>
      BY <1>11 DEF Bodies
    <3>2. 1 \in 1..Len(Bodies(it)) /\ Bodies(it)[1] = <<x>>
      BY <3>1
    <3>3. <<x>> \in Seq(Named(names))
      BY <1>2, <3>2
    <3>4. x \in Named(names)
      <4>1. <<x>>[1] = x /\ 1 \in 1..Len(<<x>>)
        OBVIOUS
      <4> HIDE DEF x, names
      <4> QED
        BY <3>3, <4>1, ElementIn
    <3>5. IsParam(x) /\ x.param = p
      BY DEF IsParam, Param
    <3>6. Contains(names, p)
      BY <3>4, <3>5 DEF Named
    <3> HIDE DEF p, names
    <3> QED
      BY <1>2, <3>6, InSet
  <2> HIDE DEF p, n, names
  <2>5. \A x \in Sourced({p}) : x \in X
    BY <2>4 DEF Sourced
  <2>6. \A u \in Seq(Sourced({p})) : u \in Seq(X)
    <3>1. Sourced({p}) \subseteq X
      BY <2>5
    <3> HIDE DEF X
    <3> QED
      BY <3>1
  <2> QED
    BY <2>2, <2>3, <2>6 DEF names
<1> QED
  BY <1>1, <1>7, <1>8, <1>9, <1>10, <1>11 DEF Kinds

\* ... and each of those parameters is a field that holds something.
LEMMA ParamFilled ==
  ASSUME NEW t \in Templates, Accepted(t), NEW c \in Calls(t), NEW i \in 1..Len(t), t[i].kind # "tree",
         t[i].kind = "guarded" => \A a \in ToSet(t[i].guards) : Holds(a, c),
         NEW p \in ToSet(ItemParams(t[i]))
  PROVE  p \in Filled(t, c)
<1> DEFINE it == t[i]
           o == Appearance(it, p)
<1>1. t \in Seq(Item) /\ it \in Item
  BY TemplateFacts
<1>2. o \in ToSet(ItemOccurrences(it))
  BY <1>1, OwnNamed
<1>3. o.param = p /\ ~o.inTree
  BY AppearanceFields
<1>4. o \in OccurrencesOf(t, p)
  BY <1>1, <1>2, <1>3, OccurrenceMembers DEF OccurrencesOf
<1>5. p \in ToSet(ParamOrder(t))
  <2>1. Contains(ParamOrder(t), p)
    BY <1>1, <1>2, <1>3, ParamOrderMembers
  <2> QED
    BY <2>1, InSet, TemplateFacts
<1>6. Disciplined(t, p)
  BY <1>5 DEF Accepted
<1> HIDE DEF o
<1>7. TreeOnly(t, p)
  BY <1>4, <1>6, Zenon DEF Disciplined
<1>8. ~InPredicate(t, p)
  BY <1>3, <1>4, <1>7, Zenon DEF TreeOnly, InPredicate
<1>9. ASSUME p \in c.absent PROVE FALSE
  <2>1. Optional(t, p)
    BY <1>9, CallFields
  <2>2. SelfGuarded(o)
    BY <1>4, <2>1, Zenon DEF Optional, BindsUnderOwnGuard
  <2>3. Atom(p, "") \in o.guards
    BY <1>3, <2>2 DEF SelfGuarded
  <2>4. it.kind = "guarded" /\ Atom(p, "") \in ToSet(it.guards)
    BY <2>3, AppearanceFields DEF o
  <2>5. Holds(Atom(p, ""), c)
    BY <2>4
  <2>6. Atom(p, "").op = "" /\ Atom(p, "").param = p
    BY DEF Atom
  <2> QED
    BY <1>9, <2>5, <2>6 DEF Holds
<1> QED
  BY <1>5, <1>8, <1>9 DEF Filled


\* A tree takes its values from its leaves.
LEMMA TreeSourced ==
  ASSUME NEW s, NEW t, NEW c, IsComposed(s, t, c), NEW i \in 1..Len(t), t[i].kind = "tree"
  PROVE  ItemText(s, t, i, c) \in Seq(Sourced({"leaf"}))
<1> DEFINE args == TreeArgs(c.tree)
           fields == ParamOrder(t)
           m == Value(fields, args)
           X == Sourced({"leaf"})
           u == EmitFrag(BuildFrags(s, t), i, ShapeKey(s, t, c), c.tree)
<1>0. t \in Templates /\ c \in Calls(t)
  BY DEF IsComposed, InCall
<1>1. \A w \in Word : w \in X
  BY DEF Sourced
<1>2. CASE c.tree = NoTree
  <2>1. ItemText(s, t, i, c) = <<Text("TRUE")>>
    BY <1>2 DEF ItemText
  <2>2. Text("TRUE") \in X
    BY <1>1, LitWords
  <2> HIDE DEF X
  <2>3. <<Text("TRUE")>> \in Seq(X)
    BY <2>2, OneSeq
  <2> QED
    BY <2>1, <2>3 DEF X
<1>3. CASE c.tree # NoTree
  <2>1. c.tree \in Trees
    <3>1. Nth(t, i) \in 1..Blocks(t, "tree")
      BY <1>0, NthItem
    <3>2. Blocks(t, "tree") # 0
      BY <3>1
    <3> QED
      BY <1>0, <3>2, CallFields
  <2>2. args \in Seq(LeafArg)
    <3>1. MaxDepth \in 0..MaxDepth /\ args = ArgsTo[MaxDepth][c.tree]
      BY TreeAssumption DEF TreeArgs
    <3> QED
      BY <2>1, <3>1, ArgsTyped
  <2> HIDE DEF args
  <2>3. ASSUME NEW w \in TreeCell(args) PROVE m[w] \in X
    <3>1. w \in Cell /\ ("bind" \in DOMAIN w => w.bind.from = "tree" /\ w.bind.idx + 1 \in 1..Len(args))
      BY DEF TreeCell
    <3>2. CASE "bind" \in DOMAIN w
      <4>1. PICK k : k = w.bind.idx + 1
        OBVIOUS
      <4>2. k \in 1..Len(args) /\ DOMAIN args = 1..Len(args)
        BY <2>2, <3>1, <3>2, <4>1
      <4>3. Resolve(w.bind, fields, args) = args[k]
        BY <3>1, <3>2, <4>1, <4>2 DEF Resolve, At
      <4>4. args[k] \in {"leaf"} \X Nat
        BY <2>2, <4>2, ElementIn DEF LeafArg
      <4>5. m[w] = [val |-> args[k]]
        BY <3>1, <3>2, <4>3 DEF Value
      <4> QED
        BY <4>4, <4>5 DEF Sourced
    <3>3. CASE "bind" \notin DOMAIN w
      <4>1. w \in Word
        BY <3>1, <3>3, CellKinds, BindFields
      <4>2. m[w] = w
        BY <3>1, <3>3 DEF Value
      <4> QED
        BY <1>1, <4>1, <4>2
    <3> QED
      BY <3>2, <3>3
  <2>4. Maps(m, TreeCell(args), X)
    BY <2>3 DEF Maps
  <2>5. Image(m, TreeCell(args), u, ItemText(s, t, i, c))
    BY TreeImage DEF IsComposed, args
  <2> HIDE DEF m, u, X
  <2> QED
    BY <2>4, <2>5, ImageTyped DEF X
<1> QED
  BY <1>2, <1>3

\* Every value a call asks for comes from what it fills in.
LEMMA IntendedFilled ==
  ASSUME NEW s, NEW t, NEW c, IsComposed(s, t, c), Accepted(t)
  PROVE  Intended(s, t, c) \in Seq(Sourced(Filled(t, c)))
<1> DEFINE T == [i \in DOMAIN t |-> ItemText(s, t, i, c)]
           X == Sourced(Filled(t, c))
<1>0. t \in Templates /\ c \in Calls(t) /\ InCall(s, t, c)
  BY DEF IsComposed, InCall
<1>1. Len(t) \in Nat /\ DOMAIN t = 1..Len(t) /\ t \in Seq(Item)
  BY <1>0, TemplateFacts
<1>2. \A P : P \subseteq Filled(t, c) => \A v \in Seq(Sourced(P)) : v \in Seq(X)
  <2> TAKE P
  <2> HAVE P \subseteq Filled(t, c)
  <2>1. Sourced(P) \subseteq X
    BY DEF Sourced
  <2> HIDE DEF X
  <2> QED
    BY <2>1
<1>3. ASSUME NEW i \in 1..Len(t) PROVE T[i] \in Seq(X)
  <2> DEFINE it == t[i]
  <2>0. T[i] = ItemText(s, t, i, c)
    BY <1>1
  <2> HIDE DEF T, X
  <2>1. CASE it.kind = "tree"
    <3>1. "leaf" \in Filled(t, c)
      <4>1. ~Contains(ParamOrder(t), "leaf")
        BY <1>0, TemplateFacts
      <4>2. "leaf" \notin ToSet(ParamOrder(t))
        BY <1>0, <4>1, TemplateFacts, InSet
      <4>3. "leaf" \notin c.absent
        BY <1>0, <4>2, CallFields
      <4>4. ~InPredicate(t, "leaf")
        <5> SUFFICES ASSUME NEW o, o \in ToSet(Occurrences(t)), o.param = "leaf"
                     PROVE  FALSE
          BY Zenon DEF InPredicate, OccurrencesOf
        <5> QED
          BY <1>1, <4>1, OccurrenceMembers, ParamOrderMembers
      <4> QED
        BY <4>3, <4>4 DEF Filled
    <3>2. ItemText(s, t, i, c) \in Seq(Sourced({"leaf"}))
      BY <2>1, TreeSourced
    <3> QED
      BY <1>2, <2>0, <3>1, <3>2
  <2>2. CASE it.kind = "guarded" /\ ~\A a \in ToSet(it.guards) : Holds(a, c)
    <3>1. ItemText(s, t, i, c) = <<>>
      BY <2>2 DEF ItemText
    <3> QED
      BY <2>0, <3>1
  <2>3. CASE it.kind # "tree" /\ (it.kind = "guarded" => \A a \in ToSet(it.guards) : Holds(a, c))
    <3>1. ToSet(ItemParams(it)) \subseteq Filled(t, c)
      BY <1>0, <2>3, ParamFilled
    <3>2. ItemText(s, t, i, c) \in Seq(Sourced(ToSet(ItemParams(it))))
      BY <1>0, <2>3, ItemSourced
    <3> QED
      BY <1>2, <2>0, <3>1, <3>2
  <2> QED
    BY <2>1, <2>2, <2>3
<1>4. T = [i \in 1..Len(t) |-> T[i]]
  BY <1>1
<1>5. Intended(s, t, c) = FlattenSeq(T)
  BY DEF Intended
<1> HIDE DEF T, X
<1>6. T \in Seq(Seq(X))
  BY <1>1, <1>3, <1>4
<1> QED
  BY <1>5, <1>6, FlattenMembers DEF X

LEMMA ArgsFilled ==
  ASSUME NEW s, NEW t, NEW c, IsComposed(s, t, c), Accepted(t),
         NEW stmt, stmt = Statement(s, t, ShapeKey(s, t, c), c), NEW k \in DOMAIN stmt.args
  PROVE  stmt.args[k][1] \in Filled(t, c)
<1> DEFINE fields == ParamOrder(t)
           args == TreeArgs(c.tree)
           m == Value(fields, args)
           all == Intended(s, t, c)
<1>1. PICK w, co :
            /\ Image(m, Cell, w, all)
            /\ Laid(s, w, Len(w), co)
            /\ stmt.sql = co.b /\ stmt.binds = co.binds /\ stmt.args = ResolveArgs(co.binds, t, c.tree)
  BY StatementLaid
<1>2. w \in Seq(Cell) /\ all = Mapped(m, w)
  BY <1>1 DEF Image
<1>3. co.binds \in Seq(BindPlan)
  BY <1>1 DEF Laid
<1>4. DOMAIN stmt.args = 1..Len(co.binds) /\ stmt.args[k] = Resolve(co.binds[k], fields, args)
  BY <1>1, <1>3 DEF ResolveArgs
<1>5. PICK i \in 1..Len(w) : IsBind(w[i]) /\ w[i].bind = co.binds[k]
  BY <1>1, <1>4 DEF Laid
<1>6. w[i] \in Cell
  BY <1>2, ElementIn
<1>7. m[w[i]] = [val |-> stmt.args[k]]
  BY <1>4, <1>5, <1>6 DEF Value, IsBind
<1>8. all[i] = m[w[i]] /\ i \in 1..Len(all)
  <2>1. Len(w) \in Nat /\ all = [j \in 1..Len(w) |-> m[w[j]]]
    BY <1>2 DEF Mapped
  <2> HIDE DEF all, m
  <2> QED
    BY <2>1
<1>9. all \in Seq(Sourced(Filled(t, c)))
  BY IntendedFilled
<1>10. [val |-> stmt.args[k]] \in Sourced(Filled(t, c))
  <2> HIDE DEF all, m
  <2> QED
    BY <1>7, <1>8, <1>9, ElementIn
<1>11. PICK y : y = stmt.args[k]
  OBVIOUS
<1>12. [val |-> y] \in Sourced(Filled(t, c))
  BY <1>10, <1>11
<1>13. [val |-> y] \notin Word
  <2>1. DOMAIN [val |-> y] = {"val"}
    OBVIOUS
  <2> QED
    BY <2>1, WordFields
<1>14. PICK v \in Filled(t, c) \X Nat : [val |-> y] = [val |-> v]
  BY <1>12, <1>13 DEF Sourced
<1>15. y = v
  <2>1. [val |-> y].val = y /\ [val |-> v].val = v
    OBVIOUS
  <2> QED
    BY <1>14, <2>1
<1> QED
  BY <1>11, <1>14, <1>15

\* No placeholder is bound to a field that holds nothing: an optional
\* parameter the caller left out is bound only inside fragments its own guard
\* switches off with it, and a predicate's parameter only through a leaf.
THEOREM ArgumentsPresent == Spec => []NothingAbsent
<1>1. Stages => NothingAbsent
  <2> SUFFICES ASSUME Stages, pc = "sent", NEW k \in DOMAIN sent.args
               PROVE  sent.args[k][1] \notin call.absent /\ ~InPredicate(q, sent.args[k][1])
    BY DEF NothingAbsent
  <2>1. /\ IsComposed(style, q, call) /\ Accepted(q)
        /\ sent = Statement(style, q, ShapeKey(style, q, call), call)
    BY SentIsComposed
  <2>2. sent.args[k][1] \in Filled(q, call)
    BY <2>1, ArgsFilled
  <2> QED
    BY <2>2 DEF Filled
<1> QED
  BY <1>1, SpecStages, PTL


-----------------------------------------------------------------------------
(* The renderings.                                                         *)

\* A selection, and the pieces of item i under it.
Selection(guards, choices, orders, ins, trees) ==
    [guards |-> guards, choices |-> choices, orders |-> orders, ins |-> ins, trees |-> trees]
PieceItem(s, t, v, i) ==
    LET it == t[i]
        n == Nth(t, i)
    IN  CASE it.kind = "skeleton" -> it.body
          [] it.kind = "guarded" -> IF Active(t, it, v.guards) THEN GuardedPieces(it) ELSE <<>>
          [] it.kind = "choose" -> <<Text("\n")>> \o CaseBody(it, At(v.choices, n, 0))
          [] it.kind = "orderby" -> OrderPieces(it, At(v.orders, n, Maximal))
          [] it.kind = "in" -> InPieces(it, s, At(v.ins, n, 1))
          [] it.kind = "tree" -> TreePieces(it, At(v.trees, n, 1))

LEMMA PiecesFlatten ==
  ASSUME NEW s, NEW t, NEW guards, NEW choices, NEW orders, NEW ins, NEW trees
  PROVE  Pieces(s, t, guards, choices, orders, ins, trees)
         = FlattenSeq([i \in DOMAIN t |-> PieceItem(s, t, Selection(guards, choices, orders, ins, trees), i)])
BY DEF Pieces, PieceItem, Selection

\* The renderer and the composer agree on which fragments are active.
LEMMA ActiveHolds ==
  ASSUME NEW s, NEW t \in Seq(Item), NEW c, NEW i \in 1..Len(t), t[i].kind = "guarded"
  PROVE  Active(t, t[i], ShapeKey(s, t, c).guards) <=> \A a \in ToSet(t[i].guards) : Holds(a, c)
<1> DEFINE atoms == GuardAtoms(t)
           on == {b \in DOMAIN atoms : Holds(atoms[b], c)}
           guards == ShapeKey(s, t, c).guards
<1>1. guards = {b - 1 : b \in on}
  BY DEF ShapeKey
<1>2. atoms \in Seq(AtomType) /\ DOMAIN atoms = 1..Len(atoms) /\ Len(atoms) \in Nat
  <2>1. atoms \in Seq(AtomType)
    BY AtomsMembers
  <2> QED
    BY <2>1
<1> HIDE DEF guards
<1>3. ASSUME NEW g \in ToSet(t[i].guards)
      PROVE  (\E b \in DOMAIN atoms : atoms[b] = g /\ b - 1 \in guards) <=> Holds(g, c)
  <2>1. PICK n \in 1..Len(atoms) : atoms[n] = g
    <3>1. Contains(atoms, g)
      BY AtomsMembers
    <3> QED
      BY <3>1 DEF Contains
  <2>2. \A b \in DOMAIN atoms : b - 1 \in guards <=> Holds(atoms[b], c)
    <3> TAKE b \in DOMAIN atoms
    <3>1. b \in on <=> Holds(atoms[b], c)
      OBVIOUS
    <3>2. on \subseteq Int /\ b \in Int
      BY <1>2
    <3> HIDE DEF on
    <3> QED
      BY <1>1, <3>1, <3>2
  <2> QED
    BY <1>2, <2>1, <2>2
<1> QED
  BY <1>3 DEF Active, guards

LEMMA CaseBodyAt ==
  ASSUME NEW it \in ChooseItem, Len(it.default) <= 1, NEW ord \in Nat, ord + 1 \in 1..Len(Bodies(it))
  PROVE  CaseBody(it, ord) = Bodies(it)[ord + 1] /\ ord \in 0..(MaxOrdinal(it) - 1)
         /\ MaxOrdinal(it) \in Nat
<1> DEFINE named == [i \in DOMAIN it.cases |-> it.cases[i].body]
<1>1. /\ it.kind = "choose" /\ it.cases \in Seq([name : STRING, body : Body]) /\ it.default \in Seq(Body)
  BY DEF ChooseItem
<1>2. /\ Len(it.cases) \in Nat /\ DOMAIN it.cases = 1..Len(it.cases) /\ Len(it.default) \in Nat
  BY <1>1
<1>3. named \in Seq(Body) /\ Len(named) = Len(it.cases)
      /\ \A i \in 1..Len(it.cases) : named[i] = it.cases[i].body
  <2>1. ASSUME NEW i \in 1..Len(it.cases) PROVE it.cases[i].body \in Body
    <3>1. it.cases[i] \in [name : STRING, body : Body]
      BY <1>1, ElementIn
    <3> QED
      BY <3>1
  <2> QED
    BY <1>2, <2>1
<1>4. Bodies(it) = named \o it.default
  BY <1>1 DEF Bodies
<1>5. PICK a \in Nat, b \in Nat : a = Len(it.cases) /\ b = Len(it.default)
  BY <1>2, Zenon
<1>6. b <= 1 /\ MaxOrdinal(it) = a + b /\ Len(named) = a
  BY <1>3, <1>5, Zenon DEF MaxOrdinal
<1>7. Len(Bodies(it)) = a + b
  <2>1. PICK d : d \in Seq(Body) /\ d = it.default
    BY <1>1, Zenon
  <2>2. PICK u : u \in Seq(Body) /\ u = named
    BY <1>3, Zenon
  <2>3. Len(u \o d) = Len(u) + Len(d)
    BY <2>1, <2>2, ConcatSeq
  <2> HIDE DEF named
  <2> QED
    BY <1>3, <1>4, <1>5, <2>1, <2>2, <2>3, Zenon
<1> HIDE DEF named
<1>10. ord + 1 \in 1..(a + b)
  BY <1>7, Zenon
<1>11. ord \in 0..(a + b - 1) /\ a + b \in Nat /\ (ord < a => ord + 1 \in 1..a)
       /\ (~(ord < a) => b = 1 /\ ord + 1 = a + 1)
  <2>1. b \in Nat /\ b <= 1
    BY <1>6
  <2> QED
    BY <1>10, <2>1
<1>12. ord \in 0..(MaxOrdinal(it) - 1) /\ MaxOrdinal(it) \in Nat
  BY <1>6, <1>11
<1>8. CASE ord < a
  <2>1. CaseBody(it, ord) = it.cases[ord + 1].body
    BY <1>5, <1>8, Zenon DEF CaseBody
  <2>2. ord + 1 \in 1..Len(named) /\ ord + 1 \in 1..Len(it.cases)
    BY <1>5, <1>6, <1>8, <1>11, Zenon
  <2>3. StandsAt(Bodies(it), ord + 1, named[ord + 1])
    <3>1. IsConcat(Bodies(it), named, it.default)
      BY <1>4 DEF IsConcat
    <3> QED
      BY <1>1, <1>3, <2>2, <3>1, ConcatStands
  <2>4. named[ord + 1] = it.cases[ord + 1].body
    BY <1>3, <2>2, Zenon
  <2> QED
    BY <1>12, <2>1, <2>3, <2>4, Zenon DEF StandsAt
<1>9. CASE ~(ord < a)
  <2>1. PICK d : d \in Seq(Body) /\ d = it.default
    BY <1>1, Zenon
  <2>2. Len(d) = 1 /\ ord + 1 = Len(named) + 1
    BY <1>5, <1>6, <1>9, <1>11, <2>1, Zenon
  <2>3. d # <<>>
    <3>1. Len(<<>>) # 1
      OBVIOUS
    <3> QED
      BY <2>2, <3>1, Zenon
  <2>4. CaseBody(it, ord) = it.default[1]
    BY <1>5, <1>9, <2>1, <2>3, Zenon DEF CaseBody
  <2>5. StandsAt(Bodies(it), ord + 1, it.default[1])
    <3>1. IsConcat(Bodies(it), named, it.default)
      BY <1>4 DEF IsConcat
    <3>2. \A k : k = Len(named) + 1 /\ it.default # <<>> => StandsAt(Bodies(it), k, it.default[1])
      BY <1>1, <1>3, <3>1, ConcatStands
    <3> QED
      BY <2>1, <2>2, <2>3, <3>2, Zenon
  <2> QED
    BY <1>12, <2>4, <2>5, Zenon DEF StandsAt
<1> QED
  BY <1>8, <1>9


\* The value of a parameter, whichever element of it.
Bare == [x \in Sourced(STRING) |-> IF "val" \in DOMAIN x THEN [val |-> <<x.val[1], 0>>] ELSE x]

LEMMA BareWord ==
  ASSUME NEW w \in Word
  PROVE  w \in Sourced(STRING) /\ Bare[w] = w
<1>1. w \in Sourced(STRING) /\ "val" \notin DOMAIN w
  BY WordFields DEF Sourced
<1> QED
  BY <1>1 DEF Bare

LEMMA BareValue ==
  ASSUME NEW p \in STRING, NEW e \in Nat, NEW x, x = [val |-> <<p, e>>]
  PROVE  x \in Sourced(STRING) /\ Bare[x] = [val |-> <<p, 0>>]
<1>1. x \in Sourced(STRING) /\ "val" \in DOMAIN x /\ x.val[1] = p
  BY DEF Sourced
<1> QED
  BY <1>1 DEF Bare

LEMMA BareWhole ==
  ASSUME NEW names \in Seq(STRING), NEW u \in Seq(Named(names))
  PROVE  Image(Bare, Sourced(STRING), Whole(u), Whole(u))
<1>1. u \in Seq(Piece) /\ Len(u) \in Nat
  BY NamedPieces
<1>2. PICK v : v = Mapped(Own, u)
  OBVIOUS
<1>3. Whole(u) = v
  BY <1>1, <1>2, WholeIsOwn
<1>4. v = [i \in 1..Len(u) |-> v[i]]
  BY <1>2 DEF Mapped
<1>5. ASSUME NEW i \in 1..Len(u) PROVE v[i] \in Sourced(STRING) /\ Bare[v[i]] = v[i]
  <2>1. u[i] \in Piece /\ v[i] = Own[u[i]]
    BY <1>1, <1>2, ElementIn, MappedAt
  <2>2. CASE IsParam(u[i])
    <3>1. PICK p \in STRING : p = u[i].param
      BY <2>1, <2>2, PieceKinds, ParamFields
    <3>2. v[i] = [val |-> <<p, 0>>]
      BY <2>1, <2>2, <3>1 DEF Own
    <3>3. 0 \in Nat
      OBVIOUS
    <3> QED
      BY <3>2, <3>3, BareValue
  <2>3. CASE ~IsParam(u[i])
    <3>1. u[i] \in Word /\ v[i] = u[i]
      BY <2>1, <2>3, PieceKinds DEF Own
    <3> QED
      BY <3>1, BareWord
  <2> QED
    BY <2>2, <2>3
<1> QED
  BY <1>1, <1>3, <1>4, <1>5, ImageAt

\* Item i is rendered as the pieces of what the call asks of it.
ItemRendered(s, t, c, v, i) ==
    /\ PieceItem(s, t, v, i) \in Seq(Named(ParamOrder(t)))
    /\ Image(Bare, Sourced(STRING), ItemText(s, t, i, c), Whole(PieceItem(s, t, v, i)))

LEMMA WholeRendered ==
  ASSUME NEW s, NEW t \in Templates, NEW c, NEW v, NEW i \in 1..Len(t),
         PieceItem(s, t, v, i) \in Seq(Named(ParamOrder(t))),
         ItemText(s, t, i, c) = Whole(PieceItem(s, t, v, i))
  PROVE  ItemRendered(s, t, c, v, i)
<1>1. ParamOrder(t) \in Seq(STRING)
  BY TemplateFacts
<1>2. Image(Bare, Sourced(STRING), Whole(PieceItem(s, t, v, i)), Whole(PieceItem(s, t, v, i)))
  BY <1>1, BareWhole
<1> QED
  BY <1>2 DEF ItemRendered

LEMMA SkeletonRendered ==
  ASSUME NEW s, NEW t \in Templates, NEW c, NEW v, NEW i \in 1..Len(t), t[i].kind = "skeleton"
  PROVE  ItemRendered(s, t, c, v, i)
<1> DEFINE it == t[i]
<1>1. t \in Seq(Item)
  BY TemplateFacts
<1>2. it.body \in Seq(Named(ParamOrder(t)))
  <2>1. Bodies(it) = <<it.body>>
    BY DEF Bodies
  <2>2. 1 \in 1..Len(Bodies(it)) /\ Bodies(it)[1] = it.body
    BY <2>1
  <2> QED
    BY <1>1, <2>2, BodiesNamed
<1>3. PieceItem(s, t, v, i) = it.body /\ ItemText(s, t, i, c) = Whole(it.body)
  BY DEF PieceItem, ItemText
<1> QED
  BY <1>2, <1>3, WholeRendered

LEMMA GuardedNamed ==
  ASSUME NEW t \in Templates, NEW i \in 1..Len(t), t[i].kind = "guarded"
  PROVE  GuardedPieces(t[i]) \in Seq(Named(ParamOrder(t)))
<1> DEFINE it == t[i]
           names == ParamOrder(t)
           f == [sep |-> it.sep, body |-> Spans(it.body, names)]
<1>1. t \in Seq(Item) /\ it \in Item /\ Len(names) \in Nat
  BY TemplateFacts
<1>2. it.body \in Seq(Named(names))
  <2>1. Bodies(it) = <<it.body>>
    BY DEF Bodies
  <2>2. 1 \in 1..Len(Bodies(it)) /\ Bodies(it)[1] = it.body
    BY <2>1
  <2> QED
    BY <1>1, <2>2, BodiesNamed
<1>3. it.sep \in {"and", "comma", "none"}
  <2>1. it \in GuardedItem
    BY <1>1, ItemKinds
  <2> QED
    BY <2>1 DEF GuardedItem
<1>4. f.sep = it.sep /\ f.body = Spans(it.body, names)
  OBVIOUS
<1> HIDE DEF f, names, it
<1>5. Writing(names, GuardedPieces(it), EmitGuarded(f))
  BY <1>1, <1>2, <1>3, <1>4, WritingGuarded
<1> QED
  BY <1>5 DEF Writing, Image, names, it

LEMMA GuardedRendered ==
  ASSUME NEW s, NEW t \in Templates, NEW c, NEW v, v.guards = ShapeKey(s, t, c).guards,
         NEW i \in 1..Len(t), t[i].kind = "guarded"
  PROVE  ItemRendered(s, t, c, v, i)
<1> DEFINE it == t[i]
           on == \A a \in ToSet(it.guards) : Holds(a, c)
<1>1. t \in Seq(Item)
  BY TemplateFacts
<1>2. Active(t, it, v.guards) <=> on
  BY <1>1, ActiveHolds
<1>3. ItemText(s, t, i, c) = IF on THEN Whole(GuardedPieces(it)) ELSE <<>>
  BY DEF ItemText
<1>4. PieceItem(s, t, v, i) = IF Active(t, it, v.guards) THEN GuardedPieces(it) ELSE <<>>
  BY DEF PieceItem
<1>5. GuardedPieces(it) \in Seq(Named(ParamOrder(t)))
  BY GuardedNamed
<1>6. <<>> \in Seq(Named(ParamOrder(t))) /\ Whole(<<>>) = <<>>
  BY DEF Whole
<1> HIDE DEF on
<1>7. PieceItem(s, t, v, i) \in Seq(Named(ParamOrder(t)))
  BY <1>4, <1>5, <1>6
<1>8. ItemText(s, t, i, c) = Whole(PieceItem(s, t, v, i))
  BY <1>2, <1>3, <1>4, <1>6
<1> QED
  BY <1>7, <1>8, WholeRendered


LEMMA ChooseRendered ==
  ASSUME NEW s, NEW t, NEW c, InCall(s, t, c), NEW v, v.choices = ShapeKey(s, t, c).choices,
         NEW i \in 1..Len(t), t[i].kind = "choose"
  PROVE  ItemRendered(s, t, c, v, i)
<1> DEFINE it == t[i]
           n == Nth(t, i)
           e == c.enums[n]
           ord == ChooseOrdinal(it, e)
           body == Bodies(it)[ord + 1]
           nl == <<Text("\n")>>
           names == ParamOrder(t)
<1>0. t \in Templates
  BY DEF InCall
<1>1. t \in Seq(Item) /\ it \in Item /\ IsItem(it) /\ Len(names) \in Nat
  BY <1>0, TemplateFacts
<1>2. ord \in Nat /\ ord + 1 \in 1..Len(Bodies(it)) /\ body = IF e = 0 THEN it.default[1] ELSE it.cases[e].body
  BY ChosenCase
<1>3. it \in ChooseItem /\ Len(it.default) <= 1
  BY <1>1, ItemKinds DEF IsItem
<1>4. At(v.choices, n, 0) = ord
  <2>1. /\ n \in 1..Blocks(t, "choose") /\ OfKind(t, "choose")[n] = it
        /\ DOMAIN OfKind(t, "choose") = 1..Blocks(t, "choose")
    BY <1>0, NthItem
  <2>2. v.choices = [j \in DOMAIN OfKind(t, "choose") |-> ChooseOrdinal(OfKind(t, "choose")[j], c.enums[j])]
    BY DEF ShapeKey
  <2> HIDE DEF n
  <2> QED
    BY <2>1, <2>2 DEF At
<1>5. ItemText(s, t, i, c) = nl \o Whole(body)
  <2>1. ItemText(s, t, i, c) = nl \o Whole(IF e = 0 THEN it.default[1] ELSE it.cases[e].body)
    BY DEF ItemText
  <2> QED
    BY <1>2, <2>1
<1>6. PieceItem(s, t, v, i) = nl \o CaseBody(it, At(v.choices, n, 0))
  BY DEF PieceItem
<1>7. body \in Seq(Named(names))
  BY <1>1, <1>2, BodiesNamed
<1> HIDE DEF n, e, ord
<1>8. CaseBody(it, ord) = body
  <2> HIDE DEF it
  <2> QED
    BY <1>2, <1>3, CaseBodyAt
<1> HIDE DEF body
<1>9. PieceItem(s, t, v, i) = nl \o body
  BY <1>4, <1>6, <1>8
<1>10. nl \in Seq(Piece) /\ Whole(nl) = nl /\ nl \in Seq(Named(names))
  <2>1. Text("\n") \in Named(names)
    BY LitWords, NamedWord
  <2> QED
    BY <2>1, LitWords, WholeWord, OneSeq
<1> HIDE DEF nl, names
<1>11. Whole(nl \o body) = nl \o Whole(body)
  BY <1>7, <1>10, NamedPieces, WholeConcat
<1>12. nl \o body \in Seq(Named(names))
  BY <1>7, <1>10, ConcatSeq
<1> QED
  BY <1>0, <1>5, <1>9, <1>11, <1>12, WholeRendered DEF names

LEMMA OrderPiecesNamed ==
  ASSUME NEW t \in Templates, NEW i \in 1..Len(t), t[i].kind = "orderby",
         NEW seq \in Seq(Nat), \A j \in 1..Len(seq) : seq[j] \div 2 < Len(t[i].keys)
  PROVE  OrderPieces(t[i], seq) \in Seq(Named(ParamOrder(t)))
<1> DEFINE it == t[i]
           names == ParamOrder(t)
           f == [cases |-> AllSpans(it.keys, names), default |-> AllSpans(it.default, names)]
<1>1. t \in Seq(Item) /\ it \in Item /\ IsItem(it) /\ Len(names) \in Nat
  BY TemplateFacts
<1>2. \A b \in 1..Len(Bodies(it)) : Bodies(it)[b] \in Seq(Named(names))
  BY <1>1, BodiesNamed
<1>3. /\ it.keys \in Seq(Seq(Named(names))) /\ it.default \in Seq(Seq(Named(names)))
      /\ Len(it.default) <= 1
  <2> HIDE DEF names
  <2> QED
    BY <1>1, <1>2, OrderNamed
<1>4. f.cases = AllSpans(it.keys, names) /\ f.default = AllSpans(it.default, names)
  OBVIOUS
<1> HIDE DEF f
<1>5. Writing(names, OrderPieces(it, seq), EmitOrder(f, seq))
  <2> HIDE DEF names
  <2> QED
    BY <1>1, <1>3, <1>4, WritingOrder DEF AllSpans
<1> QED
  BY <1>5 DEF Writing, Image

LEMMA OrderRendered ==
  ASSUME NEW s, NEW t, NEW c, InCall(s, t, c), NEW v, v.orders = c.orders,
         NEW i \in 1..Len(t), t[i].kind = "orderby"
  PROVE  ItemRendered(s, t, c, v, i)
<1> DEFINE it == t[i]
           n == Nth(t, i)
           seq == c.orders[n]
<1>0. t \in Templates
  BY DEF InCall
<1>1. seq \in Seq(Nat) /\ n \in DOMAIN c.orders /\ \A j \in 1..Len(seq) : seq[j] \div 2 < Len(it.keys)
  BY SortKeys
<1>2. At(v.orders, n, Maximal) = seq
  BY <1>1 DEF At
<1>3. ItemText(s, t, i, c) = Whole(OrderPieces(it, seq))
  BY DEF ItemText
<1>4. PieceItem(s, t, v, i) = OrderPieces(it, At(v.orders, n, Maximal))
  BY DEF PieceItem
<1> HIDE DEF seq, n
<1>5. OrderPieces(it, seq) \in Seq(Named(ParamOrder(t)))
  BY <1>0, <1>1, OrderPiecesNamed
<1> QED
  BY <1>0, <1>2, <1>3, <1>4, <1>5, WholeRendered

\* A list's own pieces.
LEMMA InPiecesNamed ==
  ASSUME NEW s \in Styles, NEW t \in Templates, NEW i \in 1..Len(t), t[i].kind = "in", NEW n
  PROVE  InPieces(t[i], s, n) \in Seq(Named(ParamOrder(t)))
<1> DEFINE X == Named(ParamOrder(t))
           x == Param(t[i].param)
<1>1. x \in X
  <2>1. x \in Piece /\ Contains(ParamOrder(t), t[i].param)
    BY InNamed
  <2>2. x.param = t[i].param
    BY DEF Param
  <2> QED
    BY <2>1, <2>2 DEF Named
<1>2. \A w \in Word : w \in X
  BY NamedWord
<1>3. Text("= ANY(") \in X /\ Text(")") \in X /\ Text("IN (") \in X /\ Text("IN (empty)") \in X
  BY <1>2, LitWords
<1>4. InPieces(t[i], s, n) \in {<<Text("= ANY("), x, Text(")")>>, <<Text("IN (empty)")>>,
                                <<Text("IN ("), x, Text(")")>>}
  BY DEF InPieces, InEmpty, Styles
<1> HIDE DEF x, X
<1>5. \A a, b, z : a \in X /\ b \in X /\ z \in X => <<a, b, z>> \in Seq(X)
  OBVIOUS
<1>6. <<Text("= ANY("), x, Text(")")>> \in Seq(X) /\ <<Text("IN ("), x, Text(")")>> \in Seq(X)
  BY <1>1, <1>3, <1>5, Zenon
<1>7. <<Text("IN (empty)")>> \in Seq(X)
  BY <1>3, OneSeq
<1> QED
  BY <1>4, <1>6, <1>7 DEF X


LEMMA ThreeOnes ==
  ASSUME NEW g, NEW h, NEW k
  PROVE  <<g>> \o <<h>> \o <<k>> = <<g, h, k>>
<1> DEFINE X == {g, h, k}
<1>1. PICK a, b, d : a = <<g>> /\ b = <<h>> /\ d = <<k>>
  OBVIOUS
<1>2. /\ a \in Seq(X) /\ b \in Seq(X) /\ d \in Seq(X) /\ Len(a) = 1 /\ Len(b) = 1 /\ Len(d) = 1
      /\ a[1] = g /\ b[1] = h /\ d[1] = k
  BY <1>1
<1> HIDE DEF X
<1>3. PICK e : e = a \o b
  OBVIOUS
<1>4. e \in Seq(X) /\ Len(e) = 2 /\ e[1] = g /\ e[2] = h
  <2>1. e \in Seq(X) /\ Len(e) = Len(a) + Len(b)
    BY <1>2, <1>3, ConcatSeq
  <2>2. 1 \in 1..Len(a) /\ 1 \in 1..Len(b) /\ 2 = Len(a) + 1 /\ Len(e) = 2
    BY <1>2, <2>1
  <2>3. e[1] = a[1]
    BY <1>2, <1>3, <2>2, ConcatLeft
  <2>4. e[2] = b[1]
    BY <1>2, <1>3, <2>2, ConcatRight
  <2> QED
    BY <1>2, <2>1, <2>2, <2>3, <2>4
<1>5. PICK f : f = e \o d
  OBVIOUS
<1>6. f \in Seq(X) /\ Len(f) = 3 /\ f[1] = g /\ f[2] = h /\ f[3] = k
  <2>1. f \in Seq(X) /\ Len(f) = Len(e) + Len(d)
    BY <1>2, <1>4, <1>5, ConcatSeq
  <2>2. 1 \in 1..Len(e) /\ 2 \in 1..Len(e) /\ 1 \in 1..Len(d) /\ 3 = Len(e) + 1 /\ Len(f) = 3
    BY <1>2, <1>4, <2>1
  <2>3. f[1] = e[1] /\ f[2] = e[2]
    BY <1>2, <1>4, <1>5, <2>2, ConcatLeft
  <2>4. f[3] = d[1]
    BY <1>2, <1>4, <1>5, <2>2, ConcatRight
  <2> QED
    BY <1>2, <1>4, <2>1, <2>2, <2>3, <2>4
<1>7. f = <<g, h, k>>
  BY <1>6
<1> QED
  BY <1>1, <1>3, <1>5, <1>7

LEMMA InRendered ==
  ASSUME NEW s, NEW t, NEW c, InCall(s, t, c), NEW v, v.ins = ShapeKey(s, t, c).arities,
         \A j \in DOMAIN v.ins : v.ins[j] <= 1,
         NEW i \in 1..Len(t), t[i].kind = "in"
  PROVE  ItemRendered(s, t, c, v, i)
<1> DEFINE it == t[i]
           p == it.param
           n == c.lens[p]
           names == ParamOrder(t)
           P == PieceItem(s, t, v, i)
           a == Text("IN (")
           z == Text(")")
<1>0. t \in Templates /\ c \in Calls(t) /\ s \in Styles
  BY DEF InCall
<1>1. P = InPieces(it, s, At(v.ins, Nth(t, i), 1)) /\ ItemText(s, t, i, c) = ListText(s, p, n)
  BY DEF PieceItem, ItemText
<1>2. P \in Seq(Named(names))
  BY <1>0, <1>1, InPiecesNamed
<1>3. CASE s = "dollar"
  <2>1. ItemText(s, t, i, c) = Whole(<<Text("= ANY("), Param(p), Text(")")>>)
    BY <1>1, <1>3 DEF ListText
  <2>2. P = <<Text("= ANY("), Param(p), Text(")")>>
    BY <1>1, <1>3 DEF InPieces
  <2> QED
    BY <1>0, <1>2, <2>1, <2>2, WholeRendered
<1>4. CASE s = "question"
  <2>1. At(v.ins, Nth(t, i), 1) = n /\ n <= 1
    <3> DEFINE ins == OfKind(t, "in")
               j == Nth(t, i)
    <3>1. j \in DOMAIN ins /\ ins[j] = it
      BY <1>0, NthItem
    <3>2. v.ins = [x \in DOMAIN ins |-> c.lens[ins[x].param]]
      BY <1>4 DEF ShapeKey
    <3> HIDE DEF j, ins
    <3>3. j \in DOMAIN v.ins /\ v.ins[j] = n
      BY <3>1, <3>2
    <3>4. At(v.ins, j, 1) = n /\ n <= 1
      BY <3>3 DEF At
    <3> QED
      BY <3>4 DEF j
  <2>2. n \in Nat
    <3>1. c.lens \in [ListParams(t) -> Lens] /\ p \in ListParams(t)
      BY <1>0, CallFields, InNamed
    <3>2. n \in Lens
      BY <3>1
    <3> QED
      BY <3>2, ComposerAssumption
  <2> HIDE DEF n
  <2>3. CASE n = 0
    <3>1. P = <<Text("IN (empty)")>> /\ ItemText(s, t, i, c) = <<Text("IN (empty)")>>
      BY <1>1, <1>4, <2>1, <2>3 DEF InPieces, ListText, InEmpty
    <3>2. Whole(<<Text("IN (empty)")>>) = <<Text("IN (empty)")>>
      BY LitWords, WholeWord
    <3> QED
      BY <1>0, <1>2, <3>1, <3>2, WholeRendered
  <2>4. CASE n # 0
    <3>1. n = 1
      BY <2>1, <2>2, <2>4
    <3>2. PICK x, y : x = [val |-> <<p, 1>>] /\ y = [val |-> <<p, 0>>]
      OBVIOUS
    <3> DEFINE T == [e \in 1..n |-> <<[val |-> <<p, e>>]>>]
               S == Sourced(STRING)
    <3>3. P = <<a, Param(p), z>>
      BY <1>1, <1>4, <2>1, <2>4 DEF InPieces
    <3>4. Whole(<<a, Param(p), z>>) = <<a, y, z>>
      <4>1. ~IsParam(a) /\ ~IsParam(z) /\ IsParam(Param(p)) /\ Param(p).param = p
        BY DEF IsParam, Text, Param
      <4> HIDE DEF a, z, p
      <4> QED
        BY <3>2, <4>1 DEF Whole
    <3>5. p \in STRING
      <4>1. Param(p) \in Piece /\ IsParam(Param(p)) /\ Param(p).param = p
        BY <1>0, InNamed DEF IsParam, Param
      <4> QED
        BY <4>1, PieceKinds, ParamFields
    <3>6. x \in S /\ Bare[x] = y
      <4>1. 1 \in Nat
        OBVIOUS
      <4> HIDE DEF p
      <4> QED
        BY <3>2, <3>5, <4>1, BareValue
    <3>7. a \in S /\ Bare[a] = a /\ z \in S /\ Bare[z] = z
      BY LitWords, BareWord
    <3>8. Joined(T, ", ") = <<x>>
      <4>1. DOMAIN T = 1..1 /\ T[1] = <<x>>
        BY <3>1, <3>2
      <4>2. Joined(T, ", ") = FlattenSeq([j \in 1..1 |-> <<x>>])
        <5>1. Joined(T, ", ") = FlattenSeq([j \in 1..1 |-> IF j = 1 THEN T[j] ELSE <<Text(", ")>> \o T[j]])
          BY <4>1 DEF Joined
        <5>2. ASSUME NEW j \in 1..1 PROVE (IF j = 1 THEN T[j] ELSE <<Text(", ")>> \o T[j]) = <<x>>
          BY <4>1
        <5> HIDE DEF T
        <5>3. [j \in 1..1 |-> IF j = 1 THEN T[j] ELSE <<Text(", ")>> \o T[j]] = [j \in 1..1 |-> <<x>>]
          BY <5>2
        <5> QED
          BY <5>1, <5>3
      <4>3. PICK o : o = [j \in 1..1 |-> <<x>>]
        OBVIOUS
      <4>4. o \in Seq(Seq({x})) /\ Len(o) = 1 /\ o # <<>> /\ o[1] = <<x>>
        BY <4>3
      <4>5. Len(o) <= 1
        BY <4>4
      <4>6. FlattenSeq(o) = o[1]
        BY <4>4, <4>5, FlattenShort
      <4> QED
        BY <4>2, <4>3, <4>4, <4>6
    <3>9. ItemText(s, t, i, c) = <<a, x, z>>
      <4>1. ItemText(s, t, i, c) = <<a>> \o Joined(T, ", ") \o <<z>>
        BY <1>1, <1>4, <2>4 DEF ListText
      <4> HIDE DEF T, a, z
      <4> QED
        BY <3>8, <4>1, ThreeOnes
    <3> HIDE DEF S, a, z
    <3>10. Image(Bare, S, <<a, x, z>>, <<a, y, z>>)
      <4>1. PICK u, w : u = <<a, x, z>> /\ w = <<a, y, z>>
        OBVIOUS
      <4>2. u = [j \in 1..3 |-> u[j]] /\ w = [j \in 1..3 |-> w[j]] /\ 3 \in Nat
        BY <4>1
      <4>3. u[1] = a /\ u[2] = x /\ u[3] = z /\ w[1] = a /\ w[2] = y /\ w[3] = z
        BY <4>1
      <4>4. \A j \in 1..3 : j = 1 \/ j = 2 \/ j = 3
        OBVIOUS
      <4>5. \A j \in 1..3 : u[j] \in S /\ Bare[u[j]] = w[j]
        BY <3>6, <3>7, <4>3, <4>4, Zenon
      <4>6. Image(Bare, S, u, w)
        BY <4>2, <4>5, ImageAt
      <4> QED
        BY <4>1, <4>6
    <3> QED
      BY <1>2, <3>3, <3>4, <3>9, <3>10 DEF ItemRendered, S
  <2> QED
    BY <2>3, <2>4
<1> QED
  BY <1>0, <1>3, <1>4 DEF Styles

\* A tree that asks for nothing.
LEMMA TreeRendered ==
  ASSUME NEW s, NEW t, NEW c, InCall(s, t, c), OneTree(t), c.tree \in {NoTree, Unscoped},
         NEW v, v.trees = << 0 >>, NEW i \in 1..Len(t), t[i].kind = "tree"
  PROVE  ItemRendered(s, t, c, v, i)
<1> DEFINE it == t[i]
           n == Nth(t, i)
           w == Text("TRUE")
<1>0. t \in Templates /\ c \in Calls(t)
  BY DEF InCall
<1>1. n \in 1..Blocks(t, "tree")
  BY <1>0, NthItem
<1>2. n = 1 /\ Blocks(t, "tree") # 0
  <2>1. Blocks(t, "tree") <= 1
    BY DEF OneTree, Blocks
  <2>2. Blocks(t, "tree") \in Nat
    <3>1. OfKind(t, "tree") \in Seq(Item)
      BY <1>0, TemplateFacts, NthOfKind
    <3> QED
      BY <3>1 DEF Blocks
  <2> HIDE DEF n
  <2> QED
    BY <1>1, <2>1, <2>2
<1>3. At(v.trees, n, 1) = 0
  BY <1>2 DEF At
<1>4. PieceItem(s, t, v, i) = <<w>>
  <2>1. PieceItem(s, t, v, i) = TreePieces(it, At(v.trees, n, 1))
    BY DEF PieceItem
  <2> HIDE DEF n
  <2> QED
    BY <1>3, <2>1 DEF TreePieces
<1>5. ItemText(s, t, i, c) = <<w>>
  <2>1. ItemText(s, t, i, c) = IF c.tree = NoTree THEN <<w>> ELSE TreeText(it.preds, c.tree)
    BY DEF ItemText
  <2>2. ASSUME c.tree # NoTree PROVE TreeText(it.preds, c.tree) = <<w>>
    <3>1. c.tree = Unscoped /\ c.tree \in Trees
      BY <1>0, <1>2, <2>2, CallFields
    <3>2. PICK f : IsText(f, it.preds, MaxDepth) /\ TreeText(it.preds, c.tree) = f[MaxDepth][c.tree]
      BY TextLevels
    <3>3. MaxDepth \in 1..MaxDepth
      BY TreeAssumption
    <3>4. f[MaxDepth][c.tree] = TextAt(it.preds, c.tree, f[MaxDepth - 1])
      BY <3>1, <3>2, <3>3, TextAtLevel
    <3>5. c.tree.op = "true"
      BY <3>1 DEF Unscoped
    <3>6. TextAt(it.preds, c.tree, f[MaxDepth - 1]) = <<w>>
      BY <3>5 DEF TextAt
    <3> QED
      BY <3>2, <3>4, <3>6
  <2> QED
    BY <2>1, <2>2
<1>6. w \in Named(ParamOrder(t)) /\ Whole(<<w>>) = <<w>>
  BY LitWords, NamedWord, WholeWord
<1>7. <<w>> \in Seq(Named(ParamOrder(t)))
  BY <1>6, OneSeq
<1> QED
  BY <1>0, <1>4, <1>5, <1>6, <1>7, WholeRendered


\* The shape is rendered as the pieces of what the call asks for.
LEMMA ShapeRendered ==
  ASSUME NEW s, NEW t, NEW c, InCall(s, t, c), OneTree(t), c.tree \in {NoTree, Unscoped},
         NEW k, k = ShapeKey(s, t, c), \A j \in DOMAIN k.arities : k.arities[j] <= 1,
         NEW P, P = Pieces(s, t, k.guards, k.choices, k.orders, k.arities, << 0 >>)
  PROVE  /\ P \in Seq(Named(ParamOrder(t)))
         /\ Image(Bare, Sourced(STRING), Intended(s, t, c), Whole(P))
<1> DEFINE v == Selection(k.guards, k.choices, k.orders, k.arities, << 0 >>)
           names == ParamOrder(t)
           S == [i \in DOMAIN t |-> ItemText(s, t, i, c)]
           U == [i \in DOMAIN t |-> PieceItem(s, t, v, i)]
           T == [i \in DOMAIN t |-> Whole(PieceItem(s, t, v, i))]
<1>0. t \in Templates /\ s \in Styles
  BY DEF InCall
<1>1. Len(t) \in Nat /\ DOMAIN t = 1..Len(t) /\ \A i \in 1..Len(t) : t[i] \in Item
  BY <1>0, TemplateFacts
<1>2. /\ v.guards = k.guards /\ v.choices = k.choices /\ v.orders = k.orders /\ v.ins = k.arities
      /\ v.trees = << 0 >> /\ k.orders = c.orders
  BY DEF Selection, ShapeKey
<1> HIDE DEF v
<1>3. ASSUME NEW i \in 1..Len(t) PROVE ItemRendered(s, t, c, v, i)
  <2>1. t[i].kind \in Kinds
    BY <1>1, ItemKinds
  <2>2. CASE t[i].kind = "skeleton"
    BY <1>0, <2>2, SkeletonRendered
  <2>3. CASE t[i].kind = "guarded"
    BY <1>0, <1>2, <2>3, GuardedRendered
  <2>4. CASE t[i].kind = "choose"
    BY <1>2, <2>4, ChooseRendered
  <2>5. CASE t[i].kind = "orderby"
    BY <1>2, <2>5, OrderRendered
  <2>6. CASE t[i].kind = "in"
    <3>1. \A j \in DOMAIN v.ins : v.ins[j] <= 1
      BY <1>2
    <3> QED
      BY <1>2, <2>6, <3>1, InRendered
  <2>7. CASE t[i].kind = "tree"
    BY <1>2, <2>7, TreeRendered
  <2> QED
    BY <2>1, <2>2, <2>3, <2>4, <2>5, <2>6, <2>7 DEF Kinds
<1>4. ASSUME NEW i \in 1..Len(t)
      PROVE  /\ U[i] \in Seq(Named(names)) /\ Image(Bare, Sourced(STRING), S[i], T[i])
             /\ T[i] = Whole(U[i])
  <2>1. /\ PieceItem(s, t, v, i) \in Seq(Named(names))
        /\ Image(Bare, Sourced(STRING), ItemText(s, t, i, c), Whole(PieceItem(s, t, v, i)))
    BY <1>3 DEF ItemRendered
  <2>2. S[i] = ItemText(s, t, i, c) /\ U[i] = PieceItem(s, t, v, i) /\ T[i] = Whole(PieceItem(s, t, v, i))
    BY <1>1
  <2> HIDE DEF S, U, T, names
  <2> QED
    BY <2>1, <2>2
<1>5. /\ S = [i \in 1..Len(t) |-> S[i]] /\ T = [i \in 1..Len(t) |-> T[i]]
      /\ U = [i \in 1..Len(t) |-> U[i]]
  BY <1>1
<1>6. Intended(s, t, c) = FlattenSeq(S)
  BY DEF Intended
<1>7. P = FlattenSeq(U)
  BY PiecesFlatten DEF v
<1> HIDE DEF S, T, U, names
<1>8. Maps(Bare, Sourced(STRING), {Bare[x] : x \in Sourced(STRING)})
  BY DEF Maps
<1>9. Image(Bare, Sourced(STRING), FlattenSeq(S), FlattenSeq(T))
  BY <1>1, <1>4, <1>5, <1>8, ImageFlatten
<1>10. Maps(Own, Piece, {Own[x] : x \in Piece})
  BY DEF Maps
<1>11. \A i \in 1..Len(t) : Image(Own, Piece, U[i], T[i])
  <2> TAKE i \in 1..Len(t)
  <2>1. U[i] \in Seq(Piece)
    BY <1>4, NamedPieces
  <2> QED
    BY <1>4, <2>1, WholeIsOwn DEF Image
<1>12. Image(Own, Piece, FlattenSeq(U), FlattenSeq(T))
  BY <1>1, <1>5, <1>10, <1>11, ImageFlatten
<1>13. FlattenSeq(T) = Whole(P)
  BY <1>7, <1>12, WholeIsOwn DEF Image
<1>14. U \in Seq(Seq(Named(names)))
  BY <1>1, <1>4, <1>5
<1>15. P \in Seq(Named(names))
  BY <1>7, <1>14, FlattenMembers
<1> QED
  BY <1>6, <1>9, <1>13, <1>15 DEF names

\* A tree that asks for nothing writes TRUE.
LEMMA TrueWritten ==
  ASSUME NEW s, NEW t, NEW c, InCall(s, t, c), c.tree \in {NoTree, Unscoped},
         NEW i \in 1..Len(t), t[i].kind = "tree"
  PROVE  EmitFrag(BuildFrags(s, t), i, ShapeKey(s, t, c), c.tree) = <<Text("TRUE")>>
<1> DEFINE F == BuildFrags(s, t)
           f == F[i]
           k == ShapeKey(s, t, c)
           preds == f.cases
<1>0. t \in Templates /\ c \in Calls(t)
  BY DEF InCall
<1>1. f.kind = "tree"
  <2>1. IsFragment(f, s, ParamOrder(t), GuardAtoms(t), t[i])
    BY <1>0, Fragment
  <2> HIDE DEF F, f
  <2> QED
    BY <2>1 DEF IsFragment, FragKind
<1> HIDE DEF F, k
<1>2. EmitFrag(F, i, k, c.tree) = IF c.tree = NoTree THEN <<Text("TRUE")>> ELSE EmitTree(preds, c.tree)
  BY <1>1 DEF EmitFrag
<1>3. ASSUME c.tree # NoTree PROVE EmitTree(preds, c.tree) = <<Text("TRUE")>>
  <2>1. c.tree = Unscoped /\ c.tree \in Trees
    <3>1. Nth(t, i) \in 1..Blocks(t, "tree")
      BY <1>0, NthItem
    <3>2. Blocks(t, "tree") # 0
      BY <3>1
    <3> QED
      BY <1>0, <1>3, <3>2, CallFields
  <2> HIDE DEF preds
  <2>2. PICK E : IsEmit(E, preds, MaxDepth) /\ EmitTree(preds, c.tree) = E[MaxDepth][c.tree][0]
    BY EmitLevels
  <2>3. MaxDepth \in 1..MaxDepth /\ 0 \in Int
    BY TreeAssumption
  <2>4. E[MaxDepth][c.tree][0] = EmitAt(preds, MaxDepth, c.tree, 0, E[MaxDepth - 1])
    BY <2>1, <2>2, <2>3, EmitAtLevel
  <2>5. c.tree.op = "true"
    BY <2>1 DEF Unscoped
  <2>6. EmitAt(preds, MaxDepth, c.tree, 0, E[MaxDepth - 1]) = <<Text("TRUE")>>
    BY <2>5 DEF EmitAt
  <2> QED
    BY <2>2, <2>4, <2>6
<1> QED
  BY <1>2, <1>3 DEF F, k

\* With numbered placeholders every bind is the one of its name.
LEMMA WritesPlaced ==
  ASSUME NEW t, NEW c, InCall("dollar", t, c), c.tree \in {NoTree, Unscoped}
  PROVE  Writes(BuildFrags("dollar", t), ShapeKey("dollar", t, c), c.tree) \in Seq(PlacedCells(ParamOrder(t)))
<1> DEFINE s == "dollar"
           F == BuildFrags(s, t)
           k == ShapeKey(s, t, c)
           X == PlacedCells(ParamOrder(t))
           S == [i \in DOMAIN t |-> EmitFrag(F, i, k, c.tree)]
<1>0. t \in Templates
  BY DEF InCall
<1>1. Len(t) \in Nat /\ DOMAIN t = 1..Len(t) /\ \A i \in 1..Len(t) : t[i] \in Item
  BY <1>0, TemplateFacts
<1>2. DOMAIN F = DOMAIN t
  BY DEF BuildFrags
<1>3. ASSUME NEW i \in 1..Len(t) PROVE EmitFrag(F, i, k, c.tree) \in Seq(X)
  <2>1. t[i].kind \in Kinds
    BY <1>1, ItemKinds
  <2>2. CASE t[i].kind = "skeleton"
    BY <1>0, <2>2, SkeletonMeans DEF FragmentPlaces
  <2>3. CASE t[i].kind = "guarded"
    BY <1>0, <2>3, GuardedMeans DEF FragmentPlaces
  <2>4. CASE t[i].kind = "choose"
    BY <2>4, ChooseMeans DEF FragmentPlaces
  <2>5. CASE t[i].kind = "orderby"
    BY <2>5, OrderMeans DEF FragmentPlaces
  <2>6. CASE t[i].kind = "in"
    BY <2>6, InAnyMeans DEF FragmentPlaces
  <2>7. CASE t[i].kind = "tree"
    <3>1. EmitFrag(F, i, k, c.tree) = <<Text("TRUE")>>
      BY <2>7, TrueWritten
    <3>2. Text("TRUE") \in X
      BY LitWords, NamedWord DEF PlacedCells
    <3> HIDE DEF X
    <3> QED
      BY <3>1, <3>2, OneSeq
  <2> QED
    BY <2>1, <2>2, <2>3, <2>4, <2>5, <2>6, <2>7 DEF Kinds
<1>4. Writes(F, k, c.tree) = FlattenSeq(S)
  BY <1>2 DEF Writes
<1>5. S = [i \in 1..Len(t) |-> S[i]] /\ \A i \in 1..Len(t) : S[i] \in Seq(X)
  BY <1>1, <1>3
<1> HIDE DEF S, X
<1>6. S \in Seq(Seq(X))
  BY <1>1, <1>5
<1> QED
  BY <1>4, <1>6, FlattenMembers DEF X

-----------------------------------------------------------------------------
(* The renderer and the composer side by side.                             *)

FieldOf(names, p) == Bind("field", IndexIn(names, p) - 1, 0).bind

\* A write and the piece it stands for: the same text, or a bind that resolves
\* to the parameter and, where equal binds share a number, is the one of its
\* name.
Agrees(s, names, args, w, x) ==
    IF IsParam(x)
    THEN /\ IsBind(w) /\ w.bind \in BindPlan /\ x.param \in STRING
         /\ Resolve(w.bind, names, args)[1] = x.param
         /\ s = "dollar" => w.bind = FieldOf(names, x.param)
    ELSE ~IsBind(w) /\ w = x /\ x \in Word

LEMMA CellAgrees ==
  ASSUME NEW s, NEW names \in Seq(STRING), Len(names) <= MaxIndex + 1, NEW args,
         NEW w \in Cell, NEW x \in Named(names),
         Value(names, args)[w] \in Sourced(STRING), Bare[Value(names, args)[w]] = Own[x],
         s = "dollar" => w \in PlacedCells(names)
  PROVE  Agrees(s, names, args, w, x)
<1> DEFINE y == Value(names, args)[w]
<1>1. x \in Piece
  BY DEF Named
<1>2. CASE "bind" \notin DOMAIN w
  <2>1. w \in Word /\ y = w
    BY <1>2, CellKinds DEF Value
  <2>2. Bare[y] = w
    BY <2>1, BareWord
  <2>3. ~IsParam(x)
    <3>1. SUFFICES ASSUME IsParam(x) PROVE FALSE
      OBVIOUS
    <3>2. Own[x] = [val |-> <<x.param, 0>>]
      BY <1>1, <3>1 DEF Own
    <3>3. DOMAIN Own[x] = {"val"}
      BY <3>2
    <3>4. DOMAIN w = {"text"}
      BY <2>1, WordFields
    <3> HIDE DEF y
    <3> QED
      BY <2>2, <3>3, <3>4 DEF y
  <2>4. Own[x] = x /\ x \in Word
    BY <1>1, <2>3, PieceKinds DEF Own
  <2> HIDE DEF y
  <2>5. w = x
    BY <2>2, <2>4 DEF y
  <2> QED
    BY <1>2, <2>3, <2>4, <2>5 DEF Agrees, IsBind
<1>3. CASE "bind" \in DOMAIN w
  <2>1. w \in [bind : BindPlan] /\ w.bind \in BindPlan
    BY <1>3, CellKinds, BindFields
  <2>2. PICK R : R = Resolve(w.bind, names, args)
    OBVIOUS
  <2>3. y = [val |-> R]
    BY <1>3, <2>2 DEF Value
  <2>4. DOMAIN y = {"val"} /\ y.val = R
    BY <2>3
  <2>5. Bare[y] = [val |-> <<R[1], 0>>]
    BY <2>4 DEF Bare
  <2> HIDE DEF y
  <2>6. IsParam(x)
    <3>1. SUFFICES ASSUME ~IsParam(x) PROVE FALSE
      OBVIOUS
    <3>2. Own[x] = x /\ x \in Word
      BY <1>1, <3>1, PieceKinds DEF Own
    <3>3. DOMAIN x = {"text"}
      BY <3>2, WordFields
    <3>4. DOMAIN Bare[y] = {"val"}
      BY <2>5
    <3> QED
      BY <3>2, <3>3, <3>4 DEF y
  <2>7. x.param \in STRING /\ Own[x] = [val |-> <<x.param, 0>>]
    BY <1>1, <2>6, PieceKinds, ParamFields DEF Own
  <2>8. R[1] = x.param
    <3>1. [val |-> <<R[1], 0>>] = [val |-> <<x.param, 0>>]
      BY <2>5, <2>7 DEF y
    <3> QED
      BY <3>1
  <2>9. ASSUME s = "dollar" PROVE w.bind = FieldOf(names, x.param)
    <3>1. PICK z \in Named(names) : w = Placed(names)[z]
      BY <2>9 DEF PlacedCells
    <3>2. z \in Piece
      BY DEF Named
    <3>3. IsParam(z)
      <4>1. SUFFICES ASSUME ~IsParam(z) PROVE FALSE
        OBVIOUS
      <4>2. z \in Word /\ w = z
        BY <3>1, <3>2, <4>1, PieceKinds DEF Placed
      <4> QED
        BY <1>3, <4>2, WordFields
    <3>4. w = Bind("field", IndexIn(names, z.param) - 1, 0) /\ Own[z] = [val |-> <<z.param, 0>>]
      BY <3>1, <3>2, <3>3 DEF Placed, Own
    <3>5. y = Own[z]
      BY <3>1, ValueOfPlaced DEF y
    <3>6. [val |-> R] = [val |-> <<z.param, 0>>]
      BY <2>3, <3>4, <3>5
    <3>7. R = <<z.param, 0>>
      BY <3>6
    <3>8. z.param = x.param
      BY <2>8, <3>7
    <3> QED
      BY <3>4, <3>8 DEF FieldOf
  <2> QED
    BY <1>3, <2>1, <2>2, <2>6, <2>7, <2>8, <2>9 DEF Agrees, IsBind
<1> QED
  BY <1>2, <1>3

LEMMA IndexSame ==
  ASSUME NEW u, NEW v, Len(u) = Len(v), Len(u) \in Nat, NEW d, NEW e,
         \A k \in 1..Len(u) : u[k] = d <=> v[k] = e
  PROVE  IndexIn(u, d) = IndexIn(v, e) /\ (Contains(u, d) <=> Contains(v, e))
<1>1. PICK I : I = {k \in 1..Len(u) : u[k] = d}
  OBVIOUS
<1>2. I = {k \in 1..Len(v) : v[k] = e}
  BY <1>1
<1>3. IndexIn(u, d) = IF I # {} THEN Min(I) ELSE 0
  BY <1>1 DEF IndexIn, SelectInSeq
<1>4. IndexIn(v, e) = IF I # {} THEN Min(I) ELSE 0
  BY <1>2 DEF IndexIn, SelectInSeq
<1>5. Contains(u, d) <=> Contains(v, e)
  BY DEF Contains
<1> QED
  BY <1>3, <1>4, <1>5

Identifier == STRING
\* A bind and the parameter it stands for.
Names(s, names, args, bd, p) ==
    /\ Resolve(bd, names, args)[1] = p
    /\ s = "dollar" => bd = FieldOf(names, p)
\* The bind plan beside the renderer's parameters.
Paired(s, names, args, binds, params) ==
    /\ binds \in Seq(BindPlan) /\ params \in Seq(Identifier)
    /\ Len(binds) = Len(params)
    /\ \A k \in 1..Len(params) : Names(s, names, args, binds[k], params[k])

LEMMA PairedAppend ==
  ASSUME NEW s, NEW names, NEW args, NEW binds, NEW params, Paired(s, names, args, binds, params),
         NEW bd \in BindPlan, NEW p \in Identifier, Names(s, names, args, bd, p)
  PROVE  Paired(s, names, args, Append(binds, bd), Append(params, p))
<1>1. binds \in Seq(BindPlan) /\ params \in Seq(Identifier) /\ Len(binds) = Len(params)
  BY DEF Paired
<1>2. PICK n \in Nat : n = Len(params) /\ n = Len(binds)
  BY <1>1, LenNat
<1>3. PICK u : u = Append(binds, bd)
  OBVIOUS
<1>4. PICK v : v = Append(params, p)
  OBVIOUS
<1>5. /\ u \in Seq(BindPlan) /\ Len(u) = n + 1 /\ u[n + 1] = bd
      /\ \A k \in 1..n : u[k] = binds[k]
  BY <1>1, <1>2, <1>3
<1>6. /\ v \in Seq(Identifier) /\ Len(v) = n + 1 /\ v[n + 1] = p
      /\ \A k \in 1..n : v[k] = params[k]
  BY <1>1, <1>2, <1>4
<1>7. \A k \in 1..n : Names(s, names, args, binds[k], params[k])
  BY <1>2 DEF Paired
<1>8. ASSUME NEW k \in 1..(n + 1) PROVE Names(s, names, args, u[k], v[k])
  <2>1. k \in 1..n \/ k = n + 1
    OBVIOUS
  <2>2. CASE k \in 1..n
    BY <1>5, <1>6, <1>7, <2>2, Zenon
  <2>3. CASE k = n + 1
    BY <1>5, <1>6, <2>3, Zenon
  <2> QED
    BY <2>1, <2>2, <2>3
<1> QED
  BY <1>3, <1>4, <1>5, <1>6, <1>8 DEF Paired

LEMMA PairedIndex ==
  ASSUME NEW names, NEW args, NEW binds, NEW params, Paired("dollar", names, args, binds, params),
         NEW bd, NEW p, Names("dollar", names, args, bd, p)
  PROVE  IndexIn(binds, bd) = IndexIn(params, p) /\ (Contains(binds, bd) <=> Contains(params, p))
<1>1. Len(binds) = Len(params) /\ Len(binds) \in Nat
  BY LenNat DEF Paired
<1>2. ASSUME NEW k \in 1..Len(binds) PROVE binds[k] = bd <=> params[k] = p
  <2>1. Names("dollar", names, args, binds[k], params[k])
    BY <1>1 DEF Paired
  <2> QED
    BY <2>1 DEF Names
<1> QED
  BY <1>1, <1>2, IndexSame

\* The composer's state beside the renderer's.
Alike(s, names, args, co, r) == co.b = r.sql /\ Paired(s, names, args, co.binds, r.params)

LEMMA AlikeStep ==
  ASSUME NEW s \in Styles, NEW names, NEW args, NEW co, NEW r, Alike(s, names, args, co, r),
         NEW w, NEW x, Agrees(s, names, args, w, x)
  PROVE  Alike(s, names, args, Write(s, co, w), EmitPiece(s, r, x))
<1>1. co.b = r.sql /\ Paired(s, names, args, co.binds, r.params)
  BY DEF Alike
<1>2. CASE ~IsParam(x)
  <2>1. ~IsBind(w) /\ w = x
    BY <1>2 DEF Agrees
  <2>2. Write(s, co, w) = [b |-> Append(co.b, w), binds |-> co.binds]
    BY <2>1 DEF Write, IsBind
  <2>3. EmitPiece(s, r, x) = [sql |-> Append(r.sql, x), params |-> r.params]
    BY <1>2 DEF EmitPiece
  <2> QED
    BY <1>1, <2>1, <2>2, <2>3 DEF Alike
<1>3. CASE IsParam(x)
  <2>1. PICK p : p = x.param
    OBVIOUS
  <2>2. PICK bd : bd = w.bind
    OBVIOUS
  <2>3. IsBind(w) /\ bd \in BindPlan /\ p \in Identifier /\ Names(s, names, args, bd, p)
    BY <1>3, <2>1, <2>2 DEF Agrees, Names, Identifier
  <2>4. Write(s, co, w) = Place(s, co, bd)
    BY <2>2, <2>3 DEF Write, IsBind
  <2>5. EmitPiece(s, r, x) = Placeholder(s, r, p)
    BY <1>3, <2>1 DEF EmitPiece
  <2>6. Paired(s, names, args, Append(co.binds, bd), Append(r.params, p))
    BY <1>1, <2>3, PairedAppend
  <2>7. CASE s = "question"
    <3>1. Place(s, co, bd) = [b |-> Append(co.b, [ph |-> 0]), binds |-> Append(co.binds, bd)]
      BY <2>7 DEF Place
    <3>2. Placeholder(s, r, p) = [sql |-> Append(r.sql, [ph |-> 0]), params |-> Append(r.params, p)]
      BY <2>7 DEF Placeholder
    <3> QED
      BY <1>1, <2>4, <2>5, <2>6, <3>1, <3>2 DEF Alike
  <2>8. CASE s = "dollar"
    <3>1. Contains(co.binds, bd) <=> Contains(r.params, p)
      BY <1>1, <2>3, <2>8, PairedIndex
    <3>2. CASE Contains(co.binds, bd)
      <4>1. Place(s, co, bd) = [b |-> Append(co.b, [ph |-> IndexIn(co.binds, bd)]), binds |-> co.binds]
        BY <2>8, <3>2 DEF Place
      <4>2. Placeholder(s, r, p) = [sql |-> Append(r.sql, [ph |-> IndexIn(r.params, p)]), params |-> r.params]
        BY <2>8, <3>1, <3>2 DEF Placeholder
      <4>3. IndexIn(co.binds, bd) = IndexIn(r.params, p)
        BY <1>1, <2>3, <2>8, PairedIndex
      <4> QED
        BY <1>1, <2>4, <2>5, <4>1, <4>2, <4>3 DEF Alike
    <3>3. CASE ~Contains(co.binds, bd)
      <4>1. PICK u : u = Append(co.binds, bd)
        OBVIOUS
      <4>2. PICK v : v = Append(r.params, p)
        OBVIOUS
      <4>3. Place(s, co, bd) = [b |-> Append(co.b, [ph |-> IndexIn(u, bd)]), binds |-> u]
        BY <2>8, <3>3, <4>1 DEF Place
      <4>4. Placeholder(s, r, p) = [sql |-> Append(r.sql, [ph |-> IndexIn(v, p)]), params |-> v]
        BY <2>8, <3>1, <3>3, <4>2 DEF Placeholder
      <4>5. Paired(s, names, args, u, v)
        BY <2>6, <4>1, <4>2
      <4>6. IndexIn(u, bd) = IndexIn(v, p)
        BY <2>3, <2>8, <4>5, PairedIndex
      <4> QED
        BY <1>1, <2>4, <2>5, <4>3, <4>4, <4>5, <4>6 DEF Alike
    <3> QED
      BY <3>2, <3>3
  <2> QED
    BY <2>7, <2>8 DEF Styles
<1> QED
  BY <1>2, <1>3

Blank == [sql |-> <<>>, params |-> <<>>]
\* f[n] is the renderer after the first n pieces.
IsRenderer(f, s, w, n) == f = [i \in 0..n |-> IF i = 0 THEN Blank ELSE EmitPiece(s, f[i - 1], w[i])]

LEMMA RendererExists ==
  ASSUME NEW s, NEW w, NEW N \in Nat
  PROVE  \E f : IsRenderer(f, s, w, N)
<1> DEFINE D == {n \in Nat : \E f : IsRenderer(f, s, w, n)}
<1>1. 0 \in D
  <2>1. IsRenderer([i \in 0..0 |-> Blank], s, w, 0)
    BY DEF IsRenderer
  <2> QED
    BY <2>1
<1>2. ASSUME NEW n \in Nat, n \in D PROVE n + 1 \in D
  <2>1. PICK f : IsRenderer(f, s, w, n)
    BY <1>2
  <2> DEFINE g == [i \in 0..(n + 1) |-> IF i = n + 1 THEN EmitPiece(s, f[n], w[n + 1]) ELSE f[i]]
  <2>2. ASSUME NEW i \in 0..(n + 1)
        PROVE  g[i] = IF i = 0 THEN Blank ELSE EmitPiece(s, g[i - 1], w[i])
    <3>1. CASE i = n + 1
      <4>1. i - 1 = n /\ n # n + 1 /\ n \in 0..(n + 1) /\ i # 0
        BY <3>1
      <4>2. g[i - 1] = f[n] /\ g[i] = EmitPiece(s, f[n], w[n + 1])
        BY <3>1, <4>1
      <4> HIDE DEF g
      <4> QED
        BY <3>1, <4>1, <4>2
    <3>2. CASE i # n + 1
      <4>1. i \in 0..n /\ (i # 0 => i - 1 \in 0..(n + 1) /\ i - 1 # n + 1)
        BY <3>2
      <4>2. g[i] = f[i] /\ (i # 0 => g[i - 1] = f[i - 1])
        BY <3>2, <4>1
      <4>3. f[i] = IF i = 0 THEN Blank ELSE EmitPiece(s, f[i - 1], w[i])
        BY <2>1, <4>1 DEF IsRenderer
      <4> HIDE DEF g
      <4> QED
        BY <4>2, <4>3
    <3> QED
      BY <3>1, <3>2
  <2>3. g = [i \in 0..(n + 1) |-> g[i]]
    OBVIOUS
  <2> HIDE DEF g
  <2>4. IsRenderer(g, s, w, n + 1)
    BY <2>2, <2>3 DEF IsRenderer
  <2> QED
    BY <2>4
<1> HIDE DEF D
<1>3. N \in D
  BY <1>1, <1>2, NaturalInduction
<1> QED
  BY <1>3 DEF D


LEMMA RendererRuns ==
  ASSUME NEW s, NEW w, Len(w) \in Nat
  PROVE  \E f : IsRenderer(f, s, w, Len(w)) /\ Render(s, w) = f[Len(w)]
<1>1. Render(s, w) = (CHOOSE f : IsRenderer(f, s, w, Len(w)))[Len(w)]
  BY DEF Render, IsRenderer, Blank
<1>2. IsRenderer(CHOOSE f : IsRenderer(f, s, w, Len(w)), s, w, Len(w))
  BY RendererExists, Zenon
<1> QED
  BY <1>1, <1>2

\* The writes stand for the pieces, one by one.
AgreeAll(s, names, args, w, P) ==
    /\ Len(w) \in Nat /\ Len(P) = Len(w)
    /\ \A j \in 1..Len(w) : Agrees(s, names, args, w[j], P[j])

\* So the composer and the renderer end alike.
LEMMA RendersAlike ==
  ASSUME NEW s \in Styles, NEW names, NEW args, NEW frags, NEW k, NEW tree,
         NEW P, AgreeAll(s, names, args, Writes(frags, k, tree), P)
  PROVE  Alike(s, names, args, ComposeTreeStyle(s, frags, k, tree), Render(s, P))
<1>0. PICK w : w = Writes(frags, k, tree)
  OBVIOUS
<1>1. PICK N \in Nat : N = Len(w) /\ N = Len(P) /\ Len(w) \in Nat /\ Len(P) \in Nat
  BY <1>0 DEF AgreeAll
<1>2. \A j \in 1..N : Agrees(s, names, args, w[j], P[j])
  BY <1>0, <1>1 DEF AgreeAll
<1>3. PICK f : IsComposer(f, s, w, Len(w)) /\ ComposeTreeStyle(s, frags, k, tree) = f[Len(w)]
  <2>1. Len(w) \in Nat
    BY <1>1
  <2> QED
    BY <1>0, <2>1, ComposerRuns
<1>4. PICK g : IsRenderer(g, s, P, Len(P)) /\ Render(s, P) = g[Len(P)]
  <2>1. Len(P) \in Nat
    BY <1>1
  <2> QED
    BY <2>1, RendererRuns, Zenon
<1>5. \A n \in 0..N : f[n] = IF n = 0 THEN Start ELSE Write(s, f[n - 1], w[n])
  BY <1>1, <1>3 DEF IsComposer
<1>6. \A n \in 0..N : g[n] = IF n = 0 THEN Blank ELSE EmitPiece(s, g[n - 1], P[n])
  BY <1>1, <1>4 DEF IsRenderer
<1> DEFINE D == {n \in 0..N : Alike(s, names, args, f[n], g[n])}
<1>7. 0 \in D
  <2>1. f[0] = Start /\ g[0] = Blank /\ 0 \in 0..N
    BY <1>5, <1>6
  <2>2. Start.b = <<>> /\ Start.binds = <<>> /\ Blank.sql = <<>> /\ Blank.params = <<>>
    BY DEF Start, Blank
  <2>3. <<>> \in Seq(BindPlan) /\ <<>> \in Seq(Identifier) /\ Len(<<>>) = 0 /\ 1..0 = {}
    OBVIOUS
  <2>4. Paired(s, names, args, <<>>, <<>>)
    BY <2>3, Zenon DEF Paired
  <2>5. Alike(s, names, args, Start, Blank)
    BY <2>2, <2>4, Zenon DEF Alike
  <2> QED
    BY <2>1, <2>5
<1>8. ASSUME NEW n \in 1..N, n - 1 \in D PROVE n \in D
  <2>1. n \in 0..N /\ n # 0
    OBVIOUS
  <2>2. Alike(s, names, args, f[n - 1], g[n - 1])
    BY <1>8
  <2>3. Alike(s, names, args, Write(s, f[n - 1], w[n]), EmitPiece(s, g[n - 1], P[n]))
    BY <1>2, <2>2, AlikeStep
  <2>4. f[n] = Write(s, f[n - 1], w[n]) /\ g[n] = EmitPiece(s, g[n - 1], P[n])
    BY <1>5, <1>6, <2>1
  <2> QED
    BY <2>1, <2>3, <2>4
<1> HIDE DEF D
<1>9. N \in D
  <2>1. \A n \in 0..N : n \in D
    BY <1>7, <1>8, LoopInduction
  <2> QED
    BY <2>1
<1> QED
  BY <1>1, <1>3, <1>4, <1>9 DEF D

LEMMA WritesAgree ==
  ASSUME NEW s, NEW t, NEW c, IsComposed(s, t, c), OneTree(t), c.tree \in {NoTree, Unscoped},
         NEW k, k = ShapeKey(s, t, c), \A j \in DOMAIN k.arities : k.arities[j] <= 1,
         NEW P, P = Pieces(s, t, k.guards, k.choices, k.orders, k.arities, << 0 >>)
  PROVE  AgreeAll(s, ParamOrder(t), TreeArgs(c.tree), Writes(BuildFrags(s, t), k, c.tree), P)
<1>0. InCall(s, t, c) /\ Composable(BuildFrags(s, t), k, c.tree) /\ t \in Templates /\ s \in Styles
  BY DEF IsComposed, InCall
<1>1. PICK names : names = ParamOrder(t)
  OBVIOUS
<1>2. PICK args : args = TreeArgs(c.tree)
  OBVIOUS
<1>3. PICK w : w = Writes(BuildFrags(s, t), k, c.tree)
  OBVIOUS
<1>4. PICK I : I = Intended(s, t, c)
  OBVIOUS
<1>5. names \in Seq(STRING) /\ Len(names) <= MaxIndex + 1
  BY <1>0, <1>1, TemplateFacts
<1>6. Image(Value(names, args), Cell, w, I)
  BY <1>0, <1>1, <1>2, <1>3, <1>4, WritesMean
<1>7. P \in Seq(Named(names)) /\ Image(Bare, Sourced(STRING), I, Whole(P))
  BY <1>0, <1>1, <1>4, ShapeRendered
<1>8. P \in Seq(Piece) /\ Whole(P) = Mapped(Own, P)
  BY <1>7, NamedPieces, WholeIsOwn
<1>9. s = "dollar" => w \in Seq(PlacedCells(names))
  BY <1>0, <1>1, <1>3, WritesPlaced
<1>10. w \in Seq(Cell) /\ I = Mapped(Value(names, args), w) /\ I \in Seq(Sourced(STRING))
       /\ Mapped(Own, P) = Mapped(Bare, I)
  BY <1>6, <1>7, <1>8 DEF Image
<1>11. PICK N \in Nat : N = Len(w)
  BY <1>10, LenNat
<1>12. Len(I) = N
  BY <1>10, <1>11 DEF Mapped
<1>13. Len(P) = N
  <2>1. Len(P) \in Nat
    BY <1>8, LenNat
  <2>2. DOMAIN Mapped(Own, P) = 1..Len(P) /\ DOMAIN Mapped(Bare, I) = 1..N
    BY <1>12 DEF Mapped
  <2>3. 1..Len(P) = 1..N
    BY <1>10, <2>2
  <2> QED
    BY <2>1, <2>3
<1>14. ASSUME NEW j \in 1..N PROVE Agrees(s, names, args, w[j], P[j])
  <2>1. w[j] \in Cell /\ P[j] \in Named(names) /\ I[j] \in Sourced(STRING)
    BY <1>7, <1>10, <1>11, <1>12, <1>13, ElementIn
  <2>2. I[j] = Value(names, args)[w[j]]
    BY <1>10, <1>11, MappedAt
  <2>3. Mapped(Own, P)[j] = Own[P[j]] /\ Mapped(Bare, I)[j] = Bare[I[j]]
    BY <1>12, <1>13 DEF Mapped
  <2>4. Bare[Value(names, args)[w[j]]] = Own[P[j]] /\ Value(names, args)[w[j]] \in Sourced(STRING)
    BY <1>10, <2>1, <2>2, <2>3, Zenon
  <2>5. s = "dollar" => w[j] \in PlacedCells(names)
    BY <1>9, <1>11, ElementIn
  <2> QED
    BY <1>5, <2>1, <2>4, <2>5, CellAgrees
<1>15. AgreeAll(s, names, args, w, P)
  BY <1>11, <1>13, <1>14 DEF AgreeAll
<1> QED
  BY <1>1, <1>2, <1>3, <1>15

\* A shape the renderer can produce is sent as it was rendered.
LEMMA SentAsRendered ==
  ASSUME NEW s, NEW t, NEW c, IsComposed(s, t, c), OneTree(t), c.tree \in {NoTree, Unscoped},
         NEW k, k = ShapeKey(s, t, c), \A j \in DOMAIN k.arities : k.arities[j] <= 1,
         NEW P, P = Pieces(s, t, k.guards, k.choices, k.orders, k.arities, << 0 >>),
         NEW stmt, stmt = Statement(s, t, k, c), NEW r, r = Render(s, P)
  PROVE  stmt.sql = r.sql /\ [i \in DOMAIN stmt.args |-> stmt.args[i][1]] = r.params
<1>1. PICK names : names = ParamOrder(t)
  OBVIOUS
<1>2. PICK args : args = TreeArgs(c.tree)
  OBVIOUS
<1>3. PICK co : co = ComposeTreeStyle(s, BuildFrags(s, t), k, c.tree)
  OBVIOUS
<1>4. s \in Styles
  BY DEF IsComposed, InCall
<1>5. AgreeAll(s, names, args, Writes(BuildFrags(s, t), k, c.tree), P)
  BY <1>1, <1>2, WritesAgree
<1>6. Alike(s, names, args, co, r)
  BY <1>3, <1>4, <1>5, RendersAlike
<1>7. stmt.sql = co.b /\ stmt.args = ResolveArgs(co.binds, t, c.tree)
  BY <1>3 DEF Statement
<1>8. co.b = r.sql /\ Paired(s, names, args, co.binds, r.params)
  BY <1>6 DEF Alike
<1>9. PICK binds : binds = co.binds
  OBVIOUS
<1>10. PICK params : params = r.params
  OBVIOUS
<1>11. /\ binds \in Seq(BindPlan) /\ params \in Seq(Identifier) /\ Len(binds) = Len(params)
       /\ \A i \in 1..Len(params) : Names(s, names, args, binds[i], params[i])
  BY <1>8, <1>9, <1>10 DEF Paired
<1>12. PICK N \in Nat : N = Len(params) /\ N = Len(binds)
  BY <1>11, LenNat
<1>13. DOMAIN binds = 1..N /\ params = [i \in 1..N |-> params[i]]
  BY <1>11, <1>12
<1>14. PICK A : A = stmt.args
  OBVIOUS
<1>15. A = [i \in 1..N |-> Resolve(binds[i], names, args)]
  BY <1>1, <1>2, <1>7, <1>9, <1>13, <1>14 DEF ResolveArgs
<1>16. DOMAIN A = 1..N /\ \A i \in 1..N : A[i] = Resolve(binds[i], names, args)
  BY <1>15
<1>17. \A i \in 1..N : A[i][1] = params[i]
  BY <1>11, <1>12, <1>16 DEF Names
<1>18. [i \in DOMAIN A |-> A[i][1]] = params
  BY <1>13, <1>16, <1>17
<1> QED
  BY <1>7, <1>8, <1>10, <1>14, <1>18

-----------------------------------------------------------------------------
(* The verified texts.                                                     *)

List(u) == Len(u) \in Nat /\ u = [j \in 1..Len(u) |-> u[j]]

LEMMA ListTyped ==
  ASSUME NEW u, List(u), NEW X, ToSet(u) \subseteq X
  PROVE  u \in Seq(X)
<1>1. PICK n \in Nat : n = Len(u) /\ u = [j \in 1..n |-> u[j]]
  BY DEF List
<1>2. DOMAIN u = 1..n
  BY <1>1
<1>3. ASSUME NEW j \in 1..n PROVE u[j] \in X
  <2>1. u[j] \in ToSet(u)
    BY <1>2, Zenon DEF ToSet
  <2> QED
    BY <2>1
<1> QED
  BY <1>1, <1>3

LEMMA TypedList ==
  ASSUME NEW X, NEW u \in Seq(X)
  PROVE  List(u)
BY DEF List

LEMMA LenUpTo ==
  ASSUME NEW n \in Nat, NEW u, u = [i \in 1..n |-> u[i]]
  PROVE  Len(u) = n
OBVIOUS

LEMMA ListUpTo ==
  ASSUME NEW n \in Nat, NEW u, u = [i \in 1..n |-> u[i]]
  PROVE  List(u)
<1>1. Len(u) = n
  OBVIOUS
<1> QED
  BY <1>1 DEF List

LEMMA ListOf ==
  ASSUME NEW n \in Int, NEW u, u = [i \in 1..n |-> u[i]]
  PROVE  List(u) /\ \A i \in 1..n : u[i] \in ToSet(u)
<1>1. PICK m \in Nat : 1..n = 1..m
  <2>1. CASE n >= 0
    BY <2>1
  <2>2. CASE n < 0
    <3>1. 1..n = 1..0
      BY <2>2
    <3> QED
      BY <3>1
  <2> QED
    BY <2>1, <2>2
<1>2. DOMAIN u = 1..n
  BY Zenon
<1>3. u = [i \in 1..m |-> u[i]]
  BY <1>1, Zenon
<1>5. List(u)
  BY <1>3, ListUpTo
<1>6. \A i \in 1..n : u[i] \in ToSet(u)
  BY <1>2, Zenon DEF ToSet
<1> QED
  BY <1>5, <1>6

LEMMA ListConcat ==
  ASSUME NEW u, List(u), NEW v, List(v)
  PROVE  List(u \o v) /\ \A x : x \in ToSet(u) \/ x \in ToSet(v) => x \in ToSet(u \o v)
<1>1. PICK X : X = ToSet(u) \cup ToSet(v)
  OBVIOUS
<1>2. u \in Seq(X) /\ v \in Seq(X)
  BY <1>1, ListTyped
<1>3. u \o v \in Seq(X) /\ ToSet(u \o v) = ToSet(u) \cup ToSet(v)
  BY <1>2, ConcatSeq, ConcatMembers
<1> QED
  BY <1>3, TypedList

LEMMA ListFlatten ==
  ASSUME NEW n \in Nat, NEW s, s = [i \in 1..n |-> s[i]], \A i \in 1..n : List(s[i])
  PROVE  /\ List(FlattenSeq(s))
         /\ \A i \in 1..n : \A x \in ToSet(s[i]) : x \in ToSet(FlattenSeq(s))
<1>1. PICK X : X = UNION {ToSet(s[i]) : i \in 1..n}
  OBVIOUS
<1>2. ASSUME NEW i \in 1..n PROVE s[i] \in Seq(X)
  <2>1. ToSet(s[i]) \subseteq X
    BY <1>1
  <2> QED
    BY <2>1, ListTyped
<1>3. s \in Seq(Seq(X)) /\ Len(s) = n
  BY <1>2
<1>4. /\ FlattenSeq(s) \in Seq(X)
      /\ \A x : x \in ToSet(FlattenSeq(s)) <=> \E i \in 1..Len(s) : x \in ToSet(s[i])
  BY <1>3, FlattenMembers
<1>5. List(FlattenSeq(s))
  BY <1>4, TypedList
<1> QED
  BY <1>3, <1>4, <1>5, Zenon

Shape(s, t, choices, orders, ins, trees) == Pieces(s, t, AllGuards(t), choices, orders, ins, trees)
MaximalPart(s, t) == <<Variant("maximal", 0, 0, Shape(s, t, <<>>, <<>>, <<>>, <<>>))>>
\* The choices that take block c to its ordinal o.
ChoiceOf(c, o) == [j \in 1..c |-> IF j = c THEN o ELSE 0]
CasePart(s, t, c) ==
    [o \in 1..(MaxOrdinal(OfKind(t, "choose")[c]) - 1) |->
        Variant("case", c, o, Shape(s, t, ChoiceOf(c, o), <<>>, <<>>, <<>>))]
\* Every @order-by maximal, but block b with its default.
DefaultOf(t, b) == [j \in DOMAIN OfKind(t, "orderby") |-> IF j = b THEN <<>> ELSE Maximal]
OrderPart(s, t, b) ==
    IF OfKind(t, "orderby")[b].default = <<>> THEN <<>>
    ELSE <<Variant("order-default", b, 0, Shape(s, t, <<>>, DefaultOf(t, b), <<>>, <<>>))>>
InPart(s, t) ==
    IF s = "dollar" THEN <<>>
    ELSE [i \in 1..Blocks(t, "in") |->
             Variant("in-empty", i, 0, Shape(s, t, <<>>, <<>>, AllBut(Blocks(t, "in"), i), <<>>))]
TreePart(s, t) ==
    [i \in 1..Blocks(t, "tree") |->
        Variant("tree-empty", i, 0, Shape(s, t, <<>>, <<>>, <<>>, AllBut(Blocks(t, "tree"), i)))]
CaseParts(s, t) == [c \in DOMAIN OfKind(t, "choose") |-> CasePart(s, t, c)]
OrderParts(s, t) == [b \in DOMAIN OfKind(t, "orderby") |-> OrderPart(s, t, b)]

LEMMA RenderingsParts ==
  ASSUME NEW s, NEW t
  PROVE  Renderings(s, t) = MaximalPart(s, t) \o FlattenSeq(CaseParts(s, t))
                            \o FlattenSeq(OrderParts(s, t)) \o InPart(s, t) \o TreePart(s, t)
BY DEF Renderings, MaximalPart, CaseParts, CasePart, OrderParts, OrderPart, InPart, TreePart,
       Shape, ChoiceOf, DefaultOf

LEMMA KindsListed ==
  ASSUME NEW t \in Templates, NEW kind
  PROVE  /\ OfKind(t, kind) \in Seq(Item) /\ Blocks(t, kind) \in Nat
         /\ DOMAIN OfKind(t, kind) = 1..Blocks(t, kind)
<1>1. t \in Seq(Item)
  BY TemplateFacts
<1>2. Picked(t, kind) \in Seq(Seq(Item)) /\ OfKind(t, kind) = FlattenSeq(Picked(t, kind))
  BY <1>1, PickedSeq
<1>3. OfKind(t, kind) \in Seq(Item)
  BY <1>2, FlattenMembers
<1>4. Len(OfKind(t, kind)) \in Nat /\ DOMAIN OfKind(t, kind) = 1..Len(OfKind(t, kind))
  BY <1>3
<1> QED
  BY <1>3, <1>4 DEF Blocks

LEMMA BlockKind ==
  ASSUME NEW t \in Templates, NEW kind, NEW n \in 1..Blocks(t, kind)
  PROVE  OfKind(t, kind)[n] \in Item /\ OfKind(t, kind)[n].kind = kind
<1>1. t \in Seq(Item) /\ Len(t) \in Nat
  BY TemplateFacts
<1>2. PICK p : p = Picked(t, kind)
  OBVIOUS
<1>3. p \in Seq(Seq(Item)) /\ Len(p) = Len(t) /\ OfKind(t, kind) = FlattenSeq(p)
  BY <1>1, <1>2, PickedSeq
<1>4. PICK o \in Seq(Item) : o = OfKind(t, kind) /\ Blocks(t, kind) = Len(o)
  BY KindsListed DEF Blocks
<1>5. o[n] \in Item /\ o[n] \in ToSet(o)
  BY <1>4, ElementIn, SeqMembers, Zenon
<1>6. PICK i \in 1..Len(p) : o[n] \in ToSet(p[i])
  BY <1>3, <1>4, <1>5, FlattenMembers
<1>7. p[i] = IF t[i].kind = kind THEN <<t[i]>> ELSE <<>>
  BY <1>1, <1>2, <1>3 DEF Picked
<1>8. ToSet(<<>>) = {} /\ ToSet(<<t[i]>>) = {t[i]}
  BY DEF ToSet
<1>9. t[i].kind = kind /\ o[n] = t[i]
  BY <1>6, <1>7, <1>8
<1> QED
  BY <1>4, <1>5, <1>9

LEMMA PartsRendered ==
  ASSUME NEW s, NEW t \in Templates
  PROVE  LET R == ToSet(Renderings(s, t))
         IN  /\ \A x \in ToSet(MaximalPart(s, t)) : x \in R
             /\ \A c \in 1..Blocks(t, "choose") : \A x \in ToSet(CasePart(s, t, c)) : x \in R
             /\ \A b \in 1..Blocks(t, "orderby") : \A x \in ToSet(OrderPart(s, t, b)) : x \in R
             /\ \A x \in ToSet(InPart(s, t)) : x \in R
             /\ \A x \in ToSet(TreePart(s, t)) : x \in R
<1>1. List(MaximalPart(s, t))
  <2>1. PICK v : MaximalPart(s, t) = <<v>>
    BY DEF MaximalPart
  <2>2. <<v>> \in Seq({v})
    BY OneSeq
  <2> QED
    BY <2>1, <2>2, TypedList
<1>2. PICK C : C = CaseParts(s, t)
  OBVIOUS
<1>3. PICK O : O = OrderParts(s, t)
  OBVIOUS
<1>4. PICK m \in Nat : m = Blocks(t, "choose") /\ C = [c \in 1..m |-> C[c]]
                       /\ \A c \in 1..m : C[c] = CasePart(s, t, c)
  BY <1>2, KindsListed DEF CaseParts
<1>5. PICK n \in Nat : n = Blocks(t, "orderby") /\ O = [b \in 1..n |-> O[b]]
                       /\ \A b \in 1..n : O[b] = OrderPart(s, t, b)
  BY <1>3, KindsListed DEF OrderParts
<1>6. ASSUME NEW c \in 1..m PROVE List(C[c])
  <2>1. PICK it : it = OfKind(t, "choose")[c]
    OBVIOUS
  <2>2. it \in Item /\ it.kind = "choose"
    BY <1>4, <2>1, BlockKind
  <2>3. it \in ChooseItem
    BY <2>2, ItemKinds
  <2>4. it.cases \in Seq([name : STRING, body : Body]) /\ it.default \in Seq(Body)
    BY <2>3 DEF ChooseItem
  <2>5. Len(it.cases) \in Nat /\ Len(it.default) \in Nat
    BY <2>4, LenNat
  <2>a. PICK a \in Nat : a = Len(it.cases)
    BY <2>5, Zenon
  <2>b. PICK b \in Nat : b = Len(it.default)
    BY <2>5, Zenon
  <2>6. PICK k \in Int : k = MaxOrdinal(it) - 1
    <3>1. MaxOrdinal(it) = a + b
      BY <2>a, <2>b, Zenon DEF MaxOrdinal
    <3> QED
      BY <3>1
  <2>7. CasePart(s, t, c) = [o \in 1..k |-> CasePart(s, t, c)[o]]
    BY <2>1, <2>6 DEF CasePart
  <2>8. List(CasePart(s, t, c))
    BY <2>7, ListOf
  <2> QED
    BY <1>4, <2>8
<1>7. ASSUME NEW b \in 1..n PROVE List(O[b])
  <2>1. PICK v : OrderPart(s, t, b) = <<>> \/ OrderPart(s, t, b) = <<v>>
    BY DEF OrderPart
  <2>2. <<v>> \in Seq({v}) /\ <<>> \in Seq({v})
    BY OneSeq
  <2> QED
    BY <1>5, <2>1, <2>2, TypedList
<1>8. /\ List(FlattenSeq(C))
      /\ \A c \in 1..m : \A x \in ToSet(C[c]) : x \in ToSet(FlattenSeq(C))
  BY <1>4, <1>6, ListFlatten
<1>9. /\ List(FlattenSeq(O))
      /\ \A b \in 1..n : \A x \in ToSet(O[b]) : x \in ToSet(FlattenSeq(O))
  BY <1>5, <1>7, ListFlatten
<1>10. List(InPart(s, t))
  <2>1. PICK k \in Nat : k = Blocks(t, "in")
    BY KindsListed
  <2>2. CASE s = "dollar"
    <3>1. InPart(s, t) = <<>> /\ <<>> \in Seq({})
      BY <2>2 DEF InPart
    <3> QED
      BY <3>1, TypedList
  <2>3. CASE s # "dollar"
    <3>1. InPart(s, t) = [i \in 1..k |-> InPart(s, t)[i]]
      BY <2>1, <2>3 DEF InPart
    <3> QED
      BY <3>1, ListUpTo
  <2> QED
    BY <2>2, <2>3
<1>11. List(TreePart(s, t))
  <2>1. PICK k \in Nat : k = Blocks(t, "tree")
    BY KindsListed
  <2>2. TreePart(s, t) = [i \in 1..k |-> TreePart(s, t)[i]]
    BY <2>1 DEF TreePart
  <2> QED
    BY <2>2, ListUpTo
<1>12. PICK A : A = MaximalPart(s, t) \o FlattenSeq(C)
  OBVIOUS
<1>13. PICK B : B = A \o FlattenSeq(O)
  OBVIOUS
<1>14. PICK D : D = B \o InPart(s, t)
  OBVIOUS
<1>15. Renderings(s, t) = D \o TreePart(s, t)
  BY <1>2, <1>3, <1>12, <1>13, <1>14, RenderingsParts
<1>16. /\ List(A) /\ \A x \in ToSet(MaximalPart(s, t)) : x \in ToSet(A)
       /\ \A x \in ToSet(FlattenSeq(C)) : x \in ToSet(A)
  BY <1>1, <1>8, <1>12, ListConcat
<1>17. /\ List(B) /\ \A x \in ToSet(A) : x \in ToSet(B)
       /\ \A x \in ToSet(FlattenSeq(O)) : x \in ToSet(B)
  BY <1>9, <1>13, <1>16, ListConcat
<1>18. /\ List(D) /\ \A x \in ToSet(B) : x \in ToSet(D)
       /\ \A x \in ToSet(InPart(s, t)) : x \in ToSet(D)
  BY <1>10, <1>14, <1>17, ListConcat
<1>19. /\ \A x \in ToSet(D) : x \in ToSet(Renderings(s, t))
       /\ \A x \in ToSet(TreePart(s, t)) : x \in ToSet(Renderings(s, t))
  BY <1>11, <1>15, <1>18, ListConcat
<1>20. /\ \A c \in 1..m : \A x \in ToSet(CasePart(s, t, c)) : x \in ToSet(FlattenSeq(C))
       /\ \A b \in 1..n : \A x \in ToSet(OrderPart(s, t, b)) : x \in ToSet(FlattenSeq(O))
  BY <1>4, <1>5, <1>8, <1>9
<1> QED
  BY <1>4, <1>5, <1>16, <1>17, <1>18, <1>19, <1>20, Zenon

LEMMA JoinedHolds ==
  ASSUME NEW n \in Nat, NEW s, s = [i \in 1..n |-> s[i]], \A i \in 1..n : List(s[i]), NEW sep
  PROVE  /\ List(Joined(s, sep))
         /\ \A i \in 1..n : \A x \in ToSet(s[i]) : x \in ToSet(Joined(s, sep))
<1>1. PICK g : g = [i \in 1..n |-> IF i = 1 THEN s[i] ELSE <<Text(sep)>> \o s[i]]
  OBVIOUS
<1>2. Joined(s, sep) = FlattenSeq(g)
  <2>1. DOMAIN s = 1..n
    BY Zenon
  <2> QED
    BY <1>1, <2>1 DEF Joined
<1>3. ASSUME NEW i \in 1..n PROVE List(g[i]) /\ \A x \in ToSet(s[i]) : x \in ToSet(g[i])
  <2>1. List(<<Text(sep)>>)
    BY OneSeq, TypedList
  <2>2. List(<<Text(sep)>> \o s[i]) /\ \A x \in ToSet(s[i]) : x \in ToSet(<<Text(sep)>> \o s[i])
    BY <2>1, ListConcat
  <2>3. g[i] = IF i = 1 THEN s[i] ELSE <<Text(sep)>> \o s[i]
    BY <1>1
  <2> QED
    BY <2>2, <2>3
<1>4. g = [i \in 1..n |-> g[i]]
  BY <1>1
<1>5. /\ List(FlattenSeq(g))
      /\ \A i \in 1..n : \A x \in ToSet(g[i]) : x \in ToSet(FlattenSeq(g))
  BY <1>3, <1>4, ListFlatten
<1> QED
  BY <1>2, <1>3, <1>5

\* A sequence of sequences over X.
Parts(u, X) == u \in Seq(Seq(X))

LEMMA PartsAt ==
  ASSUME NEW X, NEW u, Parts(u, X)
  PROVE  \E n \in Nat : /\ n = Len(u) /\ DOMAIN u = 1..n /\ u = [i \in 1..n |-> u[i]]
                        /\ \A i \in 1..n : u[i] \in Seq(X)
BY DEF Parts

LEMMA PartsOf ==
  ASSUME NEW X, NEW n \in Nat, NEW u, u = [i \in 1..n |-> u[i]], \A i \in 1..n : u[i] \in Seq(X)
  PROVE  Parts(u, X)
BY DEF Parts

LEMMA PartsJoined ==
  ASSUME NEW X, NEW u, Parts(u, X), NEW sep, Text(sep) \in X
  PROVE  /\ Joined(u, sep) \in Seq(X) /\ FlattenSeq(u) \in Seq(X)
         /\ \A i \in 1..Len(u) : \A x \in ToSet(u[i]) : x \in ToSet(Joined(u, sep))
<1>1. PICK n \in Nat : /\ n = Len(u) /\ u = [i \in 1..n |-> u[i]]
                       /\ \A i \in 1..n : u[i] \in Seq(X)
  BY PartsAt
<1>2. Joined(u, sep) \in Seq(X)
  BY <1>1, JoinedTyped
<1>3. FlattenSeq(u) \in Seq(X)
  BY FlattenMembers DEF Parts
<1>4. \A i \in 1..n : List(u[i])
  BY <1>1, TypedList
<1>5. \A i \in 1..n : \A x \in ToSet(u[i]) : x \in ToSet(Joined(u, sep))
  BY <1>1, <1>4, JoinedHolds
<1> QED
  BY <1>1, <1>2, <1>3, <1>5, Zenon

LEMMA WordSet ==
  ASSUME NEW w
  PROVE  ToSet(<<w>>) = {w}
BY DEF ToSet

Desc == Text(" DESC")
\* An element of a list of sort keys.
SortKey(keys, e) == keys[(e \div 2) + 1] \o (IF e % 2 = 1 THEN <<Desc>> ELSE <<>>)

LEMMA OrderCases ==
  ASSUME NEW it, NEW seq
  PROVE  OrderPieces(it, seq) =
           <<Text("\n")>> \o (IF seq = Maximal THEN <<Text("ORDER BY ")>> \o Joined(it.keys, ", ")
                              ELSE IF seq = <<>> THEN FlattenSeq(it.default)
                              ELSE <<Text("ORDER BY ")>>
                                   \o Joined([i \in DOMAIN seq |-> SortKey(it.keys, seq[i])], ", "))
<1>1. Maximal # <<>>
  BY DEF Maximal
<1>2. CASE seq = Maximal
  BY <1>1, <1>2 DEF OrderPieces
<1>3. CASE seq = <<>>
  BY <1>1, <1>3 DEF OrderPieces
<1>4. CASE seq # Maximal /\ seq # <<>>
  BY <1>4 DEF OrderPieces, SortKey, Desc
<1> QED
  BY <1>2, <1>3, <1>4

LEMMA SortElement ==
  ASSUME NEW X, NEW u, Parts(u, X), Desc \in X,
         NEW n \in Nat, n = Len(u), NEW e \in Nat, e \div 2 < n
  PROVE  SortKey(u, e) \in Seq(X)
<1>1. \A i \in 1..n : u[i] \in Seq(X)
  BY PartsAt
<1>2. PICK k \in 1..n : k = (e \div 2) + 1
  OBVIOUS
<1>3. u[k] \in Seq(X)
  BY <1>1
<1>4. PICK d : d = IF e % 2 = 1 THEN <<Desc>> ELSE <<>>
  OBVIOUS
<1>5. <<Desc>> \in Seq(X) /\ <<>> \in Seq(X)
  BY OneSeq
<1>6. d \in Seq(X)
  BY <1>4, <1>5
<1>7. u[k] \o d \in Seq(X)
  BY <1>3, <1>6, ConcatSeq
<1> QED
  BY <1>2, <1>4, <1>7 DEF SortKey

LEMMA SeqDomain ==
  ASSUME NEW X, NEW u \in Seq(X)
  PROVE  Len(u) \in Nat /\ DOMAIN u = 1..Len(u)
OBVIOUS

LEMMA OrderPiecesIn ==
  ASSUME NEW X, Text("\n") \in X, Text("ORDER BY ") \in X, Text(", ") \in X, Desc \in X,
         NEW it, Parts(it.keys, X), Parts(it.default, X),
         NEW seq, seq = Maximal \/ (seq \in Seq(Nat) /\ \A j \in 1..Len(seq) : seq[j] \div 2 < Len(it.keys))
  PROVE  OrderPieces(it, seq) \in Seq(X)
<1> DEFINE sorted == [i \in DOMAIN seq |-> SortKey(it.keys, seq[i])]
           tail == IF seq = Maximal THEN <<Text("ORDER BY ")>> \o Joined(it.keys, ", ")
                   ELSE IF seq = <<>> THEN FlattenSeq(it.default)
                   ELSE <<Text("ORDER BY ")>> \o Joined(sorted, ", ")
<1>1. <<Text("\n")>> \in Seq(X) /\ <<Text("ORDER BY ")>> \in Seq(X)
  BY OneSeq
<1>2. OrderPieces(it, seq) = <<Text("\n")>> \o tail
  BY OrderCases
<1>3. Joined(it.keys, ", ") \in Seq(X) /\ FlattenSeq(it.default) \in Seq(X)
  BY PartsJoined
<1>4. <<Text("ORDER BY ")>> \o Joined(it.keys, ", ") \in Seq(X)
  BY <1>1, <1>3, ConcatSeq
<1>5. ASSUME seq # Maximal PROVE <<Text("ORDER BY ")>> \o Joined(sorted, ", ") \in Seq(X)
  <2>1. seq \in Seq(Nat) /\ \A j \in 1..Len(seq) : seq[j] \div 2 < Len(it.keys)
    BY <1>5
  <2>2. PICK n \in Nat : n = Len(seq) /\ DOMAIN seq = 1..n
    BY <2>1, SeqDomain
  <2>3. ASSUME NEW i \in 1..n PROVE SortKey(it.keys, seq[i]) \in Seq(X)
    <3>1. seq[i] \in Nat
      BY <2>1, <2>2, ElementIn
    <3>2. PICK u : u = it.keys
      OBVIOUS
    <3>3. PICK m \in Nat : m = Len(u)
      BY <3>2, PartsAt, Zenon
    <3>4. seq[i] \div 2 < m
      BY <2>1, <2>2, <3>2, <3>3, Zenon
    <3>5. Parts(u, X)
      BY <3>2
    <3>6. SortKey(u, seq[i]) \in Seq(X)
      BY <3>1, <3>3, <3>4, <3>5, SortElement, Zenon
    <3> QED
      BY <3>2, <3>6, Zenon
  <2>4. sorted = [i \in 1..n |-> sorted[i]] /\ \A i \in 1..n : sorted[i] \in Seq(X)
    BY <2>2, <2>3
  <2> HIDE DEF sorted
  <2>5. Parts(sorted, X)
    BY <2>4, PartsOf
  <2>6. Joined(sorted, ", ") \in Seq(X)
    BY <2>5, PartsJoined
  <2> QED
    BY <1>1, <2>6, ConcatSeq
<1>6. tail \in Seq(X)
  BY <1>3, <1>4, <1>5
<1> HIDE DEF tail
<1> QED
  BY <1>1, <1>2, <1>6, ConcatSeq

LEMMA Parenthesised ==
  ASSUME NEW X, Text("(") \in X, Text(")") \in X, NEW u \in Seq(X)
  PROVE  LET v == <<Text("(")>> \o u \o <<Text(")")>>
         IN  /\ v \in Seq(X) /\ Text("(") \in ToSet(v) /\ Text(")") \in ToSet(v)
             /\ \A x \in ToSet(u) : x \in ToSet(v)
<1>1. PICK lp : lp = <<Text("(")>>
  OBVIOUS
<1>2. PICK rp : rp = <<Text(")")>>
  OBVIOUS
<1>3. lp \in Seq(X) /\ rp \in Seq(X) /\ Text("(") \in ToSet(lp) /\ Text(")") \in ToSet(rp)
  BY <1>1, <1>2, OneSeq, WordSet
<1>4. lp \o u \in Seq(X) /\ lp \o u \o rp \in Seq(X)
  BY <1>3, ConcatSeq
<1>5. ToSet(lp \o u) = ToSet(lp) \cup ToSet(u)
  BY <1>3, ConcatMembers
<1>6. ToSet(lp \o u \o rp) = ToSet(lp \o u) \cup ToSet(rp)
  BY <1>3, <1>4, ConcatMembers
<1> QED
  BY <1>1, <1>2, <1>3, <1>4, <1>5, <1>6

LEMMA TreePiecesIn ==
  ASSUME NEW X, Text("(") \in X, Text(")") \in X, Text(" AND ") \in X, Text("TRUE") \in X,
         NEW it, Parts(it.preds, X), NEW tree
  PROVE  LET v == TreePieces(it, tree)
         IN  /\ v \in Seq(X)
             /\ tree # 0 => /\ Text("(") \in ToSet(v) /\ Text(")") \in ToSet(v)
                            /\ \A i \in 1..Len(it.preds) : \A x \in ToSet(it.preds[i]) : x \in ToSet(v)
<1> DEFINE g == [i \in DOMAIN it.preds |-> <<Text("(")>> \o it.preds[i] \o <<Text(")")>>]
<1>1. TreePieces(it, tree) = IF tree = 0 THEN <<Text("TRUE")>>
                             ELSE <<Text("(")>> \o Joined(g, " AND ") \o <<Text(")")>>
  BY DEF TreePieces
<1>2. PICK u : u = it.preds
  OBVIOUS
<1>3. PICK n \in Nat : n = Len(u) /\ DOMAIN u = 1..n /\ \A i \in 1..n : u[i] \in Seq(X)
  BY <1>2, PartsAt, Zenon
<1>4. \A i \in 1..n : g[i] = <<Text("(")>> \o u[i] \o <<Text(")")>>
  BY <1>2, <1>3, Zenon
<1>5. g = [i \in 1..n |-> g[i]]
  BY <1>2, <1>3
<1> HIDE DEF g
<1>6. \A i \in 1..n : g[i] \in Seq(X) /\ \A x \in ToSet(u[i]) : x \in ToSet(g[i])
  BY <1>3, <1>4, Parenthesised
<1>a. \A i \in 1..n : g[i] \in Seq(X)
  BY <1>6
<1>b. Len(g) = n
  BY <1>5, LenUpTo
<1>7. Parts(g, X) /\ Len(g) = n
  BY <1>5, <1>a, <1>b, PartsOf
<1>8. PICK j \in Seq(X) : /\ j = Joined(g, " AND ")
                          /\ \A i \in 1..n : \A x \in ToSet(g[i]) : x \in ToSet(j)
  BY <1>7, PartsJoined
<1>9. PICK v : v = <<Text("(")>> \o j \o <<Text(")")>>
  OBVIOUS
<1>10. /\ v \in Seq(X) /\ Text("(") \in ToSet(v) /\ Text(")") \in ToSet(v)
       /\ \A x \in ToSet(j) : x \in ToSet(v)
  BY <1>9, Parenthesised
<1>11. \A i \in 1..n : \A x \in ToSet(u[i]) : x \in ToSet(v)
  BY <1>6, <1>8, <1>10, Zenon
<1>12. <<Text("TRUE")>> \in Seq(X)
  BY OneSeq
<1>13. CASE tree = 0
  BY <1>1, <1>12, <1>13
<1>14. CASE tree # 0
  <2>1. TreePieces(it, tree) = v
    BY <1>1, <1>8, <1>9, <1>14
  <2> QED
    BY <1>2, <1>3, <1>10, <1>11, <2>1, Zenon
<1> QED
  BY <1>13, <1>14

\* The texts of the verified renderings.
Verified(s, t) ==
    {x \in UNION {ToSet(r.pieces) : r \in ToSet(Renderings(s, t))} : ~IsParam(x)}

\* One of the selections that are rendered and verified.
Tested(s, t, v) ==
    /\ v.guards = AllGuards(t)
    /\ \A n \in Nat : At(v.choices, n, 0) \in Nat /\ At(v.orders, n, Maximal) \in {<<>>, Maximal}
    /\ \E r \in ToSet(Renderings(s, t)) :
          r.pieces = Pieces(s, t, v.guards, v.choices, v.orders, v.ins, v.trees)

LEMMA BodyPieces ==
  ASSUME NEW u \in Body
  PROVE  u \in Seq(Piece)
BY TokenPieces DEF Body

LEMMA BodiesParts ==
  ASSUME NEW u, u \in Seq(Body)
  PROVE  Parts(u, Piece)
<1>1. PICK n \in Nat : n = Len(u)
  BY LenNat
<1>2. \A i \in 1..n : u[i] \in Body
  BY <1>1, ElementIn
<1>3. \A i \in 1..n : u[i] \in Seq(Piece)
  BY <1>2, BodyPieces
<1>4. u = [i \in 1..n |-> u[i]]
  BY <1>1
<1> QED
  BY <1>3, <1>4, PartsOf

LEMMA CaseTyped ==
  ASSUME NEW it \in ChooseItem, NEW ord \in Nat
  PROVE  CaseBody(it, ord) \in Seq(Piece)
<1>1. it.cases \in Seq([name : STRING, body : Body]) /\ it.default \in Seq(Body)
  BY DEF ChooseItem
<1>2. PICK cs : cs = it.cases
  OBVIOUS
<1>3. PICK df : df = it.default
  OBVIOUS
<1>4. cs \in Seq([name : STRING, body : Body]) /\ df \in Seq(Body)
  BY <1>1, <1>2, <1>3
<1>5. PICK n \in Nat : n = Len(cs)
  BY <1>4, LenNat
<1>6. CaseBody(it, ord) = IF ord < n THEN cs[ord + 1].body ELSE IF df # <<>> THEN df[1] ELSE <<>>
  BY <1>2, <1>3, <1>5, Zenon DEF CaseBody
<1>7. ASSUME ord < n PROVE cs[ord + 1].body \in Seq(Piece)
  <2>1. PICK k \in 1..n : k = ord + 1
    BY <1>7
  <2>2. cs[k] \in [name : STRING, body : Body]
    BY <1>4, <1>5, ElementIn
  <2>3. cs[k].body \in Body
    BY <2>2
  <2> QED
    BY <2>1, <2>3, BodyPieces
<1>8. ASSUME df # <<>> PROVE df[1] \in Seq(Piece)
  <2>1. 1 \in 1..Len(df)
    BY <1>4, <1>8
  <2>2. df[1] \in Body
    BY <1>4, <2>1, ElementIn
  <2> QED
    BY <2>2, BodyPieces
<1>9. <<>> \in Seq(Piece)
  OBVIOUS
<1> QED
  BY <1>6, <1>7, <1>8, <1>9

LEMMA WordPiece ==
  ASSUME NEW w \in Word
  PROVE  w \in Piece
BY DEF Piece

LEMMA PieceTyped ==
  ASSUME NEW s \in Styles, NEW t \in Templates, NEW v, Tested(s, t, v), NEW i \in 1..Len(t)
  PROVE  PieceItem(s, t, v, i) \in Seq(Piece)
<1> DEFINE it == t[i]
           n == Nth(t, i)
<1>1. it \in Item /\ it.kind \in Kinds
  BY TemplateFacts, ItemKinds
<1>2. n \in Nat
  BY NthItem, KindsListed
<1>3. CASE it.kind = "skeleton"
  <2>1. PieceItem(s, t, v, i) = it.body
    BY <1>3 DEF PieceItem
  <2>2. it.body \in Body
    BY <1>1, <1>3, ItemKinds DEF SkeletonItem
  <2> QED
    BY <2>1, <2>2, BodyPieces
<1>4. CASE it.kind = "guarded"
  <2>1. PieceItem(s, t, v, i) = IF Active(t, it, v.guards) THEN GuardedPieces(it) ELSE <<>>
    BY <1>4 DEF PieceItem
  <2>2. GuardedPieces(it) \in Seq(Piece)
    BY <1>4, GuardedNamed, NamedPieces
  <2>3. <<>> \in Seq(Piece)
    OBVIOUS
  <2> QED
    BY <2>1, <2>2, <2>3
<1>5. CASE it.kind = "choose"
  <2>1. PieceItem(s, t, v, i) = <<Text("\n")>> \o CaseBody(it, At(v.choices, n, 0))
    BY <1>5 DEF PieceItem
  <2>2. it \in ChooseItem
    BY <1>1, <1>5, ItemKinds
  <2>3. At(v.choices, n, 0) \in Nat
    BY <1>2 DEF Tested
  <2>4. CaseBody(it, At(v.choices, n, 0)) \in Seq(Piece)
    BY <2>2, <2>3, CaseTyped
  <2>5. <<Text("\n")>> \in Seq(Piece)
    BY LitWords, WordPiece, OneSeq
  <2> HIDE DEF n, it
  <2> QED
    BY <2>1, <2>4, <2>5, ConcatSeq
<1>6. CASE it.kind = "orderby"
  <2>1. PieceItem(s, t, v, i) = OrderPieces(it, At(v.orders, n, Maximal))
    BY <1>6 DEF PieceItem
  <2>2. it \in OrderItem
    BY <1>1, <1>6, ItemKinds
  <2>3. it.keys \in Seq(Body) /\ it.default \in Seq(Body)
    BY <2>2 DEF OrderItem
  <2>4. Parts(it.keys, Piece) /\ Parts(it.default, Piece)
    BY <2>3, BodiesParts
  <2>5. PICK seq : seq = At(v.orders, n, Maximal)
    OBVIOUS
  <2>6. seq \in {<<>>, Maximal}
    BY <1>2, <2>5 DEF Tested
  <2>7. seq = Maximal \/ (seq \in Seq(Nat) /\ \A j \in 1..Len(seq) : seq[j] \div 2 < Len(it.keys))
    <3>1. CASE seq = <<>>
      <4>1. seq \in Seq(Nat) /\ 1..Len(seq) = {}
        BY <3>1
      <4> QED
        BY <4>1, Zenon
    <3> QED
      BY <2>6, <3>1
  <2>8. Text("\n") \in Piece /\ Text("ORDER BY ") \in Piece /\ Text(", ") \in Piece /\ Desc \in Piece
    BY LitWords, WordPiece DEF Desc
  <2> HIDE DEF n, it
  <2>9. OrderPieces(it, seq) \in Seq(Piece)
    BY <2>4, <2>7, <2>8, OrderPiecesIn
  <2> QED
    BY <2>1, <2>5, <2>9
<1>7. CASE it.kind = "in"
  <2>1. PieceItem(s, t, v, i) = InPieces(it, s, At(v.ins, n, 1))
    BY <1>7 DEF PieceItem
  <2> QED
    BY <1>7, <2>1, InPiecesNamed, NamedPieces
<1>8. CASE it.kind = "tree"
  <2>1. PieceItem(s, t, v, i) = TreePieces(it, At(v.trees, n, 1))
    BY <1>8 DEF PieceItem
  <2>2. it \in TreeItem
    BY <1>1, <1>8, ItemKinds
  <2>3. it.preds \in Seq(Body)
    BY <2>2 DEF TreeItem
  <2>4. Parts(it.preds, Piece)
    BY <2>3, BodiesParts
  <2>5. Text("(") \in Piece /\ Text(")") \in Piece /\ Text(" AND ") \in Piece /\ Text("TRUE") \in Piece
    BY LitWords, WordPiece
  <2> HIDE DEF n, it
  <2> QED
    BY <2>1, <2>4, <2>5, TreePiecesIn
<1> QED
  BY <1>1, <1>3, <1>4, <1>5, <1>6, <1>7, <1>8 DEF Kinds

\* The pieces whose text is in V or is glue.
Visible(V) == {x \in Piece : ~IsParam(x) => x \in V \/ x.text \in Glue}

LEMMA PieceVerified ==
  ASSUME NEW s \in Styles, NEW t \in Templates, NEW v, Tested(s, t, v), NEW i \in 1..Len(t)
  PROVE  PieceItem(s, t, v, i) \in Seq(Visible(Verified(s, t)))
<1>1. PICK r \in ToSet(Renderings(s, t)) :
         r.pieces = Pieces(s, t, v.guards, v.choices, v.orders, v.ins, v.trees)
  BY DEF Tested
<1>2. PICK n \in Nat : n = Len(t) /\ DOMAIN t = 1..n
  BY TemplateFacts
<1>3. PICK U : U = [j \in DOMAIN t |-> PieceItem(s, t, v, j)]
  OBVIOUS
<1>4. U = [j \in 1..n |-> U[j]] /\ \A j \in 1..n : U[j] = PieceItem(s, t, v, j)
  BY <1>2, <1>3
<1>5. \A j \in 1..n : U[j] \in Seq(Piece)
  BY <1>2, <1>4, PieceTyped
<1>6. r.pieces = FlattenSeq(U)
  <2>1. PICK w : w = Selection(v.guards, v.choices, v.orders, v.ins, v.trees)
    OBVIOUS
  <2>2. /\ w.guards = v.guards /\ w.choices = v.choices /\ w.orders = v.orders
        /\ w.ins = v.ins /\ w.trees = v.trees
    BY <2>1 DEF Selection
  <2>3. \A j \in DOMAIN t : PieceItem(s, t, w, j) = PieceItem(s, t, v, j)
    BY <2>2 DEF PieceItem
  <2>4. r.pieces = FlattenSeq([j \in DOMAIN t |-> PieceItem(s, t, w, j)])
    BY <1>1, <2>1, PiecesFlatten
  <2>5. [j \in DOMAIN t |-> PieceItem(s, t, w, j)] = U
    BY <1>3, <2>3
  <2> QED
    BY <2>4, <2>5
<1>7. \A j \in 1..n : List(U[j])
  BY <1>5, TypedList
<1>8. \A j \in 1..n : \A x \in ToSet(U[j]) : x \in ToSet(r.pieces)
  BY <1>4, <1>6, <1>7, ListFlatten
<1>9. PICK u : u = U[i]
  OBVIOUS
<1>10. u \in Seq(Piece) /\ \A x \in ToSet(u) : x \in ToSet(r.pieces)
  BY <1>2, <1>5, <1>8, <1>9
<1>11. ToSet(u) \subseteq Visible(Verified(s, t))
  <2>1. SUFFICES ASSUME NEW x \in ToSet(u) PROVE x \in Visible(Verified(s, t))
    OBVIOUS
  <2>2. x \in Piece
    <3>1. PICK k \in 1..Len(u) : x = u[k]
      BY <1>10, SeqMembers
    <3> QED
      BY <1>10, <3>1, ElementIn
  <2>3. x \in UNION {ToSet(y.pieces) : y \in ToSet(Renderings(s, t))}
    BY <1>10, Zenon
  <2>4. ~IsParam(x) => x \in Verified(s, t)
    BY <2>3 DEF Verified
  <2> QED
    BY <2>2, <2>4 DEF Visible
<1>12. u \in Seq(Visible(Verified(s, t)))
  BY <1>10, <1>11, TypedList, ListTyped
<1> QED
  BY <1>2, <1>4, <1>9, <1>12

LEMMA OneMember ==
  ASSUME NEW u, NEW x, u = <<x>>
  PROVE  x \in ToSet(u)
BY WordSet

\* The selection of a rendering.
LEMMA SelectionTested ==
  ASSUME NEW s, NEW t, NEW choices, NEW orders, NEW ins, NEW trees, NEW r \in ToSet(Renderings(s, t)),
         r.pieces = Shape(s, t, choices, orders, ins, trees),
         \A n \in Nat : At(choices, n, 0) \in Nat, \A n \in Nat : At(orders, n, Maximal) \in {<<>>, Maximal},
         NEW v, v = Selection(AllGuards(t), choices, orders, ins, trees)
  PROVE  /\ Tested(s, t, v) /\ v.choices = choices /\ v.orders = orders /\ v.ins = ins /\ v.trees = trees
<1>1. /\ v.guards = AllGuards(t) /\ v.choices = choices /\ v.orders = orders /\ v.ins = ins
      /\ v.trees = trees
  BY DEF Selection
<1>2. r.pieces = Pieces(s, t, v.guards, v.choices, v.orders, v.ins, v.trees)
  BY <1>1 DEF Shape
<1>3. Tested(s, t, v)
  BY <1>1, <1>2, Zenon DEF Tested
<1> QED
  BY <1>1, <1>3

LEMMA NoneSelected ==
  ASSUME NEW n, NEW d
  PROVE  At(<<>>, n, d) = d
BY DEF At

LEMMA MaximalTested ==
  ASSUME NEW s, NEW t \in Templates
  PROVE  \E v : Tested(s, t, v) /\ v.choices = <<>> /\ v.orders = <<>> /\ v.ins = <<>> /\ v.trees = <<>>
<1>1. PICK r : r = Variant("maximal", 0, 0, Shape(s, t, <<>>, <<>>, <<>>, <<>>))
  OBVIOUS
<1>2. r.pieces = Shape(s, t, <<>>, <<>>, <<>>, <<>>)
  BY <1>1 DEF Variant
<1>3. r \in ToSet(MaximalPart(s, t))
  BY <1>1, OneMember DEF MaximalPart
<1>4. r \in ToSet(Renderings(s, t))
  BY <1>3, PartsRendered
<1>5. \A n \in Nat : At(<<>>, n, 0) \in Nat /\ At(<<>>, n, Maximal) \in {<<>>, Maximal}
  BY NoneSelected
<1> QED
  BY <1>2, <1>4, <1>5, SelectionTested

LEMMA CaseTested ==
  ASSUME NEW s, NEW t \in Templates, NEW c \in 1..Blocks(t, "choose"),
         NEW o \in 1..(MaxOrdinal(OfKind(t, "choose")[c]) - 1), MaxOrdinal(OfKind(t, "choose")[c]) \in Nat
  PROVE  \E v : Tested(s, t, v) /\ At(v.choices, c, 0) = o
<1>0. c \in Nat /\ o \in Nat
  BY KindsListed
<1>1. PICK r : r = Variant("case", c, o, Shape(s, t, ChoiceOf(c, o), <<>>, <<>>, <<>>))
  OBVIOUS
<1>2. r.pieces = Shape(s, t, ChoiceOf(c, o), <<>>, <<>>, <<>>)
  BY <1>1 DEF Variant
<1>3. r \in ToSet(CasePart(s, t, c))
  <2>1. PICK m \in Int : m = MaxOrdinal(OfKind(t, "choose")[c]) - 1
    OBVIOUS
  <2>2. CasePart(s, t, c) = [k \in 1..m |-> CasePart(s, t, c)[k]] /\ CasePart(s, t, c)[o] = r
    BY <1>1, <2>1 DEF CasePart
  <2> QED
    BY <2>1, <2>2, ListOf
<1>4. r \in ToSet(Renderings(s, t))
  BY <1>3, PartsRendered
<1>5. \A n \in Nat : At(<<>>, n, Maximal) \in {<<>>, Maximal}
  BY NoneSelected
<1>6. PICK ch : ch = ChoiceOf(c, o)
  OBVIOUS
<1>7. \A n \in Nat : At(ch, n, 0) \in Nat
  BY <1>0, <1>6 DEF At, ChoiceOf
<1>8. At(ch, c, 0) = o
  BY <1>0, <1>6 DEF At, ChoiceOf
<1>9. r.pieces = Shape(s, t, ch, <<>>, <<>>, <<>>)
  BY <1>2, <1>6
<1>10. PICK v : v = Selection(AllGuards(t), ch, <<>>, <<>>, <<>>)
  OBVIOUS
<1>11. Tested(s, t, v) /\ v.choices = ch
  <2>1. v.guards = AllGuards(t) /\ v.choices = ch /\ v.orders = <<>> /\ v.ins = <<>> /\ v.trees = <<>>
    BY <1>10 DEF Selection
  <2>2. r.pieces = Pieces(s, t, v.guards, v.choices, v.orders, v.ins, v.trees)
    BY <1>9, <2>1 DEF Shape
  <2>3. \A n \in Nat : At(v.choices, n, 0) \in Nat
    BY <1>7, <2>1
  <2>4. \A n \in Nat : At(v.orders, n, Maximal) \in {<<>>, Maximal}
    BY <1>5, <2>1
  <2> QED
    BY <1>4, <2>1, <2>2, <2>3, <2>4, Zenon DEF Tested
<1> QED
  BY <1>8, <1>11

LEMMA DefaultTested ==
  ASSUME NEW s, NEW t \in Templates, NEW b \in 1..Blocks(t, "orderby"),
         OfKind(t, "orderby")[b].default # <<>>
  PROVE  \E v : Tested(s, t, v) /\ At(v.orders, b, Maximal) = <<>>
<1>1. PICK r : r = Variant("order-default", b, 0, Shape(s, t, <<>>, DefaultOf(t, b), <<>>, <<>>))
  OBVIOUS
<1>2. r.pieces = Shape(s, t, <<>>, DefaultOf(t, b), <<>>, <<>>)
  BY <1>1 DEF Variant
<1>3. r \in ToSet(OrderPart(s, t, b))
  BY <1>1, OneMember DEF OrderPart
<1>4. r \in ToSet(Renderings(s, t))
  BY <1>3, PartsRendered
<1>5. \A n \in Nat : At(<<>>, n, 0) \in Nat
  BY NoneSelected
<1>6. b \in DOMAIN OfKind(t, "orderby")
  BY KindsListed
<1>7. (\A n \in Nat : At(DefaultOf(t, b), n, Maximal) \in {<<>>, Maximal}) /\ At(DefaultOf(t, b), b, Maximal) = <<>>
  BY <1>6 DEF At, DefaultOf
<1> QED
  BY <1>2, <1>4, <1>5, <1>7, SelectionTested

LEMMA EmptyTested ==
  ASSUME NEW s, NEW t \in Templates, NEW m, m = Blocks(t, "in"), NEW b \in 1..m, s # "dollar"
  PROVE  \E v : Tested(s, t, v) /\ At(v.ins, b, 1) = 0
<1>1. PICK r : r = Variant("in-empty", b, 0, Shape(s, t, <<>>, <<>>, AllBut(m, b), <<>>))
  OBVIOUS
<1>2. r.pieces = Shape(s, t, <<>>, <<>>, AllBut(m, b), <<>>)
  BY <1>1 DEF Variant
<1>3. r \in ToSet(InPart(s, t))
  <2>1. m \in Nat
    BY KindsListed
  <2>2. InPart(s, t) = [k \in 1..m |-> InPart(s, t)[k]] /\ InPart(s, t)[b] = r
    BY <1>1 DEF InPart
  <2> QED
    BY <2>1, <2>2, ListOf
<1>4. r \in ToSet(Renderings(s, t))
  BY <1>3, PartsRendered
<1>5. \A n \in Nat : At(<<>>, n, 0) \in Nat /\ At(<<>>, n, Maximal) \in {<<>>, Maximal}
  BY NoneSelected
<1>6. At(AllBut(m, b), b, 1) = 0
  BY DEF At, AllBut
<1> QED
  BY <1>2, <1>4, <1>5, <1>6, SelectionTested

LEMMA TrueTested ==
  ASSUME NEW s, NEW t \in Templates, NEW m, m = Blocks(t, "tree"), NEW b \in 1..m
  PROVE  \E v : Tested(s, t, v) /\ At(v.trees, b, 1) = 0
<1>1. PICK r : r = Variant("tree-empty", b, 0, Shape(s, t, <<>>, <<>>, <<>>, AllBut(m, b)))
  OBVIOUS
<1>2. r.pieces = Shape(s, t, <<>>, <<>>, <<>>, AllBut(m, b))
  BY <1>1 DEF Variant
<1>3. r \in ToSet(TreePart(s, t))
  <2>1. m \in Nat
    BY KindsListed
  <2>2. TreePart(s, t) = [k \in 1..m |-> TreePart(s, t)[k]] /\ TreePart(s, t)[b] = r
    BY <1>1 DEF TreePart
  <2> QED
    BY <2>1, <2>2, ListOf
<1>4. r \in ToSet(Renderings(s, t))
  BY <1>3, PartsRendered
<1>5. \A n \in Nat : At(<<>>, n, 0) \in Nat /\ At(<<>>, n, Maximal) \in {<<>>, Maximal}
  BY NoneSelected
<1>6. At(AllBut(m, b), b, 1) = 0
  BY DEF At, AllBut
<1> QED
  BY <1>2, <1>4, <1>5, <1>6, SelectionTested

\* The values a statement may show in place of a placeholder.
LeafVals == UNION {{l.args[k] : k \in Int} : l \in Trees}
Vals == {[val |-> v] : v \in (STRING \X Nat) \cup LeafVals}
\* Words that are in V or are glue, and values.
Shown(V) == {x \in Word : x \in V \/ x.text \in Glue} \cup Vals

LEMMA VisibleKinds ==
  ASSUME NEW V, NEW x \in Visible(V)
  PROVE  /\ x \in Piece
         /\ ~IsParam(x) => x \in Shown(V)
         /\ IsParam(x) => [val |-> <<x.param, 0>>] \in Shown(V)
<1>1. x \in Piece /\ (~IsParam(x) => x \in V \/ x.text \in Glue)
  BY DEF Visible
<1>2. ~IsParam(x) => x \in Shown(V)
  BY <1>1, PieceKinds DEF Shown
<1>3. ASSUME IsParam(x) PROVE [val |-> <<x.param, 0>>] \in Shown(V)
  <2>1. x.param \in STRING
    BY <1>1, <1>3, PieceKinds, ParamFields
  <2>2. PICK p \in STRING : p = x.param
    BY <2>1
  <2>3. PICK z \in STRING \X Nat : z = <<p, 0>>
    OBVIOUS
  <2>4. [val |-> z] \in Vals
    BY DEF Vals
  <2> QED
    BY <2>2, <2>3, <2>4 DEF Shown
<1> QED
  BY <1>1, <1>2, <1>3

LEMMA WordShown ==
  ASSUME NEW V, NEW w \in Word, w \in Visible(V)
  PROVE  w \in Shown(V)
BY VisibleKinds, WordFields

LEMMA GlueVisible ==
  ASSUME NEW V
  PROVE  /\ Text(", ") \in Visible(V) /\ Desc \in Visible(V) /\ Text(" OR ") \in Visible(V)
         /\ Text(" AND ") \in Visible(V)
<1>1. Text(", ").text \in Glue /\ Desc.text \in Glue /\ Text(" OR ").text \in Glue
      /\ Text(" AND ").text \in Glue
  BY DEF Text, Desc, Glue
<1>2. Text(", ") \in Piece /\ Desc \in Piece /\ Text(" OR ") \in Piece /\ Text(" AND ") \in Piece
  BY LitWords, WordPiece, Zenon DEF Desc
<1>3. \A w : w \in Piece /\ w.text \in Glue => w \in Visible(V)
  BY DEF Visible
<1> QED
  BY <1>1, <1>2, <1>3, Zenon

LEMMA GlueShown ==
  ASSUME NEW V
  PROVE  Text(", ") \in Shown(V) /\ Text(" OR ") \in Shown(V) /\ Text(" AND ") \in Shown(V)
BY GlueVisible, WordShown, LitWords, Zenon

LEMMA WholeShown ==
  ASSUME NEW V, NEW u \in Seq(Visible(V))
  PROVE  Whole(u) \in Seq(Shown(V))
<1>1. PICK n \in Nat : n = Len(u) /\ DOMAIN u = 1..n
  BY SeqDomain
<1>2. PICK w : w = Whole(u)
  OBVIOUS
<1>3. w = [j \in 1..n |-> w[j]] /\ \A j \in 1..n : w[j] = IF IsParam(u[j]) THEN [val |-> <<u[j].param, 0>>] ELSE u[j]
  BY <1>1, <1>2 DEF Whole
<1>4. ASSUME NEW j \in 1..n PROVE w[j] \in Shown(V)
  <2>1. u[j] \in Visible(V)
    BY <1>1, ElementIn
  <2> QED
    BY <1>3, <2>1, VisibleKinds
<1> HIDE <1>1
<1>5. w \in Seq(Shown(V))
  BY <1>3, <1>4
<1> QED
  BY <1>2, <1>5

\* The texts of one item.
ItemShown(s, t, c, i) == ItemText(s, t, i, c) \in Seq(Shown(Verified(s, t)))

LEMMA WholeItemShown ==
  ASSUME NEW s \in Styles, NEW t \in Templates, NEW c, NEW v, Tested(s, t, v), NEW i \in 1..Len(t),
         ItemText(s, t, i, c) = Whole(PieceItem(s, t, v, i))
  PROVE  ItemShown(s, t, c, i)
BY PieceVerified, WholeShown DEF ItemShown

LEMMA SkeletonShown ==
  ASSUME NEW s \in Styles, NEW t \in Templates, NEW c, NEW i \in 1..Len(t), t[i].kind = "skeleton"
  PROVE  ItemShown(s, t, c, i)
<1>1. PICK v : Tested(s, t, v)
  BY MaximalTested
<1>2. ItemText(s, t, i, c) = Whole(PieceItem(s, t, v, i))
  BY DEF ItemText, PieceItem
<1> QED
  BY <1>1, <1>2, WholeItemShown

LEMMA AllActive ==
  ASSUME NEW t \in Templates, NEW i \in 1..Len(t), t[i].kind = "guarded"
  PROVE  Active(t, t[i], AllGuards(t))
<1> DEFINE atoms == GuardAtoms(t)
<1>1. ASSUME NEW a \in ToSet(t[i].guards)
      PROVE  \E b \in DOMAIN atoms : atoms[b] = a /\ b - 1 \in AllGuards(t)
  <2>1. atoms \in Seq(AtomType) /\ Contains(atoms, a)
    BY TemplateFacts, AtomsMembers
  <2>2. PICK b \in 1..Len(atoms) : atoms[b] = a
    BY <2>1 DEF Contains
  <2>3. b \in DOMAIN atoms
    BY <2>1
  <2>4. b - 1 \in AllGuards(t)
    BY <2>3 DEF AllGuards
  <2> QED
    BY <2>2, <2>3, <2>4
<1> QED
  BY <1>1 DEF Active

LEMMA NothingShown ==
  ASSUME NEW s, NEW t, NEW c, NEW i, ItemText(s, t, i, c) = <<>>
  PROVE  ItemShown(s, t, c, i)
BY DEF ItemShown

LEMMA GuardedShown ==
  ASSUME NEW s \in Styles, NEW t \in Templates, NEW c, NEW i \in 1..Len(t), t[i].kind = "guarded"
  PROVE  ItemShown(s, t, c, i)
<1>1. PICK v : Tested(s, t, v)
  BY MaximalTested
<1>2. v.guards = AllGuards(t)
  BY <1>1 DEF Tested
<1>3. PieceItem(s, t, v, i) = GuardedPieces(t[i])
  BY <1>2, AllActive DEF PieceItem
<1>4. CASE \A a \in ToSet(t[i].guards) : Holds(a, c)
  <2>1. ItemText(s, t, i, c) = Whole(GuardedPieces(t[i]))
    BY <1>4 DEF ItemText
  <2> QED
    BY <1>1, <1>3, <2>1, WholeItemShown
<1>5. CASE ~(\A a \in ToSet(t[i].guards) : Holds(a, c))
  <2>1. ItemText(s, t, i, c) = <<>>
    BY <1>5 DEF ItemText
  <2> QED
    BY <2>1, NothingShown
<1> QED
  BY <1>4, <1>5

LEMMA ChooseShown ==
  ASSUME NEW s, NEW t, NEW c, InCall(s, t, c), NEW i \in 1..Len(t), t[i].kind = "choose"
  PROVE  ItemShown(s, t, c, i)
<1> DEFINE it == t[i]
           n == Nth(t, i)
           e == c.enums[n]
           ord == ChooseOrdinal(it, e)
           body == Bodies(it)[ord + 1]
           nl == <<Text("\n")>>
<1>0. t \in Templates /\ s \in Styles
  BY DEF InCall
<1>1. t \in Seq(Item) /\ it \in Item /\ IsItem(it)
  BY <1>0, TemplateFacts
<1>2. ord \in Nat /\ ord + 1 \in 1..Len(Bodies(it)) /\ body = IF e = 0 THEN it.default[1] ELSE it.cases[e].body
  BY ChosenCase
<1>3. it \in ChooseItem /\ Len(it.default) <= 1
  BY <1>1, ItemKinds DEF IsItem
<1>4. /\ n \in 1..Blocks(t, "choose") /\ OfKind(t, "choose")[n] = it
  BY <1>0, NthItem
<1>5. ItemText(s, t, i, c) = nl \o Whole(body)
  <2>1. ItemText(s, t, i, c) = nl \o Whole(IF e = 0 THEN it.default[1] ELSE it.cases[e].body)
    BY DEF ItemText
  <2> QED
    BY <1>2, <2>1
<1>6. body \in Seq(Piece)
  BY <1>1, <1>2, BodiesNamed, NamedPieces
<1>7. \A v : PieceItem(s, t, v, i) = nl \o CaseBody(it, At(v.choices, n, 0))
  BY DEF PieceItem
<1> HIDE DEF n, e, ord
<1>8. CaseBody(it, ord) = body /\ ord \in 0..(MaxOrdinal(it) - 1) /\ MaxOrdinal(it) \in Nat
  <2> HIDE DEF it
  <2> QED
    BY <1>2, <1>3, CaseBodyAt
<1>9. \E v : Tested(s, t, v) /\ At(v.choices, n, 0) = ord
  <2>1. CASE ord = 0
    <3>1. PICK v : Tested(s, t, v) /\ v.choices = <<>>
      BY <1>0, MaximalTested
    <3>2. At(v.choices, n, 0) = ord
      BY <2>1, <3>1, NoneSelected
    <3> QED
      BY <3>1, <3>2
  <2>2. CASE ord # 0
    <3>1. PICK m \in Nat : m = MaxOrdinal(it) /\ ord \in 1..(m - 1)
      BY <1>2, <1>8, <2>2
    <3>2. ord \in 1..(MaxOrdinal(OfKind(t, "choose")[n]) - 1) /\ MaxOrdinal(OfKind(t, "choose")[n]) \in Nat
      BY <1>4, <3>1, Zenon
    <3> QED
      BY <1>0, <1>4, <3>2, CaseTested, Zenon
  <2> QED
    BY <2>1, <2>2
<1>10. PICK v : Tested(s, t, v) /\ At(v.choices, n, 0) = ord
  BY <1>9
<1> HIDE DEF body
<1>11. PieceItem(s, t, v, i) = nl \o body
  BY <1>7, <1>8, <1>10
<1>12. nl \in Seq(Piece) /\ Whole(nl) = nl
  BY LitWords, WholeWord
<1> HIDE DEF nl
<1>13. Whole(nl \o body) = nl \o Whole(body)
  BY <1>6, <1>12, WholeConcat
<1> QED
  BY <1>0, <1>5, <1>10, <1>11, <1>13, WholeItemShown

LEMMA MaximalAt ==
  ASSUME NEW s \in Styles, NEW t \in Templates, NEW i \in 1..Len(t)
  PROVE  \E v : /\ Tested(s, t, v)
                /\ PieceItem(s, t, v, i) \in Seq(Visible(Verified(s, t)))
                /\ t[i].kind = "orderby" => PieceItem(s, t, v, i) = OrderPieces(t[i], Maximal)
                /\ t[i].kind = "in" => PieceItem(s, t, v, i) = InPieces(t[i], s, 1)
                /\ t[i].kind = "tree" => PieceItem(s, t, v, i) = TreePieces(t[i], 1)
<1>1. PICK v : Tested(s, t, v) /\ v.choices = <<>> /\ v.orders = <<>> /\ v.ins = <<>> /\ v.trees = <<>>
  BY MaximalTested
<1>2. /\ At(v.orders, Nth(t, i), Maximal) = Maximal /\ At(v.ins, Nth(t, i), 1) = 1
      /\ At(v.trees, Nth(t, i), 1) = 1
  BY <1>1, NoneSelected
<1>3. t[i].kind = "orderby" => PieceItem(s, t, v, i) = OrderPieces(t[i], Maximal)
  BY <1>2 DEF PieceItem
<1>4. t[i].kind = "in" => PieceItem(s, t, v, i) = InPieces(t[i], s, 1)
  BY <1>2 DEF PieceItem
<1>5. t[i].kind = "tree" => PieceItem(s, t, v, i) = TreePieces(t[i], 1)
  BY <1>2 DEF PieceItem
<1> QED
  BY <1>1, <1>3, <1>4, <1>5, PieceVerified

\* The members of a part of a visible sequence.
LEMMA MembersIn ==
  ASSUME NEW X, NEW Y, NEW w \in Seq(X), NEW u \in Seq(Y), \A x \in ToSet(u) : x \in ToSet(w)
  PROVE  u \in Seq(X)
<1>1. \A x \in ToSet(w) : x \in X
  <2>1. SUFFICES ASSUME NEW x \in ToSet(w) PROVE x \in X
    OBVIOUS
  <2>2. PICK k \in 1..Len(w) : x = w[k]
    BY SeqMembers
  <2> QED
    BY <2>2, ElementIn
<1>2. ToSet(u) \subseteq X
  BY <1>1
<1> QED
  BY <1>2, TypedList, ListTyped

LEMMA MemberIn ==
  ASSUME NEW X, NEW w \in Seq(X), NEW x \in ToSet(w)
  PROVE  x \in X
<1>1. PICK k \in 1..Len(w) : x = w[k]
  BY SeqMembers
<1> QED
  BY <1>1, ElementIn

\* The keys of a visible ORDER BY.
LEMMA OrderKeysVisible ==
  ASSUME NEW X, NEW it, Parts(it.keys, Piece), OrderPieces(it, Maximal) \in Seq(X)
  PROVE  Parts(it.keys, X) /\ Text("\n") \in X /\ Text("ORDER BY ") \in X
<1>1. PICK u : u = it.keys
  OBVIOUS
<1>2. PICK n \in Nat : /\ n = Len(u) /\ u = [i \in 1..n |-> u[i]] /\ \A i \in 1..n : u[i] \in Seq(Piece)
  BY <1>1, PartsAt, Zenon
<1>3. PICK nl : nl = <<Text("\n")>>
  OBVIOUS
<1>4. PICK ob : ob = <<Text("ORDER BY ")>>
  OBVIOUS
<1>5. PICK j : j = Joined(u, ", ")
  OBVIOUS
<1>6. Text(", ") \in Piece
  BY LitWords, WordPiece
<1>7. j \in Seq(Piece) /\ \A i \in 1..Len(u) : \A x \in ToSet(u[i]) : x \in ToSet(j)
  BY <1>1, <1>5, <1>6, PartsJoined
<1>8. List(j) /\ List(nl) /\ List(ob)
  BY <1>3, <1>4, <1>7, TypedList, OneSeq
<1>9. OrderPieces(it, Maximal) = nl \o (ob \o j)
  BY <1>1, <1>3, <1>4, <1>5, OrderCases
<1>10. PICK w : w = nl \o (ob \o j)
  OBVIOUS
<1>11. List(ob \o j) /\ \A x : x \in ToSet(ob) \/ x \in ToSet(j) => x \in ToSet(ob \o j)
  BY <1>8, ListConcat
<1>12. \A x : x \in ToSet(nl) \/ x \in ToSet(ob \o j) => x \in ToSet(w)
  BY <1>8, <1>10, <1>11, ListConcat
<1>13. Text("\n") \in ToSet(w) /\ Text("ORDER BY ") \in ToSet(w)
  BY <1>3, <1>4, <1>11, <1>12, WordSet
<1>14. w \in Seq(X)
  BY <1>9, <1>10
<1>15. Text("\n") \in X /\ Text("ORDER BY ") \in X
  BY <1>13, <1>14, MemberIn
<1>16. ASSUME NEW i \in 1..n PROVE u[i] \in Seq(X)
  <2>1. \A x \in ToSet(u[i]) : x \in ToSet(w)
    BY <1>2, <1>7, <1>11, <1>12
  <2> QED
    BY <1>2, <1>14, <2>1, MembersIn
<1>17. Parts(u, X)
  BY <1>2, <1>16, PartsOf
<1> QED
  BY <1>1, <1>15, <1>17

LEMMA OrderShown ==
  ASSUME NEW s, NEW t, NEW c, InCall(s, t, c), NEW i \in 1..Len(t), t[i].kind = "orderby"
  PROVE  ItemShown(s, t, c, i)
<1> DEFINE it == t[i]
           n == Nth(t, i)
           X == Visible(Verified(s, t))
<1>0. t \in Templates /\ s \in Styles
  BY DEF InCall
<1>1. PICK seq : seq = c.orders[n]
  OBVIOUS
<1>2. seq \in Seq(Nat) /\ \A j \in 1..Len(seq) : seq[j] \div 2 < Len(it.keys)
  BY <1>1, SortKeys
<1>3. ItemText(s, t, i, c) = Whole(OrderPieces(it, seq))
  BY <1>1 DEF ItemText
<1>4. it \in OrderItem
  BY <1>0, TemplateFacts, ItemKinds
<1>5. it.keys \in Seq(Body) /\ it.default \in Seq(Body)
  BY <1>4 DEF OrderItem
<1>6. Parts(it.keys, Piece) /\ Parts(it.default, Piece)
  BY <1>5, BodiesParts
<1>7. OrderPieces(it, Maximal) \in Seq(X)
  BY <1>0, MaximalAt
<1> HIDE DEF X
<1>8. Parts(it.keys, X) /\ Text("\n") \in X /\ Text("ORDER BY ") \in X
  <2> HIDE DEF it
  <2> QED
    BY <1>6, <1>7, OrderKeysVisible
<1>9. CASE seq = <<>> /\ it.default # <<>>
  <2>1. n \in 1..Blocks(t, "orderby") /\ OfKind(t, "orderby")[n] = it
    BY <1>0, NthItem
  <2>2. PICK v : Tested(s, t, v) /\ At(v.orders, n, Maximal) = <<>>
    <3>1. OfKind(t, "orderby")[n].default # <<>>
      BY <1>9, <2>1
    <3> QED
      BY <1>0, <2>1, <3>1, DefaultTested
  <2>3. PieceItem(s, t, v, i) = OrderPieces(it, At(v.orders, n, Maximal))
    BY DEF PieceItem
  <2>4. ItemText(s, t, i, c) = Whole(PieceItem(s, t, v, i))
    BY <1>3, <1>9, <2>2, <2>3
  <2> QED
    BY <1>0, <2>2, <2>4, WholeItemShown
<1>10. ASSUME ~(seq = <<>> /\ it.default # <<>>) PROVE OrderPieces(it, seq) \in Seq(X)
  <2>1. Text(", ") \in X /\ Desc \in X
    BY GlueVisible DEF X
  <2>2. CASE it.default = <<>>
    <3>1. <<>> \in Seq(Seq(X))
      OBVIOUS
    <3>2. Parts(it.default, X)
      BY <2>2, <3>1 DEF Parts
    <3> HIDE DEF it, n
    <3> QED
      BY <1>2, <1>8, <2>1, <3>2, OrderPiecesIn
  <2>3. CASE seq # <<>>
    <3>1. PICK jt : jt = [keys |-> it.keys, default |-> <<>>]
      OBVIOUS
    <3>2. jt.keys = it.keys /\ jt.default = <<>>
      BY <3>1
    <3>3. <<>> \in Seq(Seq(X))
      OBVIOUS
    <3>4. Parts(jt.keys, X) /\ Parts(jt.default, X)
      BY <1>8, <3>2, <3>3 DEF Parts
    <3>5. \A j \in 1..Len(seq) : seq[j] \div 2 < Len(jt.keys)
      BY <1>2, <3>2, Zenon
    <3> HIDE DEF it, n
    <3>6. OrderPieces(jt, seq) \in Seq(X)
      BY <1>2, <1>8, <2>1, <3>4, <3>5, OrderPiecesIn
    <3>7. OrderPieces(jt, seq) = OrderPieces(it, seq)
      <4>1. PICK keys : keys = it.keys /\ keys = jt.keys
        BY <3>2
      <4>2. PICK r : r = <<Text("\n")>> \o (IF seq = Maximal THEN <<Text("ORDER BY ")>> \o Joined(keys, ", ")
                              ELSE <<Text("ORDER BY ")>>
                                   \o Joined([k \in DOMAIN seq |-> SortKey(keys, seq[k])], ", "))
        OBVIOUS
      <4>3. OrderPieces(jt, seq) = r
        BY <2>3, <4>1, <4>2, OrderCases
      <4>4. OrderPieces(it, seq) = r
        BY <2>3, <4>1, <4>2, OrderCases
      <4> QED
        BY <4>3, <4>4
    <3> QED
      BY <3>6, <3>7
  <2> QED
    BY <1>10, <2>2, <2>3
<1>11. ASSUME OrderPieces(it, seq) \in Seq(X) PROVE ItemShown(s, t, c, i)
  <2>1. Whole(OrderPieces(it, seq)) \in Seq(Shown(Verified(s, t)))
    BY <1>11, WholeShown DEF X
  <2> QED
    BY <1>3, <2>1 DEF ItemShown
<1> QED
  BY <1>9, <1>10, <1>11

LEMMA ThreeMembers ==
  ASSUME NEW a, NEW b, NEW d, NEW u, u = <<a, b, d>>
  PROVE  a \in ToSet(u) /\ d \in ToSet(u)
<1>1. 1 \in DOMAIN u /\ 3 \in DOMAIN u /\ u[1] = a /\ u[3] = d
  OBVIOUS
<1> QED
  BY <1>1, Zenon DEF ToSet

LEMMA ElementShown ==
  ASSUME NEW V, NEW p \in STRING, NEW e \in Nat
  PROVE  [val |-> <<p, e>>] \in Shown(V)
<1>1. PICK z \in STRING \X Nat : z = <<p, e>>
  OBVIOUS
<1>2. [val |-> z] \in Vals
  BY DEF Vals
<1> QED
  BY <1>1, <1>2 DEF Shown

LEMMA InShown ==
  ASSUME NEW s, NEW t, NEW c, InCall(s, t, c), NEW i \in 1..Len(t), t[i].kind = "in"
  PROVE  ItemShown(s, t, c, i)
<1> DEFINE it == t[i]
           V == Verified(s, t)
<1>0. t \in Templates /\ c \in Calls(t) /\ s \in Styles
  BY DEF InCall
<1>1. PICK p : p = it.param
  OBVIOUS
<1>2. PICK n : n = c.lens[p]
  OBVIOUS
<1>3. ItemText(s, t, i, c) = ListText(s, p, n)
  BY <1>1, <1>2 DEF ItemText
<1>4. PICK v : /\ Tested(s, t, v) /\ PieceItem(s, t, v, i) \in Seq(Visible(V))
               /\ PieceItem(s, t, v, i) = InPieces(it, s, 1)
  BY <1>0, MaximalAt
<1>5. CASE s = "dollar"
  <2>1. ItemText(s, t, i, c) = Whole(<<Text("= ANY("), Param(p), Text(")")>>)
    BY <1>3, <1>5 DEF ListText
  <2>2. InPieces(it, s, 1) = <<Text("= ANY("), Param(p), Text(")")>>
    BY <1>1, <1>5 DEF InPieces
  <2> QED
    BY <1>0, <1>4, <2>1, <2>2, WholeItemShown
<1>6. CASE s = "question" /\ n = 0
  <2>1. PICK m : m = Blocks(t, "in")
    OBVIOUS
  <2>2. Nth(t, i) \in 1..m
    BY <1>0, <2>1, NthItem
  <2>3. PICK x : Tested(s, t, x) /\ At(x.ins, Nth(t, i), 1) = 0
    <3>1. s # "dollar"
      BY <1>6
    <3> QED
      BY <1>0, <2>1, <2>2, <3>1, EmptyTested
  <2>4. PieceItem(s, t, x, i) = InPieces(it, s, At(x.ins, Nth(t, i), 1))
    BY DEF PieceItem
  <2>5. PieceItem(s, t, x, i) = <<Text("IN (empty)")>>
    BY <1>6, <2>3, <2>4 DEF InPieces, InEmpty
  <2>6. ItemText(s, t, i, c) = <<Text("IN (empty)")>>
    BY <1>3, <1>6 DEF ListText, InEmpty
  <2>7. Whole(<<Text("IN (empty)")>>) = <<Text("IN (empty)")>>
    BY LitWords, WholeWord
  <2> QED
    BY <1>0, <2>3, <2>5, <2>6, <2>7, WholeItemShown
<1>7. CASE s = "question" /\ n # 0
  <2> DEFINE X == Shown(V)
             T == [e \in 1..n |-> <<[val |-> <<p, e>>]>>]
             a == Text("IN (")
             z == Text(")")
  <2>1. n \in Nat
    <3>1. c.lens \in [ListParams(t) -> Lens] /\ p \in ListParams(t)
      BY <1>0, <1>1, CallFields, InNamed
    <3>2. n \in Lens
      BY <1>2, <3>1
    <3> QED
      BY <3>2, ComposerAssumption
  <2>2. p \in STRING
    <3>1. Param(p) \in Piece /\ IsParam(Param(p)) /\ Param(p).param = p
      BY <1>0, <1>1, InNamed DEF IsParam, Param
    <3> QED
      BY <3>1, PieceKinds, ParamFields
  <2>3. PieceItem(s, t, v, i) = <<a, Param(p), z>>
    <3>1. s # "dollar" /\ 1 # 0
      BY <1>7
    <3>2. InPieces(it, s, 1) = <<a, Param(it.param), z>>
      BY <3>1 DEF InPieces
    <3> QED
      BY <1>1, <1>4, <3>2
  <2>4. a \in X /\ z \in X
    <3>1. PICK u : u = PieceItem(s, t, v, i)
      OBVIOUS
    <3>2. u \in Seq(Visible(V)) /\ a \in ToSet(u) /\ z \in ToSet(u)
      BY <1>4, <2>3, <3>1, ThreeMembers
    <3>3. a \in Word /\ z \in Word
      BY LitWords
    <3> HIDE DEF a, z, V
    <3> QED
      BY <3>2, <3>3, MemberIn, WordShown
  <2>5. T = [e \in 1..n |-> T[e]] /\ \A e \in 1..n : T[e] = <<[val |-> <<p, e>>]>>
    OBVIOUS
  <2>6. ItemText(s, t, i, c) = <<a>> \o Joined(T, ", ") \o <<z>>
    BY <1>3, <1>7 DEF ListText
  <2>7. Text(", ") \in X
    BY GlueShown
  <2> HIDE DEF a, z, X, T
  <2>8. ASSUME NEW e \in 1..n PROVE T[e] \in Seq(X)
    <3>1. e \in Nat
      OBVIOUS
    <3>2. [val |-> <<p, e>>] \in X
      BY <2>2, <3>1, ElementShown DEF X
    <3>3. <<[val |-> <<p, e>>]>> \in Seq(X)
      BY <3>2, OneSeq
    <3> QED
      BY <2>5, <3>3
  <2>9. PICK j : j = Joined(T, ", ")
    OBVIOUS
  <2>10. j \in Seq(X)
    BY <2>1, <2>5, <2>7, <2>8, <2>9, JoinedTyped
  <2>11. <<a>> \in Seq(X) /\ <<z>> \in Seq(X)
    BY <2>4, OneSeq
  <2>12. <<a>> \o j \in Seq(X)
    BY <2>10, <2>11, ConcatSeq
  <2>13. <<a>> \o j \o <<z>> \in Seq(X)
    BY <2>11, <2>12, ConcatSeq
  <2> QED
    BY <2>6, <2>9, <2>13 DEF ItemShown, X
<1> QED
  BY <1>0, <1>5, <1>6, <1>7 DEF Styles

\* The predicates of a tree, in X.
LEMMA LeafShown ==
  ASSUME NEW V, Text("(") \in Shown(V), Text(")") \in Shown(V), NEW l \in Trees,
         NEW body \in Body, body \in Seq(Visible(V))
  PROVE  LeafText(l, body) \in Seq(Shown(V))
<1>1. PICK own : own = Distinct(ParamsOf(body))
  OBVIOUS
<1>2. own \in Seq(STRING)
  BY <1>1, ParamsOfMembers, DistinctMembers
<1>3. Len(own) \in Nat
  BY <1>2, LenNat
<1> DEFINE v == [i \in DOMAIN body |-> IF IsParam(body[i]) THEN [val |-> l.args[IndexIn(own, body[i].param)]]
                                       ELSE body[i]]
<1>4. LeafText(l, body) = <<Text("(")>> \o v \o <<Text(")")>>
  BY <1>1 DEF LeafText
<1>5. PICK n \in Nat : n = Len(body) /\ DOMAIN body = 1..n
  BY SeqDomain
<1>6. ASSUME NEW i \in 1..n PROVE v[i] \in Shown(V)
  <2>1. body[i] \in Visible(V)
    BY <1>5, ElementIn
  <2>2. CASE IsParam(body[i])
    <3>1. PICK k \in Int : k = IndexIn(own, body[i].param)
      BY <1>3, IndexInt
    <3>2. v[i] = [val |-> l.args[k]]
      BY <1>5, <2>2, <3>1
    <3>3. l.args[k] \in LeafVals
      BY DEF LeafVals
    <3>4. PICK x : x = l.args[k]
      OBVIOUS
    <3>5. [val |-> x] \in Vals
      BY <3>3, <3>4 DEF Vals
    <3> QED
      BY <3>2, <3>4, <3>5 DEF Shown
  <2>3. CASE ~IsParam(body[i])
    <3>1. v[i] = body[i]
      BY <1>5, <2>3
    <3> QED
      BY <2>1, <2>3, <3>1, VisibleKinds
  <2> QED
    BY <2>2, <2>3
<1>7. v = [i \in 1..n |-> v[i]]
  BY <1>5
<1> HIDE DEF v
<1>8. v \in Seq(Shown(V))
  BY <1>6, <1>7
<1> QED
  BY <1>4, <1>8, Parenthesised

LEMMA LevelsShown ==
  ASSUME NEW V, Text("(") \in Shown(V), Text(")") \in Shown(V), Text("TRUE") \in Shown(V),
         NEW preds \in Seq(Body), Parts(preds, Visible(V)), NEW T, IsText(T, preds, MaxDepth)
  PROVE  \A d \in 0..MaxDepth : \A t \in Trees : T[d][t] \in Seq(Shown(V))
<1> DEFINE X == Shown(V)
           D == {d \in 0..MaxDepth : \A t \in Trees : T[d][t] \in Seq(X)}
<1>0. MaxDepth \in Nat \ {0}
  BY TreeAssumption
<1>1. 0 \in D
  <2>1. 0 \in 0..MaxDepth
    BY <1>0
  <2>2. \A t \in Trees : T[0][t] = <<>>
    BY <2>1 DEF IsText
  <2>3. <<>> \in Seq(X)
    OBVIOUS
  <2>4. \A t \in Trees : T[0][t] \in Seq(X)
    BY <2>2, <2>3, Zenon
  <2> QED
    BY <2>1, <2>4
<1>2. ASSUME NEW d \in 1..MaxDepth, d - 1 \in D PROVE d \in D
  <2>1. d \in 0..MaxDepth
    BY <1>0
  <2>2. ASSUME NEW t \in Trees PROVE T[d][t] \in Seq(X)
    <3>1. T[d][t] = TextAt(preds, t, T[d - 1])
      BY TextAtLevel
    <3>2. CASE t.op \in {"zero", "true"}
      <4>1. T[d][t] = <<Text("TRUE")>>
        BY <3>1, <3>2 DEF TextAt
      <4> HIDE DEF X
      <4>2. <<Text("TRUE")>> \in Seq(X)
        BY OneSeq DEF X
      <4> QED
        BY <4>1, <4>2
    <3>3. CASE t.op = "leaf"
      <4>1. T[d][t] = LeafText(t, At(preds, t.pred + 1, <<>>))
        BY <3>1, <3>3 DEF TextAt
      <4>2. PICK body : body = At(preds, t.pred + 1, <<>>)
        OBVIOUS
      <4>3. body \in Body /\ body \in Seq(Visible(V))
        <5>1. PICK k : k = t.pred + 1
          OBVIOUS
        <5>2. PICK n \in Nat : n = Len(preds) /\ DOMAIN preds = 1..n
          BY SeqDomain
        <5>3. CASE k \in 1..n
          <6>1. body = preds[k]
            BY <4>2, <5>1, <5>2, <5>3 DEF At
          <6>2. preds[k] \in Body
            BY <5>2, <5>3, ElementIn
          <6>3. preds[k] \in Seq(Visible(V))
            BY <5>2, <5>3, PartsAt
          <6> QED
            BY <6>1, <6>2, <6>3
        <5>4. CASE k \notin 1..n
          <6>1. body = <<>>
            BY <4>2, <5>1, <5>2, <5>4 DEF At
          <6>2. <<>> \in Seq(Token) /\ <<>> \in Seq(Visible(V))
            OBVIOUS
          <6> QED
            BY <6>1, <6>2 DEF Body
        <5> QED
          BY <5>3, <5>4
      <4> QED
        BY <4>1, <4>2, <4>3, LeafShown
    <3>4. CASE t.op \in {"and", "or"}
      <4> DEFINE kids == t.kids
                 n == Len(kids)
                 sep == IF t.op = "or" THEN " OR " ELSE " AND "
                 U == [i \in 1..n |-> T[d - 1][kids[i]]]
      <4>1. kids \in Seq(Trees) /\ n \in Nat /\ DOMAIN kids = 1..n
        BY <3>4, InnerArgs
      <4>2. T[d][t] = <<Text("(")>> \o Joined(U, sep) \o <<Text(")")>>
        BY <3>1, <3>4, <4>1 DEF TextAt
      <4>3. ASSUME NEW i \in 1..n PROVE U[i] \in Seq(X)
        <5>1. kids[i] \in Trees
          BY <4>1, ElementIn
        <5>2. T[d - 1][kids[i]] \in Seq(X)
          BY <1>2, <5>1
        <5> QED
          BY <5>2
      <4>4. U = [i \in 1..n |-> U[i]]
        OBVIOUS
      <4>5. Text(sep) \in X
        BY GlueShown
      <4> HIDE DEF U, n, sep, X
      <4>6. Joined(U, sep) \in Seq(X)
        BY <4>1, <4>3, <4>4, <4>5, JoinedTyped
      <4>7. <<Text("(")>> \o Joined(U, sep) \o <<Text(")")>> \in Seq(X)
        BY <4>6, Parenthesised DEF X
      <4> QED
        BY <4>2, <4>7
    <3> QED
      BY <3>2, <3>3, <3>4, TreeFields
  <2> QED
    BY <2>1, <2>2
<1> HIDE DEF D
<1>3. \A d \in 0..MaxDepth : d \in D
  BY <1>0, <1>1, <1>2, LoopInduction
<1> QED
  BY <1>3 DEF D

LEMMA TreeShown ==
  ASSUME NEW s, NEW t, NEW c, InCall(s, t, c), NEW i \in 1..Len(t), t[i].kind = "tree"
  PROVE  ItemShown(s, t, c, i)
<1> DEFINE it == t[i]
           V == Verified(s, t)
           X == Visible(V)
<1>0. t \in Templates /\ c \in Calls(t) /\ s \in Styles
  BY DEF InCall
<1>1. ItemText(s, t, i, c) = IF c.tree = NoTree THEN <<Text("TRUE")>> ELSE TreeText(it.preds, c.tree)
  BY DEF ItemText
<1>2. PICK m : m = Blocks(t, "tree")
  OBVIOUS
<1>3. Nth(t, i) \in 1..m
  BY <1>0, <1>2, NthItem
<1>4. Text("TRUE") \in X
  <2>1. PICK v : Tested(s, t, v) /\ At(v.trees, Nth(t, i), 1) = 0
    BY <1>0, <1>2, <1>3, TrueTested
  <2>2. PieceItem(s, t, v, i) = TreePieces(it, At(v.trees, Nth(t, i), 1))
    BY DEF PieceItem
  <2>3. PieceItem(s, t, v, i) = <<Text("TRUE")>>
    BY <2>1, <2>2 DEF TreePieces
  <2>4. <<Text("TRUE")>> \in Seq(X)
    BY <1>0, <2>1, <2>3, PieceVerified
  <2> HIDE DEF X
  <2> QED
    BY <2>4, OneMember, MemberIn
<1>5. it \in TreeItem
  BY <1>0, TemplateFacts, ItemKinds
<1>6. it.preds \in Seq(Body)
  BY <1>5 DEF TreeItem
<1>7. Parts(it.preds, Piece)
  BY <1>6, BodiesParts
<1>8. TreePieces(it, 1) \in Seq(X)
  BY <1>0, MaximalAt
<1>9. PICK w : w = TreePieces(it, 1)
  OBVIOUS
<1>10. Text("(") \in Piece /\ Text(")") \in Piece /\ Text(" AND ") \in Piece /\ Text("TRUE") \in Piece
  BY LitWords, WordPiece
<1> HIDE DEF it, X
<1>11. /\ Text("(") \in ToSet(w) /\ Text(")") \in ToSet(w)
       /\ \A k \in 1..Len(it.preds) : \A x \in ToSet(it.preds[k]) : x \in ToSet(w)
  <2>1. 1 # 0
    OBVIOUS
  <2> QED
    BY <1>7, <1>9, <1>10, <2>1, TreePiecesIn
<1>12. w \in Seq(X)
  BY <1>8, <1>9
<1>13. Text("(") \in X /\ Text(")") \in X
  BY <1>11, <1>12, MemberIn
<1>14. Text("(") \in Shown(V) /\ Text(")") \in Shown(V) /\ Text("TRUE") \in Shown(V)
  BY <1>4, <1>13, LitWords, WordShown DEF X
<1>15. Parts(it.preds, X)
  <2>1. PICK u : u = it.preds
    OBVIOUS
  <2>2. PICK n \in Nat : /\ n = Len(u) /\ u = [k \in 1..n |-> u[k]] /\ \A k \in 1..n : u[k] \in Seq(Piece)
    BY <1>7, <2>1, PartsAt, Zenon
  <2>3. ASSUME NEW k \in 1..n PROVE u[k] \in Seq(X)
    <3>1. \A x \in ToSet(u[k]) : x \in ToSet(w)
      BY <1>11, <2>1, <2>2
    <3> QED
      BY <1>12, <2>2, <3>1, MembersIn
  <2>4. Parts(u, X)
    BY <2>2, <2>3, PartsOf
  <2> QED
    BY <2>1, <2>4
<1>16. CASE c.tree = NoTree
  <2>1. <<Text("TRUE")>> \in Seq(Shown(V))
    BY <1>14, OneSeq
  <2> QED
    BY <1>1, <1>16, <2>1 DEF ItemShown
<1>17. CASE c.tree # NoTree
  <2>1. c.tree \in Trees
    BY <1>0, <1>17, CallFields
  <2>2. PICK preds : preds = it.preds
    OBVIOUS
  <2>3. PICK T : IsText(T, preds, MaxDepth) /\ TreeText(preds, c.tree) = T[MaxDepth][c.tree]
    BY TextLevels
  <2>4. preds \in Seq(Body) /\ Parts(preds, Visible(V))
    BY <1>6, <1>15, <2>2 DEF X
  <2>5. MaxDepth \in 0..MaxDepth
    BY TreeAssumption
  <2>6. T[MaxDepth][c.tree] \in Seq(Shown(V))
    <3> HIDE DEF V
    <3> QED
      BY <1>14, <2>1, <2>3, <2>4, <2>5, LevelsShown
  <2> QED
    BY <1>1, <1>17, <2>2, <2>3, <2>6 DEF ItemShown
<1> QED
  BY <1>16, <1>17

LEMMA ItemsShown ==
  ASSUME NEW s, NEW t, NEW c, InCall(s, t, c), NEW i \in 1..Len(t)
  PROVE  ItemShown(s, t, c, i)
<1>1. t \in Templates /\ s \in Styles
  BY DEF InCall
<1>2. t[i].kind \in Kinds
  BY <1>1, TemplateFacts, ItemKinds
<1> QED
  BY <1>1, <1>2, SkeletonShown, GuardedShown, ChooseShown, OrderShown, InShown, TreeShown DEF Kinds

\* Whatever a call asks for is made of texts that were verified, and glue.
LEMMA IntendedShown ==
  ASSUME NEW s, NEW t, NEW c, InCall(s, t, c)
  PROVE  Intended(s, t, c) \in Seq(Shown(Verified(s, t)))
<1> DEFINE T == [i \in DOMAIN t |-> ItemText(s, t, i, c)]
           X == Shown(Verified(s, t))
<1>1. Len(t) \in Nat /\ DOMAIN t = 1..Len(t)
  BY TemplateFacts DEF InCall
<1>2. ASSUME NEW i \in 1..Len(t) PROVE T[i] \in Seq(X)
  BY <1>1, ItemsShown DEF ItemShown
<1>3. T = [i \in 1..Len(t) |-> T[i]]
  BY <1>1
<1>4. Intended(s, t, c) = FlattenSeq(T)
  BY DEF Intended
<1> HIDE DEF T, X
<1>5. T \in Seq(Seq(X))
  BY <1>1, <1>2, <1>3
<1> QED
  BY <1>4, <1>5, FlattenMembers DEF X

\* A text that is shown was verified, or is glue.
LEMMA TextShown ==
  ASSUME NEW V, NEW x \in Shown(V), x \in Word
  PROVE  x \in V \/ x.text \in Glue
<1>1. ASSUME NEW v, x = [val |-> v] PROVE FALSE
  <2>1. DOMAIN x = {"val"}
    BY <1>1
  <2> QED
    BY <2>1, WordFields
<1>2. x \notin Vals
  BY <1>1 DEF Vals
<1> QED
  BY <1>2 DEF Shown

LEMMA TextsVerified ==
  ASSUME NEW s, NEW t, NEW c, IsComposed(s, t, c), NEW stmt, stmt = Statement(s, t, ShapeKey(s, t, c), c),
         NEW tok \in ToSet(stmt.sql), "text" \in DOMAIN tok
  PROVE  tok \in Verified(s, t) \/ tok.text \in Glue
<1>1. PICK w, co : Laid(s, w, Len(w), co) /\ stmt.sql = co.b
  BY StatementLaid
<1>2. PICK sql \in Seq(Out) : sql = stmt.sql
  BY <1>1 DEF Laid
<1>3. PICK i \in 1..Len(sql) : tok = sql[i]
  BY <1>2, SeqMembers
<1>4. tok \in Out
  BY <1>2, <1>3, ElementIn
<1>5. tok \in Word
  <2>1. tok \notin [ph : Nat]
    OBVIOUS
  <2> QED
    BY <1>4, <2>1 DEF Out
<1>6. "ph" \notin DOMAIN tok
  BY <1>5, WordFields
<1>7. i \in DOMAIN sql
  BY <1>2, <1>3, SeqDomain
<1>8. PICK x : x = Executed(stmt)
  OBVIOUS
<1>9. DOMAIN x = DOMAIN sql /\ x[i] = tok
  BY <1>2, <1>3, <1>6, <1>7, <1>8 DEF Executed
<1>10. x \in Seq(Shown(Verified(s, t)))
  BY <1>8, StatementMeans, IntendedShown DEF IsComposed
<1>11. i \in 1..Len(x)
  BY <1>7, <1>9, <1>10, SeqDomain
<1>12. tok \in Shown(Verified(s, t))
  BY <1>9, <1>10, <1>11, ElementIn
<1> QED
  BY <1>5, <1>12, TextShown

\* What the driver is handed was verified: for every template that
\* CheckLexical accepts and every call the preamble lets through, a shape that
\* render.go can also produce (lists of at most one element, and no tree or an
\* empty one) is composed by runtime.go with the renderer's text, placeholder
\* for placeholder, and the renderer's parameters; and in every other shape,
\* each text but the separators between elements stands in a rendering that
\* was parsed and described.
THEOREM ComposedIsVerified == Spec => []Conforms
<1>1. Stages => Conforms
  <2> SUFFICES ASSUME Stages, pc = "sent" PROVE Conforms
    BY DEF Conforms
  <2>1. /\ IsComposed(style, q, call) /\ Accepted(q)
        /\ sent = Statement(style, q, ShapeKey(style, q, call), call)
    BY SentIsComposed
  <2>2. key = ShapeKey(style, q, call) /\ OneTree(q)
    BY <2>1 DEF Stages, Accepted
  <2>3. PICK P : P = Pieces(style, q, key.guards, key.choices, key.orders, key.arities, << 0 >>)
    OBVIOUS
  <2>4. PICK r : r = Render(style, P)
    OBVIOUS
  <2>5. ASSUME call.tree \in {NoTree, Unscoped}, \A i \in DOMAIN key.arities : key.arities[i] <= 1
        PROVE  sent.sql = r.sql /\ [i \in DOMAIN sent.args |-> sent.args[i][1]] = r.params
    <3>1. sent = Statement(style, q, key, call)
      BY <2>1, <2>2
    <3> QED
      BY <2>1, <2>2, <2>3, <2>4, <2>5, <3>1, SentAsRendered
  <2>6. ASSUME NEW tok \in ToSet(sent.sql), "text" \in DOMAIN tok
        PROVE  tok \in Verified(style, q) \/ tok.text \in Glue
    BY <2>1, <2>6, TextsVerified
  <2> QED
    BY <2>3, <2>4, <2>5, <2>6, Zenon DEF Conforms, Verified
<1> QED
  BY <1>1, SpecStages, PTL
=============================================================================
