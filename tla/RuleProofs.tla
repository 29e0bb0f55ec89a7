----------------------------- MODULE RuleProofs -----------------------------
(***************************************************************************)
(* What the structural rules accept holds in every shape.  For literals,   *)
(* the validator, the decoder and the database are three loops over the    *)
(* same characters, kept in step (InStep).  For types, a case taken alone  *)
(* leaves the rest of the maximal rendering as it is, so the columns of    *)
(* that one case must be those of the first (FlattenCancel), and whatever  *)
(* a shape binds some verified rendering binds (ShapeBindsSeen).           *)
(***************************************************************************)
EXTENDS InputRules, Sums, SequenceTheorems

-----------------------------------------------------------------------------
(* Literals.                                                               *)

Scanning == {"plain", "half", "refused"}
Replacing == [last : STRING \cup {"none"}, value : Seq(STRING)]
Reading == [mode : {"in", "closed", "escape", "beyond"}, value : Seq(STRING)]
ReplaceTop == [last |-> "none", value |-> <<>>]
ReadTop == [mode |-> "in", value |-> <<>>]

\* The functions behind PairedQuotes, unquoteSQLString and SQLString.
IsScan(g, in) == g = [n \in 0..Len(in) |-> IF n = 0 THEN "plain" ELSE QuoteStep(g[n - 1], in[n])]
IsReplace(g, in) == g = [n \in 0..Len(in) |-> IF n = 0 THEN ReplaceTop ELSE UnpairStep(g[n - 1], in[n])]
IsRead(g, escapes, in) ==
    g = [n \in 0..Len(in) |-> IF n = 0 THEN ReadTop ELSE DecodeStep(escapes, g[n - 1], in[n])]

\* One character keeps the types of the three loops.
LEMMA CharTypes ==
    ASSUME NEW c \in STRING, NEW escapes \in BOOLEAN
    PROVE  /\ \A x \in Scanning : QuoteStep(x, c) \in Scanning
           /\ \A x \in Replacing : UnpairStep(x, c) \in Replacing
           /\ \A x \in Reading : DecodeStep(escapes, x, c) \in Reading
<1>1. ASSUME NEW x \in Scanning PROVE QuoteStep(x, c) \in Scanning
  BY DEF Scanning, QuoteStep
<1>2. ASSUME NEW x \in Replacing PROVE UnpairStep(x, c) \in Replacing
  <2>1. x.value \in Seq(STRING) /\ Append(x.value, c) \in Seq(STRING)
    BY DEF Replacing
  <2> QED
    BY <2>1 DEF Replacing, UnpairStep
<1>3. ASSUME NEW x \in Reading PROVE DecodeStep(escapes, x, c) \in Reading
  <2>1. x.value \in Seq(STRING) /\ Append(x.value, c) \in Seq(STRING)
    BY DEF Reading
  <2>2. x.mode \in {"in", "closed", "escape", "beyond"}
    BY DEF Reading
  <2>3. \A m \in {"in", "closed", "escape", "beyond"}, v \in Seq(STRING) : [mode |-> m, value |-> v] \in Reading
    BY DEF Reading
  <2>4. CASE x.mode = "in"
    BY <2>1, <2>3, <2>4 DEF DecodeStep
  <2>5. CASE x.mode = "closed"
    BY <2>1, <2>3, <2>5 DEF DecodeStep
  <2>6. CASE x.mode = "escape"
    BY <2>1, <2>3, <2>6 DEF DecodeStep
  <2>7. CASE x.mode = "beyond"
    BY <2>1, <2>3, <2>7 DEF DecodeStep
  <2> QED
    BY <2>2, <2>4, <2>5, <2>6, <2>7
<1> QED
  BY <1>1, <1>2, <1>3

\* Each of the three loops is a function of the characters read.
LEMMA ScanRuns ==
    ASSUME NEW in \in Seq(STRING)
    PROVE  \E g : IsScan(g, in)
<1> DEFINE N == Len(in)
           round == [i \in 1..N |-> [x \in Scanning |-> QuoteStep(x, in[i])]]
<1>1. N \in Nat /\ \A i \in 1..N : in[i] \in STRING
  OBVIOUS
<1>2. round \in [1..N -> [Scanning -> Scanning]]
  BY <1>1, CharTypes
<1>3. \A i \in 1..N : \A x \in Scanning : round[i][x] = QuoteStep(x, in[i])
  OBVIOUS
<1> HIDE DEF round
<1>4. "plain" \in Scanning
  BY DEF Scanning
<1>5. PICK f \in [0..N -> Scanning] : Runs(f, N, "plain", round)
  BY <1>1, <1>2, <1>4, LoopRuns
<1>6. \A i \in 1..N : i - 1 \in 0..N /\ f[i - 1] \in Scanning /\ f[i] = round[i][f[i - 1]]
  BY <1>1, <1>5 DEF Runs
<1>7. \A i \in 0..N : f[i] = IF i = 0 THEN "plain" ELSE QuoteStep(f[i - 1], in[i])
  BY <1>1, <1>3, <1>5, <1>6 DEF Runs
<1> QED
  BY <1>7 DEF IsScan
LEMMA ReplaceRuns ==
    ASSUME NEW in \in Seq(STRING)
    PROVE  \E g : IsReplace(g, in)
<1> DEFINE N == Len(in)
           round == [i \in 1..N |-> [x \in Replacing |-> UnpairStep(x, in[i])]]
<1>1. N \in Nat /\ \A i \in 1..N : in[i] \in STRING
  OBVIOUS
<1>2. round \in [1..N -> [Replacing -> Replacing]]
  BY <1>1, CharTypes
<1>3. \A i \in 1..N : \A x \in Replacing : round[i][x] = UnpairStep(x, in[i])
  OBVIOUS
<1> HIDE DEF round
<1>4. ReplaceTop \in Replacing
  BY DEF Replacing, ReplaceTop
<1>5. PICK f \in [0..N -> Replacing] : Runs(f, N, ReplaceTop, round)
  BY <1>1, <1>2, <1>4, LoopRuns
<1>6. \A i \in 1..N : i - 1 \in 0..N /\ f[i - 1] \in Replacing /\ f[i] = round[i][f[i - 1]]
  BY <1>1, <1>5 DEF Runs
<1>7. \A i \in 0..N : f[i] = IF i = 0 THEN ReplaceTop ELSE UnpairStep(f[i - 1], in[i])
  BY <1>1, <1>3, <1>5, <1>6 DEF Runs
<1> QED
  BY <1>7 DEF IsReplace
LEMMA ReadRuns ==
    ASSUME NEW in \in Seq(STRING), NEW escapes \in BOOLEAN
    PROVE  \E g : IsRead(g, escapes, in)
<1> DEFINE N == Len(in)
           round == [i \in 1..N |-> [x \in Reading |-> DecodeStep(escapes, x, in[i])]]
<1>1. N \in Nat /\ \A i \in 1..N : in[i] \in STRING
  OBVIOUS
<1>2. round \in [1..N -> [Reading -> Reading]]
  BY <1>1, CharTypes
<1>3. \A i \in 1..N : \A x \in Reading : round[i][x] = DecodeStep(escapes, x, in[i])
  OBVIOUS
<1> HIDE DEF round
<1>4. ReadTop \in Reading
  BY DEF Reading, ReadTop
<1>5. PICK f \in [0..N -> Reading] : Runs(f, N, ReadTop, round)
  BY <1>1, <1>2, <1>4, LoopRuns
<1>6. \A i \in 1..N : i - 1 \in 0..N /\ f[i - 1] \in Reading /\ f[i] = round[i][f[i - 1]]
  BY <1>1, <1>5 DEF Runs
<1>7. \A i \in 0..N : f[i] = IF i = 0 THEN ReadTop ELSE DecodeStep(escapes, f[i - 1], in[i])
  BY <1>1, <1>3, <1>5, <1>6 DEF Runs
<1> QED
  BY <1>7 DEF IsRead

\* The three loops in step, after n characters of the literal: what the
\* validator let through the decoder and the database read alike.
InStep(scan, replace, read, n) ==
    /\ scan[n] \in Scanning
    /\ scan[n] = "plain" =>
          /\ read[n] = [mode |-> "in", value |-> replace[n].value]
          /\ replace[n].last # "q"
    /\ scan[n] = "half" =>
          /\ read[n].mode = "closed" /\ replace[n].value = Append(read[n].value, "q")
          /\ replace[n].last = "q"

\* One more character.
LEMMA StepTogether ==
    ASSUME NEW in \in Seq(STRING), NEW escapes \in BOOLEAN, NEW n \in 1..Len(in), NEW scan, NEW replace, NEW read,
           InStep(scan, replace, read, n - 1),
           scan[n] = QuoteStep(scan[n - 1], in[n]), replace[n] = UnpairStep(replace[n - 1], in[n]),
           read[n] = DecodeStep(escapes, read[n - 1], in[n])
    PROVE  InStep(scan, replace, read, n)
<1>1. in[n] \in STRING
  OBVIOUS
<1>2. scan[n - 1] \in Scanning /\ scan[n] \in Scanning
  BY <1>1, CharTypes DEF InStep
<1>3. CASE scan[n - 1] = "plain"
  <2> DEFINE v == replace[n - 1].value
  <2>1. replace[n - 1].last # "q" /\ read[n - 1] = [mode |-> "in", value |-> v]
    BY <1>3 DEF InStep
  <2>2. read[n - 1].mode = "in" /\ read[n - 1].value = v
    BY <2>1
  <2>3. replace[n] = [last |-> in[n], value |-> Append(v, in[n])]
    BY <2>1 DEF UnpairStep
  <2> HIDE DEF v
  <2>4. CASE in[n] = "q"
    <3>1. scan[n] = "half"
      BY <1>3, <2>4 DEF QuoteStep
    <3>2. read[n] = [mode |-> "closed", value |-> v]
      BY <2>2, <2>4 DEF DecodeStep
    <3> QED
      BY <1>2, <2>3, <2>4, <3>1, <3>2 DEF InStep
  <2>5. CASE in[n] # "q" /\ in[n] # "b"
    <3>1. scan[n] = "plain"
      BY <1>3, <2>5 DEF QuoteStep
    <3>2. read[n] = [mode |-> "in", value |-> Append(v, in[n])]
      BY <2>2, <2>5 DEF DecodeStep
    <3> QED
      BY <1>2, <2>3, <2>5, <3>1, <3>2 DEF InStep
  <2>6. CASE in[n] = "b"
    <3>1. scan[n] = "refused"
      BY <1>3, <2>6 DEF QuoteStep
    <3> QED
      BY <1>2, <3>1 DEF InStep
  <2> QED
    BY <2>4, <2>5, <2>6
<1>4. CASE scan[n - 1] = "half"
  <2>1. read[n - 1].mode = "closed" /\ replace[n - 1].value = Append(read[n - 1].value, "q") /\ replace[n - 1].last = "q"
    BY <1>4 DEF InStep
  <2>2. CASE in[n] = "q"
    <3>1. scan[n] = "plain"
      BY <1>4, <2>2 DEF QuoteStep
    <3>2. replace[n] = [last |-> "none", value |-> replace[n - 1].value]
      BY <2>1, <2>2 DEF UnpairStep
    <3>3. read[n] = [mode |-> "in", value |-> Append(read[n - 1].value, "q")]
      BY <2>1, <2>2 DEF DecodeStep
    <3>4. replace[n].last # "q" /\ replace[n].value = Append(read[n - 1].value, "q")
      BY <2>1, <3>2
    <3> QED
      BY <1>2, <3>1, <3>3, <3>4 DEF InStep
  <2>3. CASE in[n] # "q"
    <3>1. scan[n] = "refused"
      BY <1>4, <2>3 DEF QuoteStep
    <3> QED
      BY <1>2, <3>1 DEF InStep
  <2> QED
    BY <2>2, <2>3
<1>5. CASE scan[n - 1] = "refused"
  <2>1. scan[n] = "refused"
    BY <1>5 DEF QuoteStep
  <2> QED
    BY <1>2, <2>1 DEF InStep
<1> QED
  BY <1>2, <1>3, <1>4, <1>5 DEF Scanning

\* A plain literal is one string to every dialect, of the value Go compares
\* with.
LEMMA PlainStrings ==
    ASSUME NEW s \in Seq(STRING), isPlainSQLString(s), NEW d
    PROVE  SQLString(d, s) = [mode |-> "closed", value |-> unquoteSQLString(s)]
<1> DEFINE in == Inner(s)
           rest == Tail(s)
           N == Len(in)
           escapes == d = "mysql"
<1>1. /\ in \in Seq(STRING) /\ rest \in Seq(STRING) /\ N \in Nat /\ Len(rest) = N + 1
      /\ rest[N + 1] = "q" /\ \A i \in 1..N : rest[i] = in[i]
  <2>1. Len(s) \in Nat /\ Len(s) >= 2 /\ s[Len(s)] = "q"
    BY DEF isPlainSQLString
  <2>2. in \in Seq(STRING) /\ N = Len(s) - 2 /\ \A i \in 1..N : in[i] = s[i + 1]
    <3>1. 2 \in 1..(Len(s) + 1) /\ Len(s) - 1 \in 1..Len(s)
      BY <2>1
    <3>2. /\ SubSeq(s, 2, Len(s) - 1) \in Seq(STRING)
          /\ Len(SubSeq(s, 2, Len(s) - 1)) = IF 2 <= Len(s) - 1 THEN (Len(s) - 1) - 2 + 1 ELSE 0
          /\ \A i \in 1..((Len(s) - 1) - 2 + 1) : SubSeq(s, 2, Len(s) - 1)[i] = s[2 + i - 1]
      BY <3>1, SubSeqProperties
    <3>3. N = Len(s) - 2
      <4>1. N = IF 2 <= Len(s) - 1 THEN (Len(s) - 1) - 2 + 1 ELSE 0
        BY <3>2, Zenon DEF Inner
      <4>2. \A m \in Nat : m >= 2 => (IF 2 <= m - 1 THEN (m - 1) - 2 + 1 ELSE 0) = m - 2
        OBVIOUS
      <4> QED
        BY <2>1, <4>1, <4>2, Zenon
    <3>4. \A i \in 1..N : in[i] = s[2 + i - 1]
      BY <2>1, <3>2, <3>3 DEF Inner
    <3>5. in \in Seq(STRING)
      BY <3>2 DEF Inner
    <3>6. \A i \in 1..N : 2 + i - 1 = i + 1
      BY <2>1, <3>3
    <3> QED
      BY <3>3, <3>4, <3>5, <3>6
  <2>3. rest \in Seq(STRING) /\ Len(rest) = Len(s) - 1 /\ \A i \in 1..Len(rest) : rest[i] = s[i + 1]
    BY <2>1
  <2> QED
    BY <2>1, <2>2, <2>3
<1>2. escapes \in BOOLEAN /\ PairedQuotes(in)
  BY DEF isPlainSQLString
<1> DEFINE scan == CHOOSE g : IsScan(g, in)
           replace == CHOOSE g : IsReplace(g, in)
           read == CHOOSE g : IsRead(g, escapes, rest)
<1>3. scan[N] = "plain"
  BY <1>2 DEF PairedQuotes, IsScan
<1>4. unquoteSQLString(s) = replace[N].value
  BY DEF unquoteSQLString, IsReplace, ReplaceTop
<1>5. SQLString(d, s) = read[Len(rest)]
  BY DEF SQLString, IsRead, ReadTop
<1>6. IsScan(scan, in) /\ IsReplace(replace, in)
  BY <1>1, ScanRuns, ReplaceRuns
<1>7. IsRead(read, escapes, rest)
  BY <1>1, <1>2, ReadRuns
<1> HIDE DEF scan, replace, read, in, rest, escapes
<1>8. /\ \A i \in 0..N : scan[i] = IF i = 0 THEN "plain" ELSE QuoteStep(scan[i - 1], in[i])
      /\ \A i \in 0..N : replace[i] = IF i = 0 THEN ReplaceTop ELSE UnpairStep(replace[i - 1], in[i])
  BY <1>6 DEF IsScan, IsReplace
<1>9. \A i \in 0..(N + 1) : read[i] = IF i = 0 THEN ReadTop ELSE DecodeStep(escapes, read[i - 1], rest[i])
  BY <1>1, <1>7 DEF IsRead
<1> DEFINE D == {i \in 0..N : InStep(scan, replace, read, i)}
<1>10. 0 \in D
  <2>1. scan[0] = "plain" /\ replace[0] = ReplaceTop /\ read[0] = ReadTop
    BY <1>1, <1>8, <1>9
  <2>2. ReplaceTop.last # "q" /\ ReplaceTop.value = <<>>
    BY DEF ReplaceTop
  <2>3. InStep(scan, replace, read, 0)
    BY <2>1, <2>2 DEF InStep, Scanning, ReadTop
  <2> QED
    BY <1>1, <2>3
<1>11. ASSUME NEW i \in 1..N, i - 1 \in D PROVE i \in D
  <2>1. i \in 0..N /\ i \in 0..(N + 1) /\ i # 0 /\ rest[i] = in[i] /\ i \in 1..Len(in)
    BY <1>1
  <2>2. /\ scan[i] = QuoteStep(scan[i - 1], in[i]) /\ replace[i] = UnpairStep(replace[i - 1], in[i])
        /\ read[i] = DecodeStep(escapes, read[i - 1], in[i])
    BY <1>8, <1>9, <2>1
  <2>3. InStep(scan, replace, read, i)
    BY <1>1, <1>2, <1>11, <2>1, <2>2, StepTogether
  <2> QED
    BY <2>1, <2>3
<1>12. InStep(scan, replace, read, N)
  <2> HIDE DEF D, N
  <2>1. \A i \in 0..N : i \in D
    BY <1>1, <1>10, <1>11, LoopInduction
  <2> QED
    BY <1>1, <2>1 DEF D
<1>13. read[N] = [mode |-> "in", value |-> replace[N].value]
  BY <1>3, <1>12 DEF InStep
<1>14. read[N + 1] = DecodeStep(escapes, read[N], "q")
  <2>1. N + 1 \in 0..(N + 1) /\ N + 1 # 0 /\ (N + 1) - 1 = N
    BY <1>1
  <2> QED
    BY <1>1, <1>9, <2>1
<1>15. read[N + 1] = [mode |-> "closed", value |-> replace[N].value]
  BY <1>13, <1>14 DEF DecodeStep
<1> QED
  BY <1>1, <1>4, <1>5, <1>15

-----------------------------------------------------------------------------
(* Types.                                                                  *)

WellFormedQuery(q) == q \in Seq(ItemType) /\ \A i \in DOMAIN q : ItemWellFormed(q[i])
\* p takes one of the alternatives of each item, or none.
Takes(q, p) == \A i \in 1..Len(q) : p[i] \in 0..Len(q[i].alts)

ColumnParts(q, p) == [n \in DOMAIN Chosen(q, p) |-> Chosen(q, p)[n].cols]
BindParts(q, p) == [n \in DOMAIN Chosen(q, p) |-> Chosen(q, p)[n].params]

\* An item of a query, its alternatives and what they hold.
LEMMA ItemFacts ==
    ASSUME NEW q, WellFormedQuery(q), NEW i \in 1..Len(q)
    PROVE  /\ DOMAIN q = 1..Len(q) /\ Len(q) \in Nat
           /\ q[i].kind \in {"text", "guarded", "choose"} /\ q[i].alts \in Seq(AlternativeType)
           /\ Len(q[i].alts) \in 1..MaxCases
           /\ q[i].kind # "choose" => Len(q[i].alts) = 1
           /\ q[i].kind = "guarded" => q[i].alts[1].cols = <<>>
           /\ \A n \in 1..Len(q[i].alts) : q[i].alts[n].cols \in Seq(PairType) /\ q[i].alts[n].params \in Seq(PairType)
<1>1. q[i] \in ItemType /\ ItemWellFormed(q[i]) /\ DOMAIN q = 1..Len(q) /\ Len(q) \in Nat
  BY DEF WellFormedQuery
<1>2. q[i].kind \in {"text", "guarded", "choose"} /\ q[i].alts \in Seq(AlternativeType)
  BY <1>1 DEF ItemType
<1>3. ASSUME NEW n \in 1..Len(q[i].alts)
      PROVE  q[i].alts[n].cols \in Seq(PairType) /\ q[i].alts[n].params \in Seq(PairType)
  <2>1. q[i].alts[n] \in AlternativeType
    BY <1>2, ElementIn
  <2> QED
    BY <2>1 DEF AlternativeType
<1> QED
  BY <1>1, <1>2, <1>3 DEF ItemWellFormed

\* The parts a pick puts together.
LEMMA PartFacts ==
    ASSUME NEW q, WellFormedQuery(q), NEW p, Takes(q, p)
    PROVE  /\ ColumnParts(q, p) \in Seq(Seq(PairType)) /\ Len(ColumnParts(q, p)) = Len(q)
           /\ BindParts(q, p) \in Seq(Seq(PairType)) /\ Len(BindParts(q, p)) = Len(q)
           /\ \A i \in 1..Len(q) :
                 /\ ColumnParts(q, p)[i] = IF p[i] = 0 THEN <<>> ELSE q[i].alts[p[i]].cols
                 /\ BindParts(q, p)[i] = IF p[i] = 0 THEN <<>> ELSE q[i].alts[p[i]].params
<1>1. DOMAIN q = 1..Len(q) /\ Len(q) \in Nat
  BY DEF WellFormedQuery
<1>2. DOMAIN Chosen(q, p) = 1..Len(q)
  BY <1>1 DEF Chosen
<1>3. DOMAIN ColumnParts(q, p) = 1..Len(q) /\ DOMAIN BindParts(q, p) = 1..Len(q)
  BY <1>2 DEF ColumnParts, BindParts
<1>4. ASSUME NEW i \in 1..Len(q)
      PROVE  /\ ColumnParts(q, p)[i] = IF p[i] = 0 THEN <<>> ELSE q[i].alts[p[i]].cols
             /\ BindParts(q, p)[i] = IF p[i] = 0 THEN <<>> ELSE q[i].alts[p[i]].params
  <2>1. Chosen(q, p)[i] = IF p[i] = 0 THEN Absent ELSE q[i].alts[p[i]]
    BY <1>1 DEF Chosen
  <2>2. ColumnParts(q, p)[i] = Chosen(q, p)[i].cols /\ BindParts(q, p)[i] = Chosen(q, p)[i].params
    BY <1>2 DEF ColumnParts, BindParts
  <2>3. Absent.cols = <<>> /\ Absent.params = <<>>
    BY DEF Absent
  <2> QED
    BY <2>1, <2>2, <2>3
<1>5. ASSUME NEW i \in 1..Len(q)
      PROVE  ColumnParts(q, p)[i] \in Seq(PairType) /\ BindParts(q, p)[i] \in Seq(PairType)
  <2>1. CASE p[i] = 0
    <3>1. <<>> \in Seq(PairType)
      OBVIOUS
    <3> QED
      BY <1>4, <2>1, <3>1
  <2>2. CASE p[i] # 0
    <3>1. p[i] \in 1..Len(q[i].alts)
      BY <2>2, ItemFacts DEF Takes
    <3> QED
      BY <1>4, <2>2, <3>1, ItemFacts
  <2> QED
    BY <2>1, <2>2
<1> DEFINE Y == Seq(PairType)
<1>6. ColumnParts(q, p) \in [1..Len(q) -> Y] /\ BindParts(q, p) \in [1..Len(q) -> Y]
  <2>1. ColumnParts(q, p) = [i \in 1..Len(q) |-> ColumnParts(q, p)[i]] /\ BindParts(q, p) = [i \in 1..Len(q) |-> BindParts(q, p)[i]]
    BY <1>2 DEF ColumnParts, BindParts
  <2> QED
    BY <1>5, <2>1
<1>7. ColumnParts(q, p) \in Seq(Y) /\ BindParts(q, p) \in Seq(Y)
  <2> HIDE DEF Y
  <2> QED
    BY <1>1, <1>6, IsASeq
<1>8. Len(ColumnParts(q, p)) = Len(q) /\ Len(BindParts(q, p)) = Len(q)
  <2> HIDE DEF Y
  <2> QED
    BY <1>1, <1>3, <1>7, LenProperties
<1> QED
  BY <1>4, <1>7, <1>8

\* What a pick binds one of its alternatives binds.
LEMMA BindsFrom ==
    ASSUME NEW q, WellFormedQuery(q), NEW p, Takes(q, p)
    PROVE  /\ BindsOf(Chosen(q, p)) \in Seq(PairType)
           /\ \A b : b \in ToSet(BindsOf(Chosen(q, p))) <=>
                  \E i \in 1..Len(q) : p[i] # 0 /\ b \in ToSet(q[i].alts[p[i]].params)
<1>1. BindsOf(Chosen(q, p)) = FlattenSeq(BindParts(q, p))
  BY DEF BindsOf, BindParts
<1>2. BindParts(q, p) \in Seq(Seq(PairType)) /\ Len(BindParts(q, p)) = Len(q)
  BY PartFacts
<1>3. /\ FlattenSeq(BindParts(q, p)) \in Seq(PairType)
      /\ \A b : b \in ToSet(FlattenSeq(BindParts(q, p))) <=> \E i \in 1..Len(q) : b \in ToSet(BindParts(q, p)[i])
  BY <1>2, FlattenMembers
<1>4. \A i \in 1..Len(q) : \A b : b \in ToSet(BindParts(q, p)[i]) <=> p[i] # 0 /\ b \in ToSet(q[i].alts[p[i]].params)
  <2>1. ToSet(<<>>) = {}
    BY DEF ToSet
  <2> QED
    BY <2>1, PartFacts
<1> QED
  BY <1>1, <1>3, <1>4, Zenon

\* A use that was not refused has the type of the first use of its name.
LEMMA FirstUseSpeaks ==
    ASSUME NEW style \in {"dollar", "question"}, NEW binds \in Seq(PairType), ~Refused(style, binds),
           NEW b \in ToSet(binds)
    PROVE  \E e \in Described(style, binds) : e[1] = b[1] /\ e[2] = b[2]
<1>1. PICK n \in 1..Len(binds) : b = binds[n]
  BY SeqMembers
<1>2. DOMAIN binds = 1..Len(binds) /\ Len(binds) \in Nat
  OBVIOUS
<1>3. CASE style = "question"
  BY <1>1, <1>2, <1>3 DEF Described
<1>4. CASE style = "dollar"
  <2> DEFINE S == {k \in 1..Len(binds) : binds[k][1] = b[1]}
  <2>1. n \in S /\ S \subseteq Nat
    BY <1>1
  <2>2. PICK m \in S : \A k \in S : m <= k
    <3> HIDE DEF S
    <3> QED
      BY <2>1, LeastNatural
  <2>3. FirstUse(binds, m)
    <3> SUFFICES ASSUME NEW k \in 1..(m - 1), binds[k][1] = binds[m][1] PROVE FALSE
      BY DEF FirstUse
    <3>1. k \in S /\ ~(m <= k)
      BY <1>2, <2>2
    <3> QED
      BY <2>2, <3>1
  <2>4. binds[m] \in Described(style, binds)
    BY <1>2, <2>2, <2>3 DEF Described
  <2>5. binds[m][2] = b[2]
    BY <1>1, <1>2, <1>4, <2>2 DEF Refused
  <2> QED
    BY <2>2, <2>4, <2>5
<1> QED
  BY <1>3, <1>4

\* The verified renderings and the shapes are picks; whatever alternative a
\* shape takes, some verified rendering takes it too.
LEMMA PickFacts ==
    ASSUME NEW q, WellFormedQuery(q)
    PROVE  /\ MaximalPick(q) \in VerifiedPicks(q)
           /\ \A r \in VerifiedPicks(q) : Takes(q, r)
           /\ \A p \in ShapePicks(q) : Takes(q, p)
           /\ \A p \in ShapePicks(q) : \A i \in 1..Len(q) :
                 p[i] # 0 =>
                    \E r \in VerifiedPicks(q) :
                       r[i] = p[i] /\ \A j \in 1..Len(q) : j # i => r[j] = MaximalPick(q)[j]
<1> DEFINE m == MaximalPick(q)
<1>1. DOMAIN q = 1..Len(q) /\ Len(q) \in Nat
  BY DEF WellFormedQuery
<1>2. m \in VerifiedPicks(q) /\ DOMAIN m = 1..Len(q) /\ \A i \in 1..Len(q) : m[i] = 1
  BY <1>1 DEF VerifiedPicks, MaximalPick
<1>3. \A i \in 1..Len(q) : /\ Len(q[i].alts) \in 1..MaxCases /\ DOMAIN q[i].alts = 1..Len(q[i].alts)
                            /\ q[i].kind \in {"text", "guarded", "choose"} /\ (q[i].kind # "choose" => Len(q[i].alts) = 1)
  <2> TAKE i \in 1..Len(q)
  <2>1. q[i].alts \in Seq(AlternativeType)
    BY ItemFacts
  <2>2. DOMAIN q[i].alts = 1..Len(q[i].alts)
    BY <2>1
  <2> QED
    BY <2>2, ItemFacts
<1>4. Takes(q, m)
  BY <1>2, <1>3, MaxCasesAssumption DEF Takes
<1>5. ASSUME NEW i \in 1..Len(q), NEW o \in 1..Len(q[i].alts)
      PROVE  Takes(q, [m EXCEPT ![i] = o])
  <2>1. \A j \in 1..Len(q) : [m EXCEPT ![i] = o][j] = IF j = i THEN o ELSE m[j]
    BY <1>2
  <2>2. o \in 0..Len(q[i].alts)
    BY <1>3, MaxCasesAssumption
  <2> QED
    BY <1>4, <2>1, <2>2 DEF Takes
<1>6. ASSUME NEW r \in VerifiedPicks(q) PROVE Takes(q, r)
  <2>1. CASE r = m
    BY <1>4, <2>1
  <2>2. CASE r # m
    <3>1. PICK i \in DOMAIN q : r \in CasePicks(q, i)
      BY <1>6, <2>2 DEF VerifiedPicks
    <3>2. PICK o \in DOMAIN q[i].alts : r = [m EXCEPT ![i] = o]
      BY <3>1 DEF CasePicks
    <3> QED
      BY <1>1, <1>3, <1>5, <3>2
  <2> QED
    BY <2>1, <2>2
<1>7. ASSUME NEW p \in ShapePicks(q), NEW i \in 1..Len(q)
      PROVE  /\ p[i] \in 0..Len(q[i].alts)
             /\ p[i] # 0 => \E r \in VerifiedPicks(q) :
                               r[i] = p[i] /\ \A j \in 1..Len(q) : j # i => r[j] = m[j]
  <2>1. p[i] \in 0..MaxCases /\ p[i] <= Len(q[i].alts)
    BY <1>1, <1>7 DEF ShapePicks
  <2>2. p[i] \in 0..Len(q[i].alts)
    BY <1>3, <2>1, MaxCasesAssumption
  <2>3. CASE q[i].kind # "choose"
    <3>1. p[i] = 0 \/ p[i] = m[i]
      <4>1. Len(q[i].alts) = 1 /\ m[i] = 1
        BY <1>2, <1>3, <2>3
      <4> HIDE DEF m
      <4> QED
        BY <2>2, <4>1
    <3>2. p[i] # 0 => \E r \in VerifiedPicks(q) : r[i] = p[i] /\ \A j \in 1..Len(q) : j # i => r[j] = m[j]
      BY <1>2, <3>1, Zenon
    <3> QED
      BY <2>2, <3>2
  <2>4. CASE q[i].kind = "choose" /\ p[i] # 0
    <3> DEFINE r == [m EXCEPT ![i] = p[i]]
    <3>1. p[i] \in DOMAIN q[i].alts
      BY <1>3, <2>2, <2>4, MaxCasesAssumption
    <3>2. r \in VerifiedPicks(q)
      BY <1>1, <2>4, <3>1 DEF VerifiedPicks, CasePicks
    <3>3. r[i] = p[i] /\ \A j \in 1..Len(q) : j # i => r[j] = m[j]
      BY <1>2
    <3> HIDE DEF r
    <3> QED
      BY <2>2, <3>2, <3>3
  <2> QED
    BY <2>2, <2>3, <2>4
<1> QED
  BY <1>2, <1>6, <1>7 DEF Takes

\* Columns: a shape returns those of the maximal rendering.
LEMMA ShapeColumns ==
    ASSUME NEW q, WellFormedQuery(q), NEW p \in ShapePicks(q),
           \A r \in VerifiedPicks(q) : SameColumns(ColumnsOf(Chosen(q, r)), ColumnsOf(Chosen(q, MaximalPick(q))))
    PROVE  ColumnsOf(Chosen(q, p)) = ColumnsOf(Chosen(q, MaximalPick(q)))
<1> DEFINE m == MaximalPick(q)
           Y == Seq(PairType)
<1>1. Len(q) \in Nat /\ DOMAIN q = 1..Len(q) /\ \A i \in 1..Len(q) : m[i] = 1
  BY DEF WellFormedQuery, MaximalPick
<1>2. Takes(q, m) /\ Takes(q, p) /\ m \in VerifiedPicks(q)
  BY PickFacts
<1>3. \A r : ColumnsOf(Chosen(q, r)) = FlattenSeq(ColumnParts(q, r))
  BY DEF ColumnsOf, ColumnParts
<1>4. ASSUME NEW r \in VerifiedPicks(q) PROVE FlattenSeq(ColumnParts(q, r)) = FlattenSeq(ColumnParts(q, m))
  <2> DEFINE a == FlattenSeq(ColumnParts(q, r))
             b == FlattenSeq(ColumnParts(q, m))
  <2>1. ColumnParts(q, r) \in Seq(Seq(PairType)) /\ ColumnParts(q, m) \in Seq(Seq(PairType))
    BY <1>2, PickFacts, PartFacts
  <2>2. a \in Seq(PairType) /\ b \in Seq(PairType)
    BY <2>1, FlattenMembers
  <2>3. SameColumns(a, b)
    BY <1>3
  <2> HIDE DEF a, b
  <2>4. Len(a) = Len(b) /\ \A c \in 1..Len(a) : a[c] = b[c]
    BY <2>2, <2>3 DEF SameColumns
  <2>5. a = b
    BY <2>2, <2>4, SameElements
  <2> QED
    BY <2>5 DEF a, b
<1>5. ASSUME NEW i \in 1..Len(q) PROVE ColumnParts(q, p)[i] = ColumnParts(q, m)[i]
  <2>1. /\ ColumnParts(q, p)[i] = IF p[i] = 0 THEN <<>> ELSE q[i].alts[p[i]].cols
        /\ ColumnParts(q, m)[i] = q[i].alts[1].cols
    <3>1. ColumnParts(q, p)[i] = IF p[i] = 0 THEN <<>> ELSE q[i].alts[p[i]].cols
      BY <1>2, PartFacts
    <3>2. ColumnParts(q, m)[i] = IF m[i] = 0 THEN <<>> ELSE q[i].alts[m[i]].cols
      BY <1>2, PartFacts
    <3>3. m[i] = 1
      BY <1>1
    <3> HIDE DEF m
    <3> QED
      BY <3>1, <3>2, <3>3
  <2>2. CASE p[i] = 0
    <3>1. q[i].kind = "guarded"
      BY <1>1, <2>2 DEF ShapePicks
    <3> QED
      BY <2>1, <2>2, <3>1, ItemFacts
  <2>3. CASE p[i] # 0
    <3>1. PICK r \in VerifiedPicks(q) : r[i] = p[i] /\ \A j \in 1..Len(q) : j # i => r[j] = m[j]
      BY <2>3, PickFacts
    <3>2. Takes(q, r)
      BY PickFacts
    <3> DEFINE s == ColumnParts(q, r)
               t == ColumnParts(q, m)
    <3>3. s \in Seq(Seq(PairType)) /\ t \in Seq(Seq(PairType)) /\ Len(s) = Len(q) /\ Len(t) = Len(q)
      BY <1>2, <3>2, PartFacts
    <3>4. \A j \in 1..Len(q) : /\ s[j] = IF r[j] = 0 THEN <<>> ELSE q[j].alts[r[j]].cols
                              /\ t[j] = IF m[j] = 0 THEN <<>> ELSE q[j].alts[m[j]].cols
      BY <1>2, <3>2, PartFacts
    <3>5. \A j \in 1..Len(s) : j # i => s[j] = t[j]
      BY <3>1, <3>3, <3>4
    <3>6. FlattenSeq(s) = FlattenSeq(t)
      BY <1>4
    <3> HIDE DEF s, t
    <3>7. s[i] = t[i]
      BY <3>3, <3>5, <3>6, FlattenCancel
    <3>8. s[i] = q[i].alts[p[i]].cols
      BY <2>3, <3>1, <3>4
    <3> QED
      BY <2>1, <2>3, <3>7, <3>8 DEF t
  <2> QED
    BY <2>2, <2>3
<1>6. ColumnParts(q, p) = ColumnParts(q, m)
  <2>1. /\ ColumnParts(q, p) \in Seq(Y) /\ Len(ColumnParts(q, p)) = Len(q)
        /\ ColumnParts(q, m) \in Seq(Y) /\ Len(ColumnParts(q, m)) = Len(q)
    BY <1>2, PartFacts
  <2> HIDE DEF Y
  <2> QED
    BY <1>5, <2>1, SameElements
<1> QED
  BY <1>3, <1>6

\* What CheckTypeAgreement concludes from the verified renderings holds of
\* every shape.
LEMMA AgreementEverywhere ==
    ASSUME NEW q, WellFormedQuery(q), NEW style \in {"dollar", "question"}, NEW controls,
           CheckTypeAgreement(style, q, controls)
    PROVE  EveryShapeTyped(style, q, controls)
<1> DEFINE m == MaximalPick(q)
           base == Desc(style, Chosen(q, m))
           descs == Verified(style, q)
<1>1. /\ \A d \in descs : d.ok /\ SameColumns(d.cols, base.cols)
      /\ \A x \in ParamsSeen(descs) : \A t, u \in TypesSeen(descs, x) : t = u
      /\ ControlsAgree(descs, controls)
  BY DEF CheckTypeAgreement, TypesAgree, ResolveParamTypes
<1>2. \A r : /\ Desc(style, Chosen(q, r)).ok = ~Refused(style, BindsOf(Chosen(q, r)))
             /\ Desc(style, Chosen(q, r)).cols = ColumnsOf(Chosen(q, r))
             /\ Desc(style, Chosen(q, r)).params = Described(style, BindsOf(Chosen(q, r)))
  BY DEF Desc
<1>3. ASSUME NEW r \in VerifiedPicks(q)
      PROVE  /\ ~Refused(style, BindsOf(Chosen(q, r))) /\ Desc(style, Chosen(q, r)) \in descs
             /\ SameColumns(ColumnsOf(Chosen(q, r)), ColumnsOf(Chosen(q, m)))
  <2>1. Desc(style, Chosen(q, r)) \in descs
    BY DEF Verified
  <2> QED
    BY <1>1, <1>2, <2>1
<1> SUFFICES ASSUME NEW p \in ShapePicks(q)
             PROVE  /\ Desc(style, Chosen(q, p)).ok
                    /\ Desc(style, Chosen(q, p)).cols = base.cols
                    /\ \A b \in Desc(style, Chosen(q, p)).params :
                          /\ TypesSeen(descs, b[1]) = {b[2]}
                          /\ \A c \in controls : c[1] = b[1] => b[2] \in LiteralTypes[c[2]]
  BY DEF EveryShapeTyped
<1> DEFINE binds == BindsOf(Chosen(q, p))
<1>4. Takes(q, p)
  BY PickFacts
<1>5. binds \in Seq(PairType)
  BY <1>4, BindsFrom
<1>6. ASSUME NEW b \in ToSet(binds) PROVE TypesSeen(descs, b[1]) = {b[2]}
  <2>1. PICK i \in 1..Len(q) : p[i] # 0 /\ b \in ToSet(q[i].alts[p[i]].params)
    BY <1>4, <1>6, BindsFrom
  <2>2. PICK r \in VerifiedPicks(q) : r[i] = p[i]
    BY <2>1, PickFacts
  <2> DEFINE used == BindsOf(Chosen(q, r))
             d == Desc(style, Chosen(q, r))
  <2>3. Takes(q, r)
    BY PickFacts
  <2>4. b \in ToSet(used) /\ used \in Seq(PairType)
    BY <2>1, <2>2, <2>3, BindsFrom
  <2>5. d \in descs /\ ~Refused(style, used) /\ d.params = Described(style, used)
    BY <1>2, <1>3
  <2> HIDE DEF used, d
  <2>6. PICK e \in Described(style, used) : e[1] = b[1] /\ e[2] = b[2]
    BY <2>4, <2>5, FirstUseSpeaks
  <2>7. b[1] \in ParamsSeen(descs) /\ b[2] \in TypesSeen(descs, b[1])
    <3> HIDE DEF descs
    <3>1. e \in d.params
      BY <2>5
    <3> QED
      BY <2>5, <2>6, <3>1 DEF ParamsSeen, TypesSeen
  <2> HIDE DEF descs
  <2> QED
    BY <1>1, <2>7
<1>7. ~Refused(style, binds)
  <2> SUFFICES ASSUME NEW k \in DOMAIN binds, NEW n \in DOMAIN binds, binds[k][1] = binds[n][1]
               PROVE  binds[k][2] = binds[n][2]
    BY DEF Refused
  <2>1. binds[k] \in ToSet(binds) /\ binds[n] \in ToSet(binds)
    BY DEF ToSet
  <2>2. TypesSeen(descs, binds[k][1]) = {binds[k][2]} /\ TypesSeen(descs, binds[n][1]) = {binds[n][2]}
    BY <1>6, <2>1
  <2>3. {binds[k][2]} = {binds[n][2]}
    BY <2>2, Zenon
  <2> QED
    BY <2>3
<1>8. Desc(style, Chosen(q, p)).cols = base.cols
  BY <1>2, <1>3, ShapeColumns
<1>9. ASSUME NEW b \in Desc(style, Chosen(q, p)).params
      PROVE  /\ TypesSeen(descs, b[1]) = {b[2]}
             /\ \A c \in controls : c[1] = b[1] => b[2] \in LiteralTypes[c[2]]
  <2>1. b \in ToSet(binds)
    BY <1>2, <1>9 DEF Described, ToSet
  <2>2. TypesSeen(descs, b[1]) = {b[2]}
    BY <1>6, <2>1
  <2>3. ASSUME NEW c \in controls, c[1] = b[1] PROVE b[2] \in LiteralTypes[c[2]]
    <3>1. b[2] \in TypesSeen(descs, c[1])
      BY <2>2, <2>3
    <3> HIDE DEF descs
    <3> QED
      BY <1>1, <3>1 DEF ControlsAgree
  <2> QED
    BY <2>2, <2>3
<1> QED
  BY <1>2, <1>7, <1>8, <1>9

-----------------------------------------------------------------------------
(* The rules, one input at a time.                                         *)

\* What was accepted is an input its rule accepts.
OwnInv ==
    /\ OwnInput
    /\ Accepts("types") => CheckTypeAgreement(job.query.style, job.query.items, job.query.controls)
    /\ Accepts("int") => whenIntOK(job.text)
    /\ Accepts("string") => isPlainSQLString(job.text)

\* A parameter DeriveNullableParams returns is never written to a column that
\* refuses NULL, whatever case is taken.
LEMMA NullableTakesNull ==
    ASSUME NEW s, NEW p \in DeriveNullableParams(s)
    PROVE  TakesNull(s, p)
BY DEF DeriveNullableParams, nullableEligible, nullableAt, TakesNull

\* OwnInv is inductive.
LEMMA OwnInvHolds == OwnSpec => []OwnInv
<1>1. OwnInit => OwnInv
  BY DEF OwnInit, OwnInv, Accepts
<1>2. OwnInv /\ [CheckOwn]_ruleVars => OwnInv'
  <2> SUFFICES ASSUME OwnInv, [CheckOwn]_ruleVars PROVE OwnInv'
    OBVIOUS
  <2>1. job' = job
    BY DEF CheckOwn, CheckTypes, CheckNulls, CheckInts, CheckStrings, Judge, ruleVars
  <2>2. OwnInput'
    BY <2>1 DEF OwnInv, OwnInput
  <2>3. CASE CheckTypes
    BY <2>1, <2>2, <2>3 DEF OwnInv, Accepts, CheckTypes, Judge, Verdict
  <2>4. CASE CheckNulls
    BY <2>1, <2>2, <2>4 DEF OwnInv, Accepts, CheckNulls, Judge, Verdict
  <2>5. CASE CheckInts
    BY <2>1, <2>2, <2>5 DEF OwnInv, Accepts, CheckInts, Judge, Verdict
  <2>6. CASE CheckStrings
    BY <2>1, <2>2, <2>6 DEF OwnInv, Accepts, CheckStrings, Judge, Verdict
  <2>7. CASE UNCHANGED ruleVars
    BY <2>1, <2>2, <2>7 DEF OwnInv, Accepts, ruleVars
  <2> QED
    BY <2>3, <2>4, <2>5, <2>6, <2>7 DEF CheckOwn
<1> QED
  BY <1>1, <1>2, PTL DEF OwnSpec

\* Describing the maximal rendering and one case at a time is enough, for every
\* query and every number of choices and guards; and no parameter whose Go type
\* may be absent is stored in a column that refuses NULL.
THEOREM AcceptedTypesEverywhere == OwnSpec => []TypesEverywhere
<1>1. OwnInv => TypesEverywhere
  <2> SUFFICES ASSUME OwnInv PROVE TypesEverywhere
    OBVIOUS
  <2>1. ASSUME Accepts("types")
        PROVE  EveryShapeTyped(job.query.style, job.query.items, job.query.controls)
    <3>1. PICK q \in Queries : job = [family |-> "types", query |-> q]
      BY <2>1 DEF OwnInv, OwnInput, Accepts
    <3>2. job.query = q /\ CheckTypeAgreement(job.query.style, job.query.items, job.query.controls)
      BY <2>1, <3>1 DEF OwnInv
    <3>3. q.style \in {"dollar", "question"} /\ WellFormedQuery(q.items)
      BY QueryAssumption DEF WellFormedQuery
    <3> QED
      BY <3>2, <3>3, AgreementEverywhere
  <2> QED
    BY <2>1, NullableTakesNull DEF TypesEverywhere
<1> QED
  BY <1>1, OwnInvHolds, PTL

\* Every @when literal the scanner takes has one value in Go and in every
\* dialect, whatever its length.
THEOREM AcceptedLiteralsMeanTheSame == OwnSpec => []LiteralsMeanTheSame
<1>1. OwnInv => LiteralsMeanTheSame
  <2> SUFFICES ASSUME OwnInv PROVE LiteralsMeanTheSame
    OBVIOUS
  <2>1. ASSUME Accepts("int") PROVE GoInt(job.text) = Decimal(job.text) /\ Decimal(job.text) <= MaxInt
    <3>1. whenIntOK(job.text)
      BY <2>1 DEF OwnInv
    <3> QED
      BY <3>1 DEF whenIntOK, GoInt
  <2>2. ASSUME Accepts("string"), NEW d \in {"postgres", "mysql", "sqlite"}
        PROVE  SQLString(d, job.text) = [mode |-> "closed", value |-> unquoteSQLString(job.text)]
    <3>1. PICK t \in StringTexts : job = [family |-> "string", text |-> t]
      BY <2>2 DEF OwnInv, OwnInput, Accepts
    <3>2. job.text = t /\ t \in Seq(STRING) /\ isPlainSQLString(t)
      BY <2>2, <3>1, LiteralAssumption DEF OwnInv
    <3> QED
      BY <3>2, PlainStrings
  <2> QED
    BY <2>1, <2>2 DEF LiteralsMeanTheSame
<1> QED
  BY <1>1, OwnInvHolds, PTL
=============================================================================
