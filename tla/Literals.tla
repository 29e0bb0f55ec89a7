------------------------------ MODULE Literals ------------------------------
(***************************************************************************)
(* @when literals (internal/template/scanner.go): the text of a literal is *)
(* copied into the Go guard, and the database reads the same text.         *)
(* Integers are digit sequences; strings are sequences of "q" (a single    *)
(* quote), "b" (a backslash) and other characters.                         *)
(***************************************************************************)
EXTENDS Integers, Sequences, SequencesExt

CONSTANT
    MaxInt       \* the largest value of a Go int64, scaled down

ASSUME MaxIntAssumption == MaxInt \in Nat

Decimal(digits) == FoldLeft(LAMBDA n, d : 10 * n + d, 0, digits)
\* Go reads a literal with a leading zero in base 8.
GoInt(digits) ==
    IF Len(digits) > 1 /\ digits[1] = 0 THEN FoldLeft(LAMBDA n, d : 8 * n + d, 0, digits) ELSE Decimal(digits)

\* whenIntError.
whenIntOK_AnyZero(digits) == Decimal(digits) <= MaxInt
whenIntOK(digits) == ~(Len(digits) > 1 /\ digits[1] = 0) /\ Decimal(digits) <= MaxInt

-----------------------------------------------------------------------------
(* A loop over the characters: what is known after the first n of them.    *)

Inner(s) == SubSeq(s, 2, Len(s) - 1)

\* isPlainSQLString, inside the quotes: no backslash, and quotes only in pairs.
\* "half" is after the first quote of a pair.
QuoteStep(st, c) ==
    CASE st = "half" -> IF c = "q" THEN "plain" ELSE "refused"
      [] st = "plain" /\ c = "q" -> "half"
      [] st = "plain" /\ c # "q" /\ c # "b" -> "plain"
      [] OTHER -> "refused"
PairedQuotes(in) ==
    LET scan[n \in 0..Len(in)] == IF n = 0 THEN "plain" ELSE QuoteStep(scan[n - 1], in[n])
    IN  scan[Len(in)] = "plain"
isPlainSQLString_Quoted(s) == Len(s) >= 2 /\ s[1] = "q" /\ s[Len(s)] = "q"
isPlainSQLString(s) == Len(s) >= 2 /\ s[1] = "q" /\ s[Len(s)] = "q" /\ PairedQuotes(Inner(s))

\* unquoteSQLString: ReplaceAll drops the second quote of every pair.
UnpairStep(st, c) ==
    IF c = "q" /\ st.last = "q" THEN [last |-> "none", value |-> st.value]
    ELSE [last |-> c, value |-> Append(st.value, c)]
unquoteSQLString(s) ==
    LET in == Inner(s)
        replace[n \in 0..Len(in)] ==
            IF n = 0 THEN [last |-> "none", value |-> <<>>] ELSE UnpairStep(replace[n - 1], in[n])
    IN  replace[Len(in)].value

\* What the database reads after the opening quote; MySQL takes a backslash as
\* an escape.  A quote closes the literal unless another one follows.
DecodeStep(escapes, st, c) ==
    CASE st.mode = "in" /\ c = "q" -> [mode |-> "closed", value |-> st.value]
      [] st.mode = "in" /\ c = "b" /\ escapes -> [mode |-> "escape", value |-> st.value]
      [] st.mode = "beyond" \/ (st.mode = "closed" /\ c # "q") -> [mode |-> "beyond", value |-> st.value]
      [] OTHER -> [mode |-> "in", value |-> Append(st.value, c)]
\* The whole text is one string when its last character closed it.
SQLString(dialect, s) ==
    LET rest == Tail(s)
        read[n \in 0..Len(rest)] ==
            IF n = 0 THEN [mode |-> "in", value |-> <<>>] ELSE DecodeStep(dialect = "mysql", read[n - 1], rest[n])
    IN  read[Len(rest)]
=============================================================================
