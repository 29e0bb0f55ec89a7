----------------------------- MODULE ClauseScan -----------------------------
(***************************************************************************)
(* How internal/policy reads a WHERE clause and a join's ON clause: token  *)
(* by token, without a parser (splice.go).  The weaver decides from this   *)
(* reading where a scoping conjunct goes and whether the clause must be    *)
(* wrapped first; the enforcement pass credits a conjunct from it.         *)
(*                                                                         *)
(* A token is the word it spells; "c", "a", "b" are columns, "r", "s", "u" *)
(* relations, "9" a literal, "?" a parameter, "@if" and "@order-by"        *)
(* construct items.                                                        *)
(***************************************************************************)
EXTENDS Integers, Sequences, FiniteSets

tailKeywords == {"GROUP", "HAVING", "ORDER", "LIMIT", "OFFSET", "UNION"}
joinKeywords == {"JOIN", "INNER", "LEFT", "RIGHT", "FULL", "CROSS", "NATURAL"}
infixOperandKeywords == {"LIKE", "IS", "BETWEEN", "XOR"}
Arms == {"WHEN", "THEN", "ELSE"}
Booleans == {"AND", "OR", "NOT"}
Constructs == {"@if", "@order-by"}
Punctuation == {"(", ")", ",", ".", ";", "=", "||", "9", "?"}
IsIdent(t) == t \notin Punctuation \cup Constructs

\* afterOperand: whether a word after t names a column, not a clause.
afterOperand(t) ==
    \/ t \in {"(", ",", "=", "||", ".", "CASE"} \cup Booleans \cup Arms
    \/ t \in infixOperandKeywords

\* looseOrOperator: operators that bind at OR's level.
looseOrOperator_Word(t, dotted, pipesOr) == t = "XOR" /\ ~dotted
looseOrOperator(t, dotted, pipesOr) ==
    \/ t = "XOR" /\ ~dotted
    \/ pipesOr /\ t = "||"

\* The state of exprScan with its segCollector and caseNest.
NewScan ==
    [paren |-> 0, dot |-> FALSE, expectOperand |-> TRUE, depth |-> 0, bad |-> FALSE,
     segs |-> {}, cur |-> <<>>, hasOR |-> FALSE, end |-> 0, over |-> FALSE]

Flush(st) == [st EXCEPT !.segs = @ \cup ({st.cur} \ {<<>>}), !.cur = <<>>]

CaseIdent_Blind(st, t) == st
\* caseNest.ident.
CaseIdent(st, t) ==
    CASE t = "CASE" -> [st EXCEPT !.depth = @ + 1]
      [] t = "END" /\ ~st.expectOperand ->
             IF st.depth = 0 THEN [st EXCEPT !.bad = TRUE] ELSE [st EXCEPT !.depth = @ - 1]
      [] t \in Arms /\ st.depth = 0 -> [st EXCEPT !.bad = TRUE]
      [] OTHER -> st

Construct(st, t, i) ==
    LET over == t = "@order-by"
    IN  [Flush(st) EXCEPT !.bad = @ \/ st.depth > 0, !.expectOperand = FALSE, !.dot = FALSE,
                          !.over = over, !.end = IF over THEN @ ELSE i]

\* exprScan.step: token t is the i-th, Closers the words that end the clause.
\* A word splits, flags or ends the clause only at its own depth, outside every
\* CASE, and ends it only where an operator may stand.
Step(st, t, i, Closers, pipesOr) ==
    LET paren == CASE t = "(" -> st.paren + 1
                   [] t = ")" /\ st.paren > 0 -> st.paren - 1
                   [] OTHER -> st.paren
        word == paren = 0 /\ IsIdent(t) /\ ~st.dot
        next == [(IF word THEN CaseIdent(st, t) ELSE st) EXCEPT !.paren = paren, !.dot = t = "."]
        own == paren = 0 /\ next.depth = 0
    IN  CASE st.over -> st
          [] t \in Constructs -> Construct(st, t, i)
          [] word /\ own /\ t \in {"AND", "OR"} ->
                 [Flush(next) EXCEPT !.expectOperand = TRUE, !.hasOR = @ \/ t = "OR"]
          [] word /\ own /\ ~st.expectOperand /\ t \in Closers -> [Flush(next) EXCEPT !.over = TRUE]
          [] OTHER -> [next EXCEPT !.hasOR = @ \/ (own /\ looseOrOperator(t, st.dot, pipesOr)),
                                   !.expectOperand = afterOperand(t),
                                   !.cur = Append(@, t), !.end = i]

\* exprScan.result.
Result(st) ==
    LET f == Flush(st)
    IN  [segs |-> f.segs, hasOR |-> f.hasOR, lexOK |-> ~f.bad /\ f.depth = 0, end |-> f.end]

\* whereClause: the first WHERE at paren depth 0 opens the clause.
whereClause(toks, pipesOr) ==
    LET depth[i \in 0..Len(toks)] ==
            IF i = 0 THEN 0
            ELSE depth[i - 1] + (CASE toks[i] = "(" -> 1 [] toks[i] = ")" -> -1 [] OTHER -> 0)
        opens == {i \in DOMAIN toks : /\ toks[i] = "WHERE" /\ depth[i] = 0
                                      /\ i > 1 => toks[i - 1] # "."}
        kw == IF opens = {} THEN Len(toks) ELSE CHOOSE i \in opens : \A j \in opens : i <= j
        scan[i \in kw..Len(toks)] ==
            IF i = kw THEN NewScan
            ELSE LET prev == scan[i - 1] IN Step(prev, toks[i], i, tailKeywords, pipesOr)
    IN  [kw |-> IF opens = {} THEN 0 ELSE kw, scan |-> Result(scan[Len(toks)])]

\* segsContain: the conjunct bare or in one pair of parentheses.
segsContain(segs, conjunct) ==
    conjunct \in segs \/ <<"(">> \o conjunct \o <<")">> \in segs

\* wherePresent, onPresent and the enforcer's crediting.
Credited(scan, conjunct) ==
    scan.lexOK /\ ~scan.hasOR /\ segsContain(scan.segs, conjunct)

\* Weave's four cases: (conjunct) AND before the clause, which is wrapped when
\* it holds an OR; or a WHERE clause of its own before the tail.
InsertAt(toks, i, more) == SubSeq(toks, 1, i) \o more \o SubSeq(toks, i + 1, Len(toks))

WeaveWhere(toks, kw, scan, tail, conjunct) ==
    LET own == <<"(">> \o conjunct \o <<")">>
        closed == IF scan.hasOR THEN InsertAt(toks, scan.end, <<")">>) ELSE toks
    IN  IF kw = 0 THEN InsertAt(toks, tail, <<"WHERE">> \o own)
        ELSE InsertAt(closed, kw,
                      own \o <<"AND">> \o (IF scan.hasOR THEN <<"(">> ELSE <<>>))

-----------------------------------------------------------------------------
(* What a boolean expression means, as the SQL grammar has it: its text,   *)
(* how loosely it binds, the worlds that satisfy it, and the worlds that   *)
(* satisfy its text with `conjunct AND` written in front.                  *)

\* A world is the truth values of p, a and b, as the bits of a number.
Worlds == 0..7
Facts == [p |-> {4, 5, 6, 7}, a |-> {2, 3, 6, 7}, b |-> {1, 3, 5, 7}]
TrueIn(x) == Facts[x]
Expr(text, level, sat, pre) == [text |-> text, level |-> level, sat |-> sat, pre |-> pre]
Atom(x, text) == Expr(text, 5, TrueIn(x), TrueIn("p") \cap TrueIn(x))
Paren(e) == Expr(<<"(">> \o e.text \o <<")">>, 5, e.sat, TrueIn("p") \cap e.sat)
Operand(e, level) == IF e.level < level THEN Paren(e) ELSE e
Not(e) ==
    LET x == Operand(e, 4) IN Expr(<<"NOT">> \o x.text, 4, Worlds \ e.sat, TrueIn("p") \ e.sat)
And(e, f) ==
    LET x == Operand(e, 3)
        y == Operand(f, 3)
    IN  Expr(x.text \o <<"AND">> \o y.text, 3, e.sat \cap f.sat, TrueIn("p") \cap e.sat \cap f.sat)
Xor(e, f) ==
    LET x == Operand(e, 2)
        y == Operand(f, 3)
        Differ(U, V) == (U \ V) \cup (V \ U)
    IN  Expr(x.text \o <<"XOR">> \o y.text, 2, Differ(e.sat, f.sat), Differ(x.pre, f.sat))
Or(e, f, op) ==
    LET x == Operand(e, 1)
        y == Operand(f, 2)
    IN  Expr(x.text \o <<op>> \o y.text, 1, e.sat \cup f.sat, x.pre \cup f.sat)
CaseOf(e, f, g) ==
    LET sat == (e.sat \cap f.sat) \cup (g.sat \ e.sat)
    IN  Expr(<<"CASE", "WHEN">> \o e.text \o <<"THEN">> \o f.text \o <<"ELSE">> \o g.text \o <<"END">>,
             5, sat, TrueIn("p") \cap sat)

\* The policy's conjunct, and columns spelled like keywords where the dialect
\* has them.
PolicyConjunct == <<"c", "=", "?">>
Conj == Atom("p", PolicyConjunct)
Columns(dialect) ==
    {Atom("b", <<"b">>), Atom("a", <<"OFFSET", "=", "9">>), Atom("a", <<"a", "LIKE", "OFFSET">>),
     Atom("a", <<"a", ".", "GROUP", "=", "9">>), Atom("a", <<"a", "BETWEEN", "9", "AND", "9">>)}
    \cup (IF dialect = "postgres" THEN {} ELSE {Atom("a", <<"END">>)})
    \cup (IF dialect = "mysql" THEN {} ELSE {Atom("a", <<"a", "||", "b", "=", "9">>)})
    \cup (IF dialect = "sqlite" THEN {Atom("a", <<"XOR", "=", "9">>)} ELSE {})

Binary(dialect, E, F) ==
    {And(e, f) : e \in E, f \in F} \cup {Or(e, f, "OR") : e \in E, f \in F}
    \cup (IF dialect # "mysql" THEN {}
          ELSE {Xor(e, f) : e \in E, f \in F} \cup {Or(e, f, "||") : e \in E, f \in F})

Simple(dialect) == Columns(dialect) \cup {Conj}
Few == {Conj, Atom("b", <<"b">>)}
Middle == And(And(Atom("b", <<"b">>), Conj), Atom("b", <<"b">>))
Compound(dialect) ==
    LET s == Simple(dialect)
    IN  Binary(dialect, s, s) \cup {Not(e) : e \in s} \cup {Paren(Conj)}
        \cup {CaseOf(e, f, g) : e \in s, 
                            f \in Few \cup Binary(dialect, {Conj}, Few) \cup {Middle}, g \in Few}
Expressions(dialect) ==
    LET c == Compound(dialect)
    IN  Simple(dialect) \cup c \cup Binary(dialect, Few, c) \cup Binary(dialect, c, Few)
=============================================================================
