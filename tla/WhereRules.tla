------------------------------ MODULE WhereRules ------------------------------
(***************************************************************************)
(* R1 for WHERE and HAVING conjuncts (internal/rules/r1.go): an optional   *)
(* fragment must be one whole top-level conjunct of the rendered clause,   *)
(* so that leaving it out can never regroup what stands around it.         *)
(*                                                                         *)
(* A template is a sequence of items [k, preds]: "tok" is one skeleton     *)
(* token, "frag" an optional conjunct with its body, "tree" a @filter-tree *)
(* with its predicates.  A statement is SELECT cores separated by "UNION", *)
(* each with the clauses its "WHERE" and "HAVING" tokens open.             *)
(*                                                                         *)
(* The dialects tell where a conjunct is in two ways: PostgreSQL at its    *)
(* operator ("operator"), MySQL and SQLite at its first token ("start").   *)
(***************************************************************************)
EXTENDS Integers, Sequences, FiniteSets, SequencesExt

LocStyles == {"operator", "start"}

Tok(t) == [k |-> "tok", preds |-> << <<t>> >>]
Frag(body) == [k |-> "frag", preds |-> <<body>>]
Tree(preds) == [k |-> "tree", preds |-> preds]

-----------------------------------------------------------------------------
(* The expression grammar: OR, AND, NOT, a comparison or a BETWEEN, an     *)
(* operand or a parenthesized expression.  External parsers.               *)

Connectives == {"OR", "AND", "NOT", "=", "BETWEEN", "(", ")"}
ClauseWords == {"WHERE", "HAVING", "UNION"}

Node(op, at, args) == [op |-> op, at |-> at, args |-> args]
Bad == Node("bad", 0, <<>>)

Depth(toks, i, k) ==
    Cardinality({m \in i..(k - 1) : toks[m] = "("}) - Cardinality({m \in i..(k - 1) : toks[m] = ")"})
\* The places of a token outside parentheses.
Outside(toks, i, j, t) == {k \in i..j : toks[k] = t /\ Depth(toks, i, k) = 0}
LastOf(S) == CHOOSE x \in S : \A y \in S : y <= x
FirstOf(S) == CHOOSE x \in S : \A y \in S : x <= y

\* The AND that closes each BETWEEN.
Bounds(betweens, ands) ==
    {FirstOf({a \in ands : a > b}) : b \in {b \in betweens : \E a \in ands : a > b}}

Joined(op, at, args) == IF \E n \in DOMAIN args : args[n].op = "bad" THEN Bad ELSE Node(op, at, args)

RECURSIVE Parse(_, _, _, _)
Parse(style, toks, i, j) ==
    LET P(a, b) == Parse(style, toks, a, b)
        ors == Outside(toks, i, j, "OR")
        betweens == Outside(toks, i, j, "BETWEEN")
        bounds == Bounds(betweens, Outside(toks, i, j, "AND"))
        ands == Outside(toks, i, j, "AND") \ bounds
        eqs == Outside(toks, i, j, "=")
    IN  CASE i > j -> Bad
          [] i <= j /\ ors # {} -> Joined("OR", LastOf(ors), <<P(i, LastOf(ors) - 1), P(LastOf(ors) + 1, j)>>)
          [] i <= j /\ ors = {} /\ ands # {} ->
                 Joined("AND", LastOf(ands), <<P(i, LastOf(ands) - 1), P(LastOf(ands) + 1, j)>>)
          [] OTHER ->
             CASE toks[i] = "NOT" -> Joined("NOT", i, <<P(i + 1, j)>>)
               [] betweens # {} /\ toks[i] # "NOT" ->
                    IF Cardinality(betweens) = 1 /\ Cardinality(bounds) = 1 /\ eqs = {}
                    THEN LET b == LastOf(betweens)
                             m == LastOf(bounds)
                         IN  Joined("BETWEEN", b, <<P(i, b - 1), P(b + 1, m - 1), P(m + 1, j)>>)
                    ELSE Bad
               [] eqs # {} /\ toks[i] # "NOT" ->
                    \* PostgreSQL's comparisons do not associate; NOT is no operand of one.
                    IF (style = "operator" /\ Cardinality(eqs) > 1) \/ toks[(LastOf(eqs) % j) + 1] = "NOT" THEN Bad
                    ELSE Joined("=", LastOf(eqs), <<P(i, LastOf(eqs) - 1), P(LastOf(eqs) + 1, j)>>)
               [] toks[i] = "(" /\ toks[j] = ")" /\ Depth(toks, i, j) = 1
                  /\ \A k \in (i + 1)..j : Depth(toks, i, k) > 0 -> Joined("()", i, <<P(i + 1, j - 1)>>)
               [] i = j /\ toks[i] \notin Connectives -> Node(toks[i], i, <<>>)
               [] OTHER -> Bad

-----------------------------------------------------------------------------
(* The rendering: tokens, and the range each construct was written to.     *)

ConjoinedPreds(preds) ==
    FlattenSeq([n \in DOMAIN preds |->
        (IF n > 1 THEN <<"AND">> ELSE <<>>) \o <<"(">> \o preds[n] \o <<")">>])

\* A fragment is written "AND ( body )", a tree as the conjunction of its
\* predicates or, when empty, as TRUE.
ItemText(it, on) ==
    CASE it.k = "tok" -> it.preds[1]
      [] it.k = "frag" -> IF on THEN <<"AND", "(">> \o it.preds[1] \o <<")">> ELSE <<>>
      [] it.k = "tree" -> IF on THEN <<"(">> \o ConjoinedPreds(it.preds) \o <<")">> ELSE <<"TRUE">>

\* on[i]: whether item i is active (a tree: not empty).
RenderItems(items, on) ==
    FoldLeft(LAMBDA r, i :
                 LET t == ItemText(items[i], on[i])
                 IN  [toks |-> r.toks \o t,
                      frags |-> IF items[i].k = "tok" \/ t = <<>> THEN r.frags
                                ELSE Append(r.frags, [item |-> i, from |-> Len(r.toks) + 1,
                                                      to |-> Len(r.toks) + Len(t)])],
             [toks |-> <<>>, frags |-> <<>>], [i \in DOMAIN items |-> i])

\* The span of a core's clause, and the cores.
WordsIn(toks, from, to, words) == {k \in from..to : toks[k] \in words}
ClauseEnd(toks, at) ==
    LET next == WordsIn(toks, at + 1, Len(toks), ClauseWords)
    IN  IF next = {} THEN Len(toks) ELSE FirstOf(next) - 1
SetOpBranches(toks) ==
    {[from |-> s, to |-> LET u == WordsIn(toks, s, Len(toks), {"UNION"})
                         IN  IF u = {} THEN Len(toks) ELSE FirstOf(u) - 1] :
        s \in {1} \cup {u + 1 : u \in WordsIn(toks, 1, Len(toks), {"UNION"})}}
IsSetOp(toks) == Contains(toks, "UNION")

ClauseTree(style, toks, core, word) ==
    LET at == WordsIn(toks, core.from, core.to, {word})
    IN  IF at = {} THEN Node("TRUE", 0, <<>>)
        ELSE Parse(style, toks, FirstOf(at) + 1, ClauseEnd(toks, FirstOf(at)))

\* fe.Parse: every clause is one expression.
Parses(style, toks) ==
    \A core \in SetOpBranches(toks), word \in {"WHERE", "HAVING"} :
        /\ Cardinality(WordsIn(toks, core.from, core.to, {word})) <= 1
        /\ ClauseTree(style, toks, core, word).op # "bad"

-----------------------------------------------------------------------------
(* The top-level conjuncts of a clause and where the dialect locates them. *)

RECURSIVE flattenConjuncts(_)
flattenConjuncts(t) ==
    CASE t.op = "()" -> flattenConjuncts(t.args[1])
      [] t.op = "AND" -> flattenConjuncts(t.args[1]) \cup flattenConjuncts(t.args[2])
      [] OTHER -> {t}

\* PostgreSQL merges a chain of ORs into the first one.
RECURSIVE nodeLoc(_)
nodeLoc(t) ==
    IF t.op = "OR"
    THEN LET left == IF t.args[1].op = "()" THEN t.args[1].args[1] ELSE t.args[1]
         IN  IF left.op = "OR" THEN nodeLoc(left) ELSE t.at
    ELSE t.at
RECURSIVE exprPos(_)
exprPos(t) == IF t.op \in {"OR", "=", "BETWEEN"} THEN exprPos(t.args[1]) ELSE t.at
Loc(style, t) == IF style = "operator" THEN nodeLoc(t) ELSE exprPos(t)

\* TopConjunctLocs and HavingConjunctLocs of one core; an absent clause has none.
ConjunctLocs(style, toks, core, word) ==
    IF WordsIn(toks, core.from, core.to, {word}) = {} THEN {}
    ELSE {Loc(style, t) : t \in flattenConjuncts(ClauseTree(style, toks, core, word))}

\* In a set operation the conjunct slots are those of every operand.
conjunctSlotLocs(style, toks, word) ==
    UNION {ConjunctLocs(style, toks, core, word) : core \in SetOpBranches(toks)}

-----------------------------------------------------------------------------
(* CheckR1.                                                                *)

balanced_Sum(body) == Depth(body, 1, Len(body) + 1) = 0
\* Never below zero, zero at the end.
balanced(body) ==
    /\ \A k \in 1..Len(body) : Depth(body, 1, k + 1) >= 0
    /\ Depth(body, 1, Len(body) + 1) = 0

\* ProbeExpr: "SELECT 1 WHERE ( body )" parses and has nothing else.
ProbeExpr(style, body) ==
    LET t == <<"(">> \o body \o <<")">>
    IN  WordsIn(body, 1, Len(body), ClauseWords) = {} /\ Parse(style, t, 1, Len(t)).op # "bad"

probeConjunct(style, body) == balanced(body) /\ ProbeExpr(style, body)

\* The clause a construct is in: the last clause word before it.
SlotOf(toks, at) == toks[LastOf({0} \cup WordsIn(toks, 1, at, ClauseWords))]

CountIn(locs, fr) == Cardinality({l \in locs : fr.from <= l /\ l <= fr.to})
checkConjunctMembership(locs, fr) == CountIn(locs, fr) = 1

checkFragment(style, toks, item, fr) ==
    CASE item.k = "tree" -> ~IsSetOp(toks)
      [] item.k = "frag" -> checkConjunctMembership(conjunctSlotLocs(style, toks, SlotOf(toks, fr.from)), fr)

\* The empty tree's TRUE is one conjunct of its own; the conjunction of all
\* predicates would flatten into several.
checkEmptyTree(style, toks, item, fr) ==
    item.k = "tree" => checkConjunctMembership(conjunctSlotLocs(style, toks, SlotOf(toks, fr.from)), fr)

AllOn(items) == [i \in DOMAIN items |-> TRUE]
TreesEmpty(items) == [i \in DOMAIN items |-> items[i].k # "tree"]

Admits(style, items, max, empty) ==
    /\ \A i \in DOMAIN items : items[i].k # "tok" =>
           \A n \in DOMAIN items[i].preds : probeConjunct(style, items[i].preds[n])
    /\ Parses(style, max.toks) /\ Parses(style, empty.toks)
    /\ \A n \in DOMAIN max.frags : checkFragment(style, max.toks, items[max.frags[n].item], max.frags[n])
    /\ IsSetOp(empty.toks) \/ \A n \in DOMAIN empty.frags :
           checkEmptyTree(style, empty.toks, items[empty.frags[n].item], empty.frags[n])

CheckR1(style, items) ==
    Admits(style, items, RenderItems(items, AllOn(items)), RenderItems(items, TreesEmpty(items)))

-----------------------------------------------------------------------------
(* What a template means.                                                  *)

\* An expression without positions and parentheses.
RECURSIVE Meaning(_)
Meaning(t) ==
    IF t.op = "()" THEN Meaning(t.args[1])
    ELSE <<t.op, [n \in DOMAIN t.args |-> Meaning(t.args[n])]>>
ConjunctsOf(style, toks, core, word) ==
    {Meaning(t) : t \in flattenConjuncts(ClauseTree(style, toks, core, word))}
BodyConjuncts(style, body) == {Meaning(t) : t \in flattenConjuncts(Parse(style, body, 1, Len(body)))}

\* A statement as a function from its cores (by number) and clauses to conjuncts.
CoreNo(toks, at) == Cardinality(WordsIn(toks, 1, at, {"UNION"})) + 1
StatementMeaning(style, toks) ==
    [p \in {<<CoreNo(toks, c.from), w>> : c \in SetOpBranches(toks), w \in {"WHERE", "HAVING"}} |->
        ConjunctsOf(style, toks, CHOOSE c \in SetOpBranches(toks) : CoreNo(toks, c.from) = p[1], p[2])]

\* What the active items of a clause ask for.
AskedFor(style, items, on, toks, frags, p) ==
    UNION {BodyConjuncts(style, ItemText(items[f.item], TRUE)) :
              f \in {f \in ToSet(frags) : items[f.item].k = "tree" /\ on[f.item]
                                          /\ <<CoreNo(toks, f.from), SlotOf(toks, f.from)>> = p}}
    \cup UNION {BodyConjuncts(style, items[f.item].preds[1]) :
              f \in {f \in ToSet(frags) : items[f.item].k = "frag"
                                          /\ <<CoreNo(toks, f.from), SlotOf(toks, f.from)>> = p}}

Constant == <<"TRUE", <<>> >>
\* In this shape every clause is the skeleton's conjuncts and those of the
\* active constructs.
ShapeConjoins(style, items, on, bare, r) ==
    /\ Parses(style, r.toks)
    /\ LET skeleton == StatementMeaning(style, bare.toks)
           shape == StatementMeaning(style, r.toks)
       IN  \A p \in DOMAIN shape :
              shape[p] \ {Constant}
                  = (skeleton[p] \cup AskedFor(style, items, on, r.toks, r.frags, p)) \ {Constant}

EveryShapeConjoins(style, items) ==
    LET bare == RenderItems(items, [i \in DOMAIN items |-> FALSE])
    IN  /\ Parses(style, bare.toks)
        /\ \A active \in SUBSET {i \in DOMAIN items : items[i].k # "tok"} :
              LET on == [i \in DOMAIN items |-> i \in active]
              IN  ShapeConjoins(style, items, on, bare, RenderItems(items, on))

\* Every construct is followed by AND, another construct or the clause's end.
Followed(items) ==
    \A i \in DOMAIN items : items[i].k # "tok" /\ i < Len(items) =>
        items[i + 1].k # "tok" \/ items[i + 1].preds[1][1] \in {"AND"} \cup ClauseWords
=============================================================================
