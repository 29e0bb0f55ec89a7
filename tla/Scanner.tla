------------------------------ MODULE Scanner ------------------------------
(***************************************************************************)
(* The template scanner (internal/template/scanner.go): one pass over the  *)
(* tokens of a file that opens a query at every header, keeps the clause   *)
(* it is in, cuts the query's text into skeleton and constructs, and       *)
(* records where a WHERE stands or could be inserted, which parameters     *)
(* bind where, and which directives belong to which query.                 *)
(*                                                                         *)
(* A position is the index of a token.  A marker such as @if-present(a)    *)
(* is one token that carries its argument list ("ok": the list parses).    *)
(* The scanner never reads "role": it says what a token really is.         *)
(***************************************************************************)
EXTENDS Integers, Sequences, SequencesExt, FiniteSets

CONSTANTS
    Texts,              \* the files to scan
    MaxGuards,          \* guard conditions a shape key has bits for
    MaxOrderKeys,       \* sort keys of one @order-by
    MaxChooseOrdinals,  \* cases of one @choose, @default included
    MaxParams           \* parameters of one query

VARIABLES
    text,   \* the file
    pos,    \* the next token
    qb,     \* the query being built
    pend,   \* directives whose query is not known yet
    names,  \* query names seen
    file,   \* the finished queries
    diags,  \* the codes reported
    stray   \* a statement without a header was reported

vars == <<text, pos, qb, pend, names, file, diags, stray>>

-----------------------------------------------------------------------------
(* Tokens.                                                                 *)

Tok(k, w) == [k |-> k, w |-> w, role |-> ""]
Word(w) == Tok("ident", w)
Ref(p) == Tok("param", p)
LParen == Tok("(", "(")
RParen == Tok(")", ")")
Comma == Tok(",", ",")
Semi == Tok(";", ";")
Positional == Tok("positional", "$1")
Comment == Tok("comment", "")
LoneCR == Tok("comment", "cr")
Unlexable == Tok("error", "")
Header(n) == Tok("header", n)
\* d: the directive; key: what it names; val: its value; form: it parses.
Directive(d, key, val, form) == Tok("directive", "") @@ [d |-> d, key |-> key, val |-> val, form |-> form]
Mark(w, args) == Tok("mark", w) @@ [args |-> args, ok |-> TRUE]
BadMark(w) == Tok("mark", w) @@ [args |-> <<>>, ok |-> FALSE]
As(role, t) == [t EXCEPT !.role = role]

IsTrivia(t) == t.k \in {"comment", "header", "directive"}
IsMark(t, ws) == t.k = "mark" /\ t.w \in ws
IsWord(t, ws) == t.k = "ident" /\ t.w \in ws
End == Len(text) + 1
snakeRe(name) == name # "Bad"

\* The first token of [from, to) that is not a comment, or 0.
firstTokenOf(from, to) ==
    LET sig == {i \in from..(to - 1) : ~IsTrivia(text[i])}
    IN  IF sig = {} THEN 0 ELSE Min(sig)

\* The last such token's word, "" when there is none.
lastSignificantToken(from, to) ==
    LET sig == {i \in from..(to - 1) : ~IsTrivia(text[i])}
    IN  IF sig = {} THEN "" ELSE text[Max(sig)].w

\* ORDER or GROUP when the body [from, to) starts with that clause.
ClauseKeywordAt(first, to) ==
    IF first # 0 /\ IsWord(text[first], {"ORDER", "GROUP"}) /\ first + 1 < to
       /\ IsWord(text[Max({1, firstTokenOf(first + 1, to)})], {"BY"})
    THEN text[first].w ELSE ""
clauseKeywordOf(from, to) == ClauseKeywordAt(firstTokenOf(from, to), to)

isSingleIdent(from, to) ==
    \E i \in from..(to - 1) : text[i].k = "ident" /\ \A j \in from..(to - 1) : j = i \/ IsTrivia(text[j])

-----------------------------------------------------------------------------
(* The query under construction.                                           *)

NoQuery == [open |-> FALSE]

queryBuilder(name, at) ==
    [open |-> TRUE, name |-> name, hdr |-> at, items |-> <<>>, skelStart |-> at + 1,
     depth |-> 0, ctx |-> "none", ended |-> FALSE, extra |-> FALSE,
     colGuardSeen |-> FALSE, rowGuardSeen |-> FALSE,
     prevKw |-> "", afterOnConflict |-> FALSE, isInsert |-> FALSE,
     joinPendingOn |-> FALSE, onWasJoin |-> FALSE, crossNaturalPending |-> FALSE,
     where |-> 0, tail |-> 0, stmtEnd |-> 0,
     occ |-> <<>>, settings |-> {}, cols |-> <<>>, rows |-> <<>>, atoms |-> <<>>]

\* What handling one token or construct leaves behind.
Out(q, p, codes) == [q |-> q, pos |-> p, codes |-> codes]
Codes(cond, code) == IF cond THEN {code} ELSE {}

flushSkeleton(q, upTo) ==
    [q EXCEPT !.items = IF q.skelStart > 0 /\ q.skelStart < upTo
                        THEN Append(@, [kind |-> "skeleton", from |-> q.skelStart, to |-> upTo])
                        ELSE @,
              !.skelStart = 0]

AddItem(q, item) == [flushSkeleton(q, item.from) EXCEPT !.items = Append(@, item), !.skelStart = item.to]

markTail(q, at) == IF q.where = 0 /\ q.tail = 0 THEN [q EXCEPT !.tail = at] ELSE q

Occurrence(at, guards, in) == [name |-> text[at].w, at |-> at, guards |-> guards, in |-> in]

\* recordParam: a name that is not snake_case is reported and not recorded.
AddOccurrences(q, ats, guards, in) ==
    [q EXCEPT !.occ = @ \o [j \in DOMAIN ats |-> Occurrence(ats[j], guards, in)]]
recordParams(q, ats, guards, in) ==
    Out(AddOccurrences(q, SelectSeq(ats, LAMBDA i : snakeRe(text[i].w)), guards, in), 0,
        Codes(\E j \in DOMAIN ats : ~snakeRe(text[ats[j]].w), "BadIdentifier"))

-----------------------------------------------------------------------------
(* transition: the clause a top-level keyword opens.                       *)

LeaveValues(q, kw) == IF q.ctx = "values" /\ kw # "VALUES" THEN [q EXCEPT !.ctx = "insertTail"] ELSE q

SeeConflict_AnyOn(q, kw) ==
    IF q.isInsert /\ q.prevKw = "ON" /\ kw = "CONFLICT" THEN [q EXCEPT !.afterOnConflict = TRUE] ELSE q
\* ON CONFLICT of an INSERT, unless the ON belongs to a join of its SELECT.
SeeConflict(q, kw) ==
    IF q.isInsert /\ q.prevKw = "ON" /\ kw = "CONFLICT" /\ ~q.onWasJoin
    THEN [q EXCEPT !.afterOnConflict = TRUE] ELSE q

KeepPending == {"JOIN", "CROSS", "NATURAL", "LEFT", "RIGHT", "INNER", "OUTER", "FULL"}
ForgetCross(q, kw) == IF kw \in KeepPending THEN q ELSE [q EXCEPT !.crossNaturalPending = FALSE]

\* Which ON is a join's: joins with an ON wait for it, CROSS and NATURAL joins do not.
JoinKeyword(q, kw) ==
    CASE kw \in {"CROSS", "NATURAL"} /\ q.ctx = "from" -> [q EXCEPT !.crossNaturalPending = TRUE]
      [] kw = "JOIN" -> [q EXCEPT !.joinPendingOn = ~q.crossNaturalPending, !.crossNaturalPending = FALSE]
      [] kw = "STRAIGHT_JOIN" /\ q.ctx = "from" -> [q EXCEPT !.joinPendingOn = TRUE]
      [] kw = "USING" -> [q EXCEPT !.joinPendingOn = FALSE]
      [] kw = "ON" -> [q EXCEPT !.onWasJoin = q.joinPendingOn, !.joinPendingOn = FALSE]
      [] OTHER -> q

ClauseOf == [SELECT |-> "projection", FROM |-> "from", WHERE |-> "where", GROUP |-> "groupBy",
             HAVING |-> "having", ORDER |-> "orderBy", LIMIT |-> "tail", OFFSET |-> "tail",
             FETCH |-> "tail", FOR |-> "tail", UPDATE |-> "updateTarget", INSERT |-> "insertTarget",
             VALUES |-> "values", RETURNING |-> "returning"]
TailKeywords == {"GROUP", "HAVING", "ORDER", "LIMIT", "OFFSET", "FETCH", "FOR", "RETURNING"}

ClauseKeyword(q, kw, at) ==
    CASE kw = "WHERE" -> [q EXCEPT !.ctx = "where",
                                   !.where = IF @ = 0 /\ ~q.afterOnConflict THEN at ELSE @]
      [] kw = "SET" -> IF q.ctx = "updateTarget" THEN [q EXCEPT !.ctx = "set"] ELSE q
      [] kw = "WINDOW" -> IF q.ctx \in {"from", "where", "groupBy", "having"} THEN markTail(q, at) ELSE q
      [] kw \in TailKeywords -> markTail([q EXCEPT !.ctx = ClauseOf[kw]], at)
      [] kw = "INSERT" -> [q EXCEPT !.ctx = "insertTarget", !.isInsert = TRUE]
      [] kw \in {"SELECT", "FROM", "UPDATE", "VALUES"} -> [q EXCEPT !.ctx = ClauseOf[kw]]
      [] OTHER -> q

transition(q, kw, at) ==
    [ClauseKeyword(JoinKeyword(ForgetCross(SeeConflict(LeaveValues(q, kw), kw), kw), kw), kw, at)
        EXCEPT !.prevKw = kw]

-----------------------------------------------------------------------------
(* feed: one plain token of the current query.                             *)

OpenParen(q) ==
    LET o == CASE q.depth = 0 /\ q.ctx = "insertTarget" -> [q EXCEPT !.ctx = "insertColumns", !.colGuardSeen = FALSE]
               [] q.depth = 0 /\ q.ctx = "values" ->
                    [q EXCEPT !.ctx = "insertValueRow", !.rowGuardSeen = FALSE, !.rows = Append(@, <<>>)]
               [] OTHER -> q
    IN  [o EXCEPT !.depth = @ + 1]

CloseParen(q) ==
    LET d == IF q.depth > 0 THEN q.depth - 1 ELSE 0
    IN  [q EXCEPT !.depth = d,
                  !.ctx = CASE d = 0 /\ @ = "insertColumns" -> "insertAfterCol"
                            [] d = 0 /\ @ = "insertValueRow" -> "values"
                            [] OTHER -> @]

\* R7's tail rule: no unconditional item after a guarded one.
AfterGuarded(q) ==
    q.depth = 1 /\ \/ q.ctx = "insertColumns" /\ q.colGuardSeen
                   \/ q.ctx = "insertValueRow" /\ q.rowGuardSeen

FeedToken(q, at) ==
    LET t == text[at]
    IN  CASE t.k = "(" -> Out(OpenParen(q), 0, {})
          [] t.k = ")" -> Out(CloseParen(q), 0, {})
          [] t.k = "," -> Out(q, 0, Codes(AfterGuarded(q), "PairedGuards"))
          [] t.k = ";" -> Out([q EXCEPT !.ended = q.depth = 0], 0, {})
          [] t.k = "param" -> recordParams(q, <<at>>, <<>>, "skeleton")
          [] t.k = "positional" -> Out(q, 0, {"PositionalParam"})
          [] t.k = "ident" -> Out(IF q.depth = 0 THEN transition(q, t.w, at) ELSE q, 0, {})
          [] OTHER -> Out(q, 0, {})

feed(q, at) ==
    LET t == text[at]
    IN  CASE IsTrivia(t) -> Out(q, 0, {})
          [] ~IsTrivia(t) /\ q.ended ->
                Out([q EXCEPT !.extra = TRUE], 0, Codes(~q.extra, "MultipleStatements"))
          [] OTHER -> FeedToken(IF t.k = ";" THEN q ELSE [q EXCEPT !.stmtEnd = at + 1], at)

-----------------------------------------------------------------------------
(* The bodies of constructs.  consumeBody records what it passes over;     *)
(* peekBodyEnd walks a case's body again for its extent alone.  Both skip  *)
(* what a nested construct would hold.                                     *)

constructVocab == {"if-present", "endif", "choose", "case", "default", "end", "when", "order-by",
                   "key", "filter-tree", "predicate", "in"}
Openers == {"if-present", "choose", "when", "order-by", "filter-tree"}
CloserOf(w) == IF w = "if-present" THEN "endif" ELSE "end"

Push(stack, t) == IF IsMark(t, Openers) THEN Append(stack, CloserOf(t.w)) ELSE stack
Pop(stack, t) ==
    IF IsMark(t, {"endif", "end"}) /\ stack # <<>> /\ Last(stack) = t.w THEN Front(stack) ELSE stack
consumeStack(p, e) == FoldLeft(LAMBDA st, t : Pop(Push(st, t), t), <<>>, SubSeq(text, p, e - 1))
peekStack(p, e) ==
    FoldLeft(LAMBDA st, t : IF IsMark(t, Openers) THEN Push(st, t) ELSE Pop(st, t), <<>>, SubSeq(text, p, e - 1))

\* Where a body that starts at p ends: a marker of "terms" outside any nested
\* construct, or a lexical error, or the end of the file.
Stops(p, terms, Stack(_, _)) ==
    {e \in p..Len(text) : \/ IsMark(text[e], terms) /\ Stack(p, e) = <<>>
                          \/ text[e].k = "error"}
peekBodyEnd_AtEnd(p, terms) == Min(Stops(p, {"end"}, peekStack) \cup {End})
peekBodyEnd(p, terms) == Min(Stops(p, terms, peekStack) \cup {End})

BodyCodes(p, e) ==
    LET level0 == {i \in p..(e - 1) : consumeStack(p, i) = <<>>}
    IN  Codes(\E i \in p..(e - 1) : IsMark(text[i], Openers), "Nesting")
        \cup Codes(\E i \in level0 : IsMark(text[i], {"endif", "end"}), "Grammar")
        \cup Codes(\E i \in level0 : IsMark(text[i], {"in"}), "BadSlot")
        \cup Codes(\E i \in level0 : text[i].k = "positional", "PositionalParam")

Body(q, p, e, guards, in) ==
    LET ats == SelectSeq([i \in 1..(e - p) |-> p + i - 1],
                         LAMBDA i : text[i].k = "param" /\ consumeStack(p, i) = <<>>)
    IN  Out(recordParams(q, ats, guards, in).q, e, recordParams(q, ats, guards, in).codes \cup BodyCodes(p, e))
        @@ [term |-> IF e < End /\ text[e].k = "mark" THEN text[e].w ELSE ""]

consumeBody_Unguarded(q, p, terms, guards, in) ==
    Body(q, p, Min(Stops(p, terms, consumeStack) \cup {End}), <<>>, in)
\* The end of the body, the marker that ended it, and q with its parameters.
consumeBody(q, p, terms, guards, in) ==
    Body(q, p, Min(Stops(p, terms, consumeStack) \cup {End}), guards, in)

-----------------------------------------------------------------------------
(* @if-present and @when.                                                  *)

\* Parentheses are no place for a construct, those of an INSERT list excepted.
Misplaced(q) == q.depth # IF q.ctx \in {"insertColumns", "insertValueRow"} THEN 1 ELSE 0

SlotOf == [where |-> "whereConjunct", having |-> "havingConjunct", set |-> "setItem",
           insertColumns |-> "insertColumn", insertValueRow |-> "insertValue", from |-> "joinItem"]
SepOf(slot) ==
    CASE slot \in {"whereConjunct", "havingConjunct"} -> "AND"
      [] slot \in {"setItem", "insertColumn", "insertValue"} -> ","
      [] OTHER -> ""

\* The body without its separator: where it starts, and whether it was there.
stripLeadingToken(from, to, sep) ==
    LET first == firstTokenOf(from, to)
    IN  IF sep # "" /\ first # 0 /\ text[first].w = sep /\ text[first].k \in {"ident", ","}
        THEN [from |-> first + 1, had |-> TRUE]
        ELSE [from |-> from, had |-> FALSE]

GuardedItem(item) == [guards |-> item.guards, from |-> item.bodyFrom, to |-> item.bodyTo]
\* R7's bookkeeping of guarded columns and of the current row's guarded values.
NoteInsertItem(q, item) ==
    CASE item.slot = "insertColumn" -> [q EXCEPT !.cols = Append(@, GuardedItem(item)), !.colGuardSeen = TRUE]
      [] item.slot = "insertValue" ->
            [q EXCEPT !.rows = [@ EXCEPT ![Len(@)] = Append(@, GuardedItem(item))], !.rowGuardSeen = TRUE]
      [] OTHER -> q

GuardItem(p, guards, slot, body, strip) ==
    [kind |-> "guarded", guards |-> guards, slot |-> slot, from |-> p,
     to |-> IF body.term = "" THEN body.pos ELSE body.pos + 1,
     bodyFrom |-> strip.from, bodyTo |-> body.pos]
Place(q, item) == NoteInsertItem(AddItem(q, item), item)

CloseGuardBlock(q, item, body, strip) ==
    Out(Place(body.q, item), item.to,
        body.codes
        \cup Codes(Misplaced(q), "ConstructNested")
        \cup Codes(body.term = "", "Grammar")
        \cup Codes(SepOf(item.slot) # "" /\ ~strip.had, "ConjunctNeedsAnd")
        \cup Codes(item.slot = "insertColumn" /\ ~isSingleIdent(strip.from, body.pos), "BadIdentifier")
        \cup Codes(item.slot = "none", "BadSlot"))

GuardSlot(q) == IF q.ctx \in DOMAIN SlotOf THEN SlotOf[q.ctx] ELSE "none"
GuardBlock(q, p, guards, slot, body, strip) ==
    CloseGuardBlock(q, GuardItem(p, guards, slot, body, strip), body, strip)
GuardBody(q, p, guards, slot, body) ==
    GuardBlock(q, p, guards, slot, body, stripLeadingToken(p + 1, body.pos, SepOf(slot)))
finishGuardBlock(q, p, guards, terminator) ==
    GuardBody(q, p, guards, GuardSlot(q), consumeBody(q, p + 1, {terminator}, guards, "guarded"))

GuardAtom(p, op) == [param |-> p, op |-> op]
Distinct(s) == FoldLeft(LAMBDA acc, x : IF Contains(acc, x) THEN acc ELSE Append(acc, x), <<>>, s)

PresenceAtoms(args) == [i \in DOMAIN args |-> GuardAtom(args[i], "")]
parseIfPresent(q, p) ==
    [finishGuardBlock(q, p, PresenceAtoms(Distinct(text[p].args)), "endif") EXCEPT
        !.codes = @ \cup Codes(Cardinality(ToSet(text[p].args)) < Len(text[p].args), "Grammar")
                    \cup Codes(\E a \in ToSet(text[p].args) : ~snakeRe(a), "BadIdentifier")]

\* args: the parameter and the comparison with its literal.
parseWhen(q, p) ==
    [finishGuardBlock(q, p, <<GuardAtom(text[p].args[1], text[p].args[2])>>, "end") EXCEPT
        !.codes = @ \cup Codes(~snakeRe(text[p].args[1]), "BadIdentifier")]

-----------------------------------------------------------------------------
(* @choose, @order-by, @filter-tree: a marker, entries, @end.              *)

\* The loop over the entries: each step consumes one body and its terminator.
EntriesEnd(b, marks) ==
    Out(b.q, IF b.term = "" THEN b.pos ELSE b.pos + 1, b.codes \cup Codes(b.term = "", "Grammar"))
    @@ [marks |-> marks]
RECURSIVE Entries(_, _, _, _, _)
EntriesAfter(b, terms, in, marks) ==
    IF b.term \in {"", "end"} THEN EntriesEnd(b, marks)
    ELSE [Entries(b.q, b.pos + 1, terms, in, Append(marks, b.pos)) EXCEPT !.codes = @ \cup b.codes]
Entries(q, p, terms, in, marks) == EntriesAfter(consumeBody(q, p, terms, <<>>, in), terms, in, marks)

\* The entries named by "word", each with the extent of its body.
EntryAt(m, terms) ==
    [name |-> IF text[m].w = "default" THEN "" ELSE text[m].args[1],
     from |-> m + 1, to |-> peekBodyEnd(m + 1, terms)]
EntriesAt(ms, terms) == [j \in DOMAIN ms |-> EntryAt(ms[j], terms)]
Named(marks, word, terms) ==
    EntriesAt(SelectSeq(marks, LAMBDA i : text[i].w = word /\ (word = "default" \/ Len(text[i].args) = 1)), terms)
\* A body is empty when only whitespace is left of it: a comment is content.
Empty(entry) == entry.from >= entry.to

LeadCodes(lead) == Codes(lead # 0 /\ text[Max({1, lead})].k # "mark", "ChooseStructure")
StructureCodes(p, marks, word, named) ==
    LeadCodes(firstTokenOf(p + 1, End))
    \cup Codes(\E i, j \in DOMAIN marks : i < j /\ text[marks[i]].w = "default", "ChooseStructure")
    \cup Codes(\E i, j \in DOMAIN named : i < j /\ named[i].name = named[j].name, "ChooseStructure")
    \cup Codes(named = <<>>, "ChooseStructure")
    \cup Codes(\E i \in DOMAIN marks : text[marks[i]].w = word /\ Len(text[marks[i]].args) # 1, "Grammar")

\* The slot of a @choose: a projected expression, or a whole clause.
KeywordsOf(entries) == {clauseKeywordOf(entries[i].from, entries[i].to) : i \in {j \in DOMAIN entries : ~Empty(entries[j])}}
CaseKeywords(cases) == {clauseKeywordOf(cases[i].from, cases[i].to) : i \in DOMAIN cases}
ClauseSlot(kws, dflt) ==
    CASE kws = {"ORDER"} /\ dflt \subseteq kws -> "orderBy"
      [] kws = {"GROUP"} /\ dflt \subseteq kws -> "groupBy"
      [] OTHER -> "none"
ClauseChoice(kws, dflt) ==
    [slot |-> ClauseSlot(kws, dflt),
     codes |-> Codes(ClauseSlot(kws, dflt) = "none" /\ (kws # {} \/ dflt \notin SUBSET {""}), "ChooseStructure")]
classifyChoose(cases, defaults, inProjection) ==
    IF inProjection
    THEN [slot |-> "projExpr",
          codes |-> Codes(\E e \in ToSet(cases \o defaults) : Empty(e), "ChooseStructure")]
    ELSE ClauseChoice(CaseKeywords(cases), KeywordsOf(defaults))

ConstructItem(kind, slot, p, e, entries, defaults) ==
    [kind |-> kind, slot |-> slot, param |-> text[p].args[1], from |-> p, to |-> e.pos,
     cases |-> entries, defaults |-> defaults]

ChooseTerms == {"case", "default", "end"}
EnterClause(q, slot, at) ==
    IF slot \in {"orderBy", "groupBy"} THEN markTail([q EXCEPT !.ctx = slot], at) ELSE q

ChooseItem(q, p, e, cases, defaults, c) ==
    Out(EnterClause(AddItem(e.q, ConstructItem("choose", c.slot, p, e, cases, defaults)), c.slot, p), e.pos,
        e.codes \cup c.codes \cup StructureCodes(p, e.marks, "case", cases)
        \cup Codes(q.depth > 0, "ConstructNested") \cup Codes(q.ctx = "none", "BadSlot"))
ChooseCases(q, p, e, cases, defaults) ==
    ChooseItem(q, p, e, cases, defaults, classifyChoose(cases, defaults, q.ctx = "projection"))
ChooseEntries(q, p, e) ==
    ChooseCases(q, p, e, Named(e.marks, "case", ChooseTerms), Named(e.marks, "default", ChooseTerms))
parseChoose(q, p) == ChooseEntries(q, p, Entries(q, p + 1, ChooseTerms, "case", <<>>))

OrderTerms == {"key", "default", "end"}
OrderItem(q, p, e, keys, defaults) ==
    Out([AddItem(e.q, ConstructItem("orderby", "orderBy", p, e, keys, defaults)) EXCEPT !.ctx = "orderBy"], e.pos,
        e.codes \cup StructureCodes(p, e.marks, "key", keys)
        \cup Codes(q.depth > 0, "ConstructNested")
        \cup Codes(q.ctx \in {"projection", "none"}, "BadSlot")
        \cup Codes(\E i \in DOMAIN keys : Empty(keys[i]), "ChooseStructure")
        \cup Codes(KeywordsOf(defaults) \notin SUBSET {"ORDER"}, "ChooseStructure"))
OrderEntries(q, p, e) ==
    OrderItem(q, p, e, Named(e.marks, "key", OrderTerms), Named(e.marks, "default", OrderTerms))
parseOrderBy(q, p) == OrderEntries(q, p, Entries(q, p + 1, OrderTerms, "case", <<>>))

TreeTerms == {"predicate", "end"}
TreeItem(q, p, e, preds) ==
    Out(AddItem(e.q, ConstructItem("tree", IF q.ctx = "having" THEN "havingConjunct" ELSE "whereConjunct",
                                   p, e, preds, <<>>)), e.pos,
        e.codes \cup StructureCodes(p, e.marks, "predicate", preds)
        \cup Codes(q.depth > 0, "ConstructNested")
        \cup Codes(q.ctx \notin {"where", "having"}, "BadSlot")
        \cup Codes(q.ctx \in {"where", "having"} /\ lastSignificantToken(q.skelStart, p) # "AND", "ConjunctNeedsAnd")
        \cup Codes(\E i \in DOMAIN q.items : q.items[i].kind = "tree", "ChooseStructure")
        \cup Codes(\E i \in DOMAIN preds : Empty(preds[i]), "ChooseStructure"))
TreeEntries(q, p, e) == TreeItem(q, p, e, Named(e.marks, "predicate", TreeTerms))
parseFilterTree(q, p) == TreeEntries(q, p, Entries(q, p + 1, TreeTerms, "tree", <<>>))

\* args: the parameter.  Its occurrence is marked as a list.
parseIn(q, p) ==
    LET good == snakeRe(text[p].args[1])
        o == [name |-> text[p].args[1], at |-> p, guards |-> <<>>, in |-> "in"]
    IN  Out(AddItem(IF good THEN [q EXCEPT !.occ = Append(@, o)] ELSE q,
                    [kind |-> "in", param |-> text[p].args[1], from |-> p, to |-> p + 1]), p + 1,
            Codes(q.depth # 0, "ConstructNested") \cup Codes(q.ctx \notin {"where", "having"}, "BadSlot")
            \cup Codes(~good, "BadIdentifier"))

\* One construct of the current query, from its marker to its end.
Handle(q, p) ==
    LET t == text[p]
        single == t.ok /\ Len(t.args) = 1
    IN  CASE t.w = "if-present" /\ t.ok -> parseIfPresent(q, p)
          [] t.w = "when" /\ t.ok -> parseWhen(q, p)
          [] t.w = "choose" /\ single -> parseChoose(q, p)
          [] t.w = "order-by" /\ single -> parseOrderBy(markTail(q, p), p)
          [] t.w = "order-by" /\ ~single -> Out(markTail(q, p), p + 1, {"Grammar"})
          [] t.w = "filter-tree" /\ single -> parseFilterTree(q, p)
          [] t.w = "in" /\ t.ok -> parseIn(q, p)
          [] OTHER -> Out(q, p + 1, {"Grammar"})

-----------------------------------------------------------------------------
(* Directives.                                                             *)

PerfLints == {"L001", "L002"}
Setting(t, key, val) == [d |-> t.d, key |-> key, val |-> val]
Declares(q, d, key) == \E x \in q.settings : x.d = d /\ x.key = key
Declare(q, new) == [q EXCEPT !.settings = @ \cup new]

\* -- @param and -- @column: a second hint of a name replaces the first.
applyHint(q, t) ==
    Out(Declare([q EXCEPT !.settings = {x \in @ : ~(x.d = t.d /\ x.key = t.key)}], {Setting(t, t.key, t.val)}), 0, {})

applyPolicy(q, t) ==
    IF t.form THEN Out(Declare(q, {Setting(t, t.key, t.val)}), 0, {}) ELSE Out(q, 0, {"Grammar"})

\* Neither a second deadline nor a malformed or non-positive one is recorded.
applyTimeout(q, t) ==
    IF Declares(q, "timeout", "") \/ ~t.form \/ t.val = "0s"
    THEN Out(q, 0, {"BadTimeout"})
    ELSE Out(Declare(q, {Setting(t, "", t.val)}), 0, {})

applyNullable(q, t) ==
    IF ~t.form \/ Declares(q, "nullable", t.key)
    THEN Out(q, 0, {"BadNullable"})
    ELSE Out(Declare(q, {Setting(t, t.key, t.val)}), 0, {})

\* All or nothing: val is the set of codes named.
applyNoLint(q, t) ==
    IF ~t.form \/ ~(t.val \subseteq PerfLints)
    THEN Out(q, 0, {"BadNoLint"})
    ELSE Out(Declare(q, {Setting(t, c, "") : c \in t.val}), 0, {})

applyDirective(q, t) ==
    CASE t.d \in {"param", "column"} -> applyHint(q, t)
      [] t.d \in {"optout", "apply"} -> applyPolicy(q, t)
      [] t.d = "timeout" -> applyTimeout(q, t)
      [] t.d = "nullable" -> applyNullable(q, t)
      [] t.d = "nolint" -> applyNoLint(q, t)

applyDirectives(q) ==
    FoldLeft(LAMBDA r, i : LET x == applyDirective(r.q, text[i]) IN [x EXCEPT !.codes = @ \cup r.codes],
             Out(q, 0, {}), pend)

-----------------------------------------------------------------------------
(* finalize: a query is finished at the next header or at the end.         *)

filterTreeTailTokens == {"AND", "GROUP", "HAVING", "WINDOW", "ORDER", "LIMIT", "OFFSET", "FETCH", "FOR",
                         "UNION", "INTERSECT", "EXCEPT", "RETURNING", ";"}
checkFilterTreeTail(items) ==
    Codes(\E i \in 1..(Len(items) - 1) :
              /\ items[i].kind = "tree" /\ items[i + 1].kind = "skeleton"
              /\ LET first == firstTokenOf(items[i + 1].from, items[i + 1].to)
                 IN  first # 0 /\ text[first].w \notin filterTreeTailTokens,
          "ConjunctNeedsAnd")

\* The atoms in the order of their bits; the scan stops at the first too many.
GuardAtoms(items) ==
    Distinct(FlattenSeq([i \in DOMAIN items |-> IF items[i].kind = "guarded" THEN items[i].guards ELSE <<>>]))

checkEncodingLimits(q) ==
    Codes(Cardinality({q.occ[i].name : i \in DOMAIN q.occ}) > MaxParams, "TooManyParams")
    \cup Codes(\E it \in ToSet(q.items) :
                  \/ it.kind = "orderby" /\ Len(it.cases) > MaxOrderKeys
                  \/ it.kind = "choose" /\ Len(it.cases \o it.defaults) > MaxChooseOrdinals,
              "TooManyGuards")

assignGuardBits(q, atoms) ==
    Out([q EXCEPT !.atoms = SubSeq(atoms, 1, Min({MaxGuards, Len(atoms)}))], 0,
        Codes(Len(atoms) > MaxGuards, "TooManyGuards"))
Checked(q) ==
    [assignGuardBits(q, GuardAtoms(q.items)) EXCEPT
        !.codes = @ \cup checkFilterTreeTail(q.items) \cup checkEncodingLimits(q)]
finalize(q, upTo) == IF q.open THEN Checked(flushSkeleton(q, upTo)) ELSE Out(q, 0, {})

-----------------------------------------------------------------------------
(* The pass over the file.                                                 *)

checkLoneCR(t) == Codes(\E i \in DOMAIN t : t[i].k = "comment" /\ t[i].w = "cr", "LoneCR")

Init ==
    /\ text \in Texts
    /\ pos = 1 /\ qb = NoQuery /\ pend = <<>> /\ names = {} /\ file = <<>>
    /\ diags = checkLoneCR(text)
    /\ stray = FALSE

Scanning == pos <= Len(text)
Report(codes) == diags' = diags \cup codes
Keep(q, p) == qb' = q /\ pos' = p

\* A header finishes the query before it and takes the directives since.
StartQuery ==
    /\ Scanning /\ text[pos].k = "header"
    /\ LET name == text[pos].w
           last == finalize(qb, pos)
           dirs == applyDirectives(queryBuilder(name, pos))
       IN  /\ file' = IF qb.open THEN Append(file, last.q) ELSE file
           /\ Keep(dirs.q, pos + 1)
           /\ Report(last.codes \cup dirs.codes \cup Codes(name \in names, "DuplicateQueryName"))
           /\ names' = names \cup {name}
    /\ pend' = <<>> /\ stray' = FALSE
    /\ UNCHANGED text

\* A directive waits until its query is known; before any header it is ignored.
BufferDirective ==
    /\ Scanning /\ text[pos].k = "directive"
    /\ pend' = IF qb.open THEN Append(pend, pos) ELSE pend
    /\ pos' = pos + 1
    /\ UNCHANGED <<text, qb, names, file, diags, stray>>

\* Before any header: comments are skipped, anything else is reported once.
StrayToken ==
    /\ Scanning /\ ~qb.open /\ text[pos].k \notin {"header", "directive", "error"}
    /\ stray' = (stray \/ ~IsTrivia(text[pos]))
    /\ Report(Codes(~stray /\ ~IsTrivia(text[pos]), "MissingHeader"))
    /\ pos' = pos + 1
    /\ UNCHANGED <<text, qb, pend, names, file>>

\* A plain token; one that is not a comment claims the waiting directives.
FeedNext ==
    /\ Scanning /\ qb.open /\ text[pos].k \notin {"header", "directive", "mark", "error"}
    /\ LET claim == IF IsTrivia(text[pos]) THEN Out(qb, 0, {}) ELSE applyDirectives(qb)
           r == feed(claim.q, pos)
       IN  Keep(r.q, pos + 1) /\ Report(claim.codes \cup r.codes)
    /\ pend' = IF IsTrivia(text[pos]) THEN pend ELSE <<>>
    /\ UNCHANGED <<text, names, file, stray>>

handleConstruct_NoClaim ==
    /\ Scanning /\ qb.open /\ text[pos].k = "mark" /\ ~qb.ended
    /\ LET r == Handle(qb, pos)
       IN  Keep([r.q EXCEPT !.stmtEnd = r.pos], r.pos) /\ Report(r.codes)
    /\ UNCHANGED <<text, pend, names, file, stray>>
\* A construct claims them too, unless the statement has ended.
handleConstruct ==
    /\ Scanning /\ qb.open /\ text[pos].k = "mark" /\ ~qb.ended
    /\ LET claim == applyDirectives(qb)
           r == Handle(claim.q, pos)
       IN  Keep([r.q EXCEPT !.stmtEnd = r.pos], r.pos) /\ Report(claim.codes \cup r.codes)
    /\ pend' = <<>>
    /\ UNCHANGED <<text, names, file, stray>>

ConstructAfterEnd ==
    /\ Scanning /\ qb.open /\ text[pos].k = "mark" /\ qb.ended
    /\ Keep([qb EXCEPT !.extra = TRUE], pos + 1)
    /\ Report(Codes(~qb.extra, "MultipleStatements"))
    /\ UNCHANGED <<text, pend, names, file, stray>>

\* The end of the file, or a lexical error: the last query takes what waits.
Finish ==
    /\ pos <= End /\ Scanning => text[pos].k = "error"
    /\ LET dirs == IF qb.open THEN applyDirectives(qb) ELSE Out(qb, 0, {})
           last == finalize(dirs.q, End)
       IN  /\ file' = IF qb.open THEN Append(file, last.q) ELSE file
           /\ Report(dirs.codes \cup last.codes \cup Codes(Scanning, "Grammar"))
    /\ qb' = NoQuery /\ pend' = <<>> /\ pos' = End + 1
    /\ UNCHANGED <<text, names, stray>>

Next == StartQuery \/ BufferDirective \/ StrayToken \/ FeedNext \/ handleConstruct \/ ConstructAfterEnd \/ Finish
Spec == Init /\ [][Next]_vars

-----------------------------------------------------------------------------
(* R6 and R7 on the finished query (internal/rules/lexical.go).            *)

supersetAtoms(a, b) == ToSet(b) \subseteq ToSet(a)
sameAtoms_Covers(a, b) == supersetAtoms(a, b)
sameAtoms(a, b) == supersetAtoms(a, b) /\ supersetAtoms(b, a)

\* R7: every row's guarded values repeat the guarded columns' conditions.
checkInsertPairing(q) ==
    LET rowOK(row) == Len(row) = Len(q.cols)
                      /\ \A i \in DOMAIN row : sameAtoms(row[i].guards, q.cols[i].guards)
    IN  \/ q.cols = <<>> /\ \A r \in DOMAIN q.rows : q.rows[r] = <<>>
        \/ q.rows # <<>> /\ \A r \in DOMAIN q.rows : rowOK(q.rows[r])

\* The token before an item: a construct's when the item before it is one.
Before(q, i) ==
    IF q.items[i - 1].kind = "skeleton"
    THEN LET sk == q.items[i - 1]
             last == lastSignificantToken(sk.from, sk.to)
         IN  IF last = "" /\ i > 2 THEN "@construct" ELSE last
    ELSE "@construct"
AnchorOf_WhereOnly == [whereConjunct |-> "WHERE", havingConjunct |-> "HAVING"]
AnchorOf == [whereConjunct |-> "WHERE", havingConjunct |-> "HAVING", setItem |-> "SET",
             insertColumn |-> "(", insertValue |-> "("]
\* R6: no list starts with an optional item.
checkAnchors(q) ==
    \A i \in DOMAIN q.items :
        /\ q.items[i].kind = "guarded" /\ q.items[i].slot \in DOMAIN AnchorOf /\ i > 1
        => Before(q, i) # AnchorOf[q.items[i].slot]

-----------------------------------------------------------------------------
(* Properties of a file that was scanned without a report.                 *)

Done == pos = End + 1
Accepted == Done /\ diags = {}
Extent(k) == (file[k].hdr + 1)..((IF k < Len(file) THEN file[k + 1].hdr ELSE End) - 1)
TokensOf(k, P(_)) == {i \in Extent(k) : P(text[i])}
InOrder(S) == SelectSeq([i \in DOMAIN text |-> i], LAMBDA i : i \in S)

\* Where the policy weaver will write: WhereKwEnd is the statement's own
\* WHERE and never a subquery's, a join's or the ON CONFLICT clause's;
\* without one TailStart is the first clause a WHERE must precede; and
\* StmtEnd is past the last token of the statement, before its semicolon.
\* (No WHERE is ever synthesized in an INSERT.)
InsertionPoints ==
    Accepted => \A k \in DOMAIN file :
        LET own == TokensOf(k, LAMBDA t : t.role = "where")
            tails == TokensOf(k, LAMBDA t : t.role = "tail")
        IN  /\ file[k].where = Min(own \cup {End}) % End
            /\ own = {} /\ ~file[k].isInsert => file[k].tail = Min(tails \cup {End}) % End
            /\ file[k].stmtEnd = Max(TokensOf(k, LAMBDA t : ~IsTrivia(t) /\ t.k # ";") \cup {-1}) + 1

\* The construct a token lies in, 0 for the skeleton.
Opener(k, i) ==
    LET j == Max({x \in Extent(k) : x < i /\ IsMark(text[x], Openers)} \cup {0})
    IN  IF j > 0 /\ \E x \in (j + 1)..(i - 1) : IsMark(text[x], {"endif", "end"}) THEN 0 ELSE j
GuardsOf(j) ==
    CASE j = 0 -> {}
      [] j > 0 /\ text[j].w = "if-present" -> {GuardAtom(a, "") : a \in ToSet(text[j].args)}
      [] j > 0 /\ text[j].w = "when" -> {GuardAtom(text[j].args[1], text[j].args[2])}
      [] OTHER -> {}
PlaceOf(j) ==
    CASE j = 0 -> "skeleton"
      [] j > 0 /\ text[j].w \in {"if-present", "when"} -> "guarded"
      [] j > 0 /\ text[j].w = "filter-tree" -> "tree"
      [] OTHER -> "case"

\* consumeBody and peekBodyEnd each walk the bodies of a construct, and agree:
\* the entries are exactly the construct's markers, each body reaching from its
\* marker to the next one of the construct, and every :name is recorded once,
\* with the conditions under which it is sent (what R9 and the bind plan use).
TermsOf == [choose |-> ChooseTerms, orderby |-> OrderTerms, tree |-> TreeTerms]
CaseExact(it) ==
    LET marks == {x \in it.from..(it.to - 1) : IsMark(text[x], TermsOf[it.kind])}
    IN  {<<e.from - 1, e.to>> : e \in ToSet(it.cases \o it.defaults)}
        = {<<x, y>> \in marks \X marks : x < y /\ ~\E z \in marks : x < z /\ z < y}
ParamPlaced(k, i) ==
    LET at == {n \in DOMAIN file[k].occ : file[k].occ[n].at = i}
    IN  /\ Cardinality(at) = 1
        /\ \A n \in at : /\ ToSet(file[k].occ[n].guards) = GuardsOf(Opener(k, i))
                         /\ file[k].occ[n].in = PlaceOf(Opener(k, i))
BodiesExact ==
    Accepted => \A k \in DOMAIN file :
        /\ \A it \in ToSet(file[k].items) : it.kind \in DOMAIN TermsOf => CaseExact(it)
        /\ \A i \in TokensOf(k, LAMBDA t : t.k = "param") : ParamPlaced(k, i)

\* Whom a directive belongs to: the query whose body continues past it, else
\* the one whose header follows, else the last.
Significant(i) == ~IsTrivia(text[i]) \/ text[i].k = "header"
OwnerOf(i) ==
    LET before == Max({k \in DOMAIN file : file[k].hdr < i} \cup {0})
        next == {j \in (i + 1)..Len(text) : Significant(j)}
    IN  IF before > 0 /\ next # {} /\ text[Min(next)].k = "header" THEN before + 1 ELSE before
Effects(t) ==
    IF t.d = "nolint" THEN {Setting(t, c, "") : c \in t.val}
    ELSE {Setting(t, IF t.d = "timeout" THEN "" ELSE t.key, t.val)}
Owned(k, In(_)) == {i \in DOMAIN text : text[i].k = "directive" /\ OwnerOf(i) = k /\ In(i)}
Replaced(i, j) == i < j /\ text[i].d \in {"param", "column"} /\ text[j].d = text[i].d /\ text[j].key = text[i].key
SettingsOf(k, In(_)) ==
    UNION {Effects(text[i]) : i \in {x \in Owned(k, In) : ~\E j \in Owned(k, In) : Replaced(x, j)}}
OutsideBodies(i) == \A k \in DOMAIN file : i \in Extent(k) => Opener(k, i) = 0

\* A query has exactly the settings written for it: an opt-out or a deadline
\* never drifts to the neighbour, whatever stands between.
DirectivesOwned ==
    Accepted => \A k \in DOMAIN file : file[k].settings = SettingsOf(k, OutsideBodies)

\* The shapes of a query are the subsets of its conditions.
Shapes(q) == SUBSET ToSet(q.atoms)
\* The tokens of one role that a shape sends, as their places in the maximal one.
Sent(k, role, on) ==
    LET all == InOrder(TokensOf(k, LAMBDA t : t.role = role))
    IN  SelectSeq([n \in DOMAIN all |-> n], LAMBDA n : GuardsOf(Opener(k, all[n])) \subseteq on)

\* What a shape sends: the skeleton, and the bodies whose conditions hold.
Shape(k, on) ==
    LET significant == InOrder(TokensOf(k, LAMBDA t : ~IsTrivia(t) /\ t.k # "mark"))
        sent == SelectSeq(significant, LAMBDA i : GuardsOf(Opener(k, i)) \subseteq on)
    IN  [n \in DOMAIN sent |-> text[sent[n]].w]

\* R7: when the tail rule and the pairing pass, and the database takes the
\* maximal INSERT, every shape pairs each column with the value written for it.
\* R6: no shape starts a clause or a list with a separator.
Aligned(k, on) == \A row \in {"row1", "row2"} :
    Len(Sent(k, "col", ToSet(file[k].atoms))) = Len(Sent(k, row, ToSet(file[k].atoms)))
        => Sent(k, "col", on) = Sent(k, row, on)
Anchored(k, on) ==
    LET s == Shape(k, on)
    IN  ~\E n \in 1..(Len(s) - 1) : s[n] \in {"WHERE", "HAVING", "SET", "("} /\ s[n + 1] \in {"AND", ","}
EveryShapeFits ==
    Accepted => \A k \in DOMAIN file : \A on \in Shapes(file[k]) :
        /\ checkInsertPairing(file[k]) => Aligned(k, on)
        /\ checkAnchors(file[k]) => Anchored(k, on)
=============================================================================
