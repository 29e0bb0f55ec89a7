------------------------------ MODULE ListRules ------------------------------
(***************************************************************************)
(* R1 for the comma lists: SET items, VALUES items and sort keys           *)
(* (internal/rules/r1.go and the probes of the three dialects).  A body is *)
(* parsed alone first; a statement is then what its items and its active   *)
(* fragments spell, and each must count for one item of the list.          *)
(*                                                                         *)
(* Tokens: "v" an operand, the clause words, commas, parentheses, "DESC".  *)
(***************************************************************************)
EXTENDS Integers, Sequences, FiniteSets, SequencesExt

Words == {"SET", "WHERE", "VALUES", "ORDER", "LIMIT", "RETURNING"}
\* The orders in which clauses may follow each other.
Follow == [SET |-> {"WHERE", "RETURNING"}, WHERE |-> {"ORDER", "LIMIT", "RETURNING"},
           VALUES |-> {"ORDER", "LIMIT", "RETURNING"}, ORDER |-> {"LIMIT", "RETURNING"},
           LIMIT |-> {"RETURNING"}, RETURNING |-> {}]

Level(s, k) ==
    Cardinality({m \in 1..k : s[m] = "("}) - Cardinality({m \in 1..k : s[m] = ")"})
Even(s) == Level(s, Len(s)) = 0 /\ \A k \in DOMAIN s : Level(s, k) >= 0

\* Cut before each position of C, which holds 1.
Cuts(s, C) ==
    LET from == SelectSeq([i \in DOMAIN s |-> i], LAMBDA i : i \in C)
    IN  [n \in DOMAIN from |->
            SubSeq(s, from[n], IF n = Len(from) THEN Len(s) ELSE from[n + 1] - 1)]
\* The items between the commas outside parentheses; s is not empty.
Items(s) ==
    LET cuts == Cuts(<<",">> \o s, {1} \cup {k + 1 : k \in {k \in DOMAIN s : s[k] = "," /\ Level(s, k) = 0}})
    IN  [n \in DOMAIN cuts |-> Tail(cuts[n])]
Clauses(s) == Cuts(s, {1} \cup {k \in DOMAIN s : s[k] \in Words /\ Level(s, k) = 0})

Operand(item) == item \in {<<"v">>, <<"(", "v", ")">>}
SortKey(item) == Operand(item) \/ (item # <<>> /\ Last(item) = "DESC" /\ Operand(Front(item)))
Row(item) ==
    /\ Len(item) > 2 /\ Head(item) = "(" /\ Last(item) = ")"
    /\ LET in == SubSeq(item, 2, Len(item) - 1)
       IN  Even(in) /\ \A n \in DOMAIN Items(in) : Operand(Items(in)[n])
ClauseOK(c) ==
    /\ Len(c) > 1 /\ Head(c) \in Words
    /\ \A n \in DOMAIN Items(Tail(c)) :
          LET item == Items(Tail(c))[n]
          IN  CASE Head(c) = "VALUES" -> Row(item)
                [] Head(c) = "ORDER" -> SortKey(item)
                [] OTHER -> Operand(item)

\* fe.Parse of a statement that is a list of clauses.
ListParses(s) ==
    /\ s # <<>> /\ Even(s)
    /\ \A n \in DOMAIN Clauses(s) :
          /\ ClauseOK(Clauses(s)[n])
          /\ n > 1 => Head(Clauses(s)[n]) \in Follow[Head(Clauses(s)[n - 1])]
WordsOf(s) == [n \in DOMAIN Clauses(s) |-> Head(Clauses(s)[n])]
\* The items of a clause, of each row for VALUES.
Sizes(s, word) ==
    LET c == Tail(SelectSeq(Clauses(s), LAMBDA x : Head(x) = word)[1])
    IN  IF word # "VALUES" THEN <<Len(Items(c))>>
        ELSE [n \in DOMAIN Items(c) |->
                 LET row == Items(c)[n] IN Len(Items(SubSeq(row, 2, Len(row) - 1)))]

-----------------------------------------------------------------------------
(* The probes: a body alone in the smallest statement with its slot.       *)

ProbeSetItem(body) ==
    LET s == <<"SET">> \o body
    IN  ListParses(s) /\ WordsOf(s) = <<"SET">> /\ Sizes(s, "SET") = <<1>>

\* PostgreSQL's VALUES may be sorted and limited, which the probe does not look at.
ProbeInsertValue(body) ==
    LET s == <<"VALUES", "(">> \o body \o <<")">>
    IN  ListParses(s) /\ "RETURNING" \notin ToSet(WordsOf(s)) /\ Sizes(s, "VALUES") = <<1>>

ProbeOrderByKey(body) ==
    LET s == <<"ORDER">> \o body
    IN  ListParses(s) /\ WordsOf(s) = <<"ORDER">> /\ Sizes(s, "ORDER") = <<1>>

ProbeOrderBy(clause) == ListParses(clause) /\ WordsOf(clause) = <<"ORDER">>

\* balanced: the precondition that makes wrapping a body in parentheses sound.
BodyEven(body) == Even(body)

\* probeSetItem and probeInsertValue.
probeItem(slot, body) ==
    BodyEven(body) /\ IF slot = "SET" THEN ProbeSetItem(body) ELSE ProbeInsertValue(body)

-----------------------------------------------------------------------------
(* A list with optional items: n unconditional ones, bodies, a tail.       *)

CommaList(n, bodies) ==
    FlattenSeq([i \in 1..n |-> IF i = 1 THEN <<"v">> ELSE <<",", "v">>])
    \o FlattenSeq([i \in DOMAIN bodies |-> <<",">> \o bodies[i]])
ListText(slot, n, bodies, tail) ==
    IF slot = "SET" THEN <<"SET">> \o CommaList(n, bodies) \o tail
    ELSE <<"VALUES", "(">> \o CommaList(n, bodies) \o <<")">> \o tail

\* CheckR1 on the list: the probes, and the maximal rendering parses.
CheckList(l) ==
    /\ \A i \in DOMAIN l.bodies : probeItem(l.slot, l.bodies[i])
    /\ ListParses(ListText(l.slot, l.n, l.bodies, l.tail))

ActiveBodies(bodies, S) ==
    LET ix == SelectSeq([i \in DOMAIN bodies |-> i], LAMBDA i : i \in S)
    IN  [n \in DOMAIN ix |-> bodies[ix[n]]]
\* In every shape the statement has the skeleton's clauses, one row, and one
\* item per unconditional item and active fragment.
ListKeepsShape(l) ==
    \A S \in SUBSET DOMAIN l.bodies :
        LET s == ListText(l.slot, l.n, ActiveBodies(l.bodies, S), l.tail)
        IN  /\ ListParses(s)
            /\ WordsOf(s) = WordsOf(ListText(l.slot, l.n, <<>>, l.tail))
            /\ Sizes(s, l.slot) = <<l.n + Cardinality(S)>>

-----------------------------------------------------------------------------
(* @order-by: the keys, an optional default clause, what follows, and the  *)
(* clauses of PostgreSQL an ORDER BY is coupled to.                        *)

\* seq: elements 2 * key + desc, keys from 0.
OrderText(o, seq) ==
    IF seq = <<>> THEN FlattenSeq(o.default)
    ELSE <<"ORDER">> \o FlattenSeq([n \in DOMAIN seq |->
             (IF n > 1 THEN <<",">> ELSE <<>>) \o o.keys[(seq[n] \div 2) + 1]
             \o (IF seq[n] % 2 = 1 THEN <<"DESC">> ELSE <<>>)])
AllKeys(o) == [n \in DOMAIN o.keys |-> 2 * (n - 1)]
OrderStatement(o, seq) == <<"WHERE", "v">> \o OrderText(o, seq) \o o.tail

\* OrderByLocs: where each sort key of the statement begins.
OrderByLocs(s) ==
    LET at == {k \in DOMAIN s : s[k] = "ORDER"}
        end(a) == {k \in DOMAIN s : k > a /\ s[k] \in Words}
    IN  {k + 1 : k \in UNION {{m \in a..Len(s) : (m = a \/ s[m] = ",") /\ \A e \in end(a) : m < e} : a \in at}}

checkOrderByContainment_None(o, seq) == TRUE
\* No sort key stands outside the construct's range.
checkOrderByContainment(o, seq) ==
    OrderByLocs(OrderStatement(o, seq)) \subseteq 3..(2 + Len(OrderText(o, seq)))

OrderRenderings(o) == {AllKeys(o)} \cup (IF o.default = <<>> THEN {} ELSE {<<>>})

\* DISTINCT ON depends on the order of keys, WITH TIES on there being a clause.
orderCouplings(o) == ~o.distinctOn /\ (o.ties => o.default # <<>>)

CheckOrderBy(o) ==
    /\ \A n \in DOMAIN o.keys : BodyEven(o.keys[n]) /\ ProbeOrderByKey(o.keys[n])
    /\ \A n \in DOMAIN o.default : ProbeOrderBy(o.default[n])
    /\ \A seq \in OrderRenderings(o) :
          ListParses(OrderStatement(o, seq)) /\ checkOrderByContainment(o, seq)
    /\ orderCouplings(o)

\* Any subset of the keys, in any order, each in either direction.
Selections(o) ==
    UNION {{s \in [1..n -> 0..(2 * Len(o.keys) - 1)] :
               \A i, j \in 1..n : i # j => s[i] \div 2 # s[j] \div 2} : n \in 0..Len(o.keys)}

SelectionLegal(o, seq) ==
    LET s == OrderStatement(o, seq)
        clauses == IF ListParses(s) THEN ToSet(WordsOf(s)) ELSE {}
    IN  /\ ListParses(s)
        /\ seq # <<>> => Sizes(s, "ORDER") = <<Len(seq)>>
        /\ seq = <<>> => ("ORDER" \in clauses <=> o.default # <<>>)
        /\ o.ties => "ORDER" \in clauses
        /\ ~o.distinctOn
=============================================================================
