------------------------------ MODULE Template ------------------------------
(***************************************************************************)
(* A scanned query template and the catalog-free rules it must satisfy     *)
(* (internal/template, internal/rules/lexical.go).                         *)
(*                                                                         *)
(* A template is a sequence of items in document order.  A body is the     *)
(* sequence of its tokens: constant text or a :name parameter.  Only what  *)
(* the rules, the renderer and the composer tell apart is kept of it.      *)
(***************************************************************************)
EXTENDS Naturals, Sequences, SequencesExt

Text(s) == [text |-> s]
Param(p) == [param |-> p]
IsParam(tok) == "param" \in DOMAIN tok

\* A guard condition: presence (op = "") or a @when comparison.
Atom(p, op) == [param |-> p, op |-> op]

Skeleton(body) == [kind |-> "skeleton", body |-> body]
IfPresent(guards, sep, body) ==
    [kind |-> "guarded", guards |-> guards, sep |-> sep, body |-> body]
\* cases: a sequence of [name, body]; default: a sequence of at most one body.
Choose(p, cases, default) ==
    [kind |-> "choose", param |-> p, cases |-> cases, default |-> default]
OrderBy(p, keys, default) ==
    [kind |-> "orderby", param |-> p, keys |-> keys, default |-> default]
InExpr(p) == [kind |-> "in", param |-> p]
FilterTree(p, required, preds) ==
    [kind |-> "tree", param |-> p, required |-> required, preds |-> preds]

\* The items a scan produces.
Token == [text : STRING] \cup [param : STRING]
Body == Seq(Token)
SkeletonItem == [kind : {"skeleton"}, body : Body]
GuardedItem == [kind : {"guarded"}, guards : Seq([param : STRING, op : {"", "=", "!="}]),
                sep : {"and", "comma", "none"}, body : Body]
ChooseItem == [kind : {"choose"}, param : STRING,
               cases : Seq([name : STRING, body : Body]), default : Seq(Body)]
OrderItem == [kind : {"orderby"}, param : STRING, keys : Seq(Body), default : Seq(Body)]
InItem == [kind : {"in"}, param : STRING]
TreeItem == [kind : {"tree"}, param : STRING, required : BOOLEAN, preds : Seq(Body)]
Item == SkeletonItem \cup GuardedItem \cup ChooseItem \cup OrderItem \cup InItem \cup TreeItem
\* An item has at most one default.
IsItem(it) == it \in Item /\ (it.kind \in {"choose", "orderby"} => Len(it.default) <= 1)

OfKind(q, kind) ==
    FlattenSeq([i \in DOMAIN q |-> IF q[i].kind = kind THEN <<q[i]>> ELSE <<>>])

\* Where e first stands in s.
IndexIn(s, e) == SelectInSeq(s, LAMBDA x : x = e)

-----------------------------------------------------------------------------
(* What the scanner records.                                               *)

Distinct(s) ==
    FlattenSeq([i \in DOMAIN s |->
        IF \E j \in 1..(i - 1) : s[j] = s[i] THEN <<>> ELSE <<s[i]>>])

ParamsOf(body) ==
    FlattenSeq([i \in DOMAIN body |->
        IF IsParam(body[i]) THEN <<body[i].param>> ELSE <<>>])

\* The bodies of an item in document order.
Bodies(it) ==
    CASE it.kind \in {"skeleton", "guarded"} -> <<it.body>>
      [] it.kind = "choose" -> [i \in DOMAIN it.cases |-> it.cases[i].body] \o it.default
      [] it.kind = "orderby" -> it.keys \o it.default
      [] it.kind = "tree" -> it.preds
      [] it.kind = "in" -> << <<Param(it.param)>> >>

\* consumeBody and parseIn hand recordParam where each appearance lies.
ItemOccurrences(it) ==
    LET ps == ParamsOf(FlattenSeq(Bodies(it)))
    IN  [i \in DOMAIN ps |->
            [param |-> ps[i],
             guards |-> IF it.kind = "guarded" THEN ToSet(it.guards) ELSE {},
             inCase |-> it.kind \in {"choose", "orderby"},
             inTree |-> it.kind = "tree",
             inIn |-> it.kind = "in"]]

Occurrences(q) == FlattenSeq([i \in DOMAIN q |-> ItemOccurrences(q[i])])

\* assignGuardBits: identical conditions share a bit; atom i has bit i - 1.
GuardAtoms(q) ==
    Distinct(FlattenSeq([i \in DOMAIN q |->
                 IF q[i].kind = "guarded" THEN q[i].guards ELSE <<>>]))

\* Parameters in first-appearance order; assignGuardBits adds the ones that
\* only guard.
ParamOrder(q) ==
    LET occ == Occurrences(q)
        atoms == GuardAtoms(q)
    IN  Distinct([i \in DOMAIN occ |-> occ[i].param]
                 \o [i \in DOMAIN atoms |-> atoms[i].param])

\* parseFilterTree: at most one block per query.
OneTree(q) == Len(OfKind(q, "tree")) <= 1

\* parseChoose: a block's case names are distinct (and there is one).
CaseNamesDistinct(q) ==
    \A i \in DOMAIN q : q[i].kind = "choose" =>
        /\ q[i].cases # <<>>
        /\ \A j, k \in DOMAIN q[i].cases :
               q[i].cases[j].name = q[i].cases[k].name => j = k

-----------------------------------------------------------------------------
(* checkParamDiscipline (R9), parameter by parameter.                      *)

OccurrencesOf(q, p) == {o \in ToSet(Occurrences(q)) : o.param = p}
AtomsOf(q, p) == {a \in ToSet(GuardAtoms(q)) : a.param = p}
IsControl(q, p) ==
    \E i \in DOMAIN q : q[i].kind \in {"choose", "orderby", "tree"} /\ q[i].param = p
Presence(q, p) == Atom(p, "") \in AtomsOf(q, p)
IsWhen(q, p) == AtomsOf(q, p) \ {Atom(p, "")} # {}
SelfGuarded(o) == ~o.inCase /\ Atom(o.param, "") \in o.guards

\* A parameter that binds in @predicate bodies is a constructor argument.
InPredicate(q, p) == \E o \in OccurrencesOf(q, p) : o.inTree

BindsUnderOwnGuard_Somewhere(q, p) ==
    Presence(q, p) => \E o \in OccurrencesOf(q, p) : SelfGuarded(o)
\* The guard cases at the end of the loop: a presence parameter binds, and
\* only in fragments it guards itself.
BindsUnderOwnGuard(q, p) ==
    Presence(q, p) =>
        /\ OccurrencesOf(q, p) # {}
        /\ \A o \in OccurrencesOf(q, p) : SelfGuarded(o)

\* A name binds inside @predicate bodies or outside them, never both.
TreeOnly(q, p) ==
    LET occ == OccurrencesOf(q, p)
    IN  (\E o \in occ : o.inTree) => (\A o \in occ : o.inTree)

\* An @in list is never also a scalar.
ListOnly(q, p) ==
    LET occ == OccurrencesOf(q, p)
    IN  (\E o \in occ : o.inIn) => (\A o \in occ : o.inIn)

Disciplined(q, p) ==
    IF IsControl(q, p)
    THEN OccurrencesOf(q, p) = {} /\ AtomsOf(q, p) = {}
    ELSE /\ ListOnly(q, p)
         /\ TreeOnly(q, p)
         /\ ~InPredicate(q, p) =>
               /\ ~(Presence(q, p) /\ IsWhen(q, p))
               /\ ~IsWhen(q, p) => BindsUnderOwnGuard(q, p)

\* The side effect of the rule: an Omittable field of the params struct.
Optional(q, p) ==
    /\ ~IsControl(q, p) /\ ~InPredicate(q, p) /\ ~IsWhen(q, p)
    /\ Presence(q, p) /\ BindsUnderOwnGuard(q, p)

\* A template the compiler goes on with.
Accepted(q) ==
    /\ OneTree(q)
    /\ CaseNamesDistinct(q)
    /\ \A p \in ToSet(ParamOrder(q)) : Disciplined(q, p)
=============================================================================
