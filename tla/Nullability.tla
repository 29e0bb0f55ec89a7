------------------------------ MODULE Nullability ------------------------------
(***************************************************************************)
(* Which result columns may be NULL (internal/nullability).  The database  *)
(* attributes a column to a table through derived tables, CTEs and views;  *)
(* the analyzer decides whether that table's NOT NULL still holds.         *)
(*                                                                         *)
(* A statement is a tree of levels                                         *)
(*   [kind, ctes, from, targets, group, rollup, setop, notnull]            *)
(* of CTEs [name, body, recursive, dml], relations                         *)
(* [alias, name, schema, only, join, guarded, sub] (sub is <<>>, or <<l>>  *)
(* for a derived table), targets [kind, qual, col, sub] and conjuncts      *)
(* "qual.col IS NOT NULL" [qual, col, guarded].  A set operation is the    *)
(* level of its first operand.                                             *)
(***************************************************************************)
EXTENDS Integers, Sequences, FiniteSets, SequencesExt

CONSTANT
    Tables       \* [name |-> [notnull, cols, children, view]]

Dialects == {"postgres", "mysql", "sqlite"}
UpperCase == [A |-> "a", B |-> "b", V |-> "v", T |-> "t"]
\* Names match exactly for the analyzer and the catalog; SQLite folds them.
FoldedName(n) == IF n \in DOMAIN UpperCase THEN UpperCase[n] ELSE n
Matching(d, a, b) == IF d = "sqlite" THEN FoldedName(a) = FoldedName(b) ELSE a = b

\* collectFromItem: the sides that outer joins null-extend; joins are left-deep.
NullableSide(from, i) ==
    \/ from[i].join \in {"LEFT", "FULL"}
    \/ \E j \in DOMAIN from : j > i /\ from[j].join \in {"RIGHT", "FULL"}

-----------------------------------------------------------------------------
(* CTE scopes: a stack of WITH lists, the innermost last.                  *)

Bound(scope, name) ==
    {p \in (DOMAIN scope) \X (1..3) : p[2] <= Len(scope[p[1]]) /\ scope[p[1]][p[2]].name = name}
Innermost(P) == CHOOSE p \in P : \A q \in P : q[1] <= p[1]

BodyScope_WholeList(scope, p) ==
    Append(SubSeq(scope, 1, p[1] - 1), SelectSeq(scope[p[1]], LAMBDA def : def # scope[p[1]][p[2]]))
\* cteBinding.bodyEnv: a body sees what surrounds its WITH list and the
\* definitions before it, wherever it is referred to from.
BodyScope(scope, p) == Append(SubSeq(scope, 1, p[1] - 1), SubSeq(scope[p[1]], 1, p[2] - 1))

-----------------------------------------------------------------------------
(* The analyzer.                                                           *)

InCatalog(name) == name \in DOMAIN Tables

\* DeepTables: every name in a relation position, at any depth.
RECURSIVE DeepTables(_)
DeepTables(l) ==
    {l.from[i].name : i \in {i \in DOMAIN l.from : l.from[i].sub = <<>>}}
    \cup UNION {DeepTables(l.from[i].sub[1]) : i \in {i \in DOMAIN l.from : l.from[i].sub # <<>>}}
    \cup UNION {DeepTables(l.ctes[i].body) : i \in DOMAIN l.ctes}
    \cup UNION {DeepTables(l.targets[i].sub[1]) : i \in {i \in DOMAIN l.targets : l.targets[i].sub # <<>>}}
RECURSIVE AnyQualified(_)
AnyQualified(l) ==
    \/ \E i \in DOMAIN l.from : l.from[i].schema \/ (l.from[i].sub # <<>> /\ AnyQualified(l.from[i].sub[1]))
    \/ \E i \in DOMAIN l.ctes : AnyQualified(l.ctes[i].body)
    \/ \E i \in DOMAIN l.targets : l.targets[i].sub # <<>> /\ AnyQualified(l.targets[i].sub[1])

touchesView(l) == \E n \in DeepTables(l) : InCatalog(n) /\ Tables[n].view

\* Attribution that carries no schema cannot tell qualified names apart.
HasUnresolvableProvenance(d, l) == d # "postgres" /\ AnyQualified(l)

Trusted_AnyGrouping(d, l) == ~l.setop /\ ~HasUnresolvableProvenance(d, l) /\ ~touchesView(l)
Trusted(d, l) == ~l.setop /\ ~l.rollup /\ ~HasUnresolvableProvenance(d, l) /\ ~touchesView(l)

\* TargetItems: a SELECT's projection.  A set operation has none, but on SQLite
\* that of its first operand.
TargetItems(d, l) == IF l.kind = "select" /\ (l.setop => d = "sqlite") THEN l.targets ELSE <<>>

\* Only SQLite attributes a column through a scalar subquery.
IsSublink(d, t) == d = "sqlite" /\ t.kind = "sublink"
hasSublinkProjection(d, l) == \E i \in DOMAIN TargetItems(d, l) : IsSublink(d, l.targets[i])

\* What one exposing path says of a table; a table's presence is the merge of
\* its paths, counting those that are instances.
Path(table, ext, inherited, poisoned) ==
    [table |-> table, ext |-> ext, inherited |-> inherited, poisoned |-> poisoned]
poison(names) == SetToSeq({Path(n, FALSE, FALSE, TRUE) : n \in {n \in names : InCatalog(n)}})
Inherits(r) == Tables[r.name].children /\ ~r.only

Hazardous(d, l, recursive) == recursive \/ l.setop \/ l.rollup \/ hasSublinkProjection(d, l)

RECURSIVE collectPresence(_, _, _, _)
descend(d, l, recursive, scope, ext) ==
    IF Hazardous(d, l, recursive) THEN poison(DeepTables(l)) ELSE collectPresence(d, l, scope, ext)

\* A reference to a CTE is its body under the definition's own scope, with the
\* reference's null-extension compounded.
FromCte(d, scope, p, ext) ==
    LET def == scope[p[1]][p[2]]
    IN  IF def.dml THEN poison(DeepTables(def.body))
        ELSE descend(d, def.body, def.recursive, BodyScope(scope, p), ext)
FromRel(d, r, scope, ext) ==
    LET P == IF r.schema THEN {} ELSE Bound(scope, r.name)
    IN  CASE r.sub # <<>> -> descend(d, r.sub[1], FALSE, scope, ext)
          [] r.sub = <<>> /\ r.guarded -> <<>>
          [] r.sub = <<>> /\ ~r.guarded /\ P # {} -> FromCte(d, scope, Innermost(P), ext)
          [] OTHER -> IF InCatalog(r.name) THEN <<Path(r.name, ext, Inherits(r), FALSE)>> ELSE <<>>
collectPresence(d, l, scope, ext) ==
    FlattenSeq([i \in DOMAIN l.from |->
        FromRel(d, l.from[i], Append(scope, l.ctes), ext \/ NullableSide(l.from, i))])

PathsTo(present, table) == {i \in DOMAIN present : present[i].table = table}
Count(present, table) == Cardinality({i \in PathsTo(present, table) : ~present[i].poisoned})
Poisoned(present, table) == \E i \in PathsTo(present, table) : present[i].poisoned

\* instanceResolver: the unguarded catalog relations of the statement itself.
Instances(l) ==
    {i \in DOMAIN l.from :
        LET r == l.from[i]
        IN  /\ r.sub = <<>> /\ ~r.guarded /\ InCatalog(r.name)
            /\ r.schema \/ Bound(<<l.ctes>>, r.name) = {}}
HasCol(r, col) == col \in Tables[r.name].cols
\* resolve: a qualified path by its relation, a bare one when only one has it.
resolve(l, qual, col) ==
    LET S == {i \in Instances(l) : HasCol(l.from[i], col) /\ (qual = "" \/ l.from[i].alias = qual)}
    IN  IF Cardinality(S) = 1 THEN CHOOSE i \in S : TRUE ELSE 0

\* IS NOT NULL in the skeleton, of the table's only instance.
filtered(l, present, table, col) ==
    l.kind # "update" /\ \E n \in l.notnull :
        LET i == resolve(l, n.qual, n.col)
        IN  ~n.guarded /\ i # 0 /\ l.from[i].name = table /\ n.col = col
            /\ Count(present, table) = 1 /\ ~Poisoned(present, table)

\* srcVerdict: TRUE is "may be NULL".
srcVerdict(d, l, present, c) ==
    IF ~Trusted(d, l) \/ PathsTo(present, c.src) = {} THEN TRUE
    ELSE /\ ~filtered(l, present, c.src, c.col)
         /\ \/ \E i \in PathsTo(present, c.src) :
                   present[i].poisoned \/ present[i].inherited \/ present[i].ext
            \/ c.col \notin Tables[c.src].notnull

\* A strict aggregate over a column of a relation that is never null-extended.
StrictAggregate(d, l, t) ==
    /\ Trusted(d, l) /\ l.group /\ t.kind = "agg"
    /\ LET i == resolve(l, t.qual, t.col)
       IN  /\ i # 0 /\ ~NullableSide(l.from, i) /\ ~Inherits(l.from[i])
           /\ t.col \in Tables[l.from[i].name].notnull
exprVerdict(d, l, t) == ~(t.kind \in {"count", "total"} \/ StrictAggregate(d, l, t))

\* Columns and targets are matched by position, where there is no star.
Aligned(d, l, desc) ==
    /\ Len(TargetItems(d, l)) = Len(desc)
    /\ \A i \in DOMAIN TargetItems(d, l) : l.targets[i].kind # "star"
AnalyzeVerdicts(d, l, desc) ==
    LET present == IF Trusted(d, l) THEN collectPresence(d, l, <<>>, FALSE) ELSE <<>>
        aligned == Aligned(d, l, desc)
        suppressed(i) == IF aligned THEN IsSublink(d, l.targets[i]) ELSE hasSublinkProjection(d, l)
    IN  [i \in DOMAIN desc |->
            IF desc[i].src # "" /\ ~suppressed(i) THEN srcVerdict(d, l, present, desc[i])
            ELSE ~aligned \/ exprVerdict(d, l, l.targets[i])]

-----------------------------------------------------------------------------
(* The database: the columns of a level in a shape, each with the table    *)
(* column it is attributed to ("" when none) and whether it can be NULL.   *)

Column(name, src, col, null) == [name |-> name, src |-> src, col |-> col, null |-> null]
\* A CTE may be referred to by any spelling the engine matches.
EngineBound(d, scope, name) ==
    UNION {Bound(scope, n) : n \in {x \in {name, FoldedName(name)} \cup DOMAIN UpperCase : Matching(d, x, name)}}
\* SQLite shows a body the whole WITH list.
EngineBodyScope(d, scope, p) ==
    Append(SubSeq(scope, 1, p[1] - 1),
           IF d = "sqlite" THEN scope[p[1]] ELSE SubSeq(scope[p[1]], 1, p[2] - 1))

StoredName(d, name) == CHOOSE t \in DOMAIN Tables : Matching(d, t, name)
\* A view shows a column of u that its body null-extends.
TableColumns(d, r) ==
    LET t == Tables[StoredName(d, r.name)]
    IN  {Column(c, IF t.view THEN "u" ELSE StoredName(d, r.name), c,
                t.view \/ c \notin t.notnull \/ (t.children /\ ~r.only)) : c \in t.cols}

RECURSIVE Output(_, _, _, _)
RelColumns(d, r, scope, on) ==
    LET P == IF r.schema THEN {} ELSE EngineBound(d, scope, r.name)
        p == Innermost(P)
        def == scope[p[1]][p[2]]
    IN  CASE r.sub # <<>> -> ToSet(Output(d, r.sub[1], scope, on))
          [] r.sub = <<>> /\ P # {} ->
               {[c EXCEPT !.null = c.null \/ def.recursive \/ def.dml] :
                   c \in ToSet(Output(d, def.body, EngineBodyScope(d, scope, p), on))}
          [] OTHER -> TableColumns(d, r)

\* UPDATE ... RETURNING shows the new row, which WHERE has not seen.
Passes(l, r, col, on) ==
    l.kind # "update" /\ \E n \in l.notnull :
        (~n.guarded \/ on) /\ n.col = col /\ n.qual \in {"", r.alias}
Shown(d, l, i, scope, on) ==
    {[c EXCEPT !.null = (c.null \/ NullableSide(l.from, i)) /\ ~Passes(l, l.from[i], c.name, on)] :
        c \in RelColumns(d, l.from[i], Append(scope, l.ctes), on)}

\* l.setop: another operand returns NULL; l.rollup: so does a total row.
TargetColumns(d, l, t, scope, on) ==
    LET at(qual) == CHOOSE i \in DOMAIN l.from : l.from[i].alias = qual
        ref == CHOOSE c \in Shown(d, l, at(t.qual), scope, on) : c.name = t.col
        lost == l.setop \/ l.rollup
        hidden(null) == Column("c", "", "", null \/ l.setop)
    IN  CASE t.kind = "col" -> <<[ref EXCEPT !.name = "c", !.null = ref.null \/ lost]>>
          [] t.kind = "star" ->
               FlattenSeq([i \in DOMAIN l.from |->
                   SetToSeq({[c EXCEPT !.null = c.null \/ lost] : c \in Shown(d, l, i, scope, on)})])
          [] t.kind = "agg" -> <<hidden(~l.group \/ lost \/ ref.null)>>
          [] t.kind \in {"count", "total"} -> <<hidden(FALSE)>>
          [] t.kind = "sublink" ->
               LET c == Output(d, t.sub[1], Append(scope, l.ctes), on)[1]
               IN  <<IF d = "sqlite" THEN [c EXCEPT !.null = TRUE] ELSE hidden(TRUE)>>
Output(d, l, scope, on) ==
    FlattenSeq([i \in DOMAIN l.targets |-> TargetColumns(d, l, l.targets[i], scope, on)])

-----------------------------------------------------------------------------
\* AnalyzeAll: a column may be NULL when it may be in some verified rendering.
AnalyzeAll(d, levels) ==
    LET V == [n \in DOMAIN levels |-> AnalyzeVerdicts(d, levels[n], Output(d, levels[n], <<>>, TRUE))]
    IN  [i \in DOMAIN V[1] |-> \E n \in DOMAIN V : V[n][i]]

NeverNull(d, levels, i) ==
    \A n \in DOMAIN levels, on \in BOOLEAN : ~Output(d, levels[n], <<>>, on)[i].null
SoundVerdicts(d, levels, v) == \A i \in DOMAIN v : ~v[i] => NeverNull(d, levels, i)

\* A statement and everything nested in it.
RECURSIVE Levels(_)
Levels(l) ==
    {l} \cup UNION {Levels(l.from[i].sub[1]) : i \in {i \in DOMAIN l.from : l.from[i].sub # <<>>}}
    \cup UNION {Levels(l.ctes[i].body) : i \in DOMAIN l.ctes}
    \cup UNION {Levels(l.targets[i].sub[1]) : i \in {i \in DOMAIN l.targets : l.targets[i].sub # <<>>}}
CteNames(l) == UNION {{m.ctes[i].name : i \in DOMAIN m.ctes} : m \in Levels(l)}
\* Every name is written as it was declared.
Spelled(l) == \A n \in DeepTables(l) : n \in CteNames(l) \cup DOMAIN Tables
\* No body refers to itself or to a later definition of its list.
Backward(l) ==
    \A m \in Levels(l), i \in 1..3 : i <= Len(m.ctes) =>
        \A j \in i..Len(m.ctes) : m.ctes[j].name \notin DeepTables(m.ctes[i].body)
\* SQLite: the first operand of a set operation has no expression that is never
\* NULL: what the analyzer finds there it takes for every operand.
NothingTotal(d, l) ==
    d = "sqlite" /\ l.setop => \A i \in DOMAIN l.targets : l.targets[i].kind \notin {"count", "total"}
\* The hazardous bodies mention tables, not CTEs that stand for them.
Direct(d, l) ==
    \A m \in Levels(l) \ {l} :
        (\E k \in Levels(l) : \E i \in DOMAIN k.ctes : k.ctes[i].body = m /\ (k.ctes[i].dml \/ k.ctes[i].recursive))
            \/ Hazardous(d, m, FALSE)
        => DeepTables(m) \cap CteNames(l) = {}
=============================================================================
