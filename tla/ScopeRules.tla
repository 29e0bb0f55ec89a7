------------------------------ MODULE ScopeRules ------------------------------
(***************************************************************************)
(* Guarded scope (internal/rules/resolved.go, r1.go): what an optional     *)
(* join may be (R1, R2), who may refer to it (R3), and which stars may     *)
(* expand over it (R2).                                                    *)
(*                                                                         *)
(* A relation is [name, table, kind, cols, join, frag, guards]: the name   *)
(* it is referred to by, its table as written, "table", "cte" or           *)
(* "derived", its columns, its join, the number of the fragment that       *)
(* introduces it (0: the skeleton) and that fragment's guard atoms.        *)
(* A reference is [qual, schema, col, guards, path, sort]: a qualifier or  *)
(* "", whether a schema stands before it, the column, the guards of its    *)
(* place, the way down to the SELECT it is in, and whether it is a         *)
(* statement-level sort key.                                               *)
(* A step of a path is [step, names, seen]: "body" enters a subquery in an *)
(* expression, or a CTE, that exposes these names in FROM, "branches" a    *)
(* branch of a set operation, "derived" and "lateral" a subquery in the    *)
(* FROM of the SELECT reached so far (LATERAL: which sees the items before *)
(* it), "test" the tested operand of a subquery, and "with" a WITH clause  *)
(* of that SELECT.  A statement is of one dialect.                         *)
(***************************************************************************)
EXTENDS Integers, Sequences, FiniteSets

CONSTANTS
    Catalog,     \* the tables' columns, by name: [name |-> set of columns]
    Lower        \* the names with capitals, and how they are folded

ASSUME LowerAssumption == "" \notin DOMAIN Lower /\ \A n \in DOMAIN Lower : Lower[n] # ""

\* FoldIdent: MySQL and SQLite match names in any case.
Fold(dialect, n) == IF dialect # "postgres" /\ n \in DOMAIN Lower THEN Lower[n] ELSE n

-----------------------------------------------------------------------------
(* ColumnRefs: the names a reference may be bound by before the statement's *)
(* own relations are looked at.                                            *)

InBody(d, names) == [scopes |-> d.scopes \cup names, enclosing |-> d.scopes, inSub |-> TRUE]

\* PostgreSQL leaves a branch's names out.  SQLite's walk takes a subquery in
\* FROM past its siblings; the other two take it for any other subquery.
EnteredBody(dialect, d, st) ==
    CASE st.step = "body" -> InBody(d, st.names)
      [] st.step = "branches" -> InBody(d, IF dialect = "postgres" THEN {} ELSE st.names)
      [] st.step \in {"derived", "lateral"} ->
           IF dialect = "sqlite"
           THEN [scopes |-> d.enclosing \cup st.names, enclosing |-> d.enclosing, inSub |-> TRUE]
           ELSE InBody(d, st.names)

Entered_WithSees(dialect, d, st) ==
    IF st.step \in {"test", "with"} THEN d ELSE EnteredBody(dialect, d, st)

\* A tested operand stays in its SELECT; a WITH clause sees what surrounds it.
Entered(dialect, d, st) ==
    CASE st.step = "test" -> d
      [] st.step = "with" -> [d EXCEPT !.scopes = d.enclosing]
      [] OTHER -> EnteredBody(dialect, d, st)

\* collectColRefs, colRefVisitor and refWalker: the names collected on the way
\* down to a reference.
collectColRefs(dialect, path) ==
    LET down[n \in 0..Len(path)] ==
            IF n = 0 THEN [scopes |-> {}, enclosing |-> {}, inSub |-> FALSE]
            ELSE Entered(dialect, down[n - 1], path[n])
    IN  down[Len(path)]

-----------------------------------------------------------------------------
(* CheckResolved.                                                          *)

Same(s, a, b) == Fold(s.dialect, a) = Fold(s.dialect, b)

\* newResolver: the relation a qualifier names, the last one of that name.
Named(s, qual) == {i \in DOMAIN s.rels : s.rels[i].name # "" /\ Same(s, s.rels[i].name, qual)}
byName(s, qual) ==
    IF Named(s, qual) = {} THEN 0
    ELSE CHOOSE i \in Named(s, qual) : \A j \in Named(s, qual) : j <= i

\* The catalog's columns of a relation; a table the catalog does not have under
\* this spelling has none.
TableCols(r) == IF r.kind # "derived" /\ r.table \in DOMAIN Catalog THEN Catalog[r.table] ELSE {}

columnCandidates(s, col) ==
    {i \in DOMAIN s.rels :
        \E c \in TableCols(s.rels[i]) : Same(s, c, col)}

scopeContains(s, scopes, qual) == \E n \in scopes : Same(s, n, qual)

IsOutputAlias(s, col) == \E a \in s.aliases : Same(s, a, col)

\* The guards a place must have: those of the relation a reference resolves to.
Covers(s, rel, guards) == rel = 0 \/ s.rels[rel].guards \subseteq guards

QualifiedOK(s, ref, d) ==
    \/ ~ref.schema /\ scopeContains(s, d.scopes, ref.qual)
    \/ Covers(s, byName(s, ref.qual), ref.guards)

UnqualifiedOK(s, ref, d) ==
    \/ d.inSub
    \/ IsOutputAlias(s, ref.col) /\ ref.sort
    \/ LET cands == columnCandidates(s, ref.col)
       IN  cands = {} \/ (Cardinality(cands) = 1 /\ \A i \in cands : Covers(s, i, ref.guards))
ReferenceOK(s, ref) ==
    IF ref.qual # "" THEN QualifiedOK(s, ref, collectColRefs(s.dialect, ref.path))
    ELSE UnqualifiedOK(s, ref, collectColRefs(s.dialect, ref.path))

\* R2: a star never expands over an optional join.
StarOK(s, qual) ==
    IF qual = "" THEN \A i \in DOMAIN s.rels : s.rels[i].guards = {}
    ELSE Covers(s, byName(s, qual), {})

\* FOR UPDATE cannot lock the nullable side of an optional LEFT JOIN.
LockOK(s) == s.lock => \A i \in DOMAIN s.rels : ~(s.rels[i].guards # {} /\ s.rels[i].join = "LEFT")

CheckResolved(s) ==
    /\ \A ref \in s.refs : ReferenceOK(s, ref)
    /\ \A q \in s.stars : StarOK(s, q)
    /\ LockOK(s)

-----------------------------------------------------------------------------
(* The join rules of CheckR1.                                              *)

RelsOf(s, f) == {i \in DOMAIN s.rels : s.rels[i].frag = f}
Fragments(s) == {s.rels[i].frag : i \in DOMAIN s.rels} \ {0}

\* ProbeJoinItem: one relation joined onto a probe table.
ProbeJoinItem(s, f) == Cardinality(RelsOf(s, f)) = 1 /\ \A i \in RelsOf(s, f) : s.rels[i].join # "BASE"

\* A derived table has no position and is attributed to no fragment.
Attributed(s, f) == {i \in RelsOf(s, f) : s.rels[i].kind # "derived"}
checkJoinMembership(s, f) ==
    /\ Cardinality(Attributed(s, f)) = 1
    /\ \A i \in Attributed(s, f) : s.rels[i].join \in {"INNER", "LEFT"}

\* An optional join is refused in a set operation.
CheckJoins(s) ==
    \A f \in Fragments(s) : ~s.setop /\ ProbeJoinItem(s, f) /\ checkJoinMembership(s, f)

-----------------------------------------------------------------------------
(* What the engine does with a shape: the relations whose guards are on.   *)

Atoms(s) == UNION {s.rels[i].guards : i \in DOMAIN s.rels} \cup UNION {r.guards : r \in s.refs}
Active(s, on) == {i \in DOMAIN s.rels : s.rels[i].guards \subseteq on}

\* What is visible where a path leads: the names bound nearer than the
\* statement's relations, and whether those are visible themselves.  A WITH
\* clause and a subquery in FROM see what surrounds their SELECT, a LATERAL one
\* the items before it too.
Surrounded(d, st) ==
    CASE st.step \in {"body", "branches"} ->
           [scopes |-> d.scopes \cup st.names, enclosing |-> d.scopes,
            sees |-> d.sees, enclosingSees |-> d.sees]
      [] st.step = "derived" ->
           [d EXCEPT !.scopes = d.enclosing \cup st.names, !.sees = d.enclosingSees]
      [] st.step = "lateral" ->
           [scopes |-> d.enclosing \cup st.seen \cup st.names, enclosing |-> d.enclosing \cup st.seen,
            sees |-> d.sees, enclosingSees |-> d.sees]
      [] st.step = "test" -> d
      [] st.step = "with" -> [d EXCEPT !.scopes = d.enclosing, !.sees = d.enclosingSees]
Visible(path) ==
    LET down[n \in 0..Len(path)] ==
            IF n = 0 THEN [scopes |-> {}, enclosing |-> {}, sees |-> TRUE, enclosingSees |-> FALSE]
            ELSE Surrounded(down[n - 1], path[n])
    IN  down[Len(path)]
Selects == {"body", "branches", "derived", "lateral"}
InSubquery(path) == \E n \in DOMAIN path : path[n].step \in Selects

\* The items beside a subquery in FROM that it does not see.
Unseen(path) ==
    UNION {path[n - 1].names \ path[n].seen : n \in {m \in 2..Len(path) : path[m].step \in {"derived", "lateral"}}}

\* The relations a reference can mean; {0} is a relation or a name nearer by.
Bindings(s, ref, on) ==
    LET v == Visible(ref.path)
        rels == IF v.sees THEN Active(s, on) ELSE {}
    IN  CASE ref.qual # "" ->
               IF ~ref.schema /\ \E n \in v.scopes : Same(s, n, ref.qual) THEN {0}
               ELSE {i \in rels : Same(s, s.rels[i].name, ref.qual)}
          [] ref.qual = "" /\ ref.sort /\ IsOutputAlias(s, ref.col) -> {0}
          [] OTHER -> {i \in rels : \E c \in s.rels[i].cols : Same(s, c, ref.col)}

\* The database has prepared the maximal rendering.
Prepared(s) ==
    /\ \A ref \in s.refs : Cardinality(Bindings(s, ref, Atoms(s))) = 1
    /\ \A i, j \in DOMAIN s.rels : i # j => ~Same(s, s.rels[i].name, s.rels[j].name)

\* In every shape every active reference means what it means in the maximal
\* one, and every star expands to the same columns.
EveryShapeResolves(s) ==
    \A on \in SUBSET Atoms(s) :
        /\ \A ref \in s.refs : ref.guards \subseteq on => Bindings(s, ref, on) = Bindings(s, ref, Atoms(s))
        /\ \A q \in s.stars :
              LET Starred(G) == {i \in Active(s, G) : q = "" \/ Same(s, s.rels[i].name, q)}
              IN  Starred(on) = Starred(Atoms(s))

\* Joins are left-deep: which relations a shape null-extends.
NullExtended(s, on) ==
    {i \in Active(s, on) :
        \/ s.rels[i].join \in {"LEFT", "FULL"}
        \/ \E j \in Active(s, on) : j > i /\ s.rels[j].join \in {"RIGHT", "FULL"}}
EveryShapeNullable(s) ==
    \A on \in SUBSET Atoms(s) :
        NullExtended(s, on) = NullExtended(s, Atoms(s)) \cap Active(s, on)

\* The optional relations are tables the catalog has as they are written.
Vouched(s) ==
    \A i \in DOMAIN s.rels : s.rels[i].frag # 0 =>
        s.rels[i].kind = "table" /\ s.rels[i].table \in DOMAIN Catalog

\* Where the walk counts the items beside a subquery in FROM as bound, none of
\* them has the name of an optional relation.
Unshadowed(s, ref) ==
    s.dialect # "sqlite" =>
        \A n \in Unseen(ref.path), i \in DOMAIN s.rels :
           s.rels[i].guards # {} => ~Same(s, n, s.rels[i].name)
=============================================================================
