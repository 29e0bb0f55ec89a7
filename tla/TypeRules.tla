------------------------------ MODULE TypeRules ------------------------------
(***************************************************************************)
(* What the generated code relies on: one type per parameter and one list  *)
(* of result columns in every shape (internal/rules/types.go), and         *)
(* parameters that may be NULL (nullable_params.go).                       *)
(***************************************************************************)
EXTENDS Integers, Sequences, SequencesExt

CONSTANT
    MaxCases     \* the largest number of cases of a choice

ASSUME MaxCasesAssumption == MaxCases \in Nat \ {0}

-----------------------------------------------------------------------------
(* Types.  A query is a sequence of items [kind, alts]: "text" and         *)
(* "guarded" have one alternative, "choose" one per ordinal.  An           *)
(* alternative is [cols, params]: the result columns <<name, type>> it     *)
(* contributes and the parameters <<name, type>> it binds, in order.       *)

Absent == [cols |-> <<>>, params |-> <<>>]
\* The alternatives a rendering or a shape takes, item by item; 0 is none.
Chosen(q, pick) == [i \in DOMAIN q |-> IF pick[i] = 0 THEN Absent ELSE q[i].alts[pick[i]]]

ColumnsOf(alts) == FlattenSeq([n \in DOMAIN alts |-> alts[n].cols])
BindsOf(alts) == FlattenSeq([n \in DOMAIN alts |-> alts[n].params])

\* The oracle.  With $n the database numbers parameters by name, infers each
\* type from its first use and refuses a use of another type; with ? every use
\* is a parameter of its own.
FirstUse(binds, n) == \A m \in 1..(n - 1) : binds[m][1] # binds[n][1]
Described(style, binds) == {binds[n] : n \in {k \in DOMAIN binds : style = "question" \/ FirstUse(binds, k)}}
Refused(style, binds) ==
    style = "dollar" /\ \E m, n \in DOMAIN binds : binds[m][1] = binds[n][1] /\ binds[m][2] # binds[n][2]
Desc(style, alts) ==
    [ok |-> ~Refused(style, BindsOf(alts)), cols |-> ColumnsOf(alts), params |-> Described(style, BindsOf(alts))]

\* The verified renderings: the maximal one first, then one case at a time.
MaximalPick(q) == [i \in DOMAIN q |-> 1]
CasePicks(q, i) == {[MaximalPick(q) EXCEPT ![i] = o] : o \in DOMAIN q[i].alts}
VerifiedPicks(q) == {MaximalPick(q)} \cup UNION {CasePicks(q, i) : i \in {j \in DOMAIN q : q[j].kind = "choose"}}
Verified(style, q) == {Desc(style, Chosen(q, p)) : p \in VerifiedPicks(q)}

\* As many columns, each of the same name and type.
SameColumns(a, b) == Len(a) = Len(b) /\ \A c \in DOMAIN a : a[c] = b[c]

\* ResolveParamTypes: a parameter has one type over all verified renderings.
TypesSeen(descs, p) == UNION {{b[2] : b \in {b \in d.params : b[1] = p}} : d \in descs}
ParamsSeen(descs) == UNION {{b[1] : b \in d.params} : d \in descs}
ResolveParamTypes_Maximal(descs, base) ==
    \A p \in ParamsSeen({base}) : \A t, u \in TypesSeen({base}, p) : t = u
ResolveParamTypes(descs, base) ==
    \A p \in ParamsSeen(descs) : \A t, u \in TypesSeen(descs, p) : t = u

\* oidCompatibleWithLiteral, for the @when controls <<param, kind>>.
LiteralTypes == [string |-> {"text"}, int |-> {"int"}, bool |-> {"bool"}]
ControlsAgree(descs, controls) ==
    \A c \in controls : \A t \in TypesSeen(descs, c[1]) : t \in LiteralTypes[c[2]]

TypesAgree(descs, base, controls) ==
    /\ \A d \in descs : d.ok /\ SameColumns(d.cols, base.cols)
    /\ ResolveParamTypes(descs, base)
    /\ ControlsAgree(descs, controls)
CheckTypeAgreement(style, q, controls) ==
    TypesAgree(Verified(style, q), Desc(style, Chosen(q, MaximalPick(q))), controls)

\* Every choice in every block, every set of guards.
ShapePicks(q) ==
    {p \in [DOMAIN q -> 0..MaxCases] :
        \A i \in DOMAIN q : p[i] <= Len(q[i].alts) /\ (p[i] = 0 => q[i].kind = "guarded")}
\* In every shape the database takes the statement, returns the columns of the
\* maximal one, and types each parameter as it was pinned.
EveryShapeTyped(style, q, controls) ==
    LET base == Desc(style, Chosen(q, MaximalPick(q)))
        descs == Verified(style, q)
    IN  \A p \in ShapePicks(q) :
            LET d == Desc(style, Chosen(q, p))
            IN  /\ d.ok /\ d.cols = base.cols
                /\ \A b \in d.params :
                      /\ TypesSeen(descs, b[1]) = {b[2]}
                      /\ \A c \in controls : c[1] = b[1] => b[2] \in LiteralTypes[c[2]]

-----------------------------------------------------------------------------
(* Nullable parameters.  An occurrence is [param, in, max, writes]: where  *)
(* it stands ("sql", "tree" or "in"), whether the maximal rendering has    *)
(* it, and the columns it is the whole value of, [col, own]: own is        *)
(* whether the qualifier is absent or names the target.  A statement is    *)
(* [kind, target, occs, policy, control]: its target a table or a view.    *)

IsNullable(s, col) == col \in DOMAIN s.target.cols /\ s.target.cols[col]

\* nullableAt: every write at this occurrence is to a nullable column.
nullableAt(s, o) ==
    LET own == {w \in o.writes : w.own}
    IN  o.max /\ own # {} /\ \A w \in own : IsNullable(s, w.col)

nullableEligible(s, p) ==
    /\ p \notin s.policy /\ p \notin s.control
    /\ \A o \in s.occs : o.param = p => o.in = "sql"

Derives(s) == s.kind \in {"insert", "update"} /\ s.target.kind = "table"

DeriveNullableParams_Some(s) ==
    IF ~Derives(s) THEN {}
    ELSE {p \in {o.param : o \in s.occs} :
             nullableEligible(s, p) /\ \E o \in s.occs : o.param = p /\ nullableAt(s, o)}
DeriveNullableParams(s) ==
    IF ~Derives(s) THEN {}
    ELSE {p \in {o.param : o \in s.occs} :
             nullableEligible(s, p) /\ \A o \in s.occs : o.param = p => nullableAt(s, o)}

\* Passing NULL for the parameter writes only columns that take it.
TakesNull(s, p) ==
    \A o \in s.occs : o.param = p =>
        /\ o.in = "sql" /\ o.writes # {}
        /\ \A w \in o.writes : w.own => IsNullable(s, w.col)
=============================================================================
