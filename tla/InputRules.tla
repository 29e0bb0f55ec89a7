----------------------------- MODULE InputRules -----------------------------
(***************************************************************************)
(* The structural rules that look at one construct's own input: what a     *)
(* query's renderings bind and return, what a write stores, the literals   *)
(* of @when.  Each input is judged once, by the rule's code, and what was  *)
(* accepted is compared with what every shape means.                       *)
(***************************************************************************)
EXTENDS TypeRules, Literals

CONSTANTS
    Queries,     \* records [style, items, controls] of TypeRules
    Writes,      \* statements of TypeRules
    IntTexts,    \* sequences of digits
    StringTexts  \* sequences of characters, a quote first

PairType == STRING \X STRING
AlternativeType == [cols : Seq(PairType), params : Seq(PairType)]
ItemType == [kind : {"text", "guarded", "choose"}, alts : Seq(AlternativeType)]
\* Text and guarded fragments have one form and a choice one to MaxCases; the
\* slots of a guarded fragment (conditions, joins, assignments, values) are not
\* where a statement's result columns are listed.
ItemWellFormed(it) ==
    /\ Len(it.alts) \in 1..MaxCases
    /\ it.kind # "choose" => Len(it.alts) = 1
    /\ it.kind = "guarded" => it.alts[1].cols = <<>>

ASSUME QueryAssumption ==
    \A q \in Queries :
        /\ q.style \in {"dollar", "question"}
        /\ q.items \in Seq(ItemType)
        /\ q.controls \subseteq STRING \X {"string", "int", "bool"}
        /\ \A i \in DOMAIN q.items : ItemWellFormed(q.items[i])
ASSUME LiteralAssumption ==
    (\A t \in IntTexts : t \in Seq(Nat)) /\ (\A t \in StringTexts : t \in Seq(STRING))

VARIABLES
    job,   \* the input
    out    \* "none", or whether it was accepted

ruleVars == <<job, out>>

OwnInput ==
    \/ job \in {[family |-> "types", query |-> q] : q \in Queries}
    \/ job \in {[family |-> "nulls", stmt |-> s] : s \in Writes}
    \/ job \in {[family |-> "int", text |-> t] : t \in IntTexts}
    \/ job \in {[family |-> "string", text |-> t] : t \in StringTexts}
OwnInit == OwnInput /\ out = "none"

Verdict(ok) == IF ok THEN "accepted" ELSE "refused"
Judge(family, ok) ==
    /\ job.family = family /\ out = "none"
    /\ out' = Verdict(ok)
    /\ UNCHANGED job

CheckTypes ==
    job.family = "types" /\ Judge("types", CheckTypeAgreement(job.query.style, job.query.items, job.query.controls))
CheckNulls == job.family = "nulls" /\ Judge("nulls", DeriveNullableParams(job.stmt) # {})
CheckInts == job.family = "int" /\ Judge("int", whenIntOK(job.text))
CheckStrings == job.family = "string" /\ Judge("string", isPlainSQLString(job.text))

CheckOwn == CheckTypes \/ CheckNulls \/ CheckInts \/ CheckStrings

OwnSpec == OwnInit /\ [][CheckOwn]_ruleVars

-----------------------------------------------------------------------------
(* Properties.                                                             *)

Accepts(family) == job.family = family /\ out = "accepted"

\* One case at a time is enough: what agrees over the verified renderings agrees
\* in every combination of cases and guards; and a parameter whose Go type may
\* be absent writes nothing but nullable columns, in every case of a choice.
TypesEverywhere ==
    /\ Accepts("types") => EveryShapeTyped(job.query.style, job.query.items, job.query.controls)
    /\ Accepts("nulls") => \A p \in DeriveNullableParams(job.stmt) : TakesNull(job.stmt, p)

\* The literal the generated guard compares with is the value the template
\* names: Go's integer is the decimal one and fits, and every dialect reads the
\* string as one literal with the value that was copied into the guard.
LiteralsMeanTheSame ==
    /\ Accepts("int") => GoInt(job.text) = Decimal(job.text) /\ Decimal(job.text) <= MaxInt
    /\ Accepts("string") =>
          \A d \in {"postgres", "mysql", "sqlite"} :
              SQLString(d, job.text) = [mode |-> "closed", value |-> unquoteSQLString(job.text)]
=============================================================================
