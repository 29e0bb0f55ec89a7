---------------------------- MODULE PolicyScans ----------------------------
(***************************************************************************)
(* The three lexical scans of the policy weaver (internal/policy: splice.go *)
(* and setop.go), run against what the SQL grammar means over families of  *)
(* small inputs.  An instance reads the texts of these families, or weaves *)
(* a query of Policy, whose rules build on what the scans report.          *)
(***************************************************************************)
EXTENDS JoinScan, SetOpScan, Policy

CONSTANTS
    Clauses,     \* records [dialect, expr, head, tail]: a statement's WHERE clause
    JoinTexts,   \* records [tree, outer]: a FROM clause with the relation "r"
    Compounds    \* records [query, with]: a set operation

VARIABLES
    job,  \* what is being read
    scan, \* "none" for a query of Policy, "text" or "read"
    out   \* what the scan found

scanVars == <<job, scan, out>>

PipesOr(c) == c.dialect = "mysql"
ClauseText(c) == c.head \o <<"WHERE">> \o c.expr.text \o c.tail
SetOpText(c, scoped) ==
    (IF c.with THEN With ELSE <<>>) \o QueryText(c.query, scoped)

TextInit ==
    /\ \/ job \in {[family |-> "clause", clause |-> c] : c \in Clauses}
       \/ job \in {[family |-> "join", join |-> j] : j \in JoinTexts}
       \/ job \in {[family |-> "compound", compound |-> c] : c \in Compounds}
    /\ scan = "text"
    /\ pols = {} /\ stmt = <<>> /\ stage = "none" /\ diags = {}
QueryInit == Init /\ job = [family |-> "query"] /\ scan = "none"
WeaverInit == (TextInit \/ QueryInit) /\ out = <<>>

\* The WHERE clause of a statement, and the statement woven.
ReadClause ==
    /\ job.family = "clause" /\ scan = "text"
    /\ LET c == job.clause
           w == whereClause(ClauseText(c), PipesOr(c))
       IN  out' = [kw |-> w.kw, scan |-> w.scan]
    /\ scan' = "read"
    /\ UNCHANGED job

\* The ON clause a null-extended occurrence of "r" is scoped in.
LocateOn ==
    /\ job.family = "join" /\ scan = "text"
    /\ LET toks == <<"FROM">> \o Text(job.join.tree, job.join.outer) \o <<"WHERE", "b">>
           at == CHOOSE i \in DOMAIN toks : toks[i] = "r"
           rel == CHOOSE r \in collectFromItem(job.join.tree, "BASE", FALSE) : r.rel = "r"
           on == joinOn(toks, at, rel.join, FALSE)
       IN  out' = [nullable |-> rel.nullable,
                   refused |-> rel.nullable /\ (~on.found \/ on.wrongJoin \/ ~on.scan.lexOK),
                   \* the id of the join whose ON it is
                   on |-> IF rel.nullable /\ on.found /\ ~on.wrongJoin
                          THEN IF toks[on.at + 1] = "#1" THEN 1 ELSE 2
                          ELSE 0]
    /\ scan' = "read"
    /\ UNCHANGED job

\* The branches of a set operation, and the statement woven branch by branch.
SplitBranches ==
    /\ job.family = "compound" /\ scan = "text"
    /\ LET toks == SetOpText(job.compound, FALSE)
           so == scanSetOp(toks, FALSE)
           need == {k \in DOMAIN so.branches :
                       /\ \E i \in DOMAIN toks : toks[i] = "r" /\ branchOf(so, i) = k
                       /\ ~Credited(so.branches[k].scan, PolicyConjunct)}
           woven == WeaveBranches(toks, so, Len(so.branches), need)
       IN  out' = [split |-> so, woven |-> woven, again |-> scanSetOp(woven, FALSE)]
    /\ scan' = "read"
    /\ UNCHANGED job

WeaverNext ==
    \/ (ReadClause \/ LocateOn \/ SplitBranches) /\ UNCHANGED vars
    \/ Next /\ UNCHANGED scanVars

WeaverSpec == WeaverInit /\ [][WeaverNext]_<<vars, scanVars>>

-----------------------------------------------------------------------------
(* Properties.                                                             *)

Read(family) == job.family = family /\ scan = "read"

\* A conjunct is credited only if the clause implies it: the scan finds no
\* conjunct inside a CASE arm, below an OR, or in the text of a construct.  A
\* clause the scan vouches for was read to its end and no further, columns
\* spelled like clause keywords included; the conjunct written in front, the
\* clause wrapped when the scan says so, then means the conjunct and the clause.
ClauseBinds ==
    Read("clause") =>
        /\ Credited(out.scan, PolicyConjunct) => job.clause.expr.sat \subseteq TrueIn("p")
        /\ out.scan.lexOK =>
              /\ out.scan.end = Len(job.clause.head) + 1 + Len(job.clause.expr.text)
              /\ ~out.scan.hasOR => job.clause.expr.pre = job.clause.expr.sat \cap TrueIn("p")

Joins(t) == {u \in {t} \cup (IF t.type = "REL" THEN {} ELSE {t.left, t.right}) : u.type # "REL"}
Introducing(t) == CHOOSE u \in Joins(t) : Leaf("r") \in {u.left, u.right}

\* The clause the conjunct goes to is that of the join "r" is an operand of.
OnIsOwn == Read("join") /\ ~out.refused => out.on \in {0, Introducing(job.join.tree).id}

WovenRows(t, cond) ==
    LET all == Rows(t, Both, cond, out.on)
    IN  IF out.nullable THEN all ELSE {x \in all : RowOf(x) = "own"}

\* Where every join has an ON clause the search finds the relation's own, and a
\* conjunct there, or in the WHERE clause for a relation that is not
\* null-extended, returns what the join of the filtered relation returns: no
\* foreign row, and every row of the outer side.
JoinsScoped ==
    Read("join") /\ ~out.refused =>
        /\ (\A u \in Joins(job.join.tree) : HasOn(u)) => OnIsOwn
        /\ OnIsOwn => \A cond \in [1..2 -> Conditions] :
                          WovenRows(job.join.tree, cond) = Rows(job.join.tree, {"own"}, cond, 0)

\* The split finds the leaves the grammar has, and the woven statement is the
\* one with the conjunct in the WHERE clause of every core that reads "r": a
\* conjunct never lands in a neighbour, in a CTE or behind the set-level tail.
BranchesScoped ==
    Read("compound") =>
        /\ out.split.ok /\ Len(out.split.branches) = Len(Leaves(job.compound.query))
        /\ out.woven = SetOpText(job.compound, TRUE)
        /\ \A k \in DOMAIN out.again.branches :
              Leaves(job.compound.query)[k].rel = "r"
                  => Credited(out.again.branches[k].scan, PolicyConjunct)

=============================================================================
