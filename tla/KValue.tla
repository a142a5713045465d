------------------------------ MODULE KValue ------------------------------
(***************************************************************************)
(* Configuration expressions and their values: support/kconfig/expr.c.     *)
(*                                                                         *)
(* An expression is a record: a symbol, a comparison of two symbols, or a  *)
(* connective.  cur[s] is the value of symbol s: its tristate as 0, 1, 2   *)
(* and its string.                                                         *)
(***************************************************************************)
EXTENDS Integers, Sequences, FiniteSets

CONSTANTS TypeOf,     \* symbol |-> "boolean", "tristate", "string", ... "unknown"
          ModulesSym, \* modules_sym; "n" when the tree has no modules option
          Exprs       \* the expressions that are evaluated: e |-> e and all its operands

None == "none"

Sym(s) == [op |-> "sym", s |-> s]
Not(e) == [op |-> "not", l |-> e]
Two(op, a, b) == [op |-> op, l |-> a, r |-> b]
Eq(s, v) == [op |-> "eq", s |-> s, v |-> v]
Ne(s, v) == [op |-> "ne", s |-> s, v |-> v]
Null == [op |-> "null"]

Yes == Sym("y")
Mod == Sym("m")
No  == Sym("n")

Compares(e) == e.op \in {"eq", "ne"}
Connects(e) == e.op \in {"and", "or"}
Operands(e) == CASE e.op = "not" -> {e.l} [] Connects(e) -> {e.l, e.r} [] OTHER -> {}

\* The symbols they are about.
SymsAmong(es) ==
  UNION {CASE x.op = "sym" -> {x.s} [] Compares(x) -> {x.s, x.v} [] OTHER -> {} : x \in es}

\* The constants have names but no type.
ASSUME SymbolsKnown ==
  {ModulesSym, "y", "m", "n"} \subseteq DOMAIN TypeOf /\ \A s \in {"y", "m", "n"} : TypeOf[s] = "unknown"

\* An expression is made of itself, its operands and theirs, and comes to an end.
ASSUME ExprsEnd ==
  \A e \in DOMAIN Exprs :
    /\ e.op \in {"null", "sym", "eq", "ne", "not", "and", "or"}
    /\ SymsAmong({e}) \subseteq DOMAIN TypeOf
    /\ Operands(e) \subseteq DOMAIN Exprs
    /\ Exprs[e] = {e} \cup UNION {Exprs[x] : x \in Operands(e)}
    /\ IsFiniteSet(Exprs[e]) /\ \A x \in Operands(e) : e \notin Exprs[x]

-----------------------------------------------------------------------------
MinOf(a, b) == IF a < b THEN a ELSE b
MaxOf(a, b) == IF a < b THEN b ELSE a
TriName(v) == CASE v = 0 -> "n" [] v = 1 -> "m" [] v = 2 -> "y"

StringValue(cur, s) ==
  IF TypeOf[s] \in {"boolean", "tristate"}
  THEN IF cur[s].tri = 1 /\ cur[ModulesSym].tri = 0 THEN "n" ELSE TriName(cur[s].tri)
  ELSE cur[s].val

\* The value of an expression, calc being those of its operands.
CalcNode(cur, calc, x) ==
  CASE x.op = "null" -> 2
    [] x.op = "sym" -> cur[x.s].tri
    [] x.op = "and" -> MinOf(calc[x.l], calc[x.r])
    [] x.op = "or"  -> MaxOf(calc[x.l], calc[x.r])
    [] x.op = "not" -> 2 - calc[x.l]
    [] Compares(x) ->
         IF (StringValue(cur, x.s) = StringValue(cur, x.v)) = (x.op = "eq") THEN 2 ELSE 0
CalcExpr(cur, e) == LET calc[x \in Exprs[e]] == CalcNode(cur, calc, x) IN calc[e]
===========================================================================
