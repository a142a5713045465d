------------------------------- MODULE KExpr -------------------------------
(***************************************************************************)
(* How expressions are compared and simplified: support/kconfig/expr.c.    *)
(*                                                                         *)
(* The code rewrites a tree in place through pointers to its nodes, and    *)
(* some calls pass the same node twice; here the tree is a value and a     *)
(* pointer is a path of "l" and "r" from its root.                         *)
(***************************************************************************)
EXTENDS KValue

IsYes(e) == e \in {Null, Yes}
IsNo(e) == e = No
Constant(s) == s \in {"y", "m", "n"} \/ TypeOf[s] = "unknown"

AllocAnd(a, b) == IF a = Null THEN b ELSE IF b = Null THEN a ELSE Two("and", a, b)
AllocOr(a, b) == IF a = Null THEN b ELSE IF b = Null THEN a ELSE Two("or", a, b)

\* What leaves a conjunction (disjunction) as it is, and what decides it.
Neutral(op) == IF op = "and" THEN Yes ELSE No
Decisive(op) == IF op = "and" THEN No ELSE Yes

-----------------------------------------------------------------------------
(* Equality of expressions, decided by cancelling equal operands.          *)

RECURSIVE EliminateYn(_)
EliminateYn(e) ==
  IF ~Connects(e) THEN e
  ELSE LET a == EliminateYn(e.l)
           b == EliminateYn(e.r)
       IN  CASE a = Decisive(e.op) -> a
             [] a = Neutral(e.op)  -> b
             [] b = Decisive(e.op) -> b
             [] b = Neutral(e.op)  -> a
             [] OTHER -> Two(e.op, a, b)

RECURSIVE CancelIn(_, _, _)
RECURSIVE ExprEq(_, _)

\* What is left of <<a, b>> when the operands of a and b that are equal are cancelled.
CancelRight(op, x, r) == LET y == CancelIn(op, r, x[2]) IN <<Two(op, x[1], y[1]), y[2]>>
CancelLeft(op, x, r) == LET y == CancelIn(op, x[1], r) IN <<y[1], Two(op, x[2], y[2])>>
CancelIn(op, a, b) ==
  CASE a.op = op -> CancelRight(op, CancelIn(op, a.l, b), a.r)
    [] a.op # op /\ b.op = op -> CancelLeft(op, CancelIn(op, a, b.l), b.r)
    [] OTHER -> IF (a = b /\ a \in {Yes, No}) \/ ~ExprEq(a, b) THEN <<a, b>>
                ELSE <<Neutral(op), Neutral(op)>>

CancelBy(c, x) == IF Connects(c) THEN CancelIn(c.op, x[1], x[2]) ELSE x
CancelBack(x) == IF x[1].op # x[2].op THEN CancelBy(x[2], x) ELSE x
Cleaned(x) == <<EliminateYn(x[1]), EliminateYn(x[2])>>
EliminateEq(a, b) ==
  IF Null \in {a, b} THEN <<a, b>> ELSE Cleaned(CancelBack(CancelBy(a, <<a, b>>)))

SameSymbol(x) == x[1].op = "sym" /\ x[1] = x[2]
ExprEq(a, b) ==
  /\ a.op = b.op
  /\ CASE a.op = "sym" \/ Compares(a) -> a = b
       [] a.op = "not" -> ExprEq(a.l, b.l)
       [] Connects(a) -> SameSymbol(EliminateEq(a, b))

-----------------------------------------------------------------------------
(* Joining two operands of one connective into a simpler expression; Null  *)
(* when there is nothing to join.                                          *)

\* The symbol both operands speak about, if the rules apply to them at all.
Joinable(a, b) ==
  LET Leaf(e) == e.op = "sym" \/ Compares(e)
      Of(e) == IF e.op = "not" THEN e.l.s ELSE e.s
  IN  /\ Leaf(a) \/ (a.op = "not" /\ Leaf(a.l))
      /\ Leaf(b) \/ (b.op = "not" /\ b.l.op = "sym")
      /\ Of(a) = Of(b)
      /\ TypeOf[Of(a)] \in {"boolean", "tristate"}

Subject(a) == IF a.op = "not" THEN a.l.s ELSE a.s
Third(v, w) == CHOOSE x \in {"y", "m", "n"} : x \notin {v, w}

JoinOr(a, b) ==
  IF ~Joinable(a, b) THEN Null
  ELSE LET s == Subject(a)
           TwoValues == /\ a.op = "eq" /\ b.op = "eq" /\ a.v # b.v
                        /\ {a.v, b.v} \subseteq {"y", "m", "n"}
           Opposite == {a, b} = {Sym(s), Not(Sym(s))}
       IN  CASE TypeOf[s] = "tristate" /\ TwoValues -> Ne(s, Third(a.v, b.v))
             [] TypeOf[s] = "boolean" /\ Opposite -> Yes
             [] OTHER -> Null

JoinAnd(a, b) ==
  IF ~Joinable(a, b) THEN Null
  ELSE LET s == Subject(a)
           With(e) == {a, b} = {Sym(s), e}
           Fixed(p, q) == p.op = "eq" /\ q.op = "ne" /\ Constant(p.v) /\ Constant(q.v)
           Kept(p, q) == IF p.v # q.v THEN Eq(s, p.v) ELSE No
           TwoValues == /\ a.op = "ne" /\ b.op = "ne" /\ a.v # b.v
                        /\ {a.v, b.v} \subseteq {"y", "m", "n"}
       IN  CASE With(Eq(s, "y")) -> Eq(s, "y")
             [] With(Ne(s, "n")) -> Sym(s)
             [] With(Ne(s, "m")) -> Eq(s, "y")
             [] TypeOf[s] = "tristate" /\ Fixed(a, b) -> Kept(a, b)
             [] TypeOf[s] = "tristate" /\ Fixed(b, a) -> Kept(b, a)
             [] TypeOf[s] = "tristate" /\ TwoValues -> Eq(s, Third(a.v, b.v))
             [] OTHER -> Null

Join(op, a, b) ==
  IF ExprEq(a, b) THEN a ELSE IF op = "or" THEN JoinOr(a, b) ELSE JoinAnd(a, b)

-----------------------------------------------------------------------------
(* Normal form: negations pushed to the symbols, boolean comparisons       *)
(* replaced.                                                               *)

\* Mutant for RulesKept: the sign of the comparison is overlooked.
SignLost(e) == IF TypeOf[e.s] = "boolean" /\ e.v \in {"y", "n"} THEN Sym(e.s) ELSE e
TransformCompare(e) ==
  IF TypeOf[e.s] # "boolean" THEN e
  ELSE CASE e.v = "m" -> (IF e.op = "eq" THEN No ELSE Yes)
         [] (e.op = "eq" /\ e.v = "y") \/ (e.op = "ne" /\ e.v = "n") -> Sym(e.s)
         [] (e.op = "eq" /\ e.v = "n") \/ (e.op = "ne" /\ e.v = "y") -> Not(Sym(e.s))
         [] OTHER -> e

RECURSIVE Transform(_)
Transform(e) ==
  CASE e.op \in {"null", "sym"} -> e
    [] Compares(e) -> TransformCompare(e)
    [] Connects(e) -> Two(e.op, Transform(e.l), Transform(e.r))
    [] e.op = "not" ->
         LET x == Transform(e.l)
         IN  CASE x.op = "not" -> Transform(x.l)
               [] x.op = "eq"  -> Ne(x.s, x.v)
               [] x.op = "ne"  -> Eq(x.s, x.v)
               [] x.op = "or"  -> Transform(Two("and", Not(x.l), Not(x.r)))
               [] x.op = "and" -> Transform(Two("or", Not(x.l), Not(x.r)))
               [] x = Yes -> No
               [] x = Mod -> Mod
               [] x = No  -> Yes
               [] OTHER -> Not(x)

RECURSIVE TransBool(_)
TransBool(e) ==
  CASE Connects(e) -> Two(e.op, TransBool(e.l), TransBool(e.r))
    [] e.op = "not" -> Not(TransBool(e.l))
    [] e.op = "ne" /\ e.v = "n" /\ TypeOf[e.s] = "tristate" -> Sym(e.s)
    [] OTHER -> e
-----------------------------------------------------------------------------
(* Common operands of two expressions.                                     *)

\* <<common, rest of a, rest of b>>, common Null when there is none.
RECURSIVE ExtractIn(_, _, _, _)
ExtractRight(op, x, r) ==
  LET y == ExtractIn(op, x[1], r, x[3]) IN <<y[1], Two(op, x[2], y[2]), y[3]>>
ExtractLeft(op, x, r) ==
  LET y == ExtractIn(op, x[1], x[2], r) IN <<y[1], y[2], Two(op, x[3], y[3])>>
ExtractIn(op, common, a, b) ==
  CASE a.op = op -> ExtractRight(op, ExtractIn(op, common, a.l, b), a.r)
    [] a.op # op /\ b.op = op -> ExtractLeft(op, ExtractIn(op, common, a, b.l), b.r)
    [] OTHER ->
         IF ExprEq(a, b)
         THEN <<IF common = Null THEN a ELSE Two(op, common, a), Neutral(op), Neutral(op)>>
         ELSE <<common, a, b>>

CleanedRest(x) == IF x[1] = Null THEN x ELSE <<x[1], EliminateYn(x[2]), EliminateYn(x[3])>>
ExtractEq(op, a, b) == CleanedRest(ExtractIn(op, Null, a, b))

-----------------------------------------------------------------------------
(* Operands that repeat or contradict each other.  r.e is the whole tree,  *)
(* r.changed whether something was rewritten (trans_count), p and q the    *)
(* paths of the two nodes.                                                 *)

RECURSIVE At(_, _)
At(t, p) == IF p = <<>> THEN t
            ELSE IF Head(p) = "l" THEN At(t.l, Tail(p)) ELSE At(t.r, Tail(p))

RECURSIVE Put(_, _, _)
Put(t, p, e) ==
  CASE p = <<>> -> e
    [] p # <<>> /\ t.op = "not" -> Not(Put(t.l, Tail(p), e))
    [] p # <<>> /\ t.op # "not" ->
         IF Head(p) = "l" THEN Two(t.op, Put(t.l, Tail(p), e), t.r)
         ELSE Two(t.op, t.l, Put(t.r, Tail(p), e))

Left(p) == Append(p, "l")
Right(p) == Append(p, "r")

\* The operands at p and q become one, if there is an expression for both.
Replace(op, r, p, q, joined) ==
  IF joined = Null THEN r
  ELSE [e |-> Put(Put(r.e, p, Neutral(op)), q, joined), changed |-> TRUE]
JoinAt(op, r, p, q) == Replace(op, r, p, q, Join(op, At(r.e, p), At(r.e, q)))

RECURSIVE Dups1(_, _, _, _)
Dups1(op, r, p, q) ==
  CASE At(r.e, p).op = op -> Dups1(op, Dups1(op, r, Left(p), q), Right(p), q)
    [] At(r.e, p).op # op /\ At(r.e, q).op = op -> Dups1(op, Dups1(op, r, p, Left(q)), p, Right(q))
    [] OTHER -> IF p = q THEN r
                ELSE JoinAt(op, IF Connects(At(r.e, p)) THEN Dups1(At(r.e, p).op, r, p, p) ELSE r, p, q)

\* The operand at p is decided by what is left of e2 once its negation is found there.
Contradicted(t, p, q) ==
  LET dual == IF At(t, p).op = "or" THEN "and" ELSE "or"
  IN  ExtractEq(dual, Transform(Not(At(t, p))), At(t, q))[2] = Neutral(dual)

DropAt(r, p, q) ==
  IF Contradicted(r.e, p, q)
  THEN [e |-> Put(r.e, p, Neutral(At(r.e, p).op)), changed |-> TRUE] ELSE r

RECURSIVE Dups2(_, _, _, _)
WithinDups2(op, r, p, q) ==
  IF p = q \/ ~Connects(At(r.e, p)) THEN r
  ELSE DropAt(Dups2(At(r.e, p).op, r, p, p), p, q)
Dups2(op, r, p, q) ==
  IF At(r.e, p).op = op THEN Dups2(op, Dups2(op, r, Left(p), q), Right(p), q)
  ELSE WithinDups2(op, IF At(r.e, q).op = op
                       THEN Dups2(op, Dups2(op, r, p, Left(q)), p, Right(q)) ELSE r, p, q)

RECURSIVE EliminateDups(_)
Again(r) == IF r.changed THEN EliminateDups(EliminateYn(r.e)) ELSE r.e
EliminateDups(e) ==
  IF ~Connects(e) THEN e
  ELSE Again(Dups2(e.op, Dups1(e.op, [e |-> e, changed |-> FALSE], <<>>, <<>>), <<>>, <<>>))

-----------------------------------------------------------------------------
(* What an expression says about a symbol.                                 *)

RECURSIVE ContainsSymbol(_, _)
ContainsSymbol(e, s) ==
  CASE e.op = "null" -> FALSE
    [] e.op = "sym" -> e.s = s
    [] Compares(e) -> s \in {e.s, e.v}
    [] e.op = "not" -> ContainsSymbol(e.l, s)
    [] Connects(e) -> ContainsSymbol(e.l, s) \/ ContainsSymbol(e.r, s)

\* e cannot be other than n while s is n.
RECURSIVE DependsSymbol(_, _)
DependsSymbol(e, s) ==
  CASE e.op = "and" -> DependsSymbol(e.l, s) \/ DependsSymbol(e.r, s)
    [] e.op = "sym" -> e.s = s
    [] e.op = "eq"  -> e.s = s /\ e.v \in {"y", "m"}
    [] e.op = "ne"  -> e.s = s /\ e.v = "n"
    [] OTHER -> FALSE

\* The condition e = v (type "eq") or e != v (type "ne"), for v = "y" or "n".
RECURSIVE TransCompare(_, _, _)
TransCompare(e, type, v) ==
  LET Neg(x) == IF type = "ne" THEN Not(x) ELSE x
      both == IF v = "y" THEN "and" ELSE "or"
      either == IF v = "y" THEN "or" ELSE "and"
  IN  CASE e.op = "null" -> Neg(Sym(v))
        [] e.op = "and" -> Neg(Two(both, TransCompare(e.l, "eq", v), TransCompare(e.r, "eq", v)))
        [] e.op = "or" -> Neg(Two(either, TransCompare(e.l, "eq", v), TransCompare(e.r, "eq", v)))
        [] e.op = "not" -> TransCompare(e.l, IF type = "eq" THEN "ne" ELSE "eq", v)
        [] Compares(e) -> IF (type = "eq") = (v = "y") THEN e ELSE Not(e)
        [] e.op = "sym" -> [op |-> type, s |-> e.s, v |-> v]

RECURSIVE LeftmostSymbol(_)
LeftmostSymbol(e) == IF e.op \in {"null", "sym"} THEN e ELSE LeftmostSymbol(e.l)

\* The selecting symbols to name in the warning about unmet dependencies.
RECURSIVE SimplifyUnmetDep(_, _)
SimplifyUnmetDep(e, dep) ==
  CASE e.op = "or" -> AllocAnd(SimplifyUnmetDep(e.l, dep), SimplifyUnmetDep(e.r, dep))
    [] e.op = "and" -> IF ExprEq(EliminateDups(AllocAnd(e, dep)), e) THEN Null
                       ELSE LeftmostSymbol(e)
    [] OTHER -> LeftmostSymbol(e)
-----------------------------------------------------------------------------
(* An expression and what it is made of.                                   *)

RECURSIVE Parts(_)
Parts(e) == {e} \cup UNION {Parts(x) : x \in Operands(e)}

SymsOf(e) == SymsAmong(Parts(e))
WithOperands(es) == [x \in UNION {Parts(e) : e \in es} |-> Parts(x)]
=============================================================================
