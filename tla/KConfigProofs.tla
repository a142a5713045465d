--------------------------- MODULE KConfigProofs ---------------------------
(***************************************************************************)
(* What holds of a configuration while it is edited, for every tree the    *)
(* programs accept, any files, and any number of programs and settings.    *)
(***************************************************************************)
EXTENDS KConfig, FiniteSetTheorems, WellFoundedInduction, TLAPS

(* A set of numbers has a least.                                           *)
LEMMA LeastExists ==
  ASSUME NEW S, S \subseteq Nat, S # {}
  PROVE  \E i \in S : \A j \in S : i <= j
<1>1. PICK i \in S : \A j \in S : ~(<<j, i>> \in OpToRel(<, Nat))
  BY NatLessThanWellFounded, WFMin
<1>2. \A j \in S : ~(j < i)
  BY <1>1 DEF OpToRel
<1>. QED  BY <1>2

(* What holds of 0, and of i + 1 when it holds of i, holds up to n.        *)
LEMMA CountUp ==
  ASSUME NEW S, NEW n \in Nat, 0 \in S, \A i \in 0 .. n - 1 : i \in S => i + 1 \in S
  PROVE  0 .. n \subseteq S
<1>. DEFINE D == (0 .. n) \ S
<1>1. SUFFICES ASSUME D # {} PROVE FALSE
  OBVIOUS
<1>2. D \subseteq Nat
  OBVIOUS
<1>3. PICK i \in D : \A j \in D : i <= j
  BY <1>1, <1>2, LeastExists
<1>4. i # 0 /\ i \in 0 .. n /\ i \notin S
  OBVIOUS
<1>5. i - 1 \in 0 .. n - 1
  BY <1>4
<1>6. i - 1 \notin D
  BY <1>3, <1>4
<1>7. i - 1 \in S
  BY <1>5, <1>6
<1>8. (i - 1) + 1 \in S
  BY <1>5, <1>7
<1>. QED  BY <1>4, <1>8

-----------------------------------------------------------------------------
(* Expressions: what holds of every expression whose operands it holds of. *)

LEMMA ExprParts ==
  ASSUME NEW e \in DOMAIN Exprs
  PROVE  /\ IsFiniteSet(Exprs[e]) /\ e \in Exprs[e]
         /\ \A x \in Operands(e) :
              /\ x \in DOMAIN Exprs /\ Exprs[x] \subseteq Exprs[e] /\ e \notin Exprs[x]
         /\ \A y \in Exprs[e] : y # e => \E x \in Operands(e) : y \in Exprs[x]
<1>1. /\ IsFiniteSet(Exprs[e]) /\ Operands(e) \subseteq DOMAIN Exprs
      /\ \A x \in Operands(e) : e \notin Exprs[x]
  BY ExprsEnd
<1>. DEFINE Below == UNION {Exprs[x] : x \in Operands(e)}
<1>2. Exprs[e] = {e} \cup Below
  BY ExprsEnd
<1>3. \A x \in Operands(e) : Exprs[x] \subseteq Below
  OBVIOUS
<1>4. \A y \in Below : \E x \in Operands(e) : y \in Exprs[x]
  OBVIOUS
<1>. HIDE DEF Below
<1>. QED  BY <1>1, <1>2, <1>3, <1>4

LEMMA ExprInduction ==
  ASSUME NEW S, \A e \in DOMAIN Exprs : Operands(e) \subseteq S => e \in S
  PROVE  DOMAIN Exprs \subseteq S
<1>. DEFINE Size(e) == Cardinality(Exprs[e])
            Rest == DOMAIN Exprs \ S
            Sizes == {Size(e) : e \in Rest}
<1>1. \A e \in DOMAIN Exprs : Size(e) \in Nat
  BY ExprParts, FS_CardinalityType
<1>2. \A e \in DOMAIN Exprs : \A x \in Operands(e) : x \in DOMAIN Exprs /\ Size(x) < Size(e)
  <2>. SUFFICES ASSUME NEW e \in DOMAIN Exprs, NEW x \in Operands(e)
                PROVE  x \in DOMAIN Exprs /\ Size(x) < Size(e)
    OBVIOUS
  <2>1. x \in DOMAIN Exprs /\ IsFiniteSet(Exprs[e]) /\ Exprs[x] \subseteq Exprs[e]
    BY ExprParts
  <2>2. Exprs[x] # Exprs[e]
    BY ExprParts
  <2>. QED  BY <2>1, <2>2, <1>1, FS_Subset
<1>3. SUFFICES ASSUME Rest # {} PROVE FALSE
  OBVIOUS
<1>4. Sizes \subseteq Nat /\ Sizes # {}
  BY <1>1, <1>3
<1>5. PICK i \in Sizes : \A j \in Sizes : i <= j
  BY <1>4, LeastExists
<1>6. PICK e \in Rest : i = Size(e)
  BY <1>5
<1>7. ASSUME NEW x \in Operands(e), x \notin S PROVE FALSE
  <2>1. x \in Rest /\ Size(x) < Size(e)
    BY <1>2, <1>6, <1>7
  <2>2. Size(x) \in Sizes
    BY <2>1
  <2>3. Size(e) <= Size(x) /\ Size(e) \in Nat /\ Size(x) \in Nat
    BY <2>2, <1>4, <1>5, <1>6
  <2>. HIDE DEF Size
  <2>. QED  BY <2>1, <2>3
<1>. QED  BY <1>6, <1>7

(* Its parts have their parts among its own.                               *)
LEMMA PartsOfParts ==
  ASSUME NEW e \in DOMAIN Exprs, NEW y \in Exprs[e]
  PROVE  y \in DOMAIN Exprs /\ Exprs[y] \subseteq Exprs[e] /\ (y # e => e \notin Exprs[y])
<1>. DEFINE Fine(d) == \A z \in Exprs[d] : z \in DOMAIN Exprs /\ Exprs[z] \subseteq Exprs[d]
                                       /\ (z # d => d \notin Exprs[z])
            S == {d \in DOMAIN Exprs : Fine(d)}
<1>1. ASSUME NEW d \in DOMAIN Exprs, Operands(d) \subseteq S PROVE d \in S
  <2>1. ASSUME NEW z \in Exprs[d], z # d
        PROVE  z \in DOMAIN Exprs /\ Exprs[z] \subseteq Exprs[d] /\ d \notin Exprs[z]
    <3>1. PICK x \in Operands(d) : z \in Exprs[x]
      BY <2>1, ExprParts
    <3>2. z \in DOMAIN Exprs /\ Exprs[z] \subseteq Exprs[x]
      BY <1>1, <3>1
    <3>3. Exprs[x] \subseteq Exprs[d] /\ d \notin Exprs[x]
      BY <3>1, ExprParts
    <3>. QED  BY <3>2, <3>3
  <2>. QED  BY <2>1
<1>. HIDE DEF S
<1>2. DOMAIN Exprs \subseteq S
  BY <1>1, ExprInduction
<1>. QED  BY <1>2 DEF S

(* CalcExpr computes an expression from its operands, whichever part of a  *)
(* larger expression it is.                                                *)
IsCalc(cur, g, A) == g = [x \in A |-> CalcNode(cur, g, x)]

LEMMA OperandsOf ==
  ASSUME NEW x
  PROVE  /\ x.op = "not" => Operands(x) = {x.l}
         /\ x.op \in {"and", "or"} => Operands(x) = {x.l, x.r}
BY DEF Operands, Connects

LEMMA SameNode ==
  ASSUME NEW cur, NEW e \in DOMAIN Exprs, NEW g, NEW h, \A x \in Operands(e) : g[x] = h[x]
  PROVE  CalcNode(cur, g, e) = CalcNode(cur, h, e)
<1>1. CASE e.op = "not"
  BY <1>1, OperandsOf DEF CalcNode
<1>2. CASE e.op \in {"and", "or"}
  BY <1>2, OperandsOf DEF CalcNode
<1>3. CASE e.op \in {"null", "sym", "eq", "ne"}
  BY <1>3 DEF CalcNode
<1>4. e.op \in {"null", "sym", "eq", "ne", "not", "and", "or"}
  BY ExprsEnd
<1>. QED  BY <1>1, <1>2, <1>3, <1>4

LEMMA SameCalc ==
  ASSUME NEW cur, NEW e \in DOMAIN Exprs, NEW g, NEW A, NEW h, NEW B,
         IsCalc(cur, g, A), IsCalc(cur, h, B), Exprs[e] \subseteq A, Exprs[e] \subseteq B
  PROVE  g[e] = h[e]
<1>. DEFINE S == {d \in DOMAIN Exprs : Exprs[d] \subseteq A /\ Exprs[d] \subseteq B => g[d] = h[d]}
<1>1. ASSUME NEW d \in DOMAIN Exprs, Operands(d) \subseteq S PROVE d \in S
  <2>1. SUFFICES ASSUME Exprs[d] \subseteq A, Exprs[d] \subseteq B PROVE g[d] = h[d]
    OBVIOUS
  <2>2. \A x \in Operands(d) : g[x] = h[x]
    BY <1>1, <2>1, ExprParts
  <2>3. d \in A /\ d \in B
    BY <2>1, ExprParts
  <2>4. g[d] = CalcNode(cur, g, d) /\ h[d] = CalcNode(cur, h, d)
    BY <2>3 DEF IsCalc
  <2>5. CalcNode(cur, g, d) = CalcNode(cur, h, d)
    BY <2>2, SameNode
  <2>. QED  BY <2>4, <2>5
<1>. HIDE DEF S
<1>2. DOMAIN Exprs \subseteq S
  BY <1>1, ExprInduction
<1>. QED  BY <1>2 DEF S

CalcOf(cur, e) == CHOOSE g : IsCalc(cur, g, Exprs[e])
LEMMA CalcExprOf == ASSUME NEW cur, NEW e PROVE CalcExpr(cur, e) = CalcOf(cur, e)[e]
BY DEF CalcExpr, CalcOf, IsCalc

(* CalcExpr as a function on all expressions.                              *)
CalcAt(cur) == [e \in DOMAIN Exprs |-> CalcExpr(cur, e)]

LEMMA CalcAtNode ==
  ASSUME NEW cur, NEW e \in DOMAIN Exprs,
         \A x \in Exprs[e] : IsCalc(cur, CalcOf(cur, x), Exprs[x])
  PROVE  CalcAt(cur)[e] = CalcNode(cur, CalcAt(cur), e)
<1>. DEFINE g == CalcOf(cur, e)
<1>1. e \in Exprs[e] /\ IsCalc(cur, g, Exprs[e])
  BY ExprParts
<1>2. g[e] = CalcNode(cur, g, e)
  BY <1>1 DEF IsCalc
<1>3. ASSUME NEW x \in Operands(e) PROVE g[x] = CalcAt(cur)[x]
  <2>1. x \in DOMAIN Exprs /\ Exprs[x] \subseteq Exprs[e] /\ x \in Exprs[x]
    BY ExprParts
  <2>2. IsCalc(cur, CalcOf(cur, x), Exprs[x])
    BY <2>1
  <2>. HIDE DEF g
  <2>3. g[x] = CalcOf(cur, x)[x]
    BY <1>1, <2>1, <2>2, SameCalc
  <2>. QED  BY <2>1, <2>3, CalcExprOf DEF CalcAt
<1>4. CalcNode(cur, g, e) = CalcNode(cur, CalcAt(cur), e)
  <2>. HIDE DEF g
  <2>. QED  BY <1>3, SameNode
<1>5. CalcAt(cur)[e] = g[e]
  BY CalcExprOf DEF CalcAt
<1>. QED  BY <1>2, <1>4, <1>5

LEMMA CalcExists ==
  ASSUME NEW cur, NEW e \in DOMAIN Exprs
  PROVE  IsCalc(cur, CalcOf(cur, e), Exprs[e])
<1>. DEFINE Has(x) == IsCalc(cur, CalcOf(cur, x), Exprs[x])
            S == {d \in DOMAIN Exprs : \A x \in Exprs[d] : Has(x)}
            C == CalcAt(cur)
<1>1. ASSUME NEW d \in DOMAIN Exprs, Operands(d) \subseteq S PROVE d \in S
  <2>. DEFINE f == [x \in Exprs[d] |-> IF x = d THEN CalcNode(cur, C, d) ELSE C[x]]
  <2>1. ASSUME NEW x \in Exprs[d], x # d
        PROVE  x \in DOMAIN Exprs /\ d \notin Exprs[x] /\ Exprs[x] \subseteq Exprs[d]
               /\ \A y \in Exprs[x] : Has(y)
    <3>1. PICK o \in Operands(d) : x \in Exprs[o]
      BY <2>1, ExprParts
    <3>2. o \in DOMAIN Exprs /\ \A y \in Exprs[o] : Has(y)
      BY <1>1, <3>1
    <3>3. Exprs[x] \subseteq Exprs[o]
      BY <3>1, <3>2, PartsOfParts
    <3>4. x \in DOMAIN Exprs /\ d \notin Exprs[x] /\ Exprs[x] \subseteq Exprs[d]
      BY <2>1, PartsOfParts
    <3>. QED  BY <3>2, <3>3, <3>4
  <2>2. ASSUME NEW x \in Exprs[d] PROVE \A y \in Operands(x) : f[y] = C[y]
    <3>1. x \in DOMAIN Exprs
      BY PartsOfParts
    <3>2. ASSUME NEW y \in Operands(x) PROVE y \in Exprs[d] /\ y # d
      <4>1. y \in DOMAIN Exprs /\ Exprs[y] \subseteq Exprs[x] /\ x \notin Exprs[y] /\ y \in Exprs[y]
        BY <3>1, ExprParts
      <4>2. Exprs[x] \subseteq Exprs[d] /\ (x # d => d \notin Exprs[x])
        BY PartsOfParts
      <4>. QED  BY <4>1, <4>2
    <3>. QED  BY <3>2
  <2>3. ASSUME NEW x \in Exprs[d] PROVE f[x] = CalcNode(cur, f, x)
    <3>0. x \in DOMAIN Exprs
      BY PartsOfParts
    <3>1. CalcNode(cur, f, x) = CalcNode(cur, C, x)
      <4>. HIDE DEF f, C
      <4>. QED  BY <2>2, <3>0, SameNode
    <3>2. CASE x = d
      BY <3>1, <3>2
    <3>3. CASE x # d
      <4>1. C[x] = CalcNode(cur, C, x)
        <5>1. \A y \in Exprs[x] : IsCalc(cur, CalcOf(cur, y), Exprs[y])
          BY <2>1, <3>3
        <5>. QED  BY <3>0, <5>1, CalcAtNode
      <4>2. f[x] = C[x]
        BY <3>3
      <4>. QED  BY <3>1, <4>1, <4>2
    <3>. QED  BY <3>2, <3>3
  <2>4. IsCalc(cur, f, Exprs[d])
    <3>1. f = [x \in Exprs[d] |-> f[x]]
      OBVIOUS
    <3>. HIDE DEF f
    <3>. QED  BY <2>3, <3>1 DEF IsCalc
  <2>5. Has(d)
    <3>. HIDE DEF f
    <3>. QED  BY <2>4 DEF CalcOf
  <2>6. \A x \in Exprs[d] : Has(x)
    <3>1. ASSUME NEW x \in Exprs[d], x # d PROVE Has(x)
      BY <2>1, <3>1, ExprParts
    <3>. QED  BY <2>5, <3>1
  <2>. QED  BY <2>6
<1>. HIDE DEF S
<1>2. DOMAIN Exprs \subseteq S
  BY <1>1, ExprInduction
<1>. QED  BY <1>2, ExprParts DEF S

LEMMA CalcIs ==
  ASSUME NEW cur, NEW e \in DOMAIN Exprs
  PROVE  CalcExpr(cur, e) = CalcNode(cur, CalcAt(cur), e)
<1>1. \A x \in Exprs[e] : x \in DOMAIN Exprs
  BY PartsOfParts
<1>2. \A x \in Exprs[e] : IsCalc(cur, CalcOf(cur, x), Exprs[x])
  BY <1>1, CalcExists
<1>. QED  BY <1>2, CalcAtNode DEF CalcAt

LEMMA SymsOfParts ==
  ASSUME NEW e \in DOMAIN Exprs
  PROVE  /\ e.op = "sym" => e.s \in SymsAmong(Exprs[e]) /\ e.s \in DOMAIN TypeOf
         /\ e.op \in {"eq", "ne"} => {e.s, e.v} \subseteq SymsAmong(Exprs[e])
         /\ \A x \in Operands(e) : SymsAmong(Exprs[x]) \subseteq SymsAmong(Exprs[e])
<1>. DEFINE Of(x) == CASE x.op = "sym" -> {x.s} [] Compares(x) -> {x.s, x.v} [] OTHER -> {}
<1>1. \A es : SymsAmong(es) = UNION {Of(x) : x \in es}
  BY DEF SymsAmong
<1>2. /\ e.op = "sym" => Of(e) = {e.s}
      /\ e.op \in {"eq", "ne"} => Of(e) = {e.s, e.v}
  BY DEF Compares
<1>. HIDE DEF Of
<1>3. e \in Exprs[e]
  BY ExprParts
<1>4. Of(e) \subseteq SymsAmong(Exprs[e])
  BY <1>1, <1>3
<1>5. SymsAmong({e}) = Of(e)
  BY <1>1
<1>6. Of(e) \subseteq DOMAIN TypeOf
  BY <1>5, ExprsEnd
<1>7. ASSUME NEW x \in Operands(e) PROVE SymsAmong(Exprs[x]) \subseteq SymsAmong(Exprs[e])
  <2>1. Exprs[x] \subseteq Exprs[e]
    BY ExprParts
  <2>. QED  BY <2>1, <1>1
<1>. QED  BY <1>2, <1>4, <1>6, <1>7

(* The value of an expression is that of a tristate.                       *)
LEMMA CalcRange ==
  ASSUME NEW cur, \A s \in DOMAIN TypeOf : cur[s].tri \in 0 .. 2, NEW e \in DOMAIN Exprs
  PROVE  CalcExpr(cur, e) \in 0 .. 2
<1>. DEFINE S == {d \in DOMAIN Exprs : CalcExpr(cur, d) \in 0 .. 2}
<1>1. ASSUME NEW d \in DOMAIN Exprs, Operands(d) \subseteq S PROVE d \in S
  <2>1. CalcExpr(cur, d) = CalcNode(cur, CalcAt(cur), d)
    BY CalcIs
  <2>2. ASSUME NEW x \in Operands(d) PROVE CalcAt(cur)[x] \in 0 .. 2
    BY <1>1 DEF CalcAt
  <2>3. CASE d.op = "not"
    <3>1. CalcAt(cur)[d.l] \in 0 .. 2
      BY <2>2, <2>3, OperandsOf
    <3>. QED  BY <2>1, <2>3, <3>1 DEF CalcNode
  <2>4. CASE d.op \in {"and", "or"}
    <3>1. CalcAt(cur)[d.l] \in 0 .. 2 /\ CalcAt(cur)[d.r] \in 0 .. 2
      BY <2>2, <2>4, OperandsOf
    <3>. QED  BY <2>1, <2>4, <3>1 DEF CalcNode, MinOf, MaxOf
  <2>5. CASE d.op \in {"null", "sym", "eq", "ne"}
    <3>1. d.op = "sym" => cur[d.s].tri \in 0 .. 2
      BY SymsOfParts
    <3>. QED  BY <2>1, <2>5, <3>1 DEF CalcNode, Compares
  <2>6. d.op \in {"null", "sym", "eq", "ne", "not", "and", "or"}
    BY ExprsEnd
  <2>. QED  BY <2>3, <2>4, <2>5, <2>6
<1>. HIDE DEF S
<1>2. DOMAIN Exprs \subseteq S
  BY <1>1, ExprInduction
<1>. QED  BY <1>2 DEF S

(* It is y or n when all its symbols are.                                  *)
LEMMA CalcWhole ==
  ASSUME NEW cur, NEW e \in DOMAIN Exprs, \A s \in SymsAmong(Exprs[e]) : cur[s].tri \in {0, 2}
  PROVE  CalcExpr(cur, e) \in {0, 2}
<1>. DEFINE Plain(d) == \A s \in SymsAmong(Exprs[d]) : cur[s].tri \in {0, 2}
            S == {d \in DOMAIN Exprs : Plain(d) => CalcExpr(cur, d) \in {0, 2}}
<1>1. ASSUME NEW d \in DOMAIN Exprs, Operands(d) \subseteq S PROVE d \in S
  <2>0. SUFFICES ASSUME Plain(d) PROVE CalcExpr(cur, d) \in {0, 2}
    OBVIOUS
  <2>1. CalcExpr(cur, d) = CalcNode(cur, CalcAt(cur), d)
    BY CalcIs
  <2>2. ASSUME NEW x \in Operands(d) PROVE CalcAt(cur)[x] \in {0, 2}
    <3>1. Plain(x)
      BY <2>0, SymsOfParts
    <3>. QED  BY <1>1, <3>1 DEF CalcAt
  <2>3. CASE d.op = "not"
    <3>1. CalcAt(cur)[d.l] \in {0, 2}
      BY <2>2, <2>3, OperandsOf
    <3>. QED  BY <2>1, <2>3, <3>1 DEF CalcNode
  <2>4. CASE d.op \in {"and", "or"}
    <3>1. CalcAt(cur)[d.l] \in {0, 2} /\ CalcAt(cur)[d.r] \in {0, 2}
      BY <2>2, <2>4, OperandsOf
    <3>. QED  BY <2>1, <2>4, <3>1 DEF CalcNode, MinOf, MaxOf
  <2>5. CASE d.op \in {"null", "sym", "eq", "ne"}
    <3>1. d.op = "sym" => cur[d.s].tri \in {0, 2}
      BY <2>0, SymsOfParts
    <3>. QED  BY <2>1, <2>5, <3>1 DEF CalcNode, Compares
  <2>6. d.op \in {"null", "sym", "eq", "ne", "not", "and", "or"}
    BY ExprsEnd
  <2>. QED  BY <2>3, <2>4, <2>5, <2>6
<1>. HIDE DEF S
<1>2. DOMAIN Exprs \subseteq S
  BY <1>1, ExprInduction
<1>. QED  BY <1>2 DEF S

(* It is the same for as long as its symbols, and MODULES, are.            *)
Alike(c, d, s) == c[s].tri = d[s].tri /\ (~IsTri(s) => c[s].val = d[s].val)

LEMMA SameString ==
  ASSUME NEW c, NEW d, NEW s, Alike(c, d, s), Alike(c, d, ModulesSym)
  PROVE  StringValue(c, s) = StringValue(d, s)
BY DEF Alike, StringValue, IsTri

LEMMA CalcSame ==
  ASSUME NEW cur, NEW now, NEW e \in DOMAIN Exprs,
         \A s \in SymsAmong(Exprs[e]) \cup {ModulesSym} : Alike(cur, now, s)
  PROVE  CalcExpr(cur, e) = CalcExpr(now, e)
<1>. DEFINE Held(d) == \A s \in SymsAmong(Exprs[d]) : Alike(cur, now, s)
            S == {d \in DOMAIN Exprs : Held(d) => CalcExpr(cur, d) = CalcExpr(now, d)}
<1>1. ASSUME NEW d \in DOMAIN Exprs, Operands(d) \subseteq S PROVE d \in S
  <2>0. SUFFICES ASSUME Held(d) PROVE CalcExpr(cur, d) = CalcExpr(now, d)
    OBVIOUS
  <2>1. /\ CalcExpr(cur, d) = CalcNode(cur, CalcAt(cur), d)
        /\ CalcExpr(now, d) = CalcNode(now, CalcAt(now), d)
    BY CalcIs
  <2>2. ASSUME NEW x \in Operands(d) PROVE CalcAt(cur)[x] = CalcAt(now)[x]
    <3>1. Held(x)
      BY <2>0, SymsOfParts
    <3>. QED  BY <1>1, <3>1 DEF CalcAt
  <2>3. CalcNode(cur, CalcAt(cur), d) = CalcNode(cur, CalcAt(now), d)
    BY <2>2, SameNode
  <2>4. CalcNode(cur, CalcAt(now), d) = CalcNode(now, CalcAt(now), d)
    <3>1. CASE d.op = "sym"
      <4>1. cur[d.s].tri = now[d.s].tri
        BY <2>0, <3>1, SymsOfParts DEF Alike
      <4>. QED  BY <3>1, <4>1 DEF CalcNode
    <3>2. CASE d.op \in {"eq", "ne"}
      <4>1. Alike(cur, now, d.s) /\ Alike(cur, now, d.v) /\ Alike(cur, now, ModulesSym)
        BY <2>0, <3>2, SymsOfParts
      <4>2. StringValue(cur, d.s) = StringValue(now, d.s) /\ StringValue(cur, d.v) = StringValue(now, d.v)
        BY <4>1, SameString
      <4>. QED  BY <3>2, <4>2 DEF CalcNode
    <3>3. CASE d.op \in {"null", "not", "and", "or"}
      BY <3>3 DEF CalcNode
    <3>4. d.op \in {"null", "sym", "eq", "ne", "not", "and", "or"}
      BY ExprsEnd
    <3>. QED  BY <3>1, <3>2, <3>3, <3>4
  <2>. QED  BY <2>1, <2>3, <2>4
<1>. HIDE DEF S
<1>2. DOMAIN Exprs \subseteq S
  BY <1>1, ExprInduction
<1>. QED  BY <1>2 DEF S

-----------------------------------------------------------------------------
(* Symbols.                                                                *)

Tristates(cur) == \A s \in DOMAIN TypeOf : cur[s].tri \in 0 .. 2

LEMMA MaxOfTristates ==
  ASSUME NEW S, S \subseteq 0 .. 2
  PROVE  Max0(S) \in 0 .. 2 /\ (S # {} => Max0(S) \in S)
<1>1. CASE S = {}
  BY <1>1 DEF Max0
<1>2. CASE S # {}
  <2>1. \E x \in S : \A y \in S : x >= y
    <3>1. CASE 2 \in S
      BY <3>1
    <3>2. CASE 2 \notin S /\ 1 \in S
      BY <3>2
    <3>3. CASE 2 \notin S /\ 1 \notin S
      <4>1. \A y \in S : y = 0
        BY <3>3
      <4>2. PICK x \in S : TRUE
        BY <1>2
      <4>. QED  BY <4>1, <4>2
    <3>. QED  BY <3>1, <3>2, <3>3
  <2>2. Max(S) \in S
    BY <2>1 DEF Max
  <2>. QED  BY <1>2, <2>2 DEF Max0
<1>. QED  BY <1>1, <1>2

LEMMA LeastIndex ==
  ASSUME NEW S, S \subseteq Nat
  PROVE  Min0(S) \in S \cup {0} /\ (S # {} => Min0(S) \in S)
<1>1. CASE S = {}
  BY <1>1 DEF Min0
<1>2. CASE S # {}
  <2>1. Min(S) \in S
    BY <1>2, LeastExists DEF Min
  <2>. QED  BY <1>2, <2>1 DEF Min0
<1>. QED  BY <1>1, <1>2

LEMMA TableOf ==
  ASSUME NEW t, Evaluable(t), NEW s \in DOMAIN t.tab
  PROVE  /\ s \in DOMAIN TypeOf /\ s \notin {"y", "m", "n"}
         /\ t.tab[s].dir \in DOMAIN Exprs /\ t.tab[s].rev \in DOMAIN Exprs
         /\ t.tab[s].prompts \in Seq(DOMAIN Exprs)
         /\ t.tab[s].defaults \in Seq([e : DOMAIN Exprs, cond : DOMAIN Exprs])
         /\ t.tab[s].ranges \in Seq([lo : DOMAIN TypeOf, hi : DOMAIN TypeOf, cond : DOMAIN Exprs])
         /\ t.tab[s].vals \in Seq(DOMAIN t.tab)
BY DEF Evaluable

(* What the prompts of a symbol say.                                       *)
Prompted(t, cur, s) == {CalcExpr(cur, t.tab[s].prompts[i]) : i \in DOMAIN t.tab[s].prompts}

LEMMA VisibleIs ==
  ASSUME NEW t, NEW cur, NEW s
  PROVE  Visible(t, cur, s) =
           IF Max0(Prompted(t, cur, s)) = 1 /\ (TypeOf[s] # "tristate" \/ ModulesVal(cur) = 0) THEN 2
           ELSE Max0(Prompted(t, cur, s))
BY DEF Visible, Prompted

LEMMA VisibleRange ==
  ASSUME NEW t, Evaluable(t), NEW s \in DOMAIN t.tab, NEW cur, Tristates(cur)
  PROVE  /\ Visible(t, cur, s) \in 0 .. 2
         /\ TypeOf[s] # "tristate" \/ ModulesVal(cur) = 0 => Visible(t, cur, s) \in {0, 2}
<1>1. \A i \in DOMAIN t.tab[s].prompts : t.tab[s].prompts[i] \in DOMAIN Exprs
  BY TableOf
<1>2. \A e \in DOMAIN Exprs : CalcExpr(cur, e) \in 0 .. 2
  BY CalcRange DEF Tristates
<1>3. Prompted(t, cur, s) \subseteq 0 .. 2
  BY <1>1, <1>2 DEF Prompted
<1>4. Max0(Prompted(t, cur, s)) \in 0 .. 2
  BY <1>3, MaxOfTristates
<1>. QED  BY <1>4, VisibleIs

LEMMA PromptSymsOf ==
  ASSUME NEW t, NEW s, NEW i \in DOMAIN t.tab[s].prompts
  PROVE  SymsAmong(Exprs[t.tab[s].prompts[i]]) \subseteq PromptSyms(t, s)
<1>. DEFINE E == t.tab[s].prompts[i]
            Of(x) == CASE x.op = "sym" -> {x.s} [] Compares(x) -> {x.s, x.v} [] OTHER -> {}
            All == UNION {Exprs[e] : e \in Range(t.tab[s].prompts)}
<1>1. \A es : SymsAmong(es) = UNION {Of(x) : x \in es}
  BY DEF SymsAmong
<1>2. E \in Range(t.tab[s].prompts)
  BY DEF Range
<1>3. PromptSyms(t, s) = SymsAmong(All)
  BY DEF PromptSyms
<1>. HIDE DEF E, Of
<1>4. Exprs[E] \subseteq All
  BY <1>2
<1>. HIDE DEF All
<1>5. SymsAmong(Exprs[E]) \subseteq SymsAmong(All)
  BY <1>1, <1>4
<1>. QED  BY <1>3, <1>5 DEF E

LEMMA SameModules ==
  ASSUME NEW cur, NEW now, Alike(cur, now, ModulesSym), ModulesSym \in DOMAIN cur, ModulesSym \in DOMAIN now
  PROVE  ModulesVal(cur) = ModulesVal(now)
BY DEF ModulesVal, Alike

LEMMA VisibleSame ==
  ASSUME NEW t, Evaluable(t), NEW s \in DOMAIN t.tab, NEW cur, NEW now,
         ModulesSym \in DOMAIN cur, ModulesSym \in DOMAIN now,
         \A x \in PromptSyms(t, s) \cup {ModulesSym} : Alike(cur, now, x)
  PROVE  Visible(t, cur, s) = Visible(t, now, s)
<1>1. ASSUME NEW i \in DOMAIN t.tab[s].prompts
      PROVE  CalcExpr(cur, t.tab[s].prompts[i]) = CalcExpr(now, t.tab[s].prompts[i])
  <2>1. t.tab[s].prompts[i] \in DOMAIN Exprs
    BY TableOf
  <2>2. \A x \in SymsAmong(Exprs[t.tab[s].prompts[i]]) \cup {ModulesSym} : Alike(cur, now, x)
    BY PromptSymsOf
  <2>. QED  BY <2>1, <2>2, CalcSame
<1>2. Prompted(t, cur, s) = Prompted(t, now, s)
  BY <1>1 DEF Prompted
<1>3. ModulesVal(cur) = ModulesVal(now)
  BY SameModules
<1>. QED  BY <1>2, <1>3, VisibleIs

(* A symbol is fully visible or not at all when no prompt of it can be m.  *)
LEMMA VisibleWhole ==
  ASSUME NEW t, Evaluable(t), NEW s \in DOMAIN t.tab, NEW cur,
         \A x \in PromptSyms(t, s) : cur[x].tri \in {0, 2}
  PROVE  Visible(t, cur, s) \in {0, 2}
<1>1. ASSUME NEW i \in DOMAIN t.tab[s].prompts
      PROVE  CalcExpr(cur, t.tab[s].prompts[i]) \in {0, 2}
  <2>1. t.tab[s].prompts[i] \in DOMAIN Exprs
    BY TableOf
  <2>2. \A x \in SymsAmong(Exprs[t.tab[s].prompts[i]]) : cur[x].tri \in {0, 2}
    BY PromptSymsOf
  <2>. QED  BY <2>1, <2>2, CalcWhole
<1>2. Prompted(t, cur, s) \subseteq {0, 2}
  BY <1>1 DEF Prompted
<1>3. Max0(Prompted(t, cur, s)) \in {0, 2}
  <2>1. Prompted(t, cur, s) \subseteq 0 .. 2
    BY <1>2
  <2>2. Prompted(t, cur, s) = {} => Max0(Prompted(t, cur, s)) = 0
    BY DEF Max0
  <2>. QED  BY <1>2, <2>1, <2>2, MaxOfTristates
<1>. QED  BY <1>3, VisibleIs

(* The state of a symbol, and what the user said of it: records with a     *)
(* tristate in them.                                                       *)
CurFields == {"tri", "val", "vis", "dir", "rev", "write", "has"}
CurRec(c) == DOMAIN c = CurFields /\ c.tri \in 0 .. 2
UserRec(u) == DOMAIN u = {"has", "tri", "val"} /\ u.tri \in 0 .. 2

LEMMA WordRec ==
  ASSUME NEW c, CurRec(c), NEW x
  PROVE  LET d == [c EXCEPT !.tri = 0, !.val = x] IN CurRec(d) /\ d.tri = 0 /\ d.vis = c.vis
BY DEF CurRec, CurFields

LEMMA ChoiceRec ==
  ASSUME NEW user, NEW c, CurRec(c), c.tri = 2, NEW seen, NEW chosen
  PROVE  LET d == ChoiceWith(user, c, seen, chosen)
         IN  CurRec(d) /\ d.val = chosen /\ d.vis = c.vis /\ d.tri = IF chosen = None THEN 0 ELSE 2
<1>. DEFINE has == c.has /\ \A v \in seen : user[v].has
            d == [c EXCEPT !.val = chosen, !.tri = IF chosen = None THEN 0 ELSE @, !.has = has]
<1>1. ChoiceWith(user, c, seen, chosen) = d
  BY DEF ChoiceWith
<1>. HIDE DEF has
<1>2. CurRec(d) /\ d.val = chosen /\ d.vis = c.vis /\ d.tri = IF chosen = None THEN 0 ELSE 2
  BY DEF CurRec, CurFields
<1>. QED  BY <1>1, <1>2

LEMMA ElementOf == ASSUME NEW S, NEW seq \in Seq(S), NEW i \in DOMAIN seq PROVE seq[i] \in S
OBVIOUS

LEMMA DefaultRange ==
  ASSUME NEW t, Evaluable(t), NEW s \in DOMAIN t.tab, NEW cur, Tristates(cur)
  PROVE  LET at == DefaultAt(t, cur, s)
         IN  DefaultTri(t, cur, s, at) \in 0 .. 2
             /\ (t.tab[s].defaults = <<>> => DefaultTri(t, cur, s, at) = 0)
<1>. DEFINE at == DefaultAt(t, cur, s)
            ds == t.tab[s].defaults
            S == {i \in DOMAIN ds : CalcExpr(cur, ds[i].cond) # 0}
<1>1. ds \in Seq([e : DOMAIN Exprs, cond : DOMAIN Exprs])
  BY TableOf
<1>2. S \subseteq Nat /\ S \subseteq DOMAIN ds
  BY <1>1
<1>3. at = Min0(S)
  BY DEF DefaultAt
<1>4. at \in DOMAIN ds \cup {0}
  <2>. HIDE DEF S, at, ds
  <2>. QED  BY <1>2, <1>3, LeastIndex
<1>5. CASE at = 0
  <2>1. DefaultTri(t, cur, s, at) = 0
    BY <1>5 DEF DefaultTri
  <2>. QED  BY <2>1
<1>6. CASE at # 0
  <2>1. at \in DOMAIN ds /\ ds # <<>>
    BY <1>4, <1>6
  <2>2. ds[at] \in [e : DOMAIN Exprs, cond : DOMAIN Exprs]
    <3>. HIDE DEF ds, at
    <3>. QED  BY <1>1, <2>1, ElementOf
  <2>3. CalcExpr(cur, ds[at].e) \in 0 .. 2 /\ CalcExpr(cur, ds[at].cond) \in 0 .. 2
    <3>. HIDE DEF ds, at
    <3>. QED  BY <2>2, CalcRange DEF Tristates
  <2>4. DefaultTri(t, cur, s, at) = MinOf(CalcExpr(cur, ds[at].e), CalcExpr(cur, ds[at].cond))
    BY <1>6 DEF DefaultTri
  <2>. QED  BY <2>1, <2>3, <2>4 DEF MinOf
<1>. QED  BY <1>5, <1>6

LEMMA RevRange ==
  ASSUME NEW t, Evaluable(t), NEW s \in DOMAIN t.tab, NEW cur, Tristates(cur), NEW vis
  PROVE  RevDep(t, cur, s, vis) \in 0 .. 2 /\ (IsValue(t, s) => RevDep(t, cur, s, vis) = 0)
<1>1. CalcExpr(cur, t.tab[s].rev) \in 0 .. 2
  BY TableOf, CalcRange DEF Tristates
<1>. QED  BY <1>1 DEF RevDep

(* What sym_calc_value makes of a symbol.                                  *)
LEMMA OwnTriIs ==
  ASSUME NEW t, Evaluable(t), NEW s \in DOMAIN t.tab, NEW cur, Tristates(cur),
         NEW user, UserRec(user[s]), NEW vis \in 0 .. 2, NEW rev \in 0 .. 2
  PROVE  LET tri == OwnTri(t, user, cur, s, vis, rev, DefaultAt(t, cur, s))
         IN  /\ tri \in 0 .. 2
             /\ Chosen(t, s, vis) => tri = IF cur[t.tab[s].choice].val = s THEN 2 ELSE 0
             /\ IsValue(t, s) /\ vis # 2 /\ rev = 0 /\ t.tab[s].defaults = <<>> => tri <= vis
<1>. DEFINE at == DefaultAt(t, cur, s)
            d == DefaultTri(t, cur, s, at)
            given == IF vis # 0 /\ user[s].has THEN MinOf(user[s].tri, vis)
                     ELSE IF IsChoice(t, s) THEN 0 ELSE d
            tri == OwnTri(t, user, cur, s, vis, rev, at)
<1>1. d \in 0 .. 2 /\ (t.tab[s].defaults = <<>> => d = 0)
  BY DefaultRange
<1>2. tri = IF Chosen(t, s, vis) THEN (IF cur[t.tab[s].choice].val = s THEN 2 ELSE 0)
            ELSE MaxOf(given, rev)
  BY DEF OwnTri
<1>. HIDE DEF d, at
<1>3. given \in 0 .. 2 /\ (d = 0 => given <= vis)
  BY <1>1 DEF UserRec, MinOf
<1>4. IsValue(t, s) /\ vis # 2 => ~Chosen(t, s, vis)
  BY DEF Chosen
<1>. HIDE DEF given, tri
<1>5. tri \in 0 .. 2
  BY <1>2, <1>3 DEF MaxOf
<1>6. Chosen(t, s, vis) => tri = IF cur[t.tab[s].choice].val = s THEN 2 ELSE 0
  BY <1>2
<1>7. ASSUME IsValue(t, s), vis # 2, rev = 0, t.tab[s].defaults = <<>> PROVE tri <= vis
  BY <1>1, <1>2, <1>3, <1>4, <1>7 DEF MaxOf
<1>. QED  BY <1>5, <1>6, <1>7 DEF tri, at

LEMMA ChoiceDefaultSeen ==
  ASSUME NEW t, Evaluable(t), NEW s \in DOMAIN t.tab, NEW cur, NEW seen
  PROVE  ChoiceDefault(t, cur, s, seen) \in seen \cup {None}
<1>. DEFINE ds == t.tab[s].defaults
            vals == t.tab[s].vals
            H == {i \in DOMAIN ds : CalcExpr(cur, ds[i].cond) # 0 /\ ds[i].e.s \in seen}
            F == {i \in DOMAIN vals : vals[i] \in seen}
            hit == Min0(H)
            first == Min0(F)
<1>1. ds \in Seq([e : DOMAIN Exprs, cond : DOMAIN Exprs]) /\ vals \in Seq(DOMAIN t.tab)
  BY TableOf
<1>2. H \subseteq Nat /\ F \subseteq Nat /\ 0 \notin H /\ 0 \notin F
  BY <1>1
<1>3. (hit # 0 => hit \in H) /\ (first # 0 => first \in F)
  <2>. HIDE DEF H, F
  <2>. QED  BY <1>2, LeastIndex
<1>4. (hit # 0 => ds[hit].e.s \in seen) /\ (first # 0 => vals[first] \in seen)
  <2>. HIDE DEF hit, first
  <2>. QED  BY <1>3
<1>5. ChoiceDefault(t, cur, s, seen) = CASE hit # 0 -> ds[hit].e.s
        [] hit = 0 /\ first # 0 -> vals[first]
        [] OTHER -> None
  BY DEF ChoiceDefault
<1>. HIDE DEF ds, vals, hit, first
<1>. QED  BY <1>4, <1>5

LEMMA CalcChoiceIs ==
  ASSUME NEW t, Evaluable(t), NEW s \in DOMAIN t.tab, NEW cur, NEW user,
         NEW e, CurRec(e), e.tri = 2
  PROVE  LET c == CalcChoice(t, user, cur, s, e)
         IN  /\ CurRec(c) /\ c.vis = e.vis /\ c.tri \in {0, 2}
             /\ c.tri = 2 => /\ c.val \in Members(t, s)
                             /\ Visible(t, [cur EXCEPT ![s] = e], c.val) # 0
<1>. DEFINE with == [cur EXCEPT ![s] = e]
            seen == {v \in Range(t.tab[s].vals) : Visible(t, with, v) # 0}
            chosen == IF user[s].val \in seen THEN user[s].val ELSE ChoiceDefault(t, with, s, seen)
            c == CalcChoice(t, user, cur, s, e)
<1>1. c = ChoiceWith(user, e, seen, chosen)
  BY DEF CalcChoice, ChoiceSeeing
<1>2. chosen \in seen \cup {None}
  <2>. HIDE DEF seen, with
  <2>. QED  BY ChoiceDefaultSeen
<1>3. seen \subseteq Members(t, s) /\ \A v \in seen : Visible(t, with, v) # 0
  BY DEF Members
<1>. HIDE DEF seen, chosen, c, with
<1>4. CurRec(c) /\ c.val = chosen /\ c.vis = e.vis /\ c.tri = IF chosen = None THEN 0 ELSE 2
  BY <1>1, ChoiceRec
<1>5. c.tri \in {0, 2} /\ (c.tri = 2 => c.val \in seen)
  BY <1>2, <1>4
<1>6. c.tri = 2 => c.val \in Members(t, s) /\ Visible(t, with, c.val) # 0
  BY <1>3, <1>5
<1>. QED  BY <1>4, <1>5, <1>6 DEF c, with

CalcFacts(t, user, cur, s, c) ==
  /\ CurRec(c) /\ c.vis = Visible(t, cur, s)
  /\ TypeOf[s] # "tristate" => c.tri # 1
  /\ IsTri(s) /\ IsChoice(t, s) /\ c.tri = 2
       => \E e : /\ CurRec(e) /\ e.tri = 2 /\ c.val \in Members(t, s)
                 /\ Visible(t, [cur EXCEPT ![s] = e], c.val) # 0
  /\ IsTri(s) /\ IsValue(t, s) /\ ~IsChoice(t, s) /\ t.tab[s].defaults = <<>>
       => /\ c.vis = 2 => (c.tri = 2 <=> cur[t.tab[s].choice].val = s)
          /\ c.vis # 2 => c.tri # 2

LEMMA CalcSymbolIs ==
  ASSUME NEW t, Evaluable(t), NEW s \in DOMAIN t.tab, NEW cur, Tristates(cur),
         NEW user, UserRec(user[s]), NEW old
  PROVE  CalcFacts(t, user, cur, s, CalcSymbol(t, user, cur, old, s))
<1>. DEFINE vis == Visible(t, cur, s)
            rev == RevDep(t, cur, s, vis)
            at == DefaultAt(t, cur, s)
            tri == OwnTri(t, user, cur, s, vis, rev, at)
            own == IF tri = 1 /\ ActsBoolean(t, cur, s, vis) THEN 2 ELSE tri
            e == Entry(t, user, cur, old, s, vis, rev, at, tri)
            c == CalcKind(t, user, cur, s, e, at)
<1>1. CalcSymbol(t, user, cur, old, s) = c
  BY DEF CalcSymbol, CalcSeen, CalcVisible
<1>2. /\ vis \in 0 .. 2
      /\ TypeOf[s] # "tristate" \/ ModulesVal(cur) = 0 => vis \in {0, 2}
  BY VisibleRange
<1>3. rev \in 0 .. 2 /\ (IsValue(t, s) => rev = 0)
  <2>. HIDE DEF vis
  <2>. QED  BY RevRange
<1>4. /\ tri \in 0 .. 2
      /\ Chosen(t, s, vis) => tri = IF cur[t.tab[s].choice].val = s THEN 2 ELSE 0
      /\ IsValue(t, s) /\ vis # 2 /\ rev = 0 /\ t.tab[s].defaults = <<>> => tri <= vis
  <2>. HIDE DEF vis, rev
  <2>. QED  BY <1>2, <1>3, OwnTriIs
<1>. HIDE DEF rev, at, tri
<1>5. own \in 0 .. 2
  BY <1>4
<1>. HIDE DEF vis
<1>6. DOMAIN e = CurFields /\ e.tri = own /\ e.vis = vis
  BY DEF Entry, CurFields
<1>. HIDE DEF own, e
<1>7. CurRec(e)
  BY <1>5, <1>6 DEF CurRec
<1>8. IsTri(s) /\ TypeOf[s] # "tristate" => own # 1
  BY DEF own, ActsBoolean, IsTri
<1>9. IsValue(t, s) /\ t.tab[s].defaults = <<>>
        => (vis = 2 => (own = 2 <=> cur[t.tab[s].choice].val = s)) /\ (vis # 2 => own # 2)
  BY <1>2, <1>3, <1>4 DEF own, ActsBoolean, Chosen
<1>10. CASE ~IsTri(s)
  <2>. DEFINE x == Clamped(t, cur, s, IF e.vis # 0 /\ user[s].has THEN user[s].val
                                      ELSE DefaultVal(t, cur, s, at), RangeAt(t, cur, s))
  <2>1. c = [e EXCEPT !.tri = 0, !.val = x]
    BY <1>10 DEF CalcKind, Word
  <2>. HIDE DEF x, c
  <2>2. CurRec(c) /\ c.tri = 0 /\ c.vis = e.vis
    BY <1>7, <2>1, WordRec
  <2>. QED  BY <1>1, <1>6, <1>10, <2>2 DEF CalcFacts, vis
<1>11. CASE IsTri(s) /\ IsChoice(t, s) /\ e.tri = 2
  <2>1. c = CalcChoice(t, user, cur, s, e)
    BY <1>11 DEF CalcKind
  <2>. HIDE DEF c
  <2>2. /\ CurRec(c) /\ c.vis = e.vis /\ c.tri \in {0, 2}
        /\ c.tri = 2 => c.val \in Members(t, s) /\ Visible(t, [cur EXCEPT ![s] = e], c.val) # 0
    BY <1>7, <1>11, <2>1, CalcChoiceIs
  <2>3. c.tri = 2 => \E d : /\ CurRec(d) /\ d.tri = 2 /\ c.val \in Members(t, s)
                          /\ Visible(t, [cur EXCEPT ![s] = d], c.val) # 0
    BY <1>7, <1>11, <2>2
  <2>4. c.vis = Visible(t, cur, s)
    BY <1>6, <2>2 DEF vis
  <2>. QED  BY <1>1, <1>11, <2>2, <2>3, <2>4 DEF CalcFacts
<1>12. CASE IsTri(s) /\ ~(IsChoice(t, s) /\ e.tri = 2)
  <2>1. c = e
    BY <1>12 DEF CalcKind
  <2>. HIDE DEF c
  <2>. QED  BY <1>1, <1>6, <1>7, <1>8, <1>9, <1>12, <2>1 DEF CalcFacts, vis
<1>. QED  BY <1>10, <1>11, <1>12

-----------------------------------------------------------------------------
(* All symbols, one after the other.                                       *)

StepsTo(t, user, old, S, n, f) ==
  f = [j \in 0 .. n |-> IF j = 0 THEN old ELSE CalcOne(t, user, old, S, f[j - 1], t.order[j])]

LEMMA StepsExist ==
  ASSUME NEW t, NEW user, NEW old, NEW S, NEW n \in Nat
  PROVE  \E f : StepsTo(t, user, old, S, n, f)
<1>. DEFINE one(c, j) == CalcOne(t, user, old, S, c, t.order[j])
            D == {i \in 0 .. n : \E f : StepsTo(t, user, old, S, i, f)}
<1>1. 0 \in D
  <2>. DEFINE f == [j \in 0 .. 0 |-> old]
  <2>1. f = [j \in 0 .. 0 |-> IF j = 0 THEN old ELSE one(f[j - 1], j)]
    OBVIOUS
  <2>. HIDE DEF f
  <2>2. StepsTo(t, user, old, S, 0, f)
    BY <2>1 DEF StepsTo
  <2>. QED  BY <2>2
<1>2. ASSUME NEW i \in 0 .. n - 1, i \in D PROVE i + 1 \in D
  <2>1. PICK f : StepsTo(t, user, old, S, i, f)
    BY <1>2
  <2>. DEFINE g == [j \in 0 .. i + 1 |-> IF j = i + 1 THEN one(f[i], i + 1) ELSE f[j]]
  <2>2. ASSUME NEW j \in 0 .. i + 1 PROVE g[j] = IF j = 0 THEN old ELSE one(g[j - 1], j)
    <3>1. CASE j = i + 1
      <4>1. j - 1 = i /\ i # i + 1 /\ j # 0 /\ i \in 0 .. i + 1
        BY <3>1
      <4>2. g[i] = f[i] /\ g[j] = one(f[i], j)
        BY <3>1, <4>1
      <4>. HIDE DEF one, g
      <4>. QED  BY <4>1, <4>2
    <3>2. CASE j # i + 1 /\ j # 0
      <4>1. j \in 0 .. i /\ j - 1 \in 0 .. i + 1 /\ j - 1 # i + 1
        BY <3>2
      <4>2. g[j] = f[j] /\ g[j - 1] = f[j - 1]
        BY <3>2, <4>1
      <4>3. f[j] = one(f[j - 1], j)
        BY <2>1, <3>2, <4>1 DEF StepsTo
      <4>. HIDE DEF one, g
      <4>. QED  BY <3>2, <4>2, <4>3
    <3>3. CASE j = 0
      <4>1. f[0] = old
        BY <2>1 DEF StepsTo
      <4>. QED  BY <3>3, <4>1
    <3>. QED  BY <3>1, <3>2, <3>3
  <2>3. g = [j \in 0 .. i + 1 |-> g[j]]
    OBVIOUS
  <2>. HIDE DEF g, one
  <2>4. g = [j \in 0 .. i + 1 |-> IF j = 0 THEN old ELSE one(g[j - 1], j)]
    BY <2>2, <2>3
  <2>5. StepsTo(t, user, old, S, i + 1, g)
    BY <2>4 DEF StepsTo, one
  <2>. QED  BY <2>5
<1>. HIDE DEF D
<1>3. 0 .. n \subseteq D
  BY <1>1, <1>2, CountUp
<1>. QED  BY <1>3 DEF D

LEMMA CalcAllIs ==
  ASSUME NEW t, t.order \in Seq(DOMAIN t.tab), NEW user, NEW old, NEW S
  PROVE  \E f : /\ f[0] = old /\ CalcAll(t, user, old, S) = f[Len(t.order)]
                /\ \A n \in 1 .. Len(t.order) :
                     f[n] = CalcOne(t, user, old, S, f[n - 1], t.order[n])
<1>. DEFINE N == Len(t.order)
            f == CHOOSE g : StepsTo(t, user, old, S, N, g)
<1>1. N \in Nat
  OBVIOUS
<1>2. CalcAll(t, user, old, S) = f[N]
  BY DEF CalcAll, StepsTo
<1>3. StepsTo(t, user, old, S, N, f)
  <2>. HIDE DEF N
  <2>. QED  BY <1>1, StepsExist
<1>. HIDE DEF f, N
<1>4. f[0] = old /\ \A n \in 1 .. N : f[n] = CalcOne(t, user, old, S, f[n - 1], t.order[n])
  BY <1>1, <1>3 DEF StepsTo
<1>. QED  BY <1>2, <1>4 DEF N

(* Memory: what is calculated, and what the user said, of every symbol.    *)
CurOk(cur) ==
  /\ DOMAIN cur = DOMAIN TypeOf /\ \A s \in DOMAIN TypeOf : CurRec(cur[s])
  /\ \A s \in DOMAIN TypeOf : cur[s].tri = 1 => s = "m" \/ TypeOf[s] = "tristate"
UserOk(t, user) == DOMAIN user = DOMAIN t.tab /\ \A s \in DOMAIN t.tab : UserRec(user[s])

LEMMA TristatesOf == ASSUME NEW cur, CurOk(cur) PROVE Tristates(cur)
BY DEF CurOk, CurRec, Tristates

LEMMA CalcOneIs ==
  ASSUME NEW t, Evaluable(t), NEW user, UserOk(t, user), NEW old, NEW S,
         NEW cur, CurOk(cur), NEW s \in DOMAIN t.tab
  PROVE  LET c == CalcOne(t, user, old, S, cur, s)
         IN  /\ CurOk(c)
             /\ \A x \in DOMAIN TypeOf : x # s \/ s \notin S => c[x] = cur[x]
             /\ s \in S => CalcFacts(t, user, cur, s, c[s])
<1>. DEFINE e == CalcSymbol(t, user, cur, old[s], s)
            c == CalcOne(t, user, old, S, cur, s)
<1>1. c = IF s \in S THEN [cur EXCEPT ![s] = e] ELSE cur
  BY DEF CalcOne
<1>2. CalcFacts(t, user, cur, s, e)
  BY TristatesOf, CalcSymbolIs DEF UserOk
<1>3. CurRec(e) /\ s \in DOMAIN TypeOf /\ (TypeOf[s] # "tristate" => e.tri # 1)
  BY <1>2, TableOf DEF CalcFacts
<1>. HIDE DEF e, c
<1>4. CurOk(c)
  BY <1>1, <1>3 DEF CurOk
<1>5. s \in S => c[s] = e
  BY <1>1, <1>3 DEF CurOk
<1>6. \A x \in DOMAIN TypeOf : x # s \/ s \notin S => c[x] = cur[x]
  BY <1>1, <1>3 DEF CurOk
<1>. QED  BY <1>2, <1>4, <1>5, <1>6 DEF c

Steps(t, user, old, S, f) ==
  /\ f[0] = old
  /\ \A n \in 1 .. Len(t.order) : f[n] = CalcOne(t, user, old, S, f[n - 1], t.order[n])

(* Each symbol in its turn, and no other then, is calculated.              *)
LEMMA StepsAre ==
  ASSUME NEW t, Evaluable(t), t.order \in Seq(DOMAIN t.tab), NEW user, UserOk(t, user),
         NEW old, CurOk(old), NEW S, NEW f, Steps(t, user, old, S, f)
  PROVE  /\ \A n \in 0 .. Len(t.order) : CurOk(f[n])
         /\ \A n \in 1 .. Len(t.order) :
              /\ \A x \in DOMAIN TypeOf : x # t.order[n] \/ x \notin S => f[n][x] = f[n - 1][x]
              /\ t.order[n] \in S => CalcFacts(t, user, f[n - 1], t.order[n], f[n][t.order[n]])
<1>. DEFINE N == Len(t.order)
            D == {n \in 0 .. N : CurOk(f[n])}
<1>1. N \in Nat
  OBVIOUS
<1>2. \A n \in 1 .. N : t.order[n] \in DOMAIN t.tab
  BY ElementOf
<1>. HIDE DEF N
<1>3. ASSUME NEW n \in 1 .. N, CurOk(f[n - 1])
      PROVE  /\ CurOk(f[n])
             /\ \A x \in DOMAIN TypeOf : x # t.order[n] \/ x \notin S => f[n][x] = f[n - 1][x]
             /\ t.order[n] \in S => CalcFacts(t, user, f[n - 1], t.order[n], f[n][t.order[n]])
  <2>1. f[n] = CalcOne(t, user, old, S, f[n - 1], t.order[n])
    BY DEF Steps, N
  <2>. DEFINE g == f[n - 1]
              s == t.order[n]
              c == CalcOne(t, user, old, S, g, s)
  <2>2. s \in DOMAIN t.tab /\ CurOk(g)
    BY <1>2, <1>3
  <2>. HIDE DEF g, s
  <2>3. /\ CurOk(c)
        /\ \A x \in DOMAIN TypeOf : x # s \/ s \notin S => c[x] = g[x]
        /\ s \in S => CalcFacts(t, user, g, s, c[s])
    BY <2>2, CalcOneIs
  <2>. HIDE DEF c
  <2>4. f[n] = c
    BY <2>1 DEF g, s, c
  <2>5. \A x \in DOMAIN TypeOf : x # s \/ x \notin S => c[x] = g[x]
    BY <2>3
  <2>. QED  BY <2>3, <2>4, <2>5 DEF g, s
<1>4. 0 \in D
  BY <1>1 DEF Steps
<1>5. ASSUME NEW n \in 0 .. N - 1, n \in D PROVE n + 1 \in D
  <2>1. n + 1 \in 1 .. N /\ (n + 1) - 1 = n
    BY <1>1
  <2>2. CurOk(f[(n + 1) - 1])
    BY <1>5, <2>1
  <2>3. CurOk(f[n + 1])
    BY <1>3, <2>1, <2>2
  <2>. QED  BY <1>1, <2>3
<1>. HIDE DEF D
<1>6. 0 .. N \subseteq D
  BY <1>1, <1>4, <1>5, CountUp
<1>7. \A n \in 0 .. N : CurOk(f[n])
  BY <1>6 DEF D
<1>8. \A n \in 1 .. N : CurOk(f[n - 1])
  BY <1>1, <1>7
<1>. QED  BY <1>3, <1>7, <1>8 DEF N

LEMMA StepsKeep ==
  ASSUME NEW t, Evaluable(t), t.order \in Seq(DOMAIN t.tab), NEW user, UserOk(t, user),
         NEW old, CurOk(old), NEW S, NEW f, Steps(t, user, old, S, f),
         NEW a \in 0 .. Len(t.order), NEW b \in a .. Len(t.order), NEW x \in DOMAIN TypeOf,
         x \notin S \/ \A j \in a + 1 .. b : t.order[j] # x
  PROVE  f[b][x] = f[a][x]
<1>. DEFINE N == Len(t.order)
            D == {d \in 0 .. b - a : f[a + d][x] = f[a][x]}
<1>1. N \in Nat /\ a \in Nat /\ b \in Nat /\ a <= b /\ b <= N
  OBVIOUS
<1>2. \A n \in 1 .. N : x # t.order[n] \/ x \notin S => f[n][x] = f[n - 1][x]
  BY StepsAre
<1>. HIDE DEF N
<1>3. 0 \in D
  BY <1>1
<1>4. ASSUME NEW d \in 0 .. (b - a) - 1, d \in D PROVE d + 1 \in D
  <2>1. a + (d + 1) \in 1 .. N /\ a + (d + 1) \in a + 1 .. b /\ (a + (d + 1)) - 1 = a + d
    BY <1>1
  <2>2. f[a + (d + 1)][x] = f[a + d][x]
    BY <1>2, <2>1
  <2>3. d + 1 \in 0 .. b - a
    BY <1>1
  <2>. QED  BY <1>4, <2>2, <2>3
<1>5. b - a \in Nat
  BY <1>1
<1>. HIDE DEF D
<1>6. 0 .. b - a \subseteq D
  BY <1>3, <1>4, <1>5, CountUp
<1>7. b - a \in D
  BY <1>5, <1>6
<1>8. a + (b - a) = b
  BY <1>1
<1>. QED  BY <1>7, <1>8 DEF D

LEMMA CalcAllSteps ==
  ASSUME NEW t, t.order \in Seq(DOMAIN t.tab), NEW user, NEW old, NEW S
  PROVE  \E f : Steps(t, user, old, S, f) /\ CalcAll(t, user, old, S) = f[Len(t.order)]
<1>1. PICK f : /\ f[0] = old /\ CalcAll(t, user, old, S) = f[Len(t.order)]
               /\ \A n \in 1 .. Len(t.order) :
                    f[n] = CalcOne(t, user, old, S, f[n - 1], t.order[n])
  BY CalcAllIs
<1>. QED  BY <1>1 DEF Steps

LEMMA CalcAllOk ==
  ASSUME NEW t, Evaluable(t), Acyclic(t), NEW user, UserOk(t, user), NEW old, CurOk(old), NEW S
  PROVE  /\ CurOk(CalcAll(t, user, old, S))
         /\ \A x \in DOMAIN TypeOf \ S : CalcAll(t, user, old, S)[x] = old[x]
<1>1. t.order \in Seq(DOMAIN t.tab)
  BY DEF Acyclic
<1>2. PICK f : Steps(t, user, old, S, f) /\ CalcAll(t, user, old, S) = f[Len(t.order)]
  BY <1>1, CalcAllSteps
<1>3. Len(t.order) \in 0 .. Len(t.order) /\ 0 \in 0 .. Len(t.order) /\ f[0] = old
  BY <1>1, <1>2 DEF Steps
<1>4. CurOk(f[Len(t.order)])
  BY <1>1, <1>2, <1>3, StepsAre
<1>5. \A x \in DOMAIN TypeOf \ S : f[Len(t.order)][x] = f[0][x]
  BY <1>1, <1>2, <1>3, StepsKeep
<1>. QED  BY <1>2, <1>3, <1>4, <1>5

(* Of the values of a choice that is y one is y, and it can be seen.       *)
OneOf(t, cur) ==
  \A c \in DOMAIN t.tab : IsChoice(t, c) /\ cur[c].tri = 2
    => \E w \in Members(t, c) : /\ cur[w].vis = 2
                                /\ \A v \in Members(t, c) : cur[v].tri = 2 <=> v = w

(* All symbols are calculated, f[n] being the state after n of them.       *)
CalculatedBy(t, user, old, f) ==
  /\ Evaluable(t) /\ Acyclic(t) /\ UserOk(t, user) /\ CurOk(old)
  /\ Steps(t, user, old, DOMAIN t.tab, f)

(* When all symbols are calculated: where a symbol stands in the order,    *)
(* what is known before it, and what it becomes.                           *)
LEMMA Places ==
  ASSUME NEW t, NEW user, NEW old, NEW f, CalculatedBy(t, user, old, f), NEW s \in DOMAIN t.tab
  PROVE  \E p \in 1 .. Len(t.order) :
           /\ t.order[p] = s
           /\ \A b \in p .. Len(t.order) : f[b][s] = f[p][s]
           /\ CurOk(f[p - 1]) /\ CalcFacts(t, user, f[p - 1], s, f[p][s])
           /\ \A q \in 1 .. p : t.order[p] \notin LooksAt(t, t.order[q])
<1>0. Evaluable(t) /\ Acyclic(t) /\ UserOk(t, user) /\ CurOk(old) /\ Steps(t, user, old, DOMAIN t.tab, f)
  BY DEF CalculatedBy
<1>. DEFINE N == Len(t.order)
<1>1. t.order \in Seq(DOMAIN t.tab) /\ Range(t.order) = DOMAIN t.tab
  BY <1>0 DEF Acyclic
<1>2. N \in Nat /\ DOMAIN t.order = 1 .. N
  BY <1>1
<1>3. PICK p \in 1 .. N : t.order[p] = s
  BY <1>1, <1>2 DEF Range
<1>4. \A j \in p + 1 .. N : t.order[j] # s
  <2>1. \A i, j \in DOMAIN t.order : i < j => t.order[i] # t.order[j]
    BY <1>0 DEF Acyclic
  <2>. QED  BY <1>2, <1>3, <2>1
<1>5. \A q \in 1 .. p : t.order[p] \notin LooksAt(t, t.order[q])
  <2>1. \A i, j \in DOMAIN t.order : i <= j => t.order[j] \notin LooksAt(t, t.order[i])
    BY <1>0 DEF Acyclic
  <2>. QED  BY <1>2, <1>3, <2>1
<1>6. ASSUME NEW b \in p .. N PROVE f[b][s] = f[p][s]
  <2>1. p \in 0 .. N /\ b \in p .. N /\ \A j \in p + 1 .. b : t.order[j] # s
    BY <1>2, <1>4
  <2>2. s \in DOMAIN TypeOf
    BY <1>0, TableOf
  <2>. QED  BY <1>1, <2>1, <2>2, <1>0, StepsKeep
<1>7. CurOk(f[p - 1]) /\ CalcFacts(t, user, f[p - 1], s, f[p][s])
  <2>1. /\ \A n \in 0 .. N : CurOk(f[n])
        /\ \A n \in 1 .. N : t.order[n] \in DOMAIN t.tab
             => CalcFacts(t, user, f[n - 1], t.order[n], f[n][t.order[n]])
    BY <1>1, <1>0, StepsAre
  <2>2. p - 1 \in 0 .. N
    BY <1>2
  <2>. HIDE DEF N
  <2>. QED  BY <1>3, <2>1, <2>2
<1>. QED  BY <1>3, <1>5, <1>6, <1>7

LEMMA PromptSymsKnown ==
  ASSUME NEW t, Evaluable(t), NEW s \in DOMAIN t.tab
  PROVE  PromptSyms(t, s) \subseteq DOMAIN TypeOf
<1>. DEFINE All == UNION {Exprs[e] : e \in Range(t.tab[s].prompts)}
            Of(x) == CASE x.op = "sym" -> {x.s} [] Compares(x) -> {x.s, x.v} [] OTHER -> {}
<1>1. PromptSyms(t, s) = SymsAmong(All)
  BY DEF PromptSyms
<1>2. \A es : SymsAmong(es) = UNION {Of(x) : x \in es}
  BY DEF SymsAmong
<1>3. Range(t.tab[s].prompts) \subseteq DOMAIN Exprs
  BY TableOf DEF Range
<1>4. ASSUME NEW x \in All PROVE SymsAmong({x}) \subseteq DOMAIN TypeOf
  <2>1. PICK e \in DOMAIN Exprs : x \in Exprs[e]
    BY <1>3
  <2>2. x \in DOMAIN Exprs
    BY <2>1, PartsOfParts
  <2>. QED  BY <2>2, ExprsEnd
<1>. HIDE DEF Of, All
<1>5. \A x \in All : Of(x) \subseteq DOMAIN TypeOf
  BY <1>2, <1>4
<1>. QED  BY <1>1, <1>2, <1>5

(* What decides whether a symbol can be seen.                              *)
Deciding(t, s) == PromptSyms(t, s) \cup {ModulesSym}

(* Between a choice and its values nothing changes that decides whether    *)
(* these can be seen, but the choice.                                      *)
LEMMA BeforeChoice ==
  ASSUME NEW t, NEW user, NEW old, NEW f, CalculatedBy(t, user, old, f),
         NEW a \in 1 .. Len(t.order), NEW c \in DOMAIN t.tab, t.order[a] = c,
         NEW v \in Members(t, c), NEW x \in Deciding(t, v), x # c,
         NEW b \in a - 1 .. Len(t.order)
  PROVE  f[b][x] = f[a - 1][x]
<1>0. Evaluable(t) /\ Acyclic(t) /\ UserOk(t, user) /\ CurOk(old) /\ Steps(t, user, old, DOMAIN t.tab, f)
  BY DEF CalculatedBy
<1>. DEFINE N == Len(t.order)
<1>1. t.order \in Seq(DOMAIN t.tab) /\ N \in Nat
  BY <1>0 DEF Acyclic
<1>2. v \in DOMAIN t.tab
  BY <1>0, TableOf DEF Members, Range
<1>3. x \in DOMAIN TypeOf
  BY <1>0, <1>2, PromptSymsKnown, SymbolsKnown DEF Deciding
<1>4. CASE x \notin DOMAIN t.tab
  <2>1. a - 1 \in 0 .. N /\ b \in a - 1 .. N
    BY <1>1
  <2>. QED  BY <1>1, <1>3, <1>4, <2>1, <1>0, StepsKeep
<1>5. CASE x \in DOMAIN t.tab
  <2>1. x \in LooksAt(t, c)
    <3>1. PromptSyms(t, v) \cap Members(t, c) = {}
      BY <1>0 DEF Acyclic
    <3>. DEFINE All == UNION {PromptSyms(t, w) : w \in Members(t, c)}
    <3>2. PromptSyms(t, v) \subseteq All
      OBVIOUS
    <3>3. LooksAt(t, c) = PromptSyms(t, c) \cup {t.tab[c].choice} \cup ({ModulesSym} \ {c})
                          \cup (All \ ({c} \cup Members(t, c)))
      BY DEF LooksAt
    <3>. HIDE DEF All
    <3>. QED  BY <3>1, <3>2, <3>3 DEF Deciding
  <2>2. PICK p \in 1 .. N : /\ t.order[p] = x
                            /\ \A d \in p .. N : f[d][x] = f[p][x]
                            /\ \A q \in 1 .. p : t.order[p] \notin LooksAt(t, t.order[q])
    <3>. HIDE DEF N
    <3>1. \E p \in 1 .. N : /\ t.order[p] = x
                            /\ \A d \in p .. N : f[d][x] = f[p][x]
                            /\ CurOk(f[p - 1]) /\ CalcFacts(t, user, f[p - 1], x, f[p][x])
                            /\ \A q \in 1 .. p : t.order[p] \notin LooksAt(t, t.order[q])
      BY <1>5, Places DEF N
    <3>. QED  BY <3>1
  <2>3. ~(a <= p)
    BY <2>1, <2>2
  <2>4. a - 1 \in p .. N /\ b \in p .. N
    BY <1>1, <2>3
  <2>. QED  BY <2>2, <2>4
<1>. QED  BY <1>4, <1>5

(* A value of a choice is calculated after the choice, and seen as the     *)
(* choice saw it.                                                          *)
LEMMA ValueAfterChoice ==
  ASSUME NEW t, NEW user, NEW old, NEW f, CalculatedBy(t, user, old, f), PlainChoices(t),
         NEW a \in 1 .. Len(t.order), NEW c \in DOMAIN t.tab, t.order[a] = c, IsChoice(t, c),
         f[a][c].tri = 2, \A d \in a .. Len(t.order) : f[d][c] = f[a][c],
         \A q \in 1 .. a : t.order[a] \notin LooksAt(t, t.order[q]),
         NEW e, e.tri = 2, CurOk(f[a - 1]), NEW v \in Members(t, c)
  PROVE  \E cur : /\ CurOk(cur) /\ cur[c] = f[a][c]
                  /\ Visible(t, cur, v) = Visible(t, [f[a - 1] EXCEPT ![c] = e], v)
                  /\ CalcFacts(t, user, cur, v, f[Len(t.order)][v])
<1>0. Evaluable(t) /\ Acyclic(t) /\ UserOk(t, user) /\ CurOk(old) /\ Steps(t, user, old, DOMAIN t.tab, f)
  BY DEF CalculatedBy
<1>. DEFINE N == Len(t.order)
            with == [f[a - 1] EXCEPT ![c] = e]
<1>1. t.order \in Seq(DOMAIN t.tab) /\ N \in Nat
  BY <1>0 DEF Acyclic
<1>2. v \in DOMAIN t.tab /\ t.tab[v].choice = c /\ IsTri(c)
  BY <1>0, TableOf DEF Members, Range, PlainChoices
<1>3. PICK b \in 1 .. N : /\ t.order[b] = v
                          /\ \A d \in b .. N : f[d][v] = f[b][v]
                          /\ CurOk(f[b - 1]) /\ CalcFacts(t, user, f[b - 1], v, f[b][v])
  <2>1. \E b \in 1 .. N : /\ t.order[b] = v
                          /\ \A d \in b .. N : f[d][v] = f[b][v]
                          /\ CurOk(f[b - 1]) /\ CalcFacts(t, user, f[b - 1], v, f[b][v])
                          /\ \A q \in 1 .. b : t.order[b] \notin LooksAt(t, t.order[q])
    BY <1>2, Places
  <2>. QED  BY <2>1
<1>4. ~(b <= a)
  <2>1. c \in LooksAt(t, v)
    BY <1>2 DEF LooksAt
  <2>. QED  BY <1>3, <2>1
<1>5. b - 1 \in a .. N /\ b - 1 \in a - 1 .. N /\ N \in b .. N
  BY <1>1, <1>4
<1>. DEFINE cur == f[b - 1]
<1>6. cur[c] = f[a][c] /\ f[N][v] = f[b][v]
  BY <1>3, <1>5
<1>7. ASSUME NEW x \in Deciding(t, v) PROVE Alike(cur, with, x)
  <2>1. x \in DOMAIN TypeOf
    BY <1>0, <1>2, PromptSymsKnown, SymbolsKnown DEF Deciding
  <2>2. DOMAIN f[a - 1] = DOMAIN TypeOf /\ c \in DOMAIN TypeOf
    BY <1>0, TableOf DEF CurOk
  <2>3. CASE x = c
    <3>1. with[x] = e /\ cur[x].tri = 2
      BY <1>6, <2>2, <2>3
    <3>. QED  BY <1>2, <2>3, <3>1 DEF Alike
  <2>4. CASE x # c
    <3>. DEFINE d == b - 1
    <3>0. d \in a - 1 .. Len(t.order)
      BY <1>5
    <3>. HIDE DEF d, cur, with, N
    <3>1. f[d][x] = f[a - 1][x]
      BY <2>4, <3>0, BeforeChoice
    <3>2. with[x] = f[a - 1][x]
      BY <2>1, <2>2, <2>4 DEF with
    <3>. QED  BY <3>1, <3>2 DEF Alike, d, cur
  <2>. QED  BY <2>3, <2>4
<1>8. ModulesSym \in DOMAIN cur /\ ModulesSym \in DOMAIN with
  BY <1>3, SymbolsKnown DEF CurOk
<1>9. CurOk(cur) /\ CalcFacts(t, user, cur, v, f[N][v])
  BY <1>3, <1>6
<1>. HIDE DEF cur, with, N
<1>10. Visible(t, cur, v) = Visible(t, with, v)
  BY <1>0, <1>2, <1>7, <1>8, VisibleSame DEF Deciding
<1>. QED  BY <1>6, <1>9, <1>10 DEF with, N

(* Calculating all symbols leaves every choice that is y with one value.   *)
LEMMA OneOfAll ==
  ASSUME NEW t, NEW user, NEW old, Evaluable(t), Acyclic(t), UserOk(t, user), CurOk(old),
         PlainChoices(t)
  PROVE  OneOf(t, CalcAll(t, user, old, DOMAIN t.tab))
<1>. DEFINE N == Len(t.order)
            now == CalcAll(t, user, old, DOMAIN t.tab)
<1>1. t.order \in Seq(DOMAIN t.tab) /\ N \in Nat
  BY DEF Acyclic
<1>2. PICK f : Steps(t, user, old, DOMAIN t.tab, f) /\ now = f[N]
  BY <1>1, CalcAllSteps
<1>3. CalculatedBy(t, user, old, f)
  BY <1>2 DEF CalculatedBy
<1>. HIDE DEF now, N
<1>4. SUFFICES ASSUME NEW c \in DOMAIN t.tab, IsChoice(t, c), f[N][c].tri = 2
               PROVE  \E w \in Members(t, c) :
                        f[N][w].vis = 2 /\ \A v \in Members(t, c) : f[N][v].tri = 2 <=> v = w
  BY <1>2 DEF OneOf, now
<1>5. PICK a \in 1 .. N :
        /\ t.order[a] = c
        /\ \A b \in a .. N : f[b][c] = f[a][c]
        /\ CurOk(f[a - 1]) /\ CalcFacts(t, user, f[a - 1], c, f[a][c])
        /\ \A q \in 1 .. a : t.order[a] \notin LooksAt(t, t.order[q])
  BY <1>3, Places DEF N
<1>6. f[a][c].tri = 2 /\ N \in a .. N
  BY <1>1, <1>4, <1>5
<1>. DEFINE w == f[a][c].val
<1>7. PICK e : e.tri = 2 /\ w \in Members(t, c) /\ Visible(t, [f[a - 1] EXCEPT ![c] = e], w) # 0
  BY <1>4, <1>5, <1>6 DEF CalcFacts, PlainChoices
<1>8. ASSUME NEW v \in Members(t, c)
      PROVE  \E cur : /\ CurOk(cur) /\ cur[c] = f[a][c]
                      /\ Visible(t, cur, v) = Visible(t, [f[a - 1] EXCEPT ![c] = e], v)
                      /\ CalcFacts(t, user, cur, v, f[N][v])
  BY <1>3, <1>4, <1>5, <1>6, <1>7, ValueAfterChoice DEF N
<1>9. ASSUME NEW v \in Members(t, c)
      PROVE  v \in DOMAIN t.tab /\ IsTri(v) /\ IsValue(t, v) /\ ~IsChoice(t, v)
             /\ t.tab[v].choice = c /\ t.tab[v].defaults = <<>>
  <2>1. v \in DOMAIN t.tab
    BY TableOf DEF Members, Range
  <2>2. c # None
    BY DEF Evaluable
  <2>3. IsTri(v) /\ ~IsChoice(t, v) /\ t.tab[v].choice = c /\ t.tab[v].defaults = <<>>
    BY <1>4 DEF PlainChoices
  <2>. QED  BY <2>1, <2>2, <2>3 DEF IsValue
<1>. HIDE DEF w
<1>10. ASSUME NEW v \in Members(t, c), f[N][v].tri = 2 PROVE v = w
  <2>1. PICK cur : cur[c] = f[a][c] /\ CalcFacts(t, user, cur, v, f[N][v])
    BY <1>8
  <2>. QED  BY <1>9, <1>10, <2>1 DEF CalcFacts, w
<1>11. f[N][w].vis = 2 /\ f[N][w].tri = 2
  <2>1. PICK cur : /\ CurOk(cur) /\ cur[c] = f[a][c]
                   /\ Visible(t, cur, w) = Visible(t, [f[a - 1] EXCEPT ![c] = e], w)
                   /\ CalcFacts(t, user, cur, w, f[N][w])
    BY <1>7, <1>8
  <2>2. Visible(t, cur, w) # 0
    BY <1>7, <2>1
  <2>3. w \in DOMAIN t.tab
    BY <1>7, <1>9
  <2>4. CASE TypeOf[w] = "boolean"
    <3>1. Visible(t, cur, w) \in {0, 2}
      BY <2>1, <2>3, <2>4, TristatesOf, VisibleRange
    <3>. QED  BY <1>7, <1>9, <2>1, <2>2, <3>1 DEF CalcFacts, w
  <2>5. CASE TypeOf[w] # "boolean"
    <3>1. ASSUME NEW x \in PromptSyms(t, w) PROVE cur[x].tri \in {0, 2}
      <4>1. x \in DOMAIN TypeOf
        BY <2>3, PromptSymsKnown
      <4>2. x # c => x # "m" /\ TypeOf[x] # "tristate"
        BY <1>4, <1>7, <2>5 DEF PlainChoices
      <4>. QED  BY <1>6, <2>1, <4>1, <4>2 DEF CurOk, CurRec
    <3>2. Visible(t, cur, w) \in {0, 2}
      BY <2>3, <3>1, VisibleWhole
    <3>. QED  BY <1>7, <1>9, <2>1, <2>2, <3>2 DEF CalcFacts, w
  <2>. QED  BY <2>4, <2>5
<1>. QED  BY <1>7, <1>10, <1>11

(* It depends on the values of tristates and booleans only.                *)
LEMMA OneOfSame ==
  ASSUME NEW t, Evaluable(t), PlainChoices(t), NEW cur, NEW now, OneOf(t, cur),
         \A s \in DOMAIN t.tab : IsTri(s) => now[s].tri = cur[s].tri /\ now[s].vis = cur[s].vis
  PROVE  OneOf(t, now)
<1>1. SUFFICES ASSUME NEW c \in DOMAIN t.tab, IsChoice(t, c), now[c].tri = 2
               PROVE  \E w \in Members(t, c) :
                        now[w].vis = 2 /\ \A v \in Members(t, c) : now[v].tri = 2 <=> v = w
  BY DEF OneOf
<1>2. \A v \in Members(t, c) : v \in DOMAIN t.tab /\ IsTri(v)
  BY <1>1, TableOf DEF Members, Range, PlainChoices
<1>3. cur[c].tri = 2
  BY <1>1 DEF PlainChoices
<1>4. PICK w \in Members(t, c) :
        cur[w].vis = 2 /\ \A v \in Members(t, c) : cur[v].tri = 2 <=> v = w
  BY <1>1, <1>3 DEF OneOf
<1>. QED  BY <1>2, <1>4

-----------------------------------------------------------------------------
(* Memory as every operation leaves it.                                    *)

Accepted(t) == Rooted(t) /\ Evaluable(t) /\ Acyclic(t)
MemOk(t, mem) == DOMAIN mem = {"user", "cur", "changed"} /\ UserOk(t, mem.user) /\ CurOk(mem.cur)
Good(t, mem) == MemOk(t, mem) /\ (PlainChoices(t) => OneOf(t, mem.cur))

LEMMA WithUser ==
  ASSUME NEW t, NEW mem, NEW user, UserOk(t, user)
  PROVE  /\ MemOk(t, mem) => MemOk(t, [mem EXCEPT !.user = user])
         /\ Good(t, mem) => Good(t, [mem EXCEPT !.user = user])
BY DEF MemOk, Good

LEMMA WithChanged ==
  ASSUME NEW t, NEW mem, NEW x
  PROVE  /\ MemOk(t, mem) => MemOk(t, [mem EXCEPT !.changed = x])
         /\ Good(t, mem) => Good(t, [mem EXCEPT !.changed = x])
BY DEF MemOk, Good

LEMMA WithHas ==
  ASSUME NEW u, UserRec(u), NEW x
  PROVE  UserRec([u EXCEPT !.has = x])
BY DEF UserRec

LEMMA WithTri ==
  ASSUME NEW u, UserRec(u), NEW x, NEW v \in 0 .. 2
  PROVE  UserRec([u EXCEPT !.tri = v]) /\ UserRec([u EXCEPT !.has = x, !.tri = v])
BY DEF UserRec

LEMMA WithVal ==
  ASSUME NEW u, UserRec(u), NEW x, NEW v
  PROVE  UserRec([u EXCEPT !.has = x, !.val = v])
BY DEF UserRec

LEMMA EvalAllGood ==
  ASSUME NEW t, Accepted(t), NEW mem, MemOk(t, mem)
  PROVE  Good(t, EvalAll(t, mem))
<1>. DEFINE cur == CalcAll(t, mem.user, mem.cur, DOMAIN t.tab)
            user == [s \in DOMAIN mem.user |-> IF IsChoice(t, s)
                                               THEN [mem.user[s] EXCEPT !.has = cur[s].has]
                                               ELSE mem.user[s]]
            w == [mem EXCEPT !.cur = cur, !.user = user]
<1>1. EvalAll(t, mem) = w
  BY DEF EvalAll, WithCur
<1>2. UserOk(t, mem.user) /\ CurOk(mem.cur) /\ Evaluable(t) /\ Acyclic(t)
  BY DEF MemOk, Accepted
<1>3. CurOk(cur)
  BY <1>2, CalcAllOk
<1>4. PlainChoices(t) => OneOf(t, cur)
  BY <1>2, OneOfAll
<1>. HIDE DEF cur
<1>5. UserOk(t, user)
  BY <1>2, WithHas DEF UserOk
<1>. HIDE DEF user
<1>6. DOMAIN w = {"user", "cur", "changed"} /\ w.cur = cur /\ w.user = user
  BY DEF MemOk
<1>. HIDE DEF w
<1>. QED  BY <1>1, <1>3, <1>4, <1>5, <1>6 DEF Good, MemOk

LEMMA ChangedGood ==
  ASSUME NEW t, Accepted(t), NEW mem, MemOk(t, mem)
  PROVE  Good(t, Changed(t, mem))
<1>1. MemOk(t, [mem EXCEPT !.changed = TRUE])
  BY WithChanged
<1>. QED  BY <1>1, EvalAllGood DEF Changed

LEMMA ParsedGood ==
  ASSUME NEW t, Accepted(t)
  PROVE  Good(t, Parsed(t))
<1>. DEFINE user == [s \in DOMAIN t.tab |-> Unset]
            cur == [s \in DOMAIN TypeOf |-> IF s \in DOMAIN t.tab THEN Fresh ELSE ConstEntry(s)]
            mem == [user |-> user, changed |-> TRUE, cur |-> cur]
<1>1. UserOk(t, user)
  BY DEF UserOk, UserRec, Unset
<1>2. CurRec(Fresh) /\ Fresh.tri = 0
  BY DEF CurRec, CurFields, Fresh
<1>3. \A s : CurRec(ConstEntry(s)) /\ (ConstEntry(s).tri = 1 => s = "m")
  BY DEF CurRec, CurFields, ConstEntry
<1>4. CurOk(cur)
  BY <1>2, <1>3 DEF CurOk
<1>5. Parsed(t) = EvalAll(t, mem)
  BY DEF Parsed
<1>. HIDE DEF user, cur
<1>6. MemOk(t, mem)
  BY <1>1, <1>4 DEF MemOk
<1>. HIDE DEF mem
<1>. QED  BY <1>5, <1>6, EvalAllGood

LEMMA SetTriGood ==
  ASSUME NEW t, Accepted(t), NEW mem, Good(t, mem), NEW s \in DOMAIN t.tab, NEW v \in 0 .. 2
  PROVE  Good(t, SetTri(t, mem, s, v))
<1>. DEFINE cs == t.tab[s].choice
            own == [mem.user EXCEPT ![s] = [@ EXCEPT !.has = TRUE, !.tri = v]]
            told == [x \in DOMAIN own |->
                      CASE x = cs -> [own[x] EXCEPT !.has = TRUE, !.val = s]
                        [] x # cs /\ t.tab[x].choice = cs /\ mem.cur[x].vis # 0
                             -> [own[x] EXCEPT !.has = TRUE]
                        [] OTHER -> own[x]]
            user == IF IsValue(t, s) /\ v = 2 THEN told ELSE own
            set == [mem EXCEPT !.user = user]
<1>1. UserOk(t, mem.user)
  BY DEF Good, MemOk
<1>2. UserOk(t, own)
  BY <1>1, WithTri DEF UserOk
<1>3. SetTri(t, mem, s, v) = IF mem.cur[s].tri = v THEN set ELSE Changed(t, set)
  BY DEF SetTri
<1>. HIDE DEF own
<1>4. UserOk(t, told)
  <2>1. \A x \in DOMAIN own : /\ UserRec([own[x] EXCEPT !.has = TRUE, !.val = s])
                              /\ UserRec([own[x] EXCEPT !.has = TRUE]) /\ UserRec(own[x])
    BY <1>2, WithHas, WithVal DEF UserOk
  <2>. QED  BY <1>2, <2>1 DEF UserOk
<1>. HIDE DEF told
<1>5. UserOk(t, user)
  BY <1>2, <1>4
<1>. HIDE DEF user
<1>6. Good(t, set) /\ MemOk(t, set)
  BY <1>5, WithUser DEF Good
<1>. HIDE DEF set
<1>. QED  BY <1>3, <1>6, ChangedGood

LEMMA SetStringGood ==
  ASSUME NEW t, Accepted(t), NEW mem, Good(t, mem), NEW s \in DOMAIN t.tab, NEW w
  PROVE  Good(t, SetString(t, mem, s, w))
<1>. DEFINE user == [mem.user EXCEPT ![s] = [@ EXCEPT !.has = TRUE, !.val = w]]
            set == [mem EXCEPT !.user = user]
<1>1. UserOk(t, mem.user)
  BY DEF Good, MemOk
<1>2. UserOk(t, user)
  BY <1>1, WithVal DEF UserOk
<1>3. SetString(t, mem, s, w) = IF mem.user[s].val = w THEN set ELSE Changed(t, set)
  <2>1. [mem EXCEPT !.user[s] = [@ EXCEPT !.has = TRUE, !.val = w]] = set
    BY DEF Good, MemOk
  <2>. QED  BY <2>1 DEF SetString
<1>. HIDE DEF user
<1>4. Good(t, set) /\ MemOk(t, set)
  BY <1>2, WithUser DEF Good
<1>. HIDE DEF set
<1>. QED  BY <1>3, <1>4, ChangedGood

LEMMA DrawnAtGood ==
  ASSUME NEW t, NEW mem, Good(t, mem), NEW paths
  PROVE  /\ Good(t, DrawnAt(t, mem, paths)) /\ DrawnAt(t, mem, paths).cur = mem.cur
         /\ \A s \in DOMAIN t.tab : mem.user[s].has => DrawnAt(t, mem, paths).user[s].has
<1>. DEFINE held == UNION {Flagged(t, mem.cur, p) : p \in paths}
            user == [s \in DOMAIN mem.user |-> IF s \in held THEN [mem.user[s] EXCEPT !.has = TRUE]
                                               ELSE mem.user[s]]
            drawn == [mem EXCEPT !.user = user]
<1>1. DrawnAt(t, mem, paths) = drawn
  BY DEF DrawnAt, Flag
<1>2. UserOk(t, mem.user) /\ DOMAIN mem = {"user", "cur", "changed"}
  BY DEF Good, MemOk
<1>. HIDE DEF held
<1>3. UserOk(t, user)
  BY <1>2, WithHas DEF UserOk
<1>4. \A s \in DOMAIN t.tab : mem.user[s].has => user[s].has
  BY <1>2 DEF UserOk, UserRec
<1>. HIDE DEF user
<1>5. Good(t, drawn)
  BY <1>3, WithUser
<1>6. drawn.cur = mem.cur /\ drawn.user = user
  BY <1>2
<1>. HIDE DEF drawn
<1>. QED  BY <1>1, <1>4, <1>5, <1>6

(* Reading, line by line.                                                  *)
AccOk(t, acc) == DOMAIN acc = {"user", "warnings", "unknown"} /\ UserOk(t, acc.user)

LEMMA ReadLineOk ==
  ASSUME NEW t, NEW acc, AccOk(t, acc), NEW line
  PROVE  AccOk(t, ReadLine(t, acc, line))
<1>. DEFINE s == line.s
            cs == t.tab[s].choice
            tri == TriOf(line.v)
            again == IF acc.user[s].has THEN acc.warnings + 1 ELSE acc.warnings
            own == [acc.user EXCEPT ![s] = IF IsTri(s) THEN [@ EXCEPT !.has = TRUE, !.tri = tri]
                                           ELSE [@ EXCEPT !.has = TRUE, !.val = line.v]]
            odd == tri = 1 /\ own[cs].tri = 2
            over == tri = 2 /\ own[cs].tri # 0
            entry(u) == [has |-> u.has /\ ~odd, tri |-> MaxOf(u.tri, tri), val |-> IF tri = 2 THEN s ELSE u.val]
            chosen == [own EXCEPT ![cs] = entry(@)]
            warned == IF odd \/ over THEN again + 1 ELSE again
            W(user, n) == [acc EXCEPT !.user = user, !.warnings = n]
<1>1. ReadLine(t, acc, line) =
        CASE s \notin DOMAIN t.tab -> [acc EXCEPT !.unknown = TRUE]
          [] s \in DOMAIN t.tab /\ ~ValidLine(s, line.v) -> [acc EXCEPT !.warnings = again + 1]
          [] s \in DOMAIN t.tab /\ ValidLine(s, line.v) /\ IsValue(t, s) -> W(chosen, warned)
          [] OTHER -> W(own, again)
  BY DEF ReadLine
<1>2. tri \in 0 .. 2
  BY DEF TriOf
<1>. HIDE DEF tri
<1>3. UserOk(t, own)
  <2>1. \A x \in DOMAIN t.tab : /\ UserRec([acc.user[x] EXCEPT !.has = TRUE, !.tri = tri])
                                /\ UserRec([acc.user[x] EXCEPT !.has = TRUE, !.val = line.v])
    BY <1>2, WithTri, WithVal DEF AccOk, UserOk
  <2>. QED  BY <2>1 DEF AccOk, UserOk
<1>. HIDE DEF own, odd, over
<1>4. \A x \in DOMAIN t.tab : UserRec(entry(own[x]))
  BY <1>2, <1>3 DEF UserOk, UserRec, MaxOf
<1>. HIDE DEF entry
<1>5. UserOk(t, chosen)
  BY <1>3, <1>4 DEF UserOk
<1>. HIDE DEF chosen, again, warned
<1>6. ASSUME NEW user, UserOk(t, user), NEW n PROVE AccOk(t, W(user, n))
  BY <1>6 DEF AccOk
<1>7. AccOk(t, W(chosen, warned)) /\ AccOk(t, W(own, again))
  BY <1>3, <1>5, <1>6
<1>8. AccOk(t, [acc EXCEPT !.unknown = TRUE]) /\ AccOk(t, [acc EXCEPT !.warnings = again + 1])
  BY DEF AccOk
<1>. HIDE DEF W, s
<1>. QED  BY <1>1, <1>7, <1>8

NothingRead(t) == [user |-> [s \in DOMAIN t.tab |-> [Unset EXCEPT !.has = IsChoice(t, s)]],
                   warnings |-> 0, unknown |-> FALSE]
ReadsTo(t, lines, n, f) ==
  f = [j \in 0 .. n |-> IF j = 0 THEN NothingRead(t) ELSE ReadLine(t, f[j - 1], lines[j])]

LEMMA ReadsExist ==
  ASSUME NEW t, NEW lines, NEW n \in Nat
  PROVE  \E f : ReadsTo(t, lines, n, f)
<1>. DEFINE one(c, j) == ReadLine(t, c, lines[j])
            D == {i \in 0 .. n : \E f : ReadsTo(t, lines, i, f)}
<1>1. 0 \in D
  <2>. DEFINE f == [j \in 0 .. 0 |-> NothingRead(t)]
  <2>1. f = [j \in 0 .. 0 |-> IF j = 0 THEN NothingRead(t) ELSE one(f[j - 1], j)]
    OBVIOUS
  <2>. HIDE DEF f
  <2>2. ReadsTo(t, lines, 0, f)
    BY <2>1 DEF ReadsTo
  <2>. QED  BY <2>2
<1>2. ASSUME NEW i \in 0 .. n - 1, i \in D PROVE i + 1 \in D
  <2>1. PICK f : ReadsTo(t, lines, i, f)
    BY <1>2
  <2>. DEFINE g == [j \in 0 .. i + 1 |-> IF j = i + 1 THEN one(f[i], i + 1) ELSE f[j]]
  <2>2. ASSUME NEW j \in 0 .. i + 1 PROVE g[j] = IF j = 0 THEN NothingRead(t) ELSE one(g[j - 1], j)
    <3>1. CASE j = i + 1
      <4>1. j - 1 = i /\ i # i + 1 /\ j # 0 /\ i \in 0 .. i + 1
        BY <3>1
      <4>2. g[i] = f[i] /\ g[j] = one(f[i], j)
        BY <3>1, <4>1
      <4>. HIDE DEF one, g
      <4>. QED  BY <4>1, <4>2
    <3>2. CASE j # i + 1 /\ j # 0
      <4>1. j \in 0 .. i /\ j - 1 \in 0 .. i + 1 /\ j - 1 # i + 1
        BY <3>2
      <4>2. g[j] = f[j] /\ g[j - 1] = f[j - 1]
        BY <3>2, <4>1
      <4>3. f[j] = one(f[j - 1], j)
        BY <2>1, <3>2, <4>1 DEF ReadsTo
      <4>. HIDE DEF one, g
      <4>. QED  BY <3>2, <4>2, <4>3
    <3>3. CASE j = 0
      <4>1. f[0] = NothingRead(t)
        BY <2>1 DEF ReadsTo
      <4>. QED  BY <3>3, <4>1
    <3>. QED  BY <3>1, <3>2, <3>3
  <2>3. g = [j \in 0 .. i + 1 |-> g[j]]
    OBVIOUS
  <2>. HIDE DEF g, one
  <2>4. g = [j \in 0 .. i + 1 |-> IF j = 0 THEN NothingRead(t) ELSE one(g[j - 1], j)]
    BY <2>2, <2>3
  <2>5. ReadsTo(t, lines, i + 1, g)
    BY <2>4 DEF ReadsTo, one
  <2>. QED  BY <2>5
<1>. HIDE DEF D
<1>3. 0 .. n \subseteq D
  BY <1>1, <1>2, CountUp
<1>. QED  BY <1>3 DEF D

LEMMA ReadSimpleOk ==
  ASSUME NEW t, NEW lines, Len(lines) \in Nat
  PROVE  UserOk(t, ReadSimple(t, lines).user)
<1>. DEFINE N == Len(lines)
            f == CHOOSE g : ReadsTo(t, lines, N, g)
            D == {n \in 0 .. N : AccOk(t, f[n])}
<1>1. ReadSimple(t, lines) = f[N]
  BY DEF ReadSimple, ReadsTo, NothingRead
<1>2. ReadsTo(t, lines, N, f)
  <2>. HIDE DEF N
  <2>. QED  BY ReadsExist DEF N
<1>. HIDE DEF f, N
<1>3. f[0] = NothingRead(t) /\ \A n \in 1 .. N : f[n] = ReadLine(t, f[n - 1], lines[n])
  BY <1>2 DEF ReadsTo, N
<1>4. AccOk(t, NothingRead(t))
  BY DEF AccOk, NothingRead, UserOk, UserRec, Unset
<1>5. 0 \in D
  BY <1>3, <1>4 DEF N
<1>6. ASSUME NEW n \in 0 .. N - 1, n \in D PROVE n + 1 \in D
  <2>1. n + 1 \in 1 .. N /\ (n + 1) - 1 = n
    BY DEF N
  <2>2. f[n + 1] = ReadLine(t, f[n], lines[n + 1])
    BY <1>3, <2>1
  <2>3. AccOk(t, f[n + 1])
    BY <1>6, <2>2, ReadLineOk
  <2>. QED  BY <2>1, <2>3
<1>. HIDE DEF D
<1>7. 0 .. N \subseteq D
  BY <1>5, <1>6, CountUp DEF N
<1>8. AccOk(t, f[N])
  BY <1>7 DEF D, N
<1>. QED  BY <1>1, <1>8 DEF AccOk

LEMMA ReadGood ==
  ASSUME NEW t, Accepted(t), NEW mem, Good(t, mem), NEW lines, Len(lines) \in Nat
  PROVE  Good(t, Read(t, mem, lines))
<1>. DEFINE r == ReadSimple(t, lines)
            read == EvalAll(t, [mem EXCEPT !.user = r.user])
            reset == OutOfRange(t, read)
            differs == Unsaved(t, read) # {}
            lost == reset \cup (IF differs THEN {} ELSE Invisible(t, read))
            user == [s \in DOMAIN read.user |-> IF s \in lost THEN [read.user[s] EXCEPT !.has = FALSE]
                                                ELSE read.user[s]]
            kept == [read EXCEPT !.user = user]
            cur == CalcAll(t, kept.user, kept.cur, reset)
            x == r.unknown \/ r.warnings > 0 \/ differs \/ reset # {}
            m2 == [kept EXCEPT !.cur = cur, !.changed = x]
<1>1. Read(t, mem, lines) = m2
  BY DEF Read, Taken, Checked, Recalculated, Forget
<1>2. Good(t, read)
  <2>1. UserOk(t, r.user)
    BY ReadSimpleOk
  <2>. HIDE DEF r
  <2>2. MemOk(t, [mem EXCEPT !.user = r.user])
    BY <2>1, WithUser DEF Good
  <2>. QED  BY <2>2, EvalAllGood
<1>3. \A s \in reset : ~IsTri(s)
  BY DEF OutOfRange
<1>. HIDE DEF read, reset, lost, x
<1>4. UserOk(t, user)
  BY <1>2, WithHas DEF Good, MemOk, UserOk
<1>. HIDE DEF user
<1>5. Good(t, kept) /\ kept.user = user
  BY <1>2, <1>4, WithUser DEF Good, MemOk
<1>. HIDE DEF kept
<1>6. Evaluable(t) /\ Acyclic(t) /\ UserOk(t, kept.user) /\ CurOk(kept.cur)
  BY <1>5 DEF Accepted, Good, MemOk
<1>7. CurOk(cur) /\ \A s \in DOMAIN TypeOf \ reset : cur[s] = kept.cur[s]
  BY <1>6, CalcAllOk
<1>. HIDE DEF cur
<1>8. \A s \in DOMAIN t.tab : IsTri(s) => cur[s].tri = kept.cur[s].tri /\ cur[s].vis = kept.cur[s].vis
  BY <1>3, <1>6, <1>7, TableOf
<1>9. PlainChoices(t) => OneOf(t, cur)
  BY <1>5, <1>6, <1>8, OneOfSame DEF Good
<1>10. DOMAIN m2 = {"user", "cur", "changed"} /\ m2.user = user /\ m2.cur = cur
  BY <1>5 DEF Good, MemOk
<1>. HIDE DEF m2
<1>. QED  BY <1>1, <1>4, <1>7, <1>9, <1>10 DEF Good, MemOk

LEMMA SetAllNewGood ==
  ASSUME NEW t, Accepted(t), NEW mem, Good(t, mem), NEW md, NEW new
  PROVE  Good(t, SetAllNew(t, mem, md, new))
<1>. DEFINE tri(s) == NewTri(t, mem, md, s)
            given == [s \in DOMAIN mem.user |->
                        IF s \in new /\ IsTri(s) /\ md # "default"
                        THEN [mem.user[s] EXCEPT !.has = TRUE, !.tri = tri(s)]
                        ELSE mem.user[s]]
            m1 == Changed(t, [mem EXCEPT !.user = given])
            fresh == {c \in DOMAIN t.tab : IsChoice(t, c) /\ ~m1.user[c].has}
            settled(s) == CASE s \in fresh -> [m1.user[s] EXCEPT !.has = TRUE]
                            [] s \notin fresh /\ t.tab[s].choice \in fresh /\ ~m1.user[s].has
                                 -> [m1.user[s] EXCEPT !.tri = 0]
                            [] OTHER -> m1.user[s]
            user == [s \in DOMAIN m1.user |-> settled(s)]
<1>1. SetAllNew(t, mem, md, new) = EvalAll(t, [m1 EXCEPT !.user = user])
  BY DEF SetAllNew, SettleChoices
<1>2. UserOk(t, mem.user)
  BY DEF Good, MemOk
<1>3. \A s \in DOMAIN t.tab : tri(s) \in 0 .. 2
  BY <1>2 DEF NewTri, UserOk, UserRec
<1>. HIDE DEF tri
<1>4. UserOk(t, given)
  BY <1>2, <1>3, WithTri DEF UserOk
<1>. HIDE DEF given
<1>5. MemOk(t, [mem EXCEPT !.user = given])
  BY <1>4, WithUser DEF Good
<1>6. Good(t, m1)
  BY <1>5, ChangedGood
<1>. HIDE DEF m1, fresh
<1>7. UserOk(t, m1.user)
  BY <1>6 DEF Good, MemOk
<1>8. ASSUME NEW s \in DOMAIN t.tab PROVE UserRec(settled(s))
  <2>1. /\ UserRec([m1.user[s] EXCEPT !.has = TRUE]) /\ UserRec([m1.user[s] EXCEPT !.tri = 0])
        /\ UserRec(m1.user[s])
    <3>1. UserRec(m1.user[s])
      BY <1>7 DEF UserOk
    <3>2. 0 \in 0 .. 2
      OBVIOUS
    <3>. QED  BY <3>1, <3>2, WithHas, WithTri
  <2>. QED  BY <2>1
<1>. HIDE DEF settled
<1>9. UserOk(t, user)
  BY <1>7, <1>8 DEF UserOk
<1>. HIDE DEF user
<1>10. MemOk(t, [m1 EXCEPT !.user = user])
  BY <1>6, <1>9, WithUser DEF Good
<1>. QED  BY <1>1, <1>10, EvalAllGood

LEMMA NothingToWriteGood ==
  ASSUME NEW t, Accepted(t), NEW mem, Good(t, mem)
  PROVE  Good(t, NothingToWrite(t, mem))
<1>. DEFINE W == Written(t, mem)
            cur == [s \in DOMAIN mem.cur |-> IF s \in W THEN [mem.cur[s] EXCEPT !.write = FALSE]
                                             ELSE mem.cur[s]]
            m2 == [mem EXCEPT !.cur = cur]
<1>1. NothingToWrite(t, mem) = m2
  BY DEF NothingToWrite
<1>. HIDE DEF W
<1>2. CurOk(mem.cur) /\ Evaluable(t) /\ DOMAIN mem = {"user", "cur", "changed"}
  BY DEF Good, MemOk, Accepted
<1>3. \A s \in DOMAIN TypeOf : LET c == [mem.cur[s] EXCEPT !.write = FALSE]
                               IN  CurRec(c) /\ c.tri = mem.cur[s].tri /\ c.vis = mem.cur[s].vis
  BY <1>2 DEF CurOk, CurRec, CurFields
<1>4. /\ CurOk(cur)
      /\ \A s \in DOMAIN TypeOf : cur[s].tri = mem.cur[s].tri /\ cur[s].vis = mem.cur[s].vis
  BY <1>2, <1>3 DEF CurOk
<1>. HIDE DEF cur
<1>5. \A s \in DOMAIN t.tab : cur[s].tri = mem.cur[s].tri /\ cur[s].vis = mem.cur[s].vis
  BY <1>2, <1>4, TableOf
<1>6. PlainChoices(t) => OneOf(t, cur)
  BY <1>2, <1>5, OneOfSame DEF Good
<1>7. DOMAIN m2 = {"user", "cur", "changed"} /\ m2.user = mem.user /\ m2.cur = cur
  BY <1>2
<1>. HIDE DEF m2
<1>. QED  BY <1>1, <1>4, <1>6, <1>7 DEF Good, MemOk

LEMMA BeforeWriteGood ==
  ASSUME NEW t, Accepted(t), NEW mem, Good(t, mem)
  PROVE  Good(t, BeforeWrite(t, mem))
BY ChangedGood DEF BeforeWrite, Good

LinesTo(t, mem, S, n, f) ==
  f = [j \in 0 .. n |-> IF j = 0 THEN <<>> ELSE AddLine(mem, S, f[j - 1], t.lines[j])]

LEMMA LinesExist ==
  ASSUME NEW t, NEW mem, NEW S, NEW n \in Nat
  PROVE  \E f : LinesTo(t, mem, S, n, f)
<1>. DEFINE one(c, j) == AddLine(mem, S, c, t.lines[j])
            D == {i \in 0 .. n : \E f : LinesTo(t, mem, S, i, f)}
<1>1. 0 \in D
  <2>. DEFINE f == [j \in 0 .. 0 |-> <<>>]
  <2>1. f = [j \in 0 .. 0 |-> IF j = 0 THEN <<>> ELSE one(f[j - 1], j)]
    OBVIOUS
  <2>. HIDE DEF f
  <2>2. LinesTo(t, mem, S, 0, f)
    BY <2>1 DEF LinesTo
  <2>. QED  BY <2>2
<1>2. ASSUME NEW i \in 0 .. n - 1, i \in D PROVE i + 1 \in D
  <2>1. PICK f : LinesTo(t, mem, S, i, f)
    BY <1>2
  <2>. DEFINE g == [j \in 0 .. i + 1 |-> IF j = i + 1 THEN one(f[i], i + 1) ELSE f[j]]
  <2>2. ASSUME NEW j \in 0 .. i + 1 PROVE g[j] = IF j = 0 THEN <<>> ELSE one(g[j - 1], j)
    <3>1. CASE j = i + 1
      <4>1. j - 1 = i /\ i # i + 1 /\ j # 0 /\ i \in 0 .. i + 1
        BY <3>1
      <4>2. g[i] = f[i] /\ g[j] = one(f[i], j)
        BY <3>1, <4>1
      <4>. HIDE DEF one, g
      <4>. QED  BY <4>1, <4>2
    <3>2. CASE j # i + 1 /\ j # 0
      <4>1. j \in 0 .. i /\ j - 1 \in 0 .. i + 1 /\ j - 1 # i + 1
        BY <3>2
      <4>2. g[j] = f[j] /\ g[j - 1] = f[j - 1]
        BY <3>2, <4>1
      <4>3. f[j] = one(f[j - 1], j)
        BY <2>1, <3>2, <4>1 DEF LinesTo
      <4>. HIDE DEF one, g
      <4>. QED  BY <3>2, <4>2, <4>3
    <3>3. CASE j = 0
      <4>1. f[0] = <<>>
        BY <2>1 DEF LinesTo
      <4>. QED  BY <3>3, <4>1
    <3>. QED  BY <3>1, <3>2, <3>3
  <2>3. g = [j \in 0 .. i + 1 |-> g[j]]
    OBVIOUS
  <2>. HIDE DEF g, one
  <2>4. g = [j \in 0 .. i + 1 |-> IF j = 0 THEN <<>> ELSE one(g[j - 1], j)]
    BY <2>2, <2>3
  <2>5. LinesTo(t, mem, S, i + 1, g)
    BY <2>4 DEF LinesTo, one
  <2>. QED  BY <2>5
<1>. HIDE DEF D
<1>3. 0 .. n \subseteq D
  BY <1>1, <1>2, CountUp
<1>. QED  BY <1>3 DEF D

(* What is written is a sequence of lines.                                 *)
LEMMA LinesOfOk ==
  ASSUME NEW t, Evaluable(t), NEW mem, NEW S
  PROVE  Len(LinesOf(t, mem, S)) \in Nat
<1>. DEFINE N == Len(t.lines)
            f == CHOOSE g : LinesTo(t, mem, S, N, g)
            L == {Line(mem, s) : s \in S}
            D == {n \in 0 .. N : f[n] \in Seq(L)}
<1>1. N \in Nat
  BY DEF Evaluable
<1>2. LinesOf(t, mem, S) = f[N]
  BY DEF LinesOf, LinesTo
<1>3. LinesTo(t, mem, S, N, f)
  <2>. HIDE DEF N
  <2>. QED  BY <1>1, LinesExist
<1>. HIDE DEF f, N
<1>4. f[0] = <<>> /\ \A n \in 1 .. N : f[n] = AddLine(mem, S, f[n - 1], t.lines[n])
  BY <1>1, <1>3 DEF LinesTo
<1>5. 0 \in D
  <2>. HIDE DEF L
  <2>1. <<>> \in Seq(L)
    OBVIOUS
  <2>2. f[0] \in Seq(L)
    BY <1>4, <2>1
  <2>3. 0 \in 0 .. N
    BY <1>1
  <2>. QED  BY <2>2, <2>3
<1>6. ASSUME NEW n \in 0 .. N - 1, n \in D PROVE n + 1 \in D
  <2>1. n + 1 \in 1 .. N /\ n + 1 \in 0 .. N /\ (n + 1) - 1 = n
    BY <1>1
  <2>2. f[n + 1] = AddLine(mem, S, f[n], t.lines[n + 1])
    BY <1>4, <2>1
  <2>3. f[n + 1] = f[n] \/ (t.lines[n + 1] \in S /\ f[n + 1] = Append(f[n], Line(mem, t.lines[n + 1])))
    BY <2>2 DEF AddLine
  <2>4. f[n] \in Seq(L)
    BY <1>6
  <2>5. t.lines[n + 1] \in S => Line(mem, t.lines[n + 1]) \in L
    OBVIOUS
  <2>. HIDE DEF L
  <2>6. f[n + 1] \in Seq(L)
    BY <2>3, <2>4, <2>5
  <2>. QED  BY <2>1, <2>6
<1>. HIDE DEF D
<1>7. 0 .. N \subseteq D
  BY <1>1, <1>5, <1>6, CountUp
<1>8. f[N] \in Seq(L)
  BY <1>1, <1>7 DEF D
<1>. QED  BY <1>2, <1>8

-----------------------------------------------------------------------------
(* The entries of a tree.                                                  *)

LEMMA EntryFacts ==
  ASSUME NEW t, Rooted(t), NEW p \in PathsOf(t)
  PROVE  /\ <<>> \in PathsOf(t) /\ p \in Seq(Nat) /\ EntryOf(t, p).sym \in DOMAIN t.tab \cup {None}
         /\ Len(EntryOf(t, p).list) \in Nat /\ DOMAIN EntryOf(t, p).list = 1 .. Len(EntryOf(t, p).list)
         /\ \A i \in DOMAIN EntryOf(t, p).list :
              Append(p, i) \in PathsOf(t) /\ EntryOf(t, Append(p, i)) = EntryOf(t, p).list[i]
         /\ \A n \in 1 .. Len(p) : SubSeq(p, 1, n - 1) \in PathsOf(t)
                                   /\ p[n] \in DOMAIN EntryOf(t, SubSeq(p, 1, n - 1)).list
BY DEF Rooted

LEMMA SubSeqWhole ==
  ASSUME NEW p \in Seq(Nat)
  PROVE  SubSeq(p, 1, Len(p)) = p
<1>1. SubSeq(p, 1, Len(p)) \in Seq(Nat) /\ Len(SubSeq(p, 1, Len(p))) = Len(p)
  OBVIOUS
<1>2. \A j \in 1 .. Len(p) : SubSeq(p, 1, Len(p))[j] = p[j]
  OBVIOUS
<1>. QED  BY <1>1, <1>2

LEMMA PathAbove ==
  ASSUME NEW t, Rooted(t), NEW p \in PathsOf(t), NEW n \in 0 .. Len(p)
  PROVE  SubSeq(p, 1, n) \in PathsOf(t)
<1>1. p \in Seq(Nat)
  BY EntryFacts
<1>2. CASE n = Len(p)
  BY <1>1, <1>2, SubSeqWhole
<1>3. CASE n # Len(p)
  <2>1. n + 1 \in 1 .. Len(p) /\ (n + 1) - 1 = n
    BY <1>1, <1>3
  <2>2. SubSeq(p, 1, (n + 1) - 1) \in PathsOf(t)
    BY <2>1, EntryFacts
  <2>. QED  BY <2>1, <2>2
<1>. QED  BY <1>2, <1>3

LEMMA GreatestExists ==
  ASSUME NEW n \in Nat, NEW S, S \subseteq 0 .. n, S # {}
  PROVE  \E i \in S : \A j \in S : i >= j
<1>. DEFINE T == {n - i : i \in S}
<1>0. \A i \in S : i \in 0 .. n
  OBVIOUS
<1>1. T \subseteq Nat /\ T # {}
  <2>1. \A i \in S : n - i \in Nat
    BY <1>0
  <2>. QED  BY <2>1
<1>2. PICK d \in T : \A e \in T : d <= e
  BY <1>1, LeastExists
<1>3. PICK i \in S : d = n - i
  OBVIOUS
<1>4. ASSUME NEW j \in S PROVE i >= j
  <2>1. n - j \in T /\ i \in 0 .. n /\ j \in 0 .. n
    OBVIOUS
  <2>. HIDE DEF T
  <2>. QED  BY <1>2, <1>3, <2>1
<1>. QED  BY <1>4

LEMMA ParentMenuIs ==
  ASSUME NEW t, Rooted(t), NEW p \in PathsOf(t)
  PROVE  ParentMenu(t, p) \in PathsOf(t)
<1>. DEFINE around == {n \in 0 .. Len(p) : n = 0 \/ IsMenu(EntryOf(t, SubSeq(p, 1, n)))}
<1>1. Len(p) \in Nat
  BY EntryFacts
<1>2. ParentMenu(t, p) = SubSeq(p, 1, Max(around))
  BY DEF ParentMenu
<1>3. around \subseteq 0 .. Len(p) /\ 0 \in around
  BY <1>1
<1>. HIDE DEF around
<1>4. Max(around) \in around
  <2>1. \E i \in around : \A j \in around : i >= j
    BY <1>1, <1>3, GreatestExists
  <2>. QED  BY <2>1 DEF Max
<1>. QED  BY <1>2, <1>3, <1>4, PathAbove

(* A path goes through an entry, and then through one of its kids.         *)
Through(q, p) == Len(q) <= Len(p) /\ SubSeq(p, 1, Len(q)) = q

LEMMA ThroughKid ==
  ASSUME NEW t, Rooted(t), NEW p \in PathsOf(t), NEW q \in PathsOf(t), Through(q, p), q # p
  PROVE  \E i \in DOMAIN EntryOf(t, q).list : Through(Append(q, i), p)
<1>1. p \in Seq(Nat) /\ q \in Seq(Nat)
  BY EntryFacts
<1>2. Len(q) < Len(p) /\ q = SubSeq(p, 1, Len(q))
  BY <1>1 DEF Through
<1>. DEFINE n == Len(q) + 1
<1>3. n \in 1 .. Len(p) /\ n - 1 = Len(q)
  BY <1>1, <1>2
<1>4. p[n] \in DOMAIN EntryOf(t, SubSeq(p, 1, n - 1)).list
  BY <1>3, EntryFacts
<1>5. p[n] \in DOMAIN EntryOf(t, q).list
  BY <1>2, <1>3, <1>4
<1>6. Append(q, p[n]) \in Seq(Nat) /\ Len(Append(q, p[n])) = n
  BY <1>1, <1>3
<1>7. SubSeq(p, 1, n) = Append(q, p[n])
  <2>1. SubSeq(p, 1, n) \in Seq(Nat) /\ Len(SubSeq(p, 1, n)) = n
    BY <1>1, <1>3
  <2>2. ASSUME NEW j \in 1 .. n PROVE SubSeq(p, 1, n)[j] = Append(q, p[n])[j]
    <3>1. SubSeq(p, 1, n)[j] = p[j]
      BY <1>1, <1>3
    <3>2. j # n => j \in 1 .. Len(q) /\ q[j] = p[j]
      BY <1>1, <1>2, <1>3
    <3>. QED  BY <1>1, <1>3, <3>1, <3>2
  <2>. HIDE DEF n
  <2>. QED  BY <1>6, <2>1, <2>2
<1>. QED  BY <1>3, <1>5, <1>6, <1>7 DEF Through

-----------------------------------------------------------------------------
(* The invariant.                                                          *)

DiskOk(d) == DOMAIN d = {"config", "old", "alt", "min"} /\ \A f \in DOMAIN d : Len(d[f]) \in Nat
Tasks(t) == [op : {"conf", "check", "keep", "pick"}, at : PathsOf(t)]
MemoryInv ==
  /\ tree \in DOMAIN Trees /\ DiskOk(disk) /\ todo \in Seq(Tasks(k))
  /\ (tool = "none" /\ m = NoMemory /\ todo = <<>>) \/ Good(k, m)

LEMMA TreeAccepted == ASSUME tree \in DOMAIN Trees PROVE Accepted(k)
BY TreesAccepted DEF k, Accepted

LEMMA WriteToOk ==
  ASSUME tree \in DOMAIN Trees, DiskOk(disk), Good(k, m), NEW file, NEW o \in Outcomes
  PROVE  LET w == WriteTo(file, o) IN (w.m = NoMemory \/ Good(k, w.m)) /\ DiskOk(w.disk)
<1>. DEFINE before == BeforeWrite(k, m)
            after == NothingToWrite(k, before)
            lines == Lines(k, before)
            moved == IF file = "config" /\ disk.config # Absent
                     THEN [disk EXCEPT !.old = disk.config] ELSE disk
            w == WriteEnd(file, o, before)
<1>1. Accepted(k)
  BY TreeAccepted
<1>2. Good(k, before)
  BY <1>1, BeforeWriteGood
<1>. HIDE DEF before
<1>3. Good(k, after)
  BY <1>1, <1>2, NothingToWriteGood
<1>4. Len(lines) \in Nat
  BY <1>1, LinesOfOk DEF Lines, Accepted
<1>. HIDE DEF after, lines
<1>5. Good(k, [after EXCEPT !.changed = FALSE])
  BY <1>3, WithChanged
<1>6. DiskOk(moved)
  BY DEF DiskOk
<1>. HIDE DEF moved
<1>7. Len(Absent) \in Nat
  BY DEF Absent
<1>8. DiskOk([moved EXCEPT ![file] = Absent]) /\ DiskOk([moved EXCEPT ![file] = lines])
  BY <1>4, <1>6, <1>7 DEF DiskOk
<1>9. w = CASE o = "noopen"   -> [m |-> m, disk |-> disk, ok |-> FALSE]
        [] o = "norename" -> [m |-> after, ok |-> FALSE, disk |-> [moved EXCEPT ![file] = Absent]]
        [] o = "killed"   -> [m |-> NoMemory, disk |-> disk, ok |-> FALSE]
        [] o = "between"  -> [m |-> NoMemory, ok |-> FALSE, disk |-> [moved EXCEPT ![file] = Absent]]
        [] o = "ok"       -> [m |-> [after EXCEPT !.changed = FALSE], ok |-> TRUE,
                              disk |-> [moved EXCEPT ![file] = lines]]
  BY DEF WriteEnd, after, moved, lines
<1>10. o \in {"ok", "noopen", "norename", "killed", "between"}
  BY OutcomesKnown
<1>. HIDE DEF w
<1>11. (w.m = NoMemory \/ Good(k, w.m)) /\ DiskOk(w.disk)
  <2>1. CASE o = "noopen"
    BY <1>9, <2>1
  <2>2. CASE o = "norename"
    <3>1. w.m = after /\ w.disk = [moved EXCEPT ![file] = Absent]
      BY <1>9, <2>2
    <3>. QED  BY <1>3, <1>8, <3>1
  <2>3. CASE o = "killed"
    BY <1>9, <2>3
  <2>4. CASE o = "between"
    <3>1. w.m = NoMemory /\ w.disk = [moved EXCEPT ![file] = Absent]
      BY <1>9, <2>4
    <3>. QED  BY <1>8, <3>1
  <2>5. CASE o = "ok"
    <3>1. w.m = [after EXCEPT !.changed = FALSE] /\ w.disk = [moved EXCEPT ![file] = lines]
      BY <1>9, <2>5
    <3>. QED  BY <1>5, <1>8, <3>1
  <2>. QED  BY <1>10, <2>1, <2>2, <2>3, <2>4, <2>5
<1>12. WriteTo(file, o) = w
  BY DEF WriteTo, w, before
<1>. QED  BY <1>11, <1>12

LEMMA ReadFromGood ==
  ASSUME tree \in DOMAIN Trees, DiskOk(disk), NEW mem, Good(k, mem),
         NEW file \in {"config", "alt", "min"}
  PROVE  Good(k, ReadFrom(mem, file))
<1>1. Accepted(k) /\ Len(disk[file]) \in Nat
  BY TreeAccepted DEF DiskOk
<1>2. Good(k, Read(k, mem, disk[file]))
  BY <1>1, ReadGood
<1>3. Good(k, [mem EXCEPT !.changed = file = "config"])
  BY WithChanged
<1>. QED  BY <1>2, <1>3 DEF ReadFrom

LEMMA StartGood ==
  ASSUME tree \in DOMAIN Trees, DiskOk(disk), NEW t
  PROVE  Good(k, Prepared(t, AtStart(t, Parsed(k))))
<1>1. Accepted(k)
  BY TreeAccepted
<1>. DEFINE mem == AtStart(t, Parsed(k))
<1>2. Good(k, mem)
  BY <1>1, ParsedGood, ReadFromGood DEF AtStart
<1>. HIDE DEF mem
<1>3. /\ Good(k, DrawnAt(k, mem, Paths))
      /\ Good(k, SetAllNew(k, mem, AllNew(t), IF t = "defconfig" THEN {} ELSE DOMAIN k.tab))
  BY <1>1, <1>2, DrawnAtGood, SetAllNewGood
<1>4. Good(k, Prepared(t, mem))
  BY <1>2, <1>3 DEF Prepared
<1>. QED  BY <1>4 DEF mem

LEMMA KidsAre ==
  ASSUME tree \in DOMAIN Trees, NEW p \in Paths, NEW op \in {"conf", "check", "keep", "pick"}
  PROVE  Kids(p, op) \in Seq(Tasks(k))
<1>. DEFINE list == EntryAt(p).list
<1>1. Rooted(k) /\ p \in PathsOf(k)
  BY TreeAccepted DEF Accepted, Paths
<1>2. Len(list) \in Nat /\ DOMAIN list = 1 .. Len(list) /\ \A i \in DOMAIN list : Append(p, i) \in PathsOf(k)
  BY <1>1, EntryFacts DEF EntryAt
<1>. HIDE DEF list
<1>3. \A i \in DOMAIN list : [op |-> op, at |-> Append(p, i)] \in Tasks(k)
  BY <1>2 DEF Tasks
<1>4. Kids(p, op) = [i \in DOMAIN list |-> [op |-> op, at |-> Append(p, i)]]
  BY DEF Kids, list
<1>. QED  BY <1>2, <1>3, <1>4

(* A task of the dialogue is done: others take its place.                  *)
LEMMA GotoOk ==
  ASSUME MemoryInv, todo # <<>>, NEW tasks, NEW mem, Goto(tasks, mem),
         tasks \in Seq(Tasks(k)), Good(k, mem)
  PROVE  MemoryInv'
<1>1. tree' = tree /\ disk' = disk /\ todo' = tasks \o Tail(todo) /\ m' = mem
  BY DEF Goto
<1>2. k' = k
  BY <1>1 DEF k
<1>3. tasks \o Tail(todo) \in Seq(Tasks(k))
  <2>1. todo \in Seq(Tasks(k)) /\ Tail(todo) \in Seq(Tasks(k))
    BY DEF MemoryInv
  <2>. QED  BY <2>1
<1>4. DiskOk(disk') /\ tree' \in DOMAIN Trees
  BY <1>1 DEF MemoryInv
<1>. QED  BY <1>1, <1>2, <1>3, <1>4 DEF MemoryInv

LEMMA WalkingFacts ==
  ASSUME MemoryInv, todo # <<>>
  PROVE  /\ tree \in DOMAIN Trees /\ Accepted(k) /\ Good(k, m) /\ Good(k, Drawn)
         /\ Task \in Tasks(k) /\ Task.at \in Paths
         /\ Here.sym \in DOMAIN k.tab \cup {None}
         /\ \A i \in DOMAIN Here.list : Append(Task.at, i) \in Paths
                                        /\ Here.list[i].sym \in DOMAIN k.tab \cup {None}
<1>1. tree \in DOMAIN Trees /\ Accepted(k) /\ Good(k, m)
  BY TreeAccepted DEF MemoryInv
<1>2. Good(k, Drawn)
  BY <1>1, DrawnAtGood DEF Drawn
<1>3. Task \in Tasks(k)
  BY DEF Task, MemoryInv
<1>4. Task.at \in PathsOf(k)
  BY <1>3 DEF Tasks
<1>5. Rooted(k)
  BY <1>1 DEF Accepted
<1>6. EntryOf(k, Task.at).sym \in DOMAIN k.tab \cup {None}
  BY <1>4, <1>5, EntryFacts
<1>7. ASSUME NEW i \in DOMAIN EntryOf(k, Task.at).list
      PROVE  Append(Task.at, i) \in PathsOf(k) /\ EntryOf(k, Task.at).list[i].sym \in DOMAIN k.tab \cup {None}
  <2>1. Append(Task.at, i) \in PathsOf(k) /\ EntryOf(k, Append(Task.at, i)) = EntryOf(k, Task.at).list[i]
    BY <1>4, <1>5, EntryFacts
  <2>2. EntryOf(k, Append(Task.at, i)).sym \in DOMAIN k.tab \cup {None}
    BY <1>5, <2>1, EntryFacts
  <2>. QED  BY <2>1, <2>2
<1>. QED  BY <1>1, <1>2, <1>3, <1>4, <1>6, <1>7 DEF Paths, Here, EntryAt

LEMMA NoTasks == ASSUME NEW t PROVE <<>> \in Seq(Tasks(t))
OBVIOUS

LEMMA OneTask ==
  ASSUME NEW t, NEW p \in PathsOf(t), NEW op \in {"conf", "check", "keep", "pick"}
  PROVE  <<[op |-> op, at |-> p]>> \in Seq(Tasks(t))
<1>1. [op |-> op, at |-> p] \in Tasks(t)
  BY DEF Tasks
<1>. QED  BY <1>1

LEMMA PickValueOk ==
  ASSUME MemoryInv, NEW i, PickValue(i)
  PROVE  MemoryInv'
<1>1. todo # <<>> /\ i \in Pickable(Task.at)
  BY DEF PickValue, Walking
<1>. DEFINE v == Here.list[i].sym
            drawn == DrawnAt(k, m, {Append(Task.at, j) : j \in DOMAIN Here.list})
            tasks == Kids(Append(Task.at, i), "conf")
<1>2. tree \in DOMAIN Trees /\ Accepted(k) /\ Good(k, m) /\ Append(Task.at, i) \in Paths /\ v \in DOMAIN k.tab
  BY <1>1, WalkingFacts DEF Pickable, Here
<1>3. tasks \in Seq(Tasks(k))
  BY <1>2, KidsAre
<1>4. Good(k, drawn)
  BY <1>2, DrawnAtGood
<1>5. Goto(tasks, PickedIn(drawn, v))
  BY DEF PickValue
<1>. HIDE DEF v, drawn, tasks
<1>6. Good(k, PickedIn(drawn, v))
  BY <1>2, <1>4, SetTriGood DEF PickedIn
<1>. QED  BY <1>1, <1>3, <1>5, <1>6, GotoOk

LEMMA DialogueOk ==
  ASSUME MemoryInv, Dialogue
  PROVE  MemoryInv'
<1>1. CASE Skip
  <2>1. todo # <<>> /\ Goto(<<>>, m)
    BY <1>1 DEF Skip, Walking
  <2>. QED  BY <2>1, WalkingFacts, NoTasks, GotoOk
<1>2. CASE CheckSubmenu
  <2>. DEFINE tasks == <<[op |-> "check", at |-> Task.at]>>
  <2>1. todo # <<>> /\ Goto(tasks, Drawn)
    BY <1>2 DEF CheckSubmenu, Walking
  <2>2. tasks \in Seq(Tasks(k)) /\ Good(k, Drawn)
    BY <2>1, WalkingFacts, OneTask DEF Paths
  <2>. HIDE DEF tasks
  <2>. QED  BY <2>1, <2>2, GotoOk
<1>3. CASE Pass
  <2>1. todo # <<>> /\ Goto(Kids(Task.at, "conf"), Drawn)
    BY <1>3 DEF Pass, Entering, Walking
  <2>2. Kids(Task.at, "conf") \in Seq(Tasks(k)) /\ Good(k, Drawn)
    BY <2>1, WalkingFacts, KidsAre
  <2>. QED  BY <2>1, <2>2, GotoOk
<1>4. CASE Check
  <2>. DEFINE menu == <<[op |-> "conf", at |-> MenuOf(Task.at)]>>
              kids == Kids(Task.at, "check")
  <2>1. todo # <<>> /\ (Goto(menu \o kids, Drawn) \/ Goto(kids, Drawn))
    BY <1>4 DEF Check, Walking
  <2>2. kids \in Seq(Tasks(k)) /\ Good(k, Drawn)
    BY <2>1, WalkingFacts, KidsAre
  <2>3. MenuOf(Task.at) \in PathsOf(k)
    BY <2>1, WalkingFacts, ParentMenuIs DEF Accepted, Paths, MenuOf
  <2>4. menu \in Seq(Tasks(k))
    BY <2>3, OneTask
  <2>. HIDE DEF menu, kids
  <2>5. menu \o kids \in Seq(Tasks(k))
    BY <2>2, <2>4
  <2>. QED  BY <2>1, <2>2, <2>5, GotoOk
<1>5. CASE NextRound
  <2>1. /\ tree' = tree /\ disk' = disk /\ m' = m /\ tool' = tool /\ tool \in Dialogues
        /\ todo' = <<[op |-> "check", at |-> <<>>]>>
    BY <1>5 DEF NextRound
  <2>2. Good(k, m) /\ Rooted(k)
    BY <2>1, TreeAccepted DEF MemoryInv, Dialogues, Accepted
  <2>3. <<[op |-> "check", at |-> <<>>]>> \in Seq(Tasks(k))
    BY <2>2, OneTask DEF Rooted
  <2>4. k' = k
    BY <2>1 DEF k
  <2>. QED  BY <2>1, <2>2, <2>3, <2>4 DEF MemoryInv
<1>6. ASSUME NEW v \in 0 .. 2, Answer(v) PROVE MemoryInv'
  <2>1. todo # <<>> /\ Here.sym # None /\ Goto(Kids(Task.at, "conf"), SetTri(k, Drawn, Here.sym, v))
    BY <1>6 DEF Answer, Entering, Walking
  <2>2. /\ Kids(Task.at, "conf") \in Seq(Tasks(k)) /\ Good(k, Drawn) /\ Here.sym \in DOMAIN k.tab
        /\ Accepted(k)
    BY <2>1, WalkingFacts, KidsAre
  <2>3. Good(k, SetTri(k, Drawn, Here.sym, v))
    BY <2>2, SetTriGood
  <2>. QED  BY <2>1, <2>2, <2>3, GotoOk
<1>7. ASSUME NEW v \in 0 .. 2, EnterChoice(v) PROVE MemoryInv'
  <2>. DEFINE s == Here.sym
              mem == IF Asks(s) THEN SetTri(k, Drawn, s, v) ELSE Drawn
              tasks == CASE mem.cur[s].tri = 0 -> <<>>
                         [] mem.cur[s].tri = 1 -> Kids(Task.at, "conf")
                         [] mem.cur[s].tri = 2 -> <<[op |-> IF m.user[s].has THEN "keep" ELSE "pick", at |-> Task.at]>>
  <2>1. todo # <<>> /\ Goto(tasks, mem) /\ s # None
    BY <1>7 DEF EnterChoice, EnteredChoice, Entering, Walking, IsChoiceEntry
  <2>2. /\ Kids(Task.at, "conf") \in Seq(Tasks(k)) /\ Good(k, Drawn) /\ s \in DOMAIN k.tab
        /\ Accepted(k) /\ Task.at \in PathsOf(k)
    BY <2>1, WalkingFacts, KidsAre DEF Paths
  <2>3. Good(k, mem)
    BY <2>2, SetTriGood
  <2>. HIDE DEF mem
  <2>4. mem.cur[s].tri \in 0 .. 2
    <3>1. CurOk(mem.cur) /\ s \in DOMAIN TypeOf
      BY <2>2, <2>3, TableOf DEF Good, MemOk, Accepted
    <3>. QED  BY <3>1 DEF CurOk, CurRec
  <2>5. tasks \in Seq(Tasks(k))
    <3>. DEFINE op == IF m.user[s].has THEN "keep" ELSE "pick"
    <3>1. op \in {"conf", "check", "keep", "pick"}
      OBVIOUS
    <3>. HIDE DEF op
    <3>2. <<[op |-> op, at |-> Task.at]>> \in Seq(Tasks(k))
      BY <2>2, <3>1, OneTask
    <3>3. tasks \in {<<>>, Kids(Task.at, "conf"), <<[op |-> op, at |-> Task.at]>>}
      BY <2>4 DEF op
    <3>. QED  BY <2>2, <3>2, <3>3, NoTasks
  <2>. HIDE DEF tasks
  <2>. QED  BY <2>1, <2>3, <2>5, GotoOk
<1>8. ASSUME NEW w \in Words, AnswerString(w) PROVE MemoryInv'
  <2>1. todo # <<>> /\ Here.sym # None /\ Goto(Kids(Task.at, "conf"), SetString(k, Drawn, Here.sym, w))
    BY <1>8 DEF AnswerString, Entering, Walking
  <2>2. /\ Kids(Task.at, "conf") \in Seq(Tasks(k)) /\ Good(k, Drawn) /\ Here.sym \in DOMAIN k.tab
        /\ Accepted(k)
    BY <2>1, WalkingFacts, KidsAre
  <2>3. Good(k, SetString(k, Drawn, Here.sym, w))
    BY <2>2, SetStringGood
  <2>. QED  BY <2>1, <2>2, <2>3, GotoOk
<1>. QED  BY <1>1, <1>2, <1>3, <1>4, <1>5, <1>6, <1>7, <1>8, PickValueOk DEF Dialogue

LEMMA EditingFacts ==
  ASSUME MemoryInv, Editing
  PROVE  tree \in DOMAIN Trees /\ DiskOk(disk) /\ Accepted(k) /\ Good(k, m)
BY TreeAccepted DEF MemoryInv, Editing, FrontEnds

LEMMA LineFacts ==
  ASSUME MemoryInv, NEW p \in SymbolLines, EntryAt(p).sym # None
  PROVE  EntryAt(p).sym \in DOMAIN k.tab
<1>1. Rooted(k) /\ p \in PathsOf(k)
  BY TreeAccepted DEF MemoryInv, Accepted, SymbolLines, Paths
<1>2. EntryOf(k, p).sym \in DOMAIN k.tab \cup {None}
  BY <1>1, EntryFacts
<1>. QED  BY <1>2 DEF EntryAt

LEMMA EditOk ==
  ASSUME MemoryInv, NEW mem, Good(k, mem), Edit(mem)
  PROVE  MemoryInv'
<1>1. tree' = tree /\ disk' = disk /\ todo' = todo /\ m' = DrawnAt(k, mem, Paths)
  BY DEF Edit
<1>2. Good(k, m') /\ k' = k
  BY <1>1, DrawnAtGood DEF k
<1>. QED  BY <1>1, <1>2 DEF MemoryInv

LEMMA IdleOk ==
  ASSUME MemoryInv, Idle, tree' = tree, DiskOk(disk')
  PROVE  MemoryInv'
<1>1. tool' = "none" /\ m' = NoMemory /\ todo' = <<>>
  BY DEF Idle
<1>. QED  BY <1>1, NoTasks DEF MemoryInv

LEMMA FrontEndOk ==
  ASSUME MemoryInv, FrontEnd
  PROVE  MemoryInv'
<1>1. ASSUME NEW p \in SymbolLines, NEW v \in 0 .. 2, SetLine(p, v) PROVE MemoryInv'
  <2>1. Editing /\ HasLine(p) /\ Edit(SetTri(k, m, EntryAt(p).sym, v))
    BY <1>1 DEF SetLine
  <2>2. EntryAt(p).sym \in DOMAIN k.tab
    BY <2>1, LineFacts DEF HasLine
  <2>3. Good(k, SetTri(k, m, EntryAt(p).sym, v))
    BY <2>1, <2>2, EditingFacts, SetTriGood
  <2>. QED  BY <2>1, <2>3, EditOk
<1>2. ASSUME NEW p \in SymbolLines, NEW w \in Words, TypeLine(p, w) PROVE MemoryInv'
  <2>1. Editing /\ HasLine(p) /\ Edit(SetString(k, m, EntryAt(p).sym, w))
    BY <1>2 DEF TypeLine
  <2>2. EntryAt(p).sym \in DOMAIN k.tab
    BY <2>1, LineFacts DEF HasLine
  <2>3. Good(k, SetString(k, m, EntryAt(p).sym, w))
    BY <2>1, <2>2, EditingFacts, SetStringGood
  <2>. QED  BY <2>1, <2>3, EditOk
<1>3. ASSUME NEW f \in Files, Load(f) PROVE MemoryInv'
  <2>. DEFINE own == tool \in {"mconf", "nconf"}
              read == Read(k, m, disk[f])
              x == read.changed \/ own
              loaded == [read EXCEPT !.changed = x]
  <2>1. /\ Editing /\ tree' = tree /\ disk' = disk /\ todo' = todo
        /\ m' = [m EXCEPT !.changed = FALSE] \/ m' = DrawnAt(k, loaded, Paths)
    BY <1>3 DEF Load
  <2>2. Good(k, m) /\ Accepted(k) /\ Len(disk[f]) \in Nat
    BY <2>1, EditingFacts DEF DiskOk, Files
  <2>3. Good(k, read)
    BY <2>2, ReadGood
  <2>. HIDE DEF read, x
  <2>4. Good(k, loaded) /\ Good(k, [m EXCEPT !.changed = FALSE])
    BY <2>2, <2>3, WithChanged
  <2>. HIDE DEF loaded
  <2>5. Good(k, m')
    BY <2>1, <2>4, DrawnAtGood
  <2>6. k' = k
    BY <2>1 DEF k
  <2>. QED  BY <2>1, <2>5, <2>6 DEF MemoryInv
<1>4. ASSUME NEW f \in Files, NEW o \in Outcomes, Save(f, o) PROVE MemoryInv'
  <2>. DEFINE w == WriteTo(f, o)
  <2>1. Editing /\ AfterSave(f, w)
    BY <1>4 DEF Save
  <2>2. (w.m = NoMemory \/ Good(k, w.m)) /\ DiskOk(w.disk)
    BY <2>1, EditingFacts, WriteToOk
  <2>. HIDE DEF w
  <2>3. tree' = tree /\ disk' = w.disk /\ k' = k
    BY <2>1 DEF AfterSave, k
  <2>4. CASE w.m = NoMemory
    BY <2>1, <2>2, <2>3, <2>4, IdleOk DEF AfterSave
  <2>5. CASE w.m # NoMemory
    <3>1. m' = w.m /\ todo' = todo /\ Good(k, m')
      BY <2>1, <2>2, <2>5 DEF AfterSave
    <3>. QED  BY <2>2, <2>3, <3>1 DEF MemoryInv
  <2>. QED  BY <2>4, <2>5
<1>5. CASE Leave \/ Discard
  <2>1. Idle /\ tree' = tree /\ disk' = disk
    BY <1>5 DEF Leave, Discard
  <2>2. DiskOk(disk')
    BY <2>1 DEF MemoryInv
  <2>. QED  BY <2>1, <2>2, IdleOk
<1>6. ASSUME NEW o \in Outcomes, SaveAndLeave(o) PROVE MemoryInv'
  <2>. DEFINE w == WriteTo(name, o)
  <2>1. Editing /\ AfterLeave(w)
    BY <1>6 DEF SaveAndLeave
  <2>2. (w.m = NoMemory \/ Good(k, w.m)) /\ DiskOk(w.disk)
    BY <2>1, EditingFacts, WriteToOk
  <2>. HIDE DEF w
  <2>3. tree' = tree /\ disk' = w.disk /\ k' = k
    BY <2>1 DEF AfterLeave, k
  <2>4. Idle \/ (w.m # NoMemory /\ m' = w.m /\ todo' = todo)
    BY <2>1 DEF AfterLeave
  <2>5. CASE Idle
    BY <2>2, <2>3, <2>5, IdleOk
  <2>6. CASE w.m # NoMemory /\ m' = w.m /\ todo' = todo
    BY <2>2, <2>3, <2>6 DEF MemoryInv
  <2>. QED  BY <2>4, <2>5, <2>6
<1>. QED  BY <1>1, <1>2, <1>3, <1>4, <1>5, <1>6 DEF FrontEnd

LEMMA FinishOk ==
  ASSUME MemoryInv, NEW o \in Outcomes, Finish(o)
  PROVE  MemoryInv'
<1>1. Idle /\ tree' = tree /\ tool # "none"
  BY DEF Finish, Finished, Batches, Dialogues
<1>2. tree \in DOMAIN Trees /\ DiskOk(disk) /\ Good(k, m) /\ Accepted(k)
  BY <1>1, TreeAccepted DEF MemoryInv
<1>. DEFINE w == WriteTo("config", o)
            min == MinimalLines(k, Changed(k, m))
<1>3. \/ disk' = disk
      \/ disk' = [disk EXCEPT !.min = min]
      \/ disk' = w.disk
  BY DEF Finish
<1>4. DiskOk(w.disk)
  BY <1>2, WriteToOk
<1>5. Len(min) \in Nat
  BY <1>2, LinesOfOk DEF MinimalLines, Accepted
<1>. HIDE DEF w, min
<1>6. DiskOk([disk EXCEPT !.min = min])
  BY <1>2, <1>5 DEF DiskOk
<1>. QED  BY <1>1, <1>2, <1>3, <1>4, <1>6, IdleOk

LEMMA StartOk ==
  ASSUME MemoryInv, NEW t, Start(t)
  PROVE  MemoryInv'
<1>1. /\ tree' = tree /\ disk' = disk /\ m' = Prepared(t, AtStart(t, Parsed(k)))
      /\ todo' \in {<<[op |-> "conf", at |-> <<>>]>>, <<[op |-> "check", at |-> <<>>]>>, <<>>}
  BY DEF Start
<1>2. Good(k, m') /\ k' = k
  BY <1>1, StartGood DEF MemoryInv, k
<1>3. <<>> \in PathsOf(k)
  BY TreeAccepted DEF MemoryInv, Accepted, Rooted
<1>4. todo' \in Seq(Tasks(k))
  BY <1>1, <1>3, OneTask, NoTasks
<1>. QED  BY <1>1, <1>2, <1>4 DEF MemoryInv

LEMMA MemoryInit == Init => MemoryInv
<1>. SUFFICES ASSUME Init PROVE MemoryInv
  OBVIOUS
<1>1. PICK file \in FirstFiles[tree] :
        disk = [config |-> file, old |-> Absent, alt |-> Absent, min |-> Absent]
  BY DEF Init
<1>2. Len(file) \in Nat
  <2>1. file \in Seq([s : STRING, v : STRING])
    BY FilesOfLines DEF Init
  <2>. QED  BY <2>1
<1>3. Len(Absent) \in Nat
  BY DEF Absent
<1>4. DiskOk(disk)
  BY <1>1, <1>2, <1>3 DEF DiskOk
<1>. QED  BY <1>4, NoTasks DEF Init, MemoryInv

LEMMA MemoryNext == MemoryInv /\ [Next]_vars => MemoryInv'
<1>. SUFFICES ASSUME MemoryInv, [Next]_vars PROVE MemoryInv'
  OBVIOUS
<1>1. ASSUME NEW t, Start(t) PROVE MemoryInv'
  BY <1>1, StartOk
<1>2. CASE Dialogue
  BY <1>2, DialogueOk
<1>3. ASSUME NEW o \in Outcomes, Finish(o) PROVE MemoryInv'
  BY <1>3, FinishOk
<1>4. CASE FrontEnd
  BY <1>4, FrontEndOk
<1>5. CASE UNCHANGED vars
  <2>1. tree' = tree /\ disk' = disk /\ m' = m /\ todo' = todo /\ tool' = tool
    BY <1>5 DEF vars
  <2>2. k' = k
    BY <2>1 DEF k
  <2>. QED  BY <2>1, <2>2 DEF MemoryInv
<1>. QED  BY <1>1, <1>2, <1>3, <1>4, <1>5 DEF Next, Done

(* Whatever is read, set, drawn, saved or dropped, by any of the programs, *)
(* the memory of the one that runs holds a tristate and what was said of   *)
(* every symbol of its tree, and a dialogue stands at entries of the tree. *)
THEOREM MemoryKept == Spec => []MemoryInv
<1>1. Init => MemoryInv
  BY MemoryInit
<1>2. MemoryInv /\ [Next]_vars => MemoryInv'
  BY MemoryNext
<1>. QED  BY <1>1, <1>2, PTL DEF Spec

LEMMA OneIsOne ==
  ASSUME NEW t, NEW cur, OneOf(t, cur), NEW c \in DOMAIN t.tab, IsChoice(t, c), cur[c].tri = 2
  PROVE  LET on == {v \in Members(t, c) : cur[v].tri = 2}
         IN  Cardinality(on) = 1 /\ \A v \in on : cur[v].vis = 2
<1>. DEFINE on == {v \in Members(t, c) : cur[v].tri = 2}
<1>1. PICK w \in Members(t, c) : cur[w].vis = 2 /\ \A v \in Members(t, c) : cur[v].tri = 2 <=> v = w
  BY DEF OneOf
<1>2. on = {w}
  BY <1>1
<1>. QED  BY <1>1, <1>2, FS_Singleton

(* In a tree whose choices are plain, of the values of a choice that is y  *)
(* exactly one is y, and it can be seen: after every file read, every line *)
(* set and every failed write (sym_calc_choice, sym_calc_value).           *)
THEOREM OneChoiceHolds == Spec => [](PlainChoices(k) => OneChoice)
<1>1. MemoryInv => (PlainChoices(k) => OneChoice)
  <2>. SUFFICES ASSUME MemoryInv, PlainChoices(k), m # NoMemory,
                       NEW c \in DOMAIN k.tab, IsChoice(k, c), Now(c) = 2
                PROVE  LET on == {v \in Range(k.tab[c].vals) : Now(v) = 2}
                       IN  Cardinality(on) = 1 /\ \A v \in on : m.cur[v].vis = 2
    BY DEF OneChoice
  <2>1. OneOf(k, m.cur)
    BY DEF MemoryInv, Good
  <2>. QED  BY <2>1, OneIsOne DEF Members, Now
<1>. QED  BY <1>1, MemoryKept, PTL

-----------------------------------------------------------------------------
(* What a dialogue still has to ask about is on the way of the entries it  *)
(* has to check, unless it already asked something in this round.          *)

AskTools == {"oldaskconfig", "oldconfig", "silentoldconfig"}
New(t, mem, p) ==
  LET s == EntryOf(t, p).sym
  IN  /\ s # None /\ AllVisible(t, mem, p) /\ ~mem.user[s].has
      /\ Changable(mem, s) \/ (IsChoice(t, s) /\ mem.cur[s].tri = 2)
Coming(t, mem, tasks) ==
  /\ \A n \in DOMAIN tasks : tasks[n].op = "check"
  /\ \A p \in PathsOf(t) : New(t, mem, p) => \E n \in DOMAIN tasks : Through(tasks[n].at, p)
AskInv ==
  tool \in AskTools =>
    mode \in AskTools /\ (~asked /\ mode # "oldaskconfig" => Coming(k, m, todo))

LEMMA NewDrawn ==
  ASSUME NEW t, Rooted(t), NEW mem, Good(t, mem), NEW paths, NEW p \in PathsOf(t),
         New(t, DrawnAt(t, mem, paths), p)
  PROVE  New(t, mem, p)
<1>. DEFINE d == DrawnAt(t, mem, paths)
            s == EntryOf(t, p).sym
<1>1. d.cur = mem.cur /\ \A x \in DOMAIN t.tab : mem.user[x].has => d.user[x].has
  BY DrawnAtGood
<1>2. s \in DOMAIN t.tab \cup {None}
  BY EntryFacts
<1>. HIDE DEF d
<1>3. New(t, d, p)
  BY DEF d
<1>. QED  BY <1>1, <1>2, <1>3 DEF New, AllVisible, Changable

LEMMA ComingOn ==
  ASSUME NEW t, NEW mem, NEW mem2, NEW todos \in Seq(Tasks(t)), todos # <<>>, Coming(t, mem, todos),
         NEW tasks \in Seq(Tasks(t)), \A n \in DOMAIN tasks : tasks[n].op = "check",
         \A p \in PathsOf(t) : New(t, mem2, p) =>
           New(t, mem, p) /\ (Through(Head(todos).at, p) => \E n \in DOMAIN tasks : Through(tasks[n].at, p))
  PROVE  Coming(t, mem2, tasks \o Tail(todos))
<1>. DEFINE rest == Tail(todos)
            all == tasks \o rest
<1>1. /\ rest \in Seq(Tasks(t)) /\ Len(rest) = Len(todos) - 1 /\ Len(todos) \in Nat \ {0}
      /\ \A n \in 1 .. Len(todos) - 1 : rest[n] = todos[n + 1]
      /\ Head(todos) = todos[1]
  OBVIOUS
<1>. HIDE DEF rest
<1>2. /\ all \in Seq(Tasks(t)) /\ Len(all) = Len(tasks) + Len(rest) /\ Len(tasks) \in Nat
      /\ \A n \in 1 .. Len(tasks) : all[n] = tasks[n]
      /\ \A n \in 1 .. Len(rest) : all[Len(tasks) + n] = rest[n]
  <2>1. rest \in Seq(Tasks(t))
    BY <1>1
  <2>2. all \in Seq(Tasks(t)) /\ Len(all) = Len(tasks) + Len(rest) /\ Len(tasks) \in Nat /\ Len(rest) \in Nat
    BY <2>1
  <2>3. \A n \in 1 .. Len(tasks) : all[n] = tasks[n]
    BY <2>1
  <2>4. ASSUME NEW n \in 1 .. Len(rest) PROVE all[Len(tasks) + n] = rest[n]
    BY <2>1
  <2>. QED  BY <2>2, <2>3, <2>4
<1>. HIDE DEF all
<1>3. DOMAIN all = 1 .. Len(tasks) + Len(rest) /\ DOMAIN tasks = 1 .. Len(tasks) /\ DOMAIN todos = 1 .. Len(todos)
  BY <1>2
<1>4. ASSUME NEW n \in DOMAIN all PROVE all[n].op = "check"
  <2>1. CASE n <= Len(tasks)
    BY <1>2, <1>3, <2>1
  <2>2. CASE n > Len(tasks)
    <3>. DEFINE j == n - Len(tasks)
    <3>1. j \in 1 .. Len(rest) /\ n = Len(tasks) + j /\ j + 1 \in DOMAIN todos
      BY <1>1, <1>2, <1>3, <2>2
    <3>. HIDE DEF j
    <3>2. all[n] = todos[j + 1]
      BY <1>1, <1>2, <3>1
    <3>. QED  BY <3>1, <3>2 DEF Coming
  <2>. QED  BY <1>2, <1>3, <2>1, <2>2
<1>5. ASSUME NEW p \in PathsOf(t), New(t, mem2, p) PROVE \E n \in DOMAIN all : Through(all[n].at, p)
  <2>1. PICK i \in DOMAIN todos : Through(todos[i].at, p)
    BY <1>5 DEF Coming
  <2>2. CASE i = 1
    <3>1. PICK n \in DOMAIN tasks : Through(tasks[n].at, p)
      BY <1>1, <1>5, <2>1, <2>2
    <3>. QED  BY <1>1, <1>2, <1>3, <3>1
  <2>3. CASE i # 1
    <3>. DEFINE j == i - 1
    <3>1. j \in 1 .. Len(rest) /\ i = j + 1 /\ Len(tasks) + j \in DOMAIN all
      BY <1>1, <1>2, <1>3, <2>3
    <3>. HIDE DEF j
    <3>2. all[Len(tasks) + j] = todos[i]
      BY <1>1, <1>2, <3>1
    <3>. QED  BY <2>1, <3>1, <3>2
  <2>. QED  BY <2>2, <2>3
<1>. QED  BY <1>4, <1>5 DEF Coming, all, rest

LEMMA RootComing ==
  ASSUME NEW t, Rooted(t), NEW mem
  PROVE  Coming(t, mem, <<[op |-> "check", at |-> <<>>]>>)
<1>1. \A p \in PathsOf(t) : Through(<<>>, p)
  BY EntryFacts DEF Through
<1>. QED  BY <1>1 DEF Coming

LEMMA SkipAsks ==
  ASSUME MemoryInv, Skip, Coming(k, m, todo)
  PROVE  Coming(k, m, Tail(todo))
<1>1. todo # <<>> /\ ~Seen(Task.at)
  BY DEF Skip, Walking
<1>2. todo \in Seq(Tasks(k)) /\ Rooted(k) /\ Task.at \in PathsOf(k) /\ Task = Head(todo)
  BY <1>1, WalkingFacts DEF MemoryInv, Accepted, Paths, Task
<1>3. ASSUME NEW p \in PathsOf(k), New(k, m, p) PROVE ~Through(Task.at, p)
  <2>1. Len(Task.at) \in Nat
    BY <1>2, EntryFacts
  <2>2. \A n \in 0 .. Len(p) : MenuIsVisible(k, m.cur, SubSeq(p, 1, n))
    BY <1>3 DEF New, AllVisible
  <2>3. SUFFICES ASSUME Through(Task.at, p) PROVE FALSE
    OBVIOUS
  <2>4. Len(p) \in Nat
    BY EntryFacts, <1>2
  <2>5. Len(Task.at) \in 0 .. Len(p) /\ SubSeq(p, 1, Len(Task.at)) = Task.at
    BY <2>1, <2>3, <2>4 DEF Through
  <2>6. MenuIsVisible(k, m.cur, Task.at)
    BY <2>2, <2>5
  <2>. QED  BY <1>1, <2>6 DEF Seen
<1>4. Coming(k, m, <<>> \o Tail(todo))
  <2>. DEFINE none == <<>>
  <2>1. none \in Seq(Tasks(k)) /\ \A n \in DOMAIN none : none[n].op = "check"
    BY NoTasks
  <2>2. \A p \in PathsOf(k) : New(k, m, p) =>
          New(k, m, p) /\ (Through(Head(todo).at, p) => \E n \in DOMAIN none : Through(none[n].at, p))
    BY <1>2, <1>3
  <2>. HIDE DEF none
  <2>3. Coming(k, m, none \o Tail(todo))
    BY <1>1, <1>2, <2>1, <2>2, ComingOn
  <2>. QED  BY <2>3 DEF none
<1>5. Tail(todo) \in Seq(Tasks(k))
  BY <1>1, <1>2
<1>6. <<>> \o Tail(todo) = Tail(todo)
  BY <1>5
<1>. QED  BY <1>4, <1>6

LEMMA CheckAsks ==
  ASSUME MemoryInv, Walking("check"), Coming(k, m, todo), ~New(k, m, Task.at)
  PROVE  Coming(k, Drawn, Kids(Task.at, "check") \o Tail(todo))
<1>. DEFINE kids == Kids(Task.at, "check")
            list == EntryOf(k, Task.at).list
<1>1. todo # <<>>
  BY DEF Walking
<1>2. /\ todo \in Seq(Tasks(k)) /\ Rooted(k) /\ Task.at \in PathsOf(k) /\ Task = Head(todo) /\ Good(k, m)
      /\ kids \in Seq(Tasks(k))
  BY <1>1, WalkingFacts, KidsAre DEF MemoryInv, Accepted, Paths, Task
<1>3. kids = [i \in DOMAIN list |-> [op |-> "check", at |-> Append(Task.at, i)]]
  BY DEF Kids, EntryAt
<1>. HIDE DEF list
<1>4. \A n \in DOMAIN kids : kids[n].op = "check"
  BY <1>3
<1>5. ASSUME NEW p \in PathsOf(k), New(k, Drawn, p)
      PROVE  New(k, m, p) /\ (Through(Task.at, p) => \E n \in DOMAIN kids : Through(kids[n].at, p))
  <2>1. New(k, m, p)
    BY <1>2, <1>5, NewDrawn DEF Drawn
  <2>2. ASSUME Through(Task.at, p) PROVE \E n \in DOMAIN kids : Through(kids[n].at, p)
    <3>1. PICK i \in DOMAIN list : Through(Append(Task.at, i), p)
      <4>1. p # Task.at
        BY <2>1
      <4>. QED  BY <1>2, <2>2, <4>1, ThroughKid DEF list
    <3>2. i \in DOMAIN kids /\ kids[i].at = Append(Task.at, i)
      BY <1>3
    <3>. QED  BY <3>1, <3>2
  <2>. QED  BY <2>1, <2>2
<1>. HIDE DEF kids
<1>6. Coming(k, Drawn, kids \o Tail(todo))
  BY <1>1, <1>2, <1>4, <1>5, ComingOn
<1>. QED  BY <1>6 DEF kids

LEMMA OnlyChecks ==
  ASSUME MemoryInv, todo # <<>>, Coming(k, m, todo)
  PROVE  Task.op = "check"
<1>1. 1 \in DOMAIN todo /\ Task = todo[1]
  BY DEF MemoryInv, Task
<1>. QED  BY <1>1 DEF Coming

LEMMA DialogueAsks ==
  ASSUME MemoryInv, AskInv, Dialogue
  PROVE  AskInv'
<1>1. SUFFICES ASSUME tool' \in AskTools
               PROVE  mode' \in AskTools
                      /\ (~asked' /\ mode' # "oldaskconfig" => Coming(k', m', todo'))
  BY DEF AskInv
<1>2. CASE Skip
  <2>1. /\ tree' = tree /\ tool' = tool /\ mode' = mode /\ asked' = asked /\ m' = m
        /\ todo' = <<>> \o Tail(todo) /\ todo # <<>>
    BY <1>2 DEF Skip, Goto, Walking
  <2>2. todo' = Tail(todo)
    <3>1. Tail(todo) \in Seq(Tasks(k))
      BY <2>1 DEF MemoryInv
    <3>. QED  BY <2>1, <3>1
  <2>3. Coming(k, m, todo) => Coming(k, m, Tail(todo))
    BY <1>2, SkipAsks
  <2>4. k' = k
    BY <2>1 DEF k
  <2>. QED  BY <1>1, <2>1, <2>2, <2>3, <2>4 DEF AskInv
<1>3. CASE Check
  <2>. DEFINE again == Here.sym # None /\ Restarts(Here.sym) /\ mode \notin {"listnewconfig", "olddefconfig"}
  <2>1. /\ tree' = tree /\ tool' = tool /\ mode' = mode /\ m' = Drawn /\ Walking("check")
        /\ again => asked' = TRUE
        /\ ~again => asked' = asked /\ todo' = Kids(Task.at, "check") \o Tail(todo)
    BY <1>3 DEF Check, Goto
  <2>2. mode \in AskTools /\ (~asked /\ mode # "oldaskconfig" => Coming(k, m, todo))
    BY <1>1, <2>1 DEF AskInv
  <2>3. k' = k
    BY <2>1 DEF k
  <2>4. CASE again
    BY <2>1, <2>2, <2>4
  <2>5. CASE ~again
    <3>1. ~New(k, m, Task.at)
      BY <2>2, <2>5 DEF New, Restarts, Now, Here, EntryAt, AskTools
    <3>2. Coming(k, m, todo) => Coming(k, Drawn, Kids(Task.at, "check") \o Tail(todo))
      BY <2>1, <3>1, CheckAsks
    <3>. HIDE DEF again
    <3>. QED  BY <2>1, <2>2, <2>3, <2>5, <3>2
  <2>. QED  BY <2>4, <2>5
<1>4. CASE NextRound
  <2>1. /\ tree' = tree /\ tool' = tool /\ m' = m /\ todo' = <<[op |-> "check", at |-> <<>>]>>
        /\ mode' = IF mode = "oldaskconfig" THEN "silentoldconfig" ELSE mode
    BY <1>4 DEF NextRound
  <2>2. Rooted(k) /\ k' = k
    BY <2>1, TreeAccepted DEF MemoryInv, Accepted, k
  <2>3. Coming(k', m', todo')
    BY <2>1, <2>2, RootComing
  <2>. QED  BY <1>1, <2>1, <2>3 DEF AskInv, AskTools
<1>5. ASSUME todo # <<>>, Task.op # "check", tool' = tool, mode' = mode, asked' = asked
      PROVE  mode' \in AskTools /\ (~asked' /\ mode' # "oldaskconfig" => Coming(k', m', todo'))
  BY <1>1, <1>5, OnlyChecks DEF AskInv
<1>6. CASE CheckSubmenu \/ Pass
  <2>1. todo # <<>> /\ Task.op = "conf" /\ tool' = tool /\ mode' = mode /\ asked' = asked
    BY <1>6 DEF CheckSubmenu, Pass, Entering, Walking, Goto
  <2>. QED  BY <1>5, <2>1
<1>7. ASSUME NEW v, Answer(v) \/ AnswerString(v) \/ EnterChoice(v)
      PROVE  mode' \in AskTools /\ (~asked' /\ mode' # "oldaskconfig" => Coming(k', m', todo'))
  <2>1. todo # <<>> /\ Task.op = "conf" /\ tool' = tool /\ mode' = mode /\ asked' = asked
    BY <1>7 DEF Answer, AnswerString, EnterChoice, EnteredChoice, Entering, Walking, Goto
  <2>. QED  BY <1>5, <2>1
<1>8. ASSUME NEW i, PickValue(i)
      PROVE  mode' \in AskTools /\ (~asked' /\ mode' # "oldaskconfig" => Coming(k', m', todo'))
  <2>1. todo # <<>> /\ Task.op \in {"pick", "keep"} /\ tool' = tool /\ mode' = mode /\ asked' = asked
    BY <1>8 DEF PickValue, Walking, Goto
  <2>. QED  BY <1>5, <2>1
<1>. QED  BY <1>2, <1>3, <1>4, <1>6, <1>7, <1>8 DEF Dialogue

LEMMA AskNext == MemoryInv /\ AskInv /\ [Next]_vars => AskInv'
<1>. SUFFICES ASSUME MemoryInv, AskInv, [Next]_vars PROVE AskInv'
  OBVIOUS
<1>1. ASSUME NEW t, Start(t) PROVE AskInv'
  <2>. SUFFICES ASSUME t \in AskTools, t # "oldaskconfig" PROVE Coming(k', m', todo')
    BY <1>1 DEF AskInv, Start
  <2>1. tree' = tree /\ todo' = <<[op |-> "check", at |-> <<>>]>>
    BY <1>1 DEF Start, AskTools, Dialogues
  <2>2. Rooted(k) /\ k' = k
    BY <2>1, TreeAccepted DEF MemoryInv, Accepted, k
  <2>. QED  BY <2>1, <2>2, RootComing
<1>2. CASE Dialogue
  BY <1>2, DialogueAsks
<1>3. CASE Idle
  BY <1>3 DEF Idle, AskInv, AskTools
<1>4. CASE Editing /\ tool' = tool
  BY <1>4 DEF Editing, FrontEnds, AskInv, AskTools
<1>5. ASSUME NEW o, Finish(o) PROVE AskInv'
  BY <1>3, <1>5 DEF Finish
<1>6. CASE FrontEnd
  <2>1. Editing /\ (Idle \/ tool' = tool)
    BY <1>6 DEF FrontEnd, SetLine, TypeLine, Edit, Load, Save, AfterSave, Leave, Discard,
                SaveAndLeave, AfterLeave
  <2>. QED  BY <1>3, <1>4, <2>1
<1>7. CASE UNCHANGED vars
  <2>1. tree' = tree /\ tool' = tool /\ mode' = mode /\ m' = m /\ todo' = todo /\ asked' = asked
    BY <1>7 DEF vars
  <2>2. k' = k
    BY <2>1 DEF k
  <2>. QED  BY <2>1, <2>2 DEF AskInv
<1>. QED  BY <1>1, <1>2, <1>5, <1>6, <1>7 DEF Next, Done

(* A dialogue that is about to write has asked about every new symbol it   *)
(* shows, those too that an answer brought up: in any tree, for any files  *)
(* and answers (the loop of main() in conf.c, check_conf, conf).           *)
THEOREM AllAreAsked == Spec => []AllAsked
<1>1. Init => AskInv
  BY DEF Init, AskInv, AskTools
<1>2. MemoryInv /\ AskInv /\ [Next]_vars => AskInv'
  BY AskNext
<1>3. MemoryInv /\ AskInv => AllAsked
  <2>. SUFFICES ASSUME MemoryInv, AskInv, Finished, tool \in AskTools,
                       NEW p \in Paths, EntryAt(p).sym # None, AllVisible(k, m, p),
                       Restarts(EntryAt(p).sym)
                PROVE  FALSE
    BY DEF AllAsked, AskTools
  <2>1. todo = <<>> /\ ~asked /\ mode # "oldaskconfig"
    BY DEF Finished, AskTools, Batches
  <2>2. New(k, m, p) /\ p \in PathsOf(k)
    BY DEF New, Restarts, Now, EntryAt, Paths
  <2>3. Coming(k, m, todo)
    BY <2>1 DEF AskInv
  <2>. QED  BY <2>1, <2>2, <2>3 DEF Coming
<1>. QED  BY <1>1, <1>2, <1>3, MemoryKept, PTL DEF Spec
===========================================================================
