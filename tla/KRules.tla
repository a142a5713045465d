------------------------------ MODULE KRules ------------------------------
(***************************************************************************)
(* What menu_finalize does to the conditions of a tree, seen from the      *)
(* values its symbols get: every pair of conditions in a tree of its own.  *)
(***************************************************************************)
EXTENDS KConfig, KMenu

CONSTANT Rules    \* pairs of conditions, of a block and of a symbol in it

RuleTree(r) ==
  LET Plain(s) == [sym |-> s, prompt |-> TRUE, type |-> "prompt", dep |-> Null, cond |-> Null,
                   visif |-> Null, defaults |-> <<>>, selects |-> <<>>, ranges |-> <<>>,
                   choice |-> FALSE, optional |-> FALSE, list |-> <<>>]
      block == [Plain(None) EXCEPT !.prompt = FALSE, !.dep = r[1],
                                   !.list = <<[Plain("X") EXCEPT !.dep = r[2]]>>]
  IN  [Plain(None) EXCEPT !.type = "menu", !.list = <<Plain("A"), Plain("B"), block>>]

\* What becomes of X.
Ruled(r) == SymbolTable(Finalize(RuleTree(r)))["X"]

\* The value of an expression that is in none of the trees (expr_calc_value).
ValueIn(cur, e) == LET calc[x \in Parts(e)] == CalcNode(cur, calc, x) IN calc[e]

\* menu_finalize hands down, joins and simplifies conditions without changing what they
\* say: a symbol in a block depends on the condition of the block and its own.
RulesKept ==
  runs = 0 /\ tree = "rules" => \A r \in Rules :
    LET x == Ruled(r)
    IN  \A a, b \in {0, 2} :
          LET cur == [Parsed(k).cur EXCEPT !["A"].tri = a, !["B"].tri = b]
              said == MinOf(ValueIn(cur, r[1]), ValueIn(cur, r[2]))
          IN  ValueIn(cur, x.dir) = said /\ ValueIn(cur, x.prompts[1]) = said
===========================================================================
