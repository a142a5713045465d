---------------------------- MODULE MCKConfig ----------------------------
EXTENDS KRules, MCKTrees

MCRawTrees == [choice |-> ChoiceTree, tristate |-> TristateTree, words |-> WordTree,
               optional |-> OptionalTree, rules |-> RuleTree(<<Yes, Yes>>)]
AllTrees == [t \in DOMAIN MCRawTrees |-> Tree(MCRawTrees[t])]

MCFirstFiles == [choice |-> {Absent, <<L("A", "y")>>}, tristate |-> {Absent, <<L("MODULES", "y"), L("U", "m")>>},
                 words |-> {Absent, <<L("PORT", "5")>>, <<L("PORT", "9")>>}, optional |-> {Absent}, rules |-> {Absent}]

Atoms == {Sym("A"), Sym("B"), Eq("A", "y"), Ne("B", "n"), Ne("A", "y"), Yes}
Simple == Atoms \cup {Not(e) : e \in Atoms}
Joined == {Two(op, a, b) : op \in {"and", "or"}, a \in {Sym("A"), Not(Sym("A")), Eq("A", "n")},
                           b \in {Sym("B"), Not(Sym("B")), Ne("B", "y"), No}}
MCRules == (Simple \cup Joined) \X (Simple \cup Joined \cup {Not(e) : e \in Joined})

MCTools ==
  [choice |-> {"qconf", "oldaskconfig", "silentoldconfig", "savedefconfig", "allyesconfig"},
   tristate |-> {"gconf", "oldconfig", "listnewconfig", "allmodconfig", "savedefconfig"},
   words |-> {"mconf", "oldconfig", "silentoldconfig", "olddefconfig", "alldefconfig"},
   optional |-> {"nconf", "oldaskconfig", "savedefconfig", "defconfig", "allnoconfig"},
   rules |-> {"allnoconfig"}]

AllExprs == WithOperands(UNION {Evaluated(MCRawTrees[t]) : t \in DOMAIN MCRawTrees})

\* (TLC evaluates a definition without parameters once, but not one that stands for a constant.)
MCTrees == LET trees == AllTrees IN trees
MCExprs == LET exprs == AllExprs IN exprs

\* All these trees satisfy what the proofs about choices ask for.
ASSUME ChoicesPlain == \A t \in DOMAIN MCTrees : PlainChoices(MCTrees[t])
==========================================================================
