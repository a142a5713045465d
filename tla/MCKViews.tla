----------------------------- MODULE MCKViews -----------------------------
EXTENDS KScreens, MCKTrees

MCRawTrees == [menus |-> MenuTree, held |-> TristateTree]
AllTrees == [t \in DOMAIN MCRawTrees |-> Tree(MCRawTrees[t])]
AllExprs == WithOperands(UNION {Evaluated(MCRawTrees[t]) : t \in DOMAIN MCRawTrees})
MCTrees == LET trees == AllTrees IN trees
MCExprs == LET exprs == AllExprs IN exprs
MCTools == [menus |-> {"mconf", "nconf", "gconf", "qconf"}, held |-> {"mconf", "gconf"}]
NoTools == [menus |-> {}, held |-> {}]
MCLoadable == [menus |-> {Absent, <<L("D", "y"), L("A", "y")>>},
               held |-> {Absent, <<L("MODULES", "y"), L("U", "m")>>}]

Para(lines) == [i \in 1 .. 2 * lines |-> IF i % 2 = 0 THEN "n" ELSE "c"]
MCTexts == {Para(1), Para(3), <<"n", "c", "n", "n", "c", "c", "n">>, Para(2) \o <<"c">>}
===========================================================================
