----------------------------- MODULE MCKTrees -----------------------------
(***************************************************************************)
(* Small Kconfig trees.                                                    *)
(***************************************************************************)
EXTENDS KMenu

Bare == [sym |-> None, prompt |-> TRUE, type |-> "prompt", dep |-> Null, cond |-> Null,
         visif |-> Null, defaults |-> <<>>, selects |-> <<>>, ranges |-> <<>>,
         choice |-> FALSE, optional |-> FALSE, list |-> <<>>]
Config(s) == [Bare EXCEPT !.sym = s]
Default(e, cond) == [e |-> e, cond |-> cond]
Root(list) == [Bare EXCEPT !.type = "menu", !.list = list]

AllTypes ==
  [MODULES |-> "boolean", D |-> "boolean", E |-> "boolean", T |-> "tristate", S |-> "boolean",
   U |-> "tristate", C |-> "boolean", A |-> "boolean", B |-> "boolean", X |-> "boolean",
   PORT |-> "int", V |-> "boolean", W |-> "boolean", FLAG |-> "boolean", O |-> "tristate", P |-> "tristate", Q |-> "tristate",
   y |-> "unknown", m |-> "unknown", n |-> "unknown"]
  @@ [w \in {"1", "3", "5", "9", ""} |-> "unknown"]
MCTypeOf == AllTypes
MCNumOf == [w \in {"1", "3", "5", "9", ""} |->
              CASE w = "1" -> 1 [] w = "3" -> 3 [] w = "5" -> 5 [] w = "9" -> 9 [] OTHER -> 0]

ModulesEntry == Config("MODULES")

\* E stands before X, on which it depends, and X below B.
ChoiceTree == Root(<<
  Config("D"),
  [Config("E") EXCEPT !.dep = Sym("X")],
  [Config("C") EXCEPT !.choice = TRUE,
     !.list = <<Config("A"), [Config("B") EXCEPT !.dep = Sym("D")], [Config("X") EXCEPT !.dep = Sym("B")]>>]>>)

TristateTree == Root(<<
  ModulesEntry,
  [Config("S") EXCEPT !.selects = <<[s |-> "T", cond |-> Null]>>],
  [Config("T") EXCEPT !.dep = Sym("MODULES")],
  [Config("U") EXCEPT !.dep = Sym("T"), !.defaults = <<Default(Mod, Null)>>]>>)

PortEntry == [Config("PORT") EXCEPT
  !.defaults = <<Default(Sym("3"), Sym("D")), Default(Sym("5"), Null)>>,
  !.ranges = <<[lo |-> "1", hi |-> "5", cond |-> Null]>>]
WordTree == Root(<<
  Config("D"),
  [Root(<<PortEntry>>) EXCEPT !.visif = Sym("D")],
  [Config("FLAG") EXCEPT !.prompt = FALSE, !.defaults = <<Default(Yes, Eq("PORT", "5"))>>]>>)

\* Menus in the tree: one of entries, one that is a symbol itself, a choice with an entry below
\* one of its values.
MenuTree == Root(<<
  Config("D"),
  [Root(<<Config("FLAG"), [Config("V") EXCEPT !.type = "menu"], [Config("W") EXCEPT !.dep = Sym("V")],
          PortEntry>>) EXCEPT !.dep = Sym("D")],
  [Config("C") EXCEPT !.choice = TRUE,
     !.list = <<[Config("A") EXCEPT !.dep = Sym("D")], Config("B"), [Config("X") EXCEPT !.dep = Sym("B")]>>]>>)

OptionalTree == Root(<<
  ModulesEntry,
  [Config("O") EXCEPT !.choice = TRUE, !.optional = TRUE,
     !.list = <<Config("P"), Config("Q")>>]>>)

L(s, v) == [s |-> s, v |-> v]
===========================================================================
