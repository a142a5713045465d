------------------------------- MODULE KMenu ------------------------------
(***************************************************************************)
(* From the parsed Kconfig files to the symbols: support/kconfig/menu.c.   *)
(*                                                                         *)
(* A parsed entry is a record                                              *)
(*   sym      its symbol, None for a menu, an if block or a comment        *)
(*   prompt   whether it has a prompt (an if block has none)               *)
(*   type     of its prompt: "prompt", "menu" or "comment"                 *)
(*   dep      its "depends on" (for an if block: its condition)            *)
(*   cond     the "if" of its prompt                                       *)
(*   visif    the "visible if" of a menu                                   *)
(*   defaults << [e, cond] >>   selects << [s, cond] >>                    *)
(*   ranges   << [lo, hi, cond] >>                                         *)
(*   choice, optional   flags                                              *)
(*   list     the entries below it                                         *)
(***************************************************************************)
EXTENDS KExpr, KSymbol

\* modules_sym, where the tree has one, is known before the first use of m.
RECURSIVE CheckDep(_)
CheckDep(e) ==
  CASE e.op = "not" -> Not(CheckDep(e.l))
    [] Connects(e) -> Two(e.op, CheckDep(e.l), CheckDep(e.r))
    [] e = Mod /\ ModulesSym # "n" -> AllocAnd(e, Sym(ModulesSym))
    [] OTHER -> e

\* Conditions of prompts carry the visibility of the menus around them.
RECURSIVE Parse(_, _)
Parse(entry, visibility) ==
  LET Cond(seq) == [i \in DOMAIN seq |-> [seq[i] EXCEPT !.cond = CheckDep(@)]]
      inner == AllocAnd(entry.visif, visibility)
  IN  [entry EXCEPT !.dep = CheckDep(@),
                    !.cond = IF entry.type = "prompt" THEN AllocAnd(CheckDep(@), visibility)
                             ELSE CheckDep(@),
                    !.defaults = Cond(@), !.selects = Cond(@), !.ranges = Cond(@),
                    !.list = [i \in DOMAIN @ |-> Parse(@[i], inner)]]

-----------------------------------------------------------------------------
(* menu_finalize: dependencies are handed down, and entries that depend on *)
(* the symbol before them move below it.                                   *)

AsType(entry, e) ==
  IF entry.sym # None /\ TypeOf[entry.sym] # "tristate" THEN TransBool(e) ELSE e

\* Every property of an entry requires what the entry does.
Required(entry, basedep) ==
  LET Conds(seq) == [i \in DOMAIN seq |->
        [seq[i] EXCEPT !.cond = AsType(entry, EliminateDups(AllocAnd(basedep, Transform(@))))]]
      prompt == <<[cond |-> entry.cond]>>
  IN  [entry EXCEPT !.dep = basedep, !.cond = Conds(prompt)[1].cond,
                    !.defaults = Conds(@), !.selects = Conds(@), !.ranges = Conds(@)]

\* The dependencies of an entry of a list whose parent requires parentdep.
HandDown(entry, parentdep) ==
  Required(entry, EliminateDups(AllocAnd(parentdep, Transform(entry.dep))))

\* Values of a tristate choice that are not tristate need the choice to be y.
BindValue(entry, choice) ==
  IF \/ entry.sym = None \/ TypeOf[choice] # "tristate" \/ TypeOf[entry.sym] = "tristate"
  THEN entry
  ELSE [entry EXCEPT !.dep = AllocAnd(Eq(choice, "y"), @),
                     !.cond = AllocAnd(Eq(choice, "y"), @)]

ParentDep(entry) ==
  CASE entry.choice -> Sym(entry.sym)
    [] ~entry.choice /\ entry.prompt -> entry.cond
    [] ~entry.choice /\ ~entry.prompt -> entry.dep

OwnDep(entry) == IF entry.prompt THEN entry.cond ELSE entry.dep
Implied(e) == EliminateDups(Transform(TransCompare(e, "ne", "n")))

\* An entry belongs below a symbol when it cannot be seen while the symbol is n.
Below(entry, head) ==
  LET dep == OwnDep(entry)
      base == Implied(IF head.prompt THEN head.cond ELSE Null)
  IN  /\ ContainsSymbol(dep, head.sym)
      /\ \/ DependsSymbol(dep, head.sym)
         \/ IsYes(EliminateEq(Implied(dep), base)[2])

\* <<the finalized entry, the entries after it that it did not take>>
RECURSIVE FinalizeEntry(_, _)
RECURSIVE FinalizeList(_)
RECURSIVE Take(_, _)

\* Blocks without a prompt give their entries to the list they are in.
Hoist(list) ==
  FoldRight(LAMBDA e, rest : IF e.prompt \/ e.list = <<>> THEN <<e>> \o rest
                             ELSE <<[e EXCEPT !.list = <<>>]>> \o e.list \o rest,
            list, <<>>)

Bound(entry, list) == IF entry.choice THEN [i \in DOMAIN list |-> BindValue(list[i], entry.sym)]
                      ELSE list

FinalizeEntry(entry, rest) ==
  IF entry.list # <<>>
  THEN LET handed == [i \in DOMAIN entry.list |-> HandDown(entry.list[i], ParentDep(entry))]
       IN  <<[entry EXCEPT !.list = Bound(entry, Hoist(FinalizeList(handed)))], rest>>
  ELSE IF entry.sym # None THEN Take(entry, rest)
  ELSE <<entry, rest>>

Take(head, rest) ==
  IF rest = <<>> \/ ~Below(rest[1], head)
  THEN <<[head EXCEPT !.list = Hoist(@)], rest>>
  ELSE LET x == FinalizeEntry(rest[1], Tail(rest))
       IN  Take([head EXCEPT !.list = Append(@, x[1])], x[2])

FinalizeList(list) ==
  IF list = <<>> THEN <<>>
  ELSE LET x == FinalizeEntry(list[1], Tail(list)) IN <<x[1]>> \o FinalizeList(x[2])

Finalize(root) == FinalizeEntry(Parse(root, Null), <<>>)[1]

\* All entries below one, in the order the files are written in.
RECURSIVE Walk(_)
Walk(entry) == FlattenSeq([i \in DOMAIN entry.list |-> <<entry.list[i]>> \o Walk(entry.list[i])])

-----------------------------------------------------------------------------
(* What is known of each symbol.  menu_finalize adds to dir_dep and        *)
(* rev_dep as it goes; a symbol may have several entries.                  *)

Symbols(root) == {Walk(root)[i].sym : i \in DOMAIN Walk(root)} \ {None}

OrAll(seq) == FoldLeft(LAMBDA a, b : AllocOr(a, b), Null, seq)

\* Choice values: the entries with a symbol directly below a choice.
ValuesOf(entry) == LET vals == SelectSeq(entry.list, LAMBDA e : e.sym # None)
                   IN  [i \in DOMAIN vals |-> vals[i].sym]

SymbolTable(root) ==
  LET all == Walk(root)
      EntriesOf(s) == SelectSeq(all, LAMBDA e : e.sym = s)
      Prompts(s) == SelectSeq(EntriesOf(s), LAMBDA e : e.prompt)
      Leaves(s) == SelectSeq(EntriesOf(s), LAMBDA e : ~e.choice)
      Gather(s, F(_)) == FlattenSeq([i \in DOMAIN EntriesOf(s) |-> F(EntriesOf(s)[i])])
      \* the terms other symbols add to rev_dep of s
      Selected(s, e) ==
        LET hits == SelectSeq(e.selects, LAMBDA x : x.s = s)
        IN  [i \in DOMAIN hits |-> AllocAnd(Sym(e.sym), hits[i].cond)]
      Selects(s) == FlattenSeq([i \in DOMAIN all |-> Selected(s, all[i])])
      Forced(s) == LET es == SelectSeq(Prompts(s), LAMBDA e : e.choice /\ ~e.optional)
                   IN  [i \in DOMAIN es |-> AllocAnd(es[i].cond, Mod)]
      ChoiceEntries == {i \in DOMAIN all : all[i].choice}
      Home(s) == {all[i].sym : i \in {j \in ChoiceEntries : Contains(ValuesOf(all[j]), s)}}
  IN  [s \in Symbols(root) |->
        [prompts  |-> [i \in DOMAIN Prompts(s) |-> Prompts(s)[i].cond],
         dir      |-> OrAll([i \in DOMAIN Leaves(s) |-> Leaves(s)[i].dep]),
         rev      |-> OrAll(Selects(s) \o Forced(s)),
         defaults |-> Gather(s, LAMBDA e : e.defaults),
         ranges   |-> Gather(s, LAMBDA e : e.ranges),
         vals     |-> Gather(s, LAMBDA e : IF e.choice THEN ValuesOf(e) ELSE <<>>),
         optional |-> \E i \in DOMAIN EntriesOf(s) : EntriesOf(s)[i].optional,
         choice   |-> IF Home(s) = {} THEN None ELSE CHOOSE c \in Home(s) : TRUE]]

-----------------------------------------------------------------------------
(* The order of evaluation, and the search for recursive dependencies.     *)

CondSyms(seq) == UNION {SymsOf(seq[i].cond) : i \in DOMAIN seq}

\* The symbols sym_calc_value(s) may calculate.
Needs(tab, s) ==
  LET d == tab[s]
      prompts(x) == UNION {SymsOf(tab[x].prompts[i]) : i \in DOMAIN tab[x].prompts}
      own == prompts(s) \cup SymsOf(d.dir) \cup SymsOf(d.rev)
             \cup CondSyms(d.defaults) \cup CondSyms(d.ranges)
             \cup UNION {SymsOf(d.defaults[i].e) : i \in DOMAIN d.defaults}
             \cup UNION {{d.ranges[i].lo, d.ranges[i].hi} : i \in DOMAIN d.ranges}
      members == {d.vals[i] : i \in DOMAIN d.vals}
      base == IF members = {} THEN own
              ELSE (prompts(s) \cup SymsOf(d.dir) \cup SymsOf(d.rev) \cup CondSyms(d.defaults)
                    \cup UNION {prompts(v) : v \in members}) \ ({s} \cup members)
  IN  (base \cup (IF d.choice = None THEN {} ELSE {d.choice})
            \cup (IF s = ModulesSym THEN {} ELSE {ModulesSym}))
      \cap DOMAIN tab
RECURSIVE OrderFrom(_, _)
OrderFrom(tab, done) ==
  LET ready == {s \in DOMAIN tab \ Range(done) : Needs(tab, s) \subseteq Range(done)}
  IN  IF ready = {} THEN done
      ELSE OrderFrom(tab, Append(done, CHOOSE s \in ready : TRUE))

-----------------------------------------------------------------------------
(* The tree as the program has it after conf_parse().                      *)

\* The entries by the positions that lead to them from the root.
RECURSIVE EntriesBelow(_, _)
EntriesBelow(entry, path) ==
  FoldLeft(LAMBDA es, i : es @@ EntriesBelow(entry.list[i], Append(path, i)),
           path :> entry, [i \in DOMAIN entry.list |-> i])

WithTable(f, tab) ==
  LET syms == SelectSeq(Walk(f), LAMBDA e : e.sym # None)
  IN  [entries |-> EntriesBelow(f, <<>>), tab |-> tab, order |-> OrderFrom(tab, <<>>),
       lines |-> [i \in DOMAIN syms |-> syms[i].sym]]
Finalized(f) == WithTable(f, SymbolTable(f))
Tree(root) == Finalized(Finalize(root))

\* The conditions and values in a tree, and what becomes of them in the table.
Expressions(e) == {e.dep, e.cond, e.visif}
              \cup UNION {{e.defaults[i].e, e.defaults[i].cond} : i \in DOMAIN e.defaults}
              \cup {e.ranges[i].cond : i \in DOMAIN e.ranges}
Gathered(tab) == {tab[s].dir : s \in DOMAIN tab} \cup {tab[s].rev : s \in DOMAIN tab}
EvaluatedIn(f) == Gathered(SymbolTable(f)) \cup UNION {Expressions(e) : e \in {f} \cup Range(Walk(f))}
Evaluated(root) == EvaluatedIn(Finalize(root))
=============================================================================
