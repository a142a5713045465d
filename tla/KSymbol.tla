------------------------------ MODULE KSymbol -----------------------------
(***************************************************************************)
(* The values of symbols: support/kconfig/symbol.c.                        *)
(*                                                                         *)
(* k is a finalized tree: k.tab the table of its symbols, k.order a        *)
(* sequence of them in which every symbol follows those its value depends  *)
(* on, k.lines the order in which files are written, k.entries its menu    *)
(* entries.  user[s] is what was read or set for s: has (SYMBOL_DEF_USER), *)
(* tri and val (the string, or for a choice the symbol chosen).  cur[s] is *)
(* the calculated state of s.                                              *)
(***************************************************************************)
EXTENDS KValue, SequencesExt, FiniteSetsExt

CONSTANT NumOf      \* the number a string stands for, strtoll()

Max0(S) == IF S = {} THEN 0 ELSE Max(S)
Min0(S) == IF S = {} THEN 0 ELSE Min(S)

\* symbol_yes, symbol_mod, symbol_no, and words that are no symbols of the tree.
ConstEntry(s) ==
  [tri |-> CASE s = "y" -> 2 [] s = "m" -> 1 [] OTHER -> 0,
   val |-> s, vis |-> 0, dir |-> 0, rev |-> 0, write |-> FALSE, has |-> FALSE]

\* A symbol before its first calculation.
Fresh == [tri |-> 0, val |-> "", vis |-> 0, dir |-> 0, rev |-> 0, write |-> FALSE, has |-> FALSE]

Literals(tab) == DOMAIN TypeOf \ DOMAIN tab
Constants(tab) == [s \in Literals(tab) |-> ConstEntry(s)]

-----------------------------------------------------------------------------
(* One symbol.                                                             *)

IsTri(s) == TypeOf[s] \in {"boolean", "tristate"}
ModulesVal(cur) == IF ModulesSym \in DOMAIN cur THEN cur[ModulesSym].tri ELSE 0
IsChoice(k, s) == k.tab[s].vals # <<>>
IsValue(k, s) == k.tab[s].choice # None

Members(k, c) == Range(k.tab[c].vals)

\* What the properties of a symbol are made of.
Evaluable(k) ==
  /\ DOMAIN k.tab \subseteq DOMAIN TypeOf \ {"y", "m", "n", None} /\ k.lines \in Seq(DOMAIN k.tab)
  /\ \A s \in DOMAIN k.tab :
       LET d == k.tab[s]
       IN  /\ {d.dir, d.rev} \subseteq DOMAIN Exprs /\ d.prompts \in Seq(DOMAIN Exprs)
           /\ d.defaults \in Seq([e : DOMAIN Exprs, cond : DOMAIN Exprs])
           /\ d.ranges \in Seq([lo : DOMAIN TypeOf, hi : DOMAIN TypeOf, cond : DOMAIN Exprs])
           /\ d.vals \in Seq(DOMAIN k.tab)

\* sym_check_deps, of a tree that is accepted: every symbol follows those that decide whether
\* it is visible, a choice also those that decide whether its values are, which do not look at
\* each other.
PromptSyms(k, s) == SymsAmong(UNION {Exprs[e] : e \in Range(k.tab[s].prompts)})
LooksAt(k, s) ==
  PromptSyms(k, s) \cup {k.tab[s].choice} \cup ({ModulesSym} \ {s})
    \cup ((UNION {PromptSyms(k, v) : v \in Members(k, s)}) \ ({s} \cup Members(k, s)))
Acyclic(k) ==
  /\ k.order \in Seq(DOMAIN k.tab) /\ Range(k.order) = DOMAIN k.tab
  /\ \A i, j \in DOMAIN k.order : i < j => k.order[i] # k.order[j]
  /\ \A i, j \in DOMAIN k.order : i <= j => k.order[j] \notin LooksAt(k, k.order[i])
  /\ \A c \in DOMAIN k.tab : \A v \in Members(k, c) : PromptSyms(k, v) \cap Members(k, c) = {}

\* Choices as they are meant: their values belong to no other choice and have no defaults
\* (menu_finalize warns of those), and no value can be limited to m while the choice is y.
PlainChoices(k) ==
  \A c \in DOMAIN k.tab : IsChoice(k, c) =>
    /\ IsTri(c)
    /\ \A v \in Members(k, c) :
         /\ IsTri(v) /\ ~IsChoice(k, v) /\ k.tab[v].choice = c /\ k.tab[v].defaults = <<>>
         /\ TypeOf[v] = "boolean" \/ \A x \in PromptSyms(k, v) \ {c} : x # "m" /\ TypeOf[x] # "tristate"

\* sym_get_type: where only yes and no are left, a tristate counts as a boolean.
ActsBoolean(k, cur, s, vis) ==
  \/ TypeOf[s] = "boolean"
  \/ TypeOf[s] = "tristate" /\ ((IsValue(k, s) /\ vis = 2) \/ ModulesVal(cur) = 0)

Visible(k, cur, s) ==
  LET ps == k.tab[s].prompts
      v == Max0({CalcExpr(cur, ps[i]) : i \in DOMAIN ps})
  IN  IF v = 1 /\ (TypeOf[s] # "tristate" \/ ModulesVal(cur) = 0) THEN 2 ELSE v

DirDep(k, cur, s) == IF IsValue(k, s) \/ CalcExpr(cur, k.tab[s].dir) = 0 THEN 0 ELSE 2

RevDep(k, cur, s, vis) ==
  IF IsValue(k, s) \/ k.tab[s].rev = Null THEN 0
  ELSE LET v == CalcExpr(cur, k.tab[s].rev)
       IN  IF v = 1 /\ ActsBoolean(k, cur, s, vis) THEN 2 ELSE v

\* The first default whose condition holds; 0 if there is none.
DefaultAt(k, cur, s) ==
  Min0({i \in DOMAIN k.tab[s].defaults : CalcExpr(cur, k.tab[s].defaults[i].cond) # 0})

DefaultTri(k, cur, s, at) ==
  LET d == k.tab[s].defaults[at]
  IN  IF at = 0 THEN 0 ELSE MinOf(CalcExpr(cur, d.e), CalcExpr(cur, d.cond))

DefaultVal(k, cur, s, at) == IF at = 0 THEN "" ELSE cur[k.tab[s].defaults[at].e.s].val

\* sym_validate_range: the nearer end of the first range that applies.
RangeAt(k, cur, s) == Min0({i \in DOMAIN k.tab[s].ranges : CalcExpr(cur, k.tab[s].ranges[i].cond) # 0})
Clamped(k, cur, s, val, at) ==
  LET r == k.tab[s].ranges[at]
  IN  CASE at = 0 \/ TypeOf[s] \notin {"int", "hex"} -> val
        [] NumOf[val] < NumOf[cur[r.lo].val] -> cur[r.lo].val
        [] NumOf[val] > NumOf[cur[r.hi].val] -> cur[r.hi].val
        [] OTHER -> val

\* sym_choice_default: the first visible default, else the first visible value.
ChoiceDefault(k, cur, s, seen) ==
  LET d == k.tab[s]
      hit == Min0({i \in DOMAIN d.defaults : CalcExpr(cur, d.defaults[i].cond) # 0
                                             /\ d.defaults[i].e.s \in seen})
      first == Min0({i \in DOMAIN d.vals : d.vals[i] \in seen})
  IN  CASE hit # 0 -> d.defaults[hit].e.s
        [] hit = 0 /\ first # 0 -> d.vals[first]
        [] OTHER -> None

\* sym_calc_choice: the choice is new again as soon as one of its values is.
ChoiceWith(user, entry, seen, chosen) ==
  [entry EXCEPT !.val = chosen,
                !.tri = IF chosen = None THEN 0 ELSE @,
                !.has = @ /\ \A v \in seen : user[v].has]
\* Mutant for OneChoice: a value that was chosen is kept when it can no longer be seen.
KeptUnseen(k, user, cur, s, entry, seen) ==
  ChoiceWith(user, entry, seen,
             IF user[s].val # None THEN user[s].val ELSE ChoiceDefault(k, cur, s, seen))
ChoiceSeeing(k, user, cur, s, entry, seen) ==
  ChoiceWith(user, entry, seen,
             IF user[s].val \in seen THEN user[s].val ELSE ChoiceDefault(k, cur, s, seen))
CalcChoice(k, user, cur, s, entry) ==
  LET with == [cur EXCEPT ![s] = entry]
  IN  ChoiceSeeing(k, user, with, s, entry, {v \in Range(k.tab[s].vals) : Visible(k, with, v) # 0})

\* sym_calc_value for a boolean or tristate symbol: a value of a choice that is y is what the
\* choice says.
Chosen(k, s, vis) == IsValue(k, s) /\ vis = 2
OwnTri(k, user, cur, s, vis, rev, at) ==
  IF Chosen(k, s, vis) THEN (IF cur[k.tab[s].choice].val = s THEN 2 ELSE 0)
  ELSE MaxOf(IF vis # 0 /\ user[s].has THEN MinOf(user[s].tri, vis)
             ELSE IF IsChoice(k, s) THEN 0 ELSE DefaultTri(k, cur, s, at), rev)

\* The value of s before a choice is looked into: vis, rev, at and tri are its visibility,
\* reverse dependency, default and value.  old is the state of s when it was last calculated.
\* Choices are never written, their values only with a choice that is; other symbols when
\* visible, selected or defaulted.
Entry(k, user, cur, old, s, vis, rev, at, tri) ==
  LET c == k.tab[s].choice
      withChoice == /\ c # None
                    /\ cur[c].vis # 0
                    /\ (IF cur[c].tri = 2 THEN vis ELSE old.vis) # 0
  IN  [tri |-> IF tri = 1 /\ ActsBoolean(k, cur, s, vis) THEN 2 ELSE tri,
       val |-> "", vis |-> vis, dir |-> DirDep(k, cur, s), rev |-> rev, has |-> user[s].has,
       write |-> IF IsValue(k, s)
                 THEN old.write \/ withChoice \/ (~Chosen(k, s, vis) /\ (vis # 0 \/ at # 0))
                 ELSE ~IsChoice(k, s) /\ (vis # 0 \/ rev # 0 \/ at # 0)]

\* A string: what the user gave while it can be seen, else the default.
Word(k, user, cur, s, entry, at) ==
  [entry EXCEPT !.tri = 0,
                !.val = Clamped(k, cur, s, IF entry.vis # 0 /\ user[s].has THEN user[s].val
                                           ELSE DefaultVal(k, cur, s, at), RangeAt(k, cur, s))]

CalcKind(k, user, cur, s, entry, at) ==
  CASE ~IsTri(s) -> Word(k, user, cur, s, entry, at)
    [] IsTri(s) /\ IsChoice(k, s) /\ entry.tri = 2 -> CalcChoice(k, user, cur, s, entry)
    [] OTHER -> entry
CalcVisible(k, user, cur, old, s, vis, rev, at) ==
  CalcKind(k, user, cur, s,
           Entry(k, user, cur, old, s, vis, rev, at, OwnTri(k, user, cur, s, vis, rev, at)), at)
CalcSeen(k, user, cur, old, s, vis) ==
  CalcVisible(k, user, cur, old, s, vis, RevDep(k, cur, s, vis), DefaultAt(k, cur, s))
CalcSymbol(k, user, cur, old, s) == CalcSeen(k, user, cur, old, s, Visible(k, cur, s))
=============================================================================
