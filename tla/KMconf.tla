------------------------------ MODULE KMconf ------------------------------
(***************************************************************************)
(* The text menus of mconf (support/kconfig/mconf.c), all lines open to    *)
(* the user at once.  Without the single_menu mode.                        *)
(***************************************************************************)
EXTENDS KFront

\* build_conf: the lines of a screen by what can be done with them: "m" is a menu, "t" has
\* three states, "s" a string, ":" nothing.  "none" stands for an entry that is only looked at.
Line0(p, tag) == {[at |-> p, tag |-> tag]}

\* Mutant for Offered: the value that is chosen is not looked up among the visible ones.
NothingChosen(mem, p) == [tag |-> IF Changable(mem, EntryAt(p).sym) THEN "t" ELSE ":", drawn |-> {}]
MconfChoiceTag(mem, p) ==
  LET s == EntryAt(p).sym
      drawn == {q \in Range(KidPaths(k, p)) : Sees(mem, q) /\ EntryAt(q).sym = mem.cur[s].val}
  IN  [tag |-> IF Changable(mem, s) \/ drawn # {} THEN "t" ELSE ":", drawn |-> drawn]

MconfSymbolTag(mem, s) ==
  CASE ~IsTri(s) -> "s"
    [] IsTri(s) /\ IsValue(k, s) /\ Now(mem, s) = 2 -> ":"
    [] OTHER -> "t"

RECURSIVE MconfLines(_, _, _, _)
MconfLines(mem, p, menu, all) ==
  LET e == EntryAt(p)
      below == UNION {MconfLines(mem, q, menu, all) : q \in Range(KidPaths(k, p))}
      choice == MconfChoiceTag(mem, p)
  IN  CASE ~(IF all THEN e.prompt ELSE Sees(mem, p)) -> Line0(p, "none")
        [] e.sym = None /\ (p = menu \/ ~e.prompt) -> Line0(p, "none") \cup below
        [] e.sym = None /\ p # menu /\ IsMenu(e) -> Line0(p, "m")
        [] e.sym = None /\ p # menu /\ e.prompt /\ ~IsMenu(e) -> Line0(p, ":") \cup below
        [] e.sym # None /\ IsChoice(k, e.sym) ->
             Line0(p, choice.tag)
             \cup (IF Now(mem, e.sym) # 2 THEN below
                   ELSE UNION {IF q \in choice.drawn /\ EntryAt(q).list # <<>>
                               THEN MconfLines(mem, q, menu, all) ELSE Line0(q, "none")
                               : q \in Range(KidPaths(k, p))})
        [] e.sym # None /\ ~IsChoice(k, e.sym) /\ p = menu -> Line0(p, ":") \cup below
        [] OTHER -> Line0(p, MconfSymbolTag(mem, e.sym)) \cup (IF IsMenu(e) THEN {} ELSE below)

MconfAt(tags, all) == {l.at : l \in {x \in MconfLines(m, Last(win.stack), Last(win.stack), all) : x.tag \in tags}}

\* conf() draws its menu again and waits for the next key.
MconfDraw(mem, menu) == DrawnAt(k, mem, {l.at : l \in MconfLines(mem, menu, menu, FALSE)})
MconfShow(mem, stack) == m' = MconfDraw(mem, Last(stack)) /\ win' = [stack |-> stack] /\ Stays

MconfSets(mem) == mem # m /\ Edits /\ MconfShow(mem, win.stack)

\* y, m, n and space on a line with three states.
MconfKey(p, key, all) ==
  LET s == EntryAt(p).sym
  IN  /\ tool = "mconf" /\ p \in MconfAt({"t"}, all)
      /\ CanSetTri(k, m, s, KeyTo(m, s, key))
      /\ MconfSets(SetTri(k, m, s, KeyTo(m, s, key)))

\* Enter on a menu, or on a symbol that is a menu as well.
MconfEnter(p, all) ==
  /\ tool = "mconf" /\ Len(win.stack) < MaxDepth
  /\ \/ p \in MconfAt({"m"}, all)
     \/ p \in MconfAt({"t"}, all) /\ IsMenu(EntryAt(p))
  /\ MconfShow(m, Append(win.stack, p)) /\ UNCHANGED edits

\* conf_choice: the values of a choice that is y.
MconfChoice(p, q, all) ==
  LET v == EntryAt(q).sym
  IN  /\ tool = "mconf" /\ p \in MconfAt({"t"}, all)
      /\ IsChoice(k, EntryAt(p).sym) /\ Now(m, EntryAt(p).sym) = 2
      /\ q \in Range(KidPaths(k, p)) /\ Sees(m, q) /\ v # None
      /\ CanSetTri(k, m, v, 2) /\ MconfSets(SetTri(k, m, v, 2))

\* conf_string
MconfString(p, w, all) ==
  /\ tool = "mconf" /\ p \in MconfAt({"s"}, all)
  /\ StringInRange(k, m, EntryAt(p).sym, w)
  /\ MconfSets(SetString(k, m, EntryAt(p).sym, w))

\* search_conf: a symbol that is found can be jumped to, or if it cannot be seen the nearest
\* menu around it that can; get_prompt_str leaves the root out.
MconfSearch(p) ==
  LET around == {n \in 1..(Len(p) - 1) : Sees(m, SubSeq(p, 1, n))}
      target == IF Sees(m, p) THEN p ELSE SubSeq(p, 1, Max(around))
  IN  /\ tool = "mconf" /\ Len(win.stack) < MaxDepth
      /\ EntryAt(p).sym # None /\ EntryAt(p).prompt /\ around # {}
      /\ Front(target) # Last(win.stack)
      /\ MconfShow(m, Append(win.stack, Front(target))) /\ UNCHANGED edits

MconfBack ==
  /\ tool = "mconf" /\ Len(win.stack) > 1
  /\ MconfShow(m, Front(win.stack)) /\ UNCHANGED edits

\* conf_load: what is loaded counts as a change.
MconfLoad(file) ==
  /\ tool = "mconf" /\ Edits
  /\ IF file = Absent THEN m' = [m EXCEPT !.changed = FALSE] /\ UNCHANGED win /\ Stays
     ELSE MconfShow([Read(k, m, file) EXCEPT !.changed = TRUE], win.stack)
=============================================================================
