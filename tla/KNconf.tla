------------------------------ MODULE KNconf ------------------------------
(***************************************************************************)
(* The menus of nconf (support/kconfig/nconf.c).  Without the single_menu  *)
(* mode, and without the search by typing, which only moves the cursor.    *)
(***************************************************************************)
EXTENDS KFront

LineN(p, tag) == {[at |-> p, tag |-> tag]}

\* build_conf: as that of mconf, but with all items shown an entry needs no prompt.
NconfTag(mem, p) ==
  LET s == EntryAt(p).sym
      drawn == {q \in Range(KidPaths(k, p)) : Sees(mem, q) /\ EntryAt(q).sym = mem.cur[s].val}
  IN  CASE IsChoice(k, s) -> (IF Changable(mem, s) \/ drawn # {} THEN "t" ELSE ":")
        [] ~IsChoice(k, s) /\ ~IsTri(s) -> "s"
        [] ~IsChoice(k, s) /\ IsTri(s)
             -> (IF IsValue(k, s) /\ Now(mem, s) = 2 THEN ":" ELSE "t")

RECURSIVE NconfLines(_, _, _, _)
NconfLines(mem, p, menu, all) ==
  LET e == EntryAt(p)
      set == e.sym # None /\ IsChoice(k, e.sym) /\ Now(mem, e.sym) = 2
      goes == IF set
              THEN {q \in Range(KidPaths(k, p)) : Sees(mem, q) /\ EntryAt(q).sym = mem.cur[e.sym].val
                                                  /\ EntryAt(q).list # <<>>}
              ELSE IF IsMenu(e) /\ p # menu THEN {} ELSE Range(KidPaths(k, p))
      tag == CASE e.sym = None -> (IF p = menu \/ ~e.prompt THEN "none" ELSE IF IsMenu(e) THEN "m" ELSE ":")
               [] e.sym # None -> (IF p = menu /\ ~IsChoice(k, e.sym) THEN ":" ELSE NconfTag(mem, p))
  IN  IF ~all /\ ~Sees(mem, p) THEN LineN(p, "none")
      ELSE LineN(p, tag) \cup UNION {NconfLines(mem, q, menu, all) : q \in goes}
           \cup (IF set THEN UNION {LineN(q, "none") : q \in Range(KidPaths(k, p)) \ goes} ELSE {})

\* A line that takes keys is one of an entry that can be seen, whatever is shown.
NconfAt(tags, all) ==
  {l.at : l \in {x \in NconfLines(m, Last(win.stack), Last(win.stack), all) :
                   x.tag \in tags /\ Sees(m, x.at)}}

NconfDraw(mem, menu, all) == DrawnAt(k, mem, {l.at : l \in NconfLines(mem, menu, menu, all)})
NconfShow(mem, stack, all) ==
  m' = NconfDraw(mem, Last(stack), all) /\ win' = [stack |-> stack] /\ Stays

NconfSets(mem, all) == mem # m /\ Edits /\ NconfShow(mem, win.stack, all)

\* y, m, n, space, and enter, which toggles what is neither a choice that is y nor a menu.
NconfKey(p, key, all) ==
  LET s == EntryAt(p).sym
  IN  /\ tool = "nconf" /\ p \in NconfAt({"t"}, all)
      /\ CanSetTri(k, m, s, KeyTo(m, s, key))
      /\ NconfSets(SetTri(k, m, s, KeyTo(m, s, key)), all)

NconfEnter(p, all) ==
  /\ tool = "nconf" /\ Len(win.stack) < MaxDepth
  /\ \/ p \in NconfAt({"m"}, all)
     \/ p \in NconfAt({"t"}, all) /\ IsMenu(EntryAt(p))
  /\ NconfShow(m, Append(win.stack, p), all) /\ UNCHANGED edits

\* conf_choice
NconfChoice(p, q, all) ==
  LET v == EntryAt(q).sym
  IN  /\ tool = "nconf" /\ p \in NconfAt({"t"}, all)
      /\ IsChoice(k, EntryAt(p).sym) /\ Now(m, EntryAt(p).sym) = 2
      /\ q \in Range(KidPaths(k, p)) /\ Sees(m, q) /\ v # None
      /\ CanSetTri(k, m, v, 2) /\ NconfSets(SetTri(k, m, v, 2), all)

\* conf_string
NconfString(p, w, all) ==
  LET s == EntryAt(p).sym
  IN  /\ tool = "nconf" /\ p \in NconfAt({"s"}, all)
      /\ StringInRange(k, m, s, w) /\ NconfSets(SetString(k, m, s, w), all)

\* Escape, left and F5 leave the menu.
NconfBack ==
  /\ tool = "nconf" /\ Len(win.stack) > 1
  /\ NconfShow(m, Front(win.stack), FALSE) /\ UNCHANGED edits

\* conf_load
NconfLoad(file) ==
  /\ tool = "nconf" /\ Edits
  /\ IF file = Absent THEN m' = [m EXCEPT !.changed = FALSE] /\ UNCHANGED win /\ Stays
     ELSE NconfShow([Read(k, m, file) EXCEPT !.changed = TRUE], win.stack, FALSE)
===========================================================================
