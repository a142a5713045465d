------------------------------ MODULE KQconf ------------------------------
(***************************************************************************)
(* The lists of qconf (support/kconfig/qconf.cc): the list of options, and *)
(* in the split view the list of menus beside it.  The items of a list are *)
(* kept from one update to the next; updateMenuList adds and removes them  *)
(* as needed.  Options are shown in the normal mode; the item "..", which  *)
(* leads to the menu above, and the search window are left out.            *)
(***************************************************************************)
EXTENDS KFront

\* fixup_rootmenu marks menus in menus, and what is in no menu (MENU_ROOT).
MenuRootQ(p) ==
  LET IsMenuAt(j) == IsMenu(EntryAt(SubSeq(p, 1, j)))
  IN  {j \in 1..Len(p) : ~IsMenuAt(j) /\ \E i \in 1..(j - 1) : IsMenuAt(i)} = {}

\* A list in one of its modes: single and full show all, menu and symbol divide them.
Hides(mode, q) == (mode = "menu" /\ ~MenuRootQ(q)) \/ (mode = "symbol" /\ MenuRootQ(q))
ItemSkip(mem, mode, q) == Hides(mode, q) \/ ~Sees(mem, q)

\* ConfigItem::updateMenu, at once for a new item, else when the entry is marked or all items
\* are updated.
Item(mem, q) == [at |-> q, shows |-> Shows(mem, q), kids |-> <<>>]
TestUpdate(mem, item, flags) ==
  IF item.at \in flags THEN [item EXCEPT !.shows = Shows(mem, item.at)] ELSE item

\* updateMenuList: done are the items up to last, rest those after it.
RECURSIVE UpdateMenuList(_, _, _, _, _)
RECURSIVE UpdateItems(_, _, _, _, _, _)
UpdateMenuList(mem, mode, p, items, flags) == UpdateItems(mem, mode, KidPaths(k, p), <<>>, items, flags)
UpdateItems(mem, mode, kids, done, rest, flags) ==
  LET q == Head(kids)
      here == rest # <<>> /\ rest[1].at = q
      item == IF here THEN TestUpdate(mem, rest[1], flags) ELSE Item(mem, q)
      below == IF mode \in {"full", "menu"} \/ ~IsMenu(EntryAt(q))
               THEN UpdateMenuList(mem, mode, q, item.kids, flags) ELSE <<>>
      later == IF here THEN Tail(rest) ELSE rest
  IN  CASE kids = <<>> -> done \o rest
        [] kids # <<>> /\ ItemSkip(mem, mode, q) -> UpdateItems(mem, mode, Tail(kids), done, later, flags)
        [] kids # <<>> /\ ~ItemSkip(mem, mode, q)
             -> UpdateItems(mem, mode, Tail(kids), Append(done, [item EXCEPT !.kids = below]), later, flags)

\* updateList: a menu that is a symbol stands at the top of its own list.
OwnItem(mode, root) == /\ mode = "single" \/ (mode = "symbol" /\ ~MenuRootQ(root))
                       /\ EntryAt(root).sym # None /\ EntryAt(root).prompt
UpdateOwn(mem, mode, item, flags) ==
  <<[item EXCEPT !.kids = UpdateMenuList(mem, mode, item.at, @, flags)]>>
UpdateList(mem, mode, root, items, flags) ==
  IF OwnItem(mode, root)
  THEN UpdateOwn(mem, mode, IF items = <<>> THEN Item(mem, root) ELSE TestUpdate(mem, items[1], flags), flags)
  ELSE UpdateMenuList(mem, mode, root, items, flags)

-----------------------------------------------------------------------------
\* The entries a list looks at.
UnderQ(p) == {q \in PathsOf(k) : Len(q) > Len(p) /\ IsPrefix(p, q)}
ListAsks(mode, p) ==
  {q \in UnderQ(p) : \A j \in (Len(p) + 1)..Len(q) :
                       LET x == SubSeq(q, 1, j)
                       IN  ~Hides(mode, x) /\ (j = Len(q) \/ mode \in {"full", "menu"} \/ ~IsMenu(EntryAt(x)))}

\* Both lists are updated, that of menus also while it is hidden; an entry keeps its mark until
\* an item of it is updated.  all: the items of the list of options that are updated anyway.
Unmarked(rows, flags) == flags \ {r.at : r \in RowsOf(rows)}
QconfShow(mem, w, rows, left) ==
  /\ win' = [w EXCEPT !.rows = rows, !.left = left, !.flags = Unmarked(left, Unmarked(rows, @))]
  /\ m' = DrawnAt(k, mem, ListAsks(w.mode, w.root) \cup ListAsks("menu", <<>>)) /\ Stays
QconfLists(mem, w, all) ==
  QconfShow(mem, w, UpdateList(mem, w.mode, w.root, w.rows, w.flags \cup all),
            UpdateMenuList(mem, "menu", <<>>, w.left, w.flags \cup all))

\* The entries of the symbols that sym_set_changed() marks.
Marked(mem, s) ==
  [win EXCEPT !.flags = @ \cup {p \in PathsOf(k) : EntryAt(p).sym \in ChangedSyms(m, mem, s)}]

\* The items that can be seen.
QconfOn(p) == /\ tool = "qconf"
              /\ \E r \in RowsOf(win.rows) \cup (IF win.mode = "symbol" THEN RowsOf(win.left) ELSE {}) : r.at = p

QconfSets(mem, s) == mem # m /\ Edits /\ QconfLists(mem, Marked(mem, {s}), {})

\* ConfigList::setValue: the keys y, m, n and the columns.
SetValue(p, v) ==
  LET s == EntryAt(p).sym
  IN  /\ QconfOn(p) /\ s # None /\ IsTri(s)
      /\ CanSetTri(k, m, s, v) /\ QconfSets(SetTri(k, m, s, v), s)

\* ConfigList::changeValue: space, enter and clicks; nothing is drawn again when the value
\* stays what it was.
QconfToggles(mem, s) ==
  IF Now(mem, s) # Now(m, s) THEN QconfSets(mem, s)
  ELSE mem # m /\ Edits /\ m' = mem /\ win' = Marked(mem, {s}) /\ Stays
ChangeValue(p) ==
  LET s == EntryAt(p).sym
  IN  /\ QconfOn(p) /\ s # None /\ IsTri(s)
      /\ QconfToggles(SetTri(k, m, s, ToggleTo(k, m, s)), s)

\* ConfigLineEdit, and ConfigItem::okRename: the string is taken if it is valid.
LineEdit(p, w) ==
  LET s == EntryAt(p).sym
  IN  /\ QconfOn(p) /\ s # None /\ ~IsTri(s)
      /\ StringInRange(k, m, s, w) /\ QconfSets(SetString(k, m, s, w), s)

\* setRootMenu: the list of another menu is built anew.
\* Mutant for RowsComplete: the items of the menu before are kept.
KeepsItems(w, root) == [w EXCEPT !.root = root]
SetRootMenu(w, root) ==
  IF root = w.root \/ ~IsMenu(EntryAt(root)) THEN w ELSE [w EXCEPT !.rows = <<>>, !.root = root]

RootShown(w) == QconfShow(m, w, UpdateList(m, w.mode, w.root, w.rows, PathsOf(k)), w.left)

\* changeMenu: a menu of either list becomes the root of the list of options.
ChangeMenu(p) ==
  /\ QconfOn(p) /\ IsMenu(EntryAt(p)) /\ p # win.root /\ win.mode # "full"
  /\ RootShown(SetRootMenu(win, p)) /\ UNCHANGED edits

\* goBack, setParentMenu
QconfBack ==
  /\ tool = "qconf" /\ win.mode # "full" /\ win.root # <<>>
  /\ RootShown(SetRootMenu(win, ParentMenu(k, Front(win.root)))) /\ UNCHANGED edits

\* showSingleView, showSplitView, showFullView
QconfView(mode) ==
  /\ tool = "qconf" /\ mode # win.mode
  /\ RootShown(SetRootMenu([win EXCEPT !.mode = mode], <<>>)) /\ UNCHANGED edits

\* loadConfig: everything is drawn again, whether or not the file could be read.
QconfLoads(mem) == QconfLists(mem, Marked(mem, {}), PathsOf(k))
QconfLoad(file) ==
  /\ tool = "qconf" /\ Edits
  /\ QconfLoads(IF file = Absent THEN [m EXCEPT !.changed = FALSE] ELSE Read(k, m, file))
===========================================================================
