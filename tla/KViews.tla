------------------------------ MODULE KViews ------------------------------
(***************************************************************************)
(* One of the four front ends, with a tree and the configuration it found, *)
(* at work for as long as its user likes.                                  *)
(***************************************************************************)
EXTENDS KMconf, KNconf, KGconf, KQconf

Words == {w \in DOMAIN NumOf : w # ""}
Keys == {"y", "m", "n", "space"}
Entries == PathsOf(k) \ {<<>>}

Loaded(file) == IF file = Absent THEN Parsed(k) ELSE Read(k, Parsed(k), file)

\* main() of each front end: the configuration is read, and the first screen shown.
Opened(t, mem) ==
  CASE t = "mconf" -> [stack |-> << <<>> >>]
    [] t = "nconf" -> [stack |-> << <<>> >>]
    [] t = "gconf" -> [view |-> "full", current |-> <<>>, browsed |-> <<>>, left |-> <<>>,
                       rows |-> DisplayTree(mem, "full", <<>>, FALSE), flags |-> {},
                       mixed |-> FALSE]
    [] t = "qconf" -> [mode |-> "symbol", root |-> <<>>, flags |-> {},
                       rows |-> UpdateList(mem, "symbol", <<>>, <<>>, {}),
                       left |-> UpdateMenuList(mem, "menu", <<>>, <<>>, {})]
FirstLook(t, mem) ==
  CASE t = "mconf" -> MconfDraw(mem, <<>>)
    [] t = "nconf" -> NconfDraw(mem, <<>>, FALSE)
    [] OTHER -> DrawnAt(k, mem, PathsOf(k))

Init ==
  /\ tree \in DOMAIN Trees
  /\ tool \in Tools[tree] /\ edits = 0
  /\ \E file \in Loadable[tree] : \E mem \in {Loaded(file)} :
       m = FirstLook(tool, mem) /\ win = Opened(tool, mem)

Mconf ==
  \/ \E p \in Entries, all \in BOOLEAN : MconfEnter(p, all) \/ \E key \in Keys : MconfKey(p, key, all)
  \/ \E p, q \in Entries, all \in BOOLEAN : MconfChoice(p, q, all)
  \/ \E p \in Entries, w \in Words, all \in BOOLEAN : MconfString(p, w, all)
  \/ \E p \in Entries : MconfSearch(p)
  \/ MconfBack
  \/ \E file \in Loadable[tree] : MconfLoad(file)

Nconf ==
  \/ \E p \in Entries, all \in BOOLEAN : NconfEnter(p, all) \/ \E key \in Keys : NconfKey(p, key, all)
  \/ \E p, q \in Entries, all \in BOOLEAN : NconfChoice(p, q, all)
  \/ \E p \in Entries, w \in Words, all \in BOOLEAN : NconfString(p, w, all)
  \/ NconfBack
  \/ \E file \in Loadable[tree] : NconfLoad(file)

Gconf ==
  \/ \E p \in Entries : ToggleSymValue(p) \/ GconfDown(p) \/ GconfBrowse(p)
                        \/ \E v \in 0..2 : ChangeSymValue(p, v)
  \/ \E p \in Entries, w \in Words : RendererEdited(p, w)
  \/ GconfBack \/ \E view \in {"single", "split", "full"} : GconfView(view)
  \/ \E file \in Loadable[tree] : GconfLoad(file)

Qconf ==
  \/ \E p \in Entries : ChangeValue(p) \/ ChangeMenu(p) \/ \E v \in 0..2 : SetValue(p, v)
  \/ \E p \in Entries, w \in Words : LineEdit(p, w)
  \/ QconfBack \/ \E mode \in {"single", "symbol", "full"} : QconfView(mode)
  \/ \E file \in Loadable[tree] : QconfLoad(file)

Next == Mconf \/ Nconf \/ Gconf \/ Qconf
Spec == Init /\ [][Next]_vars

-----------------------------------------------------------------------------
(* Properties.                                                             *)

\* A symbol that the dialogue of conf.c would ask about can be set in the text menus: some
\* screen that can be entered from the main menu has a line for it, or for its choice
\* (build_conf of mconf and nconf).
ScreenLines(menu) == IF tool = "mconf" THEN MconfLines(m, menu, menu, FALSE)
                     ELSE NconfLines(m, menu, menu, FALSE)
RECURSIVE Screens(_)
Screens(menus) ==
  LET next == menus \cup {l.at : l \in {x \in UNION {ScreenLines(menu) : menu \in menus} :
                                          x.tag = "m" \/ (x.tag = "t" /\ IsMenu(EntryAt(x.at)))}}
  IN  IF next = menus THEN menus ELSE Screens(next)
Offered ==
  tool \in {"mconf", "nconf"} =>
    LET lines == UNION {ScreenLines(menu) : menu \in Screens({<<>>})}
        takes == {l.at : l \in {x \in lines : x.tag \in {"t", "s"}}}
    IN  \A p \in Entries :
          /\ EntryAt(p).sym # None
          /\ AllVisible(k, m, p) /\ Changable(m, EntryAt(p).sym)
          => \/ p \in takes
             \/ IsValue(k, EntryAt(p).sym) /\ Front(p) \in takes

\* What is on screen in gconf and qconf is what is in memory: every row shows the value of its
\* symbol and the values that can be set (update_tree, updateMenuList, and the marks of
\* sym_set_changed that spare them the rows that did not change).  gconf: unless the rows of
\* what was there before were left standing (load_filename, renderer_edited).
Current(rows) == \A r \in RowsOf(rows) : r.shows = Shows(m, r.at)
RowsCurrent ==
  /\ tool = "gconf" => win.mixed \/ (Current(win.rows) /\ Current(win.left))
  /\ tool = "qconf" => Current(win.rows) /\ Current(win.left)

\* The lists of qconf show each visible entry in its place, however they were brought up to
\* date (updateMenuList).
RECURSIVE Shape(_)
Shape(rows) == [i \in DOMAIN rows |-> [at |-> rows[i].at, kids |-> Shape(rows[i].kids)]]
RowsComplete ==
  tool = "qconf" =>
    /\ Shape(win.rows) = Shape(UpdateList(m, win.mode, win.root, <<>>, {}))
    /\ Shape(win.left) = Shape(UpdateMenuList(m, "menu", <<>>, <<>>, {}))
===========================================================================
