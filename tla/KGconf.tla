------------------------------ MODULE KGconf ------------------------------
(***************************************************************************)
(* The windows of gconf (support/kconfig/gconf.c): a tree of rows, or in   *)
(* the split view a list of menus beside the tree of the one browsed.      *)
(* Options are shown in the normal mode, only those that are visible.  No  *)
(* menu stands in a menu with a "visible if".                              *)
(***************************************************************************)
EXTENDS KFront

\* fixup_rootmenu marks menus in menus, and what is in no menu.
MenuRoot(p) ==
  LET Marked(j) == IsMenu(EntryAt(SubSeq(p, 1, j)))
  IN  \A j \in 1..Len(p) : Marked(j) \/ \A i \in 1..(j - 1) : ~Marked(i)

\* fill_row
FillRow(mem, p, kids) == [at |-> p, shows |-> Shows(mem, p), kids |-> kids]

\* display_tree: the rows below an entry, in the left or the main window.
Skipped(view, q, left) == view = "split" /\ MenuRoot(q) # left
Descends(view, q, left) == /\ view = "full" \/ left \/ ~IsMenu(EntryAt(q))
                           /\ view = "single" => MenuRoot(Front(q))

RECURSIVE DisplayTree(_, _, _, _)
DisplayTree(mem, view, p, left) ==
  LET row(q) == IF Skipped(view, q, left) \/ ~Sees(mem, q) THEN <<>>
                ELSE <<FillRow(mem, q, IF Descends(view, q, left) THEN DisplayTree(mem, view, q, left)
                                       ELSE <<>>)>>
  IN  FlattenSeq([i \in DOMAIN KidPaths(k, p) |-> row(KidPaths(k, p)[i])])

\* The entries it looks at.
Under(p) == {q \in PathsOf(k) : Len(q) > Len(p) /\ IsPrefix(p, q)}
DisplayAsks(view, p, left) ==
  {q \in Under(p) : \A j \in (Len(p) + 1)..Len(q) :
                      /\ ~Skipped(view, SubSeq(q, 1, j), left)
                      /\ j < Len(q) => Descends(view, SubSeq(q, 1, j), left)}

\* update_tree: the rows of a window are brought up to date in place.  done are the rows that
\* are, rest those that may have to go, kids the entries still to be looked at.  When a row
\* that goes was the last one, the entries after it are not looked at.
SymAt(q) == {EntryAt(q).sym}
Refreshed(mem, row, flags) ==
  IF EntryAt(row.at).sym \in flags THEN FillRow(mem, row.at, row.kids) ELSE row

RECURSIVE UpdateTree(_, _, _, _)
RECURSIVE UpdateRows(_, _, _, _, _)
RECURSIVE UpdateNext(_, _, _, _, _, _, _)
RECURSIVE UpdateRow(_, _, _, _, _, _)
RECURSIVE UpdateOn(_, _, _, _, _, _)
UpdateTree(mem, p, rows, flags) == UpdateRows(mem, KidPaths(k, p), <<>>, rows, flags)
UpdateRows(mem, kids, done, rest, flags) ==
  IF kids = <<>> THEN [rows |-> done \o rest, flags |-> flags]
  ELSE UpdateNext(mem, kids, done, rest, flags, Sees(mem, kids[1]), \E r \in Range(rest) : r.at = kids[1])
UpdateNext(mem, kids, done, rest, flags, seen, there) ==
  CASE seen /\ there /\ rest[1].at = kids[1]
         -> UpdateRow(mem, Tail(kids), done, Refreshed(mem, rest[1], flags), Tail(rest), flags)
    [] seen /\ ~there -> UpdateRow(mem, Tail(kids), done, FillRow(mem, kids[1], <<>>), rest, flags)
    [] ~seen /\ ~there -> UpdateRows(mem, Tail(kids), done, rest, flags)
    [] OTHER -> IF Len(rest) = 1 THEN [rows |-> done, flags |-> flags]
                ELSE UpdateRows(mem, kids, done, Tail(rest), flags)
UpdateRow(mem, kids, done, row, rest, flags) ==
  UpdateOn(mem, kids, done, row, rest, UpdateTree(mem, row.at, row.kids, flags \ SymAt(row.at)))
UpdateOn(mem, kids, done, row, rest, below) ==
  UpdateRows(mem, kids, Append(done, [row EXCEPT !.kids = below.rows]), rest, below.flags)

-----------------------------------------------------------------------------
\* What is on screen once memory is mem.
Filled(rows, flags) == flags \ {EntryAt(r.at).sym : r \in RowsOf(rows)}
GconfShow(mem, asked, w) == m' = DrawnAt(k, mem, asked) /\ win' = w /\ Stays

\* display_tree: the main window shows what is below an entry.
GconfRedrawn(mem, w, p) ==
  LET rows == DisplayTree(mem, w.view, p, FALSE)
  IN  GconfShow(mem, DisplayAsks(w.view, p, FALSE), [w EXCEPT !.rows = rows, !.flags = Filled(rows, @)])

\* display_tree_part
Part(w) == IF w.view = "single" THEN w.current ELSE w.browsed

\* The main window is brought up to date, and in the split view the list drawn anew.
GconfBoth(mem, w, src, u, left) ==
  GconfShow(mem, Under(src) \cup (IF w.view = "split" THEN DisplayAsks("split", <<>>, TRUE) ELSE {}),
            [w EXCEPT !.rows = u.rows, !.left = left, !.flags = Filled(left, u.flags)])
GconfUpdated(mem, w, src) ==
  GconfBoth(mem, w, src, UpdateTree(mem, src, w.rows, w.flags),
            IF w.view = "split" THEN DisplayTree(mem, "split", <<>>, TRUE) ELSE <<>>)

Flags(mem, s) == [win EXCEPT !.flags = @ \cup ChangedSyms(m, mem, {s})]
GconfChanged(mem, w) ==
  IF w.view = "single" THEN GconfRedrawn(mem, w, w.current)
  ELSE GconfUpdated(mem, w, IF w.view = "split" THEN w.browsed ELSE <<>>)

GconfSets(mem, s) == mem # m /\ Edits /\ GconfChanged(mem, Flags(mem, s))
GconfOn(p) == tool = "gconf" /\ \E r \in RowsOf(win.rows) : r.at = p

\* change_sym_value: the keys y, m, n and their columns; what is out of range sets y.
ChangeSymValue(p, v) ==
  LET s == EntryAt(p).sym
      w == IF TriInRange(k, m, s, v) THEN v ELSE 2
  IN  /\ GconfOn(p) /\ s # None /\ IsTri(s)
      /\ CanSetTri(k, m, s, w) /\ GconfSets(SetTri(k, m, s, w), s)

\* toggle_sym_value: a click on the value, or a double click on the option.
ToggleSymValue(p) ==
  LET s == EntryAt(p).sym
  IN  /\ GconfOn(p) /\ s # None /\ IsTri(s)
      /\ GconfSets(SetTri(k, m, s, ToggleTo(k, m, s)), s)

\* renderer_edited: the window is brought up to date from the root whatever it shows.
GconfEdits(mem, s) ==
  mem # m /\ Edits /\ GconfUpdated(mem, [Flags(mem, s) EXCEPT !.mixed = @ \/ win.view # "full"], <<>>)
RendererEdited(p, w) ==
  LET s == EntryAt(p).sym
  IN  /\ GconfOn(p) /\ s # None /\ ~IsTri(s)
      /\ StringInRange(k, m, s, w) /\ GconfEdits(SetString(k, m, s, w), s)

\* on_single_clicked, on_split_clicked, on_full_clicked
GconfView(view) ==
  LET w == [win EXCEPT !.view = view, !.current = <<>>, !.mixed = FALSE]
      left == DisplayTree(m, "split", <<>>, TRUE)
  IN  /\ tool = "gconf" /\ view # win.view /\ UNCHANGED edits
      /\ IF view = "split"
         THEN GconfShow(m, DisplayAsks("split", <<>>, TRUE),
                        [w EXCEPT !.left = left, !.rows = <<>>, !.flags = Filled(left, @)])
         ELSE GconfRedrawn(m, [w EXCEPT !.left = <<>>], <<>>)

\* A double click on a menu of the main window goes down into it in the single view; back goes
\* up to the menu around it.
GconfDown(p) ==
  LET w == IF win.view = "single" THEN [win EXCEPT !.current = p] ELSE win
  IN  /\ GconfOn(p) /\ IsMenu(EntryAt(p)) /\ win.view # "full" /\ UNCHANGED edits
      /\ GconfRedrawn(m, w, Part(w))
GconfUp(p) == IF IsMenu(EntryAt(Front(p))) THEN Front(p) ELSE Front(Front(p))
GconfBack ==
  LET w == [win EXCEPT !.current = GconfUp(@)]
  IN  /\ tool = "gconf" /\ win.view = "single" /\ win.current # <<>> /\ UNCHANGED edits
      /\ GconfRedrawn(m, w, Part(w))

\* on_treeview1_button_press_event: the entry of the list that is browsed.
GconfBrowse(p) ==
  /\ tool = "gconf" /\ win.view = "split" /\ UNCHANGED edits
  /\ win.browsed # p /\ \E r \in RowsOf(win.left) : r.at = p
  /\ GconfRedrawn(m, [win EXCEPT !.browsed = p], p)

\* load_filename: the rows of what was loaded are put after those of what was there.
GconfLoads(mem, rows) ==
  GconfShow(mem, DisplayAsks(win.view, <<>>, FALSE),
            [win EXCEPT !.current = <<>>, !.rows = @ \o rows, !.mixed = TRUE,
                        !.flags = Filled(rows, @ \cup ChangedSyms(m, mem, {}))])
GconfLoaded(mem) == GconfLoads(mem, DisplayTree(mem, win.view, <<>>, FALSE))
GconfLoad(file) ==
  /\ tool = "gconf" /\ Edits
  /\ IF file = Absent THEN m' = [m EXCEPT !.changed = FALSE] /\ UNCHANGED win /\ Stays
     ELSE GconfLoaded(Read(k, m, file))
===========================================================================
