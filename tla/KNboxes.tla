------------------------------ MODULE KNboxes -----------------------------
(***************************************************************************)
(* The boxes of nconf (support/kconfig/nconf.gui.c), and the search in its *)
(* menus (nconf.c).  box is one more record of these kinds:                *)
(*   items   [n, height, cur, top, last, search, length, matching, by,     *)
(*            looking, start, index]: a menu of n items, cur under the     *)
(*            cursor and top in the first line; matching are the items     *)
(*            with the pattern of the search in them, length its length;   *)
(*            by the direction it goes, looking while the loop goes round  *)
(*   line    [text, pos, place]: a line of text, with the cursor behind    *)
(*            pos letters of the text in the given place of the window     *)
(*   window  [total, lines, y]: a text of so many lines in a window        *)
(*   buttons [n, cur]: a question and its answers                          *)
(***************************************************************************)
EXTENDS KBoxes

CONSTANTS
  Items,       \* numbers of items of a menu of nconf
  MaxPattern   \* letters of a pattern that is searched

ASSUME ItemsAssumption == Items \subseteq Nat \ {0} /\ MaxPattern \in Nat

-----------------------------------------------------------------------------
(* Menus.                                                                  *)

\* The menu library: a top row with which the last page would not be full is refused, and an
\* item that is set as the current one is brought into sight.
LastTop(b) == Most(b.n - b.height, 0)
SetTopRow(b, row) == IF row \in 0 .. LastTop(b) /\ row # b.top THEN [b EXCEPT !.top = row, !.cur = row] ELSE b
SetCurrent(b, i) ==
  IF i \notin 0 .. b.n - 1 THEN b
  ELSE [b EXCEPT !.cur = i, !.top = IF i < @ THEN i ELSE IF i >= @ + b.height THEN i - b.height + 1 ELSE @]

\* center_item
Middle(b, i) == Least(Most(i - b.height \div 2, 0), b.n - b.height)
CenterItem(b, i) ==
  LET there == SetTopRow(b, b.last)
      out == i < there.top \/ i >= there.top + b.height
      row == IF out THEN Middle(b, i) ELSE there.top
  IN  [SetCurrent(IF out THEN SetTopRow(there, row) ELSE there, i) EXCEPT !.last = row]

\* show_menu: the items are set anew.
ItemsShow(b, i) == CenterItem([b EXCEPT !.top = 0, !.cur = 0], i)
ItemsOpen(n, height) ==
  ItemsShow([kind |-> "items", n |-> n, height |-> height, cur |-> 0, top |-> 0, last |-> 0,
             search |-> FALSE, length |-> 0, matching |-> {}, by |-> 1, looking |-> FALSE,
             start |-> 0, index |-> 0], 0)

AtKey == Is("items") /\ ~box.looking
ItemsMove(i) == AtKey /\ ~box.search /\ i \in 0 .. box.n - 1 /\ box' = SetCurrent(box, i)
ItemsDown == ItemsMove(box.cur + 1)
ItemsUp == ItemsMove(box.cur - 1)

\* An item is changed: the menu is built again, and the cursor goes to where it was.  A key
\* the search has no use for ends it and does what it does otherwise.
ItemsKey(n) ==
  AtKey /\ box' = ItemsShow([box EXCEPT !.n = n, !.last = box.top, !.search = FALSE,
                                       !.length = 0, !.matching = {}], box.cur)

\* do_match: `/', or Escape in a search.
SearchToggle ==
  AtKey /\ box' = [box EXCEPT !.search = ~@, !.length = 0, !.by = 1,
                              !.matching = IF box.search THEN {} ELSE 0 .. box.n - 1]

\* get_mext_match: from the item at the cursor, or from the next one.
GetNextMatch(from, by) ==
  [box EXCEPT !.looking = TRUE, !.by = by, !.start = from, !.index = (from + box.n) % box.n]
SearchType(matching) ==
  /\ AtKey /\ box.search /\ box.length < MaxPattern /\ matching \subseteq box.matching
  /\ box' = [GetNextMatch(box.cur, box.by) EXCEPT !.length = @ + 1, !.matching = matching]
SearchNext(by) == AtKey /\ box.search /\ box' = GetNextMatch(box.cur + by, by)
SearchBackspace(matching) ==
  /\ AtKey /\ box.search /\ box.matching \subseteq matching /\ matching \subseteq 0 .. box.n - 1
  /\ box.length <= 1 => matching = 0 .. box.n - 1
  /\ box' = [box EXCEPT !.length = Most(@ - 1, 0), !.matching = matching]

\* One turn of its loop.  It ends at an item that matches, or when it comes by match_start.
Found(i) == [CenterItem(box, i) EXCEPT !.looking = FALSE, !.start = 0, !.index = 0]
NotFound == [box EXCEPT !.looking = FALSE, !.start = 0, !.index = 0]
NextIndex == (box.index + box.by + box.n) % box.n

\* Mutant for SearchFinds: the item the search starts from is not looked at.
StartsBehind ==
  /\ Is("items") /\ box.looking
  /\ box' = IF NextIndex = box.start THEN NotFound
            ELSE IF NextIndex \in box.matching THEN Found(NextIndex)
            ELSE [box EXCEPT !.index = NextIndex]
SearchTurn ==
  /\ Is("items") /\ box.looking
  /\ box' = IF box.index \in box.matching THEN Found(box.index)
            ELSE IF NextIndex = box.start THEN NotFound
            ELSE [box EXCEPT !.index = NextIndex]

-----------------------------------------------------------------------------
(* dialog_inputbox: every key prints the text anew, from the place where   *)
(* the cursor was left in the window.                                      *)

LineOpen(text) == [kind |-> "line", text |-> text, pos |-> Len(text), place |-> Least(Len(text), Width - 1)]

Held(place) == Least(Most(place, 0), Width - 1)
LineMove(by) ==
  /\ Is("line") /\ box.pos + by \in 0 .. Len(box.text)
  /\ box' = [box EXCEPT !.pos = @ + by, !.place = Held(@ + by)]
LineHome == Is("line") /\ box' = [box EXCEPT !.pos = 0, !.place = 0]
LineEnd == Is("line") /\ box' = LineOpen(box.text)
LineType(c) ==
  /\ Is("line") /\ Len(box.text) < MaxText
  /\ box' = [box EXCEPT !.pos = @ + 1, !.place = Held(@ + 1),
               !.text = SubSeq(@, 1, box.pos) \o <<c>> \o SubSeq(@, box.pos + 1, Len(@))]
Without(i) == SubSeq(box.text, 1, i - 1) \o SubSeq(box.text, i + 1, Len(box.text))
LineBackspace ==
  /\ Is("line") /\ box.pos > 0
  /\ box' = [box EXCEPT !.pos = @ - 1, !.place = Held(@ - 1), !.text = Without(box.pos)]
LineDelete ==
  Is("line") /\ box.pos < Len(box.text) /\ box' = [box EXCEPT !.text = Without(box.pos + 1)]
LineEnter == Is("line") /\ box' = Closed

-----------------------------------------------------------------------------
(* show_scroll_win, in a direction: the other one is alike.                *)

\* total_lines counts one more than there are ends of lines.
WindowOpen(text, screen) ==
  LET total == 1 + Cardinality(LineEnds(text))
  IN  [kind |-> "window", text |-> text, total |-> total, y |-> 0,
       lines |-> Most(Least(total + 4, screen - 2) - 4, 0)]

WindowTo(y) ==
  LET last == box.total - box.lines
  IN  Is("window") /\ box' = [box EXCEPT !.y = Least(Most(y, 0), last)]
WindowPageDown == WindowTo(box.y + box.lines - 2)
WindowPageUp == WindowTo(box.y - (box.lines + 2))
WindowHome == WindowTo(0)
WindowEnd == WindowTo(box.total - box.lines)
WindowDown == WindowTo(box.y + 1)
WindowUp == WindowTo(box.y - 1)
WindowClose == Is("window") /\ box' = Closed

-----------------------------------------------------------------------------
(* btn_dialog.                                                             *)

ButtonsOpen(n) == [kind |-> "buttons", n |-> n, cur |-> 0]
ButtonsMove(by) == Is("buttons") /\ box.cur + by \in 0 .. box.n - 1 /\ box' = [box EXCEPT !.cur = @ + by]
ButtonsEnd == Is("buttons") /\ box' = Closed
===========================================================================
