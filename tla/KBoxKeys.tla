----------------------------- MODULE KBoxKeys -----------------------------
(***************************************************************************)
(* A box that is opened, its keys, and what the user sees of it.           *)
(***************************************************************************)
EXTENDS KNboxes

CONSTANTS
  Kinds        \* the boxes that are opened

Places == UNION {0 .. n - 1 : n \in Lengths}
TextsUpTo(n) == UNION {[1 .. j -> Letters] : j \in 0 .. n}

Opening ==
  {b \in (UNION {{MenuOpen(n, sel, h, 0) : sel \in -1 .. n - 1, h \in Heights} : n \in Lengths})
         \cup (UNION {{CheckOpen(n, c, h) : c \in 0 .. n - 1, h \in Heights} : n \in Lengths})
         \cup {InputOpen(t, -1) : t \in TextsUpTo(MaxText)}
         \cup {TextOpen(t, u, h, 0, 0) : t \in Texts, u \in BOOLEAN, h \in Heights}
         \cup {ItemsOpen(n, h) : n \in Items, h \in Heights}
         \cup {LineOpen(t) : t \in TextsUpTo(MaxText)}
         \cup {WindowOpen(t, h + 6) : t \in Texts, h \in Heights}
         \cup {ButtonsOpen(n) : n \in 1 .. 2}
   : b.kind \in Kinds}

\* The keys, box by box.
ListKeys ==
  \/ MenuUp \/ MenuDown \/ MenuPageUp \/ MenuPageDown
  \/ CheckUp \/ CheckDown \/ CheckHelp \/ CheckSelect
  \/ \E i \in Places : MenuHotkey(i) \/ CheckHotkey(i)
  \/ \E n \in Lengths, sel \in {-1} \cup Places : MenuSelect(n, sel)
  \/ \E h \in Heights : MenuResize(h)
InputKeys ==
  \/ InputLeft \/ InputRight \/ InputBackspace \/ InputForward \/ InputBack \/ InputEnter
  \/ InputResize \/ \E c \in Letters : InputType(c)
TextKeys ==
  \/ TextHome \/ TextEnd \/ TextUp \/ TextPageUp \/ TextDown \/ TextPageDown
  \/ TextSideways \/ TextAgain \/ TextClose \/ \E h \in Heights : TextResize(h)
ItemKeys ==
  \/ ItemsDown \/ ItemsUp \/ SearchToggle
  \/ \E n \in Items : ItemsKey(n)
  \/ \E by \in {-1, 1} : SearchNext(by)
  \/ \E matching \in SUBSET UNION {0 .. n - 1 : n \in Items} : SearchType(matching) \/ SearchBackspace(matching)
LineKeys ==
  \/ LineHome \/ LineEnd \/ LineBackspace \/ LineDelete \/ LineEnter
  \/ \E by \in {-1, 1} : LineMove(by)
  \/ \E c \in Letters : LineType(c)
WindowKeys ==
  \/ WindowPageDown \/ WindowPageUp \/ WindowHome \/ WindowEnd \/ WindowDown \/ WindowUp
  \/ WindowClose \/ ButtonsEnd \/ \E by \in {-1, 1} : ButtonsMove(by)

BoxNext == ListKeys \/ InputKeys \/ TextKeys \/ ItemKeys \/ LineKeys \/ WindowKeys \/ SearchTurn

BoxInit == box \in Opening \cup {Closed}
BoxSpec == BoxInit /\ [][BoxNext]_box

-----------------------------------------------------------------------------
(* Properties of the boxes.                                                *)

\* What stands under the cursor is what a key acts on: in the lists of menuconfig each line
\* shows its item, whatever the menu was rebuilt to (not after a change of the size of the
\* screen: then a scrolled menu may show other items, and items that are not there); in the
\* input boxes the cursor is behind the letter that Backspace takes, and the box shows the text
\* around it; in nconf the current item is on screen, and a window does not scroll past its text.
ListShown(b) ==
  /\ \A i \in DOMAIN b.shown : b.shown[i] = b.scroll + i /\ b.shown[i] < b.n
  /\ b.n > 0 => b.choice \in DOMAIN b.shown
BoxShows ==
  /\ Is("menu") => box.resized \/ ListShown(box)
  /\ Is("check") => ListShown(box)
  /\ Is("input") => /\ box.pos = box.show_x + box.input_x /\ box.input_x \in 0 .. Width - 1
                    /\ \A i \in 0 .. Width - 1 : box.shown[i] = Rest(box, i)
  /\ Is("items") => box.cur \in 0 .. box.n - 1 /\ box.cur - box.top \in 0 .. box.height - 1
  /\ Is("line") => box.place \in 0 .. Least(box.pos, Width - 1)
  /\ Is("window") => box.y \in 0 .. box.total - box.lines

\* A text that is scrolled sideways goes on to show the same lines (textbox.c, "Reprint current
\* page to scroll horizontally").  This is so where the last line has an end: any other text
\* slips down by a line when its last page is scrolled.
EndsLine(t) == t[Len(t)] = "n"
PageKept ==
  [][ Is("text") /\ box'.kind = "text" /\ box'.hscroll # box.hscroll /\ EndsLine(box.text)
      => box'.top = box.top ]_box

\* A search in nconf comes to an item that matches if there is one.
SearchFinds ==
  Is("items") /\ box.looking /\ box.matching # {} ~> AtKey /\ box.cur \in box.matching

\* nconf.c, get_mext_match: "return the index of the matched item, or -1 if no such item exists".
SearchEnds == Is("items") /\ box.looking ~> AtKey
===========================================================================
