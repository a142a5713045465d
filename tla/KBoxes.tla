------------------------------ MODULE KBoxes ------------------------------
(***************************************************************************)
(* The boxes of menuconfig (support/kconfig/lxdialog): a menu or a list of *)
(* choices that scrolls, a line of text that is edited, a text to read.    *)
(* The program behind a box is left open: it gives a menu any number of    *)
(* lines, and other lines when the user comes back to it.                  *)
(*                                                                         *)
(* box is a record, by its kind:                                           *)
(*   menu   [n, sel, height, saved, scroll, choice, first, shown, resized] *)
(*   check  [n, height, scroll, choice, shown]                             *)
(*   input  [text, pos, input_x, show_x, shown, button]                    *)
(*   text   [text, height, update, page, begin, end, length, top, hscroll] *)
(*   closed, and crashed: the program follows a null pointer               *)
(* shown is what stands on the screen: the item of each line of a list,    *)
(* the letter of each place of a line.                                     *)
(***************************************************************************)
EXTENDS Integers, Sequences, FiniteSets

CONSTANTS
  Lengths,     \* numbers of lines of a menu
  Heights,     \* heights of a box, in lines of its contents
  Letters,     \* what can be typed
  Width,       \* places in the line of an input box
  MaxText,     \* MAX_LEN
  Texts        \* texts to read: sequences of "c", a character, and "n", the end of a line

Blank == " "
ASSUME BoxAssumption ==
  /\ Lengths \subseteq Nat /\ Heights \subseteq Nat \ {0} /\ Blank \notin Letters
  /\ Width \in Nat \ {0} /\ MaxText \in Nat
  /\ Texts \subseteq Seq({"c", "n"}) \ {<<>>}

VARIABLE box

Least(a, b) == IF a < b THEN a ELSE b
Most(a, b) == IF a > b THEN a ELSE b
Is(kind) == box.kind = kind
Closed == [kind |-> "closed"]
Crashed == [kind |-> "crashed"]

-----------------------------------------------------------------------------
(* Lists: dialog_menu and dialog_checklist.                                *)

MaxChoice(b) == Least(b.height, b.n)
Printed(b, first) == [b EXCEPT !.shown = [i \in 0 .. MaxChoice(b) - 1 |-> first + i]]

\* print_item of the line with the cursor.
Lit(b) == [b EXCEPT !.shown = [@ EXCEPT ![b.choice] = b.scroll + b.choice]]

\* do_scroll, as often as said, each time with print_item of the line that comes in.
DoScroll(b, by) ==
  [b EXCEPT !.scroll = @ + by,
            !.shown = [i \in DOMAIN @ |-> IF i + by \in DOMAIN @ THEN @[i + by]
                                          ELSE b.scroll + by + i]]

\* Mutant for BoxShows: the position that was saved is taken as it is.
TrustsSaved(b, choice) == TRUE
Fits(b, choice) == b.saved <= choice /\ b.saved + MaxChoice(b) > choice
                   /\ b.saved >= 0 /\ b.saved + MaxChoice(b) <= b.n

\* From do_resize on: the cursor goes to the item that is selected and the list to where it
\* was before, or else to where the item is in the middle.  first_item keeps its value
\* when the list starts from the top.
MenuPlace(b) ==
  LET choice == IF b.sel # -1 THEN b.sel ELSE b.choice
      middle == MaxChoice(b) \div 2
      scroll == CASE Fits(b, choice) -> b.saved
                  [] ~Fits(b, choice) /\ choice < MaxChoice(b) -> 0
                  [] ~Fits(b, choice) /\ choice >= MaxChoice(b) ->
                       IF choice >= b.n - middle THEN b.n - MaxChoice(b) ELSE choice - middle
      first == IF ~Fits(b, choice) /\ choice < MaxChoice(b) THEN b.first ELSE scroll
  IN  IF first + MaxChoice(b) > b.n THEN Crashed
      ELSE Printed([b EXCEPT !.scroll = scroll, !.first = first, !.choice = choice - scroll], first)

MenuOpen(n, sel, height, saved) ==
  MenuPlace([kind |-> "menu", n |-> n, sel |-> sel, height |-> height, saved |-> saved,
             scroll |-> 0, choice |-> 0, first |-> 0, shown |-> <<>>, resized |-> FALSE])

\* A key that moves the cursor: the line it was on and the line it comes to are printed.
MenuKey(moved) == Is("menu") /\ box.n # 0 /\ box' = Lit(moved)

MenuUp ==
  MenuKey(IF box.choice < 2 /\ box.scroll > 0 THEN DoScroll(Lit(box), -1)
          ELSE [Lit(box) EXCEPT !.choice = Most(@ - 1, 0)])
MenuDown ==
  MenuKey(IF box.choice > MaxChoice(box) - 3 /\ box.scroll + MaxChoice(box) < box.n
          THEN DoScroll(Lit(box), 1)
          ELSE [Lit(box) EXCEPT !.choice = Least(@ + 1, MaxChoice(box) - 1)])

\* A page, one line after the other: the list first, and then the cursor.
MenuPageUp ==
  LET by == Least(box.scroll, MaxChoice(box))
  IN  MenuKey([DoScroll(Lit(box), -by) EXCEPT !.choice = Most(@ - (MaxChoice(box) - by), 0)])
MenuPageDown ==
  LET by == Least(box.n - (box.scroll + MaxChoice(box)), MaxChoice(box))
  IN  MenuKey([DoScroll(Lit(box), by) EXCEPT
                 !.choice = Least(@ + (MaxChoice(box) - by), MaxChoice(box) - 1)])

\* A letter: the cursor goes to a line on screen.
MenuHotkey(i) == Is("menu") /\ i \in DOMAIN box.shown /\ MenuKey([Lit(box) EXCEPT !.choice = i])

\* A key for an item: the program does something with it, and shows the menu again with the
\* items it has now and the scroll position of before.
MenuSelect(n, sel) ==
  /\ Is("menu") /\ sel \in -1 .. n - 1
  /\ box' = MenuOpen(n, sel, box.height, box.scroll)
MenuResize(height) ==
  Is("menu") /\ box' = MenuPlace([box EXCEPT !.height = height, !.resized = TRUE])

CheckOpen(n, choice, height) ==
  LET scroll == IF choice >= height THEN choice - height + 1 ELSE 0
  IN  Printed([kind |-> "check", n |-> n, height |-> height, scroll |-> scroll,
               choice |-> choice - scroll, shown |-> <<>>], scroll)

CheckMove(choice) == box' = Lit([Lit(box) EXCEPT !.choice = choice])
CheckUp ==
  /\ Is("check") /\ (box.choice > 0 \/ box.scroll > 0)
  /\ IF box.choice = 0 THEN box' = DoScroll(box, -1) ELSE CheckMove(box.choice - 1)
CheckDown ==
  /\ Is("check") /\ box.scroll + box.choice < box.n - 1
  /\ IF box.choice = MaxChoice(box) - 1 THEN box' = DoScroll(box, 1)
     ELSE CheckMove(box.choice + 1)
CheckHotkey(i) == Is("check") /\ i \in DOMAIN box.shown /\ CheckMove(i)

\* Help for an item: the list is opened again with the cursor on it.
CheckHelp == Is("check") /\ box' = CheckOpen(box.n, box.scroll + box.choice, box.height)
CheckSelect == Is("check") /\ box' = Closed

-----------------------------------------------------------------------------
(* A line of text: dialog_inputbox.                                        *)

\* The loops that print the text from show_x on stop after one blank behind its end.
Rest(b, i) == IF b.show_x + i < Len(b.text) THEN b.text[b.show_x + i + 1] ELSE Blank
PrintText(b) == [b EXCEPT !.shown = [i \in DOMAIN @ |->
                    IF b.show_x + i <= Len(b.text) THEN Rest(b, i) ELSE @[i]]]

InputOpen(text, button) ==
  LET show_x == IF Len(text) >= Width THEN Len(text) - Width + 1 ELSE 0
  IN  PrintText([kind |-> "input", text |-> text, pos |-> Len(text), input_x |-> Len(text) - show_x,
                 show_x |-> show_x, shown |-> [i \in 0 .. Width - 1 |-> Blank], button |-> button])

InText == Is("input") /\ box.button = -1

\* One place to the left, or to the right: the cursor moves, or the text under it.
StepLeft(b) == IF b.input_x = 0 THEN [b EXCEPT !.show_x = @ - 1, !.pos = @ - 1]
               ELSE [b EXCEPT !.input_x = @ - 1, !.pos = @ - 1]
StepRight(b) == IF b.input_x = Width - 1 THEN [b EXCEPT !.show_x = @ + 1, !.pos = @ + 1]
                ELSE [b EXCEPT !.input_x = @ + 1, !.pos = @ + 1]

InputLeft ==
  /\ InText /\ box.pos > 0
  /\ box' = IF box.input_x = 0 THEN PrintText(StepLeft(box)) ELSE StepLeft(box)
InputRight ==
  /\ InText /\ box.pos < Len(box.text)
  /\ box' = IF box.input_x = Width - 1 THEN PrintText(StepRight(box)) ELSE StepRight(box)
InputBackspace ==
  /\ InText /\ box.pos > 0
  /\ box' = PrintText([StepLeft(box) EXCEPT
               !.text = SubSeq(@, 1, box.pos - 1) \o SubSeq(@, box.pos + 1, Len(@))])
InputType(c) ==
  /\ InText /\ Len(box.text) < MaxText
  /\ box' = PrintText([StepRight(box) EXCEPT
               !.text = SubSeq(@, 1, box.pos) \o <<c>> \o SubSeq(@, box.pos + 1, Len(@))])

\* Tab, and the arrows where they do not move in the text: from the text to Ok, Help and back.
InputForward == Is("input") /\ box' = [box EXCEPT !.button = IF @ = 1 THEN -1 ELSE @ + 1]
InputBack == Is("input") /\ box' = [box EXCEPT !.button = IF @ = -1 THEN 1 ELSE @ - 1]
InputEnter == Is("input") /\ box' = Closed
InputResize == Is("input") /\ box' = InputOpen(box.text, box.button)

-----------------------------------------------------------------------------
(* A text: dialog_textbox.  page is a place in buf, from 1 on; the place   *)
(* behind the text is the zero at its end.                                 *)

\* b at the place in the text that another record has come to.
AtPlace(b, there) == [b EXCEPT !.page = there.page, !.begin = there.begin, !.end = there.end]

LineEnds(t) == {i \in DOMAIN t : t[i] = "n"}
Zero(t) == Len(t) + 1

\* get_line: to the start of the next line, or to the end.
GetLine(b) ==
  LET ends == {i \in LineEnds(b.text) : i >= b.page}
  IN  [b EXCEPT !.end = ends = {},
                !.page = IF ends = {} THEN Zero(b.text)
                         ELSE 1 + CHOOSE i \in ends : \A j \in ends : i <= j]
GetLines(b, n) == LET read[j \in 0 .. n] == IF j = 0 THEN b ELSE GetLine(read[j - 1]) IN read

\* Mutant for PageKept: back over the end of the last line, which get_line did not go over.
OverTheEnd(b) ==
  LET ends == {i \in LineEnds(b.text) : i < b.page - 1}
  IN  IF b.page = 1 \/ ends = {} THEN [b EXCEPT !.page = 1, !.begin = TRUE]
      ELSE [b EXCEPT !.page = 1 + CHOOSE i \in ends : \A j \in ends : j <= i]
BackLine(b) ==
  LET ends == {i \in LineEnds(b.text) : i < b.page - 1}
  IN  IF b.page = Zero(b.text) /\ b.end THEN [b EXCEPT !.end = FALSE]
      ELSE IF b.page = 1 \/ ends = {} THEN [b EXCEPT !.page = 1, !.begin = TRUE]
      ELSE [b EXCEPT !.page = 1 + CHOOSE i \in ends : \A j \in ends : j <= i]

\* back_lines
BackLines(b, n) ==
  LET back[j \in 0 .. n] == IF j = 0 THEN [b EXCEPT !.begin = FALSE]
                            ELSE IF back[j - 1].begin THEN back[j - 1] ELSE BackLine(back[j - 1])
  IN  AtPlace(b, back[n])

\* print_page: where the text is marked (results of a search) it goes to the end of the page
\* and back first.
PrintPage(b) ==
  LET from == IF b.update THEN BackLines(GetLines(b, b.height)[b.height], b.height) ELSE b
      read == GetLines(from, b.height)
      ended == {j \in 1 .. b.height : read[j].end}
  IN  [AtPlace(b, read[b.height]) EXCEPT
         !.top = from.page,
         !.length = IF ended = {} THEN b.height ELSE CHOOSE j \in ended : \A i \in ended : j <= i]

\* From the beginning, *_vscroll lines further down.
TextOpen(text, update, height, vscroll, hscroll) ==
  LET start == [kind |-> "text", text |-> text, update |-> update, height |-> height, page |-> 1,
                begin |-> vscroll = 0, end |-> FALSE, length |-> 0, top |-> 1,
                hscroll |-> hscroll]
  IN  PrintPage(AtPlace(start, GetLines(start, vscroll)[vscroll]))

Reprint(b) == Is("text") /\ box' = PrintPage(b)

TextHome == Is("text") /\ ~box.begin /\ Reprint([box EXCEPT !.begin = TRUE, !.page = 1])
TextEnd == Is("text") /\ Reprint(BackLines([box EXCEPT !.end = TRUE, !.page = Zero(box.text)], box.height))
TextUp == Is("text") /\ ~box.begin /\ Reprint(BackLines(box, box.length + 1))
TextPageUp == Is("text") /\ ~box.begin /\ Reprint(BackLines(box, box.length + box.height))
TextDown == Is("text") /\ ~box.end /\ Reprint(BackLines(box, box.length - 1))
TextPageDown == Is("text") /\ ~box.end /\ Reprint([box EXCEPT !.begin = FALSE])

\* Sideways: a text has two columns of pages here.
TextSideways == Is("text") /\ Reprint([BackLines(box, box.length) EXCEPT !.hscroll = 1 - @])
TextResize(height) == Is("text") /\ Reprint([BackLines(box, box.height + 4) EXCEPT !.height = height])

\* Left for an entry of the search results and shown again with *_vscroll and *_hscroll.
TextAgain ==
  /\ Is("text") /\ box.update
  /\ LET top == BackLines(box, box.length).page
     IN  box' = TextOpen(box.text, box.update, box.height,
                         Cardinality({i \in LineEnds(box.text) : i < top}), box.hscroll)
TextClose == Is("text") /\ box' = Closed
===========================================================================
