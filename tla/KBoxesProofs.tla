---------------------------- MODULE KBoxesProofs ----------------------------
(***************************************************************************)
(* What the user of a box sees, for menus, texts and screens of every size *)
(* and any sequence of keys.                                               *)
(*                                                                         *)
(* BoxShows is inductive once the numbers in a box are known to be numbers *)
(* and a list of choices not to begin above its first item; the length of  *)
(* a line of text is all that its cursor depends on.                       *)
(*                                                                         *)
(* PageKept needs to know of a text that what is on the screen was printed *)
(* from the start of a line, and that get_line and back_line undo each     *)
(* other from there.                                                       *)
(***************************************************************************)
EXTENDS KBoxKeys, SequenceTheorems, FiniteSetTheorems, NaturalsInduction, TLAPS

(* Items in the lines of a list, as many as there are on screen.           *)
Rows == UNION {[0 .. j - 1 -> Int] : j \in Nat}
Lines(b) == b.shown \in [0 .. MaxChoice(b) - 1 -> Int]

MenuBox ==
  [kind : {"menu"}, n : Nat, sel : Int, height : Nat \ {0}, saved : Int, scroll : Int,
   choice : Int, first : Int, shown : Rows, resized : BOOLEAN]
CheckBox ==
  [kind : {"check"}, n : Nat \ {0}, height : Nat \ {0}, scroll : Int, choice : Int, shown : Rows]

MenuSound(b) == b \in MenuBox /\ Lines(b) /\ (b.resized \/ ListShown(b))
CheckSound(b) == b \in CheckBox /\ Lines(b) /\ b.scroll >= 0 /\ ListShown(b)

-----------------------------------------------------------------------------
(* Lists.                                                                  *)

(* The lines on screen are those of the height, or all there are.          *)
LEMMA MaxChoiceFits ==
  ASSUME NEW b, b.n \in Nat, b.height \in Nat \ {0}
  PROVE  /\ MaxChoice(b) \in Nat /\ MaxChoice(b) <= b.n /\ MaxChoice(b) <= b.height
         /\ b.n > 0 => MaxChoice(b) > 0
         /\ b.n < b.height => MaxChoice(b) = b.n
         /\ b.n >= b.height => MaxChoice(b) = b.height
<1>. QED  BY DEF MaxChoice, Least

(* A menu comes up with the selected item under the cursor and a line for  *)
(* each item in sight, wherever it was scrolled to before; a menu that is  *)
(* shown after a change of the size may be crashed or show other items.    *)
LEMMA PlaceSound ==
  ASSUME NEW b \in MenuBox,
         \/ b.resized
         \/ b.choice = 0 /\ b.first = 0 /\ b.sel \in -1 .. b.n - 1
  PROVE  MenuPlace(b) = Crashed \/ MenuSound(MenuPlace(b))
<1>. DEFINE choice == IF b.sel # -1 THEN b.sel ELSE b.choice
            middle == MaxChoice(b) \div 2
            scroll == CASE Fits(b, choice) -> b.saved
                        [] ~Fits(b, choice) /\ choice < MaxChoice(b) -> 0
                        [] ~Fits(b, choice) /\ choice >= MaxChoice(b) ->
                             IF choice >= b.n - middle THEN b.n - MaxChoice(b) ELSE choice - middle
            first == IF ~Fits(b, choice) /\ choice < MaxChoice(b) THEN b.first ELSE scroll
            placed == Printed([b EXCEPT !.scroll = scroll, !.first = first, !.choice = choice - scroll], first)
            shown == [i \in 0 .. MaxChoice(b) - 1 |-> first + i]
            most == MaxChoice(b)
<1>0. most \in Nat /\ most <= b.n /\ (b.n > 0 => most > 0)
  BY MaxChoiceFits DEF MenuBox
<1>1. choice \in Int /\ middle \in Nat /\ 2 * middle <= most /\ most <= 2 * middle + 1
  BY <1>0 DEF MenuBox
<1>a. b.n \in Nat /\ b.saved \in Int /\ b.first \in Int
  BY DEF MenuBox
<1>2. Fits(b, choice) <=> /\ b.saved <= choice /\ b.saved + most > choice
                          /\ b.saved >= 0 /\ b.saved + most <= b.n
  BY DEF Fits
<1>3. ~b.resized => choice \in 0 .. b.n - 1 \/ choice = 0
  OBVIOUS
<1>. HIDE DEF choice, middle, most
<1>4. \/ Fits(b, choice) /\ scroll = b.saved
      \/ ~Fits(b, choice) /\ choice < most /\ scroll = 0
      \/ ~Fits(b, choice) /\ choice >= most /\ choice >= b.n - middle /\ scroll = b.n - most
      \/ ~Fits(b, choice) /\ choice >= most /\ choice < b.n - middle /\ scroll = choice - middle
  BY <1>a, <1>0, <1>1 DEF most
<1>5. \/ ~Fits(b, choice) /\ choice < most /\ first = b.first
      \/ (Fits(b, choice) \/ choice >= most) /\ first = scroll
  BY <1>0, <1>1 DEF most
<1>. HIDE DEF scroll, first
<1>6. scroll \in Int /\ first \in Int
  BY <1>a, <1>0, <1>1, <1>4, <1>5
<1>7. /\ placed \in MenuBox /\ placed.n = b.n /\ placed.height = b.height
      /\ placed.scroll = scroll /\ placed.choice = choice - scroll /\ placed.shown = shown
      /\ placed.resized = b.resized
  <2>. DEFINE c == [b EXCEPT !.scroll = scroll, !.first = first, !.choice = choice - scroll]
  <2>0. choice - scroll \in Int
    BY <1>1, <1>6
  <2>1. /\ c \in MenuBox /\ c.n = b.n /\ c.height = b.height /\ c.scroll = scroll
        /\ c.choice = choice - scroll /\ c.resized = b.resized
    BY <2>0, <1>6 DEF MenuBox
  <2>2. MaxChoice(c) = MaxChoice(b)
    BY <2>1 DEF MaxChoice
  <2>. HIDE DEF c
  <2>3. Printed(c, first) = [c EXCEPT !.shown = shown]
    BY <2>2 DEF Printed
  <2>4. shown \in Rows
    BY <1>0, <1>6 DEF Rows, most
  <2>5. placed = Printed(c, first)
    BY DEF c
  <2>. HIDE DEF placed, shown
  <2>. QED  BY <2>1, <2>3, <2>4, <2>5 DEF MenuBox
<1>8. MenuPlace(b) = IF first + most > b.n THEN Crashed ELSE placed
  BY DEF MenuPlace, scroll, first, choice, middle, most
<1>. HIDE DEF placed
<1>9. MaxChoice(placed) = most /\ Lines(placed)
  BY <1>6, <1>7 DEF MaxChoice, Lines, most
<1>10. ASSUME ~b.resized, first + most <= b.n
       PROVE  ListShown(placed)
  <2>1. first = scroll
    BY <1>10, <1>0, <1>1, <1>4, <1>5
  <2>2. b.n > 0 => choice - scroll \in 0 .. most - 1
    BY <1>10, <1>a, <1>0, <1>1, <1>2, <1>3, <1>4, <1>6, <2>1
  <2>3. /\ placed.shown = shown /\ placed.scroll = scroll /\ placed.n = b.n
        /\ placed.choice = choice - scroll /\ DOMAIN placed.shown = 0 .. most - 1
    BY <1>7 DEF most
  <2>4. \A k \in 0 .. most - 1 : shown[k] = scroll + k /\ shown[k] < b.n
    BY <1>10, <1>a, <2>1, <1>0, <1>6 DEF most
  <2>. HIDE DEF shown
  <2>. QED  BY <2>2, <2>3, <2>4 DEF ListShown
<1>11. first + most <= b.n => MenuSound(placed)
  <2>. QED  BY <1>7, <1>9, <1>10 DEF MenuSound
<1>. QED  BY <1>a, <1>0, <1>6, <1>8, <1>11

(* do_scroll moves the lines with the items in them.                       *)
Scrolls(b, d, by) ==
  /\ b \in MenuBox => d \in MenuBox /\ d.resized = b.resized
  /\ b \in CheckBox => d \in CheckBox
  /\ d.n = b.n /\ d.height = b.height /\ d.choice = b.choice
  /\ d.scroll = b.scroll + by /\ Lines(d)
  /\ ListShown(b) => \A i \in 0 .. MaxChoice(b) - 1 : d.shown[i] = d.scroll + i

(* Scrolling keeps the box what it is, and the items in their lines.       *)
LEMMA ScrollSound ==
  ASSUME NEW b \in MenuBox \cup CheckBox, Lines(b), NEW by \in Int
  PROVE  Scrolls(b, DoScroll(b, by), by)
<1>. DEFINE shown == [i \in 0 .. MaxChoice(b) - 1 |->
                        IF i + by \in 0 .. MaxChoice(b) - 1 THEN b.shown[i + by] ELSE b.scroll + by + i]
            d == DoScroll(b, by)
<1>. DEFINE to == b.scroll + by
<1>1. d = [b EXCEPT !.scroll = to, !.shown = shown]
  <2>1. DOMAIN b.shown = 0 .. MaxChoice(b) - 1
    BY DEF Lines
  <2>. QED  BY <2>1 DEF DoScroll
<1>a. b.scroll \in Int /\ MaxChoice(b) \in Nat
  BY MaxChoiceFits DEF MenuBox, CheckBox
<1>2. shown \in [0 .. MaxChoice(b) - 1 -> Int] /\ shown \in Rows
  BY <1>a DEF Lines, Rows
<1>3. ListShown(b) => \A i \in 0 .. MaxChoice(b) - 1 : shown[i] = b.scroll + by + i
  BY <1>a DEF ListShown, Lines
<1>b. to \in Int
  BY <1>a
<1>c. to = b.scroll + by
  OBVIOUS
<1>. HIDE DEF shown, d, to
<1>4. CASE b \in MenuBox
  <2>1. /\ d \in MenuBox /\ d.n = b.n /\ d.height = b.height /\ d.choice = b.choice
        /\ d.scroll = to /\ d.shown = shown /\ d.resized = b.resized
    BY <1>1, <1>2, <1>4, <1>b DEF MenuBox
  <2>2. MaxChoice(d) = MaxChoice(b)
    BY <2>1 DEF MaxChoice
  <2>3. b \notin CheckBox
    BY <1>4 DEF MenuBox, CheckBox
  <2>. QED  BY <1>2, <1>3, <1>c, <2>1, <2>2, <2>3 DEF Lines, Scrolls, d
<1>5. CASE b \in CheckBox
  <2>1. /\ d \in CheckBox /\ d.n = b.n /\ d.height = b.height /\ d.choice = b.choice
        /\ d.scroll = to /\ d.shown = shown
    BY <1>1, <1>2, <1>5, <1>b DEF CheckBox
  <2>2. MaxChoice(d) = MaxChoice(b)
    BY <2>1 DEF MaxChoice
  <2>3. b \notin MenuBox
    BY <1>5 DEF MenuBox, CheckBox
  <2>. QED  BY <1>2, <1>3, <1>c, <2>1, <2>2, <2>3 DEF Lines, Scrolls, d
<1>. QED  BY <1>4, <1>5

(* A line that is printed with the cursor on it shows what it showed, and  *)
(* in any list nothing but that line changes.                              *)
LEMMA LitSound ==
  ASSUME NEW b \in MenuBox \cup CheckBox, Lines(b)
  PROVE  /\ ListShown(b) => Lit(b) = b
         /\ b \in MenuBox => Lit(b) \in MenuBox /\ Lit(b).resized = b.resized
         /\ Lines(Lit(b)) /\ Lit(b).n = b.n /\ Lit(b).height = b.height
         /\ Lit(b).scroll = b.scroll /\ Lit(b).choice = b.choice
<1>. DEFINE shown == [b.shown EXCEPT ![b.choice] = b.scroll + b.choice]
<1>a. b.scroll \in Int /\ b.choice \in Int /\ MaxChoice(b) \in Nat
  BY MaxChoiceFits DEF MenuBox, CheckBox
<1>b. shown \in [0 .. MaxChoice(b) - 1 -> Int]
  <2>1. \E item \in Int : shown = [b.shown EXCEPT ![b.choice] = item]
    BY <1>a
  <2>. HIDE DEF shown
  <2>. QED  BY <2>1 DEF Lines
<1>1. shown \in [0 .. MaxChoice(b) - 1 -> Int] /\ shown \in Rows
  BY <1>a, <1>b DEF Rows
<1>2. ListShown(b) => shown = b.shown
  BY <1>a DEF Lines, ListShown
<1>3. Lit(b) = [b EXCEPT !.shown = shown]
  BY DEF Lit
<1>. HIDE DEF shown
<1>4. [b EXCEPT !.shown = b.shown] = b
  BY DEF MenuBox, CheckBox
<1>5. /\ Lit(b).n = b.n /\ Lit(b).height = b.height /\ Lit(b).scroll = b.scroll
      /\ Lit(b).choice = b.choice /\ Lit(b).shown = shown
  BY <1>3 DEF MenuBox, CheckBox
<1>6. b \in MenuBox => Lit(b) \in MenuBox /\ Lit(b).resized = b.resized
  BY <1>1, <1>3 DEF MenuBox
<1>7. MaxChoice(Lit(b)) = MaxChoice(b)
  BY <1>5 DEF MaxChoice
<1>. QED  BY <1>1, <1>2, <1>3, <1>4, <1>5, <1>6, <1>7 DEF Lines

(* A key that moves the cursor of a menu, or the menu under it.            *)
LEMMA MovedSound ==
  ASSUME NEW b \in MenuBox, Lines(b), NEW by \in Int, NEW choice \in Int,
         NEW d \in MenuBox, Scrolls(Lit(b), d, by),
         ~b.resized => ListShown(b),
         ~b.resized /\ b.n > 0 => /\ choice \in 0 .. MaxChoice(b) - 1
                                 /\ b.scroll + by + MaxChoice(b) <= b.n
  PROVE  MenuSound(Lit([d EXCEPT !.choice = choice]))
<1>. DEFINE l == Lit(b)
            m == [d EXCEPT !.choice = choice]
<1>1. /\ l \in MenuBox /\ Lines(l) /\ l.n = b.n /\ l.height = b.height /\ l.scroll = b.scroll
      /\ l.resized = b.resized /\ (ListShown(b) => l = b)
  BY LitSound
<1>2. Scrolls(l, d, by)
  OBVIOUS
<1>. HIDE DEF l
<1>3. /\ d \in MenuBox /\ Lines(d) /\ d.n = b.n /\ d.height = b.height
      /\ d.scroll = b.scroll + by /\ d.resized = b.resized
      /\ ListShown(b) => \A i \in 0 .. MaxChoice(b) - 1 : d.shown[i] = d.scroll + i
  BY <1>1, <1>2 DEF Scrolls
<1>4. /\ m \in MenuBox /\ m.n = b.n /\ m.height = b.height /\ m.scroll = b.scroll + by
      /\ m.resized = b.resized /\ m.shown = d.shown /\ m.choice = choice
  BY <1>3 DEF MenuBox
<1>. HIDE DEF m
<1>5. MaxChoice(m) = MaxChoice(b) /\ MaxChoice(d) = MaxChoice(b) /\ Lines(m)
  BY <1>3, <1>4 DEF MaxChoice, Lines
<1>6. ~b.resized => ListShown(m)
  <2>1. b.n \in Nat /\ b.scroll \in Int /\ MaxChoice(b) \in Nat /\ MaxChoice(b) <= b.n
    BY MaxChoiceFits DEF MenuBox
  <2>2. DOMAIN m.shown = 0 .. MaxChoice(b) - 1
    BY <1>5 DEF Lines
  <2>. QED  BY <1>3, <1>4, <2>1, <2>2 DEF ListShown
<1>7. /\ Lit(m) \in MenuBox /\ Lit(m).resized = m.resized /\ Lines(Lit(m))
      /\ ListShown(m) => Lit(m) = m
  BY <1>4, <1>5, LitSound
<1>8. MenuSound(Lit(m))
  BY <1>4, <1>6, <1>7 DEF MenuSound
<1>. QED  BY <1>8 DEF m

(* A menu that is not scrolled is a menu that is scrolled by nothing.      *)
LEMMA Unscrolled == ASSUME NEW b \in MenuBox, Lines(b) PROVE Scrolls(b, b, 0)
<1>1. b.scroll \in Int /\ b \notin CheckBox
  BY DEF MenuBox, CheckBox
<1>2. DOMAIN b.shown = 0 .. MaxChoice(b) - 1
  BY DEF Lines
<1>. QED  BY <1>1, <1>2 DEF Scrolls, ListShown

(* A menu comes up so, with any number of items, selection and position.   *)
LEMMA MenuOpenSound ==
  ASSUME NEW n \in Nat, NEW sel \in -1 .. n - 1, NEW height \in Nat \ {0}, NEW saved \in Int
  PROVE  MenuOpen(n, sel, height, saved) = Crashed \/ MenuSound(MenuOpen(n, sel, height, saved))
<1>. DEFINE b == [kind |-> "menu", n |-> n, sel |-> sel, height |-> height, saved |-> saved,
                  scroll |-> 0, choice |-> 0, first |-> 0, shown |-> <<>>, resized |-> FALSE]
<1>1. <<>> \in [0 .. 0 - 1 -> Int]
  OBVIOUS
<1>2. <<>> \in Rows
  BY <1>1 DEF Rows
<1>3. b \in MenuBox
  BY <1>2 DEF MenuBox
<1>4. MenuPlace(b) = Crashed \/ MenuSound(MenuPlace(b))
  BY <1>3, PlaceSound
<1>. QED  BY <1>4 DEF MenuOpen

(* The keys of a menu.                                                     *)
MenuKeys ==
  \/ MenuUp \/ MenuDown \/ MenuPageUp \/ MenuPageDown
  \/ \E i \in Places : MenuHotkey(i)
  \/ \E n \in Lengths, sel \in {-1} \cup Places : MenuSelect(n, sel)
  \/ \E h \in Heights : MenuResize(h)

(* They keep a menu showing what is under the cursor.                      *)
LEMMA MenuKeysSound ==
  ASSUME Is("menu") => MenuSound(box), MenuKeys
  PROVE  box' = Crashed \/ MenuSound(box')
<1>1. /\ Is("menu") /\ box \in MenuBox /\ Lines(box) /\ (box.resized \/ ListShown(box))
  BY DEF MenuKeys, MenuUp, MenuDown, MenuPageUp, MenuPageDown, MenuHotkey, MenuSelect, MenuResize,
         MenuKey, MenuSound
<1>2. /\ box.n \in Nat /\ box.height \in Nat \ {0} /\ box.scroll \in Int /\ box.choice \in Int
      /\ MaxChoice(box) \in Nat /\ MaxChoice(box) <= box.n /\ (box.n > 0 => MaxChoice(box) > 0)
      /\ box.resized \in BOOLEAN
  BY <1>1, MaxChoiceFits DEF MenuBox
<1>3. ~box.resized /\ box.n > 0 => /\ box.choice \in 0 .. MaxChoice(box) - 1
                                  /\ box.scroll + MaxChoice(box) <= box.n
  <2>1. DOMAIN box.shown = 0 .. MaxChoice(box) - 1
    BY <1>1 DEF Lines
  <2>. SUFFICES ASSUME ~box.resized, box.n > 0
                PROVE  box.choice \in 0 .. MaxChoice(box) - 1 /\ box.scroll + MaxChoice(box) <= box.n
    OBVIOUS
  <2>2. box.shown[MaxChoice(box) - 1] = box.scroll + (MaxChoice(box) - 1)
        /\ box.shown[MaxChoice(box) - 1] < box.n
    BY <1>1, <1>2, <2>1 DEF ListShown
  <2>. QED  BY <1>1, <1>2, <2>1, <2>2 DEF ListShown
<1>. DEFINE l == Lit(box)
<1>4. /\ l \in MenuBox /\ Lines(l) /\ Scrolls(l, l, 0) /\ l.choice = box.choice
  BY <1>1, LitSound, Unscrolled
<1>5. \A by \in Int : DoScroll(l, by) \in MenuBox /\ Scrolls(l, DoScroll(l, by), by)
  BY <1>4, ScrollSound DEF Scrolls
<1>. HIDE DEF l
<1>. DEFINE Inside(by, choice) ==
              ~box.resized /\ box.n > 0 => /\ choice \in 0 .. MaxChoice(box) - 1
                                         /\ box.scroll + by + MaxChoice(box) <= box.n
<1>6. \A by, choice \in Int, d \in MenuBox :
        Scrolls(l, d, by) /\ Inside(by, choice) => MenuSound(Lit([d EXCEPT !.choice = choice]))
  BY <1>1, MovedSound DEF l
<1>. HIDE DEF Inside
<1>7. CASE MenuUp
  <2>1. CASE box.choice < 2 /\ box.scroll > 0
    <3>. DEFINE d == DoScroll(l, -1)
    <3>1. box' = Lit(d)
      BY <1>7, <2>1 DEF MenuUp, MenuKey, l
    <3>2. d \in MenuBox /\ Scrolls(l, d, -1)
      BY <1>5
    <3>3. [d EXCEPT !.choice = box.choice] = d
      BY <1>4, <3>2 DEF Scrolls, MenuBox
    <3>. HIDE DEF d
    <3>4. Inside(-1, box.choice)
      BY <1>2, <1>3 DEF Inside
    <3>5. MenuSound(Lit([d EXCEPT !.choice = box.choice]))
      BY <1>2, <1>6, <3>2, <3>4
    <3>. QED  BY <3>1, <3>3, <3>5
  <2>2. CASE ~(box.choice < 2 /\ box.scroll > 0)
    <3>. DEFINE to == Most(box.choice - 1, 0)
    <3>1. box' = Lit([l EXCEPT !.choice = to])
      BY <1>7, <2>2, <1>4 DEF MenuUp, MenuKey, l
    <3>2. to \in Int /\ (box.choice \in 0 .. MaxChoice(box) - 1 => to \in 0 .. MaxChoice(box) - 1)
      BY <1>2 DEF Most
    <3>. HIDE DEF to
    <3>3. Inside(0, to)
      BY <1>2, <1>3, <3>2 DEF Inside
    <3>4. MenuSound(Lit([l EXCEPT !.choice = to]))
      BY <1>4, <1>6, <3>2, <3>3
    <3>. QED  BY <3>1, <3>4
  <2>. QED  BY <2>1, <2>2
<1>8. CASE MenuDown
  <2>1. CASE box.choice > MaxChoice(box) - 3 /\ box.scroll + MaxChoice(box) < box.n
    <3>. DEFINE d == DoScroll(l, 1)
    <3>1. box' = Lit(d)
      BY <1>8, <2>1 DEF MenuDown, MenuKey, l
    <3>2. d \in MenuBox /\ Scrolls(l, d, 1)
      BY <1>5
    <3>3. [d EXCEPT !.choice = box.choice] = d
      BY <1>4, <3>2 DEF Scrolls, MenuBox
    <3>. HIDE DEF d
    <3>4. Inside(1, box.choice)
      BY <1>2, <1>3, <2>1 DEF Inside
    <3>5. MenuSound(Lit([d EXCEPT !.choice = box.choice]))
      BY <1>2, <1>6, <3>2, <3>4
    <3>. QED  BY <3>1, <3>3, <3>5
  <2>2. CASE ~(box.choice > MaxChoice(box) - 3 /\ box.scroll + MaxChoice(box) < box.n)
    <3>. DEFINE to == Least(box.choice + 1, MaxChoice(box) - 1)
    <3>1. box' = Lit([l EXCEPT !.choice = to])
      BY <1>8, <2>2, <1>4 DEF MenuDown, MenuKey, l
    <3>2. to \in Int /\ (box.choice \in 0 .. MaxChoice(box) - 1 => to \in 0 .. MaxChoice(box) - 1)
      BY <1>2 DEF Least
    <3>. HIDE DEF to
    <3>3. Inside(0, to)
      BY <1>2, <1>3, <3>2 DEF Inside
    <3>4. MenuSound(Lit([l EXCEPT !.choice = to]))
      BY <1>4, <1>6, <3>2, <3>3
    <3>. QED  BY <3>1, <3>4
  <2>. QED  BY <2>1, <2>2
<1>9. CASE MenuPageUp
  <2>. DEFINE by == Least(box.scroll, MaxChoice(box))
              d == DoScroll(l, -by)
              to == Most(box.choice - (MaxChoice(box) - by), 0)
  <2>1. by \in Int /\ by <= MaxChoice(box) /\ by <= box.scroll /\ (by < 0 => by = box.scroll)
    BY <1>2 DEF Least
  <2>. HIDE DEF by
  <2>2. d \in MenuBox /\ Scrolls(l, d, -by)
    BY <1>5, <2>1
  <2>3. box' = Lit([d EXCEPT !.choice = to])
    <3>1. d.choice = box.choice
      BY <1>4, <2>2 DEF Scrolls
    <3>2. box' = Lit([d EXCEPT !.choice = Most(@ - (MaxChoice(box) - by), 0)])
      BY <1>9 DEF MenuPageUp, MenuKey, l, by
    <3>. QED  BY <3>1, <3>2
  <2>4. to \in Int /\ (box.choice \in 0 .. MaxChoice(box) - 1 => to \in 0 .. MaxChoice(box) - 1)
    BY <1>2, <2>1 DEF Most
  <2>5. Inside(-by, to)
    BY <1>2, <1>3, <2>1, <2>4 DEF Inside
  <2>. HIDE DEF d, to
  <2>. QED  BY <1>6, <2>1, <2>2, <2>3, <2>4, <2>5
<1>10. CASE MenuPageDown
  <2>. DEFINE by == Least(box.n - (box.scroll + MaxChoice(box)), MaxChoice(box))
              d == DoScroll(l, by)
              to == Least(box.choice + (MaxChoice(box) - by), MaxChoice(box) - 1)
  <2>1. by \in Int /\ by <= MaxChoice(box) /\ by <= box.n - (box.scroll + MaxChoice(box))
    BY <1>2 DEF Least
  <2>. HIDE DEF by
  <2>2. d \in MenuBox /\ Scrolls(l, d, by)
    BY <1>5, <2>1
  <2>3. box' = Lit([d EXCEPT !.choice = to])
    <3>1. d.choice = box.choice
      BY <1>4, <2>2 DEF Scrolls
    <3>2. box' = Lit([d EXCEPT !.choice = Least(@ + (MaxChoice(box) - by), MaxChoice(box) - 1)])
      BY <1>10 DEF MenuPageDown, MenuKey, l, by
    <3>. QED  BY <3>1, <3>2
  <2>4. to \in Int /\ (box.choice \in 0 .. MaxChoice(box) - 1 => to \in 0 .. MaxChoice(box) - 1)
    BY <1>2, <2>1 DEF Least
  <2>. HIDE DEF d, to
  <2>5. Inside(by, to)
    BY <1>2, <1>3, <2>1, <2>4 DEF Inside
  <2>. QED  BY <1>6, <2>1, <2>2, <2>3, <2>4, <2>5
<1>11. ASSUME NEW i \in Places, MenuHotkey(i) PROVE box' = Crashed \/ MenuSound(box')
  <2>1. i \in 0 .. MaxChoice(box) - 1 /\ i \in Int /\ box' = Lit([l EXCEPT !.choice = i])
    BY <1>1, <1>2, <1>11 DEF MenuHotkey, MenuKey, Lines, l
  <2>2. Inside(0, i)
    BY <1>2, <1>3, <2>1 DEF Inside
  <2>3. MenuSound(Lit([l EXCEPT !.choice = i]))
    BY <1>4, <1>6, <2>1, <2>2
  <2>. QED  BY <2>1, <2>3
<1>12. ASSUME NEW n \in Lengths, NEW sel \in {-1} \cup Places, MenuSelect(n, sel)
       PROVE  box' = Crashed \/ MenuSound(box')
  <2>1. n \in Nat
    BY BoxAssumption
  <2>. QED  BY <1>2, <1>12, <2>1, MenuOpenSound DEF MenuSelect
<1>13. ASSUME NEW h \in Heights, MenuResize(h) PROVE box' = Crashed \/ MenuSound(box')
  <2>. DEFINE b == [box EXCEPT !.height = h, !.resized = TRUE]
  <2>1. h \in Nat \ {0}
    BY BoxAssumption
  <2>2. b \in MenuBox /\ b.resized
    BY <1>1, <2>1 DEF MenuBox
  <2>3. box' = MenuPlace(b)
    BY <1>13 DEF MenuResize
  <2>. HIDE DEF b
  <2>. QED  BY <2>2, <2>3, PlaceSound
<1>. QED
  BY <1>7, <1>8, <1>9, <1>10, <1>11, <1>12, <1>13 DEF MenuKeys

-----------------------------------------------------------------------------
(* A list of choices comes up with the choice on screen.                   *)
LEMMA CheckOpenSound ==
  ASSUME NEW n \in Nat, NEW choice \in 0 .. n - 1, NEW height \in Nat \ {0}
  PROVE  CheckSound(CheckOpen(n, choice, height))
<1>. DEFINE scroll == IF choice >= height THEN choice - height + 1 ELSE 0
            b == [kind |-> "check", n |-> n, height |-> height, scroll |-> scroll,
                  choice |-> choice - scroll, shown |-> <<>>]
            shown == [i \in 0 .. MaxChoice(b) - 1 |-> scroll + i]
            o == CheckOpen(n, choice, height)
<1>1. scroll \in Nat /\ choice - scroll \in Nat /\ choice - scroll < height /\ n \in Nat \ {0}
  OBVIOUS
<1>2. b.n = n /\ b.height = height
  OBVIOUS
<1>3. /\ MaxChoice(b) \in Nat /\ MaxChoice(b) <= n /\ MaxChoice(b) <= height
      /\ n < height => MaxChoice(b) = n
      /\ n >= height => MaxChoice(b) = height
  <2>. HIDE DEF b
  <2>. QED  BY <1>2, MaxChoiceFits
<1>4. scroll + MaxChoice(b) <= n /\ choice - scroll < MaxChoice(b)
  <2>. HIDE DEF b
  <2>. QED  BY <1>3
<1>5. o = [kind |-> "check", n |-> n, height |-> height, scroll |-> scroll,
           choice |-> choice - scroll, shown |-> shown]
  <2>1. o = [b EXCEPT !.shown = shown]
    BY DEF CheckOpen, Printed
  <2>. HIDE DEF o, shown, scroll
  <2>. QED  BY <2>1
<1>6. shown \in [0 .. MaxChoice(b) - 1 -> Int] /\ DOMAIN shown = 0 .. MaxChoice(b) - 1
  <2>. HIDE DEF b, scroll
  <2>. QED  BY <1>1
<1>7. \A i \in 0 .. MaxChoice(b) - 1 : shown[i] = scroll + i /\ shown[i] < n
  <2>. HIDE DEF b, scroll
  <2>. QED  BY <1>1, <1>3, <1>4
<1>8. shown \in Rows
  BY <1>3, <1>6 DEF Rows
<1>a. MaxChoice(b) = Least(height, n)
  BY DEF MaxChoice
<1>. HIDE DEF shown, scroll, b, o
<1>9. MaxChoice(o) = MaxChoice(b)
  BY <1>5, <1>a DEF MaxChoice
<1>10. o \in CheckBox
  BY <1>1, <1>5, <1>8 DEF CheckBox
<1>11. Lines(o)
  BY <1>5, <1>6, <1>9 DEF Lines
<1>12. ListShown(o)
  BY <1>1, <1>3, <1>4, <1>5, <1>6, <1>7 DEF ListShown
<1>13. o.scroll >= 0
  BY <1>1, <1>5
<1>. QED  BY <1>10, <1>11, <1>12, <1>13 DEF CheckSound, o

(* The keys of a list of choices.                                          *)
CheckKeys ==
  CheckUp \/ CheckDown \/ CheckHelp \/ CheckSelect \/ \E i \in Places : CheckHotkey(i)

(* They keep a list showing what is under the cursor.                      *)
LEMMA CheckKeysSound ==
  ASSUME Is("check") => CheckSound(box), CheckKeys
  PROVE  box' = Closed \/ CheckSound(box')
<1>1. /\ Is("check") /\ box \in CheckBox /\ Lines(box) /\ box.scroll >= 0 /\ ListShown(box)
  BY DEF CheckKeys, CheckUp, CheckDown, CheckHelp, CheckSelect, CheckHotkey, CheckSound
<1>2. /\ box.n \in Nat \ {0} /\ box.height \in Nat \ {0} /\ box.scroll \in Nat
      /\ MaxChoice(box) \in Nat \ {0} /\ MaxChoice(box) <= box.n
  BY <1>1, MaxChoiceFits DEF CheckBox
<1>3. box.choice \in 0 .. MaxChoice(box) - 1
  BY <1>1, <1>2 DEF ListShown, Lines
<1>4. box.scroll + MaxChoice(box) <= box.n
  <2>1. box.shown[MaxChoice(box) - 1] = box.scroll + (MaxChoice(box) - 1)
        /\ box.shown[MaxChoice(box) - 1] < box.n
    BY <1>1, <1>2 DEF ListShown, Lines
  <2>. QED  BY <1>2, <2>1
<1>5. ASSUME NEW choice \in 0 .. MaxChoice(box) - 1, CheckMove(choice)
      PROVE  CheckSound(box')
  <2>. DEFINE b == [box EXCEPT !.choice = choice]
  <2>1. Lit(box) = box
    BY <1>1, LitSound
  <2>2. /\ b \in CheckBox /\ b.n = box.n /\ b.height = box.height /\ b.scroll = box.scroll
        /\ b.shown = box.shown /\ b.choice = choice
    BY <1>1, <1>2 DEF CheckBox
  <2>3. box' = Lit(b)
    BY <1>5, <2>1 DEF CheckMove
  <2>. HIDE DEF b
  <2>4. MaxChoice(b) = MaxChoice(box)
    BY <2>2 DEF MaxChoice
  <2>5. Lines(b) /\ ListShown(b)
    BY <1>1, <2>2, <2>4 DEF Lines, ListShown
  <2>6. Lit(b) = b
    BY <2>2, <2>5, LitSound
  <2>. QED  BY <1>1, <2>2, <2>3, <2>5, <2>6 DEF CheckSound
<1>6. ASSUME NEW by \in {-1, 1}, box' = DoScroll(box, by), box.scroll + by >= 0,
             box.scroll + by + MaxChoice(box) <= box.n
      PROVE  CheckSound(box')
  <2>1. Scrolls(box, box', by)
    BY <1>1, <1>6, ScrollSound
  <2>2. /\ box' \in CheckBox /\ box'.n = box.n /\ box'.height = box.height /\ box'.choice = box.choice
        /\ box'.scroll = box.scroll + by /\ Lines(box')
        /\ \A i \in 0 .. MaxChoice(box) - 1 : box'.shown[i] = box'.scroll + i
    BY <1>1, <2>1 DEF Scrolls
  <2>3. MaxChoice(box') = MaxChoice(box)
    BY <2>2 DEF MaxChoice
  <2>a. DOMAIN box'.shown = 0 .. MaxChoice(box) - 1
    BY <2>2, <2>3 DEF Lines
  <2>b. \A i \in 0 .. MaxChoice(box) - 1 : box'.shown[i] < box'.n
    BY <1>2, <1>6, <2>2
  <2>4. ListShown(box')
    BY <1>3, <2>2, <2>a, <2>b DEF ListShown
  <2>. QED  BY <1>6, <2>2, <2>4 DEF CheckSound
<1>7. CASE CheckUp
  BY <1>2, <1>3, <1>4, <1>5, <1>6, <1>7 DEF CheckUp
<1>8. CASE CheckDown
  BY <1>2, <1>3, <1>4, <1>5, <1>6, <1>8 DEF CheckDown
<1>9. CASE CheckHelp
  <2>1. box.scroll + box.choice \in 0 .. box.n - 1
    BY <1>2, <1>3, <1>4
  <2>. QED  BY <1>2, <1>9, <2>1, CheckOpenSound DEF CheckHelp
<1>10. ASSUME NEW i \in Places, CheckHotkey(i) PROVE CheckSound(box')
  BY <1>1, <1>5, <1>10 DEF CheckHotkey, Lines
<1>. QED
  BY <1>7, <1>8, <1>9, <1>10 DEF CheckKeys, CheckSelect

-----------------------------------------------------------------------------
(* Texts that are edited.                                                  *)

(* A piece of a text is a text.                                            *)
LEMMA Cut ==
  ASSUME NEW L, NEW t \in Seq(L), NEW m \in 1 .. Len(t) + 1, NEW n \in 0 .. Len(t)
  PROVE  /\ SubSeq(t, m, n) \in Seq(L)
         /\ Len(SubSeq(t, m, n)) = IF m <= n THEN n - m + 1 ELSE 0
<1>1. Len(t) \in Nat
  BY LenProperties
<1>2. m \in Int /\ n \in Int
  BY <1>1
<1>3. ASSUME NEW i \in m .. n PROVE t[i] \in L
  <2>1. i \in 1 .. Len(t)
    BY <1>1, <1>3
  <2>. QED  BY <2>1, ElementOfSeq
<1>. QED  BY <1>2, <1>3, SubSeqProperties

(* A text without one of its letters is shorter by one.                    *)
LEMMA Removed ==
  ASSUME NEW L, NEW t \in Seq(L), NEW p \in 1 .. Len(t)
  PROVE  /\ SubSeq(t, 1, p - 1) \o SubSeq(t, p + 1, Len(t)) \in Seq(L)
         /\ Len(SubSeq(t, 1, p - 1) \o SubSeq(t, p + 1, Len(t))) = Len(t) - 1
<1>. DEFINE s1 == SubSeq(t, 1, p - 1)
            s2 == SubSeq(t, p + 1, Len(t))
<1>1. Len(t) \in Nat /\ p \in Nat /\ p >= 1 /\ p <= Len(t)
  BY LenProperties
<1>2. 1 \in 1 .. Len(t) + 1 /\ p - 1 \in 0 .. Len(t) /\ p + 1 \in 1 .. Len(t) + 1 /\ Len(t) \in 0 .. Len(t)
  BY <1>1
<1>3. s1 \in Seq(L) /\ Len(s1) = IF 1 <= p - 1 THEN (p - 1) - 1 + 1 ELSE 0
  BY <1>2, Cut
<1>4. s2 \in Seq(L) /\ Len(s2) = IF p + 1 <= Len(t) THEN Len(t) - (p + 1) + 1 ELSE 0
  BY <1>2, Cut
<1>. HIDE DEF s1, s2
<1>5. s1 \o s2 \in Seq(L) /\ Len(s1 \o s2) = Len(s1) + Len(s2)
  BY <1>3, <1>4, ConcatProperties
<1>6. Len(s1) = p - 1
  BY <1>1, <1>3
<1>7. Len(s2) = Len(t) - p
  BY <1>1, <1>4
<1>8. Len(s1) + Len(s2) = Len(t) - 1
  BY <1>1, <1>6, <1>7
<1>. QED  BY <1>5, <1>8 DEF s1, s2

(* A text with one more letter in it is longer by one.                     *)
LEMMA Inserted ==
  ASSUME NEW L, NEW t \in Seq(L), NEW p \in 0 .. Len(t), NEW c \in L
  PROVE  /\ SubSeq(t, 1, p) \o <<c>> \o SubSeq(t, p + 1, Len(t)) \in Seq(L)
         /\ Len(SubSeq(t, 1, p) \o <<c>> \o SubSeq(t, p + 1, Len(t))) = Len(t) + 1
<1>. DEFINE s1 == SubSeq(t, 1, p)
            s2 == SubSeq(t, p + 1, Len(t))
            s3 == <<c>>
<1>1. Len(t) \in Nat /\ p \in Nat /\ p <= Len(t)
  BY LenProperties
<1>2. 1 \in 1 .. Len(t) + 1 /\ p \in 0 .. Len(t) /\ p + 1 \in 1 .. Len(t) + 1 /\ Len(t) \in 0 .. Len(t)
  BY <1>1
<1>3. s1 \in Seq(L) /\ Len(s1) = IF 1 <= p THEN p - 1 + 1 ELSE 0
  BY <1>2, Cut
<1>4. s2 \in Seq(L) /\ Len(s2) = IF p + 1 <= Len(t) THEN Len(t) - (p + 1) + 1 ELSE 0
  BY <1>2, Cut
<1>5. s3 \in Seq(L) /\ Len(s3) = 1
  OBVIOUS
<1>. HIDE DEF s1, s2, s3
<1>6. s1 \o s3 \in Seq(L) /\ Len(s1 \o s3) = Len(s1) + Len(s3)
  BY <1>3, <1>5, ConcatProperties
<1>. DEFINE s4 == s1 \o s3
<1>. HIDE DEF s4
<1>7. s4 \o s2 \in Seq(L) /\ Len(s4 \o s2) = Len(s4) + Len(s2)
  <2>1. s4 \in Seq(L)
    BY <1>6 DEF s4
  <2>. QED  BY <2>1, <1>4, ConcatProperties
<1>8. Len(s1) = p
  BY <1>1, <1>3
<1>9. Len(s2) = Len(t) - p
  BY <1>1, <1>4
<1>10. Len(s4) + Len(s2) = Len(t) + 1
  BY <1>1, <1>5, <1>6, <1>8, <1>9 DEF s4
<1>. QED  BY <1>7, <1>10 DEF s1, s2, s3, s4

(* The texts a box is opened with are texts.                               *)
LEMMA Typed == ASSUME NEW t \in TextsUpTo(MaxText) PROVE t \in Seq(Letters)
<1>1. PICK j \in 0 .. MaxText : t \in [1 .. j -> Letters]
  BY DEF TextsUpTo
<1>2. j \in Nat
  BY <1>1, BoxAssumption
<1>. QED  BY <1>1, <1>2, SeqDef

InputBox ==
  [kind : {"input"}, text : Seq(Letters), pos : Nat, input_x : 0 .. Width - 1, show_x : Nat,
   shown : [0 .. Width - 1 -> Letters \cup {Blank}], button : -1 .. 1]
InputSound(b) ==
  /\ b \in InputBox /\ b.pos = b.show_x + b.input_x /\ b.pos <= Len(b.text)
  /\ \A i \in 0 .. Width - 1 : b.shown[i] = Rest(b, i)

(* The numbers of an input box.                                            *)
LEMMA InputNumbers ==
  ASSUME NEW b \in InputBox
  PROVE  /\ Len(b.text) \in Nat /\ b.show_x \in Nat /\ b.pos \in Nat /\ Width \in Nat \ {0}
         /\ b.input_x \in 0 .. Width - 1 /\ DOMAIN b.shown = 0 .. Width - 1
<1>1. b.text \in Seq(Letters)
  BY DEF InputBox
<1>2. Len(b.text) \in Nat
  BY <1>1, LenProperties
<1>3. Width \in Nat \ {0}
  BY BoxAssumption
<1>. QED  BY <1>2, <1>3 DEF InputBox

(* After the text is printed the line shows it, if it was blank behind it. *)
LEMMA PrintSound ==
  ASSUME NEW b \in InputBox, b.pos = b.show_x + b.input_x, b.pos <= Len(b.text),
         \A i \in 0 .. Width - 1 : b.show_x + i > Len(b.text) => b.shown[i] = Blank
  PROVE  InputSound(PrintText(b))
<1>. DEFINE shown == [i \in 0 .. Width - 1 |->
                        IF b.show_x + i <= Len(b.text) THEN Rest(b, i) ELSE b.shown[i]]
            p == PrintText(b)
<1>1. DOMAIN b.shown = 0 .. Width - 1
  BY InputNumbers
<1>2. p = [b EXCEPT !.shown = shown]
  BY <1>1 DEF PrintText
<1>3. Len(b.text) \in Nat /\ b.show_x \in Nat /\ Width \in Nat \ {0}
  BY InputNumbers
<1>4. \A i \in 0 .. Width - 1 : Rest(b, i) \in Letters \cup {Blank}
  <2>1. ASSUME NEW i \in 0 .. Width - 1, b.show_x + i < Len(b.text)
        PROVE  b.text[b.show_x + i + 1] \in Letters
    <3>1. b.show_x + i + 1 \in 1 .. Len(b.text)
      BY <1>3, <2>1
    <3>2. b.text \in Seq(Letters)
      BY DEF InputBox
    <3>. QED  BY <3>1, <3>2, ElementOfSeq
  <2>. QED  BY <2>1 DEF Rest
<1>5. shown \in [0 .. Width - 1 -> Letters \cup {Blank}]
  <2>1. \A i \in 0 .. Width - 1 : b.shown[i] \in Letters \cup {Blank}
    BY DEF InputBox
  <2>. QED  BY <1>4, <2>1
<1>6. \A i \in 0 .. Width - 1 : shown[i] = Rest(b, i)
  <2>. TAKE i \in 0 .. Width - 1
  <2>1. b.show_x + i > Len(b.text) => Rest(b, i) = Blank /\ b.shown[i] = Blank
    BY <1>3 DEF Rest
  <2>2. b.show_x + i \in Int
    BY <1>3
  <2>3. shown[i] = IF b.show_x + i <= Len(b.text) THEN Rest(b, i) ELSE b.shown[i]
    OBVIOUS
  <2>. HIDE DEF shown
  <2>. QED  BY <1>3, <2>1, <2>2, <2>3
<1>. HIDE DEF shown, p
<1>7. /\ p \in InputBox /\ p.text = b.text /\ p.pos = b.pos /\ p.show_x = b.show_x
      /\ p.input_x = b.input_x /\ p.shown = shown
  BY <1>2, <1>5 DEF InputBox
<1>8. \A i \in 0 .. Width - 1 : Rest(p, i) = Rest(b, i)
  BY <1>7 DEF Rest
<1>9. \A i \in 0 .. Width - 1 : p.shown[i] = Rest(p, i)
  BY <1>6, <1>7, <1>8
<1>. QED  BY <1>7, <1>9 DEF InputSound, p

(* A line of text that is opened, or drawn again, shows the end of it.     *)
LEMMA InputOpenSound ==
  ASSUME NEW text \in Seq(Letters), NEW button \in -1 .. 1
  PROVE  InputSound(InputOpen(text, button))
<1>. DEFINE show_x == IF Len(text) >= Width THEN Len(text) - Width + 1 ELSE 0
            input_x == Len(text) - show_x
            shown == [i \in 0 .. Width - 1 |-> Blank]
            b == [kind |-> "input", text |-> text, pos |-> Len(text), input_x |-> input_x,
                  show_x |-> show_x, shown |-> shown, button |-> button]
<1>1. Len(text) \in Nat
  BY LenProperties
<1>2. Width \in Nat \ {0}
  BY BoxAssumption
<1>3. show_x \in Nat /\ input_x \in 0 .. Width - 1 /\ Len(text) = show_x + input_x
  BY <1>1, <1>2
<1>4. InputOpen(text, button) = PrintText(b)
  BY DEF InputOpen
<1>5. shown \in [0 .. Width - 1 -> Letters \cup {Blank}] /\ \A i \in 0 .. Width - 1 : shown[i] = Blank
  OBVIOUS
<1>. HIDE DEF show_x, input_x, shown
<1>6. b \in InputBox
  BY <1>1, <1>3, <1>5 DEF InputBox
<1>7. b.pos = b.show_x + b.input_x /\ b.pos <= Len(b.text)
  BY <1>1, <1>3
<1>8. \A i \in 0 .. Width - 1 : b.shown[i] = Blank
  BY <1>5
<1>. HIDE DEF b
<1>. QED  BY <1>4, <1>6, <1>7, <1>8, PrintSound

(* The keys of an input box.                                               *)
LEMMA InputKeysSound ==
  ASSUME Is("input") => InputSound(box), InputKeys
  PROVE  box' = Closed \/ InputSound(box')
<1>1. Is("input") /\ InputSound(box)
  BY DEF InputKeys, InputLeft, InputRight, InputBackspace, InputType, InputForward, InputBack,
         InputEnter, InputResize, InText
<1>2. box \in InputBox /\ box.pos = box.show_x + box.input_x /\ box.pos <= Len(box.text)
  BY <1>1 DEF InputSound
<1>3. /\ Len(box.text) \in Nat /\ box.show_x \in Nat /\ box.pos \in Nat /\ Width \in Nat \ {0}
      /\ box.input_x \in 0 .. Width - 1
  BY <1>2, InputNumbers
<1>4. \A i \in 0 .. Width - 1 : box.shown[i] = Rest(box, i)
  BY <1>1 DEF InputSound
<1>5. \A i \in 0 .. Width - 1 : box.show_x + i >= Len(box.text) => box.shown[i] = Blank
  <2>. TAKE i \in 0 .. Width - 1
  <2>1. box.show_x + i >= Len(box.text) => ~(box.show_x + i < Len(box.text))
    BY <1>3
  <2>. QED  BY <1>4, <2>1 DEF Rest
<1>. DEFINE left == StepLeft(box)
            right == StepRight(box)
<1>6. ASSUME box.pos > 0
      PROVE  /\ left \in InputBox /\ left.pos = box.pos - 1 /\ left.pos = left.show_x + left.input_x
             /\ left.show_x <= box.show_x /\ box.show_x <= left.show_x + 1
             /\ left.text = box.text /\ left.shown = box.shown
             /\ box.input_x # 0 => left.show_x = box.show_x
  <2>1. CASE box.input_x = 0
    <3>1. box.show_x - 1 \in Nat /\ box.pos - 1 \in Nat
      BY <1>2, <1>3, <1>6, <2>1
    <3>2. left = [box EXCEPT !.show_x = box.show_x - 1, !.pos = box.pos - 1]
      BY <2>1 DEF StepLeft
    <3>. HIDE DEF left
    <3>3. /\ left \in InputBox /\ left.pos = box.pos - 1 /\ left.show_x = box.show_x - 1
          /\ left.input_x = box.input_x /\ left.text = box.text /\ left.shown = box.shown
      BY <1>2, <3>1, <3>2 DEF InputBox
    <3>. QED  BY <1>2, <1>3, <2>1, <3>3
  <2>2. CASE box.input_x # 0
    <3>1. box.input_x - 1 \in 0 .. Width - 1 /\ box.pos - 1 \in Nat
      BY <1>2, <1>3, <1>6, <2>2
    <3>2. left = [box EXCEPT !.input_x = box.input_x - 1, !.pos = box.pos - 1]
      BY <2>2 DEF StepLeft
    <3>. HIDE DEF left
    <3>3. /\ left \in InputBox /\ left.pos = box.pos - 1 /\ left.show_x = box.show_x
          /\ left.input_x = box.input_x - 1 /\ left.text = box.text /\ left.shown = box.shown
      BY <1>2, <3>1, <3>2 DEF InputBox
    <3>. QED  BY <1>2, <1>3, <2>2, <3>3
  <2>. QED  BY <2>1, <2>2
<1>7. /\ right \in InputBox /\ right.pos = box.pos + 1 /\ right.pos = right.show_x + right.input_x
      /\ box.show_x <= right.show_x /\ right.show_x <= box.show_x + 1
      /\ right.text = box.text /\ right.shown = box.shown
      /\ box.input_x # Width - 1 => right.show_x = box.show_x
  <2>1. CASE box.input_x = Width - 1
    <3>1. box.show_x + 1 \in Nat /\ box.pos + 1 \in Nat
      BY <1>3
    <3>2. right = [box EXCEPT !.show_x = box.show_x + 1, !.pos = box.pos + 1]
      BY <2>1 DEF StepRight
    <3>. HIDE DEF right
    <3>3. /\ right \in InputBox /\ right.pos = box.pos + 1 /\ right.show_x = box.show_x + 1
          /\ right.input_x = box.input_x /\ right.text = box.text /\ right.shown = box.shown
      BY <1>2, <3>1, <3>2 DEF InputBox
    <3>. QED  BY <1>2, <1>3, <2>1, <3>3
  <2>2. CASE box.input_x # Width - 1
    <3>1. box.input_x + 1 \in 0 .. Width - 1 /\ box.pos + 1 \in Nat
      BY <1>3, <2>2
    <3>2. right = [box EXCEPT !.input_x = box.input_x + 1, !.pos = box.pos + 1]
      BY <2>2 DEF StepRight
    <3>. HIDE DEF right
    <3>3. /\ right \in InputBox /\ right.pos = box.pos + 1 /\ right.show_x = box.show_x
          /\ right.input_x = box.input_x + 1 /\ right.text = box.text /\ right.shown = box.shown
      BY <1>2, <3>1, <3>2 DEF InputBox
    <3>. QED  BY <1>2, <1>3, <2>2, <3>3
  <2>. QED  BY <2>1, <2>2
<1>. HIDE DEF left, right
\* A step with the text as it is.
<1>8. ASSUME NEW b \in {left, right}, b \in InputBox, b.pos = b.show_x + b.input_x,
             b.pos <= Len(box.text), b.text = box.text, b.shown = box.shown,
             b.show_x <= box.show_x + 1
      PROVE  InputSound(PrintText(b)) /\ (b.show_x = box.show_x => InputSound(b))
  <2>1. b.show_x \in Nat
    BY <1>8, InputNumbers
  <2>2. \A i \in 0 .. Width - 1 : b.show_x + i > Len(b.text) => b.shown[i] = Blank
    BY <1>3, <1>5, <1>8, <2>1
  <2>3. b.show_x = box.show_x => \A i \in 0 .. Width - 1 : b.shown[i] = Rest(b, i)
    BY <1>4, <1>8 DEF Rest
  <2>4. InputSound(PrintText(b))
    BY <1>8, <2>2, PrintSound
  <2>. QED  BY <1>8, <2>3, <2>4 DEF InputSound
<1>9. CASE InputLeft
  <2>1. box.pos > 0 /\ box' = IF box.input_x = 0 THEN PrintText(left) ELSE left
    BY <1>9 DEF InputLeft, left
  <2>2. left.pos <= Len(box.text) /\ left.show_x <= box.show_x + 1
    <3>1. left.show_x \in Nat
      BY <1>6, <2>1, InputNumbers
    <3>. QED  BY <1>2, <1>3, <1>6, <2>1, <3>1
  <2>. QED  BY <1>6, <1>8, <2>1, <2>2
<1>10. CASE InputRight
  <2>1. box.pos < Len(box.text) /\ box' = IF box.input_x = Width - 1 THEN PrintText(right) ELSE right
    BY <1>10 DEF InputRight, right
  <2>2. right.pos <= Len(box.text)
    BY <1>3, <1>7, <2>1
  <2>. QED  BY <1>7, <1>8, <2>1, <2>2
<1>11. CASE InputBackspace
  <2>. DEFINE text == SubSeq(box.text, 1, box.pos - 1) \o SubSeq(box.text, box.pos + 1, Len(box.text))
              b == [left EXCEPT !.text = text]
  <2>1. box.pos > 0 /\ box.pos \in 1 .. Len(box.text) /\ box.text \in Seq(Letters)
    BY <1>2, <1>3, <1>11 DEF InputBackspace, InputBox
  <2>2. text \in Seq(Letters) /\ Len(text) = Len(box.text) - 1
    BY <2>1, Removed
  <2>3. left.text = box.text
    BY <1>6, <2>1
  <2>4. box' = PrintText(b)
    BY <1>11, <2>3 DEF InputBackspace, left
  <2>. HIDE DEF text
  <2>5. /\ b \in InputBox /\ b.pos = left.pos /\ b.show_x = left.show_x /\ b.input_x = left.input_x
        /\ b.text = text /\ b.shown = left.shown
    BY <1>6, <2>1, <2>2 DEF InputBox
  <2>. HIDE DEF b
  <2>6. b.show_x \in Nat
    BY <2>5, InputNumbers
  <2>7. b.pos = b.show_x + b.input_x /\ b.pos <= Len(b.text)
    BY <1>2, <1>3, <1>6, <2>1, <2>2, <2>5
  <2>8. \A i \in 0 .. Width - 1 : b.show_x + i > Len(b.text) => b.shown[i] = Blank
    BY <1>3, <1>5, <1>6, <2>1, <2>2, <2>5, <2>6
  <2>. QED  BY <2>4, <2>5, <2>7, <2>8, PrintSound
<1>12. ASSUME NEW c \in Letters, InputType(c) PROVE InputSound(box')
  <2>. DEFINE text == SubSeq(box.text, 1, box.pos) \o <<c>> \o SubSeq(box.text, box.pos + 1, Len(box.text))
              b == [right EXCEPT !.text = text]
  <2>1. box.pos \in 0 .. Len(box.text) /\ box.text \in Seq(Letters)
    BY <1>2, <1>3 DEF InputBox
  <2>2. text \in Seq(Letters) /\ Len(text) = Len(box.text) + 1
    BY <2>1, Inserted
  <2>3. box' = PrintText(b)
    BY <1>7, <1>12 DEF InputType, right
  <2>. HIDE DEF text
  <2>4. /\ b \in InputBox /\ b.pos = right.pos /\ b.show_x = right.show_x /\ b.input_x = right.input_x
        /\ b.text = text /\ b.shown = right.shown
    BY <1>7, <2>2 DEF InputBox
  <2>. HIDE DEF b
  <2>5. b.show_x \in Nat
    BY <2>4, InputNumbers
  <2>6. b.pos = b.show_x + b.input_x /\ b.pos <= Len(b.text)
    BY <1>2, <1>3, <1>7, <2>2, <2>4
  <2>7. \A i \in 0 .. Width - 1 : b.show_x + i > Len(b.text) => b.shown[i] = Blank
    BY <1>3, <1>5, <1>7, <2>2, <2>4, <2>5
  <2>. QED  BY <2>3, <2>4, <2>6, <2>7, PrintSound
<1>13. ASSUME NEW to \in -1 .. 1, box' = [box EXCEPT !.button = to] PROVE InputSound(box')
  <2>1. /\ box' \in InputBox /\ box'.pos = box.pos /\ box'.show_x = box.show_x
        /\ box'.input_x = box.input_x /\ box'.text = box.text /\ box'.shown = box.shown
    BY <1>2, <1>13 DEF InputBox
  <2>2. \A i \in 0 .. Width - 1 : box'.shown[i] = Rest(box', i)
    BY <1>4, <2>1 DEF Rest
  <2>. QED  BY <1>2, <2>1, <2>2 DEF InputSound
<1>14. box.button \in -1 .. 1
  BY <1>2 DEF InputBox
<1>15. CASE InputForward
  <2>1. box' = [box EXCEPT !.button = IF box.button = 1 THEN -1 ELSE box.button + 1]
    BY <1>15 DEF InputForward
  <2>2. (IF box.button = 1 THEN -1 ELSE box.button + 1) \in -1 .. 1
    BY <1>14
  <2>. QED  BY <1>13, <2>1, <2>2
<1>16. CASE InputBack
  <2>1. box' = [box EXCEPT !.button = IF box.button = -1 THEN 1 ELSE box.button - 1]
    BY <1>16 DEF InputBack
  <2>2. (IF box.button = -1 THEN 1 ELSE box.button - 1) \in -1 .. 1
    BY <1>14
  <2>. QED  BY <1>13, <2>1, <2>2
<1>17. CASE InputResize
  <2>1. box.text \in Seq(Letters)
    BY <1>2 DEF InputBox
  <2>. QED  BY <1>14, <1>17, <2>1, InputOpenSound DEF InputResize
<1>. QED
  BY <1>9, <1>10, <1>11, <1>12, <1>15, <1>16, <1>17 DEF InputKeys, InputEnter

-----------------------------------------------------------------------------
(* The menus of nconf.                                                     *)

ItemsBox ==
  [kind : {"items"}, n : Nat \ {0}, height : Nat \ {0}, cur : Int, top : Int, last : Int,
   search : BOOLEAN, length : Int, matching : SUBSET Int, by : {-1, 1}, looking : BOOLEAN,
   start : Int, index : Int]
OnScreen(b) == b.cur \in 0 .. b.n - 1 /\ b.cur - b.top \in 0 .. b.height - 1
ItemsSound(b) == b \in ItemsBox /\ OnScreen(b)

(* A row that the library accepts as the top row has the cursor in it.     *)
LEMMA TopRowSound ==
  ASSUME NEW b, ItemsSound(b), NEW row \in Int
  PROVE  ItemsSound(SetTopRow(b, row)) /\ SetTopRow(b, row).n = b.n /\ SetTopRow(b, row).height = b.height
<1>1. b \in ItemsBox /\ b.n \in Nat \ {0} /\ b.height \in Nat \ {0} /\ OnScreen(b)
  BY DEF ItemsSound, ItemsBox
<1>2. CASE row \in 0 .. LastTop(b) /\ row # b.top
  <2>. DEFINE d == SetTopRow(b, row)
  <2>1. d = [b EXCEPT !.top = row, !.cur = row]
    BY <1>2 DEF SetTopRow
  <2>2. row \in 0 .. b.n - 1
    BY <1>1, <1>2 DEF LastTop, Most
  <2>. HIDE DEF d
  <2>3. d \in ItemsBox /\ d.cur = row /\ d.top = row /\ d.n = b.n /\ d.height = b.height
    BY <1>1, <2>1 DEF ItemsBox
  <2>. QED  BY <1>1, <2>2, <2>3 DEF ItemsSound, OnScreen, d
<1>3. CASE ~(row \in 0 .. LastTop(b) /\ row # b.top)
  BY <1>3 DEF SetTopRow
<1>. QED  BY <1>2, <1>3

(* The item that is made the current one is on screen.                     *)
LEMMA CurrentSound ==
  ASSUME NEW b, ItemsSound(b), NEW i \in Int
  PROVE  ItemsSound(SetCurrent(b, i))
<1>1. /\ b \in ItemsBox /\ b.n \in Nat \ {0} /\ b.height \in Nat \ {0} /\ b.top \in Int
  BY DEF ItemsSound, ItemsBox
<1>2. CASE i \in 0 .. b.n - 1
  <2>. DEFINE d == SetCurrent(b, i)
              top == IF i < b.top THEN i ELSE IF i >= b.top + b.height THEN i - b.height + 1 ELSE b.top
  <2>1. d = [b EXCEPT !.cur = i, !.top = top]
    BY <1>2 DEF SetCurrent
  <2>2. top \in Int /\ i - top \in 0 .. b.height - 1
    BY <1>1
  <2>. HIDE DEF d, top
  <2>3. d \in ItemsBox /\ d.cur = i /\ d.top = top /\ d.n = b.n /\ d.height = b.height
    BY <1>1, <2>1, <2>2 DEF ItemsBox
  <2>. QED  BY <1>2, <2>2, <2>3 DEF ItemsSound, OnScreen, d
<1>3. CASE i \notin 0 .. b.n - 1
  BY <1>3 DEF SetCurrent
<1>. QED  BY <1>2, <1>3

(* The item that is brought to the middle is on screen.                    *)
LEMMA CenterSound ==
  ASSUME NEW b, ItemsSound(b), NEW i \in Int
  PROVE  ItemsSound(CenterItem(b, i))
<1>. DEFINE there == SetTopRow(b, b.last)
            out == i < there.top \/ i >= there.top + b.height
            row == IF out THEN Middle(b, i) ELSE there.top
            c == IF out THEN SetTopRow(there, row) ELSE there
            s == SetCurrent(c, i)
            d == [s EXCEPT !.last = row]
<1>1. b.last \in Int /\ b.n \in Nat \ {0} /\ b.height \in Nat \ {0}
  BY DEF ItemsSound, ItemsBox
<1>2. ItemsSound(there)
  BY <1>1, TopRowSound
<1>3. there.top \in Int
  <2>. HIDE DEF there
  <2>. QED  BY <1>2 DEF ItemsSound, ItemsBox
<1>4. Middle(b, i) \in Int
  <2>1. b.height \div 2 \in Int
    BY <1>1
  <2>. QED  BY <1>1, <2>1 DEF Middle, Least, Most
<1>5. row \in Int
  <2>. HIDE DEF there, out
  <2>. QED  BY <1>3, <1>4
<1>. HIDE DEF row, there, out
<1>6. ItemsSound(c)
  BY <1>2, <1>5, TopRowSound
<1>. HIDE DEF c
<1>7. ItemsSound(s)
  BY <1>6, CurrentSound
<1>8. CenterItem(b, i) = d
  BY DEF CenterItem, d, s, c, row, out, there
<1>. HIDE DEF s
<1>9. /\ d \in ItemsBox /\ d.cur = s.cur /\ d.top = s.top /\ d.n = s.n /\ d.height = s.height
  BY <1>5, <1>7 DEF ItemsSound, ItemsBox
<1>. HIDE DEF d
<1>. QED  BY <1>7, <1>8, <1>9 DEF ItemsSound, OnScreen

(* A menu that is set up has its first item under the cursor.              *)
LEMMA ItemsOpenSound ==
  ASSUME NEW n \in Nat \ {0}, NEW height \in Nat \ {0}
  PROVE  ItemsSound(ItemsOpen(n, height))
<1>. DEFINE zero == 0
            one == 1
            none == {}
            a == [kind |-> "items", n |-> n, height |-> height, cur |-> zero, top |-> zero, last |-> zero,
                  search |-> FALSE, length |-> zero, matching |-> none, by |-> one, looking |-> FALSE,
                  start |-> zero, index |-> zero]
            b == [a EXCEPT !.top = zero, !.cur = zero]
<1>1. zero \in Int /\ zero = 0 /\ one \in {-1, 1} /\ none \in SUBSET Int
  OBVIOUS
<1>2. ItemsOpen(n, height) = CenterItem(b, zero)
  BY DEF ItemsOpen, ItemsShow
<1>. HIDE DEF zero, one, none
<1>3. a \in ItemsBox /\ a.n = n /\ a.height = height
  BY <1>1 DEF ItemsBox
<1>. HIDE DEF a
<1>4. b \in ItemsBox /\ b.cur = zero /\ b.top = zero /\ b.n = n /\ b.height = height
  BY <1>1, <1>3 DEF ItemsBox
<1>. HIDE DEF b
<1>5. ItemsSound(b)
  BY <1>1, <1>4 DEF ItemsSound, OnScreen
<1>. QED  BY <1>1, <1>2, <1>5, CenterSound

(* The keys of a menu of nconf, and the turns of its search.               *)
LEMMA ItemKeysSound ==
  ASSUME Is("items") => ItemsSound(box), ItemKeys \/ SearchTurn
  PROVE  ItemsSound(box')
<1>1. ItemsSound(box)
  BY DEF ItemKeys, SearchTurn, ItemsDown, ItemsUp, ItemsMove, SearchToggle, ItemsKey, SearchNext,
         SearchType, SearchBackspace, AtKey
<1>2. /\ box \in ItemsBox /\ OnScreen(box) /\ box.n \in Nat \ {0} /\ box.cur \in Int /\ box.top \in Int
      /\ box.by \in {-1, 1} /\ box.index \in Int /\ box.length \in Int
  BY <1>1 DEF ItemsSound, ItemsBox
\* A step that leaves the cursor where it is.
<1>3. ASSUME box' \in ItemsBox, box'.n = box.n, box'.height = box.height, box'.cur = box.cur,
             box'.top = box.top
      PROVE  ItemsSound(box')
  BY <1>2, <1>3 DEF ItemsSound, OnScreen
<1>4. ASSUME NEW i \in Int, ItemsMove(i) PROVE ItemsSound(box')
  BY <1>1, <1>4, CurrentSound DEF ItemsMove
<1>5. CASE ItemsDown
  <2>1. box.cur + 1 \in Int
    BY <1>2
  <2>. QED  BY <1>4, <1>5, <2>1 DEF ItemsDown
<1>6. CASE ItemsUp
  <2>1. box.cur - 1 \in Int
    BY <1>2
  <2>. QED  BY <1>4, <1>6, <2>1 DEF ItemsUp
<1>7. CASE SearchToggle
  <2>1. box.n - 1 \in Int /\ 0 .. box.n - 1 \subseteq Int
    BY <1>2
  <2>2. (IF box.search THEN {} ELSE 0 .. box.n - 1) \in SUBSET Int
    BY <2>1
  <2>3. box' = [box EXCEPT !.search = ~box.search, !.length = 0, !.by = 1,
                           !.matching = IF box.search THEN {} ELSE 0 .. box.n - 1]
    BY <1>7 DEF SearchToggle
  <2>. DEFINE zero == 0
              one == 1
              matching == IF box.search THEN {} ELSE 0 .. box.n - 1
  <2>4. zero \in Int /\ one \in {-1, 1} /\ matching \in SUBSET Int
    BY <2>2
  <2>5. box' = [box EXCEPT !.search = ~box.search, !.length = zero, !.by = one, !.matching = matching]
    BY <2>3
  <2>. HIDE DEF zero, one, matching
  <2>6. /\ box' \in ItemsBox /\ box'.n = box.n /\ box'.height = box.height
        /\ box'.cur = box.cur /\ box'.top = box.top
    BY <1>2, <2>4, <2>5 DEF ItemsBox
  <2>. QED  BY <1>3, <2>6
<1>8. ASSUME NEW n \in Items, ItemsKey(n) PROVE ItemsSound(box')
  <2>. DEFINE zero == 0
              none == {}
              a == [box EXCEPT !.n = n, !.last = box.top, !.search = FALSE, !.length = zero, !.matching = none]
              b == [a EXCEPT !.top = zero, !.cur = zero]
  <2>1. n \in Nat \ {0} /\ zero \in Int /\ zero = 0 /\ none \in SUBSET Int
    BY ItemsAssumption
  <2>3. box' = CenterItem(b, box.cur)
    BY <1>8 DEF ItemsKey, ItemsShow
  <2>. HIDE DEF zero, none
  <2>2. a \in ItemsBox /\ a.n = n /\ a.height = box.height
    BY <1>2, <2>1 DEF ItemsBox
  <2>. HIDE DEF a
  <2>4. b \in ItemsBox /\ b.cur = zero /\ b.top = zero /\ b.n = n /\ b.height = box.height
    BY <2>1, <2>2 DEF ItemsBox
  <2>. HIDE DEF b
  <2>5. box.height \in Nat \ {0}
    BY <1>2 DEF ItemsBox
  <2>6. ItemsSound(b)
    BY <2>1, <2>4, <2>5 DEF ItemsSound, OnScreen
  <2>. QED  BY <1>2, <2>3, <2>6, CenterSound
<1>9. ASSUME NEW from \in Int, NEW by \in {-1, 1}
      PROVE  LET g == GetNextMatch(from, by)
             IN  /\ g \in ItemsBox /\ g.n = box.n /\ g.height = box.height /\ g.cur = box.cur
                 /\ g.top = box.top
  <2>1. (from + box.n) % box.n \in Int
    BY <1>2
  <2>. DEFINE index == (from + box.n) % box.n
  <2>. HIDE DEF index
  <2>2. GetNextMatch(from, by) = [box EXCEPT !.looking = TRUE, !.by = by, !.start = from, !.index = index]
    BY DEF GetNextMatch, index
  <2>. QED  BY <1>2, <2>1, <2>2 DEF ItemsBox, index
<1>10. ASSUME NEW by \in {-1, 1}, SearchNext(by) PROVE ItemsSound(box')
  <2>1. box.cur + by \in Int
    BY <1>2
  <2>2. box' = GetNextMatch(box.cur + by, by)
    BY <1>10 DEF SearchNext
  <2>. QED  BY <1>3, <1>9, <2>1, <2>2
<1>11. ASSUME NEW matching \in SUBSET UNION {0 .. n - 1 : n \in Items} PROVE matching \in SUBSET Int
  <2>1. \A n \in Items : 0 .. n - 1 \subseteq Int
    BY ItemsAssumption
  <2>. QED  BY <2>1
<1>12. ASSUME NEW matching \in SUBSET Int, SearchType(matching) PROVE ItemsSound(box')
  <2>. DEFINE g == GetNextMatch(box.cur, box.by)
  <2>1. g \in ItemsBox /\ g.n = box.n /\ g.height = box.height /\ g.cur = box.cur /\ g.top = box.top
    BY <1>2, <1>9
  <2>2. box' = [g EXCEPT !.length = g.length + 1, !.matching = matching]
    BY <1>12 DEF SearchType
  <2>. HIDE DEF g
  <2>3. g.length + 1 \in Int
    BY <2>1 DEF ItemsBox
  <2>4. /\ box' \in ItemsBox /\ box'.n = box.n /\ box'.height = box.height
        /\ box'.cur = box.cur /\ box'.top = box.top
    BY <2>1, <2>2, <2>3 DEF ItemsBox
  <2>. QED  BY <1>3, <2>4
<1>13. ASSUME NEW matching \in SUBSET Int, SearchBackspace(matching) PROVE ItemsSound(box')
  <2>1. box' = [box EXCEPT !.length = Most(box.length - 1, 0), !.matching = matching]
    BY <1>13 DEF SearchBackspace
  <2>2. Most(box.length - 1, 0) \in Int
    BY <1>2 DEF Most
  <2>3. /\ box' \in ItemsBox /\ box'.n = box.n /\ box'.height = box.height
        /\ box'.cur = box.cur /\ box'.top = box.top
    BY <1>2, <2>1, <2>2 DEF ItemsBox
  <2>. QED  BY <1>3, <2>3
<1>14. CASE SearchTurn
  <2>1. CASE box' = Found(box.index)
    <3>. DEFINE c == CenterItem(box, box.index)
    <3>1. ItemsSound(c)
      BY <1>1, <1>2, CenterSound
    <3>. DEFINE zero == 0
    <3>2. box' = [c EXCEPT !.looking = FALSE, !.start = zero, !.index = zero] /\ zero \in Int
      BY <2>1 DEF Found
    <3>. HIDE DEF c, zero
    <3>3. /\ box' \in ItemsBox /\ box'.n = c.n /\ box'.height = c.height
          /\ box'.cur = c.cur /\ box'.top = c.top
      BY <3>1, <3>2 DEF ItemsSound, ItemsBox
    <3>. QED  BY <3>1, <3>3 DEF ItemsSound, OnScreen
  <2>2. CASE box' = NotFound
    <3>. DEFINE zero == 0
    <3>1. box' = [box EXCEPT !.looking = FALSE, !.start = zero, !.index = zero] /\ zero \in Int
      BY <2>2 DEF NotFound
    <3>. HIDE DEF zero
    <3>2. /\ box' \in ItemsBox /\ box'.n = box.n /\ box'.height = box.height
          /\ box'.cur = box.cur /\ box'.top = box.top
      BY <1>2, <3>1 DEF ItemsBox
    <3>. QED  BY <1>3, <3>2
  <2>3. CASE box' = [box EXCEPT !.index = NextIndex]
    <3>1. NextIndex \in Int
      BY <1>2 DEF NextIndex
    <3>2. /\ box' \in ItemsBox /\ box'.n = box.n /\ box'.height = box.height
          /\ box'.cur = box.cur /\ box'.top = box.top
      BY <1>2, <2>3, <3>1 DEF ItemsBox
    <3>. QED  BY <1>3, <3>2
  <2>. QED  BY <1>14, <2>1, <2>2, <2>3 DEF SearchTurn
<1>. QED
  BY <1>5, <1>6, <1>7, <1>8, <1>10, <1>11, <1>12, <1>13, <1>14 DEF ItemKeys

-----------------------------------------------------------------------------
(* The line of text of nconf.                                              *)

LineBox == [kind : {"line"}, text : Seq(Letters), pos : Nat, place : Int]
LineSound(b) == b \in LineBox /\ b.pos <= Len(b.text) /\ b.place \in 0 .. Least(b.pos, Width - 1)

(* A line that is opened has the cursor behind its text, or at the edge.   *)
LEMMA LineOpenSound == ASSUME NEW text \in Seq(Letters) PROVE LineSound(LineOpen(text))
<1>1. Len(text) \in Nat
  BY LenProperties
<1>2. Width \in Nat \ {0}
  BY BoxAssumption
<1>3. Least(Len(text), Width - 1) \in Nat
  BY <1>1, <1>2 DEF Least
<1>. QED  BY <1>1, <1>3 DEF LineOpen, LineSound, LineBox

(* The cursor stays behind the letters that stand before it.               *)
LEMMA LineKeysSound ==
  ASSUME Is("line") => LineSound(box), LineKeys
  PROVE  box' = Closed \/ LineSound(box')
<1>1. LineSound(box)
  BY DEF LineKeys, LineMove, LineHome, LineEnd, LineType, LineBackspace, LineDelete, LineEnter
<1>2. /\ box \in LineBox /\ box.text \in Seq(Letters) /\ box.pos \in Nat /\ box.place \in Int
      /\ box.pos <= Len(box.text)
  BY <1>1 DEF LineSound, LineBox
<1>3. Len(box.text) \in Nat
  BY <1>2, LenProperties
<1>4. Width \in Nat \ {0}
  BY BoxAssumption
<1>5. box.place >= 0 /\ box.place <= box.pos /\ box.place <= Width - 1
  BY <1>1, <1>2, <1>4 DEF LineSound, Least
\* The cursor moves by as much as the position, and is held in the window.
<1>6. ASSUME NEW text \in Seq(Letters), NEW by \in {-1, 0, 1}, box.pos + by \in 0 .. Len(text),
             box' = [box EXCEPT !.text = text, !.pos = box.pos + by, !.place = Held(box.place + by)]
      PROVE  LineSound(box')
  <2>1. Len(text) \in Nat
    BY LenProperties
  <2>2. box.pos + by \in Nat /\ Held(box.place + by) \in Int
        /\ Held(box.place + by) \in 0 .. Least(box.pos + by, Width - 1)
    BY <1>2, <1>4, <1>5, <1>6, <2>1 DEF Held, Least, Most
  <2>3. /\ box' \in LineBox /\ box'.text = text /\ box'.pos = box.pos + by
        /\ box'.place = Held(box.place + by)
    BY <1>2, <1>6, <2>2 DEF LineBox
  <2>. QED  BY <1>6, <2>1, <2>2, <2>3 DEF LineSound
<1>7. ASSUME NEW by \in {-1, 1}, LineMove(by) PROVE LineSound(box')
  <2>1. box' = [box EXCEPT !.text = box.text, !.pos = box.pos + by, !.place = Held(box.place + by)]
    BY <1>2, <1>7 DEF LineMove, LineBox
  <2>. QED  BY <1>2, <1>6, <1>7, <2>1 DEF LineMove
<1>8. CASE LineHome
  <2>. DEFINE zero == 0
  <2>1. /\ box' = [box EXCEPT !.pos = zero, !.place = zero]
        /\ zero \in Nat /\ zero \in Int /\ zero <= Len(box.text) /\ zero \in 0 .. Least(zero, Width - 1)
    BY <1>3, <1>4, <1>8 DEF LineHome, Least
  <2>. HIDE DEF zero
  <2>2. box' \in LineBox /\ box'.text = box.text /\ box'.pos = zero /\ box'.place = zero
    BY <1>2, <2>1 DEF LineBox
  <2>. QED  BY <2>1, <2>2 DEF LineSound
<1>9. CASE LineEnd
  BY <1>2, <1>9, LineOpenSound DEF LineEnd
<1>10. ASSUME NEW c \in Letters, LineType(c) PROVE LineSound(box')
  <2>. DEFINE text == SubSeq(box.text, 1, box.pos) \o <<c>> \o SubSeq(box.text, box.pos + 1, Len(box.text))
  <2>1. box.pos \in 0 .. Len(box.text)
    BY <1>2, <1>3
  <2>2. text \in Seq(Letters) /\ Len(text) = Len(box.text) + 1
    BY <1>2, <2>1, Inserted
  <2>3. box' = [box EXCEPT !.text = text, !.pos = box.pos + 1, !.place = Held(box.place + 1)]
    BY <1>2, <1>10 DEF LineType, LineBox
  <2>. HIDE DEF text
  <2>4. box.pos + 1 \in 0 .. Len(text)
    BY <1>2, <1>3, <2>2
  <2>. QED  BY <1>6, <2>2, <2>3, <2>4
<1>11. ASSUME NEW i \in 1 .. Len(box.text)
       PROVE  Without(i) \in Seq(Letters) /\ Len(Without(i)) = Len(box.text) - 1
  BY <1>2, Removed DEF Without
<1>12. CASE LineBackspace
  <2>1. box.pos \in 1 .. Len(box.text)
    BY <1>2, <1>3, <1>12 DEF LineBackspace
  <2>2. Without(box.pos) \in Seq(Letters) /\ Len(Without(box.pos)) = Len(box.text) - 1
    BY <1>11, <2>1
  <2>3. box' = [box EXCEPT !.text = Without(box.pos), !.pos = box.pos + (-1), !.place = Held(box.place + (-1))]
    <3>1. box.pos - 1 = box.pos + (-1) /\ box.place - 1 = box.place + (-1)
      BY <1>2
    <3>2. box' = [box EXCEPT !.text = Without(box.pos), !.pos = box.pos - 1, !.place = Held(box.place - 1)]
      BY <1>2, <1>12 DEF LineBackspace, LineBox
    <3>. QED  BY <3>1, <3>2
  <2>4. box.pos + (-1) \in 0 .. Len(Without(box.pos))
    BY <1>2, <1>3, <2>1, <2>2
  <2>. QED  BY <1>6, <2>2, <2>3, <2>4
<1>13. CASE LineDelete
  <2>1. box.pos + 1 \in 1 .. Len(box.text)
    BY <1>2, <1>3, <1>13 DEF LineDelete
  <2>2. Without(box.pos + 1) \in Seq(Letters) /\ Len(Without(box.pos + 1)) = Len(box.text) - 1
    BY <1>11, <2>1
  <2>3. box' = [box EXCEPT !.text = Without(box.pos + 1)]
    BY <1>13 DEF LineDelete
  <2>. DEFINE text == Without(box.pos + 1)
  <2>. HIDE DEF text
  <2>4. box' \in LineBox /\ box'.text = text /\ box'.pos = box.pos /\ box'.place = box.place
    BY <1>2, <2>2, <2>3 DEF LineBox, text
  <2>5. box.pos <= Len(text)
    BY <1>2, <1>3, <2>1, <2>2 DEF text
  <2>. QED  BY <1>1, <2>4, <2>5 DEF LineSound
<1>. QED
  BY <1>7, <1>8, <1>9, <1>10, <1>12, <1>13 DEF LineKeys, LineEnter

-----------------------------------------------------------------------------
(* The windows of nconf.                                                   *)

WindowBox == [kind : {"window"}, text : Seq({"c", "n"}), total : Nat \ {0}, y : Int, lines : Nat]
WindowSound(b) == b \in WindowBox /\ b.y \in 0 .. b.total - b.lines

(* A window that is opened is not higher than its text, whatever the       *)
(* height of the screen.                                                   *)
LEMMA WindowOpenSound ==
  ASSUME NEW text \in Seq({"c", "n"}), NEW screen \in Nat
  PROVE  WindowSound(WindowOpen(text, screen))
<1>. DEFINE total == 1 + Cardinality(LineEnds(text))
            lines == Most(Least(total + 4, screen - 2) - 4, 0)
            zero == 0
            b == WindowOpen(text, screen)
<1>1. Cardinality(LineEnds(text)) \in Nat
  <2>1. DOMAIN text = 1 .. Len(text) /\ Len(text) \in Nat
    BY LenProperties
  <2>2. IsFiniteSet(DOMAIN text)
    BY <2>1, FS_Interval
  <2>3. LineEnds(text) \in SUBSET DOMAIN text
    BY DEF LineEnds
  <2>. QED  BY <2>2, <2>3, FS_Subset, FS_CardinalityType
<1>2. total \in Nat \ {0}
  BY <1>1
<1>3. b = [kind |-> "window", text |-> text, total |-> total, y |-> zero, lines |-> lines]
  BY DEF WindowOpen
<1>. HIDE DEF total
<1>4. lines \in Nat /\ lines <= total /\ zero \in Int /\ zero = 0
  BY <1>2 DEF Most, Least
<1>. HIDE DEF lines, zero, b
<1>5. b \in WindowBox /\ b.y = zero /\ b.total = total /\ b.lines = lines
  BY <1>2, <1>3, <1>4 DEF WindowBox
<1>. QED  BY <1>2, <1>4, <1>5 DEF WindowSound, b

-----------------------------------------------------------------------------
(* Texts.  get_line and back_line undo each other, but for the ends of the *)
(* text: at its end a line is read that is not there, and at its beginning *)
(* there is no line to go back.  A box shows a page that print_page has    *)
(* printed from the start of some line; that is all its keys depend on.    *)

(* Where the lines of a text start, the empty one behind it included.      *)
Starts(t) == {1, Zero(t)} \cup {i + 1 : i \in LineEnds(t)}
TextBox ==
  [kind : {"text"}, text : Seq({"c", "n"}) \ {<<>>}, update : BOOLEAN, height : Nat \ {0}, page : Nat,
   begin : BOOLEAN, end : BOOLEAN, length : Nat, top : Nat, hscroll : Int]

(* The same box at another place of its text.                              *)
Elsewhere(b, d) == d = [b EXCEPT !.page = d.page, !.begin = d.begin, !.end = d.end]

(* A text at the start of a line: what print_page is called with.          *)
Ready(b) == b \in TextBox /\ b.page \in Starts(b.text)

(* Any set of numbers has a least one.                                     *)
LEMMA LeastExists ==
  ASSUME NEW S, S \subseteq Nat, S # {}
  PROVE  \E i \in S : \A j \in S : i <= j
<1>1. PICK i \in S : \A j \in S : ~(<<j, i>> \in OpToRel(<, Nat))
  BY NatLessThanWellFounded, WFMin
<1>2. \A j \in S : ~(j < i)
  BY <1>1 DEF OpToRel
<1>. QED  BY <1>2

(* A set of numbers below another has a greatest.                          *)
LEMMA MostExists ==
  ASSUME NEW n \in Nat, NEW S, S \subseteq 0 .. n, S # {}
  PROVE  \E i \in S : \A j \in S : j <= i
<1>. DEFINE D == {n - i : i \in S}
<1>1. D \subseteq Nat /\ D # {}
  <2>1. \A i \in S : i \in 0 .. n /\ n - i \in Nat
    OBVIOUS
  <2>2. PICK i \in S : TRUE
    OBVIOUS
  <2>. QED  BY <2>1, <2>2
<1>. HIDE DEF D
<1>2. PICK d \in D : \A k \in D : d <= k
  BY <1>1, LeastExists
<1>3. PICK i \in S : d = n - i
  BY DEF D
<1>4. ASSUME NEW j \in S PROVE j <= i
  <2>1. n - j \in D
    BY DEF D
  <2>2. n - i <= n - j
    BY <1>2, <1>3, <2>1
  <2>3. i \in Nat /\ j \in Nat
    OBVIOUS
  <2>. QED  BY <2>2, <2>3
<1>. QED  BY <1>4

(* What holds of 0, and of i + 1 when it holds of i, holds up to n.        *)
LEMMA CountUp ==
  ASSUME NEW S, NEW n \in Nat, 0 \in S, \A i \in 0 .. n - 1 : i \in S => i + 1 \in S
  PROVE  0 .. n \subseteq S
<1>. DEFINE D == (0 .. n) \ S
<1>1. SUFFICES ASSUME D # {} PROVE FALSE
  OBVIOUS
<1>2. D \subseteq Nat
  OBVIOUS
<1>3. PICK i \in D : \A j \in D : i <= j
  BY <1>1, <1>2, LeastExists
<1>4. i # 0 /\ i \in 0 .. n /\ i \notin S
  OBVIOUS
<1>5. i - 1 \in 0 .. n - 1
  BY <1>4
<1>6. i - 1 \notin D
  BY <1>3, <1>4
<1>7. i - 1 \in S
  BY <1>5, <1>6
<1>8. (i - 1) + 1 \in S
  BY <1>5, <1>7
<1>. QED  BY <1>4, <1>8

(* A step can be taken from a box as often as it is asked for.             *)
LEMMA Iterates ==
  ASSUME NEW step \in [TextBox -> TextBox], NEW b \in TextBox, NEW n \in Nat
  PROVE  \E f \in [0 .. n -> TextBox] : f[0] = b /\ \A j \in 1 .. n : f[j] = step[f[j - 1]]
<1>. DEFINE Good(k, f) == f[0] = b /\ \A j \in 1 .. k : f[j] = step[f[j - 1]]
            S == {k \in 0 .. n : \E f \in [0 .. k -> TextBox] : Good(k, f)}
<1>1. 0 \in S
  <2>. DEFINE f == [j \in 0 .. 0 |-> b]
  <2>1. f \in [0 .. 0 -> TextBox] /\ Good(0, f)
    OBVIOUS
  <2>2. 0 \in 0 .. n
    OBVIOUS
  <2>. HIDE DEF f, Good
  <2>. QED  BY <2>1, <2>2
<1>2. ASSUME NEW i \in 0 .. n - 1, i \in S PROVE i + 1 \in S
  <2>1. PICK f \in [0 .. i -> TextBox] : Good(i, f)
    BY <1>2
  <2>. DEFINE g == [j \in 0 .. i + 1 |-> IF j = i + 1 THEN step[f[i]] ELSE f[j]]
  <2>2. f[i] \in TextBox /\ step[f[i]] \in TextBox
    OBVIOUS
  <2>3. g \in [0 .. i + 1 -> TextBox]
    BY <2>2
  <2>4. g[0] = b
    BY <2>1
  <2>5. ASSUME NEW j \in 1 .. i + 1 PROVE g[j] = step[g[j - 1]]
    <3>1. CASE j = i + 1
      BY <3>1
    <3>2. CASE j # i + 1
      BY <2>1, <3>2
    <3>. QED  BY <3>1, <3>2
  <2>. HIDE DEF g
  <2>6. Good(i + 1, g)
    BY <2>4, <2>5
  <2>7. i + 1 \in 0 .. n
    OBVIOUS
  <2>. QED  BY <2>3, <2>6, <2>7
<1>. HIDE DEF S
<1>3. n \in S
  BY <1>1, <1>2, CountUp
<1>. QED  BY <1>3 DEF S

(* get_line comes to the start of the next line, or to the end of the text. *)
LEMMA NextLine ==
  ASSUME NEW b \in TextBox
  PROVE  /\ GetLine(b) \in TextBox /\ GetLine(b).page \in Starts(b.text)
         /\ Elsewhere(b, GetLine(b))
         /\ \/ /\ GetLine(b).end /\ GetLine(b).page = Zero(b.text)
               /\ \A i \in LineEnds(b.text) : i < b.page
            \/ /\ ~GetLine(b).end /\ GetLine(b).page > b.page
               /\ GetLine(b).page - 1 \in LineEnds(b.text)
               /\ \A i \in LineEnds(b.text) : i >= b.page => GetLine(b).page - 1 <= i
<1>. DEFINE ends == {i \in LineEnds(b.text) : i >= b.page}
            least == CHOOSE i \in ends : \A j \in ends : i <= j
            end == ends = {}
            page == IF ends = {} THEN Zero(b.text) ELSE 1 + least
<1>1. b.page \in Nat /\ LineEnds(b.text) \subseteq Nat /\ Zero(b.text) \in Nat
  BY DEF TextBox, LineEnds, Zero
<1>2. GetLine(b) = [b EXCEPT !.end = end, !.page = page]
  BY DEF GetLine
<1>3. ends # {} => least \in ends /\ \A j \in ends : least <= j
  <2>1. ends \subseteq Nat
    BY <1>1
  <2>. HIDE DEF ends
  <2>. QED  BY <2>1, LeastExists
<1>4. \A i \in LineEnds(b.text) : i < b.page \/ i \in ends
  BY <1>1
<1>5. ends \subseteq LineEnds(b.text) /\ \A i \in ends : i >= b.page
  OBVIOUS
<1>. HIDE DEF ends, least
<1>6. CASE ends = {}
  <2>1. end = TRUE /\ page = Zero(b.text)
    BY <1>6
  <2>2. page \in Starts(b.text) /\ page \in Nat
    BY <1>1, <2>1 DEF Starts
  <2>. HIDE DEF end, page
  <2>3. /\ GetLine(b) \in TextBox /\ GetLine(b).page = page /\ GetLine(b).end = end
        /\ Elsewhere(b, GetLine(b))
    BY <1>2, <2>1, <2>2 DEF TextBox, Elsewhere
  <2>. QED  BY <1>4, <1>6, <2>1, <2>2, <2>3
<1>7. CASE ends # {}
  <2>1. end = FALSE /\ page = 1 + least /\ least \in LineEnds(b.text) /\ least \in Nat /\ least >= b.page
    BY <1>1, <1>3, <1>5, <1>7
  <2>2. page \in Starts(b.text) /\ page \in Nat /\ page - 1 = least /\ page > b.page
    BY <1>1, <2>1 DEF Starts
  <2>. HIDE DEF end, page
  <2>3. /\ GetLine(b) \in TextBox /\ GetLine(b).page = page /\ GetLine(b).end = end
        /\ Elsewhere(b, GetLine(b))
    BY <1>2, <2>1, <2>2 DEF TextBox, Elsewhere
  <2>4. \A i \in LineEnds(b.text) : i >= b.page => least <= i
    BY <1>1, <1>3, <1>4, <1>7
  <2>. QED  BY <2>1, <2>2, <2>3, <2>4
<1>. QED  BY <1>6, <1>7

(* get_line, line after line, is get_line again and again.                 *)
LEMMA ReadLines ==
  ASSUME NEW b \in TextBox, NEW n \in Nat
  PROVE  /\ GetLines(b, n) \in [0 .. n -> TextBox]
         /\ GetLines(b, n)[0] = b
         /\ \A j \in 1 .. n : GetLines(b, n)[j] = GetLine(GetLines(b, n)[j - 1])
<1>. DEFINE step == [x \in TextBox |-> GetLine(x)]
            G(f) == [j \in 0 .. n |-> IF j = 0 THEN b ELSE GetLine(f[j - 1])]
<1>1. step \in [TextBox -> TextBox]
  BY NextLine
<1>. HIDE DEF step
<1>2. PICK f \in [0 .. n -> TextBox] : f[0] = b /\ \A j \in 1 .. n : f[j] = step[f[j - 1]]
  BY <1>1, Iterates
<1>3. \A j \in 1 .. n : f[j] = GetLine(f[j - 1])
  <2>1. \A j \in 1 .. n : j - 1 \in 0 .. n
    OBVIOUS
  <2>2. \A x \in TextBox : step[x] = GetLine(x)
    BY DEF step
  <2>. QED  BY <1>2, <2>1, <2>2
<1>4. f = G(f)
  BY <1>2, <1>3
<1>5. GetLines(b, n) = CHOOSE g : g = G(g)
  BY DEF GetLines
<1>6. GetLines(b, n) = G(GetLines(b, n))
  <2>. HIDE DEF G
  <2>. QED  BY <1>4, <1>5
<1>. DEFINE g == GetLines(b, n)
<1>7. g[0] = b /\ \A j \in 1 .. n : g[j] = GetLine(g[j - 1])
  <2>. HIDE DEF g
  <2>1. g = G(g)
    BY <1>6 DEF g
  <2>2. \A j \in 0 .. n : g[j] = IF j = 0 THEN b ELSE GetLine(g[j - 1])
    BY <2>1
  <2>. QED  BY <2>2
<1>8. g \in [0 .. n -> TextBox]
  <2>. DEFINE S == {j \in 0 .. n : g[j] \in TextBox}
  <2>. HIDE DEF g
  <2>1. 0 \in S
    BY <1>7
  <2>2. ASSUME NEW j \in 0 .. n - 1, j \in S PROVE j + 1 \in S
    <3>1. j + 1 \in 1 .. n /\ (j + 1) - 1 = j /\ j + 1 \in 0 .. n
      OBVIOUS
    <3>2. g[j + 1] = GetLine(g[j]) /\ g[j] \in TextBox
      BY <1>7, <2>2, <3>1
    <3>3. GetLine(g[j]) \in TextBox
      BY <3>2, NextLine
    <3>. QED  BY <3>1, <3>2, <3>3
  <2>. HIDE DEF S
  <2>3. 0 .. n \subseteq S
    BY <2>1, <2>2, CountUp
  <2>4. \A j \in 0 .. n : g[j] \in TextBox
    BY <2>3 DEF S
  <2>5. g = G(g)
    BY <1>6 DEF g
  <2>. QED  BY <2>4, <2>5
<1>. QED  BY <1>7, <1>8

(* Reading on keeps the text, and comes to starts of lines; where there is *)
(* no more line it comes to the end and stays there.                       *)
LEMMA LinesKept ==
  ASSUME NEW b, Ready(b), NEW n \in Nat
  PROVE  /\ \A j \in 0 .. n : /\ Ready(GetLines(b, n)[j])
                              /\ Elsewhere(b, GetLines(b, n)[j])
         /\ \A j \in 1 .. n : /\ GetLines(b, n)[j].page > 1
                              /\ GetLines(b, n)[j].end => GetLines(b, n)[j].page = Zero(b.text)
         /\ \A i \in 1 .. n, j \in 1 .. n : i <= j /\ GetLines(b, n)[i].end => GetLines(b, n)[j].end
<1>. DEFINE g == GetLines(b, n)
            Same(x) == Elsewhere(b, x)
            S == {j \in 0 .. n : Ready(g[j]) /\ Same(g[j])}
<1>1. /\ g \in [0 .. n -> TextBox] /\ g[0] = b
      /\ \A j \in 1 .. n : g[j] = GetLine(g[j - 1])
  BY ReadLines DEF Ready
<1>. HIDE DEF g
<1>2. Same(b)
  BY DEF Ready, TextBox, Elsewhere
<1>3. ASSUME NEW j \in 0 .. n - 1, j \in S PROVE j + 1 \in S
  <2>0. j + 1 \in 1 .. n /\ (j + 1) - 1 = j /\ j \in 0 .. n
    OBVIOUS
  <2>1. g[j + 1] = GetLine(g[j]) /\ g[j] \in TextBox /\ Same(g[j])
    BY <1>1, <1>3, <2>0
  <2>. DEFINE x == g[j]
              y == g[j + 1]
  <2>2. y \in TextBox /\ y.page \in Starts(x.text) /\ Elsewhere(x, y)
    BY <2>1, NextLine
  <2>. HIDE DEF x, y
  <2>3. Same(x) /\ x \in TextBox
    BY <2>1 DEF x
  <2>4. y.text = x.text
    BY <2>2, <2>3 DEF TextBox, Elsewhere
  <2>5. Same(y)
    BY <2>2, <2>3 DEF Ready, TextBox, Elsewhere
  <2>6. Ready(y)
    BY <2>2, <2>4 DEF Ready
  <2>7. j + 1 \in 0 .. n
    OBVIOUS
  <2>. QED  BY <2>5, <2>6, <2>7 DEF y
<1>4. 0 \in S
  <2>1. 0 \in 0 .. n /\ Ready(g[0]) /\ Same(g[0])
    BY <1>1, <1>2
  <2>. HIDE DEF Same
  <2>. QED  BY <2>1
<1>. HIDE DEF S
<1>5. 0 .. n \subseteq S
  BY <1>3, <1>4, CountUp
<1>6. \A j \in 0 .. n : Ready(g[j]) /\ Same(g[j])
  BY <1>5 DEF S
<1>7. \A j \in 0 .. n : g[j].text = b.text /\ g[j].page \in Nat /\ g[j].page \in Starts(b.text)
  BY <1>6 DEF Ready, TextBox, Elsewhere
<1>8. Zero(b.text) > 1 /\ Zero(b.text) \in Nat /\ \A i \in LineEnds(b.text) : i \in 1 .. Zero(b.text) - 1
  <2>1. b.text \in Seq({"c", "n"}) /\ b.text # <<>>
    BY DEF Ready, TextBox
  <2>2. Len(b.text) \in Nat /\ Len(b.text) # 0 /\ DOMAIN b.text = 1 .. Len(b.text)
    BY <2>1, EmptySeq, LenProperties
  <2>. QED  BY <2>2 DEF Zero, LineEnds
<1>9. ASSUME NEW j \in 1 .. n
      PROVE  /\ g[j].page > 1
             /\ g[j].end => g[j].page = Zero(b.text) /\ \A i \in LineEnds(b.text) : i < g[j - 1].page
             /\ (\A i \in LineEnds(b.text) : i < g[j - 1].page) => g[j].end
  <2>1. j - 1 \in 0 .. n /\ j \in 0 .. n
    OBVIOUS
  <2>. DEFINE x == g[j - 1]
              y == g[j]
  <2>2. x \in TextBox /\ x.text = b.text /\ y = GetLine(x) /\ x.page \in Nat /\ y.page \in Nat
    BY <1>1, <1>7, <2>1
  <2>3. x.page >= 1
    BY <1>7, <1>8, <2>1 DEF Starts
  <2>. HIDE DEF x, y
  <2>4. \/ y.end /\ y.page = Zero(b.text) /\ \A i \in LineEnds(b.text) : i < x.page
        \/ ~y.end /\ y.page > x.page /\ y.page - 1 \in LineEnds(b.text)
           /\ \A i \in LineEnds(b.text) : i >= x.page => y.page - 1 <= i
    BY <2>2, NextLine
  <2>5. ~y.end => y.page - 1 >= x.page
    BY <2>2, <2>4
  <2>6. y.page > 1
    BY <1>8, <2>2, <2>3, <2>4
  <2>7. (\A i \in LineEnds(b.text) : i < x.page) => y.end
    BY <1>8, <2>2, <2>4, <2>5
  <2>. QED  BY <2>4, <2>6, <2>7 DEF x, y
<1>10. ASSUME NEW i \in 1 .. n, g[i].end
       PROVE  \A j \in 1 .. n : i <= j => g[j].end
  <2>. DEFINE D == {k \in 0 .. n - i : g[i + k].end}
  <2>1. 0 \in D
    BY <1>10
  <2>2. ASSUME NEW k \in 0 .. (n - i) - 1, k \in D PROVE k + 1 \in D
    <3>1. i + k \in 1 .. n /\ i + (k + 1) \in 1 .. n /\ (i + (k + 1)) - 1 = i + k
      OBVIOUS
    <3>2. g[i + k].page = Zero(b.text)
      BY <1>9, <2>2, <3>1
    <3>3. g[i + (k + 1)].end
      BY <1>8, <1>9, <3>1, <3>2
    <3>. QED  BY <3>1, <3>3
  <2>. HIDE DEF D
  <2>3. n - i \in Nat
    OBVIOUS
  <2>4. 0 .. n - i \subseteq D
    BY <2>1, <2>2, <2>3, CountUp
  <2>5. ASSUME NEW j \in 1 .. n, i <= j PROVE g[j].end
    <3>1. j - i \in 0 .. n - i /\ i + (j - i) = j
      BY <2>5
    <3>. QED  BY <2>4, <3>1 DEF D
  <2>. QED  BY <2>5
<1>. QED  BY <1>6, <1>9, <1>10 DEF g

(* back_lines, as far as it has come after each line.                      *)
ReadBack(b, n) ==
  LET back[j \in 0 .. n] == IF j = 0 THEN [b EXCEPT !.begin = FALSE]
                            ELSE IF back[j - 1].begin THEN back[j - 1] ELSE BackLine(back[j - 1])
  IN  back

(* back_line takes back the end, or goes to the start of the line before,  *)
(* or finds that there is none.                                            *)
LEMMA PrevLine ==
  ASSUME NEW b \in TextBox
  PROVE  /\ BackLine(b) \in TextBox
         /\ Ready(b) => BackLine(b).page \in Starts(b.text)
         /\ Elsewhere(b, BackLine(b))
         /\ \/ /\ b.page = Zero(b.text) /\ b.end
               /\ BackLine(b).page = b.page /\ ~BackLine(b).end /\ BackLine(b).begin = b.begin
            \/ /\ b.page # Zero(b.text) \/ ~b.end
               /\ b.page = 1 \/ \A i \in LineEnds(b.text) : i >= b.page - 1
               /\ BackLine(b).page = 1 /\ BackLine(b).end = b.end /\ BackLine(b).begin
            \/ /\ b.page # Zero(b.text) \/ ~b.end
               /\ BackLine(b).page - 1 \in LineEnds(b.text) /\ BackLine(b).page < b.page
               /\ \A i \in LineEnds(b.text) : i < b.page - 1 => i <= BackLine(b).page - 1
               /\ BackLine(b).end = b.end /\ BackLine(b).begin = b.begin
<1>. DEFINE ends == {i \in LineEnds(b.text) : i < b.page - 1}
            most == CHOOSE i \in ends : \A j \in ends : j <= i
            page == 1 + most
<1>1. /\ b.page \in Nat /\ LineEnds(b.text) \subseteq Nat /\ Zero(b.text) \in Nat
      /\ b.end \in BOOLEAN /\ b.begin \in BOOLEAN
  BY DEF TextBox, LineEnds, Zero
<1>3. ends # {} => most \in ends /\ \A j \in ends : j <= most
  <2>1. ends \subseteq 0 .. b.page
    BY <1>1
  <2>. HIDE DEF ends
  <2>. QED  BY <1>1, <2>1, MostExists
<1>4. \A i \in LineEnds(b.text) : i >= b.page - 1 \/ i \in ends
  BY <1>1
<1>5. ends \subseteq LineEnds(b.text) /\ \A i \in ends : i < b.page - 1
  OBVIOUS
<1>6. CASE b.page = Zero(b.text) /\ b.end
  <2>1. BackLine(b) = [b EXCEPT !.end = FALSE]
    BY <1>6 DEF BackLine
  <2>2. /\ BackLine(b) \in TextBox /\ BackLine(b).page = b.page /\ BackLine(b).end = FALSE
        /\ BackLine(b).begin = b.begin
        /\ Elsewhere(b, BackLine(b))
    BY <2>1 DEF TextBox, Elsewhere
  <2>. QED  BY <1>6, <2>2 DEF Ready
<1>7. CASE ~(b.page = Zero(b.text) /\ b.end) /\ (b.page = 1 \/ ends = {})
  <2>1. BackLine(b) = [b EXCEPT !.page = 1, !.begin = TRUE]
    BY <1>7 DEF BackLine
  <2>. DEFINE d == [b EXCEPT !.page = 1, !.begin = TRUE]
  <2>a. d \in TextBox /\ d.page = 1 /\ d.end = b.end /\ d.begin = TRUE
    BY DEF TextBox
  <2>b. Elsewhere(b, d)
    BY DEF TextBox, Elsewhere
  <2>c. BackLine(b) = d
    BY <2>1
  <2>. HIDE DEF d
  <2>2. /\ BackLine(b) \in TextBox /\ BackLine(b).page = 1 /\ BackLine(b).end = b.end
        /\ BackLine(b).begin = TRUE
        /\ Elsewhere(b, BackLine(b))
    BY <2>a, <2>b, <2>c
  <2>3. 1 \in Starts(b.text)
    BY DEF Starts
  <2>4. b.page = 1 \/ \A i \in LineEnds(b.text) : i >= b.page - 1
    <3>. HIDE DEF ends
    <3>. QED  BY <1>4, <1>7
  <2>. QED  BY <1>1, <1>7, <2>2, <2>3, <2>4
<1>8. CASE ~(b.page = Zero(b.text) /\ b.end) /\ ~(b.page = 1 \/ ends = {})
  <2>1. BackLine(b) = [b EXCEPT !.page = page]
    BY <1>8 DEF BackLine
  <2>. HIDE DEF ends, most
  <2>2. /\ most \in LineEnds(b.text) /\ most \in Nat /\ page - 1 = most /\ page \in Nat
        /\ page \in Starts(b.text) /\ page < b.page
    BY <1>1, <1>3, <1>5, <1>8 DEF Starts
  <2>3. \A i \in LineEnds(b.text) : i < b.page - 1 => i <= most
    BY <1>1, <1>3, <1>4, <1>8
  <2>. HIDE DEF page
  <2>4. /\ BackLine(b) \in TextBox /\ BackLine(b).page = page /\ BackLine(b).end = b.end
        /\ BackLine(b).begin = b.begin
        /\ Elsewhere(b, BackLine(b))
    BY <2>1, <2>2 DEF TextBox, Elsewhere
  <2>. QED  BY <1>8, <2>2, <2>3, <2>4
<1>. QED  BY <1>6, <1>7, <1>8

(* It comes to the start of a line.                                        *)
LEMMA BackReady == ASSUME NEW b, Ready(b) PROVE Ready(BackLine(b))
<1>. DEFINE d == BackLine(b)
<1>1. /\ d \in TextBox /\ d.page \in Starts(b.text)
      /\ Elsewhere(b, d)
  BY PrevLine DEF Ready
<1>. HIDE DEF d
<1>2. d.text = b.text
  BY <1>1 DEF Ready, TextBox, Elsewhere
<1>. QED  BY <1>1, <1>2 DEF Ready, d

(* back_lines goes back line by line until the text begins.                *)
LEMMA BackRead ==
  ASSUME NEW b \in TextBox, NEW n \in Nat
  PROVE  /\ ReadBack(b, n) \in [0 .. n -> TextBox]
         /\ ReadBack(b, n)[0] = [b EXCEPT !.begin = FALSE]
         /\ \A j \in 1 .. n : ReadBack(b, n)[j] =
              IF ReadBack(b, n)[j - 1].begin THEN ReadBack(b, n)[j - 1]
              ELSE BackLine(ReadBack(b, n)[j - 1])
<1>. DEFINE Step(x) == IF x.begin THEN x ELSE BackLine(x)
            step == [x \in TextBox |-> Step(x)]
            start == [b EXCEPT !.begin = FALSE]
            G(f) == [j \in 0 .. n |-> IF j = 0 THEN [b EXCEPT !.begin = FALSE]
                                      ELSE IF f[j - 1].begin THEN f[j - 1] ELSE BackLine(f[j - 1])]
            H(f) == [j \in 0 .. n |-> IF j = 0 THEN start ELSE Step(f[j - 1])]
<1>1. step \in [TextBox -> TextBox] /\ start \in TextBox
  <2>1. \A x \in TextBox : Step(x) \in TextBox
    BY PrevLine
  <2>2. start \in TextBox
    BY DEF TextBox
  <2>. HIDE DEF Step, start
  <2>. QED  BY <2>1, <2>2
<1>2. \A f : G(f) = H(f)
  OBVIOUS
<1>3. ReadBack(b, n) = CHOOSE g : g = G(g)
  BY DEF ReadBack
<1>. HIDE DEF step, start
<1>4. PICK f \in [0 .. n -> TextBox] : f[0] = start /\ \A j \in 1 .. n : f[j] = step[f[j - 1]]
  BY <1>1, Iterates
<1>5. \A j \in 1 .. n : f[j] = Step(f[j - 1])
  <2>1. \A j \in 1 .. n : j - 1 \in 0 .. n
    OBVIOUS
  <2>2. \A x \in TextBox : step[x] = Step(x)
    BY DEF step
  <2>. QED  BY <1>4, <2>1, <2>2
<1>. HIDE DEF Step
<1>6. f = H(f)
  BY <1>4, <1>5
<1>7. ReadBack(b, n) = G(ReadBack(b, n))
  <2>. HIDE DEF G, H
  <2>. QED  BY <1>2, <1>3, <1>6
<1>. DEFINE g == ReadBack(b, n)
<1>8. g[0] = start /\ \A j \in 1 .. n : g[j] = Step(g[j - 1])
  <2>1. g = H(g)
    <3>. HIDE DEF G, H
    <3>. QED  BY <1>2, <1>7
  <2>. HIDE DEF g
  <2>2. \A j \in 0 .. n : g[j] = IF j = 0 THEN start ELSE Step(g[j - 1])
    BY <2>1
  <2>. QED  BY <2>2
<1>9. g \in [0 .. n -> TextBox]
  <2>. DEFINE S == {j \in 0 .. n : g[j] \in TextBox}
  <2>0. g = H(g)
    <3>. HIDE DEF G, H
    <3>. QED  BY <1>2, <1>7
  <2>. HIDE DEF g
  <2>1. 0 \in S
    BY <1>1, <1>8
  <2>2. ASSUME NEW j \in 0 .. n - 1, j \in S PROVE j + 1 \in S
    <3>1. j + 1 \in 1 .. n /\ (j + 1) - 1 = j /\ j + 1 \in 0 .. n
      OBVIOUS
    <3>2. g[j + 1] = Step(g[j]) /\ g[j] \in TextBox
      BY <1>8, <2>2, <3>1
    <3>3. Step(g[j]) \in TextBox
      BY <3>2, PrevLine DEF Step
    <3>. QED  BY <3>1, <3>2, <3>3
  <2>. HIDE DEF S
  <2>3. 0 .. n \subseteq S
    BY <2>1, <2>2, CountUp
  <2>4. \A j \in 0 .. n : g[j] \in TextBox
    BY <2>3 DEF S
  <2>. QED  BY <2>0, <2>4
<1>. QED  BY <1>8, <1>9 DEF Step, start

(* Going back changes nothing but the place in the text.                   *)
LEMMA BackKept ==
  ASSUME NEW b, Ready(b), NEW n \in Nat
  PROVE  /\ \A j \in 0 .. n : /\ Ready(ReadBack(b, n)[j])
                              /\ Elsewhere(b, ReadBack(b, n)[j])
                              /\ ReadBack(b, n)[j].begin => ReadBack(b, n)[j].page = 1
         /\ BackLines(b, n) = ReadBack(b, n)[n]
         /\ Ready(BackLines(b, n))
<1>. DEFINE g == ReadBack(b, n)
            Same(x) == Elsewhere(b, x)
            Good(x) == Ready(x) /\ Same(x) /\ (x.begin => x.page = 1)
            S == {j \in 0 .. n : Good(g[j])}
<1>1. /\ g \in [0 .. n -> TextBox] /\ g[0] = [b EXCEPT !.begin = FALSE]
      /\ \A j \in 1 .. n : g[j] = IF g[j - 1].begin THEN g[j - 1] ELSE BackLine(g[j - 1])
  BY BackRead DEF Ready
<1>. HIDE DEF g
<1>2. Good(g[0])
  BY <1>1 DEF Ready, TextBox, Elsewhere
<1>3. ASSUME NEW x, Good(x), ~x.begin PROVE Good(BackLine(x))
  <2>. DEFINE y == BackLine(x)
  <2>1. /\ y \in TextBox /\ y.page \in Starts(x.text)
        /\ Elsewhere(x, y)
        /\ y.begin => y.page = 1
    BY <1>3, PrevLine DEF Ready
  <2>. HIDE DEF y
  <2>2. Same(x) /\ x \in TextBox
    BY <1>3 DEF Ready
  <2>3. y.text = x.text
    BY <2>1, <2>2 DEF TextBox, Elsewhere
  <2>4. Same(y)
    BY <2>1, <2>2 DEF Ready, TextBox, Elsewhere
  <2>. QED  BY <2>1, <2>3, <2>4 DEF y, Ready
<1>. HIDE DEF Good
<1>4. ASSUME NEW j \in 0 .. n - 1, j \in S PROVE j + 1 \in S
  <2>1. j + 1 \in 1 .. n /\ (j + 1) - 1 = j /\ j + 1 \in 0 .. n
    OBVIOUS
  <2>2. g[j + 1] = (IF g[j].begin THEN g[j] ELSE BackLine(g[j])) /\ Good(g[j])
    BY <1>1, <1>4, <2>1
  <2>. QED  BY <1>3, <2>1, <2>2
<1>5. 0 \in S
  BY <1>2
<1>. HIDE DEF S
<1>6. 0 .. n \subseteq S
  BY <1>4, <1>5, CountUp
<1>7. \A j \in 0 .. n : Good(g[j])
  BY <1>6 DEF S
<1>8. Good(g[n])
  BY <1>7
<1>9. BackLines(b, n) = AtPlace(b, g[n])
  BY DEF BackLines, ReadBack, g
<1>10. AtPlace(b, g[n]) = g[n]
  BY <1>8 DEF Good, AtPlace, Ready, TextBox, Elsewhere
<1>. QED  BY <1>7, <1>8, <1>9, <1>10 DEF Good, g

(* What is known of the text of a box, and of where it has been read to.   *)
LEMMA TextPlaces ==
  ASSUME NEW b, Ready(b)
  PROVE  /\ Zero(b.text) \in Nat /\ Zero(b.text) > 1
         /\ \A i \in LineEnds(b.text) : i \in 1 .. Zero(b.text) - 1
         /\ b.page \in 1 .. Zero(b.text)
         /\ b.page = 1 \/ b.page = Zero(b.text) \/ b.page - 1 \in LineEnds(b.text)
         /\ b.end \in BOOLEAN /\ b.begin \in BOOLEAN
         /\ EndsLine(b.text) => Zero(b.text) - 1 \in LineEnds(b.text)
<1>1. b.text \in Seq({"c", "n"}) /\ b.text # <<>> /\ b.page \in Starts(b.text)
  BY DEF Ready, TextBox
<1>2. Len(b.text) \in Nat /\ Len(b.text) # 0 /\ DOMAIN b.text = 1 .. Len(b.text)
  BY <1>1, EmptySeq, LenProperties
<1>3. /\ Zero(b.text) \in Nat /\ Zero(b.text) > 1 /\ Zero(b.text) - 1 = Len(b.text)
      /\ \A i \in LineEnds(b.text) : i \in 1 .. Zero(b.text) - 1
  BY <1>2 DEF Zero, LineEnds
<1>4. EndsLine(b.text) => Zero(b.text) - 1 \in LineEnds(b.text)
  BY <1>2, <1>3 DEF EndsLine, LineEnds
<1>5. /\ b.page \in 1 .. Zero(b.text)
      /\ b.page = 1 \/ b.page = Zero(b.text) \/ b.page - 1 \in LineEnds(b.text)
  <2>1. CASE b.page \in {1, Zero(b.text)}
    BY <1>3, <2>1
  <2>2. CASE b.page \in {i + 1 : i \in LineEnds(b.text)}
    <3>1. PICK i \in LineEnds(b.text) : b.page = i + 1
      BY <2>2
    <3>2. i \in 1 .. Zero(b.text) - 1
      BY <1>3
    <3>. QED  BY <1>3, <3>1, <3>2
  <2>. QED  BY <1>1, <2>1, <2>2 DEF Starts
<1>. QED  BY <1>3, <1>4, <1>5 DEF Ready, TextBox

(* A line forward and a line back, from anywhere but the end.              *)
LEMMA BackOver ==
  ASSUME NEW b, Ready(b), EndsLine(b.text), ~b.end \/ b.page # Zero(b.text),
         NEW r, Ready(r), r.text = b.text, r.page = GetLine(b).page, r.end = GetLine(b).end
  PROVE  BackLine(r).page = b.page /\ ~BackLine(r).end
<1>. DEFINE d == BackLine(r)
            g == GetLine(b)
            ends == LineEnds(b.text)
            zero == Zero(b.text)
<1>1. /\ zero \in Nat /\ zero > 1 /\ \A i \in ends : i \in 1 .. zero - 1
      /\ b.page \in 1 .. zero /\ (b.page = 1 \/ b.page = zero \/ b.page - 1 \in ends)
      /\ zero - 1 \in ends
  BY TextPlaces
<1>2. \/ g.end /\ g.page = zero /\ \A i \in ends : i < b.page
      \/ ~g.end /\ g.page > b.page /\ g.page - 1 \in ends /\ \A i \in ends : i >= b.page => g.page - 1 <= i
  BY NextLine DEF Ready
<1>3. Ready(d)
  BY BackReady
<1>4. \/ r.page = zero /\ r.end /\ d.page = r.page /\ ~d.end
      \/ /\ r.page # zero \/ ~r.end
         /\ r.page = 1 \/ \A i \in ends : i >= r.page - 1
         /\ d.page = 1 /\ d.end = r.end
      \/ /\ r.page # zero \/ ~r.end
         /\ d.page - 1 \in ends /\ d.page < r.page /\ \A i \in ends : i < r.page - 1 => i <= d.page - 1
         /\ d.end = r.end
  BY PrevLine DEF Ready
<1>5. /\ d.page \in Nat /\ r.page \in Nat /\ r.page = g.page /\ r.end = g.end
  BY <1>3 DEF Ready, TextBox
<1>. HIDE DEF d, g, ends, zero
<1>6. CASE g.end
  <2>1. b.page = zero
    BY <1>1, <1>2, <1>6
  <2>. QED  BY <1>2, <1>4, <1>5, <1>6, <2>1 DEF d
<1>7. CASE ~g.end
  <2>1. g.page > b.page /\ g.page - 1 \in ends /\ \A i \in ends : i >= b.page => g.page - 1 <= i
    BY <1>2, <1>7
  <2>2. CASE b.page = 1
    <3>1. \A i \in ends : i >= r.page - 1
      BY <1>1, <1>5, <2>1, <2>2
    <3>2. d.page = 1 /\ d.end = r.end
      BY <1>1, <1>4, <1>5, <1>7, <3>1
    <3>. QED  BY <1>5, <1>7, <2>2, <3>2 DEF d
  <2>3. CASE b.page # 1
    <3>1. b.page # zero
      BY <1>1, <1>5, <2>1
    <3>2. b.page - 1 \in ends /\ b.page - 1 < r.page - 1 /\ r.page # 1
      BY <1>1, <1>5, <2>1, <2>3, <3>1
    <3>3. /\ d.page - 1 \in ends /\ d.page < r.page /\ d.end = r.end
          /\ \A i \in ends : i < r.page - 1 => i <= d.page - 1
      BY <1>1, <1>4, <1>5, <1>7, <3>2
    <3>4. d.page - 1 < b.page
      BY <1>1, <1>5, <2>1, <3>3
    <3>5. b.page - 1 <= d.page - 1
      BY <3>2, <3>3
    <3>. QED  BY <1>1, <1>5, <1>7, <3>3, <3>4, <3>5 DEF d
  <2>. QED  BY <2>2, <2>3
<1>. QED  BY <1>6, <1>7

(* A line back and a line forward lose nothing.                            *)
LEMMA ForwardOver ==
  ASSUME NEW x, Ready(x), NEW y, Ready(y), y.text = x.text, y.page >= BackLine(x).page
  PROVE  /\ GetLine(y).page >= x.page
         /\ x.page = Zero(x.text) /\ x.end => GetLine(y).end
<1>. DEFINE d == BackLine(x)
            g == GetLine(y)
            ends == LineEnds(x.text)
            zero == Zero(x.text)
<1>1. /\ zero \in Nat /\ zero > 1 /\ \A i \in ends : i \in 1 .. zero - 1
      /\ x.page \in 1 .. zero /\ y.page \in 1 .. zero
  BY TextPlaces
<1>2. \/ g.end /\ g.page = zero /\ \A i \in ends : i < y.page
      \/ ~g.end /\ g.page > y.page /\ g.page - 1 \in ends /\ \A i \in ends : i >= y.page => g.page - 1 <= i
  BY NextLine DEF Ready
<1>3. Ready(d)
  BY BackReady
<1>4. \/ x.page = zero /\ x.end /\ d.page = x.page /\ ~d.end
      \/ /\ x.page # zero \/ ~x.end
         /\ x.page = 1 \/ \A i \in ends : i >= x.page - 1
         /\ d.page = 1 /\ d.end = x.end
      \/ /\ x.page # zero \/ ~x.end
         /\ d.page - 1 \in ends /\ d.page < x.page /\ \A i \in ends : i < x.page - 1 => i <= d.page - 1
         /\ d.end = x.end
  BY PrevLine DEF Ready
<1>5. d.page \in Nat /\ g.page \in Nat /\ y.page >= d.page /\ g.page - 1 \in Int
  <2>1. g \in TextBox
    BY NextLine DEF Ready
  <2>. HIDE DEF g
  <2>2. d \in TextBox /\ y.page >= d.page
    BY <1>3 DEF Ready
  <2>. HIDE DEF d
  <2>. QED  BY <2>1, <2>2 DEF TextBox
<1>. HIDE DEF d, g, ends, zero
<1>6. CASE g.end
  BY <1>1, <1>2, <1>6 DEF g, zero
<1>7. CASE ~g.end
  <2>1. g.page > y.page /\ g.page - 1 \in ends
    BY <1>2, <1>7
  <2>2. y.page # zero /\ g.page - 1 >= y.page
    BY <1>1, <1>5, <2>1
  <2>3. ~(x.page = zero /\ x.end)
    BY <1>1, <1>4, <1>5, <2>2
  <2>4. g.page >= x.page
    <3>1. x.page = 1 => g.page >= x.page
      BY <1>1, <1>5, <2>1
    <3>2. (\A i \in ends : i >= x.page - 1) => g.page >= x.page
      BY <1>1, <1>5, <2>1
    <3>3. (\A i \in ends : i < x.page - 1 => i <= d.page - 1) => g.page >= x.page
      BY <1>1, <1>5, <2>1, <2>2
    <3>. QED  BY <1>4, <2>3, <3>1, <3>2, <3>3
  <2>. QED  BY <2>3, <2>4 DEF g, zero
<1>. QED  BY <1>6, <1>7

(* What get_line and back_lines come to depends on the place alone.        *)
LEMMA ReadSame ==
  ASSUME NEW x, Ready(x), NEW y, Ready(y), y.text = x.text, y.page = x.page, NEW n \in Nat
  PROVE  /\ \A j \in 0 .. n : GetLines(y, n)[j].page = GetLines(x, n)[j].page
         /\ \A j \in 1 .. n : GetLines(y, n)[j].end = GetLines(x, n)[j].end
<1>. DEFINE f == GetLines(x, n)
            g == GetLines(y, n)
            S == {j \in 0 .. n : g[j].page = f[j].page /\ (j > 0 => g[j].end = f[j].end)}
<1>1. /\ f[0] = x /\ g[0] = y
      /\ \A j \in 1 .. n : f[j] = GetLine(f[j - 1]) /\ g[j] = GetLine(g[j - 1])
  BY ReadLines DEF Ready
<1>2. \A j \in 0 .. n : f[j] \in TextBox /\ g[j] \in TextBox /\ f[j].text = x.text /\ g[j].text = x.text
  <2>1. ASSUME NEW b, Ready(b), NEW j \in 0 .. n
        PROVE  GetLines(b, n)[j] \in TextBox /\ GetLines(b, n)[j].text = b.text
    <3>. DEFINE d == GetLines(b, n)[j]
    <3>1. Ready(d) /\ Elsewhere(b, d)
      BY <2>1, LinesKept
    <3>. HIDE DEF d
    <3>. QED  BY <2>1, <3>1 DEF Ready, TextBox, Elsewhere, d
  <2>. QED  BY <2>1
<1>. HIDE DEF f, g
<1>3. ASSUME NEW a \in TextBox, NEW b \in TextBox, a.text = b.text, a.page = b.page
      PROVE  GetLine(a).page = GetLine(b).page /\ GetLine(a).end = GetLine(b).end
  BY <1>3 DEF GetLine, TextBox
<1>4. ASSUME NEW j \in 0 .. n - 1, j \in S PROVE j + 1 \in S
  <2>1. j + 1 \in 1 .. n /\ (j + 1) - 1 = j /\ j + 1 \in 0 .. n /\ j \in 0 .. n
    OBVIOUS
  <2>2. f[j + 1] = GetLine(f[j]) /\ g[j + 1] = GetLine(g[j]) /\ g[j].page = f[j].page
    BY <1>1, <1>4, <2>1
  <2>3. g[j + 1].page = f[j + 1].page /\ g[j + 1].end = f[j + 1].end
    BY <1>2, <1>3, <2>1, <2>2
  <2>. QED  BY <2>1, <2>3
<1>5. 0 \in S
  BY <1>1
<1>. HIDE DEF S
<1>6. 0 .. n \subseteq S
  BY <1>4, <1>5, CountUp
<1>7. \A j \in 0 .. n : g[j].page = f[j].page /\ (j > 0 => g[j].end = f[j].end)
  BY <1>6 DEF S
<1>8. \A j \in 1 .. n : j \in 0 .. n /\ j > 0
  OBVIOUS
<1>. QED  BY <1>7, <1>8 DEF f, g

(* In particular not the text.                                             *)
LEMMA BackText ==
  ASSUME NEW b, Ready(b), NEW n \in Nat, NEW j \in 0 .. n
  PROVE  ReadBack(b, n)[j] \in TextBox /\ ReadBack(b, n)[j].text = b.text
<1>. DEFINE d == ReadBack(b, n)[j]
<1>1. Ready(d) /\ Elsewhere(b, d)
  BY BackKept
<1>. HIDE DEF d
<1>. QED  BY <1>1 DEF Ready, TextBox, Elsewhere, d

LEMMA BackSame ==
  ASSUME NEW x, Ready(x), NEW y, Ready(y), y.text = x.text, y.page = x.page, y.end = x.end,
         NEW n \in Nat
  PROVE  BackLines(y, n).page = BackLines(x, n).page
<1>. DEFINE f == ReadBack(x, n)
            g == ReadBack(y, n)
            Same(a, b) == a.page = b.page /\ a.begin = b.begin /\ a.end = b.end
            S == {j \in 0 .. n : Same(g[j], f[j])}
<1>1. /\ f[0] = [x EXCEPT !.begin = FALSE] /\ g[0] = [y EXCEPT !.begin = FALSE]
      /\ \A j \in 1 .. n : /\ f[j] = IF f[j - 1].begin THEN f[j - 1] ELSE BackLine(f[j - 1])
                           /\ g[j] = IF g[j - 1].begin THEN g[j - 1] ELSE BackLine(g[j - 1])
  BY BackRead DEF Ready
<1>2. \A j \in 0 .. n : f[j] \in TextBox /\ g[j] \in TextBox /\ f[j].text = x.text /\ g[j].text = x.text
  BY BackText
<1>3. BackLines(y, n) = g[n] /\ BackLines(x, n) = f[n]
  BY BackKept
<1>. HIDE DEF f, g
<1>4. ASSUME NEW a \in TextBox, NEW b \in TextBox, a.text = b.text, Same(a, b)
      PROVE  Same(BackLine(a), BackLine(b))
  <2>. DEFINE ends == {i \in LineEnds(a.text) : i < a.page - 1}
              page == 1 + CHOOSE i \in ends : \A j \in ends : j <= i
              Back(c) == IF c.page = Zero(c.text) /\ c.end THEN [c EXCEPT !.end = FALSE]
                         ELSE IF c.page = 1 \/ ends = {} THEN [c EXCEPT !.page = 1, !.begin = TRUE]
                         ELSE [c EXCEPT !.page = page]
  <2>1. BackLine(a) = Back(a) /\ BackLine(b) = Back(b)
    BY <1>4 DEF BackLine
  <2>. HIDE DEF ends, page
  <2>2. a.page = b.page /\ a.begin = b.begin /\ a.end = b.end /\ Zero(a.text) = Zero(b.text)
    BY <1>4
  <2>3. ASSUME NEW c \in TextBox
        PROVE  /\ c.page = Zero(c.text) /\ c.end
                    => Back(c).page = c.page /\ Back(c).begin = c.begin /\ Back(c).end = FALSE
               /\ ~(c.page = Zero(c.text) /\ c.end) /\ (c.page = 1 \/ ends = {})
                    => Back(c).page = 1 /\ Back(c).begin = TRUE /\ Back(c).end = c.end
               /\ ~(c.page = Zero(c.text) /\ c.end) /\ ~(c.page = 1 \/ ends = {})
                    => Back(c).page = page /\ Back(c).begin = c.begin /\ Back(c).end = c.end
    BY DEF TextBox
  <2>. HIDE DEF Back
  <2>4. CASE a.page = Zero(a.text) /\ a.end
    BY <2>1, <2>2, <2>3, <2>4
  <2>5. CASE ~(a.page = Zero(a.text) /\ a.end) /\ (a.page = 1 \/ ends = {})
    <3>1. Back(a).page = 1 /\ Back(a).begin = TRUE /\ Back(a).end = a.end
      BY <2>3, <2>5
    <3>2. ~(b.page = Zero(b.text) /\ b.end) /\ (b.page = 1 \/ ends = {})
      BY <2>2, <2>5
    <3>3. Back(b).page = 1 /\ Back(b).begin = TRUE /\ Back(b).end = b.end
      BY <2>3, <3>2
    <3>. QED  BY <2>1, <2>2, <3>1, <3>3
  <2>6. CASE ~(a.page = Zero(a.text) /\ a.end) /\ ~(a.page = 1 \/ ends = {})
    BY <2>1, <2>2, <2>3, <2>6
  <2>. QED  BY <2>4, <2>5, <2>6
<1>5. Same(g[0], f[0])
  BY <1>1 DEF Ready, TextBox
<1>. HIDE DEF Same
<1>6. ASSUME NEW j \in 0 .. n - 1, j \in S PROVE j + 1 \in S
  <2>1. j + 1 \in 1 .. n /\ (j + 1) - 1 = j /\ j + 1 \in 0 .. n /\ j \in 0 .. n
    OBVIOUS
  <2>2. /\ f[j + 1] = IF f[j].begin THEN f[j] ELSE BackLine(f[j])
        /\ g[j + 1] = IF g[j].begin THEN g[j] ELSE BackLine(g[j])
        /\ Same(g[j], f[j])
    BY <1>1, <1>6, <2>1
  <2>3. Same(BackLine(g[j]), BackLine(f[j]))
    BY <1>2, <1>4, <2>1, <2>2
  <2>4. g[j].begin = f[j].begin
    BY <2>2 DEF Same
  <2>5. Same(g[j + 1], f[j + 1])
    BY <2>2, <2>3, <2>4
  <2>. QED  BY <2>1, <2>5
<1>7. 0 \in S
  BY <1>5
<1>. HIDE DEF S
<1>8. n \in S
  BY <1>6, <1>7, CountUp
<1>. QED  BY <1>3, <1>8 DEF S, Same

(* A page forward and the same number of lines back, when the page does    *)
(* not go beyond the end of the text by more than one line.                *)
LEMMA PageReturns ==
  ASSUME NEW c, Ready(c), EndsLine(c.text), NEW h \in Nat, NEW n \in 1 .. h,
         \A j \in 1 .. n - 1 : ~GetLines(c, h)[j].end,
         NEW x, Ready(x), x.text = c.text, x.page = GetLines(c, h)[n].page, x.end = GetLines(c, h)[n].end
  PROVE  BackLines(x, n).page = c.page
<1>. DEFINE f == GetLines(c, h)
            g == ReadBack(x, n)
            S == {j \in 0 .. n : /\ g[j].page = f[n - j].page
                                 /\ j = 0 => g[j].end = f[n].end /\ ~g[j].begin
                                 /\ j > 0 => ~g[j].end}
<1>0. n \in Nat
  OBVIOUS
<1>1. /\ f[0] = c /\ \A j \in 1 .. h : f[j] = GetLine(f[j - 1])
  BY ReadLines DEF Ready
<1>2. /\ g[0] = [x EXCEPT !.begin = FALSE]
      /\ \A j \in 1 .. n : g[j] = IF g[j - 1].begin THEN g[j - 1] ELSE BackLine(g[j - 1])
  BY <1>0, BackRead DEF Ready
<1>3. \A j \in 0 .. h : Ready(f[j]) /\ f[j].text = c.text
  <2>1. ASSUME NEW j \in 0 .. h PROVE Ready(f[j]) /\ f[j].text = c.text
    <3>. DEFINE d == f[j]
    <3>1. Ready(d) /\ Elsewhere(c, d)
      BY LinesKept
    <3>. HIDE DEF d
    <3>. QED  BY <3>1 DEF Ready, TextBox, Elsewhere, d
  <2>. QED  BY <2>1
<1>4. \A j \in 1 .. h : f[j].page > 1 /\ (f[j].end => f[j].page = Zero(c.text))
  BY LinesKept
<1>a. Ready(x) /\ x.text = c.text
  OBVIOUS
<1>5. \A j \in 0 .. n : Ready(g[j]) /\ g[j].text = c.text /\ (g[j].begin => g[j].page = 1)
  <2>1. ASSUME NEW j \in 0 .. n PROVE Ready(g[j]) /\ g[j].text = c.text /\ (g[j].begin => g[j].page = 1)
    <3>1. Ready(g[j]) /\ (g[j].begin => g[j].page = 1)
      BY <1>0, <1>a, BackKept
    <3>2. g[j].text = x.text
      BY <1>0, <1>a, BackText
    <3>. HIDE DEF g
    <3>. QED  BY <1>a, <3>1, <3>2
  <2>. HIDE DEF g
  <2>. QED  BY <2>1
<1>6. BackLines(x, n) = g[n]
  BY <1>0, <1>a, BackKept
<1>7. c.end /\ c.page = Zero(c.text) => n = 1 /\ f[1].end
  <2>1. SUFFICES ASSUME c.end, c.page = Zero(c.text) PROVE n = 1 /\ f[1].end
    OBVIOUS
  <2>2. 1 \in 1 .. h /\ 0 \in 0 .. h /\ 1 - 1 = 0
    OBVIOUS
  <2>3. f[1] = GetLine(c)
    BY <1>1, <2>2
  <2>4. Zero(c.text) \in Nat /\ \A i \in LineEnds(c.text) : i \in 1 .. Zero(c.text) - 1
    BY TextPlaces
  <2>5. GetLine(c).page \in Nat /\ (GetLine(c).end \/ (GetLine(c).page > c.page /\ GetLine(c).page - 1 \in LineEnds(c.text)))
    <3>1. Ready(f[1])
      BY <1>3, <2>2
    <3>2. GetLine(c).page \in Nat
      BY <2>3, <3>1 DEF Ready, TextBox
    <3>3. c \in TextBox
      BY DEF Ready
    <3>. QED  BY <3>2, <3>3, NextLine
  <2>6. GetLine(c).end
    BY <2>1, <2>4, <2>5
  <2>7. f[1].end
    BY <2>3, <2>6
  <2>. HIDE DEF f
  <2>8. \A j \in 1 .. n - 1 : ~f[j].end
    BY DEF f
  <2>9. n = 1
    <3>1. n # 1 => 1 \in 1 .. n - 1
      OBVIOUS
    <3>. QED  BY <2>7, <2>8, <3>1
  <2>. QED  BY <2>7, <2>9
<1>8. x.page = f[n].page /\ x.end = f[n].end /\ \A j \in 1 .. n - 1 : ~f[j].end
  OBVIOUS
<1>. HIDE DEF f, g
<1>9. 0 \in S
  <2>1. g[0].page = x.page /\ g[0].end = x.end /\ ~g[0].begin
    BY <1>2 DEF Ready, TextBox
  <2>. QED  BY <1>0, <1>8, <2>1
<1>10. ASSUME NEW j \in 0 .. n - 1, j \in S PROVE j + 1 \in S
  <2>. DEFINE k == n - (j + 1)
  <2>1. /\ j + 1 \in 1 .. n /\ (j + 1) - 1 = j /\ j + 1 \in 0 .. n /\ j \in 0 .. n
        /\ n - j \in 1 .. h /\ (n - j) - 1 = k /\ k \in 0 .. h /\ j + 1 > 0
    BY <1>0
  <2>2. /\ g[j].page = f[n - j].page
        /\ j = 0 => g[j].end = f[n].end /\ ~g[j].begin
        /\ j > 0 => ~g[j].end
    BY <1>10
  <2>3. f[n - j] = GetLine(f[k]) /\ g[j + 1] = IF g[j].begin THEN g[j] ELSE BackLine(g[j])
    BY <1>1, <1>2, <2>1
  <2>4. ~g[j].begin
    <3>1. f[n - j].page > 1
      BY <1>4, <2>1
    <3>. QED  BY <1>5, <2>1, <2>2, <3>1
  <2>5. g[j].end = f[n - j].end
    <3>1. CASE j = 0
      BY <1>0, <2>2, <3>1
    <3>2. CASE j # 0
      <4>1. n - j \in 1 .. n - 1 /\ j > 0
        BY <1>0, <3>2
      <4>2. ~f[n - j].end /\ ~g[j].end
        BY <1>8, <2>2, <4>1
      <4>3. f[n - j].end \in BOOLEAN /\ g[j].end \in BOOLEAN
        <5>1. f[n - j] \in TextBox /\ g[j] \in TextBox
          <6>1. Ready(f[n - j]) /\ Ready(g[j])
            BY <1>3, <1>5, <2>1
          <6>. QED  BY <6>1 DEF Ready
        <5>. QED  BY <5>1 DEF TextBox
      <4>. QED  BY <4>2, <4>3
    <3>. QED  BY <3>1, <3>2
  <2>6. CASE ~f[k].end \/ f[k].page # Zero(c.text)
    <3>. DEFINE b == f[k]
                r == g[j]
    <3>1. /\ Ready(b) /\ b.text = c.text /\ EndsLine(b.text) /\ (~b.end \/ b.page # Zero(b.text))
          /\ Ready(r) /\ r.text = b.text /\ r.page = GetLine(b).page /\ r.end = GetLine(b).end
      BY <1>3, <1>5, <2>1, <2>2, <2>3, <2>5, <2>6
    <3>. HIDE DEF b, r
    <3>2. BackLine(r).page = b.page /\ ~BackLine(r).end
      BY <3>1, BackOver
    <3>3. g[j + 1].page = f[k].page /\ ~g[j + 1].end
      BY <2>3, <2>4, <3>2 DEF b, r
    <3>. QED  BY <2>1, <3>3
  <2>7. CASE f[k].end /\ f[k].page = Zero(c.text)
    <3>1. k = 0
      <4>1. k # 0 => k \in 1 .. n - 1
        BY <1>0, <2>1
      <4>. QED  BY <1>8, <2>7, <4>1
    <3>2. j = 0 /\ f[1].end /\ n - j = 1 /\ f[k] = c
      BY <1>0, <1>1, <1>7, <2>7, <3>1
    <3>3. 1 \in 1 .. h
      OBVIOUS
    <3>4. g[j].end /\ g[j].page = Zero(g[j].text)
      BY <1>4, <1>5, <2>1, <2>2, <2>5, <3>2, <3>3
    <3>5. BackLine(g[j]).page = g[j].page /\ ~BackLine(g[j]).end
      BY <1>5, <2>1, <3>4, PrevLine DEF Ready
    <3>6. g[j + 1].page = Zero(c.text) /\ ~g[j + 1].end
      BY <1>5, <2>1, <2>3, <2>4, <3>4, <3>5
    <3>. QED  BY <2>1, <2>7, <3>6
  <2>. QED  BY <2>6, <2>7
<1>. HIDE DEF S
<1>11. n \in S
  BY <1>0, <1>9, <1>10, CountUp
<1>12. g[n].page = f[n - n].page /\ n - n = 0
  BY <1>0, <1>11 DEF S
<1>. QED  BY <1>1, <1>6, <1>12

(* The text, and the size and the column of the screen.                    *)
SameText(b, d) ==
  d.text = b.text /\ d.update = b.update /\ d.height = b.height /\ d.hscroll = b.hscroll

(* Reading on and going back come to starts of lines of the same text.     *)
LEMMA LinesReady ==
  ASSUME NEW b, Ready(b), NEW n \in Nat, NEW j \in 0 .. n
  PROVE  Ready(GetLines(b, n)[j]) /\ SameText(b, GetLines(b, n)[j])
<1>. DEFINE d == GetLines(b, n)[j]
<1>1. Ready(d) /\ Elsewhere(b, d)
  BY LinesKept
<1>. HIDE DEF d
<1>. QED  BY <1>1 DEF Ready, TextBox, Elsewhere, SameText, d

LEMMA BackLinesReady ==
  ASSUME NEW b, Ready(b), NEW n \in Nat
  PROVE  Ready(BackLines(b, n)) /\ SameText(b, BackLines(b, n))
<1>. DEFINE d == ReadBack(b, n)[n]
<1>0. n \in 0 .. n
  OBVIOUS
<1>1. Ready(d) /\ Elsewhere(b, d) /\ BackLines(b, n) = d
  BY <1>0, BackKept
<1>. HIDE DEF d
<1>. QED  BY <1>1 DEF Ready, TextBox, Elsewhere, SameText

(* Back from the end and forward again comes to the end, even where the    *)
(* way back stops at the beginning of the text.                            *)
LEMMA EndReached ==
  ASSUME NEW x, Ready(x), x.end, x.page = Zero(x.text), NEW h \in Nat \ {0},
         NEW q, Ready(q), q.text = x.text, q.page = BackLines(x, h).page
  PROVE  GetLines(q, h)[h].page = Zero(x.text) /\ GetLines(q, h)[h].end = TRUE
<1>. DEFINE f == GetLines(q, h)
            g == ReadBack(x, h)
            zero == Zero(x.text)
            S == {j \in 0 .. h : f[j].page >= g[h - j].page /\ (j = h => f[j].end)}
<1>0. h \in Nat /\ h >= 1
  OBVIOUS
<1>1. f[0] = q /\ \A j \in 1 .. h : f[j] = GetLine(f[j - 1])
  BY <1>0, ReadLines DEF Ready
<1>2. /\ g[0] = [x EXCEPT !.begin = FALSE]
      /\ \A j \in 1 .. h : g[j] = IF g[j - 1].begin THEN g[j - 1] ELSE BackLine(g[j - 1])
  BY <1>0, BackRead DEF Ready
<1>3. \A j \in 0 .. h : Ready(f[j]) /\ f[j].text = x.text
  <2>1. ASSUME NEW j \in 0 .. h PROVE Ready(f[j]) /\ f[j].text = x.text
    <3>1. Ready(f[j]) /\ SameText(q, f[j])
      BY <1>0, LinesReady
    <3>. QED  BY <3>1 DEF SameText
  <2>. QED  BY <2>1
<1>4. \A j \in 0 .. h : Ready(g[j]) /\ g[j].text = x.text /\ (g[j].begin => g[j].page = 1)
  BY <1>0, BackKept, BackText
<1>5. q.page = g[h].page
  BY <1>0, BackKept
<1>6. zero \in Nat /\ zero > 1
  BY TextPlaces
<1>7. g[0].page = zero /\ g[0].end /\ ~g[0].begin
  BY <1>2 DEF Ready, TextBox
<1>8. \A j \in 0 .. h : f[j].page \in 1 .. zero /\ g[j].page \in 1 .. zero
  <2>1. ASSUME NEW a, Ready(a), a.text = x.text PROVE a.page \in 1 .. zero
    BY <2>1, TextPlaces
  <2>. HIDE DEF f, g, zero
  <2>. QED  BY <1>3, <1>4, <2>1
<1>. HIDE DEF f, g
<1>9. 0 \in S
  <2>1. 0 # h /\ h - 0 = h /\ 0 \in 0 .. h /\ h \in 0 .. h
    BY <1>0
  <2>2. f[0].page >= g[h - 0].page
    BY <1>1, <1>5, <1>8, <2>1
  <2>. QED  BY <2>1, <2>2
<1>10. ASSUME NEW j \in 0 .. h - 1, j \in S PROVE j + 1 \in S
  <2>. DEFINE k == h - (j + 1)
  <2>1. /\ j + 1 \in 1 .. h /\ (j + 1) - 1 = j /\ j + 1 \in 0 .. h /\ j \in 0 .. h
        /\ h - j \in 1 .. h /\ (h - j) - 1 = k /\ k \in 0 .. h /\ h - j \in 0 .. h
        /\ (j + 1 = h => k = 0)
    BY <1>0
  <2>2. f[j + 1] = GetLine(f[j]) /\ g[h - j] = IF g[k].begin THEN g[k] ELSE BackLine(g[k])
    BY <1>1, <1>2, <2>1
  <2>3. f[j].page >= g[h - j].page
    BY <1>10
  <2>. DEFINE y == f[j]
              z == g[k]
  <2>4. Ready(y) /\ Ready(z) /\ y.text = x.text /\ z.text = x.text
    BY <1>3, <1>4, <2>1
  <2>5. CASE ~z.begin
    <3>1. y.page >= BackLine(z).page
      BY <2>2, <2>3, <2>5
    <3>. HIDE DEF y, z
    <3>2. GetLine(y).page >= z.page /\ (z.page = Zero(z.text) /\ z.end => GetLine(y).end)
      BY <2>4, <3>1, ForwardOver
    <3>3. f[j + 1].page >= g[k].page
      BY <2>2, <3>2 DEF y, z
    <3>4. j + 1 = h => f[j + 1].end
      BY <1>7, <2>1, <2>2, <2>4, <3>2 DEF y, z
    <3>. QED  BY <2>1, <3>3, <3>4
  <2>6. CASE z.begin
    <3>1. k # 0
      BY <1>7, <2>6
    <3>2. g[k].page = 1 /\ f[j + 1].page >= 1
      BY <1>4, <1>8, <2>1, <2>6
    <3>. QED  BY <2>1, <3>1, <3>2
  <2>. QED  BY <2>5, <2>6
<1>. HIDE DEF S
<1>11. h \in S
  BY <1>0, <1>9, <1>10, CountUp
<1>12. f[h].page >= g[h - h].page /\ f[h].end /\ h - h = 0 /\ h \in 0 .. h
  BY <1>0, <1>11 DEF S
<1>13. f[h].page = zero
  BY <1>6, <1>7, <1>8, <1>12
<1>14. f[h].end \in BOOLEAN
  BY <1>3, <1>12 DEF Ready, TextBox
<1>. QED  BY <1>12, <1>13, <1>14 DEF f

-----------------------------------------------------------------------------
(* Where print_page begins to print.                                       *)
Top(b) == IF b.update THEN BackLines(GetLines(b, b.height)[b.height], b.height) ELSE b

(* So does the way to the top of a page.                                   *)
LEMMA TopReady ==
  ASSUME NEW b, Ready(b)
  PROVE  Ready(Top(b)) /\ SameText(b, Top(b)) /\ b.height \in Nat \ {0}
<1>1. b.height \in Nat \ {0} /\ b.height \in 0 .. b.height
  BY DEF Ready, TextBox
<1>. DEFINE e == GetLines(b, b.height)[b.height]
<1>2. Ready(e) /\ SameText(b, e)
  BY <1>1, LinesReady
<1>. HIDE DEF e
<1>3. Ready(BackLines(e, b.height)) /\ SameText(e, BackLines(e, b.height))
  BY <1>1, <1>2, BackLinesReady
<1>4. Top(b) = IF b.update THEN BackLines(e, b.height) ELSE b
  BY DEF Top, e
<1>. QED  BY <1>1, <1>2, <1>3, <1>4 DEF SameText

(* A page that is printed: from its first line to where the next begins;   *)
(* its length is that of the screen unless the text has come to its end.   *)
LEMMA Printing ==
  ASSUME NEW b, Ready(b)
  PROVE  LET p == PrintPage(b)
             read == GetLines(Top(b), b.height)
         IN  /\ Ready(p) /\ SameText(b, p)
             /\ p.top = Top(b).page
             /\ p.page = read[b.height].page /\ p.end = read[b.height].end
             /\ p.length \in 1 .. b.height
             /\ \A j \in 1 .. p.length - 1 : ~read[j].end
             /\ p.length = b.height \/ read[p.length].end
<1>. DEFINE h == b.height
            p == PrintPage(b)
            from == Top(b)
            read == GetLines(from, h)
            ended == {j \in 1 .. h : read[j].end}
            length == IF ended = {} THEN h ELSE CHOOSE j \in ended : \A i \in ended : j <= i
            last == read[h]
            at == AtPlace(b, last)
<1>1. Ready(from) /\ SameText(b, from) /\ h \in Nat \ {0} /\ h \in 0 .. h
  <2>1. Ready(Top(b)) /\ SameText(b, Top(b)) /\ b.height \in Nat \ {0}
    BY TopReady
  <2>. QED  BY <2>1
<1>2. p = [at EXCEPT !.top = from.page, !.length = length]
  BY DEF PrintPage, Top
<1>. HIDE DEF from
<1>3. Ready(last) /\ SameText(from, last)
  BY <1>1, LinesReady
<1>4. /\ length \in 1 .. h
      /\ \A j \in 1 .. length - 1 : ~read[j].end
      /\ length = h \/ read[length].end
  <2>. HIDE DEF read
  <2>1. CASE ended = {}
    <3>1. length = h
      BY <2>1
    <3>2. \A j \in 1 .. h : ~read[j].end
      BY <2>1
    <3>. HIDE DEF length, ended
    <3>. QED  BY <1>1, <3>1, <3>2
  <2>2. CASE ended # {}
    <3>. DEFINE least == CHOOSE j \in ended : \A i \in ended : j <= i
    <3>1. ended \subseteq Nat
      BY <1>1
    <3>2. \A j \in ended : j \in 1 .. h /\ read[j].end
      OBVIOUS
    <3>3. \A j \in 1 .. h : j \in ended \/ ~read[j].end
      OBVIOUS
    <3>4. length = least
      BY <2>2
    <3>. HIDE DEF ended
    <3>5. least \in ended /\ \A i \in ended : least <= i
      BY <2>2, <3>1, LeastExists
    <3>. HIDE DEF least, length
    <3>6. length \in 1 .. h /\ read[length].end
      BY <3>2, <3>4, <3>5
    <3>7. \A j \in 1 .. length - 1 : j \in 1 .. h /\ ~(length <= j)
      BY <1>1, <3>6
    <3>8. \A j \in 1 .. length - 1 : ~read[j].end
      BY <3>3, <3>4, <3>5, <3>7
    <3>. QED  BY <3>6, <3>8
  <2>. QED  BY <2>1, <2>2
<1>. HIDE DEF length, last
<1>5. /\ at \in TextBox /\ at.page = last.page /\ at.end = last.end /\ SameText(b, at)
  BY <1>3 DEF AtPlace, Ready, TextBox, SameText
<1>. HIDE DEF at
<1>6. from.page \in Nat /\ length \in Nat
  BY <1>1, <1>4 DEF Ready, TextBox
<1>. HIDE DEF h
<1>7. /\ p \in TextBox /\ p.page = last.page /\ p.end = last.end /\ SameText(b, p)
      /\ p.top = from.page /\ p.length = length
  BY <1>2, <1>5, <1>6 DEF TextBox, SameText
<1>. HIDE DEF p
<1>8. Ready(p)
  BY <1>1, <1>3, <1>7 DEF Ready, SameText
<1>. QED  BY <1>4, <1>7, <1>8 DEF p, from, last, h

(* Scrolling sideways goes back to the first line of the page, and prints  *)
(* from there.                                                             *)
LEMMA PageStays ==
  ASSUME NEW c, Ready(c), EndsLine(c.text),
         NEW d, Ready(d), d.text = c.text, d.update = c.update, d.height = c.height,
         d.page = BackLines(PrintPage(c), PrintPage(c).length).page
  PROVE  PrintPage(d).top = PrintPage(c).top
<1>. DEFINE b == PrintPage(c)
            h == c.height
            from == Top(c)
            read == GetLines(from, h)
<1>1. /\ Ready(b) /\ SameText(c, b) /\ b.top = from.page
      /\ b.page = read[h].page /\ b.end = read[h].end
      /\ b.length \in 1 .. h /\ \A j \in 1 .. b.length - 1 : ~read[j].end
      /\ b.length = h \/ read[b.length].end
  BY Printing
<1>2. Ready(from) /\ SameText(c, from) /\ h \in Nat \ {0}
  <2>1. Ready(Top(c)) /\ SameText(c, Top(c)) /\ c.height \in Nat \ {0}
    BY TopReady
  <2>. QED  BY <2>1
<1>3. d.text = c.text /\ d.update = c.update /\ d.height = h /\ d.page = BackLines(b, b.length).page
  OBVIOUS
<1>. HIDE DEF b, from
<1>4. h \in Nat /\ h >= 1 /\ h \in 1 .. h /\ h \in 0 .. h /\ b.length \in 0 .. h
  BY <1>1, <1>2
<1>5. Ready(read[b.length]) /\ read[b.length].text = c.text
  BY <1>2, <1>4, LinesReady DEF SameText
<1>6. b.page = read[b.length].page /\ b.end = read[b.length].end
  <2>1. CASE b.length = h
    BY <1>1, <2>1
  <2>2. CASE read[b.length].end
    <3>1. read[h].end
      <4>1. b.length <= h /\ b.length \in 1 .. h
        BY <1>1, <1>2
      <4>. QED  BY <1>2, <1>4, <2>2, <4>1, LinesKept
    <3>2. read[h].page = Zero(from.text) /\ read[b.length].page = Zero(from.text)
      <4>1. \A j \in 1 .. h : read[j].end => read[j].page = Zero(from.text)
        BY <1>2, <1>4, LinesKept
      <4>. HIDE DEF read
      <4>. QED  BY <1>1, <1>4, <2>2, <3>1, <4>1
    <3>3. read[h].end \in BOOLEAN /\ read[b.length].end \in BOOLEAN
      <4>1. Ready(read[h]) /\ Ready(read[b.length])
        BY <1>2, <1>4, LinesReady
      <4>. HIDE DEF read
      <4>. QED  BY <4>1 DEF Ready, TextBox
    <3>. HIDE DEF read
    <3>. QED  BY <1>1, <2>2, <3>1, <3>2, <3>3
  <2>. QED  BY <1>1, <2>1, <2>2
<1>7. d.page = from.page
  <2>1. EndsLine(from.text) /\ b.text = from.text
    BY <1>1, <1>2 DEF SameText
  <2>2. BackLines(b, b.length).page = from.page
    <3>1. /\ Ready(from) /\ h \in Nat /\ b.length \in 1 .. h /\ Ready(b) /\ b.text = from.text
          /\ \A j \in 1 .. b.length - 1 : ~GetLines(from, h)[j].end
          /\ b.page = GetLines(from, h)[b.length].page /\ b.end = GetLines(from, h)[b.length].end
      BY <1>1, <1>2, <1>4, <1>6, <2>1
    <3>. QED  BY <2>1, <3>1, PageReturns
  <2>. QED  BY <1>3, <2>2
<1>8. PrintPage(d).top = Top(d).page
  BY Printing
<1>9. CASE ~c.update
  <2>1. Top(d) = d /\ from = c
    BY <1>3, <1>9 DEF Top, from
  <2>. QED  BY <1>1, <1>7, <1>8, <2>1 DEF b
<1>10. CASE c.update
  <2>. DEFINE first == GetLines(c, h)
              again == GetLines(d, h)
  <2>1. from = BackLines(first[h], h) /\ Top(d) = BackLines(again[h], h)
    BY <1>3, <1>10 DEF Top, from
  <2>2. /\ Ready(first[h]) /\ Ready(again[h]) /\ first[h].text = c.text /\ again[h].text = c.text
        /\ first[h].end \in BOOLEAN /\ again[h].end \in BOOLEAN
    <3>1. Ready(first[h]) /\ SameText(c, first[h]) /\ Ready(again[h]) /\ SameText(d, again[h])
      BY <1>4, LinesReady
    <3>. HIDE DEF first, again
    <3>. QED  BY <1>3, <3>1 DEF SameText, Ready, TextBox
  <2>3. again[h].page = first[h].page /\ again[h].end = first[h].end
    <3>1. CASE \A j \in 1 .. h - 1 : ~first[j].end
      <4>1. BackLines(first[h], h).page = c.page
        BY <1>4, <2>2, <3>1, PageReturns
      <4>2. d.page = c.page
        BY <1>7, <2>1, <4>1
      <4>. QED  BY <1>3, <1>4, <4>2, ReadSame
    <3>2. CASE \E j \in 1 .. h - 1 : first[j].end
      <4>1. PICK j \in 1 .. h - 1 : first[j].end
        BY <3>2
      <4>2. j \in 1 .. h /\ j <= h
        BY <1>4
      <4>3. first[h].end
        BY <1>4, <4>1, <4>2, LinesKept
      <4>4. first[h].page = Zero(c.text)
        BY <1>4, <4>3, LinesKept
      <4>5. d.text = first[h].text /\ d.page = BackLines(first[h], h).page
        BY <1>3, <1>7, <2>1, <2>2
      <4>6. again[h].page = Zero(c.text) /\ again[h].end = TRUE
        <5>. DEFINE x == first[h]
        <5>1. Ready(x) /\ x.end /\ x.page = Zero(x.text) /\ d.text = x.text /\ d.page = BackLines(x, h).page
              /\ x.text = c.text
          BY <2>2, <4>3, <4>4, <4>5
        <5>. HIDE DEF x
        <5>. QED  BY <1>2, <5>1, EndReached
      <4>. HIDE DEF first, again
      <4>. QED  BY <2>2, <4>3, <4>4, <4>6
    <3>. QED  BY <3>1, <3>2
  <2>. HIDE DEF first, again
  <2>4. BackLines(again[h], h).page = BackLines(first[h], h).page
    BY <1>4, <2>2, <2>3, BackSame
  <2>. QED  BY <1>1, <1>8, <2>1, <2>4 DEF b
<1>. QED  BY <1>9, <1>10

(* A text box shows a page of its text that begins with a line.            *)
TextSound(b) == \E c : Ready(c) /\ b = PrintPage(c)

(* From such a page any number of lines can be gone back.                  *)
LEMMA PageSound ==
  ASSUME NEW b, TextSound(b)
  PROVE  /\ Ready(b) /\ b.kind = "text" /\ b.length \in Nat \ {0} /\ b.height \in Nat \ {0}
         /\ \A n \in Nat : Ready(BackLines(b, n)) /\ SameText(b, BackLines(b, n))
<1>1. PICK c : Ready(c) /\ b = PrintPage(c)
  BY DEF TextSound
<1>2. Ready(PrintPage(c)) /\ SameText(c, PrintPage(c)) /\ PrintPage(c).length \in 1 .. c.height
  BY <1>1, Printing
<1>3. Ready(b) /\ c.height \in Nat \ {0} /\ b.length \in 1 .. c.height
  BY <1>1, <1>2, TopReady
<1>4. b.length \in Nat \ {0}
  BY <1>3
<1>5. b.kind = "text" /\ b.height \in Nat \ {0}
  BY <1>3 DEF Ready, TextBox
<1>6. \A n \in Nat : Ready(BackLines(b, n)) /\ SameText(b, BackLines(b, n))
  BY <1>3, BackLinesReady
<1>. QED  BY <1>3, <1>4, <1>5, <1>6

(* print_page makes one, and so does opening a text anywhere in it.        *)
LEMMA PrintSoundly == ASSUME NEW b, Ready(b) PROVE TextSound(PrintPage(b))
BY DEF TextSound

LEMMA TextOpenSound ==
  ASSUME NEW text \in Seq({"c", "n"}) \ {<<>>}, NEW update \in BOOLEAN, NEW height \in Nat \ {0},
         NEW vscroll \in Nat, NEW hscroll \in Int
  PROVE  /\ TextSound(TextOpen(text, update, height, vscroll, hscroll))
         /\ TextOpen(text, update, height, vscroll, hscroll).hscroll = hscroll
<1>. DEFINE start == [kind |-> "text", text |-> text, update |-> update, height |-> height, page |-> 1,
                      begin |-> vscroll = 0, end |-> FALSE, length |-> 0, top |-> 1,
                      hscroll |-> hscroll]
            there == GetLines(start, vscroll)[vscroll]
            at == AtPlace(start, there)
<1>1. TextOpen(text, update, height, vscroll, hscroll) = PrintPage(at)
  BY DEF TextOpen
<1>2. Ready(start) /\ start.hscroll = hscroll
  <2>1. 1 \in Starts(text)
    BY DEF Starts
  <2>2. (vscroll = 0) \in BOOLEAN
    OBVIOUS
  <2>. QED  BY <2>1, <2>2 DEF Ready, TextBox
<1>. HIDE DEF start
<1>3. Ready(there) /\ SameText(start, there)
  <2>1. vscroll \in 0 .. vscroll
    OBVIOUS
  <2>. QED  BY <1>2, <2>1, LinesReady
<1>. HIDE DEF there
<1>4. /\ at \in TextBox /\ at.page = there.page /\ at.text = start.text /\ at.hscroll = start.hscroll
  BY <1>2, <1>3 DEF AtPlace, Ready, TextBox
<1>5. Ready(at) /\ at.hscroll = hscroll
  BY <1>2, <1>3, <1>4 DEF Ready, SameText
<1>. HIDE DEF at
<1>6. SameText(at, PrintPage(at))
  BY <1>5, Printing
<1>. QED  BY <1>1, <1>5, <1>6, PrintSoundly DEF SameText

(* Every key of a text box comes to such a page, and none but the arrows   *)
(* to the sides goes to another column.                                    *)
LEMMA TextKeysSound ==
  ASSUME Is("text") => TextSound(box), TextKeys
  PROVE  /\ box' = Closed \/ TextSound(box')
         /\ box' = Closed \/ box'.hscroll = box.hscroll \/ TextSideways
<1>1. Is("text") /\ TextSound(box)
  BY DEF TextKeys, TextHome, TextEnd, TextUp, TextPageUp, TextDown, TextPageDown, TextSideways,
         TextAgain, TextClose, TextResize, Reprint
<1>. DEFINE Fine == TextSound(box') /\ (box'.hscroll = box.hscroll \/ TextSideways)
<1>2. ASSUME NEW b, Ready(b), Reprint(b), b.hscroll = box.hscroll \/ TextSideways PROVE Fine
  <2>1. TextSound(PrintPage(b)) /\ SameText(b, PrintPage(b)) /\ box' = PrintPage(b)
    BY <1>2, Printing, PrintSoundly DEF Reprint
  <2>. QED  BY <1>2, <2>1 DEF SameText
<1>3. /\ Ready(box) /\ box.length \in Nat \ {0} /\ box.height \in Nat \ {0}
      /\ \A n \in Nat : Ready(BackLines(box, n)) /\ SameText(box, BackLines(box, n))
  BY <1>1, PageSound
<1>4. box \in TextBox /\ box.page \in Starts(box.text) /\ 1 \in Starts(box.text) /\ Zero(box.text) \in Starts(box.text)
  BY <1>3 DEF Ready, Starts
<1>f. Fine => /\ box' = Closed \/ TextSound(box')
              /\ box' = Closed \/ box'.hscroll = box.hscroll \/ TextSideways
  OBVIOUS
<1>. HIDE DEF Fine
<1>5. CASE TextHome
  <2>. DEFINE b == [box EXCEPT !.begin = TRUE, !.page = 1]
  <2>1. b \in TextBox /\ b.page = 1 /\ b.text = box.text /\ b.hscroll = box.hscroll
    BY <1>4 DEF TextBox
  <2>2. Reprint(b)
    BY <1>5 DEF TextHome
  <2>. HIDE DEF b
  <2>3. Ready(b)
    BY <1>4, <2>1 DEF Ready
  <2>. QED  BY <1>2, <1>f, <2>1, <2>2, <2>3
<1>6. CASE TextEnd
  <2>. DEFINE b == [box EXCEPT !.end = TRUE, !.page = Zero(box.text)]
              c == BackLines(b, box.height)
  <2>1. b \in TextBox /\ b.page = Zero(box.text) /\ b.text = box.text /\ b.hscroll = box.hscroll
    <3>1. Zero(box.text) \in Nat
      BY <1>3, TextPlaces
    <3>. QED  BY <1>4, <3>1 DEF TextBox
  <2>2. Reprint(c)
    BY <1>6 DEF TextEnd
  <2>. HIDE DEF b
  <2>3. Ready(b)
    BY <1>4, <2>1 DEF Ready
  <2>4. Ready(c) /\ SameText(b, c)
    BY <1>3, <2>3, BackLinesReady
  <2>5. c.hscroll = box.hscroll
    BY <2>1, <2>4 DEF SameText
  <2>. HIDE DEF c
  <2>. QED  BY <1>2, <1>f, <2>2, <2>4, <2>5
<1>7. CASE TextUp \/ TextPageUp \/ TextDown
  <2>1. PICK n \in Nat : Reprint(BackLines(box, n))
    BY <1>3, <1>7 DEF TextUp, TextPageUp, TextDown
  <2>2. Ready(BackLines(box, n)) /\ BackLines(box, n).hscroll = box.hscroll
    BY <1>3 DEF SameText
  <2>. QED  BY <1>2, <1>f, <2>1, <2>2
<1>8. CASE TextPageDown
  <2>. DEFINE b == [box EXCEPT !.begin = FALSE]
  <2>1. b \in TextBox /\ b.page = box.page /\ b.text = box.text /\ b.hscroll = box.hscroll
    BY <1>4 DEF TextBox
  <2>2. Reprint(b)
    BY <1>8 DEF TextPageDown
  <2>. HIDE DEF b
  <2>3. Ready(b)
    BY <1>4, <2>1 DEF Ready
  <2>. QED  BY <1>2, <1>f, <2>1, <2>2, <2>3
<1>9. CASE TextSideways
  <2>. DEFINE b == BackLines(box, box.length)
              c == [b EXCEPT !.hscroll = 1 - @]
  <2>1. Ready(b)
    BY <1>3
  <2>2. Reprint(c)
    BY <1>9 DEF TextSideways
  <2>. HIDE DEF b
  <2>3. c \in TextBox /\ c.page = b.page /\ c.text = b.text
    BY <2>1 DEF Ready, TextBox
  <2>. HIDE DEF c
  <2>4. Ready(c)
    BY <2>1, <2>3 DEF Ready
  <2>. QED  BY <1>2, <1>f, <1>9, <2>2, <2>4
<1>10. ASSUME NEW h \in Heights, TextResize(h) PROVE Fine
  <2>. DEFINE b == BackLines(box, box.height + 4)
              c == [b EXCEPT !.height = h]
  <2>1. Ready(b) /\ b.hscroll = box.hscroll
    BY <1>3 DEF SameText
  <2>2. Reprint(c)
    BY <1>10 DEF TextResize
  <2>. HIDE DEF b
  <2>3. h \in Nat \ {0}
    BY BoxAssumption
  <2>4. c \in TextBox /\ c.page = b.page /\ c.text = b.text /\ c.hscroll = b.hscroll
    BY <2>1, <2>3 DEF Ready, TextBox
  <2>. HIDE DEF c
  <2>5. Ready(c)
    BY <2>1, <2>4 DEF Ready
  <2>. QED  BY <1>2, <2>1, <2>2, <2>4, <2>5
<1>11. CASE TextAgain
  <2>. DEFINE lines == {i \in LineEnds(box.text) : i < BackLines(box, box.length).page}
              vscroll == Cardinality(lines)
  <2>1. vscroll \in Nat
    <3>1. \A i \in LineEnds(box.text) : i \in 1 .. Zero(box.text) - 1
      BY <1>3, TextPlaces
    <3>2. Zero(box.text) \in Nat
      BY <1>3, TextPlaces
    <3>3. IsFiniteSet(1 .. Zero(box.text) - 1)
      BY <3>2, FS_Interval
    <3>4. lines \subseteq 1 .. Zero(box.text) - 1
      BY <3>1
    <3>. HIDE DEF lines
    <3>. QED  BY <3>3, <3>4, FS_Subset, FS_CardinalityType
  <2>2. box' = TextOpen(box.text, box.update, box.height, vscroll, box.hscroll)
    BY <1>11 DEF TextAgain
  <2>. HIDE DEF vscroll
  <2>3. /\ box.text \in Seq({"c", "n"}) \ {<<>>} /\ box.update \in BOOLEAN
        /\ box.height \in Nat \ {0} /\ box.hscroll \in Int
    BY <1>4 DEF TextBox
  <2>4. TextSound(box') /\ box'.hscroll = box.hscroll
    BY <2>1, <2>2, <2>3, TextOpenSound
  <2>. QED  BY <2>4 DEF Fine
<1>. QED
  BY <1>5, <1>6, <1>7, <1>8, <1>9, <1>10, <1>11 DEF TextKeys, TextClose, Fine

(* The arrows to the sides keep the first line of the page, of a text      *)
(* whose last line has an end.                                             *)
LEMMA SidewaysKeeps ==
  ASSUME TextSound(box), TextSideways, EndsLine(box.text)
  PROVE  box'.top = box.top
<1>1. PICK c : Ready(c) /\ box = PrintPage(c)
  BY DEF TextSound
<1>2. SameText(c, box)
  BY <1>1, Printing
<1>. DEFINE b == BackLines(box, box.length)
            d == [b EXCEPT !.hscroll = 1 - @]
<1>3. Ready(b) /\ SameText(box, b)
  BY PageSound
<1>4. box' = PrintPage(d)
  BY DEF TextSideways, Reprint
<1>. HIDE DEF b
<1>5. d \in TextBox /\ d.page = b.page /\ d.text = b.text /\ d.update = b.update /\ d.height = b.height
  BY <1>3 DEF Ready, TextBox
<1>. HIDE DEF d
<1>6. /\ Ready(d) /\ d.text = c.text /\ d.update = c.update /\ d.height = c.height
      /\ EndsLine(c.text)
  BY <1>2, <1>3, <1>5 DEF Ready, SameText
<1>7. d.page = BackLines(PrintPage(c), PrintPage(c).length).page
  BY <1>1, <1>5 DEF b
<1>. QED  BY <1>1, <1>4, <1>6, <1>7, PageStays

-----------------------------------------------------------------------------
(* Windows and questions; no more is said of these than what they are.     *)

ButtonsSound(b) == "kind" \in DOMAIN b /\ b.kind = "buttons"

(* The keys of a window and of a question.                                 *)
LEMMA WindowKeysSound ==
  ASSUME Is("window") => WindowSound(box), Is("buttons") => ButtonsSound(box), WindowKeys
  PROVE  box' = Closed \/ WindowSound(box') \/ ButtonsSound(box')
<1>1. ASSUME NEW y, WindowSound(box), WindowTo(y), y \in Int PROVE WindowSound(box')
  <2>. DEFINE to == Least(Most(y, 0), box.total - box.lines)
  <2>1. /\ box \in WindowBox /\ box.total \in Nat /\ box.lines \in Nat
        /\ 0 <= box.total - box.lines
    BY <1>1 DEF WindowSound, WindowBox
  <2>2. to \in Int /\ to \in 0 .. box.total - box.lines
    BY <1>1, <2>1 DEF Least, Most
  <2>3. box' = [box EXCEPT !.y = to]
    BY <1>1 DEF WindowTo
  <2>. HIDE DEF to
  <2>4. box' \in WindowBox /\ box'.y = to /\ box'.total = box.total /\ box'.lines = box.lines
    BY <2>1, <2>2, <2>3 DEF WindowBox
  <2>. QED  BY <2>2, <2>4 DEF WindowSound
<1>2. CASE \/ WindowPageDown \/ WindowPageUp \/ WindowHome \/ WindowEnd \/ WindowDown \/ WindowUp
  <2>1. WindowSound(box)
    BY <1>2 DEF WindowPageDown, WindowPageUp, WindowHome, WindowEnd, WindowDown, WindowUp, WindowTo
  <2>2. box.total \in Nat /\ box.lines \in Nat /\ box.y \in Int
    BY <2>1 DEF WindowSound, WindowBox
  <2>3. /\ box.y + box.lines - 2 \in Int /\ box.y - (box.lines + 2) \in Int /\ 0 \in Int
        /\ box.total - box.lines \in Int /\ box.y + 1 \in Int /\ box.y - 1 \in Int
    BY <2>2
  <2>. QED
    BY <1>1, <1>2, <2>1, <2>3
    DEF WindowPageDown, WindowPageUp, WindowHome, WindowEnd, WindowDown, WindowUp
<1>3. ASSUME NEW by \in {-1, 1}, ButtonsMove(by) PROVE ButtonsSound(box')
  BY <1>3 DEF ButtonsMove, ButtonsSound
<1>. QED
  BY <1>2, <1>3 DEF WindowKeys, WindowClose, ButtonsEnd

-----------------------------------------------------------------------------
(* A box is one of these, and each shows what it is about to act on.       *)
Sound(b) ==
  \/ b = Closed \/ b = Crashed \/ MenuSound(b) \/ CheckSound(b) \/ InputSound(b) \/ TextSound(b)
  \/ ItemsSound(b) \/ LineSound(b) \/ WindowSound(b) \/ ButtonsSound(b)
BoxInv == Sound(box)

(* The kind of a box says what is known of it.                             *)
LEMMA ByKind ==
  ASSUME BoxInv
  PROVE  /\ Is("menu") => MenuSound(box)
         /\ Is("check") => CheckSound(box)
         /\ Is("input") => InputSound(box)
         /\ Is("text") => TextSound(box)
         /\ Is("items") => ItemsSound(box)
         /\ Is("line") => LineSound(box)
         /\ Is("window") => WindowSound(box)
         /\ Is("buttons") => ButtonsSound(box)
<1>0. TextSound(box) => box.kind = "text"
  BY PageSound
<1>1. /\ box = Closed => box.kind = "closed"
      /\ box = Crashed => box.kind = "crashed"
      /\ MenuSound(box) => box.kind = "menu"
      /\ CheckSound(box) => box.kind = "check"
      /\ InputSound(box) => box.kind = "input"
      /\ ItemsSound(box) => box.kind = "items"
      /\ LineSound(box) => box.kind = "line"
      /\ WindowSound(box) => box.kind = "window"
      /\ ButtonsSound(box) => box.kind = "buttons"
  BY DEF Closed, Crashed, MenuSound, MenuBox, CheckSound, CheckBox, InputSound, InputBox,
         ItemsSound, ItemsBox, LineSound, LineBox, WindowSound, WindowBox, ButtonsSound
<1>. QED  BY <1>0, <1>1 DEF BoxInv, Sound, Is

(* Every box that is opened is one of these.                               *)
LEMMA OpeningSound == ASSUME NEW o \in Opening PROVE Sound(o)
<1>1. /\ \A n \in Lengths : n \in Nat
      /\ \A h \in Heights : h \in Nat \ {0} /\ h + 6 \in Nat
      /\ \A n \in Items : n \in Nat \ {0}
      /\ 0 \in Int /\ 0 \in Nat /\ -1 \in -1 .. 1
  BY BoxAssumption, ItemsAssumption
<1>2. \A t \in Texts : t \in Seq({"c", "n"}) \ {<<>>}
  BY BoxAssumption
<1>3. ASSUME NEW n \in Lengths, NEW sel \in -1 .. n - 1, NEW h \in Heights
      PROVE  Sound(MenuOpen(n, sel, h, 0))
  BY <1>1, MenuOpenSound DEF Sound
<1>4. ASSUME NEW n \in Lengths, NEW c \in 0 .. n - 1, NEW h \in Heights
      PROVE  Sound(CheckOpen(n, c, h))
  BY <1>1, CheckOpenSound DEF Sound
<1>5. ASSUME NEW t \in TextsUpTo(MaxText)
      PROVE  Sound(InputOpen(t, -1)) /\ Sound(LineOpen(t))
  BY <1>1, Typed, InputOpenSound, LineOpenSound DEF Sound
<1>6. ASSUME NEW t \in Texts, NEW u \in BOOLEAN, NEW h \in Heights
      PROVE  Sound(TextOpen(t, u, h, 0, 0))
  BY <1>1, <1>2, TextOpenSound DEF Sound
<1>7. ASSUME NEW n \in Items, NEW h \in Heights PROVE Sound(ItemsOpen(n, h))
  BY <1>1, ItemsOpenSound DEF Sound
<1>8. ASSUME NEW t \in Texts, NEW h \in Heights PROVE Sound(WindowOpen(t, h + 6))
  BY <1>1, <1>2, WindowOpenSound DEF Sound
<1>9. ASSUME NEW n \in 1 .. 2 PROVE Sound(ButtonsOpen(n))
  BY DEF Sound, ButtonsSound, ButtonsOpen
<1>. DEFINE menus == UNION {{MenuOpen(n, sel, h, 0) : sel \in -1 .. n - 1, h \in Heights} : n \in Lengths}
            lists == UNION {{CheckOpen(n, c, h) : c \in 0 .. n - 1, h \in Heights} : n \in Lengths}
            inputs == {InputOpen(t, -1) : t \in TextsUpTo(MaxText)}
            texts == {TextOpen(t, u, h, 0, 0) : t \in Texts, u \in BOOLEAN, h \in Heights}
            items == {ItemsOpen(n, h) : n \in Items, h \in Heights}
            lines == {LineOpen(t) : t \in TextsUpTo(MaxText)}
            windows == {WindowOpen(t, h + 6) : t \in Texts, h \in Heights}
            questions == {ButtonsOpen(n) : n \in 1 .. 2}
<1>10. o \in menus \/ o \in lists \/ o \in inputs \/ o \in texts \/ o \in items \/ o \in lines
       \/ o \in windows \/ o \in questions
  <2>1. Opening = {b \in menus \cup lists \cup inputs \cup texts \cup items \cup lines \cup windows
                         \cup questions : b.kind \in Kinds}
    BY DEF Opening
  <2>. HIDE DEF menus, lists, inputs, texts, items, lines, windows, questions
  <2>. QED  BY <2>1
<1>11. CASE o \in menus
  BY <1>3, <1>11
<1>12. CASE o \in lists
  BY <1>4, <1>12
<1>13. CASE o \in inputs \/ o \in lines
  BY <1>5, <1>13
<1>14. CASE o \in texts
  BY <1>6, <1>14
<1>15. CASE o \in items \/ o \in windows
  BY <1>7, <1>8, <1>15
<1>16. CASE o \in questions
  BY <1>9, <1>16
<1>. QED
  BY <1>10, <1>11, <1>12, <1>13, <1>14, <1>15, <1>16

(* The three facts about the invariant.                                    *)
LEMMA BoxInitial == BoxInit => BoxInv
  BY OpeningSound DEF BoxInit, BoxInv, Sound

(* Every key of every box keeps it.                                        *)
LEMMA BoxStep == BoxInv /\ [BoxNext]_box => BoxInv'
<1>. SUFFICES ASSUME BoxInv, BoxNext PROVE Sound(box')
  BY DEF BoxInv
<1>1. CASE MenuKeys
  BY <1>1, ByKind, MenuKeysSound DEF Sound
<1>2. CASE CheckKeys
  BY <1>2, ByKind, CheckKeysSound DEF Sound
<1>3. CASE InputKeys
  BY <1>3, ByKind, InputKeysSound DEF Sound
<1>4. CASE TextKeys
  BY <1>4, ByKind, TextKeysSound DEF Sound
<1>5. CASE ItemKeys \/ SearchTurn
  BY <1>5, ByKind, ItemKeysSound DEF Sound
<1>6. CASE LineKeys
  BY <1>6, ByKind, LineKeysSound DEF Sound
<1>7. CASE WindowKeys
  BY <1>7, ByKind, WindowKeysSound DEF Sound
<1>8. ListKeys => MenuKeys \/ CheckKeys
  BY DEF ListKeys, MenuKeys, CheckKeys
<1>. QED  BY <1>1, <1>2, <1>3, <1>4, <1>5, <1>6, <1>7, <1>8 DEF BoxNext

(* It says what the user is shown.                                         *)
LEMMA SoundShows == BoxInv => BoxShows
<1>. SUFFICES ASSUME BoxInv PROVE BoxShows
  OBVIOUS
<1>1. Is("menu") => box.resized \/ ListShown(box)
  BY ByKind DEF MenuSound
<1>2. Is("check") => ListShown(box)
  BY ByKind DEF CheckSound
<1>3. Is("input") => /\ box.pos = box.show_x + box.input_x /\ box.input_x \in 0 .. Width - 1
                     /\ \A i \in 0 .. Width - 1 : box.shown[i] = Rest(box, i)
  BY ByKind DEF InputSound, InputBox
<1>4. Is("items") => box.cur \in 0 .. box.n - 1 /\ box.cur - box.top \in 0 .. box.height - 1
  BY ByKind DEF ItemsSound, OnScreen
<1>5. Is("line") => box.place \in 0 .. Least(box.pos, Width - 1)
  BY ByKind DEF LineSound
<1>6. Is("window") => box.y \in 0 .. box.total - box.lines
  BY ByKind DEF WindowSound
<1>. QED  BY <1>1, <1>2, <1>3, <1>4, <1>5, <1>6 DEF BoxShows

(* For every length of a menu or a text, every size of the screen, every   *)
(* width of a line and every sequence of keys: what stands under the       *)
(* cursor is what the next key acts on, in all the boxes of menuconfig and *)
(* nconf, a menu of menuconfig after a change of the size excepted.        *)
THEOREM BoxesShow == BoxSpec => []BoxShows
<1>. QED  BY BoxInitial, BoxStep, SoundShows, PTL DEF BoxSpec

(* A text has no keys but its own.                                         *)
LEMMA OnlyTextKeys == ASSUME Is("text"), BoxNext PROVE TextKeys
<1>1. box.kind = "text"
  BY DEF Is
<1>2. ~ListKeys
  BY <1>1 DEF Is, ListKeys, MenuKey, MenuUp, MenuDown, MenuPageUp, MenuPageDown, MenuHotkey,
              MenuSelect, MenuResize, CheckUp, CheckDown, CheckHotkey, CheckHelp, CheckSelect
<1>3. ~InputKeys
  BY <1>1 DEF Is, InputKeys, InText, InputLeft, InputRight, InputBackspace, InputForward, InputBack,
              InputEnter, InputResize, InputType
<1>4. ~ItemKeys /\ ~SearchTurn
  BY <1>1 DEF Is, ItemKeys, AtKey, ItemsMove, ItemsDown, ItemsUp, SearchToggle, ItemsKey, SearchNext, SearchType,
              SearchBackspace, SearchTurn
<1>5. ~LineKeys
  BY <1>1 DEF Is, LineKeys, LineHome, LineEnd, LineBackspace, LineDelete, LineEnter, LineMove, LineType
<1>6. ~WindowKeys
  BY <1>1 DEF Is, WindowKeys, WindowTo, WindowPageDown, WindowPageUp, WindowHome, WindowEnd,
              WindowDown, WindowUp, WindowClose, ButtonsEnd, ButtonsMove
<1>. QED  BY <1>2, <1>3, <1>4, <1>5, <1>6 DEF BoxNext

(* A page is kept when it is scrolled sideways.                            *)
LEMMA PageStep ==
  BoxInv /\ [BoxNext]_box
  => (Is("text") /\ box'.kind = "text" /\ box'.hscroll # box.hscroll /\ EndsLine(box.text)
      => box'.top = box.top)
<1>. SUFFICES ASSUME BoxInv, BoxNext, Is("text"), box'.kind = "text", box'.hscroll # box.hscroll,
                     EndsLine(box.text)
              PROVE  box'.top = box.top
  OBVIOUS
<1>1. TextSound(box) /\ TextKeys
  BY ByKind, OnlyTextKeys
<1>2. box' # Closed
  BY DEF Closed
<1>3. TextSideways
  BY <1>1, <1>2, TextKeysSound
<1>. QED  BY <1>1, <1>3, SidewaysKeeps

(* For every text whose last line has an end, every size of the screen and *)
(* every way the user got there, to the last page or to the marks of a     *)
(* search that are printed from the end of the page: the arrows to the     *)
(* sides show the same lines.                                              *)
THEOREM PageStaysSideways == BoxSpec => PageKept
<1>1. BoxInv /\ [BoxNext]_box
      => [Is("text") /\ box'.kind = "text" /\ box'.hscroll # box.hscroll /\ EndsLine(box.text)
          => box'.top = box.top]_box
  BY PageStep
<1>. QED  BY <1>1, BoxInitial, BoxStep, PTL DEF BoxSpec, PageKept
=============================================================================
