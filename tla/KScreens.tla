------------------------------ MODULE KScreens ----------------------------
(***************************************************************************)
(* What the user of a front end has before him: the screens and lists of   *)
(* KViews, which follow the tree, and the boxes of KBoxKeys they are made  *)
(* of.  A behaviour is about one of the two.                               *)
(***************************************************************************)
EXTENDS KViews, KBoxKeys

NoView == tree = "" /\ tool = "none" /\ m = <<>> /\ win = <<>> /\ edits = 0

ScreensInit ==
  \/ Init /\ box = Closed
  \/ NoView /\ box \in Opening

ScreensNext == (tool # "none" /\ Next /\ UNCHANGED box) \/ (tool = "none" /\ BoxNext /\ UNCHANGED vars)

\* The loop of a search goes on by itself; everything else waits for the user.
FairScreens ==
  ScreensInit /\ [][ScreensNext]_<<vars, box>> /\ WF_box(SearchTurn)
===========================================================================
