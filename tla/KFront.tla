------------------------------ MODULE KFront ------------------------------
(***************************************************************************)
(* A front end at work: what it shows of the configuration in its memory,  *)
(* and what the keys and clicks of the user do to it.  The four front ends *)
(* have a module each; KViews composes them.                               *)
(*                                                                         *)
(* tree is the name of the tree, k; m the memory (KConfData); win the      *)
(* windows of the front end:                                               *)
(*   mconf, nconf   [stack]: the menus entered, the one on screen last     *)
(*   gconf          [view, current, browsed, rows, left, flags, mixed]     *)
(*   qconf          [mode, root, rows, left, flags]                        *)
(* A row is a record [at, shows, kids]: the entry it is for, what it says  *)
(* of it, and the rows below it.  flags are the entries (gconf: symbols)   *)
(* marked as changed since they were last drawn; mixed, that rows of what  *)
(* was on screen before were left standing.                                *)
(***************************************************************************)
EXTENDS KEntries

CONSTANTS
  Trees,       \* name |-> a tree as conf_parse() leaves it
  Tools,       \* name |-> the front ends that show it
  Loadable,    \* name |-> files that can be loaded
  MaxEdits,    \* settings changed and files loaded
  MaxDepth     \* menus open one in the other

VARIABLES tree, tool, m, win, edits

vars == <<tree, tool, m, win, edits>>

k == Trees[tree]
EntryAt(p) == EntryOf(k, p)
Sees(mem, p) == MenuIsVisible(k, mem.cur, p)
Now(mem, s) == mem.cur[s].tri

Absent == <<[s |-> None, v |-> None]>>

\* One more edit.
Edits == edits < MaxEdits /\ edits' = edits + 1
Stays == UNCHANGED <<tree, tool>>

-----------------------------------------------------------------------------
(* The keys of mconf and nconf on a three-state line: y falls back to m.   *)

KeyTo(mem, s, key) ==
  CASE key = "y" -> IF CanSetTri(k, mem, s, 2) THEN 2 ELSE 1
    [] key = "m" -> 1
    [] key = "n" -> 0
    [] key = "space" -> ToggleTo(k, mem, s)

\* The symbols and entries sym_set_changed() marks when memory goes from one state to the
\* next: where a value, a visibility or a reverse dependency differs, a symbol that is set for
\* the first time, the values of a choice that changed, and all when MODULES does.
\* Mutant for RowsCurrent: only a value makes a difference.
ValueDiffers(old, new, s) == old.cur[s].tri # new.cur[s].tri \/ old.cur[s].val # new.cur[s].val
Differs(old, new, s) ==
  \/ old.cur[s].tri # new.cur[s].tri \/ old.cur[s].val # new.cur[s].val
  \/ old.cur[s].vis # new.cur[s].vis \/ old.cur[s].rev # new.cur[s].rev
  \/ old.cur[s].dir # new.cur[s].dir
ChangedSyms(old, new, set) ==
  LET own == {s \in DOMAIN k.tab : Differs(old, new, s)} \cup (set \ {s \in set : old.user[s].has})
  IN  IF ModulesSym \in own THEN DOMAIN k.tab
      ELSE own \cup {s \in DOMAIN k.tab : k.tab[s].choice \in own}

\* What a row says of a symbol: its value, and the values it offers.
Shows(mem, p) ==
  LET s == EntryAt(p).sym
  IN  CASE s = None -> "text"
        [] s # None /\ IsTri(s) /\ IsChoice(k, s) -> <<mem.cur[s].tri, mem.cur[s].val>>
        [] s # None /\ IsTri(s) /\ ~IsChoice(k, s)
             -> <<mem.cur[s].tri, {v \in 0..2 : TriInRange(k, mem, s, v)}>>
        [] OTHER -> mem.cur[s].val

\* All the rows of a sequence of rows and of those below them.
RECURSIVE RowsOf(_)
RowsOf(rows) == Range(rows) \cup UNION {RowsOf(rows[i].kids) : i \in DOMAIN rows}
===========================================================================
