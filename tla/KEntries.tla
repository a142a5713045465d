----------------------------- MODULE KEntries -----------------------------
(***************************************************************************)
(* The menu entries of a finalized tree, as the programs that show them    *)
(* see them: support/kconfig/menu.c.  An entry is named by its path, the   *)
(* positions that lead to it from the root.                                *)
(***************************************************************************)
EXTENDS KConfData

EntryOf(k, path) == k.entries[path]
PathsOf(k) == DOMAIN k.entries
Subtree(k, path) == {p \in PathsOf(k) : IsPrefix(path, p)}
KidPaths(k, path) == [i \in DOMAIN EntryOf(k, path).list |-> Append(path, i)]
IsMenu(e) == e.prompt /\ e.type = "menu"

\* Every entry but the root is in the list of another; its symbol is in the table.
Rooted(k) ==
  /\ <<>> \in PathsOf(k)
  /\ \A p \in PathsOf(k) :
       /\ p \in Seq(Nat) /\ EntryOf(k, p).sym \in DOMAIN k.tab \cup {None}
       /\ LET list == EntryOf(k, p).list
          IN  /\ Len(list) \in Nat /\ DOMAIN list = 1..Len(list)
              /\ \A i \in DOMAIN list :
                   Append(p, i) \in PathsOf(k) /\ EntryOf(k, Append(p, i)) = list[i]
       /\ \A n \in 1..Len(p) :
            LET above == SubSeq(p, 1, n - 1)
            IN  above \in PathsOf(k) /\ p[n] \in DOMAIN EntryOf(k, above).list

\* An entry is visible when its prompt is, or while it is set, if something below it is.
MenuIsVisible(k, cur, path) ==
  LET visible[p \in Subtree(k, path)] ==
        LET e == EntryOf(k, p)
        IN  /\ e.prompt
            /\ CalcExpr(cur, e.visif) # 0
            /\ \/ CalcExpr(cur, e.cond) # 0
               \/ /\ e.sym # None /\ cur[e.sym].tri # 0
                  /\ \E i \in DOMAIN e.list : visible[Append(p, i)]
  IN  visible[path]

\* To find that out, menu_is_visible looks below an entry up to the first visible one; the
\* symbols it finds visible in this way count as set by the user from then on.
VisibleKids(k, cur, path) ==
  {i \in DOMAIN EntryOf(k, path).list : MenuIsVisible(k, cur, Append(path, i))}
FlaggedBelow(flagged, e, path, seen) ==
  UNION {flagged[Append(path, i)] : i \in 1..(IF seen = {} THEN Len(e.list) ELSE Min(seen))}
    \cup (IF seen = {} THEN {} ELSE {e.sym})
Flagged(k, cur, path) ==
  LET flagged[p \in Subtree(k, path)] ==
        LET e == EntryOf(k, p)
        IN  IF \/ ~e.prompt \/ CalcExpr(cur, e.visif) = 0 \/ CalcExpr(cur, e.cond) # 0
               \/ e.sym = None
               \/ (e.sym # None => cur[e.sym].tri = 0)
            THEN {}
            ELSE FlaggedBelow(flagged, e, p, VisibleKids(k, cur, p))
  IN  flagged[path]

\* Memory after the entries of the given paths have been asked for.
Flag(m, flagged) ==
  [m EXCEPT !.user = [s \in DOMAIN @ |-> IF s \in flagged THEN [@[s] EXCEPT !.has = TRUE]
                                         ELSE @[s]]]
DrawnAt(k, m, paths) == Flag(m, UNION {Flagged(k, m.cur, p) : p \in paths})

\* menu_get_parent_menu: the nearest menu around an entry, the root at last.
ParentMenu(k, path) ==
  LET around == {n \in 0..Len(path) : n = 0 \/ IsMenu(EntryOf(k, SubSeq(path, 1, n)))}
  IN  SubSeq(path, 1, Max(around))

\* Every entry around one, and itself, is visible.
AllVisible(k, m, path) == \A n \in 0..Len(path) : MenuIsVisible(k, m.cur, SubSeq(path, 1, n))
===========================================================================
