---------------------------- MODULE AtomicCache -----------------------------
(***************************************************************************)
(* What the download directory promises to the rest of Buildroot: a file   *)
(* is absent or it is the complete file of a site that the configuration   *)
(* allows, and once it is there it never changes.                          *)
(***************************************************************************)
CONSTANTS Files, Sites, Absent

VARIABLES
  allowed,   (* the sites the configuration allows; it never changes       *)
  cache      (* cache[f]: the site f was downloaded from, or Absent        *)

Init == allowed \in SUBSET Sites /\ cache = [f \in Files |-> Absent]

Store(f, s) ==
  /\ cache[f] = Absent /\ s \in allowed
  /\ cache' = [cache EXCEPT ![f] = s]
  /\ UNCHANGED allowed

Next == \E f \in Files, s \in Sites : Store(f, s)

Spec == Init /\ [][Next]_<<allowed, cache>>
=============================================================================
