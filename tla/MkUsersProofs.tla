--------------------------- MODULE MkUsersProofs ----------------------------
(***************************************************************************)
(* No two users of a target directory ever have the same uid, for any      *)
(* tables, any skeleton whose users have distinct uids, and any number of  *)
(* runs and interruptions.                                                 *)
(*                                                                         *)
(* UidsUnique is not inductive: between the deletion of a user and its     *)
(* return the chosen uid is in the script only, and must not come into use *)
(* meanwhile.                                                              *)
(***************************************************************************)
EXTENDS MkUsers, WellFoundedInduction, TLAPS

(* The uid a user is about to get is nobody's.                             *)
PendingFree ==
  pc = "run" /\ Kind = "user" /\ step \in {"shadow", "append"} =>
    \A u \in DOMAIN passwd : passwd[u].uid # id

IInv == UidsUnique /\ PendingFree

(* Every set of naturals that is not empty has a least element, the one    *)
(* the loops over the ids stop at.                                         *)
LEMMA LeastExists ==
  ASSUME NEW S, S \subseteq Nat, S # {}
  PROVE  \E i \in S : \A j \in S : i <= j
<1>1. PICK i \in S : \A j \in S : ~(<<j, i>> \in OpToRel(<, Nat))
  BY NatLessThanWellFounded, WFMin
<1>2. \A j \in S : ~(j < i)
  BY <1>1 DEF OpToRel
<1>. QED  BY <1>2

(* The lowest unused id is unused.                                         *)
LEMMA LowestIsFree == FreeUids # {} => Lowest(FreeUids) \in FreeUids
<1>1. FreeUids \subseteq Nat
  BY UsersAssumption DEF FreeUids, Ids
<1>. QED  BY <1>1, LeastExists DEF Lowest

(* The uid that add_one_user goes on with belongs to the user or to nobody.*)
LEMMA ChosenUid ==
  ASSUME UidsUnique, Valid(Rec), NEW i \in UserIds,
         NEW u \in DOMAIN passwd, u # Rec.user
  PROVE  passwd[u].uid # i
<1>1. CASE Rec.uid # AutoId
  <2>1. i = Rec.uid /\ UsersOf(i) \subseteq {Rec.user}
    BY <1>1 DEF UserIds, Valid, UidValid
  <2>. QED  BY <2>1 DEF UsersOf
<1>2. CASE Rec.uid = AutoId /\ Rec.user \in DOMAIN passwd
  <2>1. i = passwd[Rec.user].uid
    BY <1>2 DEF UserIds, GenerateUid
  <2>. QED  BY <1>2, <2>1 DEF UidsUnique
<1>3. CASE Rec.uid = AutoId /\ Rec.user \notin DOMAIN passwd
  <2>1. FreeUids # {} /\ i = Lowest(FreeUids)
    BY <1>3 DEF UserIds, GenerateUid
  <2>2. i \in FreeUids
    BY <2>1, LowestIsFree
  <2>. QED  BY <2>2 DEF FreeUids, UsersOf
<1>. QED  BY <1>1, <1>2, <1>3

(* A step that leaves /etc/passwd alone keeps the uids unique, and keeps   *)
(* the pending uid free unless it starts to be pending.                    *)
LEMMA PasswdUnchanged ==
  ASSUME IInv, UNCHANGED passwd,
         \/ step' \notin {"shadow", "append"}
         \/ pc' # "run"
         \/ UNCHANGED <<table, job, pc, id>> /\ step \in {"shadow", "append"}
         \/ UNCHANGED <<table, job>> /\ Kind # "user"
  PROVE  IInv'
<1>1. UidsUnique'
  BY DEF IInv, UidsUnique
<1>2. PendingFree'
  BY DEF IInv, PendingFree, Kind, Rec
<1>. QED  BY <1>1, <1>2 DEF IInv

LEMMA RunStep ==
  ASSUME IInv, NEW t \in Tables, Run(t)
  PROVE  IInv'
BY PasswdUnchanged DEF Run

LEMMA RemoveUserStep ==
  ASSUME IInv, RemoveUser
  PROVE  IInv'
<1>. DEFINE me == Rec.user
<1>1. /\ DOMAIN passwd' = DOMAIN passwd \ {me}
      /\ \A u \in DOMAIN passwd' : passwd'[u] = passwd[u]
  BY DEF RemoveUser, Without
<1>2. UidsUnique'
  BY <1>1 DEF IInv, UidsUnique
<1>3. \A u \in DOMAIN passwd' : passwd'[u].uid # id'
  BY <1>1, ChosenUid DEF IInv, RemoveUser
<1>. QED  BY <1>2, <1>3 DEF IInv, PendingFree

LEMMA AppendUserStep ==
  ASSUME IInv, AppendUser
  PROVE  IInv'
<1>. DEFINE me == Rec.user
<1>1. /\ DOMAIN passwd' = DOMAIN passwd \cup {me}
      /\ passwd'[me].uid = id
      /\ \A u \in DOMAIN passwd : u # me => passwd'[u] = passwd[u]
  BY DEF AppendUser, With
<1>2. \A u \in DOMAIN passwd : passwd[u].uid # id
  BY DEF IInv, PendingFree, AppendUser, At
<1>3. UidsUnique'
  BY <1>1, <1>2 DEF IInv, UidsUnique
<1>4. step' = "appendShadow"
  BY DEF AppendUser, GoTo
<1>. QED  BY <1>3, <1>4 DEF IInv, PendingFree

(* Every state of every behaviour satisfies the invariant.                 *)
THEOREM Invariance == Spec => []IInv
<1>1. Init => IInv
  BY UsersAssumption DEF Init, IInv, UidsUnique, PendingFree
<1>2. IInv /\ [Next]_vars => IInv'
  <2>. SUFFICES ASSUME IInv, [Next]_vars PROVE IInv'
    OBVIOUS
  <2>1. CASE UNCHANGED vars
    BY <2>1 DEF vars, files, bounds, IInv, UidsUnique, PendingFree, Kind, Rec
  <2>2. CASE \E t \in Tables : Run(t)
    BY <2>2, RunStep
  <2>3. CASE NoGid \/ Reject \/ BadHome \/ Kill
    BY <2>3, PasswdUnchanged
    DEF NoGid, Reject, BadHome, Kill, Fail, Stop, files
  <2>4. CASE RemoveGroup
    BY <2>4, PasswdUnchanged DEF RemoveGroup, At, GoTo
  <2>5. CASE AppendGroup
    BY <2>5, PasswdUnchanged DEF AppendGroup, NextJob
  <2>6. CASE RemoveUser
    BY <2>6, RemoveUserStep
  <2>7. CASE RemoveShadow
    BY <2>7, PasswdUnchanged DEF RemoveShadow, At, GoTo
  <2>8. CASE AppendUser
    BY <2>8, AppendUserStep
  <2>9. CASE AppendShadow
    BY <2>9, PasswdUnchanged DEF AppendShadow, NextJob
  <2>10. CASE JoinGroup \/ ChownHome
    BY <2>10, PasswdUnchanged DEF JoinGroup, ChownHome, NextJob
  <2>11. CASE Finish
    BY <2>11, PasswdUnchanged DEF Finish, files
  <2>. QED
    BY <2>1, <2>2, <2>3, <2>4, <2>5, <2>6, <2>7, <2>8, <2>9, <2>10, <2>11 DEF Next
<1>. QED  BY <1>1, <1>2, PTL DEF Spec

(* generate_uid and check_user_validity keep their promise: a uid is       *)
(* "not already used by a user" when a user gets it, in every order of     *)
(* tables, errors and interruptions.                                       *)
THEOREM UsersDistinct == Spec => []UidsUnique
<1>1. IInv => UidsUnique
  BY DEF IInv
<1>. QED  BY <1>1, Invariance, PTL
=============================================================================
