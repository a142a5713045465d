--------------------------- MODULE PkgBuildProofs ---------------------------
(***************************************************************************)
(* Theorems about the package infrastructure, for every set of packages,   *)
(* every acyclic dependency relation and every set of commands.            *)
(***************************************************************************)
EXTENDS PkgBuild, SequenceTheorems, TLAPS

(* The type invariant needs to know that a recipe is running only below    *)
(* some target, since Current is a target only then.                       *)
LEMMA DepTargetsType ==
  ASSUME NEW p \in Pkgs
  PROVE  DepTargets(p) \in Seq(Targets)
<1>1. Deps[p] \in Seq(Pkgs)
  BY PkgAssumption DEF PkgAssumption
<1>2. \A i \in 1 .. Len(Deps[p]) : <<Deps[p][i], "pkg">> \in Targets
  BY <1>1 DEF Targets, Rules
<1> QED  BY <1>1, <1>2 DEF DepTargets

LEMMA RulePrereqsType ==
  ASSUME NEW p \in Pkgs, NEW n
  PROVE  RulePrereqs(p, n) \in Seq(Targets)
<1>1. \A r \in Rules : <<p, r>> \in Targets
  BY DEF Targets
<1>2. \A s \in Stamps : <<p, s>> \in Targets
  BY DEF Targets
<1>3. \A w \in Places : InstallPrereqs(p, w) \in Seq(Targets)
  <2> SUFFICES ASSUME NEW w \in Places
               PROVE  InstallPrereqs(p, w) \in Seq(Targets)
    OBVIOUS
  <2>1. InstallStamp(w) \in Stamps
    BY DEF InstallStamp, Stamps, Places
  <2>2. <<p, "build">> \in Targets /\ <<p, InstallStamp(w)>> \in Targets
    BY <1>1, <1>2, <2>1 DEF Rules
  <2>3. << <<p, "build">>, <<p, InstallStamp(w)>> >> \in Seq(Targets)
    BY <2>2
  <2> QED  BY <2>3 DEF InstallPrereqs
<1>4. DepTargets(p) \in Seq(Targets)
  BY DepTargetsType
<1>5. << <<p, "rsync">> >> \o DepTargets(p) \in Seq(Targets)
  BY <1>1, <1>4 DEF Rules
<1> QED  BY <1>1, <1>2, <1>3, <1>4, <1>5 DEF RulePrereqs, Rules, Stamps, Places

LEMMA TopListsType ==
  WorldTargets \in Seq(Targets) /\ RootfsPrereqs \in Seq(Targets)
<1>1. \A p \in Pkgs : <<p, "pkg">> \in Targets
  BY DEF Targets, Rules
<1> QED  BY <1>1, PkgAssumption DEF PkgAssumption, WorldTargets, RootfsPrereqs

LEMMA PrereqsType ==
  ASSUME NEW t \in Targets
  PROVE  Prereqs(t) \in Seq(Targets)
<1>1. \A r \in TopRules : <<Top, r>> \in Targets
  BY DEF Targets
<1>3. WorldTargets \in Seq(Targets) /\ RootfsPrereqs \in Seq(Targets)
  BY TopListsType
<1>4. AllPrereqs \in Seq(Targets)
  BY <1>1, <1>3 DEF AllPrereqs, TopRules
<1>5. t[1] # Top => t[1] \in Pkgs
  BY DEF Targets
<1> QED  BY <1>3, <1>4, <1>5, RulePrereqsType DEF Prereqs

(* The stamps a cleaning rule removes.                                     *)
LEMMA CleanListOver ==
  ASSUME NEW p \in Pkgs, NEW kind \in CleanKinds, NEW S,
         "rsynced" \in S, "built" \in S, "staging_installed" \in S,
         "target_installed" \in S, "images_installed" \in S,
         "host_installed" \in S, "configured" \in S
  PROVE  CleanList(kind, p) \in Seq(S)
<1>1. <<"rsynced">> \in Seq(S) /\ <<"configured">> \in Seq(S)
  OBVIOUS
<1>2. <<"built", "staging_installed", "target_installed", "images_installed",
        "host_installed">> \in Seq(S)
  OBVIOUS
<1>3. CleanForRebuild(p) \in Seq(S)
  BY <1>1, <1>2 DEF CleanForRebuild
<1> QED  BY <1>1, <1>3 DEF CleanList, CleanKinds

LEMMA CleanListType ==
  ASSUME NEW p \in Pkgs, NEW kind \in CleanKinds
  PROVE  CleanList(kind, p) \in Seq(Stamps)
  BY CleanListOver DEF Stamps

(* The target whose recipe runs is a target, of a package if it is not one *)
(* of the targets that belong to none.                                     *)
LEMMA CurrentType ==
  ASSUME stack \in Seq(Targets), stack # <<>>
  PROVE  /\ Current \in Targets
         /\ SubSeq(stack, 1, Len(stack) - 1) \in Seq(Targets)
  BY DEF Current

(* Finishing a target keeps the walk well typed.                           *)
LEMMA PopType ==
  ASSUME TypeOK, stack # <<>>, Pop
  PROVE  stack' \in Seq(Targets) /\ visited' \in SUBSET Targets /\ recipe' \in Nat
  BY CurrentType DEF TypeOK, Pop

-----------------------------------------------------------------------------
(* Type correctness, one lemma per group of actions.                       *)

LEMMA InitType == Init => TypeOK
  BY PkgAssumption DEF PkgAssumption, Init, TypeOK, NoTree, Nothing, Tree, Content,
     CleanKinds

LEMMA CommandType ==
  ASSUME TypeOK,
         NEW c \in Commands,
         \/ Invoke(c)
         \/ \E kind \in CleanKinds, p \in Pkgs : InvokeClean(kind, p, c)
  PROVE  TypeOK'
<1>1. c \in Seq(Targets)
  BY PkgAssumption DEF PkgAssumption, Targets
<1>2. CASE Invoke(c)
  BY <1>1, <1>2, PkgAssumption DEF PkgAssumption, Invoke, TypeOK, disk, CleanKinds
<1>3. ASSUME NEW kind \in CleanKinds, NEW p \in Pkgs, InvokeClean(kind, p, c)
      PROVE  TypeOK'
  <2>1. << <<p, "pkg">> >> \in Seq(Targets)
    BY DEF Targets, Rules
  <2>2. goals' \in Seq(Targets)
    BY <1>1, <1>3, <2>1 DEF InvokeClean
  <2>3. rms' \in Seq(Stamps)
    BY <1>3, CleanListType DEF InvokeClean
  <2>4. cmd' \in [kind : CleanKinds \cup {"make"}, pkg : Pkgs \cup {Top},
                 ver : 0 .. MaxVer]
    BY <1>3, PkgAssumption DEF InvokeClean, TypeOK, PkgAssumption
  <2>5. cleans' \in 0 .. MaxCleans
    BY <1>3, PkgAssumption DEF InvokeClean, TypeOK, PkgAssumption
  <2> QED  BY <1>3, <2>2, <2>3, <2>4, <2>5 DEF InvokeClean, TypeOK, disk
<1> QED  BY <1>2, <1>3

LEMMA ExitType ==
  ASSUME TypeOK, Exit, aborts' \in 0 .. MaxAborts
  PROVE  TypeOK'
  BY DEF Exit, TypeOK, disk

(* A missing tree and a missing result are values of their types.          *)
LEMMA EmptyType == NoTree \in Tree /\ Nothing \in Content
  BY PkgAssumption DEF PkgAssumption, NoTree, Nothing, Tree, Content

LEMMA EditType ==
  ASSUME TypeOK, NEW p \in Pkgs, EditSource(p)
  PROVE  TypeOK'
<1>1. src' \in [Pkgs -> 1 .. MaxVer]
  BY PkgAssumption DEF PkgAssumption, EditSource, TypeOK
<1> QED  BY <1>1 DEF EditSource, TypeOK, disk, walk

LEMMA CleanType ==
  ASSUME TypeOK, RmStamp \/ Dirclean
  PROVE  TypeOK'
<1>1. CASE RmStamp
  <2>1. stamps' \in [Pkgs -> SUBSET Stamps]
    BY <1>1 DEF RmStamp, TypeOK
  <2>2. rms' \in Seq(Stamps)
    BY <1>1 DEF RmStamp, TypeOK
  <2>3. phase' \in {"idle", "clean", "update"}
    BY <1>1 DEF RmStamp
  <2> QED  BY <1>1, <2>1, <2>2, <2>3 DEF RmStamp, TypeOK, walk
<1>2. CASE Dirclean
  <2>1. /\ tree' \in [Pkgs -> Tree] /\ stamps' \in [Pkgs -> SUBSET Stamps]
        /\ conf' \in [Pkgs -> Content] /\ obj' \in [Pkgs -> Content]
    BY <1>2, EmptyType DEF Dirclean, TypeOK
  <2> QED  BY <1>2, <2>1 DEF Dirclean, TypeOK, walk
<1> QED  BY <1>1, <1>2

LEMMA WalkType ==
  ASSUME TypeOK, StartGoal \/ Descend \/ Skip \/ Succeed
  PROVE  TypeOK'
<1>1. CASE StartGoal
  BY <1>1 DEF StartGoal, TypeOK, disk
<1>2. CASE Descend
  <2>1. PICK i \in Pending(Current) : stack' = Append(stack, Prereqs(Current)[i])
    BY <1>2 DEF Descend
  <2>2. Current \in Targets
    BY <1>2, CurrentType DEF Descend, TypeOK
  <2>3. Prereqs(Current)[i] \in Targets
    BY <2>1, <2>2, PrereqsType DEF Pending
  <2>4. stack' \in Seq(Targets)
    BY <2>1, <2>3 DEF TypeOK
  <2> QED  BY <1>2, <2>4 DEF Descend, TypeOK, disk
<1>3. CASE Skip
  BY <1>3, PopType DEF Skip, Ready, TypeOK, disk
<1>4. CASE Succeed
  BY <1>4 DEF Succeed, TypeOK, disk
<1> QED  BY <1>1, <1>2, <1>3, <1>4

(* A recipe changes the disk and, when it ends, the walk.                  *)
LEMMA RecipeStepType ==
  ASSUME TypeOK, Same, stack # <<>>,
         Pop \/ (stack' = stack /\ visited' = visited /\ recipe' \in Nat),
         /\ stamps' \in [Pkgs -> SUBSET Stamps] /\ tree' \in [Pkgs -> Tree]
         /\ conf' \in [Pkgs -> Content] /\ obj' \in [Pkgs -> Content]
         /\ inst' \in [Pkgs -> [Places -> Content]]
         /\ image' \in [Pkgs -> Content]
  PROVE  TypeOK'
<1>1. stack' \in Seq(Targets) /\ visited' \in SUBSET Targets /\ recipe' \in Nat
  BY PopType DEF TypeOK
<1> QED  BY <1>1 DEF TypeOK, Same

LEMMA RecipeType ==
  ASSUME TypeOK, NEW p \in Pkgs, Recipe(p)
  PROVE  TypeOK'
<1> USE DEF At, Ready, Start
<1>1. \A s \in Stamps : Touch(p, s) => stamps' \in [Pkgs -> SUBSET Stamps]
  BY DEF Touch, TypeOK
<1>2. src[p] \in 0 .. MaxVer /\ NPatches[p] \in Nat
  BY PkgAssumption DEF PkgAssumption, TypeOK
<1>3. /\ tree[p] = [ver |-> tree[p].ver, full |-> tree[p].full,
                    applied |-> tree[p].applied]
      /\ tree[p].ver \in 0 .. MaxVer /\ tree[p].applied \in Nat
  BY DEF TypeOK, Tree
<1>4. CASE Download(p)
  BY <1>4, <1>1, RecipeStepType DEF Download, TypeOK, Stamps
<1>5. CASE BeginExtract(p)
  BY <1>5, EmptyType, RecipeStepType DEF BeginExtract, TypeOK
<1>6. CASE EndExtract(p)
  BY <1>6, <1>1, <1>2, RecipeStepType DEF EndExtract, TypeOK, Tree, Stamps
<1>7. CASE BeginRsync(p)
  BY <1>7, RecipeStepType DEF BeginRsync, TypeOK, Tree
<1>8. CASE EndRsync(p)
  BY <1>8, <1>1, <1>2, RecipeStepType DEF EndRsync, TypeOK, Tree, Stamps
<1>9. CASE BeginPatch(p)
  BY <1>9, RecipeStepType DEF BeginPatch, TypeOK, disk
<1>10. CASE ApplyPatch(p)
  <2>1. recipe' \in Nat /\ recipe \in Nat
    BY <1>10, <1>2 DEF ApplyPatch, TypeOK
  <2>2. tree' \in [Pkgs -> Tree]
    BY <1>10, <2>1 DEF ApplyPatch, TypeOK, Tree
  <2> QED  BY <1>10, <2>1, <2>2, RecipeStepType DEF ApplyPatch, TypeOK
<1>11. CASE EndPatch(p)
  BY <1>11, <1>1, RecipeStepType DEF EndPatch, TypeOK, Stamps
<1>12. CASE FailPatch(p)
  BY <1>12, ExitType DEF FailPatch, TypeOK
<1>13. CASE BeginConfigure(p)
  BY <1>13, RecipeStepType DEF BeginConfigure, TypeOK, Content
<1>14. CASE EndConfigure(p)
  BY <1>14, <1>1, <1>3, RecipeStepType DEF EndConfigure, TypeOK, Content, Stamps, TreeOk
<1>15. CASE BeginBuild(p)
  BY <1>15, RecipeStepType DEF BeginBuild, TypeOK, Content
<1>16. CASE EndBuild(p)
  BY <1>16, <1>1, <1>3, RecipeStepType DEF EndBuild, TypeOK, Content, Stamps, TreeOk
<1>17. ASSUME NEW w \in Places, BeginInstall(p, w)
       PROVE  TypeOK'
  <2>1. inst[p] \in [Places -> Content]
    BY DEF TypeOK
  <2>2. [inst[p] EXCEPT ![w].ok = FALSE] \in [Places -> Content]
    BY <2>1 DEF Content
  <2>3. inst' \in [Pkgs -> [Places -> Content]]
    BY <1>17, <2>2 DEF BeginInstall, TypeOK
  <2> QED  BY <1>17, <2>3, RecipeStepType DEF BeginInstall, TypeOK
<1>18. ASSUME NEW w \in Places, EndInstall(p, w)
       PROVE  TypeOK'
  <2>1. InstallStamp(w) \in Stamps
    BY DEF InstallStamp, Places, Stamps
  <2> QED  BY <1>18, <1>1, <2>1, RecipeStepType DEF EndInstall, TypeOK
<1> QED
  BY <1>4, <1>5, <1>6, <1>7, <1>8, <1>9, <1>10, <1>11, <1>12, <1>13, <1>14,
     <1>15, <1>16, <1>17, <1>18 DEF Recipe

LEMMA TopType ==
  ASSUME TypeOK, Finalize \/ BeginRootfs \/ EndRootfs
  PROVE  TypeOK'
<1> USE DEF Ready
<1>1. CASE Finalize
  BY <1>1, RecipeStepType DEF Finalize, TypeOK, disk
<1>2. CASE BeginRootfs
  BY <1>2, RecipeStepType DEF BeginRootfs, Start, TypeOK, Content
<1>3. CASE EndRootfs
  BY <1>3, RecipeStepType DEF EndRootfs, TypeOK, Places
<1> QED  BY <1>1, <1>2, <1>3

LEMMA NextType == TypeOK /\ [Next]_vars => TypeOK'
<1> SUFFICES ASSUME TypeOK, [Next]_vars
             PROVE  TypeOK'
  OBVIOUS
<1>1. CASE UNCHANGED vars
  BY <1>1 DEF vars, disk, walk, TypeOK
<1>2. CASE \E p \in Pkgs : EditSource(p)
  BY <1>2, EditType
<1>3. CASE \/ \E c \in Commands : Invoke(c)
           \/ \E kind \in CleanKinds, p \in Pkgs, c \in Commands :
                InvokeClean(kind, p, c)
  BY <1>3, CommandType
<1>4. CASE MakeStep
  BY <1>4, CleanType, WalkType, RecipeType, TopType DEF MakeStep
<1>5. CASE Abort
  <2>1. aborts' \in 0 .. MaxAborts
    BY <1>5, PkgAssumption DEF PkgAssumption, Abort, TypeOK
  <2> QED  BY <1>5, <2>1, ExitType DEF Abort
<1> QED  BY <1>1, <1>2, <1>3, <1>4, <1>5 DEF Next

(* Every reachable state is well typed.                                    *)
THEOREM TypeCorrect == Spec => []TypeOK
  BY InitType, NextType, PTL DEF Spec

-----------------------------------------------------------------------------
(* The inductive invariant.  It says what make's walk guarantees to the    *)
(* recipe that runs (WalkInv) and what the disk looks like (DiskInv).      *)

(* Outside an update nothing is being walked, and no recipe runs then.     *)
IdleWalk ==
  /\ phase # "update" => stack = <<>> /\ visited = {}
  /\ stack = <<>> => recipe = 0

(* A finished target has its stamp and its prerequisites are finished.     *)
VisitedDone ==
  \A t \in visited :
    /\ t[1] \in Pkgs /\ t[2] \in Stamps => t[2] \in stamps[t[1]]
    /\ \A i \in 1 .. Len(Prereqs(t)) : Prereqs(t)[i] \in visited

(* The walk goes from goals, which are phony, from target to prerequisite, *)
(* after the earlier prerequisites are finished.                           *)
Phony == (Pkgs \X Rules) \cup ({Top} \X TopRules)
GoalsPhony ==
  /\ goals \in Seq(Phony)
  /\ stack # <<>> => stack[1] \in Phony

StackChain ==
  \A i \in 1 .. Len(stack) - 1 :
    \E k \in 1 .. Len(Prereqs(stack[i])) :
      /\ stack[i + 1] = Prereqs(stack[i])[k]
      /\ \A j \in 1 .. k - 1 : Prereqs(stack[i])[j] \in visited

WalkInv == IdleWalk /\ VisitedDone /\ GoalsPhony /\ StackChain

(* Which stamps a package can have, and the tree between two patches.      *)
SourceKinds ==
  \A p \in Pkgs :
    /\ p \in Override => stamps[p] \cap {"extracted", "patched"} = {}
    /\ p \notin Override => "rsynced" \notin stamps[p]
    /\ "patched" \in stamps[p] => "extracted" \in stamps[p]

PatchCount ==
  \A p \in Pkgs :
    /\ tree[p].applied <= NPatches[p]
    /\ stack # <<>> /\ Current = <<p, "patched">> /\ recipe > 1
         => tree[p].applied = recipe - 1

Removable == \A i \in 1 .. Len(rms) : rms[i] \notin {"extracted", "patched"}

IInv == TypeOK /\ WalkInv /\ SourceKinds /\ PatchCount /\ Removable
               /\ StampIntegrity

-----------------------------------------------------------------------------
(* The elements of short lists.                                            *)
LEMMA AllOne ==
  ASSUME NEW S, NEW q, NEW a, q = <<a>>, \A i \in 1 .. Len(q) : q[i] \in S
  PROVE  a \in S
  OBVIOUS

LEMMA AllTwo ==
  ASSUME NEW S, NEW q, NEW a, NEW b, q = <<a, b>>,
         \A i \in 1 .. Len(q) : q[i] \in S
  PROVE  a \in S /\ b \in S
  OBVIOUS

LEMMA AllThree ==
  ASSUME NEW S, NEW q, NEW a, NEW b, NEW c, q = <<a, b, c>>,
         \A i \in 1 .. Len(q) : q[i] \in S
  PROVE  a \in S /\ b \in S /\ c \in S
  OBVIOUS

(* A sequence without its last element.                                    *)
LEMMA FrontOf ==
  ASSUME NEW S, NEW q \in Seq(S), q # <<>>
  PROVE  /\ Len(SubSeq(q, 1, Len(q) - 1)) = Len(q) - 1
         /\ \A i \in 1 .. Len(q) - 1 : SubSeq(q, 1, Len(q) - 1)[i] = q[i]
<1>1. Len(q) \in Nat \ {0}
  OBVIOUS
<1> DEFINE n == Len(q) - 1
<1>2. n \in Nat /\ n <= Len(q)
  BY <1>1
<1>3. \A i \in 1 .. n : q[i] \in S
  BY <1>2
<1> HIDE DEF n
<1>4. /\ Len(SubSeq(q, 1, n)) = IF 1 <= n THEN n - 1 + 1 ELSE 0
      /\ \A i \in 1 .. n - 1 + 1 : SubSeq(q, 1, n)[i] = q[1 + i - 1]
  BY <1>2, <1>3, SubSeqProperties
<1>5. Len(SubSeq(q, 1, n)) = n
  BY <1>2, <1>4
<1>6. \A i \in 1 .. n : SubSeq(q, 1, n)[i] = q[i]
  <2>1. \A i \in 1 .. n : i \in 1 .. n - 1 + 1 /\ 1 + i - 1 = i
    BY <1>2
  <2> QED  BY <1>4, <2>1
<1> QED  BY <1>5, <1>6 DEF n

(* What the rules say, rule by rule.                                       *)
LEMMA PrereqsOf ==
  ASSUME NEW p \in Pkgs
  PROVE  /\ Prereqs(<<p, "pkg">>) = << <<p, "install">> >>
         /\ Prereqs(<<p, "install">>) =
              IF p \in Host THEN << <<p, "install-host">> >>
              ELSE << <<p, "install-staging">>, <<p, "install-target">>,
                      <<p, "install-images">> >>
         /\ Prereqs(<<p, "install-staging">>) = InstallPrereqs(p, "staging")
         /\ Prereqs(<<p, "install-target">>) = InstallPrereqs(p, "target")
         /\ Prereqs(<<p, "install-images">>) = InstallPrereqs(p, "images")
         /\ Prereqs(<<p, "install-host">>) = InstallPrereqs(p, "host")
         /\ Prereqs(<<p, "build">>) = << <<p, "configure">>, <<p, "built">> >>
         /\ Prereqs(<<p, "configure">>) =
              IF p \in Override
              THEN << <<p, "depends">>, <<p, "configured">> >>
              ELSE << <<p, "patch">>, <<p, "depends">>, <<p, "configured">> >>
         /\ Prereqs(<<p, "patch">>) =
              IF p \in Override THEN << <<p, "rsync">> >>
              ELSE << <<p, "extract">>, <<p, "patched">> >>
         /\ Prereqs(<<p, "extract">>) =
              IF p \in Override THEN << <<p, "rsync">> >>
              ELSE << <<p, "source">>, <<p, "extracted">> >>
         /\ Prereqs(<<p, "depends">>) =
              IF p \in Override THEN << <<p, "rsync">> >> \o DepTargets(p)
              ELSE DepTargets(p)
         /\ Prereqs(<<p, "rsync">>) =
              IF p \in Override THEN << <<p, "rsynced">> >> ELSE <<>>
         /\ Prereqs(<<p, "source">>) =
              IF p \in Override THEN << <<p, "rsync_sourced">> >>
              ELSE << <<p, "downloaded">> >>
         /\ \A n \in Stamps \cup {"rsync_sourced"} : Prereqs(<<p, n>>) = <<>>
<1>1. p # Top
  BY PkgAssumption DEF PkgAssumption
<1>2. \A n : Prereqs(<<p, n>>) = RulePrereqs(p, n)
  BY <1>1 DEF Prereqs
<1> QED  BY <1>2 DEF RulePrereqs, Stamps

(* The places where a package is installed.                                *)
LEMMA InstallPrereqsOf ==
  ASSUME NEW p \in Pkgs, NEW w \in Places
  PROVE  /\ InstallStamp(w) \in Stamps
         /\ InstallStamp(w) \in {"staging_installed", "target_installed",
                                 "images_installed", "host_installed"}
         /\ Installs(p, w) => InstallPrereqs(p, w) =
                               << <<p, "build">>, <<p, InstallStamp(w)>> >>
         /\ ~Installs(p, w) => InstallPrereqs(p, w) = <<>>
         /\ w = "host" <=> InstallStamp(w) = "host_installed"
         /\ w = "staging" <=> InstallStamp(w) = "staging_installed"
         /\ w = "target" <=> InstallStamp(w) = "target_installed"
         /\ w = "images" <=> InstallStamp(w) = "images_installed"
<1>1. /\ InstallStamp("staging") = "staging_installed"
      /\ InstallStamp("target") = "target_installed"
      /\ InstallStamp("images") = "images_installed"
      /\ InstallStamp("host") = "host_installed"
  BY DEF InstallStamp
<1>2. w \in {"staging", "target", "images", "host"}
  BY DEF Places
<1> QED  BY <1>1, <1>2 DEF Stamps, InstallPrereqs

(* What is finished implies which stamps are there.                        *)
LEMMA VisitedClosure ==
  ASSUME VisitedDone, NEW p \in Pkgs
  PROVE  /\ <<p, "rsync">> \in visited /\ p \in Override => "rsynced" \in stamps[p]
         /\ <<p, "depends">> \in visited /\ p \in Override =>
              "rsynced" \in stamps[p]
         /\ <<p, "extract">> \in visited /\ p \notin Override =>
              "extracted" \in stamps[p]
         /\ <<p, "patch">> \in visited /\ p \notin Override =>
              {"extracted", "patched"} \subseteq stamps[p]
         /\ <<p, "configure">> \in visited =>
              /\ "configured" \in stamps[p]
              /\ <<p, "depends">> \in visited
              /\ p \notin Override => <<p, "patch">> \in visited
         /\ <<p, "build">> \in visited =>
              /\ "built" \in stamps[p]
              /\ <<p, "configure">> \in visited
<1> DEFINE Done(t) == \A i \in 1 .. Len(Prereqs(t)) : Prereqs(t)[i] \in visited
<1>1. \A t \in visited : Done(t)
  BY DEF VisitedDone
<1>2. \A s \in Stamps : <<p, s>> \in visited => s \in stamps[p]
  BY DEF VisitedDone
<1>3. <<p, "rsync">> \in visited /\ p \in Override => "rsynced" \in stamps[p]
  <2>1. p \in Override => Prereqs(<<p, "rsync">>) = << <<p, "rsynced">> >>
    BY PrereqsOf
  <2>2. <<p, "rsync">> \in visited /\ p \in Override => <<p, "rsynced">> \in visited
    BY <1>1, <2>1, AllOne
  <2> QED  BY <1>2, <2>2 DEF Stamps
<1>4. <<p, "depends">> \in visited /\ p \in Override => <<p, "rsync">> \in visited
  <2> SUFFICES ASSUME <<p, "depends">> \in visited, p \in Override
               PROVE  <<p, "rsync">> \in visited
    OBVIOUS
  <2>1. Prereqs(<<p, "depends">>) = << <<p, "rsync">> >> \o DepTargets(p)
    BY PrereqsOf
  <2>2. DepTargets(p) \in Seq(Targets)
    BY DepTargetsType
  <2>3. << <<p, "rsync">> >> \in Seq(Targets)
    BY DEF Targets, Rules
  <2>4. /\ Len(<< <<p, "rsync">> >> \o DepTargets(p)) = Len(DepTargets(p)) + 1
        /\ (<< <<p, "rsync">> >> \o DepTargets(p))[1] = <<p, "rsync">>
        /\ Len(DepTargets(p)) \in Nat
    BY <2>2, <2>3
  <2>5. /\ Len(Prereqs(<<p, "depends">>)) = Len(DepTargets(p)) + 1
        /\ Prereqs(<<p, "depends">>)[1] = <<p, "rsync">>
    BY <2>1, <2>4, Zenon
  <2>7. 1 \in 1 .. Len(Prereqs(<<p, "depends">>))
    BY <2>4, <2>5
  <2>6. Done(<<p, "depends">>)
    BY <1>1
  <2> QED  BY <2>5, <2>6, <2>7
<1>5. <<p, "extract">> \in visited /\ p \notin Override =>
        "extracted" \in stamps[p]
  <2>1. p \notin Override =>
          Prereqs(<<p, "extract">>) = << <<p, "source">>, <<p, "extracted">> >>
    BY PrereqsOf
  <2>2. <<p, "extract">> \in visited /\ p \notin Override =>
          <<p, "extracted">> \in visited
    BY <1>1, <2>1, AllTwo
  <2> QED  BY <1>2, <2>2 DEF Stamps
<1>6. <<p, "patch">> \in visited /\ p \notin Override =>
        {"extracted", "patched"} \subseteq stamps[p]
  <2>1. p \notin Override =>
          Prereqs(<<p, "patch">>) = << <<p, "extract">>, <<p, "patched">> >>
    BY PrereqsOf
  <2>2. <<p, "patch">> \in visited /\ p \notin Override =>
          <<p, "extract">> \in visited /\ <<p, "patched">> \in visited
    BY <1>1, <2>1, AllTwo
  <2> QED  BY <1>2, <1>5, <2>2 DEF Stamps
<1>7. <<p, "configure">> \in visited =>
        /\ "configured" \in stamps[p]
        /\ <<p, "depends">> \in visited
        /\ p \notin Override => <<p, "patch">> \in visited
  <2>1. p \in Override =>
          Prereqs(<<p, "configure">>) = << <<p, "depends">>, <<p, "configured">> >>
    BY PrereqsOf
  <2>2. p \notin Override =>
          Prereqs(<<p, "configure">>) =
            << <<p, "patch">>, <<p, "depends">>, <<p, "configured">> >>
    BY PrereqsOf
  <2>3. <<p, "configure">> \in visited =>
          /\ <<p, "configured">> \in visited /\ <<p, "depends">> \in visited
          /\ p \notin Override => <<p, "patch">> \in visited
    BY <1>1, <2>1, <2>2, AllTwo, AllThree
  <2> QED  BY <1>2, <2>3 DEF Stamps
<1>8. <<p, "build">> \in visited =>
        "built" \in stamps[p] /\ <<p, "configure">> \in visited
  <2>1. Prereqs(<<p, "build">>) = << <<p, "configure">>, <<p, "built">> >>
    BY PrereqsOf
  <2>2. <<p, "build">> \in visited =>
          <<p, "built">> \in visited /\ <<p, "configure">> \in visited
    BY <1>1, <2>1, AllTwo
  <2> QED  BY <1>2, <2>2 DEF Stamps
<1> QED  BY <1>3, <1>4, <1>5, <1>6, <1>7, <1>8

(* A rule that asks for a stamp asks for certain other targets before it.  *)
LEMMA StampParent ==
  ASSUME NEW t \in Targets, NEW k \in 1 .. Len(Prereqs(t)),
         NEW p \in Pkgs, NEW s \in Stamps, Prereqs(t)[k] = <<p, s>>,
         \A j \in 1 .. k - 1 : Prereqs(t)[j] \in visited
  PROVE  /\ s = "extracted" => p \notin Override
         /\ s = "rsynced" => p \in Override
         /\ s = "patched" => p \notin Override /\ <<p, "extract">> \in visited
         /\ s = "configured" => /\ <<p, "depends">> \in visited
                                /\ p \notin Override => <<p, "patch">> \in visited
         /\ s = "built" => <<p, "configure">> \in visited
         /\ s \in {"staging_installed", "target_installed", "images_installed",
                   "host_installed"} => <<p, "build">> \in visited
<1>1. CASE t[1] = Top
  <2>1. \A i \in 1 .. Len(Prereqs(t)) : Prereqs(t)[i][2] \in {"pkg", "target-finalize", "rootfs"}
    <3>1. WorldTargets \in Seq(Targets) /\ RootfsPrereqs \in Seq(Targets)
      BY TopListsType
    <3>2. \A i \in 1 .. Len(WorldTargets) : WorldTargets[i][2] = "pkg"
      BY PkgAssumption DEF PkgAssumption, WorldTargets
    <3>3. \A i \in 1 .. Len(RootfsPrereqs) : RootfsPrereqs[i][2] = "pkg"
      BY PkgAssumption DEF PkgAssumption, RootfsPrereqs
    <3>4. << <<Top, "target-finalize">>, <<Top, "rootfs">> >> \in Seq(Targets)
      BY DEF Targets, TopRules
    <3>5. \A i \in 1 .. Len(AllPrereqs) :
            AllPrereqs[i][2] \in {"pkg", "target-finalize", "rootfs"}
      BY <3>1, <3>2, <3>4 DEF AllPrereqs
    <3> QED  BY <1>1, <3>3, <3>5 DEF Prereqs
  <2>2. s \in {"pkg", "target-finalize", "rootfs"}
    BY <2>1
  <2> QED  BY <2>2 DEF Stamps
<1>2. CASE t[1] # Top
  <2>1. PICK q \in Pkgs, n \in Stamps \cup Rules : t = <<q, n>>
    BY <1>2 DEF Targets
  <2>2. CASE n \in Stamps \cup {"rsync_sourced"}
    <3>1. Prereqs(t) = <<>>
      BY <2>1, <2>2, PrereqsOf
    <3> QED  BY <3>1
  <2>3. CASE n = "depends"
    <3>1. \A i \in 1 .. Len(DepTargets(q)) : DepTargets(q)[i][2] = "pkg"
      BY PkgAssumption DEF PkgAssumption, DepTargets
    <3>2. DepTargets(q) \in Seq(Targets) /\ << <<q, "rsync">> >> \in Seq(Targets)
      BY DepTargetsType DEF Targets, Rules
    <3>3. Prereqs(t) = DepTargets(q) \/ Prereqs(t) = << <<q, "rsync">> >> \o DepTargets(q)
      BY <2>1, <2>3, PrereqsOf
    <3>4. Prereqs(t)[k][2] \in {"pkg", "rsync"}
      BY <3>1, <3>2, <3>3
    <3> QED  BY <3>4 DEF Stamps
  <2>4. CASE n \in {"install-staging", "install-target", "install-images", "install-host"}
    <3>1. PICK w \in Places : Prereqs(t) = InstallPrereqs(q, w)
      BY <2>1, <2>4, PrereqsOf DEF Places
    <3>2. Prereqs(t) = << <<q, "build">>, <<q, InstallStamp(w)>> >>
      BY <3>1, InstallPrereqsOf
    <3>3. InstallStamp(w) \in {"staging_installed", "target_installed",
                              "images_installed", "host_installed"}
      BY InstallPrereqsOf
    <3>4. k = 2 /\ q = p /\ s = InstallStamp(w) /\ <<q, "build">> \in visited
      BY <3>2 DEF Stamps
    <3> QED  BY <3>3, <3>4
  <2>5. CASE n \in {"pkg", "install"}
    <3>1. \/ Prereqs(t) = << <<q, "install">> >>
          \/ Prereqs(t) = << <<q, "install-host">> >>
          \/ Prereqs(t) = << <<q, "install-staging">>, <<q, "install-target">>,
                            <<q, "install-images">> >>
      BY <2>1, <2>5, PrereqsOf
    <3>2. s \in Rules
      BY <3>1 DEF Rules
    <3> QED  BY <3>2 DEF Rules, Stamps
  <2>6. CASE n = "build"
    <3>1. Prereqs(t) = << <<q, "configure">>, <<q, "built">> >>
      BY <2>1, <2>6, PrereqsOf
    <3>2. \/ Prereqs(t)[k] = <<q, "configure">>
          \/ Prereqs(t)[k] = <<q, "built">> /\ <<q, "configure">> \in visited
      BY <3>1
    <3> QED  BY <3>2 DEF Stamps
  <2>7. CASE n = "configure" /\ q \in Override
    <3>1. Prereqs(t) = << <<q, "depends">>, <<q, "configured">> >>
      BY <2>1, <2>7, PrereqsOf
    <3>2. \/ Prereqs(t)[k] = <<q, "depends">>
          \/ Prereqs(t)[k] = <<q, "configured">> /\ <<q, "depends">> \in visited
      BY <3>1
    <3> QED  BY <2>7, <3>2 DEF Stamps
  <2>8. CASE n = "configure" /\ q \notin Override
    <3>1. Prereqs(t) = << <<q, "patch">>, <<q, "depends">>, <<q, "configured">> >>
      BY <2>1, <2>8, PrereqsOf
    <3>2. \/ Prereqs(t)[k] = <<q, "patch">>
          \/ Prereqs(t)[k] = <<q, "depends">>
          \/ /\ Prereqs(t)[k] = <<q, "configured">>
             /\ <<q, "patch">> \in visited /\ <<q, "depends">> \in visited
      BY <3>1
    <3> QED  BY <3>2 DEF Stamps
  <2>9. CASE n \in {"patch", "extract", "rsync", "source"} /\ q \in Override
    <3>1. \/ Prereqs(t) = << <<q, "rsync">> >>
          \/ Prereqs(t) = << <<q, "rsynced">> >>
          \/ Prereqs(t) = << <<q, "rsync_sourced">> >>
      BY <2>1, <2>9, PrereqsOf
    <3>2. s = "rsynced" /\ p = q
      BY <3>1 DEF Stamps
    <3> QED  BY <2>9, <3>2
  <2>10. CASE n = "patch" /\ q \notin Override
    <3>1. Prereqs(t) = << <<q, "extract">>, <<q, "patched">> >>
      BY <2>1, <2>10, PrereqsOf
    <3>2. \/ Prereqs(t)[k] = <<q, "extract">>
          \/ Prereqs(t)[k] = <<q, "patched">> /\ <<q, "extract">> \in visited
      BY <3>1
    <3> QED  BY <2>10, <3>2 DEF Stamps
  <2>11. CASE n \in {"extract", "source"} /\ q \notin Override
    <3>1. \/ Prereqs(t) = << <<q, "source">>, <<q, "extracted">> >>
          \/ Prereqs(t) = << <<q, "downloaded">> >>
      BY <2>1, <2>11, PrereqsOf
    <3>2. s \in {"extracted", "downloaded"} /\ p = q
      BY <3>1 DEF Stamps
    <3> QED  BY <2>11, <3>2
  <2>12. CASE n = "rsync" /\ q \notin Override
    <3>1. Prereqs(t) = <<>>
      BY <2>1, <2>12, PrereqsOf
    <3> QED  BY <3>1
  <2> QED  BY <2>1, <2>2, <2>3, <2>4, <2>5, <2>6, <2>7, <2>8, <2>9, <2>10,
            <2>11, <2>12 DEF Rules
<1> QED  BY <1>1, <1>2

(* What the walk guarantees to the recipe of a stamp.                      *)
LEMMA RecipeContext ==
  ASSUME TypeOK, WalkInv, Ready,
         NEW p \in Pkgs, NEW s \in Stamps, Current = <<p, s>>
  PROVE  /\ s = "extracted" => p \notin Override
         /\ s = "rsynced" => p \in Override
         /\ s = "patched" => p \notin Override /\ "extracted" \in stamps[p]
         /\ s \in {"configured", "built", "staging_installed", "target_installed",
                   "images_installed", "host_installed"} =>
              /\ p \in Override => "rsynced" \in stamps[p]
              /\ p \notin Override => {"extracted", "patched"} \subseteq stamps[p]
              /\ <<p, "depends">> \in visited
              /\ s # "configured" => "configured" \in stamps[p]
              /\ s \notin {"configured", "built"} => "built" \in stamps[p]
<1>1. stack \in Seq(Targets) /\ stack # <<>>
  BY DEF TypeOK, Ready
<1>2. Len(stack) >= 2
  <2>1. <<p, s>> \notin Phony
    BY PkgAssumption DEF PkgAssumption, Phony, Rules, Stamps
  <2>2. Len(stack) = 1 => stack[1] = <<p, s>>
    BY <1>1 DEF Current
  <2>3. stack[1] \in Phony
    BY <1>1 DEF WalkInv, GoalsPhony
  <2>4. Len(stack) \in Nat \ {0}
    BY <1>1
  <2>5. Len(stack) # 1
    BY <2>1, <2>2, <2>3
  <2>6. \A n \in Nat \ {0} : n # 1 => n >= 2
    OBVIOUS
  <2> QED  BY <2>4, <2>5, <2>6
<1>3. PICK t \in Targets : \E k \in 1 .. Len(Prereqs(t)) :
        /\ Prereqs(t)[k] = <<p, s>>
        /\ \A j \in 1 .. k - 1 : Prereqs(t)[j] \in visited
  <2>1. /\ Len(stack) - 1 \in 1 .. Len(stack) - 1
        /\ stack[Len(stack) - 1] \in Targets
        /\ stack[Len(stack) - 1 + 1] = <<p, s>>
    BY <1>1, <1>2 DEF Current
  <2> QED  BY <2>1 DEF WalkInv, StackChain
<1>4. VisitedDone
  BY DEF WalkInv
<1>5. /\ s = "extracted" => p \notin Override
      /\ s = "rsynced" => p \in Override
      /\ s = "patched" => p \notin Override /\ <<p, "extract">> \in visited
      /\ s = "configured" => /\ <<p, "depends">> \in visited
                             /\ p \notin Override => <<p, "patch">> \in visited
      /\ s = "built" => <<p, "configure">> \in visited
      /\ s \in {"staging_installed", "target_installed", "images_installed",
                "host_installed"} => <<p, "build">> \in visited
  BY <1>3, StampParent
<1>6. /\ <<p, "depends">> \in visited /\ p \in Override => "rsynced" \in stamps[p]
      /\ <<p, "extract">> \in visited /\ p \notin Override => "extracted" \in stamps[p]
      /\ <<p, "patch">> \in visited /\ p \notin Override =>
           {"extracted", "patched"} \subseteq stamps[p]
  BY <1>4, VisitedClosure
<1>7. <<p, "configure">> \in visited =>
        /\ "configured" \in stamps[p]
        /\ <<p, "depends">> \in visited
        /\ p \notin Override => <<p, "patch">> \in visited
  BY <1>4, VisitedClosure
<1>8. <<p, "build">> \in visited =>
        "built" \in stamps[p] /\ <<p, "configure">> \in visited
  BY <1>4, VisitedClosure
<1>9. CASE s \in {"configured", "built", "staging_installed", "target_installed",
                 "images_installed", "host_installed"}
  <2>1. s # "configured" => <<p, "configure">> \in visited
    BY <1>5, <1>8, <1>9
  <2>2. CASE s = "configured"
    <3>1. <<p, "depends">> \in visited
      BY <1>5, <2>2
    <3>2. p \notin Override => <<p, "patch">> \in visited
      BY <1>5, <2>2
    <3> QED  BY <1>6, <2>2, <3>1, <3>2
  <2>3. CASE s # "configured"
    <3>1. <<p, "depends">> \in visited /\ (p \notin Override => <<p, "patch">> \in visited)
      BY <1>7, <2>1, <2>3
    <3>2. s \notin {"configured", "built"} => "built" \in stamps[p]
      BY <1>5, <1>8, <1>9
    <3>3. s # "extracted" /\ s # "rsynced" /\ s # "patched"
      BY <1>9
    <3> QED  BY <1>6, <1>7, <2>1, <3>1, <3>2, <3>3
  <2> QED  BY <2>2, <2>3
<1>10. CASE s \notin {"configured", "built", "staging_installed", "target_installed",
                     "images_installed", "host_installed"}
  BY <1>5, <1>6, <1>10
<1> QED  BY <1>9, <1>10

-----------------------------------------------------------------------------
(* Preservation of the walk.                                               *)

LEMMA StepInPlace ==
  ASSUME TypeOK, WalkInv, phase = "update", phase' = phase, goals' = goals,
         stack # <<>>, stack' = stack, visited' = visited,
         \A p \in Pkgs : stamps[p] \subseteq stamps'[p]
  PROVE  WalkInv'
<1>1. IdleWalk'
  BY DEF IdleWalk
<1>2. VisitedDone'
  BY DEF WalkInv, VisitedDone
<1>3. GoalsPhony' /\ StackChain'
  BY DEF WalkInv, GoalsPhony, StackChain
<1> QED  BY <1>1, <1>2, <1>3 DEF WalkInv

LEMMA StepPop ==
  ASSUME TypeOK, WalkInv, Ready, phase' = phase, goals' = goals, Pop,
         \A p \in Pkgs : stamps[p] \subseteq stamps'[p],
         Current[1] \in Pkgs /\ Current[2] \in Stamps =>
           Current[2] \in stamps'[Current[1]]
  PROVE  WalkInv'
<1>1. stack \in Seq(Targets) /\ stack # <<>>
  BY DEF TypeOK, Ready
<1>2. /\ visited' = visited \cup {Current}
      /\ stack' = SubSeq(stack, 1, Len(stack) - 1)
  BY DEF Pop
<1>3. IdleWalk'
  BY DEF IdleWalk, Ready, Pop
<1>4. VisitedDone'
  <2> SUFFICES ASSUME NEW t \in visited'
               PROVE  /\ t[1] \in Pkgs /\ t[2] \in Stamps => t[2] \in stamps'[t[1]]
                      /\ \A i \in 1 .. Len(Prereqs(t)) : Prereqs(t)[i] \in visited'
    BY DEF VisitedDone
  <2>1. CASE t \in visited
    BY <1>2, <2>1 DEF WalkInv, VisitedDone
  <2>2. CASE t = Current
    BY <1>2, <2>2 DEF Ready, Pending
  <2> QED  BY <1>2, <2>1, <2>2
<1>5. /\ Len(stack') = Len(stack) - 1
      /\ \A i \in 1 .. Len(stack) - 1 : stack'[i] = stack[i]
  BY <1>1, <1>2, FrontOf
<1>6. GoalsPhony'
  BY <1>1, <1>2, <1>5 DEF WalkInv, GoalsPhony
<1>7. StackChain'
  <2> SUFFICES ASSUME NEW i \in 1 .. Len(stack') - 1
               PROVE  \E k \in 1 .. Len(Prereqs(stack'[i])) :
                        /\ stack'[i + 1] = Prereqs(stack'[i])[k]
                        /\ \A j \in 1 .. k - 1 : Prereqs(stack'[i])[j] \in visited'
    BY DEF StackChain
  <2>1. i \in 1 .. Len(stack) - 1 /\ stack'[i] = stack[i] /\ stack'[i + 1] = stack[i + 1]
    BY <1>1, <1>5
  <2> QED  BY <1>2, <2>1 DEF WalkInv, StackChain
<1> QED  BY <1>3, <1>4, <1>6, <1>7 DEF WalkInv

LEMMA StepDescend ==
  ASSUME TypeOK, WalkInv, Descend
  PROVE  WalkInv'
<1>1. stack \in Seq(Targets) /\ stack # <<>> /\ phase = "update"
  BY DEF TypeOK, Descend
<1>2. PICK i \in Pending(Current) :
        /\ \A j \in Pending(Current) : i <= j
        /\ stack' = Append(stack, Prereqs(Current)[i])
  BY DEF Descend
<1>3. i \in 1 .. Len(Prereqs(Current))
  BY <1>2 DEF Pending
<1>4. \A j \in 1 .. i - 1 : Prereqs(Current)[j] \in visited
  <2>1. Prereqs(Current) \in Seq(Targets)
    BY <1>1, CurrentType, PrereqsType
  <2> QED  BY <1>2, <1>3, <2>1 DEF Pending
<1>5. Prereqs(Current)[i] \in Targets
  BY <1>1, <1>3, CurrentType, PrereqsType
<1>6. /\ Len(stack') = Len(stack) + 1
      /\ \A n \in 1 .. Len(stack) : stack'[n] = stack[n]
      /\ stack'[Len(stack) + 1] = Prereqs(Current)[i]
  BY <1>1, <1>2, <1>5
<1>7. IdleWalk' /\ VisitedDone'
  BY <1>1, <1>6 DEF Descend, IdleWalk, VisitedDone, WalkInv, disk
<1>8. GoalsPhony'
  BY <1>1, <1>2, <1>6 DEF Descend, WalkInv, GoalsPhony
<1>9. StackChain'
  <2> SUFFICES ASSUME NEW n \in 1 .. Len(stack') - 1
               PROVE  \E k \in 1 .. Len(Prereqs(stack'[n])) :
                        /\ stack'[n + 1] = Prereqs(stack'[n])[k]
                        /\ \A j \in 1 .. k - 1 : Prereqs(stack'[n])[j] \in visited'
    BY DEF StackChain
  <2>1. visited' = visited
    BY DEF Descend
  <2>2. CASE n = Len(stack)
    <3>1. stack'[n] = Current /\ stack'[n + 1] = Prereqs(Current)[i]
      BY <1>1, <1>6, <2>2 DEF Current
    <3> QED  BY <1>3, <1>4, <2>1, <3>1
  <2>3. CASE n < Len(stack)
    <3>1. n \in 1 .. Len(stack) - 1 /\ stack'[n] = stack[n] /\ stack'[n + 1] = stack[n + 1]
      BY <1>1, <1>6, <2>3
    <3> QED  BY <2>1, <3>1 DEF WalkInv, StackChain
  <2> QED  BY <1>1, <1>6, <2>2, <2>3
<1> QED  BY <1>7, <1>8, <1>9 DEF WalkInv

(* An action that only moves a recipe keeps the walk in order.             *)
LEMMA RecipeWalk ==
  ASSUME IInv, NEW p \in Pkgs, Recipe(p)
  PROVE  WalkInv'
<1> USE DEF At, Ready
<1>1. TypeOK /\ WalkInv
  BY DEF IInv
<1>2. CASE FailPatch(p)
  <2>1. IdleWalk' /\ VisitedDone' /\ StackChain'
    BY <1>2 DEF FailPatch, Exit, IdleWalk, VisitedDone, StackChain
  <2>2. GoalsPhony'
    BY <1>2 DEF FailPatch, Exit, GoalsPhony
  <2> QED  BY <2>1, <2>2 DEF WalkInv
<1>3. CASE \/ BeginExtract(p) \/ BeginRsync(p) \/ BeginPatch(p) \/ ApplyPatch(p)
           \/ BeginConfigure(p) \/ BeginBuild(p)
           \/ \E w \in Places : BeginInstall(p, w)
  <2>1. /\ phase = "update" /\ phase' = phase /\ goals' = goals
        /\ stack # <<>> /\ stack' = stack /\ visited' = visited /\ stamps' = stamps
    BY <1>3 DEF BeginExtract, BeginRsync, BeginPatch, ApplyPatch, BeginConfigure,
                BeginBuild, BeginInstall, Start, Same, disk
  <2> QED  BY <1>1, <2>1, StepInPlace
<1>4. ASSUME NEW s \in Stamps, At(p, s), Touch(p, s), Pop, Same
      PROVE  WalkInv'
  <2>1. stamps \in [Pkgs -> SUBSET Stamps]
    BY <1>1 DEF TypeOK
  <2>2. \A q \in Pkgs : stamps[q] \subseteq stamps'[q]
    BY <1>4, <2>1 DEF Touch
  <2>3. Current = <<p, s>> /\ s \in stamps'[p]
    BY <1>4, <2>1 DEF Touch
  <2> QED  BY <1>1, <1>4, <2>2, <2>3, StepPop DEF Same
<1>5. ASSUME NEW w \in Places, EndInstall(p, w)
      PROVE  WalkInv'
  <2>1. InstallStamp(w) \in Stamps
    BY InstallPrereqsOf
  <2> QED  BY <1>4, <1>5, <2>1 DEF EndInstall
<1>6. CASE Download(p)
  BY <1>4, <1>6 DEF Download, Stamps
<1>7. CASE EndExtract(p)
  BY <1>4, <1>7 DEF EndExtract, Stamps
<1>8. CASE EndRsync(p)
  BY <1>4, <1>8 DEF EndRsync, Stamps
<1>9. CASE EndPatch(p)
  BY <1>4, <1>9 DEF EndPatch, Stamps
<1>10. CASE EndConfigure(p)
  BY <1>4, <1>10 DEF EndConfigure, Stamps
<1>11. CASE EndBuild(p)
  BY <1>4, <1>11 DEF EndBuild, Stamps
<1> QED
  BY <1>2, <1>3, <1>5, <1>6, <1>7, <1>8, <1>9, <1>10, <1>11 DEF Recipe

-----------------------------------------------------------------------------
(* Preservation of what is on disk.                                        *)

DiskInv == SourceKinds /\ PatchCount /\ Removable /\ StampIntegrity

(* The recipe that begins or ends now is not past its first patch.         *)
LEMMA PatchCountOf ==
  ASSUME recipe' \in {0, 1},
         \A p \in Pkgs : tree'[p].applied <= NPatches[p]
  PROVE  PatchCount'
  BY DEF PatchCount

(* A step of a recipe that touches the stamp s of p, or none.              *)
LEMMA KindsOf ==
  ASSUME TypeOK, SourceKinds, NEW p \in Pkgs, NEW s \in Stamps, Touch(p, s),
         s \in {"extracted", "patched"} => p \notin Override,
         s = "rsynced" => p \in Override,
         s = "patched" => "extracted" \in stamps[p]
  PROVE  SourceKinds'
<1>1. stamps \in [Pkgs -> SUBSET Stamps]
  BY DEF TypeOK
<1>2. \A q \in Pkgs : stamps'[q] = IF q = p THEN stamps[p] \cup {s} ELSE stamps[q]
  BY <1>1 DEF Touch
<1> QED  BY <1>2 DEF SourceKinds

LEMMA SourceRecipeDisk ==
  ASSUME IInv, NEW p \in Pkgs,
         \/ Download(p) \/ BeginExtract(p) \/ EndExtract(p) \/ BeginRsync(p)
         \/ EndRsync(p) \/ BeginPatch(p) \/ ApplyPatch(p) \/ EndPatch(p)
  PROVE  DiskInv'
<1> USE DEF At
<1>1. TypeOK /\ WalkInv /\ SourceKinds /\ PatchCount /\ Removable /\ StampIntegrity
  BY DEF IInv
<1>2. /\ stamps \in [Pkgs -> SUBSET Stamps] /\ tree \in [Pkgs -> Tree]
      /\ NPatches \in [Pkgs -> Nat] /\ recipe \in Nat
  BY <1>1, PkgAssumption DEF TypeOK, PkgAssumption
<1>3. \A w \in Places : InstallStamp(w) \notin {"extracted", "rsynced", "patched",
                                              "downloaded"}
  BY InstallPrereqsOf
<1>4. CASE Download(p)
  <2>1. SourceKinds'
    BY <1>1, <1>4, KindsOf DEF Download, Stamps
  <2>2. PatchCount' /\ Removable'
    BY <1>1, <1>4, PatchCountOf DEF Download, Pop, PatchCount, Removable, Same
  <2>3. StampIntegrity'
    BY <1>1, <1>2, <1>3, <1>4 DEF Download, Touch, StampIntegrity
  <2> QED  BY <2>1, <2>2, <2>3 DEF DiskInv
<1>5. CASE BeginExtract(p)
  <2>1. /\ p \notin Override /\ "extracted" \notin stamps[p]
    BY <1>1, <1>5, RecipeContext DEF BeginExtract, Stamps
  <2>2. stamps' = stamps /\ recipe' = 1 /\ rms' = rms
    BY <1>5 DEF BeginExtract, Start, Same
  <2>3. \A q \in Pkgs : tree'[q] = IF q = p THEN NoTree ELSE tree[q]
    BY <1>2, <1>5 DEF BeginExtract
  <2>4. SourceKinds' /\ Removable'
    BY <1>1, <2>2 DEF SourceKinds, Removable
  <2>5. PatchCount'
    BY <1>1, <1>2, <2>2, <2>3, PatchCountOf DEF NoTree, PatchCount
  <2>6. StampIntegrity'
    BY <1>1, <1>5, <2>1, <2>2, <2>3
    DEF BeginExtract, StampIntegrity, SourceKinds
  <2> QED  BY <2>4, <2>5, <2>6 DEF DiskInv
<1>6. CASE EndExtract(p)
  <2>1. p \notin Override /\ "extracted" \notin stamps[p]
    BY <1>1, <1>6, RecipeContext DEF EndExtract, Stamps
  <2>2. \A q \in Pkgs : /\ q # p => tree'[q] = tree[q]
                        /\ q = p => tree'[q].full /\ tree'[q].applied = 0
    BY <1>2, <1>6 DEF EndExtract
  <2>3. SourceKinds'
    BY <1>1, <1>6, <2>1, KindsOf DEF EndExtract, Stamps
  <2>4. PatchCount' /\ Removable'
    BY <1>1, <1>2, <1>6, <2>2, PatchCountOf
    DEF EndExtract, Pop, PatchCount, Removable, Same
  <2>5. StampIntegrity'
    BY <1>1, <1>2, <1>3, <1>6, <2>1, <2>2
    DEF EndExtract, Touch, StampIntegrity, SourceKinds
  <2> QED  BY <2>3, <2>4, <2>5 DEF DiskInv
<1>7. CASE BeginRsync(p)
  <2>1. p \in Override /\ "rsynced" \notin stamps[p]
    BY <1>1, <1>7, RecipeContext DEF BeginRsync, Stamps
  <2>2. stamps' = stamps /\ recipe' = 1 /\ rms' = rms
    BY <1>7 DEF BeginRsync, Start, Same
  <2>3. \A q \in Pkgs : /\ q # p => tree'[q] = tree[q]
                        /\ tree'[q].applied = tree[q].applied
    BY <1>2, <1>7 DEF BeginRsync, Tree
  <2>4. SourceKinds' /\ Removable'
    BY <1>1, <2>2 DEF SourceKinds, Removable
  <2>5. PatchCount'
    BY <1>1, <2>2, <2>3, PatchCountOf DEF PatchCount
  <2>6. StampIntegrity'
    BY <1>1, <1>7, <2>1, <2>2, <2>3 DEF BeginRsync, StampIntegrity, SourceKinds
  <2> QED  BY <2>4, <2>5, <2>6 DEF DiskInv
<1>8. CASE EndRsync(p)
  <2>1. p \in Override /\ "rsynced" \notin stamps[p]
    BY <1>1, <1>8, RecipeContext DEF EndRsync, Stamps
  <2>2. \A q \in Pkgs : /\ q # p => tree'[q] = tree[q]
                        /\ tree'[q].applied = tree[q].applied
                        /\ q = p => tree'[q].full
    BY <1>2, <1>8 DEF EndRsync, Tree
  <2>3. SourceKinds'
    BY <1>1, <1>8, <2>1, KindsOf DEF EndRsync, Stamps
  <2>4. PatchCount' /\ Removable'
    BY <1>1, <1>8, <2>2, PatchCountOf
    DEF EndRsync, Pop, PatchCount, Removable, Same
  <2>5. StampIntegrity'
    BY <1>1, <1>2, <1>3, <1>8, <2>1, <2>2
    DEF EndRsync, Touch, StampIntegrity, SourceKinds
  <2> QED  BY <2>3, <2>4, <2>5 DEF DiskInv
<1>9. CASE BeginPatch(p)
  BY <1>1, <1>9, PatchCountOf
  DEF BeginPatch, Start, Same, disk, DiskInv, SourceKinds, PatchCount, Removable,
      StampIntegrity
<1>10. CASE ApplyPatch(p)
  <2>1. "patched" \notin stamps[p] /\ Current = <<p, "patched">>
    BY <1>10 DEF ApplyPatch
  <2>2. /\ stamps' = stamps /\ rms' = rms /\ stack' = stack
        /\ recipe' = recipe + 1 /\ recipe \in 1 .. NPatches[p]
        /\ conf' = conf /\ obj' = obj /\ inst' = inst
    BY <1>10 DEF ApplyPatch, Same
  <2>3. \A q \in Pkgs : /\ q # p => tree'[q] = tree[q]
                        /\ tree'[q].full = tree[q].full
                        /\ q = p => tree'[q].applied = recipe
    BY <1>2, <1>10 DEF ApplyPatch, Tree
  <2>4. SourceKinds' /\ Removable'
    BY <1>1, <2>2 DEF SourceKinds, Removable
  <2>5. Current' = <<p, "patched">>
    BY <2>1, <2>2 DEF Current
  <2>6. PatchCount'
    BY <1>1, <1>2, <2>2, <2>3, <2>5 DEF PatchCount
  <2>7. StampIntegrity'
    BY <1>1, <2>1, <2>2, <2>3 DEF StampIntegrity
  <2> QED  BY <2>4, <2>6, <2>7 DEF DiskInv
<1>11. CASE EndPatch(p)
  <2>1. p \notin Override /\ "extracted" \in stamps[p]
    BY <1>1, <1>11, RecipeContext DEF EndPatch, Stamps
  <2>2. tree[p].applied = NPatches[p]
    <3>1. /\ recipe = NPatches[p] + 1 /\ Current = <<p, "patched">> /\ stack # <<>>
      BY <1>11 DEF EndPatch, Ready
    <3>2. tree[p].applied \in Nat /\ NPatches[p] \in Nat
      BY <1>2 DEF Tree
    <3>3. /\ tree[p].applied <= NPatches[p]
          /\ recipe > 1 => tree[p].applied = recipe - 1
      BY <1>1, <3>1 DEF PatchCount
    <3> QED  BY <3>1, <3>2, <3>3
  <2>3. SourceKinds'
    BY <1>1, <1>11, <2>1, KindsOf DEF EndPatch, Stamps
  <2>4. PatchCount' /\ Removable'
    BY <1>1, <1>11, PatchCountOf DEF EndPatch, Pop, PatchCount, Removable, Same
  <2>5. StampIntegrity'
    BY <1>1, <1>2, <1>3, <1>11, <2>2 DEF EndPatch, Touch, StampIntegrity
  <2> QED  BY <2>3, <2>4, <2>5 DEF DiskInv
<1> QED  BY <1>4, <1>5, <1>6, <1>7, <1>8, <1>9, <1>10, <1>11

LEMMA BuildRecipeDisk ==
  ASSUME IInv, NEW p \in Pkgs,
         \/ BeginConfigure(p) \/ EndConfigure(p) \/ BeginBuild(p) \/ EndBuild(p)
         \/ \E w \in Places : BeginInstall(p, w) \/ EndInstall(p, w)
  PROVE  DiskInv'
<1> USE DEF At
<1>1. TypeOK /\ WalkInv /\ SourceKinds /\ PatchCount /\ Removable /\ StampIntegrity
  BY DEF IInv
<1>2. /\ stamps \in [Pkgs -> SUBSET Stamps] /\ conf \in [Pkgs -> Content]
      /\ obj \in [Pkgs -> Content] /\ inst \in [Pkgs -> [Places -> Content]]
  BY <1>1 DEF TypeOK
<1>3. \A w \in Places :
        /\ InstallStamp(w) \in Stamps
        /\ InstallStamp(w) \notin {"extracted", "rsynced", "patched", "configured",
                                  "built"}
  BY InstallPrereqsOf
<1>4. ASSUME stamps' = stamps, rms' = rms, recipe' = 1, tree' = tree
      PROVE  SourceKinds' /\ Removable' /\ PatchCount'
  BY <1>1, <1>4, PatchCountOf DEF SourceKinds, Removable, PatchCount
<1>5. ASSUME NEW s \in Stamps, s \notin {"extracted", "rsynced", "patched"},
             Touch(p, s), rms' = rms, recipe' = 0, tree' = tree
      PROVE  SourceKinds' /\ Removable' /\ PatchCount'
  BY <1>1, <1>5, PatchCountOf, KindsOf DEF Removable, PatchCount
<1>6. ASSUME NEW s \in {"configured", "built", "staging_installed",
                       "target_installed", "images_installed", "host_installed"},
             Ready, Current = <<p, s>>
      PROVE  /\ TreeOk(p)
             /\ s # "configured" => conf[p].ok
             /\ s \notin {"configured", "built"} => obj[p].ok
  <2>1. s \in Stamps
    BY DEF Stamps
  <2>2. /\ p \in Override => "rsynced" \in stamps[p]
        /\ p \notin Override => {"extracted", "patched"} \subseteq stamps[p]
        /\ s # "configured" => "configured" \in stamps[p]
        /\ s \notin {"configured", "built"} => "built" \in stamps[p]
    BY <1>1, <1>6, <2>1, RecipeContext
  <2>3. TreeOk(p)
    BY <1>1, <2>2 DEF StampIntegrity, TreeOk
  <2> QED  BY <1>1, <2>2, <2>3 DEF StampIntegrity
<1>7. CASE BeginConfigure(p)
  <2>1. SourceKinds' /\ Removable' /\ PatchCount'
    BY <1>4, <1>7 DEF BeginConfigure, Start, Same
  <2>2. StampIntegrity'
    BY <1>1, <1>2, <1>7 DEF BeginConfigure, StampIntegrity
  <2> QED  BY <2>1, <2>2 DEF DiskInv
<1>8. CASE EndConfigure(p)
  <2>1. TreeOk(p)
    BY <1>6, <1>8 DEF EndConfigure
  <2>2. \A q \in Pkgs : /\ q # p => conf'[q] = conf[q]
                        /\ q = p => conf'[q].ok
    BY <1>2, <1>8, <2>1 DEF EndConfigure
  <2>3. SourceKinds' /\ Removable' /\ PatchCount'
    BY <1>5, <1>8 DEF EndConfigure, Pop, Same, Stamps
  <2>4. StampIntegrity'
    BY <1>1, <1>2, <1>3, <1>8, <2>2 DEF EndConfigure, Touch, StampIntegrity
  <2> QED  BY <2>3, <2>4 DEF DiskInv
<1>9. CASE BeginBuild(p)
  <2>1. SourceKinds' /\ Removable' /\ PatchCount'
    BY <1>4, <1>9 DEF BeginBuild, Start, Same
  <2>2. StampIntegrity'
    BY <1>1, <1>2, <1>9 DEF BeginBuild, StampIntegrity
  <2> QED  BY <2>1, <2>2 DEF DiskInv
<1>10. CASE EndBuild(p)
  <2>1. TreeOk(p) /\ conf[p].ok
    BY <1>6, <1>10 DEF EndBuild
  <2>2. \A q \in Pkgs : /\ q # p => obj'[q] = obj[q]
                        /\ q = p => obj'[q].ok
    BY <1>2, <1>10, <2>1 DEF EndBuild
  <2>3. SourceKinds' /\ Removable' /\ PatchCount'
    BY <1>5, <1>10 DEF EndBuild, Pop, Same, Stamps
  <2>4. StampIntegrity'
    BY <1>1, <1>2, <1>3, <1>10, <2>2 DEF EndBuild, Touch, StampIntegrity
  <2> QED  BY <2>3, <2>4 DEF DiskInv
<1>11. ASSUME NEW w \in Places, BeginInstall(p, w)
       PROVE  DiskInv'
  <2>1. SourceKinds' /\ Removable' /\ PatchCount'
    BY <1>4, <1>11 DEF BeginInstall, Start, Same
  <2>2. \A q \in Pkgs, v \in Places :
          q # p \/ v # w => inst'[q][v] = inst[q][v]
    BY <1>2, <1>11 DEF BeginInstall
  <2>3. \A v \in Places : InstallStamp(v) = InstallStamp(w) => v = w
    BY InstallPrereqsOf DEF Places
  <2>4. StampIntegrity'
    BY <1>1, <1>11, <2>2, <2>3 DEF BeginInstall, StampIntegrity
  <2> QED  BY <2>1, <2>4 DEF DiskInv
<1>12. ASSUME NEW w \in Places, EndInstall(p, w)
       PROVE  DiskInv'
  <2>1. obj[p].ok
    <3>1. InstallStamp(w) \in {"staging_installed", "target_installed",
                              "images_installed", "host_installed"}
      BY InstallPrereqsOf
    <3> QED  BY <1>3, <1>6, <1>12, <3>1 DEF EndInstall
  <2>2. \A q \in Pkgs, v \in Places :
          /\ q # p \/ v # w => inst'[q][v] = inst[q][v]
          /\ q = p /\ v = w => inst'[q][v] = obj[p]
    BY <1>2, <1>12 DEF EndInstall
  <2>3. \A v \in Places : InstallStamp(v) = InstallStamp(w) => v = w
    BY InstallPrereqsOf DEF Places
  <2>4. SourceKinds' /\ Removable' /\ PatchCount'
    BY <1>3, <1>5, <1>12 DEF EndInstall, Pop, Same
  <2>5. StampIntegrity'
    <3>1. \A q \in Pkgs : stamps'[q] = IF q = p THEN stamps[p] \cup {InstallStamp(w)}
                                        ELSE stamps[q]
      BY <1>2, <1>12 DEF EndInstall, Touch
    <3>2. tree' = tree /\ conf' = conf /\ obj' = obj
      BY <1>12 DEF EndInstall
    <3> QED  BY <1>1, <1>3, <2>1, <2>2, <2>3, <3>1, <3>2 DEF StampIntegrity
  <2> QED  BY <2>4, <2>5 DEF DiskInv
<1> QED  BY <1>7, <1>8, <1>9, <1>10, <1>11, <1>12

LEMMA InitInv == Init => IInv
<1> SUFFICES ASSUME Init
             PROVE  IInv
  OBVIOUS
<1>1. TypeOK
  BY InitType
<1>2. WalkInv
  BY DEF Init, WalkInv, IdleWalk, VisitedDone, GoalsPhony, StackChain
<1>3. SourceKinds /\ Removable
  BY DEF Init, SourceKinds, Removable
<1>4. StampIntegrity
  BY DEF Init, StampIntegrity
<1>5. PatchCount
  BY PkgAssumption DEF PkgAssumption, Init, PatchCount, NoTree
<1> QED  BY <1>1, <1>2, <1>3, <1>4, <1>5 DEF IInv

(* A command starts with an empty walk and no recipe.                      *)
LEMMA UserInv ==
  ASSUME IInv, NEW c \in Commands,
         \/ Invoke(c)
         \/ \E kind \in CleanKinds, p \in Pkgs : InvokeClean(kind, p, c)
  PROVE  WalkInv' /\ DiskInv'
<1>1. TypeOK /\ WalkInv /\ SourceKinds /\ PatchCount /\ Removable /\ StampIntegrity
  BY DEF IInv
<1>2. c \in Seq(Phony)
  BY PkgAssumption DEF PkgAssumption, Phony
<1>3. /\ stamps' = stamps /\ tree' = tree /\ conf' = conf /\ obj' = obj /\ inst' = inst
      /\ stack' = stack /\ visited' = visited /\ recipe' = recipe
      /\ phase = "idle"
  BY DEF Invoke, InvokeClean, disk
<1>4. SourceKinds' /\ PatchCount' /\ StampIntegrity'
  BY <1>1, <1>3 DEF SourceKinds, PatchCount, StampIntegrity, Current
<1>5. IdleWalk'
  BY <1>1, <1>3 DEF WalkInv, IdleWalk
<1>6. VisitedDone' /\ StackChain'
  BY <1>1, <1>3 DEF WalkInv, VisitedDone, StackChain
<1>7. GoalsPhony'
  <2>1. goals' \in Seq(Phony)
    <3>2. CASE Invoke(c)
      BY <1>2, <3>2 DEF Invoke
    <3>3. ASSUME NEW kind \in CleanKinds, NEW p \in Pkgs, InvokeClean(kind, p, c)
          PROVE  goals' \in Seq(Phony)
      <4>1. << <<p, "pkg">> >> \in Seq(Phony)
        BY DEF Phony, Rules
      <4> QED  BY <1>2, <3>3, <4>1 DEF InvokeClean
    <3> QED  BY <3>2, <3>3
  <2> QED  BY <1>1, <1>3, <2>1 DEF WalkInv, GoalsPhony
<1>8. Removable'
  <2>1. CASE rms' = rms
    BY <1>1, <2>1 DEF Removable
  <2>2. ASSUME NEW kind \in CleanKinds, NEW p \in Pkgs, InvokeClean(kind, p, c)
        PROVE  Removable'
    <3> DEFINE Safe == Stamps \ {"extracted", "patched"}
    <3>1. CleanList(kind, p) \in Seq(Safe)
      BY CleanListOver DEF Stamps
    <3>5. rms' \in Seq(Safe)
      BY <2>2, <3>1 DEF InvokeClean
    <3> QED  BY <3>5 DEF Removable
  <2> QED  BY <2>1, <2>2 DEF Invoke
<1> QED  BY <1>4, <1>5, <1>6, <1>7, <1>8 DEF WalkInv, DiskInv

LEMMA CleanInv ==
  ASSUME IInv, RmStamp \/ Dirclean
  PROVE  WalkInv' /\ DiskInv'
<1>1. TypeOK /\ WalkInv /\ SourceKinds /\ PatchCount /\ Removable /\ StampIntegrity
  BY DEF IInv
<1>2. phase = "clean" /\ stack' = stack /\ visited' = visited /\ goals' = goals
      /\ recipe' = recipe
  BY DEF RmStamp, Dirclean, walk
<1>3. stack = <<>> /\ visited = {} /\ recipe = 0
  BY <1>1, <1>2 DEF WalkInv, IdleWalk
<1>4. WalkInv'
  BY <1>1, <1>2, <1>3 DEF WalkInv, IdleWalk, VisitedDone, GoalsPhony, StackChain
<1>5. /\ stamps \in [Pkgs -> SUBSET Stamps] /\ rms \in Seq(Stamps)
      /\ tree \in [Pkgs -> Tree] /\ conf \in [Pkgs -> Content]
      /\ obj \in [Pkgs -> Content] /\ NPatches \in [Pkgs -> Nat]
  BY <1>1, PkgAssumption DEF TypeOK, PkgAssumption
<1>6. CASE RmStamp
  <2>1. Head(rms) = rms[1] /\ 1 \in 1 .. Len(rms)
    BY <1>5, <1>6 DEF RmStamp
  <2>2. Head(rms) \notin {"extracted", "patched"}
    BY <1>1, <2>1 DEF Removable
  <2>3. \A q \in Pkgs : stamps'[q] \subseteq stamps[q]
    BY <1>5, <1>6 DEF RmStamp
  <2>4. \A q \in Pkgs : "extracted" \in stamps[q] => "extracted" \in stamps'[q]
    BY <1>5, <1>6, <2>2 DEF RmStamp
  <2>5. SourceKinds'
    BY <1>1, <2>3, <2>4 DEF SourceKinds
  <2>6. PatchCount'
    BY <1>1, <1>2, <1>3, <1>6, PatchCountOf DEF RmStamp, PatchCount
  <2>7. Removable'
    <3>1. \A i \in 1 .. Len(Tail(rms)) : i + 1 \in 1 .. Len(rms) /\ Tail(rms)[i] = rms[i + 1]
      BY <1>5, <2>1
    <3> QED  BY <1>1, <1>6, <3>1 DEF RmStamp, Removable
  <2>8. StampIntegrity'
    BY <1>1, <1>6, <2>3 DEF RmStamp, StampIntegrity
  <2> QED  BY <1>4, <2>5, <2>6, <2>7, <2>8 DEF DiskInv
<1>7. CASE Dirclean
  <2>1. \A q \in Pkgs :
          \/ stamps'[q] = {} /\ tree'[q].applied = 0
          \/ /\ stamps'[q] = stamps[q] /\ tree'[q] = tree[q]
             /\ conf'[q] = conf[q] /\ obj'[q] = obj[q]
    BY <1>5, <1>7 DEF Dirclean, NoTree
  <2>2. SourceKinds'
    BY <1>1, <2>1 DEF SourceKinds
  <2>3. PatchCount'
    BY <1>1, <1>2, <1>3, <1>5, <2>1, PatchCountOf DEF PatchCount
  <2>4. Removable' /\ inst' = inst
    BY <1>1, <1>7 DEF Dirclean, Removable
  <2>5. StampIntegrity'
    BY <1>1, <2>1, <2>4 DEF StampIntegrity
  <2> QED  BY <1>4, <2>2, <2>3, <2>4, <2>5 DEF DiskInv
<1> QED  BY <1>6, <1>7

(* The disk does not change, no recipe runs afterwards.                    *)
LEMMA QuietStep ==
  ASSUME IInv, UNCHANGED disk, recipe' = 0, rms' \in {rms, <<>>}
  PROVE  DiskInv'
<1>1. SourceKinds /\ PatchCount /\ Removable /\ StampIntegrity
  BY DEF IInv
<1>2. SourceKinds' /\ StampIntegrity'
  BY <1>1 DEF disk, SourceKinds, StampIntegrity
<1>3. PatchCount'
  BY <1>1, PatchCountOf DEF disk, PatchCount
<1>4. Removable'
  <2>1. CASE rms' = rms
    BY <1>1, <2>1 DEF Removable
  <2>2. CASE rms' = <<>>
    BY <2>2 DEF Removable
  <2> QED  BY <2>1, <2>2
<1> QED  BY <1>2, <1>3, <1>4 DEF DiskInv

LEMMA WalkStepInv ==
  ASSUME IInv, StartGoal \/ Descend \/ Skip \/ Succeed \/ Exit
  PROVE  WalkInv' /\ DiskInv'
<1>1. TypeOK /\ WalkInv
  BY DEF IInv
<1>2. DiskInv'
  BY <1>1, QuietStep DEF StartGoal, Descend, Skip, Succeed, Exit, Pop, disk, WalkInv, IdleWalk
<1>3. CASE StartGoal
  <2>1. goals \in Seq(Phony) /\ goals # <<>>
    BY <1>1, <1>3 DEF WalkInv, GoalsPhony, StartGoal
  <2>2. Head(goals) \in Phony /\ Tail(goals) \in Seq(Phony)
    BY <2>1
  <2>3. stack' = <<>> \/ stack' = <<Head(goals)>>
    BY <1>3 DEF StartGoal
  <2>4. GoalsPhony'
    BY <1>3, <2>2, <2>3 DEF StartGoal, GoalsPhony
  <2>5. StackChain'
    BY <2>3 DEF StackChain
  <2>6. IdleWalk' /\ VisitedDone'
    BY <1>1, <1>3 DEF StartGoal, WalkInv, IdleWalk, VisitedDone, disk
  <2> QED  BY <1>2, <2>4, <2>5, <2>6 DEF WalkInv
<1>4. CASE Descend
  BY <1>1, <1>2, <1>4, StepDescend
<1>5. CASE Skip
  <2>1. Current[1] \in Pkgs /\ Current[2] \in Stamps => Current[2] \in stamps[Current[1]]
    <3>1. Current \in Targets
      BY <1>1, <1>5, CurrentType DEF Skip, Ready, TypeOK
    <3> QED  BY <1>5, <3>1, PkgAssumption DEF PkgAssumption, Skip, UpToDate, Stamps, Rules
  <2>2. /\ Ready /\ Pop /\ phase' = phase /\ goals' = goals /\ stamps' = stamps
    BY <1>5 DEF Skip, disk
  <2> QED  BY <1>1, <1>2, <2>1, <2>2, StepPop
<1>6. CASE Succeed
  <2>1. GoalsPhony'
    BY <1>1, <1>6 DEF Succeed, WalkInv, GoalsPhony
  <2> QED  BY <1>1, <1>2, <1>6, <2>1
           DEF Succeed, WalkInv, IdleWalk, VisitedDone, StackChain, disk
<1>7. CASE Exit
  <2>1. GoalsPhony'
    BY <1>7 DEF Exit, GoalsPhony
  <2> QED  BY <1>2, <1>7, <2>1 DEF Exit, WalkInv, IdleWalk, VisitedDone, StackChain
<1> QED  BY <1>3, <1>4, <1>5, <1>6, <1>7

LEMMA TopInv ==
  ASSUME IInv, Finalize \/ BeginRootfs \/ EndRootfs
  PROVE  WalkInv' /\ DiskInv'
<1>1. /\ TypeOK /\ WalkInv /\ SourceKinds /\ PatchCount /\ Removable /\ StampIntegrity
  BY DEF IInv
<1>2. /\ stamps' = stamps /\ tree' = tree /\ conf' = conf /\ obj' = obj /\ inst' = inst
      /\ rms' = rms /\ phase' = phase /\ goals' = goals /\ recipe' \in {0, 1}
  BY DEF Finalize, BeginRootfs, EndRootfs, disk, Same, Pop, Start
<1>3. DiskInv'
  BY <1>1, <1>2, PatchCountOf
  DEF DiskInv, SourceKinds, PatchCount, Removable, StampIntegrity
<1>4. Ready /\ Current[1] = Top /\ phase = "update" /\ stack # <<>>
  BY DEF Finalize, BeginRootfs, EndRootfs, Ready
<1>5. CASE stack' = stack /\ visited' = visited
  BY <1>1, <1>2, <1>3, <1>4, <1>5, StepInPlace
<1>6. CASE Pop
  BY <1>1, <1>2, <1>3, <1>4, <1>6, StepPop, PkgAssumption DEF PkgAssumption
<1>7. Pop \/ (stack' = stack /\ visited' = visited)
  BY DEF Finalize, BeginRootfs, EndRootfs, Start
<1> QED  BY <1>3, <1>5, <1>6, <1>7

LEMMA NextInv == IInv /\ [Next]_vars => IInv'
<1> SUFFICES ASSUME IInv, [Next]_vars
             PROVE  IInv'
  OBVIOUS
<1>1. TypeOK'
  BY NextType DEF IInv
<1>2. CASE UNCHANGED vars
  <2>1. WalkInv'
    BY <1>2 DEF IInv, vars, disk, walk, WalkInv, IdleWalk, VisitedDone, GoalsPhony,
                StackChain
  <2>2. DiskInv'
    BY <1>2 DEF IInv, vars, disk, walk, DiskInv, SourceKinds, PatchCount, Removable,
                StampIntegrity, Current
  <2> QED  BY <1>1, <2>1, <2>2 DEF IInv, DiskInv
<1>3. CASE \E p \in Pkgs : EditSource(p)
  <2>1. WalkInv' 
    BY <1>3 DEF EditSource, IInv, disk, walk, WalkInv, IdleWalk, VisitedDone,
                GoalsPhony, StackChain
  <2>2. DiskInv'
    BY <1>3 DEF EditSource, IInv, disk, walk, DiskInv, SourceKinds, PatchCount,
                Removable, StampIntegrity, Current
  <2> QED  BY <1>1, <2>1, <2>2 DEF IInv, DiskInv
<1>4. CASE \/ \E c \in Commands : Invoke(c)
           \/ \E kind \in CleanKinds, p \in Pkgs, c \in Commands :
                InvokeClean(kind, p, c)
  BY <1>1, <1>4, UserInv DEF IInv, DiskInv
<1>5. CASE RmStamp \/ Dirclean
  BY <1>1, <1>5, CleanInv DEF IInv, DiskInv
<1>6. CASE StartGoal \/ Descend \/ Skip \/ Succeed \/ Abort
  BY <1>1, <1>6, WalkStepInv DEF IInv, DiskInv, Abort
<1>7. ASSUME NEW p \in Pkgs, Recipe(p)
      PROVE  IInv'
  <2>1. WalkInv'
    BY <1>7, RecipeWalk
  <2>2. DiskInv'
    BY <1>7, SourceRecipeDisk, BuildRecipeDisk, WalkStepInv DEF Recipe, FailPatch
  <2> QED  BY <1>1, <2>1, <2>2 DEF IInv, DiskInv
<1>8. CASE Finalize \/ BeginRootfs \/ EndRootfs
  BY <1>1, <1>8, TopInv DEF IInv, DiskInv
<1> QED  BY <1>2, <1>3, <1>4, <1>5, <1>6, <1>7, <1>8 DEF Next, MakeStep

(* Every reachable state satisfies the inductive invariant.                *)
THEOREM Invariance == Spec => []IInv
  BY InitInv, NextInv, PTL DEF Spec

(* A stamp is only ever present together with the complete result of its   *)
(* step: whatever make is interrupted in, a later make may trust it.       *)
THEOREM StampsTruthful == Spec => []StampIntegrity
<1>1. IInv => StampIntegrity
  BY DEF IInv
<1> QED  BY Invariance, <1>1, PTL

-----------------------------------------------------------------------------
(* The prerequisites of a package's `depends' target are its dependencies. *)
LEMMA DependsDone ==
  ASSUME VisitedDone, NEW p \in Pkgs, <<p, "depends">> \in visited
  PROVE  \A i \in 1 .. Len(Deps[p]) : <<Deps[p][i], "pkg">> \in visited
<1>1. \A i \in 1 .. Len(Prereqs(<<p, "depends">>)) : Prereqs(<<p, "depends">>)[i] \in visited
  BY DEF VisitedDone
<1>2. Deps[p] \in Seq(Pkgs)
  BY PkgAssumption DEF PkgAssumption
<1>3. /\ Len(DepTargets(p)) = Len(Deps[p])
      /\ \A i \in 1 .. Len(Deps[p]) : DepTargets(p)[i] = <<Deps[p][i], "pkg">>
  BY <1>2 DEF DepTargets
<1>4. DepTargets(p) \in Seq(Targets)
  BY DepTargetsType
<1>5. CASE p \in Override
  <2>1. Prereqs(<<p, "depends">>) = << <<p, "rsync">> >> \o DepTargets(p)
    BY <1>5, PrereqsOf
  <2>2. << <<p, "rsync">> >> \in Seq(Targets)
    BY DEF Targets, Rules
  <2>3. /\ Len(<< <<p, "rsync">> >> \o DepTargets(p)) = Len(DepTargets(p)) + 1
        /\ \A i \in 1 .. Len(DepTargets(p)) :
             (<< <<p, "rsync">> >> \o DepTargets(p))[i + 1] = DepTargets(p)[i]
        /\ Len(DepTargets(p)) \in Nat
    BY <1>4, <2>2
  <2>4. \A i \in 1 .. Len(DepTargets(p)) :
          i + 1 \in 1 .. Len(<< <<p, "rsync">> >> \o DepTargets(p))
    BY <2>3
  <2>5. \A i \in 1 .. Len(DepTargets(p)) : DepTargets(p)[i] \in visited
    BY <1>1, <2>1, <2>3, <2>4
  <2> QED  BY <1>3, <2>5
<1>6. CASE p \notin Override
  <2>1. Prereqs(<<p, "depends">>) = DepTargets(p)
    BY <1>6, PrereqsOf
  <2> QED  BY <1>1, <1>3, <2>1
<1> QED  BY <1>5, <1>6

(* An installation target that is finished has its stamp.                  *)
LEMMA InstallDone ==
  ASSUME VisitedDone, NEW p \in Pkgs, NEW w \in Places, Installs(p, w),
         NEW t \in visited, Prereqs(t) = InstallPrereqs(p, w)
  PROVE  InstallStamp(w) \in stamps[p]
<1>1. Prereqs(t) = << <<p, "build">>, <<p, InstallStamp(w)>> >>
  BY InstallPrereqsOf
<1>2. \A i \in 1 .. Len(Prereqs(t)) : Prereqs(t)[i] \in visited
  BY DEF VisitedDone
<1>3. <<p, InstallStamp(w)>> \in visited
  BY <1>1, <1>2, AllTwo
<1>4. InstallStamp(w) \in Stamps
  BY InstallPrereqsOf
<1> QED  BY <1>3, <1>4 DEF VisitedDone

(* A package that is finished is installed wherever it is meant to be.     *)
LEMMA PkgDone ==
  ASSUME VisitedDone, NEW p \in Pkgs, <<p, "pkg">> \in visited,
         NEW w \in Places, Installs(p, w)
  PROVE  InstallStamp(w) \in stamps[p]
<1>1. \A t \in visited : \A i \in 1 .. Len(Prereqs(t)) : Prereqs(t)[i] \in visited
  BY DEF VisitedDone
<1>2. <<p, "install">> \in visited
  <2>1. Prereqs(<<p, "pkg">>) = << <<p, "install">> >>
    BY PrereqsOf
  <2> QED  BY <1>1, <2>1, AllOne
<1>3. CASE p \in Host
  <2>1. Prereqs(<<p, "install">>) = << <<p, "install-host">> >>
    BY <1>3, PrereqsOf
  <2>2. <<p, "install-host">> \in visited
    BY <1>1, <1>2, <2>1, AllOne
  <2>3. w = "host"
    BY <1>3 DEF Installs, Places
  <2>4. Prereqs(<<p, "install-host">>) = InstallPrereqs(p, w)
    BY <2>3, PrereqsOf
  <2> QED  BY <2>2, <2>4, InstallDone
<1>4. CASE p \notin Host
  <2>1. Prereqs(<<p, "install">>) =
          << <<p, "install-staging">>, <<p, "install-target">>, <<p, "install-images">> >>
    BY <1>4, PrereqsOf
  <2>2. /\ <<p, "install-staging">> \in visited
        /\ <<p, "install-target">> \in visited
        /\ <<p, "install-images">> \in visited
    BY <1>1, <1>2, <2>1, AllThree
  <2>3. w \in {"staging", "target", "images"}
    BY <1>4 DEF Installs, Places
  <2>4. /\ Prereqs(<<p, "install-staging">>) = InstallPrereqs(p, "staging")
        /\ Prereqs(<<p, "install-target">>) = InstallPrereqs(p, "target")
        /\ Prereqs(<<p, "install-images">>) = InstallPrereqs(p, "images")
    BY PrereqsOf
  <2>5. \E t \in visited : Prereqs(t) = InstallPrereqs(p, w)
    BY <2>2, <2>3, <2>4
  <2> QED  BY <2>5, InstallDone
<1> QED  BY <1>3, <1>4

LEMMA InvDepsReady == IInv => DepsReady
<1> SUFFICES ASSUME IInv, NEW p \in Pkgs, Working(p),
                    NEW i \in 1 .. Len(Deps[p]), NEW w \in Places,
                    Installs(Deps[p][i], w)
             PROVE  inst[Deps[p][i]][w].ok
  BY DEF DepsReady
<1>1. TypeOK /\ WalkInv /\ VisitedDone /\ StampIntegrity
  BY DEF IInv, WalkInv
<1>2. PICK s \in {"configured", "built", "staging_installed", "target_installed",
                 "images_installed", "host_installed"} : Ready /\ Current = <<p, s>>
  BY DEF Working
<1>3. s \in Stamps
  BY DEF Stamps
<1>4. <<p, "depends">> \in visited
  BY <1>1, <1>2, <1>3, RecipeContext
<1>5. Deps[p][i] \in Pkgs /\ <<Deps[p][i], "pkg">> \in visited
  BY <1>1, <1>4, DependsDone, PkgAssumption DEF PkgAssumption
<1>6. InstallStamp(w) \in stamps[Deps[p][i]]
  BY <1>1, <1>5, PkgDone
<1> QED  BY <1>1, <1>5, <1>6 DEF StampIntegrity

(* From the first command of a package's configure step on, every one of   *)
(* its dependencies is completely installed, whatever the order of the     *)
(* goals, the interruptions and the cleaning before.                       *)
THEOREM DependenciesFirst == Spec => []DepsReady
  BY Invariance, InvDepsReady, PTL
=============================================================================
