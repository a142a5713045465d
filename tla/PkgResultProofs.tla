-------------------------- MODULE PkgResultProofs ---------------------------
(***************************************************************************)
(* What make leaves behind: which version is built, installed and in the   *)
(* image, for every set of packages, every acyclic dependency relation and *)
(* every set of commands.                                                  *)
(*                                                                         *)
(* Three invariants carry the results, beside IInv of PkgBuildProofs:      *)
(* Coherent, what the stamps of a package say of each other; Renewed, how  *)
(* far a package that is rebuilt has come; and Imaged, that the image is   *)
(* made last.                                                              *)
(***************************************************************************)
EXTENDS PkgBuildProofs

(* The stamp of the step that brings a package's sources.                  *)
SourceStamp(p) == IF p \in Override THEN "rsynced" ELSE "extracted"

(* The running cleaning rule has still to remove stamp s of p.             *)
Has(q, s) == \E i \in 1 .. Len(q) : q[i] = s
Due(p, s) == phase = "clean" /\ cmd.pkg = p /\ Has(rms, s)

(* What was built was built from the sources that are there, and what is   *)
(* installed is what was built; a rule that removes the stamp of one step  *)
(* removes those of the later steps as well.                               *)
Built(p) ==
  "built" \in stamps[p] =>
    /\ obj[p].ver = tree[p].ver
    /\ SourceStamp(p) \in stamps[p] \/ Due(p, "built")
Installed(p, w) ==
  InstallStamp(w) \in stamps[p] =>
    /\ inst[p][w] = obj[p]
    /\ "built" \in stamps[p] \/ Due(p, InstallStamp(w))
Later(s) == CASE s = "rsynced" -> {"built"}
              [] s = "built"   -> {InstallStamp(w) : w \in Places}
              [] OTHER         -> {}
Ordered(q) ==
  \A i \in 1 .. Len(q) : \A s \in Later(q[i]) : \E j \in i + 1 .. Len(q) : q[j] = s
Removals == Ordered(rms)

Coherent == Removals /\ \A p \in Pkgs : Built(p) /\ \A w \in Places : Installed(p, w)

-----------------------------------------------------------------------------
(* The package that is to be rebuilt, and the version it had then.         *)
Rebuilding == /\ cmd.kind \in {"rebuild", "reconfigure"} /\ cmd.pkg \in Override
              /\ phase # "idle"
Asked == <<cmd.pkg, "pkg">>
IsNew(s, ver) == s \in stamps[cmd.pkg] => Due(cmd.pkg, s) \/ ver >= cmd.ver

(* The package is the first goal, and its image waits for it.              *)
First ==
  \/ Asked \in visited
  \/ stack = <<>> /\ visited = {} /\ goals # <<>> /\ Head(goals) = Asked
  \/ stack # <<>> /\ stack[1] = Asked

-----------------------------------------------------------------------------
(* The image is asked for as part of `all' only.                           *)
ByAll == \A c \in Commands : \A i \in 1 .. Len(c) : c[i] # <<Top, "rootfs">>

NoImageGoal ==
  /\ \A i \in 1 .. Len(goals) : goals[i] # <<Top, "rootfs">>
  /\ stack # <<>> => stack[1] # <<Top, "rootfs">>

(* Once the image is made, it is made of all there is.                     *)
Imaged ==
  <<Top, "rootfs">> \in visited =>
    /\ \A i \in 1 .. Len(stack) : stack[i] # <<Top, "rootfs">>
    /\ \A i \in 1 .. Len(World) :
         /\ <<World[i], "pkg">> \in visited
         /\ Installs(World[i], "target") => image[World[i]] = inst[World[i]]["target"]

-----------------------------------------------------------------------------
(* The steps of a package, by what they do to it.                          *)

Others(p) ==
  \A q \in Pkgs : q # p => /\ stamps'[q] = stamps[q] /\ tree'[q] = tree[q]
                           /\ obj'[q] = obj[q] /\ inst'[q] = inst[q]

(* The sources come, or begin to.                                          *)
Brings(p) ==
  /\ SourceStamp(p) \notin stamps[p] /\ obj'[p] = obj[p] /\ inst'[p] = inst[p]
  /\ \/ stamps'[p] = stamps[p]
     \/ stamps'[p] = stamps[p] \cup {SourceStamp(p)} /\ tree'[p].ver = src[p]

(* Neither the version of the sources nor what was made of them changes.   *)
Prepares(p) ==
  /\ stamps[p] \subseteq stamps'[p]
  /\ stamps'[p] \subseteq stamps[p] \cup {"downloaded", "patched", "configured"}
  /\ obj'[p] = obj[p] /\ inst'[p] = inst[p] /\ tree'[p].ver = tree[p].ver

(* The package is built, or begins to be.                                  *)
Builds(p) ==
  /\ "built" \notin stamps[p] /\ SourceStamp(p) \in stamps[p]
  /\ tree'[p] = tree[p] /\ inst'[p] = inst[p]
  /\ \/ stamps'[p] = stamps[p]
     \/ stamps'[p] = stamps[p] \cup {"built"} /\ obj'[p].ver = tree[p].ver

(* It is installed, or begins to be.                                       *)
PutsIn(p, w) ==
  /\ InstallStamp(w) \notin stamps[p] /\ "built" \in stamps[p]
  /\ tree'[p] = tree[p] /\ obj'[p] = obj[p]
  /\ \A v \in Places : v # w => inst'[p][v] = inst[p][v]
  /\ \/ stamps'[p] = stamps[p]
     \/ stamps'[p] = stamps[p] \cup {InstallStamp(w)} /\ inst'[p][w] = obj[p]

Effect(p) == Brings(p) \/ Prepares(p) \/ Builds(p) \/ \E w \in Places : PutsIn(p, w)

(* Every step of a recipe has one of these effects, on its package only.   *)
LEMMA RecipeEffect ==
  ASSUME IInv, NEW p \in Pkgs, Recipe(p)
  PROVE  /\ Others(p) /\ Effect(p) /\ phase = "update" /\ image' = image
         /\ src' = src /\ cmd' = cmd
<1>. USE DEF At, Ready
<1>1. TypeOK /\ WalkInv
  BY DEF IInv
<1>2. /\ stamps \in [Pkgs -> SUBSET Stamps] /\ tree \in [Pkgs -> Tree] /\ obj \in [Pkgs -> Content]
      /\ inst \in [Pkgs -> [Places -> Content]] /\ src \in [Pkgs -> 1 .. MaxVer]
  BY <1>1 DEF TypeOK
<1>3. \A s \in Stamps : Touch(p, s) =>
        /\ stamps'[p] = stamps[p] \cup {s}
        /\ \A q \in Pkgs : q # p => stamps'[q] = stamps[q]
  BY <1>2 DEF Touch
<1>4. CASE \/ Download(p) \/ BeginPatch(p) \/ EndPatch(p) \/ FailPatch(p)
           \/ BeginConfigure(p) \/ EndConfigure(p)
  <2>1. /\ tree' = tree /\ obj' = obj /\ inst' = inst /\ image' = image /\ phase = "update"
        /\ src' = src /\ cmd' = cmd
    BY <1>4 DEF Download, BeginPatch, EndPatch, FailPatch, Stuck, Exit, BeginConfigure, EndConfigure,
                disk, Same
  <2>2. \/ stamps' = stamps \/ Touch(p, "downloaded") \/ Touch(p, "patched")
        \/ Touch(p, "configured")
    BY <1>4 DEF Download, BeginPatch, EndPatch, FailPatch, Exit, BeginConfigure, EndConfigure, disk
  <2>3. Others(p) /\ Prepares(p)
    BY <1>3, <2>1, <2>2 DEF Others, Prepares, Stamps
  <2>. QED  BY <2>1, <2>3 DEF Effect
<1>5. CASE ApplyPatch(p)
  <2>1. /\ tree'[p].ver = tree[p].ver /\ \A q \in Pkgs : q # p => tree'[q] = tree[q]
    BY <1>2, <1>5 DEF ApplyPatch, Tree
  <2>2. /\ stamps' = stamps /\ obj' = obj /\ inst' = inst /\ image' = image /\ phase = "update"
        /\ src' = src /\ cmd' = cmd
    BY <1>5 DEF ApplyPatch, Same
  <2>. QED  BY <2>1, <2>2 DEF Others, Prepares, Effect
<1>6. CASE BeginExtract(p) \/ EndExtract(p) \/ BeginRsync(p) \/ EndRsync(p)
  <2>1. /\ obj' = obj /\ inst' = inst /\ image' = image /\ phase = "update" /\ src' = src /\ cmd' = cmd
        /\ \A q \in Pkgs : q # p => tree'[q] = tree[q]
    BY <1>2, <1>6 DEF BeginExtract, EndExtract, BeginRsync, EndRsync, Same
  <2>2. CASE BeginExtract(p) \/ EndExtract(p)
    <3>1. SourceStamp(p) = "extracted" /\ "extracted" \notin stamps[p]
      BY <1>1, <2>2, RecipeContext DEF BeginExtract, EndExtract, Stamps, SourceStamp
    <3>2. \/ stamps' = stamps
          \/ Touch(p, "extracted") /\ tree'[p].ver = src[p]
      BY <1>2, <2>2 DEF BeginExtract, EndExtract
    <3>. QED  BY <1>3, <2>1, <3>1, <3>2 DEF Others, Brings, Effect, Stamps
  <2>3. CASE BeginRsync(p) \/ EndRsync(p)
    <3>1. SourceStamp(p) = "rsynced" /\ "rsynced" \notin stamps[p]
      BY <1>1, <2>3, RecipeContext DEF BeginRsync, EndRsync, Stamps, SourceStamp
    <3>2. \/ stamps' = stamps
          \/ Touch(p, "rsynced") /\ tree'[p].ver = src[p]
      BY <1>2, <2>3 DEF BeginRsync, EndRsync, Tree
    <3>. QED  BY <1>3, <2>1, <3>1, <3>2 DEF Others, Brings, Effect, Stamps
  <2>. QED  BY <1>6, <2>2, <2>3
<1>7. CASE BeginBuild(p) \/ EndBuild(p)
  <2>1. /\ tree' = tree /\ inst' = inst /\ image' = image /\ phase = "update" /\ src' = src /\ cmd' = cmd
        /\ Current = <<p, "built">> /\ "built" \notin stamps[p]
        /\ \A q \in Pkgs : q # p => obj'[q] = obj[q]
    BY <1>2, <1>7 DEF BeginBuild, EndBuild, Same
  <2>2. SourceStamp(p) \in stamps[p]
    BY <1>1, <1>7, <2>1, RecipeContext DEF BeginBuild, EndBuild, Stamps, SourceStamp
  <2>3. stamps' = stamps \/ (Touch(p, "built") /\ obj'[p].ver = tree[p].ver)
    <3>1. CASE BeginBuild(p)
      <4>1. stamps' = stamps
        BY <3>1 DEF BeginBuild
      <4>. QED  BY <4>1
    <3>2. CASE EndBuild(p)
      <4>. DEFINE new == [ver |-> tree[p].ver, ok |-> TreeOk(p) /\ conf[p].ok]
      <4>1. new.ver = tree[p].ver
        OBVIOUS
      <4>2. obj' = [obj EXCEPT ![p] = new] /\ Touch(p, "built")
        BY <3>2 DEF EndBuild
      <4>. HIDE DEF new
      <4>. QED  BY <1>2, <4>1, <4>2
    <3>. QED  BY <1>7, <3>1, <3>2
  <2>. QED  BY <1>3, <2>1, <2>2, <2>3 DEF Others, Builds, Effect, Stamps
<1>8. ASSUME NEW w \in Places, BeginInstall(p, w) \/ EndInstall(p, w)
      PROVE  /\ Others(p) /\ PutsIn(p, w) /\ phase = "update" /\ image' = image
             /\ src' = src /\ cmd' = cmd
  <2>1. /\ tree' = tree /\ obj' = obj /\ image' = image /\ phase = "update" /\ src' = src /\ cmd' = cmd
        /\ Current = <<p, InstallStamp(w)>> /\ InstallStamp(w) \notin stamps[p]
    BY <1>8 DEF BeginInstall, EndInstall, Same
  <2>2. /\ \A q \in Pkgs : q # p => inst'[q] = inst[q]
        /\ \A v \in Places : v # w => inst'[p][v] = inst[p][v]
    BY <1>2, <1>8 DEF BeginInstall, EndInstall
  <2>3. /\ InstallStamp(w) \in Stamps
        /\ InstallStamp(w) \in {"staging_installed", "target_installed", "images_installed",
                                "host_installed"}
    BY InstallPrereqsOf
  <2>4. "built" \in stamps[p]
    BY <1>1, <1>8, <2>1, <2>3, RecipeContext DEF BeginInstall, EndInstall
  <2>5. stamps' = stamps \/ (Touch(p, InstallStamp(w)) /\ inst'[p][w] = obj[p])
    <3>1. CASE BeginInstall(p, w)
      <4>1. stamps' = stamps
        BY <3>1 DEF BeginInstall
      <4>. QED  BY <4>1
    <3>2. CASE EndInstall(p, w)
      BY <1>2, <3>2 DEF EndInstall
    <3>. QED  BY <1>8, <3>1, <3>2
  <2>. QED  BY <1>3, <2>1, <2>2, <2>3, <2>4, <2>5 DEF Others, PutsIn
<1>. QED  BY <1>4, <1>5, <1>6, <1>7, <1>8 DEF Recipe, Effect

(* The steps of make that work on no package.                              *)
LEMMA WalkEffect ==
  ASSUME StartGoal \/ Descend \/ Skip \/ Succeed \/ Abort \/ Finalize \/ BeginRootfs \/ EndRootfs
  PROVE  UNCHANGED <<stamps, tree, obj, inst, src, cmd>>
  BY DEF StartGoal, Descend, Skip, Succeed, Abort, Exit, Finalize, BeginRootfs, EndRootfs, disk, Same

-----------------------------------------------------------------------------
(* What the cleaning rules remove.                                         *)

(* The stamps of the rule in order: the stamp of the sources of a package  *)
(* under development, the build and the installations, and, if it is to be *)
(* reconfigured, the configuration.                                        *)
Items(q, o) ==
  /\ Len(q) \in {o + 5, o + 6} /\ (o = 1 => q[1] = "rsynced")
  /\ q[o + 1] = "built" /\ q[o + 2] = "staging_installed" /\ q[o + 3] = "target_installed"
  /\ q[o + 4] = "images_installed" /\ q[o + 5] = "host_installed"
  /\ Len(q) = o + 6 => q[o + 6] = "configured"

(* Two lists one after the other.                                          *)
LEMMA Concatenated ==
  ASSUME NEW S, NEW q \in Seq(S), NEW r \in Seq(S), NEW both, both = q \o r
  PROVE  /\ both \in Seq(S) /\ Len(both) = Len(q) + Len(r)
         /\ \A i \in 1 .. Len(q) : both[i] = q[i]
         /\ \A i \in 1 .. Len(r) : both[Len(q) + i] = r[i]
  OBVIOUS

(* What the rule of -rebuild, and that of -reconfigure, removes.           *)
LEMMA CleanItems ==
  ASSUME NEW p \in Pkgs, NEW kind, kind = "rebuild" \/ kind = "reconfigure"
  PROVE  \E o \in {0, 1} : (p \in Override => o = 1) /\ Items(CleanList(kind, p), o)
<1>. DEFINE o == IF p \in Override THEN 1 ELSE 0
            list == CleanList(kind, p)
            head == IF p \in Override THEN <<"rsynced">> ELSE <<>>
            base == <<"built", "staging_installed", "target_installed", "images_installed",
                      "host_installed">>
            tail == <<"configured">>
<1>1. /\ base \in Seq(Stamps) /\ Len(base) = 5 /\ base[1] = "built" /\ base[2] = "staging_installed"
      /\ base[3] = "target_installed" /\ base[4] = "images_installed" /\ base[5] = "host_installed"
  BY DEF Stamps
<1>2. head \in Seq(Stamps) /\ Len(head) = o /\ (o = 1 => head[1] = "rsynced") /\ o \in {0, 1}
  <2>1. CASE p \in Override
    <3>1. head = <<"rsynced">> /\ o = 1
      BY <2>1
    <3>2. <<"rsynced">> \in Seq(Stamps) /\ Len(<<"rsynced">>) = 1 /\ <<"rsynced">>[1] = "rsynced"
      BY DEF Stamps
    <3>. QED  BY <3>1, <3>2
  <2>2. CASE p \notin Override
    <3>1. head = <<>> /\ o = 0
      BY <2>2
    <3>2. <<>> \in Seq(Stamps) /\ Len(<<>>) = 0
      OBVIOUS
    <3>. QED  BY <3>1, <3>2
  <2>. QED  BY <2>1, <2>2
<1>3. tail \in Seq(Stamps) /\ Len(tail) = 1 /\ tail[1] = "configured"
  BY DEF Stamps
<1>4. list = head \o base \/ list = (head \o base) \o tail
  BY DEF CleanList, CleanForRebuild
<1>0. o \in {0, 1} /\ (p \in Override => o = 1)
  OBVIOUS
<1>. HIDE DEF head, base, tail, o, list
<1>. DEFINE both == head \o base
<1>5. /\ both \in Seq(Stamps) /\ Len(both) = o + 5
      /\ \A i \in 1 .. o : both[i] = head[i]
      /\ \A i \in 1 .. 5 : both[o + i] = base[i]
  <2>1. /\ both \in Seq(Stamps) /\ Len(both) = Len(head) + Len(base)
        /\ \A i \in 1 .. Len(head) : both[i] = head[i]
        /\ \A i \in 1 .. Len(base) : both[Len(head) + i] = base[i]
    <3>1. both = head \o base /\ head \in Seq(Stamps) /\ base \in Seq(Stamps)
      BY <1>1, <1>2
    <3>. HIDE DEF both
    <3>. QED  BY <3>1, Concatenated
  <2>. HIDE DEF both
  <2>. QED  BY <1>1, <1>2, <2>1
<1>. HIDE DEF both
<1>6. /\ (o = 1 => both[1] = "rsynced")
      /\ both[o + 1] = "built" /\ both[o + 2] = "staging_installed"
      /\ both[o + 3] = "target_installed" /\ both[o + 4] = "images_installed"
      /\ both[o + 5] = "host_installed"
  BY <1>1, <1>2, <1>5
<1>7. ASSUME list = both PROVE Items(list, o)
  <2>1. Items(both, o)
    BY <1>2, <1>5, <1>6 DEF Items
  <2>. QED  BY <1>7, <2>1
<1>8. ASSUME list = both \o tail PROVE Items(list, o)
  <2>1. /\ Len(list) = o + 6 /\ \A i \in 1 .. o + 5 : list[i] = both[i]
        /\ \A i \in 1 .. 1 : list[o + 5 + i] = tail[i]
    <3>1. /\ Len(list) = Len(both) + Len(tail)
          /\ \A i \in 1 .. Len(both) : list[i] = both[i]
          /\ \A i \in 1 .. Len(tail) : list[Len(both) + i] = tail[i]
      <4>1. both \in Seq(Stamps) /\ tail \in Seq(Stamps)
        BY <1>3, <1>5
      <4>. QED  BY <1>8, <4>1, Concatenated
    <3>. QED  BY <1>2, <1>3, <1>5, <3>1
  <2>2. list[o + 6] = "configured"
    BY <1>2, <1>3, <2>1
  <2>. QED  BY <1>2, <1>6, <2>1, <2>2 DEF Items
<1>9. Items(list, o)
  BY <1>4, <1>7, <1>8 DEF both
<1>. QED  BY <1>0, <1>9 DEF list

(* Each removes the stamps of the later steps after that of an earlier one.*)
LEMMA CleansInOrder ==
  ASSUME NEW p \in Pkgs, NEW kind, kind = "rebuild" \/ kind = "reconfigure"
  PROVE  /\ Ordered(CleanList(kind, p)) /\ Has(CleanList(kind, p), "built")
         /\ p \in Override => Has(CleanList(kind, p), "rsynced")
         /\ Has(CleanList(kind, p), "target_installed")
<1>. DEFINE list == CleanList(kind, p)
<1>2. PICK o \in {0, 1} : (p \in Override => o = 1) /\ Items(list, o)
  BY CleanItems
<1>. HIDE DEF list
<1>1. /\ Len(list) \in {o + 5, o + 6} /\ (o = 1 => list[1] = "rsynced")
      /\ list[o + 1] = "built" /\ list[o + 2] = "staging_installed"
      /\ list[o + 3] = "target_installed" /\ list[o + 4] = "images_installed"
      /\ list[o + 5] = "host_installed" /\ (Len(list) = o + 6 => list[o + 6] = "configured")
  BY <1>2 DEF Items
<1>3. /\ Later("rsynced") = {"built"}
      /\ Later("built") = {"staging_installed", "target_installed", "images_installed",
                           "host_installed"}
      /\ \A s : s # "rsynced" /\ s # "built" => Later(s) = {}
  BY DEF Later, InstallStamp, Places
<1>4. /\ \A i \in 1 .. Len(list) : i <= o => list[i] = "rsynced"
      /\ \A i \in 1 .. Len(list) : i > o + 1 => list[i] # "rsynced" /\ list[i] # "built"
  BY <1>1, <1>2
<1>5. ASSUME NEW i \in 1 .. Len(list), NEW s \in Later(list[i])
      PROVE  \E j \in i + 1 .. Len(list) : list[j] = s
  <2>1. i <= o + 1
    BY <1>2, <1>3, <1>4, <1>5
  <2>2. CASE i <= o
    <3>1. s = "built" /\ o + 1 \in i + 1 .. Len(list)
      BY <1>1, <1>2, <1>3, <1>4, <1>5, <2>2
    <3>. QED  BY <1>1, <3>1
  <2>3. CASE i = o + 1
    <3>1. s \in {"staging_installed", "target_installed", "images_installed", "host_installed"}
      BY <1>1, <1>3, <1>5, <2>3
    <3>2. /\ o + 2 \in i + 1 .. Len(list) /\ o + 3 \in i + 1 .. Len(list)
          /\ o + 4 \in i + 1 .. Len(list) /\ o + 5 \in i + 1 .. Len(list)
      BY <1>1, <1>2, <2>3
    <3>. QED  BY <1>1, <3>1, <3>2
  <2>. QED  BY <1>2, <2>1, <2>2, <2>3
<1>6. /\ 1 \in 1 .. Len(list) /\ o + 1 \in 1 .. Len(list) /\ o + 3 \in 1 .. Len(list)
  BY <1>1, <1>2
<1>7. Ordered(list) /\ Has(list, "built") /\ Has(list, "target_installed")
  BY <1>1, <1>5, <1>6 DEF Ordered, Has
<1>8. p \in Override => Has(list, "rsynced")
  BY <1>1, <1>2, <1>6 DEF Has
<1>. QED  BY <1>7, <1>8 DEF list

(* One stamp is removed; those due later are still due.                    *)
LEMMA StillDue ==
  ASSUME IInv, RmStamp, NEW p \in Pkgs, NEW s, Due(p, s), s # Head(rms)
  PROVE  Due(p, s)'
<1>1. rms \in Seq(Stamps) /\ rms # <<>> /\ rms' = Tail(rms) /\ cmd' = cmd
  BY DEF IInv, TypeOK, RmStamp
<1>2. PICK i \in 1 .. Len(rms) : rms[i] = s
  BY DEF Due, Has
<1>3. /\ Head(rms) = rms[1] /\ Len(rms) \in Nat \ {0} /\ Len(rms') = Len(rms) - 1
      /\ \A j \in 1 .. Len(rms) - 1 : rms'[j] = rms[j + 1]
  BY <1>1
<1>4. i # 1 /\ i - 1 \in 1 .. Len(rms) - 1 /\ i - 1 + 1 = i
  BY <1>2, <1>3
<1>5. rms'[i - 1] = s /\ Len(rms) # 1
  BY <1>2, <1>3, <1>4
<1>6. phase' = "clean"
  BY <1>5 DEF RmStamp
<1>. QED  BY <1>1, <1>3, <1>4, <1>5, <1>6 DEF Due, Has

(* So the order of the removals stays what it is, and what is to be        *)
(* removed after the stamp at hand becomes due.                            *)
LEMMA OrderKept ==
  ASSUME IInv, Removals, RmStamp
  PROVE  Removals' /\ \A s \in Later(Head(rms)) : Due(cmd.pkg, s) /\ s # Head(rms)
<1>1. rms \in Seq(Stamps) /\ rms # <<>> /\ rms' = Tail(rms)
  BY DEF IInv, TypeOK, RmStamp
<1>2. /\ Head(rms) = rms[1] /\ Len(rms) \in Nat \ {0} /\ Len(rms') = Len(rms) - 1
      /\ \A j \in 1 .. Len(rms) - 1 : rms'[j] = rms[j + 1]
  BY <1>1
<1>3. Removals'
  <2>. DEFINE next == rms'
  <2>. SUFFICES ASSUME NEW i \in 1 .. Len(next), NEW s \in Later(next[i])
                PROVE  \E j \in i + 1 .. Len(next) : next[j] = s
    BY DEF Removals, Ordered, Later
  <2>0. Len(next) = Len(rms) - 1 /\ next[i] = rms[i + 1] /\ i \in 1 .. Len(rms) - 1
    BY <1>2
  <2>. HIDE DEF next
  <2>1. i + 1 \in 1 .. Len(rms) /\ s \in Later(rms[i + 1])
    BY <1>2, <2>0
  <2>2. PICK j \in i + 1 + 1 .. Len(rms) : rms[j] = s
    BY <2>1 DEF Removals, Ordered
  <2>3. j - 1 \in i + 1 .. Len(rms) - 1 /\ j - 1 \in 1 .. Len(rms) - 1 /\ j - 1 + 1 = j
    BY <1>2, <2>2
  <2>4. next[j - 1] = s
    BY <1>2, <2>2, <2>3 DEF next
  <2>. QED  BY <2>0, <2>3, <2>4
<1>4. ASSUME NEW s \in Later(Head(rms)) PROVE Due(cmd.pkg, s) /\ s # Head(rms)
  <2>1. 1 \in 1 .. Len(rms)
    BY <1>2
  <2>2. \E j \in 1 + 1 .. Len(rms) : rms[j] = s
    BY <1>2, <1>4, <2>1 DEF Removals, Ordered
  <2>3. s # Head(rms)
    <3>1. \A w \in Places : InstallStamp(w) # "built"
      BY DEF InstallStamp, Places
    <3>. QED  BY <1>4, <3>1 DEF Later
  <2>. QED  BY <1>2, <2>2, <2>3 DEF Due, Has, RmStamp
<1>. QED  BY <1>3, <1>4

-----------------------------------------------------------------------------
(* Coherent is inductive, as long as no cleaning rule is interrupted.      *)

(* Nothing is due while nothing is cleaned.                                *)
LEMMA NotDue == phase # "clean" => \A p, s : ~Due(p, s)
  BY DEF Due, Has

(* The stamps and what they are about stay as they are.                    *)
LEMMA CoherentStays ==
  ASSUME Coherent, phase # "clean", UNCHANGED <<stamps, tree, obj, inst>>, Removals'
  PROVE  Coherent'
  BY NotDue DEF Coherent, Built, Installed

(* A step of a recipe of package p.                                        *)
LEMMA CoherentRecipe ==
  ASSUME IInv, Coherent, NEW p \in Pkgs, Others(p), Effect(p), phase = "update", Removals'
  PROVE  Coherent'
<1>1. \A q, s : ~Due(q, s)
  BY NotDue
<1>2. \A w \in Places : InstallStamp(w) \notin {"extracted", "rsynced", "patched", "configured",
                                              "downloaded", "built"}
  BY DEF InstallStamp, Places
<1>3. SourceStamp(p) \in {"extracted", "rsynced"}
  BY DEF SourceStamp
<1>4. \A q \in Pkgs : q # p => Built(q)' /\ \A w \in Places : Installed(q, w)'
  BY <1>1 DEF Coherent, Built, Installed, Others, SourceStamp
<1>5. Built(p) /\ \A w \in Places : Installed(p, w)
  BY DEF Coherent
<1>6. CASE Brings(p)
  <2>1. "built" \notin stamps[p] /\ \A w \in Places : InstallStamp(w) \notin stamps[p]
    BY <1>1, <1>5, <1>6 DEF Brings, Built, Installed
  <2>2. "built" \notin stamps'[p] /\ \A w \in Places : InstallStamp(w) \notin stamps'[p]
    BY <1>2, <1>3, <1>6, <2>1 DEF Brings
  <2>3. Built(p)' /\ \A w \in Places : Installed(p, w)'
    BY <2>2 DEF Built, Installed
  <2>. QED  BY <1>4, <2>3 DEF Coherent
<1>7. CASE Prepares(p)
  <2>1. Built(p)'
    BY <1>1, <1>5, <1>7 DEF Prepares, Built, SourceStamp
  <2>2. \A w \in Places : Installed(p, w)'
    BY <1>1, <1>2, <1>5, <1>7 DEF Prepares, Installed
  <2>. QED  BY <1>4, <2>1, <2>2 DEF Coherent
<1>8. CASE Builds(p)
  <2>1. \A w \in Places : InstallStamp(w) \notin stamps'[p]
    BY <1>1, <1>2, <1>5, <1>8 DEF Builds, Installed
  <2>2. Built(p)'
    BY <1>8 DEF Builds, Built, SourceStamp
  <2>. QED  BY <1>4, <2>1, <2>2 DEF Coherent, Installed
<1>9. ASSUME NEW v \in Places, PutsIn(p, v) PROVE Coherent'
  <2>1. Built(p)'
    BY <1>1, <1>5, <1>9 DEF PutsIn, Built, SourceStamp
  <2>2. \A w \in Places : w # v => InstallStamp(w) # InstallStamp(v)
    BY DEF InstallStamp, Places
  <2>3. ASSUME NEW w \in Places PROVE Installed(p, w)'
    <3>1. CASE w = v
      BY <1>9, <3>1 DEF PutsIn, Installed
    <3>2. CASE w # v
      BY <1>5, <1>9, <2>2, <3>2 DEF PutsIn, Installed
    <3>. QED  BY <3>1, <3>2
  <2>. QED  BY <1>4, <2>1, <2>3 DEF Coherent
<1>. QED  BY <1>6, <1>7, <1>8, <1>9 DEF Effect

(* Cleaning removes the later stamps after the earlier ones.               *)
LEMMA CoherentClean ==
  ASSUME IInv, Coherent, RmStamp \/ Dirclean
  PROVE  Coherent'
<1>1. /\ stamps \in [Pkgs -> SUBSET Stamps] /\ tree \in [Pkgs -> Tree] /\ obj \in [Pkgs -> Content]
  BY DEF IInv, TypeOK
<1>2. CASE RmStamp
  <2>1. /\ UNCHANGED <<tree, obj, inst, cmd>> /\ Removals /\ phase = "clean"
        /\ \A q \in Pkgs : q # cmd.pkg => stamps'[q] = stamps[q] /\ \A s : ~Due(q, s)
        /\ \A q \in Pkgs : q = cmd.pkg => stamps'[q] = stamps[q] \ {Head(rms)}
    BY <1>1, <1>2 DEF RmStamp, Coherent, Due, Has
  <2>2. Removals' /\ \A s \in Later(Head(rms)) : Due(cmd.pkg, s) /\ s # Head(rms)
    BY <1>2, <2>1, OrderKept
  <2>3. Head(rms) \notin {"extracted", "patched"}
    <3>1. rms \in Seq(Stamps) /\ rms # <<>>
      BY <1>2 DEF IInv, TypeOK, RmStamp
    <3>2. Head(rms) = rms[1] /\ 1 \in 1 .. Len(rms)
      BY <3>1
    <3>. QED  BY <3>2 DEF IInv, Removable
  <2>4. ASSUME NEW q \in Pkgs PROVE Built(q)'
    <3>1. CASE q # cmd.pkg \/ "built" \notin stamps'[q]
      BY <2>1, <3>1 DEF Coherent, Built, SourceStamp
    <3>2. CASE q = cmd.pkg /\ "built" \in stamps'[q]
      <4>1. Built(q) /\ "built" \in stamps[q] /\ "built" # Head(rms)
        BY <2>1, <3>2 DEF Coherent
      <4>2. Due(q, "built") => Due(q, "built")'
        BY <1>2, <4>1, StillDue
      <4>3. CASE SourceStamp(q) = Head(rms)
        <5>1. "built" \in Later(Head(rms))
          BY <2>3, <4>3 DEF SourceStamp, Later
        <5>. QED  BY <2>1, <2>2, <3>2, <4>1, <4>2, <5>1 DEF Built
      <4>4. CASE SourceStamp(q) # Head(rms)
        BY <2>1, <3>2, <4>1, <4>2, <4>4 DEF Built, SourceStamp
      <4>. QED  BY <4>3, <4>4
    <3>. QED  BY <3>1, <3>2
  <2>5. ASSUME NEW q \in Pkgs, NEW w \in Places PROVE Installed(q, w)'
    <3>1. CASE q # cmd.pkg \/ InstallStamp(w) \notin stamps'[q]
      BY <2>1, <3>1 DEF Coherent, Installed
    <3>2. CASE q = cmd.pkg /\ InstallStamp(w) \in stamps'[q]
      <4>1. Installed(q, w) /\ InstallStamp(w) \in stamps[q] /\ InstallStamp(w) # Head(rms)
        BY <2>1, <3>2 DEF Coherent
      <4>2. Due(q, InstallStamp(w)) => Due(q, InstallStamp(w))'
        BY <1>2, <4>1, StillDue
      <4>3. CASE "built" = Head(rms)
        <5>1. InstallStamp(w) \in Later(Head(rms))
          BY <4>3 DEF Later
        <5>. QED  BY <2>1, <2>2, <3>2, <4>1, <4>2, <5>1 DEF Installed
      <4>4. CASE "built" # Head(rms)
        BY <2>1, <3>2, <4>1, <4>2, <4>4 DEF Installed
      <4>. QED  BY <4>3, <4>4
    <3>. QED  BY <3>1, <3>2
  <2>. QED  BY <2>2, <2>4, <2>5 DEF Coherent
<1>3. CASE Dirclean
  <2>1. /\ inst' = inst /\ rms' = rms /\ cmd' = cmd /\ phase = "clean" /\ phase' = "update"
        /\ \A q \in Pkgs : q # cmd.pkg => /\ stamps'[q] = stamps[q] /\ tree'[q] = tree[q]
                                          /\ obj'[q] = obj[q] /\ \A s : ~Due(q, s)
        /\ \A q \in Pkgs : q = cmd.pkg => stamps'[q] = {}
    BY <1>1, <1>3 DEF Dirclean, Due, Has
  <2>2. Removals'
    BY <2>1 DEF Coherent, Removals, Ordered
  <2>3. \A q \in Pkgs : Built(q)' /\ \A w \in Places : Installed(q, w)'
    BY <2>1 DEF Coherent, Built, Installed, SourceStamp
  <2>. QED  BY <2>2, <2>3 DEF Coherent
<1>. QED  BY <1>2, <1>3

(* Every step but the interruption of a cleaning rule.                     *)
LEMMA CoherentStep ==
  ASSUME ~CleanInterrupt
  PROVE  IInv /\ Coherent /\ [Next]_vars => Coherent'
<1>. SUFFICES ASSUME IInv, Coherent, [Next]_vars PROVE Coherent'
  OBVIOUS
<1>1. rms' \in {rms, <<>>} => Removals'
  <2>1. CASE rms' = rms
    BY <2>1 DEF Coherent, Removals, Ordered, Later
  <2>2. CASE rms' = <<>>
    <3>1. Len(rms') = 0
      BY <2>2
    <3>. QED  BY <3>1 DEF Removals, Ordered
  <2>. QED  BY <2>1, <2>2
<1>2. CASE UNCHANGED vars
  <2>1. rms' = rms
    BY <1>2 DEF vars
  <2>. QED  BY <1>1, <1>2, <2>1 DEF vars, disk, Coherent, Built, Installed, Due, Has, SourceStamp
<1>3. ASSUME NEW p \in Pkgs, EditSource(p) PROVE Coherent'
  <2>1. rms' = rms
    BY <1>3 DEF EditSource
  <2>. QED  BY <1>1, <1>3, <2>1 DEF EditSource, disk, Coherent, Built, Installed, Due, Has, SourceStamp
<1>4. ASSUME NEW c \in Commands, Invoke(c) PROVE Coherent'
  BY <1>1, <1>4, CoherentStays DEF Invoke, disk
<1>5. ASSUME NEW kind \in CleanKinds, NEW p \in Pkgs, NEW c \in Commands, InvokeClean(kind, p, c)
      PROVE  Coherent'
  <2>1. rms' = CleanList(kind, p) /\ phase = "idle" /\ UNCHANGED disk
    BY <1>5 DEF InvokeClean
  <2>2. Removals'
    <3>1. CASE kind = "dirclean"
      <4>1. rms' = <<>>
        BY <2>1, <3>1 DEF CleanList
      <4>. QED  BY <1>1, <4>1
    <3>2. CASE kind # "dirclean"
      <4>1. kind \in {"rebuild", "reconfigure"}
        BY <3>2 DEF CleanKinds
      <4>2. Ordered(CleanList(kind, p))
        BY <4>1, CleansInOrder
      <4>. QED  BY <2>1, <4>2 DEF Removals, Ordered
    <3>. QED  BY <3>1, <3>2
  <2>. QED  BY <2>1, <2>2, CoherentStays DEF disk
<1>6. CASE RmStamp \/ Dirclean
  BY <1>6, CoherentClean
<1>7. ASSUME NEW p \in Pkgs, Recipe(p) PROVE Coherent'
  <2>1. rms' \in {rms, <<>>}
    BY <1>7 DEF Recipe, Same, Download, BeginExtract, EndExtract, BeginRsync, EndRsync, BeginPatch,
         ApplyPatch, EndPatch, FailPatch, Exit, BeginConfigure, EndConfigure, BeginBuild, EndBuild,
         BeginInstall, EndInstall
  <2>. QED  BY <1>1, <1>7, <2>1, RecipeEffect, CoherentRecipe
<1>8. CASE StartGoal \/ Descend \/ Skip \/ Succeed \/ Abort \/ Finalize \/ BeginRootfs \/ EndRootfs
  <2>1. phase # "clean" /\ rms' \in {rms, <<>>}
    BY <1>8 DEF StartGoal, Descend, Skip, Succeed, Abort, Exit, Finalize, BeginRootfs, EndRootfs, Ready,
         Same
  <2>2. UNCHANGED <<stamps, tree, obj, inst>>
    BY <1>8, WalkEffect
  <2>. QED  BY <1>1, <2>1, <2>2, CoherentStays
<1>. QED  BY <1>2, <1>3, <1>4, <1>5, <1>6, <1>7, <1>8 DEF Next, MakeStep

(* Coherent holds in every state.                                          *)
LEMMA AlwaysCoherent ==
  ASSUME ~CleanInterrupt
  PROVE  Spec => []Coherent
<1>1. Init => Coherent
  BY DEF Init, Coherent, Removals, Ordered, Built, Installed
<1>. QED  BY <1>1, CoherentStep, Invariance, PTL DEF Spec

(* While no rule is removing stamps, what the stamps of a package say      *)
(* agrees: it was built from the sources that are there, and what was      *)
(* built is what is installed.  An interruption within a cleaning rule is  *)
(* excluded: the run PkgBuildInterrupted shows what it leaves behind.      *)
THEOREM StampsTell ==
  ASSUME ~CleanInterrupt
  PROVE  Spec => []StampsCoherent
<1>1. Coherent => StampsCoherent
  BY NotDue DEF Coherent, Built, Installed, StampsCoherent
<1>. QED  BY <1>1, AlwaysCoherent, PTL

-----------------------------------------------------------------------------
(* What was built is built again only if the user names it.                *)

(* The disk below the build directories in the other steps.                *)
LEMMA OthersQuiet ==
  ASSUME [Next]_vars, ~RmStamp, ~Dirclean, \A p \in Pkgs : ~Recipe(p)
  PROVE  UNCHANGED <<stamps, tree, obj, inst>>
<1>1. CASE UNCHANGED vars
  BY <1>1 DEF vars, disk
<1>2. CASE \E p \in Pkgs : EditSource(p)
  BY <1>2 DEF EditSource, disk
<1>3. CASE \/ \E c \in Commands : Invoke(c)
           \/ \E kind \in CleanKinds, p \in Pkgs, c \in Commands : InvokeClean(kind, p, c)
  BY <1>3 DEF Invoke, InvokeClean, disk
<1>4. CASE StartGoal \/ Descend \/ Skip \/ Succeed \/ Abort \/ Finalize \/ BeginRootfs \/ EndRootfs
  BY <1>4, WalkEffect
<1>. QED  BY <1>1, <1>2, <1>3, <1>4 DEF Next, MakeStep

(* A package that is built stays built, with the same result, in every     *)
(* step of make and of the user, unless the command names it.  It needs no *)
(* condition: interruptions, edits and every command are among the steps.  *)
THEOREM OnlyAsked == Spec => OnlyWhenAsked
<1>1. ASSUME IInv, [Next]_vars, NEW p \in Pkgs
      PROVE  /\ "built" \in stamps[p] => obj'[p] = obj[p] \/ cmd.pkg = p
             /\ "built" \in stamps[p] /\ cmd.pkg # p => "built" \in stamps'[p]
  <2>1. CASE RmStamp \/ Dirclean
    <3>1. stamps \in [Pkgs -> SUBSET Stamps] /\ obj \in [Pkgs -> Content]
      BY <1>1 DEF IInv, TypeOK
    <3>2. cmd.pkg # p => stamps'[p] = stamps[p] /\ obj'[p] = obj[p]
      BY <2>1, <3>1 DEF RmStamp, Dirclean
    <3>. QED  BY <3>2
  <2>2. ASSUME NEW q \in Pkgs, Recipe(q)
        PROVE  "built" \in stamps[p] => obj'[p] = obj[p] /\ "built" \in stamps'[p]
    <3>1. Others(q) /\ Effect(q)
      BY <1>1, <2>2, RecipeEffect
    <3>2. CASE p # q
      BY <3>1, <3>2 DEF Others
    <3>3. CASE p = q
      BY <3>1, <3>3 DEF Effect, Brings, Prepares, Builds, PutsIn
    <3>. QED  BY <3>2, <3>3
  <2>3. CASE ~RmStamp /\ ~Dirclean /\ \A q \in Pkgs : ~Recipe(q)
    BY <1>1, <2>3, OthersQuiet
  <2>. QED  BY <2>1, <2>2, <2>3
<1>2. IInv /\ [Next]_vars =>
        [\A p \in Pkgs :
           /\ "built" \in stamps[p] => obj'[p] = obj[p] \/ cmd.pkg = p
           /\ "built" \in stamps[p] /\ cmd.pkg # p => "built" \in stamps'[p]]_vars
  BY <1>1
<1>. QED  BY <1>2, Invariance, PTL DEF Spec, OnlyWhenAsked

-----------------------------------------------------------------------------
(* The walk of make, by what a step does to it.                            *)
Rootfs == <<Top, "rootfs">>
Still  == UNCHANGED <<goals, stack, visited>>
Leaves == Ready /\ Pop /\ goals' = goals
Over   == visited' = {} /\ stack' = <<>> /\ goals' = <<>> /\ phase' = "idle"
UserStep == \/ \E c \in Commands : Invoke(c)
            \/ \E kind \in CleanKinds, p \in Pkgs, c \in Commands : InvokeClean(kind, p, c)

(* Every step stays, enters a goal or a prerequisite, leaves a target, or  *)
(* ends the walk or precedes it.                                           *)
LEMMA WalkMoves ==
  ASSUME IInv, [Next]_vars
  PROVE  \/ Still \/ StartGoal \/ Descend \/ (Leaves /\ (Current # Rootfs \/ EndRootfs))
         \/ Over \/ UserStep
<1>0. Top \notin Pkgs
  BY PkgAssumption DEF PkgAssumption
<1>1. CASE UNCHANGED vars \/ RmStamp \/ Dirclean \/ \E p \in Pkgs : EditSource(p)
  BY <1>1 DEF vars, walk, RmStamp, Dirclean, EditSource, Still
<1>2. CASE Skip
  <2>1. Current # Rootfs
    BY <1>2 DEF Skip, UpToDate, Rootfs
  <2>. QED  BY <1>2, <2>1 DEF Skip, Leaves
<1>3. CASE Succeed
  BY <1>3 DEF Succeed, Over
<1>4. CASE Abort
  BY <1>4 DEF Abort, Exit, Over
<1>5. CASE Finalize
  <2>1. Current # Rootfs
    BY <1>5 DEF Finalize, Rootfs
  <2>. QED  BY <1>5, <2>1 DEF Finalize, Leaves, Same
<1>6. CASE BeginRootfs \/ EndRootfs
  BY <1>6 DEF BeginRootfs, EndRootfs, Start, Same, Still, Leaves
<1>7. ASSUME NEW p \in Pkgs, Recipe(p)
      PROVE  Still \/ (Leaves /\ Current # Rootfs) \/ Over
  <2>1. FailPatch(p) => Over
    BY DEF FailPatch, Exit, Over
  <2>2. ASSUME ~FailPatch(p) PROVE Ready /\ goals' = goals /\ Current[1] = p
    BY <1>7, <2>2 DEF Recipe, At, Same, Download, BeginExtract, EndExtract, BeginRsync, EndRsync,
       BeginPatch, ApplyPatch, EndPatch, BeginConfigure, EndConfigure, BeginBuild, EndBuild,
       BeginInstall, EndInstall
  <2>3. ASSUME ~FailPatch(p) PROVE Pop \/ UNCHANGED <<stack, visited>>
    BY <1>7, <2>3 DEF Recipe, Start, Download, BeginExtract, EndExtract, BeginRsync, EndRsync,
       BeginPatch, ApplyPatch, EndPatch, BeginConfigure, EndConfigure, BeginBuild, EndBuild,
       BeginInstall, EndInstall
  <2>4. Rootfs[1] \notin Pkgs
    BY <1>0 DEF Rootfs
  <2>. QED  BY <2>1, <2>2, <2>3, <2>4 DEF Still, Leaves
<1>. QED  BY <1>1, <1>2, <1>3, <1>4, <1>5, <1>6, <1>7 DEF Next, MakeStep, UserStep

(* The image changes where it is made only.                                *)
LEMMA ImageKept ==
  ASSUME IInv, [Next]_vars, ~BeginRootfs, ~EndRootfs
  PROVE  image' = image
<1>1. CASE UNCHANGED vars \/ RmStamp \/ Dirclean \/ UserStep \/ \E p \in Pkgs : EditSource(p)
  BY <1>1 DEF vars, disk, RmStamp, Dirclean, EditSource, UserStep, Invoke, InvokeClean
<1>2. CASE StartGoal \/ Descend \/ Skip \/ Succeed \/ Abort \/ Finalize
  BY <1>2 DEF StartGoal, Descend, Skip, Succeed, Abort, Exit, Finalize, disk
<1>3. ASSUME NEW p \in Pkgs, Recipe(p) PROVE image' = image
  BY <1>3, RecipeEffect
<1>. QED  BY <1>1, <1>2, <1>3 DEF Next, MakeStep, UserStep

(* What the rules of a package ask for belongs to a package.               *)
LEMMA OwnPrereqs ==
  ASSUME NEW p \in Pkgs, NEW n
  PROVE  RulePrereqs(p, n) \in Seq(Pkgs \X (Stamps \cup Rules))
<1>. DEFINE Own == Pkgs \X (Stamps \cup Rules)
<1>1. \A r \in Rules : <<p, r>> \in Own
  OBVIOUS
<1>2. \A s \in Stamps : <<p, s>> \in Own
  OBVIOUS
<1>3. \A w \in Places : InstallPrereqs(p, w) \in Seq(Own)
  <2>. SUFFICES ASSUME NEW w \in Places PROVE InstallPrereqs(p, w) \in Seq(Own)
    OBVIOUS
  <2>1. InstallStamp(w) \in Stamps
    BY InstallPrereqsOf
  <2>2. <<p, "build">> \in Own /\ <<p, InstallStamp(w)>> \in Own
    BY <1>1, <1>2, <2>1 DEF Rules
  <2>. HIDE DEF Own
  <2>3. << <<p, "build">>, <<p, InstallStamp(w)>> >> \in Seq(Own)
    BY <2>2
  <2>. QED  BY <2>3 DEF InstallPrereqs
<1>4. DepTargets(p) \in Seq(Own)
  <2>1. Deps[p] \in Seq(Pkgs)
    BY PkgAssumption DEF PkgAssumption
  <2>2. \A i \in 1 .. Len(Deps[p]) : <<Deps[p][i], "pkg">> \in Own
    BY <2>1 DEF Rules
  <2>. HIDE DEF Own
  <2>. QED  BY <2>1, <2>2 DEF DepTargets
<1>. HIDE DEF Own
<1>5. << <<p, "rsync">> >> \o DepTargets(p) \in Seq(Own)
  BY <1>1, <1>4 DEF Rules
<1>6. RulePrereqs(p, n) \in Seq(Own)
  BY <1>1, <1>2, <1>3, <1>4, <1>5 DEF RulePrereqs, Rules, Stamps, Places
<1>. QED  BY <1>6 DEF Own

(* The prerequisites of `all', one by one.                                 *)
LEMMA AllOf ==
  /\ Len(World) \in Nat /\ Len(AllPrereqs) = Len(World) + 2
  /\ \A j \in 1 .. Len(World) : AllPrereqs[j] = <<World[j], "pkg">>
  /\ AllPrereqs[Len(World) + 1] = <<Top, "target-finalize">>
  /\ AllPrereqs[Len(World) + 2] = Rootfs
<1>. DEFINE last == << <<Top, "target-finalize">>, Rootfs >>
<1>1. World \in Seq(Pkgs)
  BY PkgAssumption DEF PkgAssumption
<1>2. /\ WorldTargets \in Seq(Targets) /\ Len(WorldTargets) = Len(World) /\ Len(World) \in Nat
      /\ \A j \in 1 .. Len(World) : WorldTargets[j] = <<World[j], "pkg">>
  BY <1>1, TopListsType DEF WorldTargets
<1>3. /\ last \in Seq(Targets) /\ Len(last) = 2 /\ last[1] = <<Top, "target-finalize">>
      /\ last[2] = Rootfs
  <2>1. <<Top, "target-finalize">> \in Targets /\ Rootfs \in Targets
    BY DEF Targets, TopRules, Rootfs
  <2>. QED  BY <2>1
<1>4. AllPrereqs = WorldTargets \o last
  BY DEF AllPrereqs, Rootfs
<1>. HIDE DEF last
<1>5. /\ Len(AllPrereqs) = Len(WorldTargets) + Len(last)
      /\ \A j \in 1 .. Len(WorldTargets) : AllPrereqs[j] = WorldTargets[j]
      /\ \A j \in 1 .. Len(last) : AllPrereqs[Len(WorldTargets) + j] = last[j]
  <2>1. WorldTargets \in Seq(Targets) /\ last \in Seq(Targets)
    BY <1>2, <1>3
  <2>. QED  BY <1>4, <2>1, Concatenated
<1>. QED  BY <1>2, <1>3, <1>5

(* Only `all' asks for the image, after everything in World, and no target *)
(* asks for `all'.                                                         *)
LEMMA RootfsParent ==
  ASSUME NEW t \in Targets, NEW k \in 1 .. Len(Prereqs(t))
  PROVE  /\ Prereqs(t)[k] # <<Top, "all">>
         /\ Prereqs(t)[k] = Rootfs =>
              /\ t = <<Top, "all">>
              /\ \A j \in 1 .. Len(World) : j \in 1 .. k - 1 /\ Prereqs(t)[j] = <<World[j], "pkg">>
<1>0. Top \notin Pkgs
  BY PkgAssumption DEF PkgAssumption
<1>1. CASE t[1] # Top
  <2>1. t[1] \in Pkgs /\ Prereqs(t) = RulePrereqs(t[1], t[2])
    BY <1>1 DEF Targets, Prereqs
  <2>2. Prereqs(t)[k] \in Pkgs \X (Stamps \cup Rules)
    BY <2>1, OwnPrereqs
  <2>3. Prereqs(t)[k][1] \in Pkgs
    BY <2>2
  <2>. QED  BY <1>0, <2>3 DEF Rootfs
<1>2. CASE t = <<Top, "rootfs">>
  <2>1. Prereqs(t) = RootfsPrereqs
    BY <1>2 DEF Prereqs
  <2>2. FsDeps \in Seq(Pkgs)
    BY PkgAssumption DEF PkgAssumption
  <2>3. Prereqs(t)[k] = <<FsDeps[k], "pkg">>
    BY <2>1, <2>2 DEF RootfsPrereqs
  <2>4. Prereqs(t)[k][2] = "pkg"
    BY <2>3
  <2>. QED  BY <2>4 DEF Rootfs
<1>3. CASE t = <<Top, "all">>
  <2>1. Prereqs(t) = AllPrereqs
    BY <1>3 DEF Prereqs
  <2>2. CASE k <= Len(World)
    <3>1. Prereqs(t)[k] = <<World[k], "pkg">>
      BY <2>1, <2>2, AllOf
    <3>2. Prereqs(t)[k][2] = "pkg"
      BY <3>1
    <3>. QED  BY <3>2 DEF Rootfs
  <2>3. CASE k = Len(World) + 1
    <3>1. Prereqs(t)[k] = <<Top, "target-finalize">>
      BY <2>1, <2>3, AllOf
    <3>. QED  BY <3>1 DEF Rootfs
  <2>4. CASE k = Len(World) + 2
    <3>1. Prereqs(t)[k] = Rootfs /\ \A j \in 1 .. Len(World) : j \in 1 .. k - 1
      BY <2>1, <2>4, AllOf
    <3>2. Rootfs # <<Top, "all">>
      BY DEF Rootfs
    <3>3. \A j \in 1 .. Len(World) : Prereqs(t)[j] = <<World[j], "pkg">>
      BY <2>1, AllOf
    <3>. QED  BY <1>3, <3>1, <3>2, <3>3
  <2>5. k <= Len(World) \/ k = Len(World) + 1 \/ k = Len(World) + 2
    BY <2>1, AllOf
  <2>. QED  BY <2>2, <2>3, <2>4, <2>5
<1>4. CASE t = <<Top, "target-finalize">>
  <2>1. Prereqs(t) = <<>>
    BY <1>4 DEF Prereqs
  <2>2. k \in 1 .. 0
    BY <2>1
  <2>3. FALSE
    BY <2>2
  <2>. QED  BY <2>3
<1>5. t[1] = Top => t[2] \in TopRules /\ t = <<Top, t[2]>>
  BY <1>0 DEF Targets
<1>. QED  BY <1>1, <1>2, <1>3, <1>4, <1>5 DEF TopRules

(* The walk is in the image's rule only as a goal or as part of `all'.     *)
LEMMA RootfsAt ==
  ASSUME TypeOK, WalkInv, NEW i \in 1 .. Len(stack), stack[i] = Rootfs
  PROVE  i = 1 \/ (i = 2 /\ stack[1] = <<Top, "all">>)
<1>1. stack \in Seq(Targets) /\ Len(stack) \in Nat
  BY DEF TypeOK
<1>2. \A n \in 1 .. Len(stack) - 1 : \E k \in 1 .. Len(Prereqs(stack[n])) :
        stack[n + 1] = Prereqs(stack[n])[k] /\ stack[n] \in Targets
  BY <1>1 DEF WalkInv, StackChain
<1>3. \A n \in 1 .. Len(stack) - 1 :
        /\ stack[n + 1] # <<Top, "all">>
        /\ stack[n + 1] = Rootfs => stack[n] = <<Top, "all">>
  BY <1>2, RootfsParent
<1>4. CASE i # 1
  <2>1. i - 1 \in 1 .. Len(stack) - 1 /\ i - 1 + 1 = i
    BY <1>1, <1>4
  <2>2. stack[i - 1] = <<Top, "all">>
    BY <1>3, <2>1
  <2>3. CASE i # 2
    <3>1. i - 2 \in 1 .. Len(stack) - 1 /\ i - 2 + 1 = i - 1
      BY <1>1, <1>4, <2>3
    <3>. QED  BY <1>3, <2>2, <3>1
  <2>4. CASE i = 2
    <3>1. i - 1 = 1
      BY <2>4
    <3>. QED  BY <2>2, <2>4, <3>1
  <2>. QED  BY <2>3, <2>4
<1>. QED  BY <1>4

(* The innermost target is the last of the walk.                           *)
LEMMA CurrentAt ==
  ASSUME TypeOK, stack # <<>>
  PROVE  /\ Len(stack) \in 1 .. Len(stack) /\ 1 \in 1 .. Len(stack) /\ Current = stack[Len(stack)]
         /\ Pop => /\ visited' = visited \cup {Current} /\ Len(stack') = Len(stack) - 1
                   /\ \A i \in 1 .. Len(stack) - 1 : stack'[i] = stack[i]
                   /\ stack' \in Seq(Targets)
<1>1. stack \in Seq(Targets) /\ Len(stack) \in Nat \ {0}
  BY DEF TypeOK
<1>2. /\ Len(SubSeq(stack, 1, Len(stack) - 1)) = Len(stack) - 1
      /\ \A i \in 1 .. Len(stack) - 1 : SubSeq(stack, 1, Len(stack) - 1)[i] = stack[i]
  BY <1>1, FrontOf
<1>3. SubSeq(stack, 1, Len(stack) - 1) \in Seq(Targets)
  BY <1>1, CurrentType
<1>4. Len(stack) \in 1 .. Len(stack) /\ 1 \in 1 .. Len(stack) /\ Current = stack[Len(stack)]
  BY <1>1 DEF Current
<1>. QED  BY <1>2, <1>3, <1>4 DEF Pop

-----------------------------------------------------------------------------
(* A rebuild: the package is updated first, from sources that are at least *)
(* as new as the command.                                                  *)
Fresh ==
  Rebuilding =>
    /\ src[cmd.pkg] >= cmd.ver
    /\ IsNew("rsynced", tree[cmd.pkg].ver)
    /\ IsNew("built", obj[cmd.pkg].ver)
    /\ IsNew("target_installed", inst[cmd.pkg]["target"].ver)

Published ==
  Rebuilding /\ Rootfs \in visited /\ Installs(cmd.pkg, "target") => image[cmd.pkg].ver >= cmd.ver

Renewed == Fresh /\ (Rebuilding => First) /\ Published

(* Only the user's command starts a rebuild, and only it changes cmd.      *)
LEMMA RebuildingStill ==
  ASSUME IInv, [Next]_vars, Rebuilding'
  PROVE  \/ Rebuilding /\ cmd' = cmd /\ (Due(cmd.pkg, "built")' => phase = "clean")
         \/ \E kind \in CleanKinds, p \in Pkgs, c \in Commands : InvokeClean(kind, p, c)
<1>1. CASE UNCHANGED vars \/ RmStamp \/ Dirclean \/ \E p \in Pkgs : EditSource(p)
  BY <1>1 DEF vars, RmStamp, Dirclean, EditSource, Rebuilding, Due
<1>2. ASSUME NEW c \in Commands, Invoke(c) PROVE FALSE
  <2>1. cmd'.kind = "make"
    BY <1>2 DEF Invoke
  <2>. QED  BY <2>1 DEF Rebuilding
<1>3. CASE StartGoal \/ Descend \/ Skip \/ Succeed \/ Abort \/ Finalize \/ BeginRootfs \/ EndRootfs
  <2>1. phase' \in {phase, "idle"} /\ cmd' = cmd
    BY <1>3 DEF StartGoal, Descend, Skip, Succeed, Abort, Exit, Finalize, BeginRootfs, EndRootfs, Same
  <2>. QED  BY <2>1 DEF Rebuilding, Due
<1>4. ASSUME NEW p \in Pkgs, Recipe(p) PROVE phase' \in {phase, "idle"} /\ cmd' = cmd
  BY <1>4 DEF Recipe, Same, Download, BeginExtract, EndExtract, BeginRsync, EndRsync, BeginPatch,
     ApplyPatch, EndPatch, FailPatch, Exit, BeginConfigure, EndConfigure, BeginBuild, EndBuild,
     BeginInstall, EndInstall
<1>5. CASE \E p \in Pkgs : Recipe(p)
  BY <1>4, <1>5 DEF Rebuilding, Due
<1>. QED  BY <1>1, <1>2, <1>3, <1>5 DEF Next, MakeStep

(* The command of a rebuild makes every stamp of the package due.          *)
LEMMA RebuildStarts ==
  ASSUME IInv, NEW kind \in CleanKinds, NEW p \in Pkgs, NEW c \in Commands, InvokeClean(kind, p, c),
         Rebuilding'
  PROVE  Fresh' /\ First' /\ Published'
<1>1. /\ kind = "rebuild" \/ kind = "reconfigure"
      /\ cmd'.kind = kind /\ cmd'.pkg = p /\ cmd'.ver = src[p] /\ src' = src /\ p \in Override
  BY DEF InvokeClean, Rebuilding
<1>2. stack = <<>> /\ visited = {} /\ stack' = <<>> /\ visited' = {}
  BY DEF IInv, WalkInv, IdleWalk, InvokeClean
<1>3. /\ rms' = CleanList(kind, p) /\ phase' = "clean"
      /\ Has(rms', "built") /\ Has(rms', "rsynced") /\ Has(rms', "target_installed")
  BY <1>1, CleansInOrder DEF InvokeClean
<1>4. Due(p, "built")' /\ Due(p, "rsynced")' /\ Due(p, "target_installed")'
  BY <1>1, <1>3 DEF Due, Has
<1>5. src[p] \in Nat
  BY DEF IInv, TypeOK
<1>6. Fresh'
  BY <1>1, <1>4, <1>5 DEF Fresh, IsNew, Due, Has
<1>7. Published'
  BY <1>2 DEF Published
<1>8. First'
  <2>1. c \in Seq(Targets) /\ << <<p, "pkg">> >> \in Seq(Targets)
    BY PkgAssumption DEF PkgAssumption, Targets, Rules
  <2>2. goals' = << <<p, "pkg">> >> \o c
    BY <1>1 DEF InvokeClean
  <2>3. goals' # <<>> /\ Head(goals') = <<p, "pkg">>
    BY <2>1, <2>2
  <2>. QED  BY <1>1, <1>2, <2>3 DEF First, Asked
<1>. QED  BY <1>6, <1>7, <1>8

(* When `all' is done, so are the image and everything in World.           *)
LEMMA AllDone ==
  ASSUME IInv, <<Top, "all">> \in visited
  PROVE  Rootfs \in visited /\ \A i \in 1 .. Len(World) : <<World[i], "pkg">> \in visited
<1>1. Prereqs(<<Top, "all">>) = AllPrereqs
  BY DEF Prereqs
<1>2. \A i \in 1 .. Len(AllPrereqs) : AllPrereqs[i] \in visited
  BY <1>1 DEF IInv, WalkInv, VisitedDone
<1>3. Len(World) + 2 \in 1 .. Len(AllPrereqs) /\ \A i \in 1 .. Len(World) : i \in 1 .. Len(AllPrereqs)
  BY AllOf
<1>. QED  BY <1>2, <1>3, AllOf

(* A step of a recipe in a rebuild.                                        *)
LEMMA FreshRecipe ==
  ASSUME IInv, Fresh, Rebuilding, NEW p \in Pkgs, Recipe(p)
  PROVE  Fresh'
<1>. DEFINE me == cmd.pkg
            ver == cmd.ver
<1>1. /\ Others(p) /\ Effect(p) /\ phase = "update" /\ src' = src /\ cmd' = cmd
  BY RecipeEffect
<1>2. /\ me \in Pkgs /\ me \in Override /\ SourceStamp(me) = "rsynced" /\ src[me] >= ver
  BY PkgAssumption DEF PkgAssumption, Fresh, Rebuilding, SourceStamp
<1>3. /\ "rsynced" \in stamps[me] => tree[me].ver >= ver
      /\ "built" \in stamps[me] => obj[me].ver >= ver
      /\ "target_installed" \in stamps[me] => inst[me]["target"].ver >= ver
  BY <1>1 DEF Fresh, IsNew, Due
<1>. DEFINE Goal == /\ "rsynced" \in stamps'[me] => tree'[me].ver >= ver
                    /\ "built" \in stamps'[me] => obj'[me].ver >= ver
                    /\ "target_installed" \in stamps'[me] => inst'[me]["target"].ver >= ver
<1>4. ASSUME me # p PROVE Goal
  BY <1>1, <1>2, <1>3, <1>4 DEF Others
<1>5. ASSUME me = p PROVE Goal
  <2>1. CASE Brings(me)
    BY <1>2, <1>3, <2>1 DEF Brings
  <2>2. CASE Prepares(me)
    BY <1>3, <2>2 DEF Prepares
  <2>3. CASE Builds(me)
    BY <1>2, <1>3, <2>3 DEF Builds
  <2>4. ASSUME NEW w \in Places, PutsIn(me, w) PROVE Goal
    <3>1. /\ InstallStamp(w) # "rsynced" /\ InstallStamp(w) # "built"
          /\ w # "target" => InstallStamp(w) # "target_installed"
          /\ w = "target" => InstallStamp(w) = "target_installed"
          /\ "target" \in Places
      BY DEF InstallStamp, Places
    <3>2. CASE w = "target"
      BY <1>3, <2>4, <3>1, <3>2 DEF PutsIn
    <3>3. CASE w # "target"
      BY <1>3, <2>4, <3>1, <3>3 DEF PutsIn
    <3>. QED  BY <3>2, <3>3
  <2>. QED  BY <1>1, <1>5, <2>1, <2>2, <2>3, <2>4 DEF Effect
<1>6. Goal
  BY <1>4, <1>5
<1>. QED  BY <1>1, <1>2, <1>6 DEF Fresh, IsNew

(* A stamp is removed, or the tree as a whole.                             *)
LEMMA FreshClean ==
  ASSUME IInv, Fresh, Rebuilding, RmStamp \/ Dirclean
  PROVE  Fresh'
<1>1. ~Dirclean
  BY DEF Dirclean, Rebuilding
<1>2. RmStamp
  BY <1>1
<1>3. /\ UNCHANGED <<tree, obj, inst, src, cmd>> /\ phase = "clean"
  BY <1>2 DEF RmStamp
<1>4. cmd.pkg \in Pkgs /\ stamps \in [Pkgs -> SUBSET Stamps]
  BY PkgAssumption DEF PkgAssumption, Rebuilding, IInv, TypeOK
<1>5. stamps'[cmd.pkg] = stamps[cmd.pkg] \ {Head(rms)}
  BY <1>2, <1>4 DEF RmStamp
<1>6. \A s : s \in stamps'[cmd.pkg] => s \in stamps[cmd.pkg] /\ (Due(cmd.pkg, s) => Due(cmd.pkg, s)')
  <2>1. ASSUME NEW q \in Pkgs, q = cmd.pkg, NEW s, s # Head(rms), Due(q, s)
        PROVE  Due(q, s)'
    BY <1>2, <2>1, StillDue
  <2>2. ASSUME NEW s, s # Head(rms), Due(cmd.pkg, s) PROVE Due(cmd.pkg, s)'
    BY <1>3, <1>4, <2>1, <2>2 DEF Due
  <2>. QED  BY <1>5, <2>2
<1>7. \A s, ver : IsNew(s, ver) =>
        (s \in stamps'[cmd.pkg] => Due(cmd.pkg, s)' \/ ver >= cmd.ver)
  BY <1>6 DEF IsNew
<1>8. /\ "rsynced" \in stamps'[cmd.pkg] => Due(cmd.pkg, "rsynced")' \/ tree[cmd.pkg].ver >= cmd.ver
      /\ "built" \in stamps'[cmd.pkg] => Due(cmd.pkg, "built")' \/ obj[cmd.pkg].ver >= cmd.ver
      /\ "target_installed" \in stamps'[cmd.pkg] =>
           Due(cmd.pkg, "target_installed")' \/ inst[cmd.pkg]["target"].ver >= cmd.ver
  BY <1>7 DEF Fresh
<1>9. src[cmd.pkg] >= cmd.ver
  BY DEF Fresh
<1>. QED  BY <1>3, <1>8, <1>9 DEF Fresh, IsNew, Due

(* The other steps.                                                        *)
LEMMA FreshOther ==
  ASSUME IInv, Fresh, Rebuilding, cmd' = cmd, [Next]_vars, ~RmStamp, ~Dirclean,
         \A p \in Pkgs : ~Recipe(p), ~UserStep
  PROVE  Fresh'
<1>1. UNCHANGED <<stamps, tree, obj, inst>>
  BY OthersQuiet
<1>2. \A q \in Pkgs : src[q] \in Nat /\ src'[q] \in Nat /\ src'[q] >= src[q]
  <2>1. src \in [Pkgs -> 1 .. MaxVer] /\ MaxVer \in Nat
    BY PkgAssumption DEF PkgAssumption, IInv, TypeOK
  <2>2. ASSUME NEW p \in Pkgs, EditSource(p), NEW q \in Pkgs
        PROVE  src'[q] \in Nat /\ src'[q] >= src[q]
    <3>1. CASE q = p
      <4>1. src'[q] = src[q] + 1
        BY <2>1, <2>2, <3>1 DEF EditSource
      <4>. QED  BY <2>1, <4>1
    <3>2. CASE q # p
      <4>1. src'[q] = src[q]
        BY <2>1, <2>2, <3>2 DEF EditSource
      <4>. QED  BY <2>1, <4>1
    <3>. QED  BY <3>1, <3>2
  <2>3. src' = src \/ \E p \in Pkgs : EditSource(p)
    BY DEF Next, MakeStep, UserStep, vars, StartGoal, Descend, Skip, Succeed, Abort, Exit, Finalize,
       BeginRootfs, EndRootfs, Same
  <2>4. CASE src' = src
    BY <2>1, <2>4
  <2>. QED  BY <2>1, <2>2, <2>3, <2>4
<1>3. (rms' = rms /\ phase' = phase) \/ phase' = "idle" \/ phase # "clean"
  BY DEF Next, MakeStep, UserStep, vars, EditSource, StartGoal, Descend, Skip, Succeed, Abort, Exit,
     Finalize, BeginRootfs, EndRootfs, Same, Ready
<1>4. CASE phase' = "idle"
  BY <1>4 DEF Fresh, Rebuilding
<1>5. CASE phase' # "idle"
  <2>1. \A s : Due(cmd.pkg, s) => Due(cmd.pkg, s)'
    BY <1>3, <1>5 DEF Due, Has
  <2>2. cmd.pkg \in Pkgs /\ cmd.ver \in Nat
    BY PkgAssumption DEF PkgAssumption, Rebuilding, IInv, TypeOK
  <2>3. src'[cmd.pkg] >= cmd.ver
    <3>1. src[cmd.pkg] >= cmd.ver
      BY DEF Fresh
    <3>. QED  BY <1>2, <2>2, <3>1
  <2>4. /\ "rsynced" \in stamps[cmd.pkg] => Due(cmd.pkg, "rsynced")' \/ tree[cmd.pkg].ver >= cmd.ver
        /\ "built" \in stamps[cmd.pkg] => Due(cmd.pkg, "built")' \/ obj[cmd.pkg].ver >= cmd.ver
        /\ "target_installed" \in stamps[cmd.pkg] =>
             Due(cmd.pkg, "target_installed")' \/ inst[cmd.pkg]["target"].ver >= cmd.ver
    BY <2>1 DEF Fresh, IsNew
  <2>. QED  BY <1>1, <2>3, <2>4 DEF Fresh, IsNew, Due
<1>. QED  BY <1>4, <1>5

(* The package that is asked for is the first goal, until it is done.      *)
LEMMA FirstKept ==
  ASSUME IInv, First, cmd' = cmd, [Next]_vars, ~UserStep, phase' # "idle"
  PROVE  First'
<1>1. TypeOK /\ stack \in Seq(Targets) /\ phase # "idle"
  <2>1. CASE phase = "idle"
    BY <2>1 DEF Next, MakeStep, UserStep, vars, EditSource, RmStamp, Dirclean, StartGoal, Descend, Skip,
       Succeed, Finalize, BeginRootfs, EndRootfs, Ready, Abort, Exit, Recipe, At, Download,
       BeginExtract, EndExtract, BeginRsync, EndRsync, BeginPatch, ApplyPatch, EndPatch, FailPatch, Stuck,
       BeginConfigure, EndConfigure, BeginBuild, EndBuild, BeginInstall, EndInstall
  <2>. QED  BY <2>1 DEF IInv, TypeOK
<1>. DEFINE asked == Asked
<1>2. /\ \/ asked \in visited
         \/ stack = <<>> /\ visited = {} /\ goals # <<>> /\ Head(goals) = asked
         \/ stack # <<>> /\ stack[1] = asked
      /\ Asked' = asked
  BY DEF First, Asked
<1>. HIDE DEF asked
<1>. DEFINE Goal == \/ asked \in visited'
                    \/ stack' = <<>> /\ visited' = {} /\ goals' # <<>> /\ Head(goals') = asked
                    \/ stack' # <<>> /\ stack'[1] = asked
<1>3. CASE Still
  BY <1>2, <1>3 DEF Still, First
<1>4. ASSUME StartGoal PROVE Goal
  <2>1. stack = <<>> /\ visited' = visited
    BY <1>4 DEF StartGoal
  <2>2. CASE asked \in visited
    BY <2>1, <2>2
  <2>3. CASE visited = {} /\ Head(goals) = asked
    <3>1. stack' = <<asked>>
      BY <1>4, <2>3 DEF StartGoal
    <3>. QED  BY <3>1
  <2>. QED  BY <1>2, <2>1, <2>2, <2>3
<1>5. ASSUME Descend PROVE Goal
  <2>1. PICK x : stack' = Append(stack, x)
    BY <1>5 DEF Descend
  <2>2. stack # <<>> /\ visited' = visited
    BY <1>5 DEF Descend
  <2>3. stack' # <<>> /\ stack'[1] = stack[1]
    BY <1>1, <2>1, <2>2
  <2>. QED  BY <1>2, <2>2, <2>3
<1>6. ASSUME Leaves PROVE Goal
  <2>1. /\ stack # <<>> /\ visited' = visited \cup {Current} /\ Len(stack') = Len(stack) - 1
        /\ \A i \in 1 .. Len(stack) - 1 : stack'[i] = stack[i]
        /\ Current = stack[Len(stack)] /\ stack' \in Seq(Targets) /\ Len(stack) \in Nat
    BY <1>1, <1>6, CurrentAt DEF Leaves, Ready
  <2>2. CASE asked \in visited
    BY <2>1, <2>2
  <2>3. CASE stack[1] = asked /\ Len(stack) = 1
    BY <2>1, <2>3
  <2>4. CASE stack[1] = asked /\ Len(stack) # 1
    <3>1. Len(stack') # 0 /\ 1 \in 1 .. Len(stack) - 1
      BY <1>1, <2>1, <2>4
    <3>2. stack' # <<>> /\ stack'[1] = asked
      BY <2>1, <2>4, <3>1
    <3>. QED  BY <3>2
  <2>. QED  BY <1>2, <2>1, <2>2, <2>3, <2>4
<1>7. ~Over
  BY DEF Over
<1>8. Goal => First'
  BY <1>2 DEF First
<1>. QED  BY <1>3, <1>4, <1>5, <1>6, <1>7, <1>8, WalkMoves

(* When the image is made, the package that is rebuilt is installed.       *)
LEMMA PublishedKept ==
  ASSUME IInv, Fresh, First, Published, Rebuilding, cmd' = cmd, [Next]_vars, ~UserStep, Rebuilding'
  PROVE  Published'
<1>1. TypeOK /\ WalkInv /\ VisitedDone
  BY DEF IInv, WalkInv
<1>2. cmd.pkg \in Pkgs /\ image \in [Pkgs -> Content]
  BY <1>1, PkgAssumption DEF PkgAssumption, Rebuilding, TypeOK
<1>3. SUFFICES ASSUME Rootfs \in visited', Installs(cmd.pkg, "target")
               PROVE  image'[cmd.pkg].ver >= cmd.ver
  BY DEF Published
<1>4. CASE EndRootfs
  <2>1. /\ Current = Rootfs /\ stack # <<>> /\ phase = "update"
        /\ image'[cmd.pkg] = inst[cmd.pkg]["target"]
    BY <1>2, <1>4 DEF EndRootfs, Ready, Rootfs
  <2>2. Rootfs # Asked /\ Asked # <<Top, "all">>
    BY <1>2, PkgAssumption DEF PkgAssumption, Rootfs, Asked
  <2>3. stack[1] # Asked
    <3>1. Len(stack) \in 1 .. Len(stack) /\ stack[Len(stack)] = Rootfs
      BY <1>1, <2>1, CurrentAt
    <3>2. Len(stack) = 1 \/ stack[1] = <<Top, "all">>
      BY <1>1, <3>1, RootfsAt
    <3>. QED  BY <2>2, <3>1, <3>2
  <2>4. <<cmd.pkg, "pkg">> \in visited
    BY <2>1, <2>3 DEF First, Asked
  <2>5. InstallStamp("target") \in stamps[cmd.pkg]
    <3>1. "target" \in Places
      BY DEF Places
    <3>. QED  BY <1>1, <1>2, <1>3, <2>4, <3>1, PkgDone
  <2>6. "target_installed" \in stamps[cmd.pkg]
    BY <2>5 DEF InstallStamp
  <2>7. inst[cmd.pkg]["target"].ver >= cmd.ver
    BY <2>1, <2>6 DEF Fresh, IsNew, Due
  <2>. QED  BY <2>1, <2>7
<1>5. CASE ~EndRootfs
  <2>1. Rootfs \in visited
    <3>1. CASE Leaves /\ Current # Rootfs
      BY <1>3, <3>1 DEF Leaves, Pop
    <3>2. CASE Still \/ StartGoal \/ Descend
      BY <1>3, <3>2 DEF Still, StartGoal, Descend
    <3>3. ~Over
      BY DEF Over, Rebuilding
    <3>. QED  BY <1>5, <3>1, <3>2, <3>3, WalkMoves
  <2>2. image[cmd.pkg].ver >= cmd.ver
    BY <1>3, <2>1 DEF Published
  <2>3. image'[cmd.pkg].ver = image[cmd.pkg].ver
    <3>1. CASE BeginRootfs
      <4>. DEFINE marked(p) == [image[p] EXCEPT !.ok = FALSE]
      <4>1. \A p \in Pkgs : marked(p).ver = image[p].ver
        BY <1>2 DEF Content
      <4>2. image' = [p \in Pkgs |-> marked(p)]
        BY <3>1 DEF BeginRootfs
      <4>. HIDE DEF marked
      <4>. QED  BY <1>2, <4>1, <4>2
    <3>2. CASE ~BeginRootfs
      <4>1. image' = image
        BY <1>5, <3>2, ImageKept
      <4>. QED  BY <4>1
    <3>. QED  BY <3>1, <3>2
  <2>. QED  BY <2>2, <2>3
<1>. QED  BY <1>4, <1>5

(* Renewed is inductive.                                                   *)
LEMMA RenewedStep == IInv /\ Renewed /\ [Next]_vars => Renewed'
<1>. SUFFICES ASSUME IInv, Renewed, [Next]_vars PROVE Renewed'
  OBVIOUS
<1>1. CASE ~Rebuilding'
  BY <1>1 DEF Renewed, Fresh, Published
<1>2. CASE Rebuilding' /\ \E kind \in CleanKinds, p \in Pkgs, c \in Commands : InvokeClean(kind, p, c)
  BY <1>2, RebuildStarts DEF Renewed
<1>3. CASE Rebuilding' /\ ~\E kind \in CleanKinds, p \in Pkgs, c \in Commands : InvokeClean(kind, p, c)
  <2>1. Rebuilding /\ cmd' = cmd /\ phase' # "idle" /\ ~UserStep
    <3>1. \A c \in Commands : ~Invoke(c)
      <4>1. ASSUME NEW c \in Commands, Invoke(c) PROVE FALSE
        <5>1. cmd'.kind = "make"
          BY <4>1 DEF Invoke
        <5>. QED  BY <1>3, <5>1 DEF Rebuilding
      <4>. QED  BY <4>1
    <3>. QED  BY <1>3, <3>1, RebuildingStill DEF Rebuilding, UserStep
  <2>2. Fresh /\ First /\ Published
    BY <2>1 DEF Renewed
  <2>3. Fresh'
    <3>1. CASE RmStamp \/ Dirclean
      BY <2>1, <2>2, <3>1, FreshClean
    <3>2. CASE \E p \in Pkgs : Recipe(p)
      BY <2>1, <2>2, <3>2, FreshRecipe
    <3>3. CASE ~RmStamp /\ ~Dirclean /\ \A p \in Pkgs : ~Recipe(p)
      BY <2>1, <2>2, <3>3, FreshOther
    <3>. QED  BY <3>1, <3>2, <3>3
  <2>4. First' /\ Published'
    BY <1>3, <2>1, <2>2, FirstKept, PublishedKept
  <2>. QED  BY <2>3, <2>4 DEF Renewed
<1>. QED  BY <1>1, <1>2, <1>3

(* After `make <pkg>-rebuild all', and after -reconfigure, the image holds *)
(* the package as it was when the command was given, or newer, whatever    *)
(* was interrupted before; the run PkgBuild states it for one package.     *)
THEOREM RebuildReachesImage == Spec => RebuildPublishes
<1>1. Init => Renewed
  BY DEF Init, Renewed, Fresh, Published, Rebuilding
<1>2. Spec => []Renewed
  BY <1>1, RenewedStep, Invariance, PTL DEF Spec
<1>3. IInv /\ Renewed /\ [Next]_vars =>
        [ Succeed /\ cmd.kind \in {"rebuild", "reconfigure"}
                  /\ <<Top, "all">> \in visited
                  /\ cmd.pkg \in Override /\ Installs(cmd.pkg, "target") =>
            image[cmd.pkg].ver >= cmd.ver ]_vars
  <2>1. ASSUME IInv, Renewed, Succeed, cmd.kind \in {"rebuild", "reconfigure"},
               <<Top, "all">> \in visited, cmd.pkg \in Override, Installs(cmd.pkg, "target")
        PROVE  image[cmd.pkg].ver >= cmd.ver
    <3>1. Rebuilding
      BY <2>1 DEF Rebuilding, Succeed
    <3>2. Rootfs \in visited
      BY <2>1, AllDone
    <3>. QED  BY <2>1, <3>1, <3>2 DEF Renewed, Published
  <2>. QED  BY <2>1
<1>. QED  BY <1>2, <1>3, Invariance, PTL DEF Spec, RebuildPublishes

-----------------------------------------------------------------------------
(* No command names the image: no goal is the image, and the walk does not *)
(* begin with it.                                                          *)
LEMMA ImageNoGoal ==
  ASSUME ByAll, IInv, NoImageGoal, [Next]_vars
  PROVE  NoImageGoal'
<1>1. TypeOK /\ stack \in Seq(Targets) /\ goals \in Seq(Targets)
  BY DEF IInv, TypeOK
<1>2. CASE Still
  BY <1>2 DEF Still, NoImageGoal
<1>3. CASE StartGoal
  <2>1. /\ goals # <<>> /\ goals' = Tail(goals)
        /\ stack' = <<>> \/ stack' = <<Head(goals)>>
    BY <1>3 DEF StartGoal
  <2>2. /\ Head(goals) = goals[1] /\ 1 \in 1 .. Len(goals)
        /\ \A i \in 1 .. Len(Tail(goals)) : i + 1 \in 1 .. Len(goals) /\ Tail(goals)[i] = goals[i + 1]
    BY <1>1, <2>1
  <2>3. stack' # <<>> => stack'[1] = goals[1]
    BY <2>1, <2>2
  <2>. QED  BY <2>1, <2>2, <2>3 DEF NoImageGoal
<1>4. CASE Descend
  <2>1. PICK x : stack' = Append(stack, x)
    BY <1>4 DEF Descend
  <2>2. stack # <<>> /\ goals' = goals
    BY <1>4 DEF Descend
  <2>3. stack'[1] = stack[1]
    BY <1>1, <2>1, <2>2
  <2>. QED  BY <2>2, <2>3 DEF NoImageGoal
<1>5. CASE Leaves
  <2>1. /\ stack # <<>> /\ Len(stack') = Len(stack) - 1 /\ goals' = goals
        /\ \A i \in 1 .. Len(stack) - 1 : stack'[i] = stack[i]
        /\ stack' \in Seq(Targets) /\ Len(stack) \in Nat
    BY <1>1, <1>5, CurrentAt DEF Leaves, Ready
  <2>2. stack' # <<>> => 1 \in 1 .. Len(stack) - 1
    BY <2>1
  <2>. QED  BY <2>1, <2>2 DEF NoImageGoal
<1>6. CASE Over
  BY <1>6 DEF Over, NoImageGoal
<1>7. CASE UserStep
  <2>1. stack' = stack
    BY <1>7 DEF UserStep, Invoke, InvokeClean
  <2>2. ASSUME NEW c \in Commands, Invoke(c)
        PROVE  \A i \in 1 .. Len(goals') : goals'[i] # <<Top, "rootfs">>
    BY <2>2 DEF Invoke, ByAll
  <2>3. ASSUME NEW kind \in CleanKinds, NEW p \in Pkgs, NEW c \in Commands, InvokeClean(kind, p, c)
        PROVE  \A i \in 1 .. Len(goals') : goals'[i] # <<Top, "rootfs">>
    <3>. DEFINE NotImage == Targets \ {<<Top, "rootfs">>}
    <3>1. c \in Seq(NotImage)
      <4>1. c \in Seq(Targets)
        BY PkgAssumption DEF PkgAssumption, Targets
      <4>. QED  BY <4>1 DEF ByAll
    <3>2. <<p, "pkg">> \in NotImage
      BY PkgAssumption DEF PkgAssumption, Targets, Rules
    <3>. HIDE DEF NotImage
    <3>3. << <<p, "pkg">> >> \o c \in Seq(NotImage) /\ <<>> \o c \in Seq(NotImage)
      BY <3>1, <3>2
    <3>4. goals' \in Seq(NotImage)
      BY <2>3, <3>3 DEF InvokeClean
    <3>5. \A i \in 1 .. Len(goals') : goals'[i] \in NotImage
      BY <3>4
    <3>. QED  BY <3>5 DEF NotImage
  <2>. QED  BY <1>7, <2>1, <2>2, <2>3 DEF UserStep, NoImageGoal
<1>. QED  BY <1>2, <1>3, <1>4, <1>5, <1>6, <1>7, WalkMoves

(* What is installed of a package that is done stays until the next make.  *)
LEMMA DoneStays ==
  ASSUME IInv, [Next]_vars, NEW p \in Pkgs, <<p, "pkg">> \in visited, Installs(p, "target")
  PROVE  inst'[p]["target"] = inst[p]["target"]
<1>1. VisitedDone /\ "target" \in Places /\ visited # {}
  BY DEF IInv, WalkInv, Places
<1>2. InstallStamp("target") \in stamps[p]
  BY <1>1, PkgDone
<1>3. ASSUME NEW q \in Pkgs, Recipe(q) PROVE inst'[p]["target"] = inst[p]["target"]
  <2>1. Others(q) /\ Effect(q)
    BY <1>3, RecipeEffect
  <2>2. CASE p # q
    BY <2>1, <2>2 DEF Others
  <2>3. CASE p = q
    <3>1. \A w \in Places : PutsIn(p, w) => inst'[p]["target"] = inst[p]["target"]
      BY <1>1, <1>2 DEF PutsIn
    <3>2. Brings(p) \/ Prepares(p) \/ Builds(p) => inst'[p] = inst[p]
      BY DEF Brings, Prepares, Builds
    <3>. QED  BY <2>1, <2>3, <3>1, <3>2 DEF Effect
  <2>. QED  BY <2>2, <2>3
<1>4. CASE RmStamp \/ Dirclean
  BY <1>4 DEF RmStamp, Dirclean
<1>5. CASE ~RmStamp /\ ~Dirclean /\ \A q \in Pkgs : ~Recipe(q)
  BY <1>5, OthersQuiet
<1>. QED  BY <1>3, <1>4, <1>5

(* Once the image is made, it is made of all there is.                     *)
LEMMA ImagedStep ==
  ASSUME IInv, NoImageGoal, Imaged, [Next]_vars
  PROVE  Imaged'
<1>1. /\ TypeOK /\ WalkInv /\ stack \in Seq(Targets) /\ World \in Seq(Pkgs)
      /\ image \in [Pkgs -> Content] /\ inst \in [Pkgs -> [Places -> Content]]
  BY PkgAssumption DEF IInv, TypeOK, PkgAssumption
<1>2. ASSUME NEW i \in 1 .. Len(stack), stack[i] = Rootfs
      PROVE  i = 2 /\ stack[1] = <<Top, "all">>
  <2>1. stack # <<>> /\ stack[1] # Rootfs
    BY <1>1, <1>2 DEF NoImageGoal, Rootfs
  <2>. QED  BY <1>1, <1>2, <2>1, RootfsAt
<1>3. CASE Leaves /\ EndRootfs
  <2>1. /\ stack # <<>> /\ visited' = visited \cup {Current} /\ Len(stack') = Len(stack) - 1
        /\ \A i \in 1 .. Len(stack) - 1 : stack'[i] = stack[i]
        /\ Current = stack[Len(stack)] /\ Len(stack) \in 1 .. Len(stack)
    BY <1>1, <1>3, CurrentAt DEF Leaves, Ready
  <2>2. Current = Rootfs
    BY <1>3 DEF EndRootfs, Rootfs
  <2>3. Len(stack) = 2 /\ stack[1] = <<Top, "all">> /\ stack[2] = Rootfs
    BY <1>2, <2>1, <2>2
  <2>4. \A i \in 1 .. Len(stack') : stack'[i] # Rootfs
    <3>1. \A i \in 1 .. Len(stack') : i = 1 /\ stack'[i] = stack[1]
      BY <2>1, <2>3
    <3>2. <<Top, "all">> # Rootfs
      BY DEF Rootfs
    <3>. QED  BY <2>3, <3>1, <3>2
  <2>5. \A i \in 1 .. Len(World) : <<World[i], "pkg">> \in visited
    <3>1. PICK k \in 1 .. Len(Prereqs(stack[1])) :
            /\ stack[1 + 1] = Prereqs(stack[1])[k]
            /\ \A j \in 1 .. k - 1 : Prereqs(stack[1])[j] \in visited
      <4>1. 1 \in 1 .. Len(stack) - 1
        BY <2>3
      <4>. QED  BY <1>1, <4>1 DEF WalkInv, StackChain
    <3>2. stack[1] \in Targets /\ Prereqs(stack[1])[k] = Rootfs
      <4>1. 1 \in 1 .. Len(stack)
        BY <2>3
      <4>2. stack[1] \in Targets
        BY <1>1, <4>1
      <4>3. 1 + 1 = 2
        OBVIOUS
      <4>. QED  BY <2>3, <3>1, <4>2, <4>3
    <3>3. \A j \in 1 .. Len(World) : /\ j \in 1 .. k - 1
                                     /\ Prereqs(stack[1])[j] = <<World[j], "pkg">>
      BY <3>2, RootfsParent
    <3>. QED  BY <3>1, <3>3
  <2>6. \A i \in 1 .. Len(World) : image'[World[i]] = inst'[World[i]]["target"]
    BY <1>1, <1>3 DEF EndRootfs
  <2>. QED  BY <2>1, <2>4, <2>5, <2>6 DEF Imaged, Rootfs
<1>4. CASE Rootfs \notin visited'
  BY <1>4 DEF Imaged, Rootfs
<1>5. ASSUME Rootfs \in visited, Rootfs \in visited', visited \subseteq visited',
             \A i \in 1 .. Len(stack') : stack'[i] # Rootfs
      PROVE  Imaged'
  <2>1. /\ \A i \in 1 .. Len(stack) : stack[i] # Rootfs
        /\ \A i \in 1 .. Len(World) :
             /\ <<World[i], "pkg">> \in visited
             /\ Installs(World[i], "target") => image[World[i]] = inst[World[i]]["target"]
    BY <1>5 DEF Imaged, Rootfs
  <2>2. ~BeginRootfs /\ ~EndRootfs
    <3>1. ASSUME BeginRootfs \/ EndRootfs PROVE FALSE
      <4>1. stack # <<>> /\ Current = Rootfs
        BY <3>1 DEF BeginRootfs, EndRootfs, Ready, Rootfs
      <4>2. Len(stack) \in 1 .. Len(stack) /\ Current = stack[Len(stack)]
        BY <1>1, <4>1, CurrentAt
      <4>. QED  BY <2>1, <4>1, <4>2
    <3>. QED  BY <3>1
  <2>3. image' = image
    BY <2>2, ImageKept
  <2>4. ASSUME NEW i \in 1 .. Len(World), Installs(World[i], "target")
        PROVE  image'[World[i]] = inst'[World[i]]["target"]
    <3>1. World[i] \in Pkgs /\ <<World[i], "pkg">> \in visited
      BY <1>1, <2>1
    <3>2. inst'[World[i]]["target"] = inst[World[i]]["target"]
      BY <2>4, <3>1, DoneStays
    <3>. QED  BY <2>1, <2>3, <2>4, <3>2
  <2>. QED  BY <1>5, <2>1, <2>4 DEF Imaged, Rootfs
<1>6. CASE Still
  BY <1>4, <1>5, <1>6 DEF Still, Imaged, Rootfs
<1>7. CASE StartGoal
  <2>1. goals # <<>> /\ visited' = visited /\ (stack' = <<>> \/ stack' = <<Head(goals)>>)
    BY <1>7 DEF StartGoal
  <2>2. Head(goals) # Rootfs
    <3>1. goals \in Seq(Targets)
      BY <1>1 DEF TypeOK
    <3>2. Head(goals) = goals[1] /\ 1 \in 1 .. Len(goals)
      BY <2>1, <3>1
    <3>. QED  BY <3>2 DEF NoImageGoal, Rootfs
  <2>3. \A i \in 1 .. Len(stack') : stack'[i] # Rootfs
    BY <2>1, <2>2
  <2>. QED  BY <1>4, <1>5, <2>1, <2>3
<1>8. CASE Descend
  <2>1. PICK i \in Pending(Current) : stack' = Append(stack, Prereqs(Current)[i])
    BY <1>8 DEF Descend
  <2>2. Prereqs(Current)[i] \notin visited /\ visited' = visited
    BY <1>8 DEF Pending, Descend
  <2>3. \A j \in 1 .. Len(stack') : (j \in 1 .. Len(stack) /\ stack'[j] = stack[j])
                                    \/ stack'[j] = Prereqs(Current)[i]
    BY <1>1, <2>1
  <2>4. Rootfs \in visited => \A j \in 1 .. Len(stack') : stack'[j] # Rootfs
    BY <2>2, <2>3 DEF Imaged, Rootfs
  <2>. QED  BY <1>4, <1>5, <2>2, <2>4
<1>9. CASE Leaves /\ Current # Rootfs
  <2>1. /\ stack # <<>> /\ visited' = visited \cup {Current} /\ Len(stack') = Len(stack) - 1
        /\ \A i \in 1 .. Len(stack) - 1 : stack'[i] = stack[i]
        /\ Len(stack) \in 1 .. Len(stack)
    BY <1>1, <1>9, CurrentAt DEF Leaves, Ready
  <2>2. Rootfs \in visited' => Rootfs \in visited
    BY <1>9, <2>1
  <2>3. \A i \in 1 .. Len(stack') : i \in 1 .. Len(stack) /\ stack'[i] = stack[i]
    BY <2>1
  <2>4. Rootfs \in visited => \A i \in 1 .. Len(stack') : stack'[i] # Rootfs
    BY <2>3 DEF Imaged, Rootfs
  <2>. QED  BY <1>4, <1>5, <2>1, <2>2, <2>4
<1>10. CASE Over
  BY <1>4, <1>10 DEF Over
<1>11. CASE UserStep
  <2>1. phase = "idle" /\ visited' = visited
    BY <1>11 DEF UserStep, Invoke, InvokeClean
  <2>2. visited = {}
    BY <1>1, <2>1 DEF WalkInv, IdleWalk
  <2>. QED  BY <1>4, <2>1, <2>2
<1>. QED  BY <1>3, <1>6, <1>7, <1>8, <1>9, <1>10, <1>11, WalkMoves

(* A make that returns success after `all' leaves an image that holds every*)
(* package of World as it was built last, complete.  Two conditions: no    *)
(* cleaning rule was interrupted, as for StampsTell, and no command names  *)
(* the image itself, since `make rootfs all' makes it before the rest.     *)
THEOREM ImageOfAll ==
  ASSUME ~CleanInterrupt, ByAll
  PROVE  Spec => ImageComplete
<1>1. Init => NoImageGoal /\ Imaged
  BY DEF Init, NoImageGoal, Imaged
<1>2. IInv /\ NoImageGoal /\ Imaged /\ [Next]_vars => (NoImageGoal /\ Imaged)'
  BY ImageNoGoal, ImagedStep
<1>3. Spec => [](NoImageGoal /\ Imaged)
  BY <1>1, <1>2, Invariance, PTL DEF Spec
<1>4. ASSUME IInv, Coherent, Imaged, Succeed, <<Top, "all">> \in visited,
             NEW i \in 1 .. Len(World), Installs(World[i], "target")
      PROVE  image[World[i]].ok /\ image[World[i]] = obj[World[i]]
  <2>1. Rootfs \in visited /\ <<World[i], "pkg">> \in visited
    BY <1>4, AllDone
  <2>2. World[i] \in Pkgs /\ "target" \in Places
    BY PkgAssumption DEF PkgAssumption, Places
  <2>3. image[World[i]] = inst[World[i]]["target"]
    BY <1>4, <2>1 DEF Imaged, Rootfs
  <2>4. InstallStamp("target") \in stamps[World[i]]
    BY <1>4, <2>1, <2>2, PkgDone DEF IInv, WalkInv
  <2>5. inst[World[i]]["target"] = obj[World[i]] /\ inst[World[i]]["target"].ok
    BY <1>4, <2>2, <2>4 DEF Coherent, Installed, IInv, StampIntegrity
  <2>. QED  BY <2>3, <2>5
<1>5. IInv /\ Coherent /\ Imaged /\ [Next]_vars =>
        [ Succeed /\ <<Top, "all">> \in visited =>
            \A i \in 1 .. Len(World) : Installs(World[i], "target") =>
              image[World[i]].ok /\ image[World[i]] = obj[World[i]] ]_vars
  BY <1>4
<1>. QED  BY <1>3, <1>5, Invariance, AlwaysCoherent, PTL DEF Spec, ImageComplete
=============================================================================
