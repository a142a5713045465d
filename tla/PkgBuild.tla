------------------------------ MODULE PkgBuild ------------------------------
(***************************************************************************)
(* The generic package infrastructure, package/pkg-generic.mk.             *)
(*                                                                         *)
(* Every package is built by a chain of rules.  Phony targets such as      *)
(* <pkg>-build only order the work; the work itself is done by the recipes *)
(* of stamp files, $(BUILD_DIR)/<pkg>-<version>/.stamp_<step>, which have  *)
(* no prerequisites: a recipe runs if and only if its stamp is absent when *)
(* make comes to it, and `touch $@' is its last state-changing line.       *)
(* Nothing else records what was done, so a build that is interrupted, and *)
(* every later `make', relies on the stamps alone.                         *)
(*                                                                         *)
(* The module models one output directory used by one make at a time (the  *)
(* top-level Makefile is .NOTPARALLEL): make's left-to-right depth-first   *)
(* walk over the rules, the recipes with a visible beginning and end, an   *)
(* interruption at any point, the cleaning targets -dirclean, -rebuild and *)
(* -reconfigure, and a developer who edits an overridden source directory. *)
(* File contents are abstracted to the version they derive from and to     *)
(* whether they are complete.                                              *)
(***************************************************************************)
EXTENDS Naturals, Sequences, FiniteSets

CONSTANTS
  Pkgs,          (* packages known to the configuration                    *)
  Top,           (* owner of the targets that belong to no package         *)
  Deps,          (* Deps[p]: <PKG>_DEPENDENCIES, a sequence, in order      *)
  Override,      (* packages with an <PKG>_OVERRIDE_SRCDIR (or site local) *)
  Host,          (* packages of type "host", the others are target ones    *)
  InstStaging,   (* packages with <PKG>_INSTALL_STAGING = YES              *)
  InstTarget,    (* packages with <PKG>_INSTALL_TARGET = YES               *)
  InstImages,    (* packages with <PKG>_INSTALL_IMAGES = YES               *)
  NPatches,      (* NPatches[p]: number of patches applied to package p    *)
  World,         (* toolchain and $(TARGETS), the packages `all' builds    *)
  FsDeps,        (* ROOTFS_<FS>_DEPENDENCIES of the filesystem image       *)
  Commands,      (* goal lists a user passes to make                       *)
  CleanInterrupt,(* TRUE if make may be interrupted inside a cleaning rule *)
  MaxVer,        (* bound: versions of an overridden source directory      *)
  MaxAborts,     (* bound: interruptions and failures in a behaviour       *)
  MaxCleans      (* bound: -dirclean, -rebuild and -reconfigure commands   *)

Stamps == {"downloaded", "extracted", "rsynced", "patched", "configured",
           "built", "staging_installed", "target_installed",
           "images_installed", "host_installed"}

Rules == {"pkg", "install", "install-staging", "install-target",
          "install-images", "install-host", "build", "configure", "patch",
          "extract", "depends", "rsync", "source", "rsync_sourced"}

TopRules == {"all", "target-finalize", "rootfs"}

Places == {"staging", "target", "images", "host"}

Targets == (Pkgs \X (Stamps \cup Rules)) \cup ({Top} \X TopRules)

ASSUME PkgAssumption ==
  /\ Top \notin Pkgs
  /\ Deps \in [Pkgs -> Seq(Pkgs)]
  /\ Override \subseteq Pkgs /\ Host \subseteq Pkgs
  /\ InstStaging \subseteq Pkgs /\ InstTarget \subseteq Pkgs
  /\ InstImages \subseteq Pkgs
  /\ NPatches \in [Pkgs -> Nat]
  /\ World \in Seq(Pkgs) /\ FsDeps \in Seq(Pkgs)
  /\ \A c \in Commands : c \in Seq((Pkgs \X Rules) \cup ({Top} \X TopRules))
  /\ CleanInterrupt \in BOOLEAN
  /\ MaxVer \in Nat \ {0} /\ MaxAborts \in Nat /\ MaxCleans \in Nat

(* Kconfig rejects circular dependencies, so make never meets one.         *)
ASSUME AcyclicAssumption ==
  \E rank \in [Pkgs -> 0 .. Cardinality(Pkgs)] :
    \A p \in Pkgs : \A i \in 1 .. Len(Deps[p]) : rank[Deps[p][i]] < rank[p]

VARIABLES
  stamps,   (* stamps[p]: the stamp files in the package's build directory *)
  src,      (* src[p]: version offered by upstream or the override dir     *)
  tree,     (* tree[p]: the sources in the build directory                 *)
  conf,     (* conf[p]: what the configure step left in the build directory*)
  obj,      (* obj[p]: what the build step left in the build directory     *)
  inst,     (* inst[p][w]: what is installed by p in place w               *)
  image,    (* image[p]: what of p the root filesystem image contains      *)
  phase,    (* what make is doing: "idle", "clean" or "update"             *)
  goals,    (* goals of the running make not started yet                   *)
  stack,    (* make's walk: the targets being updated, outermost first     *)
  visited,  (* targets this make has finished                              *)
  recipe,   (* position in the recipe of the innermost target; 0 if none   *)
  rms,      (* stamps the running cleaning rule has still to remove        *)
  cmd,      (* the last command: kind, package, version at that time       *)
  outcome,  (* exit status of the last make                                *)
  aborts, cleans

disk == <<stamps, tree, conf, obj, inst, image>>
walk == <<goals, stack, visited, recipe>>
vars == <<disk, src, phase, walk, rms, cmd, outcome, aborts, cleans>>

Content == [ver : 0 .. MaxVer, ok : BOOLEAN]
Nothing == [ver |-> 0, ok |-> FALSE]
Tree    == [ver : 0 .. MaxVer, full : BOOLEAN, applied : Nat]
NoTree  == [ver |-> 0, full |-> FALSE, applied |-> 0]

-----------------------------------------------------------------------------
(* The rules, lines 395 to 464: the prerequisites of a target in order.    *)

InstallStamp(w) ==
  CASE w = "staging" -> "staging_installed"
    [] w = "target"  -> "target_installed"
    [] w = "images"  -> "images_installed"
    [] w = "host"    -> "host_installed"

Installs(p, w) ==
  CASE w = "staging" -> p \notin Host /\ p \in InstStaging
    [] w = "target"  -> p \notin Host /\ p \in InstTarget
    [] w = "images"  -> p \notin Host /\ p \in InstImages
    [] w = "host"    -> p \in Host

InstallPrereqs(p, w) ==
  IF Installs(p, w) THEN << <<p, "build">>, <<p, InstallStamp(w)>> >> ELSE <<>>

AllButLastDep(p) == [i \in 1 .. Len(Deps[p]) - 1 |-> <<Deps[p][i], "pkg">>]
DepTargets(p) == [i \in 1 .. Len(Deps[p]) |-> <<Deps[p][i], "pkg">>]
FirstOfWorld == << <<World[1], "pkg">> >>
WorldTargets  == [i \in 1 .. Len(World) |-> <<World[i], "pkg">>]

ConfigureUnpatched(p, n) ==
  CASE n = "pkg"       -> << <<p, "install">> >>
    [] n = "install"   -> << <<p, "install-target">> >>
    [] n = "install-target" -> InstallPrereqs(p, "target")
    [] n = "build"     -> << <<p, "configure">>, <<p, "built">> >>
    [] n = "configure" -> << <<p, "extracted">>, <<p, "configured">> >>
    [] OTHER           -> <<>>

RulePrereqs(p, n) ==
  CASE n = "pkg"     -> << <<p, "install">> >>
    [] n = "install" -> IF p \in Host THEN << <<p, "install-host">> >>
                        ELSE << <<p, "install-staging">>,
                                <<p, "install-target">>,
                                <<p, "install-images">> >>
    [] n = "install-staging" -> InstallPrereqs(p, "staging")
    [] n = "install-target"  -> InstallPrereqs(p, "target")
    [] n = "install-images"  -> InstallPrereqs(p, "images")
    [] n = "install-host"    -> InstallPrereqs(p, "host")
    [] n = "build"     -> << <<p, "configure">>, <<p, "built">> >>
    [] n = "configure" -> IF p \in Override
                          THEN << <<p, "depends">>, <<p, "configured">> >>
                          ELSE << <<p, "patch">>, <<p, "depends">>,
                                  <<p, "configured">> >>
    [] n = "patch"     -> IF p \in Override THEN << <<p, "rsync">> >>
                          ELSE << <<p, "extract">>, <<p, "patched">> >>
    [] n = "extract"   -> IF p \in Override THEN << <<p, "rsync">> >>
                          ELSE << <<p, "source">>, <<p, "extracted">> >>
    [] n = "depends"   -> IF p \in Override
                          THEN << <<p, "rsync">> >> \o DepTargets(p)
                          ELSE DepTargets(p)
    [] n = "rsync"     -> IF p \in Override THEN << <<p, "rsynced">> >>
                          ELSE <<>>      (* there is no such rule *)
    [] n = "source"    -> IF p \in Override THEN << <<p, "rsync_sourced">> >>
                          ELSE << <<p, "downloaded">> >>
    [] OTHER           -> <<>>

(* `all' is world; target-finalize and rootfs-<fs> are last in $(TARGETS). *)
AllPrereqs == WorldTargets \o << <<Top, "target-finalize">>, <<Top, "rootfs">> >>
RootfsPrereqs == [i \in 1 .. Len(FsDeps) |-> <<FsDeps[i], "pkg">>]

Prereqs(t) ==
  IF t[1] # Top              THEN RulePrereqs(t[1], t[2])
  ELSE IF t[2] = "all"       THEN AllPrereqs
  ELSE IF t[2] = "rootfs"    THEN RootfsPrereqs
  ELSE <<>>

-----------------------------------------------------------------------------
Init ==
  /\ stamps = [p \in Pkgs |-> {}]
  /\ src    = [p \in Pkgs |-> 1]
  /\ tree   = [p \in Pkgs |-> NoTree]
  /\ conf   = [p \in Pkgs |-> Nothing]
  /\ obj    = [p \in Pkgs |-> Nothing]
  /\ inst   = [p \in Pkgs |-> [w \in Places |-> Nothing]]
  /\ image  = [p \in Pkgs |-> Nothing]
  /\ phase = "idle" /\ goals = <<>> /\ stack = <<>> /\ visited = {}
  /\ recipe = 0 /\ rms = <<>> /\ outcome = "none"
  /\ cmd = [kind |-> "make", pkg |-> Top, ver |-> 0]
  /\ aborts = 0 /\ cleans = 0

(* The developer edits the directory that <PKG>_OVERRIDE_SRCDIR names.     *)
EditSource(p) ==
  /\ p \in Override /\ src[p] < MaxVer
  /\ src' = [src EXCEPT ![p] = @ + 1]
  /\ UNCHANGED <<disk, phase, walk, rms, cmd, outcome, aborts, cleans>>

(* `make <goals>': no cleaning target on the command line.                 *)
Invoke(c) ==
  /\ phase = "idle"
  /\ phase' = "update" /\ goals' = c
  /\ cmd' = [kind |-> "make", pkg |-> Top, ver |-> 0]
  /\ outcome' = "none"
  /\ UNCHANGED <<disk, src, stack, visited, recipe, rms, aborts, cleans>>

(* Lines 477 to 490: the stamps each cleaning rule removes, one rm a line. *)
RebuildOfOldCopy(p) ==
  <<"built", "staging_installed", "target_installed", "images_installed",
    "host_installed">>
RebuildWithoutInstall(p) ==
  (IF p \in Override THEN <<"rsynced">> ELSE <<>>) \o
  <<"built", "staging_installed", "images_installed", "host_installed">>
CleanForRebuild(p) ==
  (IF p \in Override THEN <<"rsynced">> ELSE <<>>) \o
  <<"built", "staging_installed", "target_installed", "images_installed",
    "host_installed">>

CleanList(kind, p) ==
  CASE kind = "rebuild"     -> CleanForRebuild(p)
    [] kind = "reconfigure" -> CleanForRebuild(p) \o <<"configured">>
    [] kind = "dirclean"    -> <<>>

(* `make <pkg>-<kind> <goals>': -rebuild and -reconfigure then make <pkg>. *)
InvokeClean(kind, p, c) ==
  /\ phase = "idle" /\ cleans < MaxCleans
  /\ phase' = "clean" /\ rms' = CleanList(kind, p)
  /\ goals' = (IF kind = "dirclean" THEN <<>> ELSE << <<p, "pkg">> >>) \o c
  /\ cmd' = [kind |-> kind, pkg |-> p, ver |-> src[p]]
  /\ outcome' = "none" /\ cleans' = cleans + 1
  /\ UNCHANGED <<disk, src, stack, visited, recipe, aborts>>

RmStamp ==
  /\ phase = "clean" /\ rms # <<>>
  /\ stamps' = [stamps EXCEPT ![cmd.pkg] = @ \ {Head(rms)}]
  /\ rms' = Tail(rms)
  /\ phase' = IF Len(rms) = 1 THEN "update" ELSE "clean"
  /\ UNCHANGED <<tree, conf, obj, inst, image, src, walk, cmd, outcome,
                 aborts, cleans>>

(* rm -Rf $(@D), line 233.                                                 *)
Dirclean ==
  /\ phase = "clean" /\ cmd.kind = "dirclean"
  /\ stamps' = [stamps EXCEPT ![cmd.pkg] = {}]
  /\ tree' = [tree EXCEPT ![cmd.pkg] = NoTree]
  /\ conf' = [conf EXCEPT ![cmd.pkg] = Nothing]
  /\ obj'  = [obj EXCEPT ![cmd.pkg] = Nothing]
  /\ phase' = "update"
  /\ UNCHANGED <<inst, image, src, walk, rms, cmd, outcome, aborts, cleans>>

-----------------------------------------------------------------------------
(* GNU make's walk over the rules: prerequisites left to right, each       *)
(* target at most once per invocation, then the target's own recipe.       *)

Current == stack[Len(stack)]
Pending(t) == {i \in 1 .. Len(Prereqs(t)) : Prereqs(t)[i] \notin visited}
Ready == phase = "update" /\ stack # <<>> /\ Pending(Current) = {}
(* The stamps are files; the other targets of a package have no recipe.    *)
UpToDate(t) == \/ t[1] # Top /\ t[2] \in Rules
               \/ t[1] # Top /\ t[2] \in stamps[t[1]]
               \/ t = <<Top, "all">>

StartGoal ==
  /\ phase = "update" /\ stack = <<>> /\ goals # <<>>
  /\ stack' = IF Head(goals) \in visited THEN <<>> ELSE <<Head(goals)>>
  /\ goals' = Tail(goals)
  /\ UNCHANGED <<disk, src, phase, visited, recipe, rms, cmd, outcome,
                 aborts, cleans>>

Descend ==
  /\ phase = "update" /\ stack # <<>> /\ recipe = 0
  /\ \E i \in Pending(Current) :
       /\ \A j \in Pending(Current) : i <= j
       /\ stack' = Append(stack, Prereqs(Current)[i])
  /\ UNCHANGED <<disk, src, phase, goals, visited, recipe, rms, cmd, outcome,
                 aborts, cleans>>

Pop == /\ visited' = visited \cup {Current}
       /\ stack' = SubSeq(stack, 1, Len(stack) - 1)
       /\ recipe' = 0

Skip ==
  /\ Ready /\ recipe = 0 /\ UpToDate(Current)
  /\ Pop
  /\ UNCHANGED <<disk, src, phase, goals, rms, cmd, outcome, aborts, cleans>>

Succeed ==
  /\ phase = "update" /\ stack = <<>> /\ goals = <<>>
  /\ phase' = "idle" /\ outcome' = "ok" /\ visited' = {}
  /\ UNCHANGED <<disk, src, goals, stack, recipe, rms, cmd, aborts, cleans>>

(* Make exits with an error: what is on disk stays as it is.               *)
Exit ==
  /\ phase' = "idle" /\ outcome' = "failed"
  /\ goals' = <<>> /\ stack' = <<>> /\ visited' = {} /\ recipe' = 0
  /\ rms' = <<>>
  /\ UNCHANGED <<disk, src, cmd, cleans>>

(* A line of a recipe fails or the user interrupts make, at any point.     *)
Abort ==
  /\ phase = "update" \/ (phase = "clean" /\ CleanInterrupt)
  /\ aborts < MaxAborts /\ aborts' = aborts + 1
  /\ Exit

-----------------------------------------------------------------------------
(* The recipes.  Begin*: the first command has touched its output, which   *)
(* is from then on incomplete.  End*: the last command has finished and    *)
(* the stamp is touched.                                                   *)

AtAnyStamp(p, s) == Ready /\ Current = <<p, s>>
At(p, s) == Ready /\ Current = <<p, s>> /\ s \notin stamps[p]
Touch(p, s) == stamps' = [stamps EXCEPT ![p] = @ \cup {s}]
Same == UNCHANGED <<src, phase, goals, rms, cmd, outcome, aborts, cleans>>
Start == recipe = 0 /\ recipe' = 1 /\ UNCHANGED <<stack, visited>>

(* Lines 72 to 98.  The archive itself is the business of DlCache.         *)
Download(p) ==
  /\ At(p, "downloaded")
  /\ Touch(p, "downloaded") /\ Pop
  /\ UNCHANGED <<tree, conf, obj, inst, image>> /\ Same

(* Lines 101 to 110.  tar overwrites whatever an earlier attempt left.     *)
BeginExtract(p) ==
  /\ At(p, "extracted") /\ Start
  /\ tree' = [tree EXCEPT ![p] = NoTree]
  /\ UNCHANGED <<stamps, conf, obj, inst, image>> /\ Same

EndExtract(p) ==
  /\ At(p, "extracted") /\ recipe = 1
  /\ tree' = [tree EXCEPT ![p] = [ver |-> src[p], full |-> TRUE, applied |-> 0]]
  /\ Touch(p, "extracted") /\ Pop
  /\ UNCHANGED <<conf, obj, inst, image>> /\ Same

(* Lines 114 to 119.                                                       *)
BeginRsync(p) ==
  /\ At(p, "rsynced") /\ Start
  /\ tree' = [tree EXCEPT ![p].full = FALSE]
  /\ UNCHANGED <<stamps, conf, obj, inst, image>> /\ Same

EndRsync(p) ==
  /\ At(p, "rsynced") /\ recipe = 1
  /\ tree' = [tree EXCEPT ![p].full = TRUE, ![p].ver = src[p]]
  /\ Touch(p, "rsynced") /\ Pop
  /\ UNCHANGED <<conf, obj, inst, image>> /\ Same

(* Lines 142 to 160 with support/scripts/apply-patches.sh: the patches are *)
(* tried in order; one that the tree already contains makes patch -N fail. *)
BeginPatch(p) ==
  /\ At(p, "patched") /\ Start
  /\ UNCHANGED disk /\ Same

ApplyPatch(p) ==
  /\ At(p, "patched") /\ recipe \in 1 .. NPatches[p]
  /\ tree[p].applied = recipe - 1
  /\ tree' = [tree EXCEPT ![p].applied = recipe]
  /\ recipe' = recipe + 1
  /\ UNCHANGED <<stamps, conf, obj, inst, image, stack, visited>> /\ Same

EndPatch(p) ==
  /\ At(p, "patched") /\ recipe = NPatches[p] + 1
  /\ Touch(p, "patched") /\ Pop
  /\ UNCHANGED <<tree, conf, obj, inst, image>> /\ Same

(* patch -N refuses a patch that is already in the tree.                   *)
Stuck(p) ==
  /\ At(p, "patched") /\ recipe \in 1 .. NPatches[p]
  /\ tree[p].applied # recipe - 1

FailPatch(p) == Stuck(p) /\ Exit /\ UNCHANGED aborts

TreeOk(p) == tree[p].full /\ (p \in Override \/ tree[p].applied = NPatches[p])

(* Lines 163 to 170.                                                       *)
BeginConfigure(p) ==
  /\ At(p, "configured") /\ Start
  /\ conf' = [conf EXCEPT ![p].ok = FALSE]
  /\ UNCHANGED <<stamps, tree, obj, inst, image>> /\ Same

EndConfigure(p) ==
  /\ At(p, "configured") /\ recipe = 1
  /\ conf' = [conf EXCEPT ![p] = [ver |-> tree[p].ver, ok |-> TreeOk(p)]]
  /\ Touch(p, "configured") /\ Pop
  /\ UNCHANGED <<tree, obj, inst, image>> /\ Same

(* Lines 173 to 179.                                                       *)
BeginBuild(p) ==
  /\ At(p, "built") /\ Start
  /\ obj' = [obj EXCEPT ![p].ok = FALSE]
  /\ UNCHANGED <<stamps, tree, conf, inst, image>> /\ Same

EndBuild(p) ==
  /\ At(p, "built") /\ recipe = 1
  /\ obj' = [obj EXCEPT ![p] = [ver |-> tree[p].ver,
                                ok  |-> TreeOk(p) /\ conf[p].ok]]
  /\ Touch(p, "built") /\ Pop
  /\ UNCHANGED <<tree, conf, inst, image>> /\ Same

(* Lines 182 to 229: the four installation steps differ in the place only. *)
BeginInstall(p, w) ==
  /\ At(p, InstallStamp(w)) /\ Start
  /\ inst' = [inst EXCEPT ![p][w].ok = FALSE]
  /\ UNCHANGED <<stamps, tree, conf, obj, image>> /\ Same

EndInstall(p, w) ==
  /\ At(p, InstallStamp(w)) /\ recipe = 1
  /\ inst' = [inst EXCEPT ![p][w] = obj[p]]
  /\ Touch(p, InstallStamp(w)) /\ Pop
  /\ UNCHANGED <<tree, conf, obj, image>> /\ Same

(* Makefile, target-finalize: prunes and strips $(TARGET_DIR) in place.    *)
Finalize ==
  /\ Ready /\ Current = <<Top, "target-finalize">> /\ Pop
  /\ UNCHANGED disk /\ Same

(* fs/common.mk lines 67 to 90: the image is a copy of $(TARGET_DIR).      *)
BeginRootfs ==
  /\ Ready /\ Current = <<Top, "rootfs">> /\ Start
  /\ image' = [p \in Pkgs |-> [image[p] EXCEPT !.ok = FALSE]]
  /\ UNCHANGED <<stamps, tree, conf, obj, inst>> /\ Same

EndRootfs ==
  /\ Ready /\ Current = <<Top, "rootfs">> /\ recipe = 1 /\ Pop
  /\ image' = [p \in Pkgs |-> inst[p]["target"]]
  /\ UNCHANGED <<stamps, tree, conf, obj, inst>> /\ Same

-----------------------------------------------------------------------------
Recipe(p) ==
  \/ Download(p)
  \/ BeginExtract(p)   \/ EndExtract(p)
  \/ BeginRsync(p)     \/ EndRsync(p)
  \/ BeginPatch(p)     \/ ApplyPatch(p) \/ EndPatch(p) \/ FailPatch(p)
  \/ BeginConfigure(p) \/ EndConfigure(p)
  \/ BeginBuild(p)     \/ EndBuild(p)
  \/ \E w \in Places : BeginInstall(p, w) \/ EndInstall(p, w)

CleanKinds == {"rebuild", "reconfigure", "dirclean"}

MakeStep ==
  \/ RmStamp \/ Dirclean
  \/ StartGoal \/ Descend \/ Skip \/ Succeed
  \/ \E p \in Pkgs : Recipe(p)
  \/ Finalize \/ BeginRootfs \/ EndRootfs

Next ==
  \/ \E p \in Pkgs : EditSource(p)
  \/ \E c \in Commands : Invoke(c)
  \/ \E kind \in CleanKinds, p \in Pkgs, c \in Commands : InvokeClean(kind, p, c)
  \/ MakeStep
  \/ Abort

Spec == Init /\ [][Next]_vars

All == << <<Top, "all">> >>

(* A make that is not interrupted goes on to its end, and the user runs    *)
(* plain `make' again and again.  Nothing is assumed of edits and of        *)
(* interruptions, nor of when other commands are run in between.           *)
FairSpec == Spec /\ WF_vars(MakeStep) /\ SF_vars(Invoke(All))

-----------------------------------------------------------------------------
(* Properties.                                                             *)

(* Every variable has its type.                                            *)
TypeOK ==
  /\ stamps \in [Pkgs -> SUBSET Stamps]
  /\ src \in [Pkgs -> 1 .. MaxVer]
  /\ tree \in [Pkgs -> Tree]
  /\ conf \in [Pkgs -> Content] /\ obj \in [Pkgs -> Content]
  /\ inst \in [Pkgs -> [Places -> Content]]
  /\ image \in [Pkgs -> Content]
  /\ phase \in {"idle", "clean", "update"}
  /\ goals \in Seq(Targets) /\ stack \in Seq(Targets)
  /\ visited \in SUBSET Targets
  /\ recipe \in Nat /\ rms \in Seq(Stamps)
  /\ cmd \in [kind : CleanKinds \cup {"make"}, pkg : Pkgs \cup {Top},
               ver : 0 .. MaxVer]
  /\ outcome \in {"none", "ok", "failed"}
  /\ aborts \in 0 .. MaxAborts /\ cleans \in 0 .. MaxCleans

(* A stamp is only ever present together with the complete result of its   *)
(* step, whatever was interrupted, edited or cleaned before: this is the   *)
(* one fact a later make relies on when it skips the step.                 *)
StampIntegrity ==
  \A p \in Pkgs :
    /\ "extracted" \in stamps[p] => tree[p].full
    /\ "patched" \in stamps[p] => tree[p].applied = NPatches[p]
    /\ "rsynced" \in stamps[p] => tree[p].full
    /\ "configured" \in stamps[p] => conf[p].ok
    /\ "built" \in stamps[p] => obj[p].ok
    /\ \A w \in Places :
         InstallStamp(w) \in stamps[p] => inst[p][w].ok

(* The stamps of one package tell one story: what is installed is what was *)
(* built last, and what was built last is what was synchronised last.      *)
StampsCoherent ==
  phase # "clean" => \A p \in Pkgs :
    /\ "built" \in stamps[p] => obj[p].ver = tree[p].ver
    /\ \A w \in Places : InstallStamp(w) \in stamps[p] =>
         "built" \in stamps[p] /\ inst[p][w].ver = obj[p].ver

(* <PKG>_DEPENDENCIES: from the first command of a package's configure     *)
(* step on, every dependency is built and completely installed in each     *)
(* place it is meant to be.                                                *)
Working(p) ==
  /\ Ready /\ recipe > 0
  /\ \E s \in {"configured", "built", "staging_installed", "target_installed",
              "images_installed", "host_installed"} : Current = <<p, s>>

DepsReady ==
  \A p \in Pkgs : Working(p) =>
    \A i \in 1 .. Len(Deps[p]) : \A w \in Places :
      Installs(Deps[p][i], w) => inst[Deps[p][i]][w].ok

(* `make' that returns success leaves an image that holds the complete     *)
(* target installation of every package of $(TARGETS), as it was built     *)
(* last.                                                                   *)
ImageComplete ==
  [][ Succeed /\ <<Top, "all">> \in visited =>
        \A i \in 1 .. Len(World) : Installs(World[i], "target") =>
          image[World[i]].ok /\ image[World[i]] = obj[World[i]] ]_vars

(* docs/manual/using-buildroot-development.txt: after `make <pkg>-rebuild  *)
(* all' the root filesystem image contains the updated package, that is,   *)
(* at least the sources as they were when the command was given.           *)
RebuildPublishes ==
  [][ Succeed /\ cmd.kind \in {"rebuild", "reconfigure"}
              /\ <<Top, "all">> \in visited
              /\ cmd.pkg \in Override /\ Installs(cmd.pkg, "target") =>
        image[cmd.pkg].ver >= cmd.ver ]_vars

(* docs/manual/rebuilding-packages.txt: a package that was built is never  *)
(* rebuilt or reinstalled unless the user asked for this very package.     *)
OnlyWhenAsked ==
  [][ \A p \in Pkgs :
        /\ "built" \in stamps[p] => obj'[p] = obj[p] \/ cmd.pkg = p
        /\ "built" \in stamps[p] /\ cmd.pkg # p => "built" \in stamps'[p] ]_vars

(* If no interruption ever catches a tree between two patches, the builds  *)
(* converge: the image holds everything in $(TARGETS) again and again.      *)
HalfPatched(p) ==
  /\ p \notin Override /\ "patched" \notin stamps[p]
  /\ tree[p].applied > 0
  /\ ~(phase = "update" /\ stack # <<>> /\ Current = <<p, "patched">>
       /\ recipe = tree[p].applied + 1)

Converges ==
  [](\A p \in Pkgs : ~HalfPatched(p)) =>
    []<>(\A i \in 1 .. Len(World) :
         Installs(World[i], "target") => image[World[i]].ok)
=============================================================================
