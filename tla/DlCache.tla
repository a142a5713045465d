------------------------------ MODULE DlCache -------------------------------
(***************************************************************************)
(* The download helpers, package/pkg-download.mk, and the recipe of        *)
(* .stamp_downloaded in package/pkg-generic.mk.                            *)
(*                                                                         *)
(* Output trees share one download directory.  For each file of a package  *)
(* DOWNLOAD asks up to three sites in turn: the primary site, the site of  *)
(* the package and the backup site.  Every fetcher first looks whether the *)
(* file exists under its final name, and if so it takes it as it is: there *)
(* are no checksums.  The fetchers differ in how the file comes to be:     *)
(*   - wget writes <file>.tmp and renames it;                              *)
(*   - scp, cp and bzr write the final name directly;                      *)
(*   - git, svn, cvs and hg make a working copy in the download directory  *)
(*     and pack it, again directly into the final name.                    *)
(*                                                                         *)
(* A file is an inode: a tree that opened <file>.tmp goes on writing to    *)
(* the same inode after another tree renamed it.  The content of an inode  *)
(* is the site it comes from and whether it is complete.  One package with *)
(* its source and patches is modelled; Trees, crashes and failures are     *)
(* those of several makes on one machine, in any interleaving.             *)
(***************************************************************************)
EXTENDS Naturals, Sequences, FiniteSets

CONSTANTS
  Trees,       (* output trees that share the download directory           *)
  Files,       (* names of all files                                       *)
  Configs,     (* configurations: see ConfigSet                            *)
  MaxCrashes,  (* bound: makes that are killed                             *)
  MaxFails     (* bound: transfers that fail although the site has the file*)

Working  == {"git", "svn", "cvs", "hg"}      (* through a working copy     *)
Direct   == {"scp", "file", "bzr"}           (* straight to the final name *)
Methods  == {"wget"} \cup Direct \cup Working
Sites    == {"primary", "package", "backup"}

(* primary: fetcher of BR2_PRIMARY_SITE, "none" if it is empty; only:      *)
(* BR2_PRIMARY_SITE_ONLY; method: <PKG>_SITE_METHOD; backup: BR2_BACKUP_   *)
(* SITE is not empty; files: <PKG>_SOURCE and then the other files; has:   *)
(* the files each site offers; trees: the output trees that are built.     *)
ConfigSet ==
  [trees : SUBSET Trees,
   primary : {"none", "wget", "scp"}, only : BOOLEAN, method : Methods,
   backup : BOOLEAN, files : Seq(Files), has : [Sites -> SUBSET Files]]

ASSUME DlAssumption ==
  /\ Configs \subseteq ConfigSet
  /\ \A c \in Configs : c.files # <<>> /\ (c.only => c.primary # "none")
                        /\ c.trees # {}
  /\ IsFiniteSet(Trees) /\ IsFiniteSet(Files) /\ 0 \notin Trees
  /\ MaxCrashes \in Nat /\ MaxFails \in Nat

(* Enough inodes for every name and for what the trees have open.          *)
Inodes == 1 .. (2 * Cardinality(Files) + Cardinality(Trees))
None == 0

VARIABLES
  conf,     (* the configuration, the same in all trees                    *)
  final,    (* final[f]: inode of $(DL_DIR)/f, or None                     *)
  tmp,      (* tmp[f]: inode of $(DL_DIR)/f.tmp, or None                   *)
  ino,      (* ino[i]: [by: who truncated it last, site, full]             *)
  copy,     (* the working copy $(DL_DIR)/<pkg>-<version>                  *)
  pc,       (* pc[t]: where the shell of tree t is                         *)
  file,     (* file[t]: index of the file being downloaded                 *)
  site,     (* site[t]: the site being asked                               *)
  fd,       (* fd[t]: inode the tree is writing, or None                   *)
  stamped,  (* stamped[t]: .stamp_downloaded exists in the build directory *)
  crashes, fails

files == <<final, tmp, ino>>
vars  == <<conf, files, copy, pc, file, site, fd, stamped, crashes, fails>>

NoCopy == [there |-> FALSE, by |-> None, full |-> FALSE]
-----------------------------------------------------------------------------
(* DOWNLOAD_INNER, lines 251 to 282: which site comes next and which       *)
(* fetcher serves it.  <PKG>_SITE_METHOD is never empty (pkg-generic.mk    *)
(* lines 317 to 324), so the scheme of the URL itself does not count.      *)
NextButBackup(s) ==
  CASE s = "none"    -> IF conf.primary # "none" THEN "primary" ELSE "package"
    [] s = "primary" -> IF conf.only THEN "failed" ELSE "package"
    [] OTHER         -> "failed"
NextSite(s) ==
  CASE s = "none"    -> IF conf.primary # "none" THEN "primary" ELSE "package"
    [] s = "primary" -> IF conf.only THEN "failed" ELSE "package"
    [] s = "package" -> IF conf.backup THEN "backup" ELSE "failed"
    [] s = "backup"  -> "failed"

Fetcher(t) ==
  CASE site[t] = "primary" -> conf.primary
    [] site[t] = "package" -> conf.method
    [] site[t] = "backup"  -> "wget"

Wanted(t) == conf.files[file[t]]

(* The fetchers without arguments, lines 86, 114, 127, 146 and 180, look   *)
(* for <PKG>_SOURCE and produce it, whatever file was asked for.           *)
Dest(t) == IF Fetcher(t) \in Working \cup {"bzr"} THEN conf.files[1]
           ELSE Wanted(t)

Offered(t) == Dest(t) \in conf.has[site[t]]

-----------------------------------------------------------------------------
(* Files.                                                                  *)

Fresh == CHOOSE i \in Inodes : /\ \A f \in Files : i \notin {final[f], tmp[f]}
                               /\ \A t \in Trees : fd[t] # i

(* open(O_CREAT | O_TRUNC) by tree t of a name that has inode i.           *)
Truncate(t, i) ==
  /\ fd' = [fd EXCEPT ![t] = i]
  /\ ino' = [ino EXCEPT ![i] = [by |-> t, site |-> site[t], full |-> FALSE]]

Opened(i) == IF i = None THEN Fresh ELSE i

(* The writer that truncated a file last has written all of it.            *)
Complete(t) ==
  /\ ino' = [ino EXCEPT ![fd[t]].full = @ \/ ino[fd[t]].by = t]
  /\ fd' = [fd EXCEPT ![t] = None]

-----------------------------------------------------------------------------
Init ==
  /\ conf \in Configs
  /\ final = [f \in Files |-> None] /\ tmp = [f \in Files |-> None]
  /\ ino = [i \in Inodes |-> [by |-> None, site |-> "none", full |-> FALSE]]
  /\ copy = NoCopy
  /\ pc = [t \in Trees |-> "idle"] /\ file = [t \in Trees |-> 1]
  /\ site = [t \in Trees |-> "none"] /\ fd = [t \in Trees |-> None]
  /\ stamped = [t \in Trees |-> FALSE]
  /\ crashes = 0 /\ fails = 0

Goto(t, l) == pc' = [pc EXCEPT ![t] = l]

(* The current site did not help: the next one, or the recipe fails.       *)
GiveUpOnFile(t) ==      (* a `;' too many in the recipe: the next file      *)
  IF NextSite(site[t]) = "failed" /\ file[t] < Len(conf.files)
  THEN /\ Goto(t, "test") /\ file' = [file EXCEPT ![t] = @ + 1]
       /\ site' = [site EXCEPT ![t] = NextSite("none")]
  ELSE IF NextSite(site[t]) = "failed"
  THEN Goto(t, "idle") /\ site' = [site EXCEPT ![t] = "none"] /\ UNCHANGED file
  ELSE Goto(t, "test") /\ site' = [site EXCEPT ![t] = NextSite(site[t])]
       /\ UNCHANGED file
GiveUp(t) ==
  IF NextSite(site[t]) = "failed"
  THEN Goto(t, "idle") /\ site' = [site EXCEPT ![t] = "none"] /\ UNCHANGED file
  ELSE Goto(t, "test") /\ site' = [site EXCEPT ![t] = NextSite(site[t])]
       /\ UNCHANGED file

(* DOWNLOAD exits 0: the next file, or the stamp is touched.               *)
Got(t) ==
  IF file[t] = Len(conf.files)
  THEN /\ Goto(t, "idle") /\ site' = [site EXCEPT ![t] = "none"]
       /\ stamped' = [stamped EXCEPT ![t] = TRUE] /\ UNCHANGED file
  ELSE /\ Goto(t, "test") /\ file' = [file EXCEPT ![t] = @ + 1]
       /\ site' = [site EXCEPT ![t] = NextSite("none")] /\ UNCHANGED stamped

(* make reaches .stamp_downloaded, which does not exist.                   *)
Start(t) ==
  /\ pc[t] = "idle" /\ ~stamped[t]
  /\ Goto(t, "test") /\ file' = [file EXCEPT ![t] = 1]
  /\ site' = [site EXCEPT ![t] = NextSite("none")]
  /\ UNCHANGED <<conf, files, copy, fd, stamped, crashes, fails>>

(* -dirclean removes the build directory, never the download.              *)
Dirclean(t) ==
  /\ pc[t] = "idle" /\ stamped[t]
  /\ stamped' = [stamped EXCEPT ![t] = FALSE]
  /\ UNCHANGED <<conf, files, copy, pc, file, site, fd, crashes, fails>>

Same == UNCHANGED <<conf, crashes>>

(* test -e, the first line of every fetcher.                               *)
TestFound(t) ==
  /\ pc[t] = "test" /\ final[Dest(t)] # None
  /\ Got(t)
  /\ UNCHANGED <<files, copy, fd, fails>> /\ Same

FetchAnyway(t) ==
  /\ pc[t] = "test"
  /\ Goto(t, IF Fetcher(t) \in Working THEN "clone" ELSE "open")
  /\ UNCHANGED <<files, copy, file, site, fd, stamped, fails>> /\ Same
TestAbsent(t) ==
  /\ pc[t] = "test" /\ final[Dest(t)] = None
  /\ \E l \in CASE Fetcher(t) = "git" -> {"shallow", "clone"}
                [] Fetcher(t) = "hg"  -> {"rmold"}
                [] Fetcher(t) \in {"svn", "cvs"} -> {"clone"}
                [] OTHER -> {"open"} : Goto(t, l)
  /\ UNCHANGED <<files, copy, file, site, fd, stamped, fails>> /\ Same

-----------------------------------------------------------------------------
(* DOWNLOAD_WGET, lines 206 to 211, and the direct writers, lines 113 to   *)
(* 116, 165 to 168 and 221 to 224.                                         *)

(* wget -O truncates the temporary file before it knows of the site.       *)
OpenInPlace(t) ==
  /\ pc[t] = "open" /\ Fetcher(t) = "wget"
  /\ LET i == Opened(final[Dest(t)]) IN
       /\ final' = [final EXCEPT ![Dest(t)] = i]
       /\ tmp' = [tmp EXCEPT ![Dest(t)] = i] /\ Truncate(t, i)
  /\ Goto(t, "write")
  /\ UNCHANGED <<copy, file, site, stamped, fails>> /\ Same
OpenTmp(t) ==
  /\ pc[t] = "open" /\ Fetcher(t) = "wget"
  /\ LET i == Opened(tmp[Dest(t)]) IN
       tmp' = [tmp EXCEPT ![Dest(t)] = i] /\ Truncate(t, i)
  /\ Goto(t, "write")
  /\ UNCHANGED <<final, copy, file, site, stamped, fails>> /\ Same

OpenFinal(t) ==
  /\ pc[t] = "open" /\ Fetcher(t) \in Direct /\ Offered(t)
  /\ LET i == Opened(final[Dest(t)]) IN
       final' = [final EXCEPT ![Dest(t)] = i] /\ Truncate(t, i)
  /\ Goto(t, "write")
  /\ UNCHANGED <<tmp, copy, file, site, stamped, fails>> /\ Same

NotOffered(t) ==
  /\ pc[t] = "open" /\ Fetcher(t) \in Direct /\ ~Offered(t)
  /\ GiveUp(t)
  /\ UNCHANGED <<files, copy, fd, stamped, fails>> /\ Same

Written(t) ==
  /\ pc[t] = "write" /\ Offered(t)
  /\ Complete(t)
  /\ IF Fetcher(t) = "wget"
     THEN Goto(t, "mv") /\ UNCHANGED <<file, site, stamped>>
     ELSE Got(t)
  /\ UNCHANGED <<final, tmp, copy, fails>> /\ Same

(* A transfer fails because the site has no such file, or in the middle.   *)
MayFail(t) == \/ ~Offered(t) /\ UNCHANGED fails
              \/ Offered(t) /\ fails < MaxFails /\ fails' = fails + 1

RenameAfterFailure(t) ==
  /\ pc[t] = "write" /\ MayFail(t)
  /\ fd' = [fd EXCEPT ![t] = None]
  /\ IF Fetcher(t) = "wget"
     THEN Goto(t, "mv") /\ UNCHANGED <<file, site>>
     ELSE GiveUp(t)
  /\ UNCHANGED <<files, copy, stamped>> /\ Same
WriteFails(t) ==
  /\ pc[t] = "write" /\ MayFail(t)
  /\ fd' = [fd EXCEPT ![t] = None]
  /\ IF Fetcher(t) = "wget"
     THEN Goto(t, "rm") /\ UNCHANGED <<file, site>>
     ELSE GiveUp(t)
  /\ UNCHANGED <<files, copy, stamped>> /\ Same

Rename(t) ==
  /\ pc[t] = "mv" /\ tmp[Dest(t)] # None
  /\ final' = [final EXCEPT ![Dest(t)] = tmp[Dest(t)]]
  /\ tmp' = [tmp EXCEPT ![Dest(t)] = None]
  /\ Got(t)
  /\ UNCHANGED <<ino, copy, fd, fails>> /\ Same

(* The temporary file is gone: another tree renamed or removed it.         *)
RenameFails(t) ==
  /\ pc[t] = "mv" /\ tmp[Dest(t)] = None
  /\ Goto(t, "rm")
  /\ UNCHANGED <<files, copy, file, site, fd, stamped, fails>> /\ Same

RemoveTmp(t) ==
  /\ pc[t] = "rm"
  /\ tmp' = [tmp EXCEPT ![Dest(t)] = None]
  /\ GiveUp(t)
  /\ UNCHANGED <<final, ino, copy, fd, stamped, fails>> /\ Same

-----------------------------------------------------------------------------
(* DOWNLOAD_GIT, _CVS, _SVN and _HG, lines 85 to 100, 126 to 134, 145 to   *)
(* 152 and 179 to 188.                                                     *)

(* rm -rf of what was there, hg only.                                      *)
RemoveOld(t) ==
  /\ pc[t] = "rmold"
  /\ copy' = NoCopy /\ Goto(t, "clone")
  /\ UNCHANGED <<files, file, site, fd, stamped, fails>> /\ Same

(* A shallow clone that fails is tried again as a full one (lines 88 to    *)
(* 92); any other failure ends the fetcher.                                *)
CloneFailed(t) ==
  IF pc[t] \in {"shallow", "shallowing"}
  THEN Goto(t, "clone") /\ UNCHANGED <<file, site>>
  ELSE GiveUp(t)

(* cvs co updates a directory that exists, the others refuse it.           *)
NeverRefuses(t) == FALSE
Refuses(t) == copy.there /\ Fetcher(t) # "cvs"
Mine(t) == copy.there /\ (copy.by = t \/ Fetcher(t) = "cvs")

BeginClone(t) ==
  /\ pc[t] \in {"shallow", "clone"} /\ Offered(t) /\ ~Refuses(t)
  /\ copy' = [copy EXCEPT !.there = TRUE, !.by = t]
  /\ Goto(t, IF pc[t] = "shallow" THEN "shallowing" ELSE "cloning")
  /\ UNCHANGED <<files, file, site, fd, stamped, fails>> /\ Same

CloneRefused(t) ==
  /\ pc[t] \in {"shallow", "clone"} /\ (~Offered(t) \/ Refuses(t))
  /\ CloneFailed(t)
  /\ UNCHANGED <<files, copy, fd, stamped, fails>> /\ Same

EndClone(t) ==
  /\ pc[t] \in {"shallowing", "cloning"} /\ Mine(t)
  /\ copy' = [copy EXCEPT !.full = TRUE] /\ Goto(t, "pack")
  /\ UNCHANGED <<files, file, site, fd, stamped, fails>> /\ Same

(* git and hg remove the directory they made, svn and cvs leave it.  When  *)
(* another tree took the directory away there is no other outcome.         *)
CloneFails(t) ==
  /\ pc[t] \in {"shallowing", "cloning"}
  /\ \/ Mine(t) /\ fails < MaxFails /\ fails' = fails + 1
        /\ copy' = IF Fetcher(t) \in {"git", "hg"} THEN NoCopy ELSE copy
     \/ ~Mine(t) /\ UNCHANGED <<copy, fails>>
  /\ CloneFailed(t)
  /\ UNCHANGED <<files, fd, stamped>> /\ Same

BeginPack(t) ==
  /\ pc[t] = "pack" /\ copy.there
  /\ LET i == Opened(final[Dest(t)]) IN
       final' = [final EXCEPT ![Dest(t)] = i] /\ Truncate(t, i)
  /\ Goto(t, "packing")
  /\ UNCHANGED <<tmp, copy, file, site, stamped, fails>> /\ Same

EndPack(t) ==
  /\ pc[t] = "packing" /\ copy.full
  /\ Complete(t) /\ Goto(t, "rmcopy")
  /\ UNCHANGED <<final, tmp, copy, file, site, stamped, fails>> /\ Same

(* The && chain stops: neither the archive nor the working copy is removed.*)
PackFails(t) ==
  /\ pc[t] \in {"pack", "packing"}
  /\ \/ fails < MaxFails /\ fails' = fails + 1
     \/ ~copy.full /\ UNCHANGED fails
  /\ fd' = [fd EXCEPT ![t] = None]
  /\ GiveUp(t)
  /\ UNCHANGED <<files, copy, stamped>> /\ Same

RemoveCopy(t) ==
  /\ pc[t] = "rmcopy"
  /\ copy' = NoCopy /\ Got(t)
  /\ UNCHANGED <<files, fd, fails>> /\ Same

-----------------------------------------------------------------------------
(* The make of tree t is killed, or the machine loses power.               *)
Crash(t) ==
  /\ pc[t] # "idle" /\ crashes < MaxCrashes /\ crashes' = crashes + 1
  /\ Goto(t, "idle") /\ site' = [site EXCEPT ![t] = "none"]
  /\ fd' = [fd EXCEPT ![t] = None]
  /\ UNCHANGED <<conf, files, copy, file, stamped, fails>>

Step(t) ==
  \/ Start(t) \/ TestFound(t) \/ TestAbsent(t)
  \/ OpenTmp(t) \/ OpenFinal(t) \/ NotOffered(t) \/ Written(t) \/ WriteFails(t)
  \/ Rename(t) \/ RenameFails(t) \/ RemoveTmp(t)
  \/ RemoveOld(t) \/ BeginClone(t) \/ CloneRefused(t) \/ EndClone(t)
  \/ CloneFails(t) \/ BeginPack(t) \/ EndPack(t) \/ PackFails(t)
  \/ RemoveCopy(t)

Next == \E t \in conf.trees : Step(t) \/ Dirclean(t) \/ Crash(t)

Spec == Init /\ [][Next]_vars

(* A make goes on, and one that failed or was killed is started again.     *)
FairSpec == Spec /\ \A t \in Trees : WF_vars(t \in conf.trees /\ Step(t))

-----------------------------------------------------------------------------
(* Properties.                                                             *)

(* Every variable has its type.                                            *)
TypeOK ==
  /\ conf \in Configs
  /\ final \in [Files -> Inodes \cup {None}]
  /\ tmp \in [Files -> Inodes \cup {None}]
  /\ ino \in [Inodes -> [by : Trees \cup {None}, site : Sites \cup {"none"},
                        full : BOOLEAN]]
  /\ copy \in [there : BOOLEAN, by : Trees \cup {None}, full : BOOLEAN]
  /\ pc \in [Trees -> {"idle", "test", "open", "write", "mv", "rm", "rmold",
                      "shallow", "shallowing", "clone", "cloning", "pack",
                      "packing", "rmcopy"}]
  /\ file \in [Trees -> 1 .. Len(conf.files)]
  /\ site \in [Trees -> Sites \cup {"none"}]
  /\ fd \in [Trees -> Inodes \cup {None}]
  /\ stamped \in [Trees -> BOOLEAN]
  /\ crashes \in 0 .. MaxCrashes /\ fails \in 0 .. MaxFails

IsComplete(f) == final[f] # None /\ ino[final[f]].full

Alone == Cardinality(conf.trees) = 1
AllWget == conf.method = "wget" /\ conf.primary # "scp"

(* pkg-download.mk lines 200 to 205, "To handle an interrupted download as *)
(* well, download to a temporary file first": where all sites are asked    *)
(* with wget, whatever fails or is killed, what carries the final name is  *)
(* complete.                                                               *)
CacheComplete ==
  AllWget => \A f \in Files : final[f] # None => IsComplete(f)

(* Where nothing was disturbed, a tree that is built alone and has its     *)
(* stamp has every file of its package, complete, whatever the method and  *)
(* wherever the file had to be fetched from.                               *)
UndisturbedComplete ==
  Alone /\ crashes = 0 /\ fails = 0 =>
    \A t \in Trees : stamped[t] =>
      \A k \in 1 .. Len(conf.files) : IsComplete(conf.files[k])

(* The configuration's files are there when the stamp is, even after       *)
(* failures: no way through the sites forgets a file.                      *)
StampedPresent ==
  \A t \in Trees : stamped[t] =>
    \A k \in 1 .. Len(conf.files) : final[conf.files[k]] # None

(* A complete file of the cache is never truncated, replaced by another or *)
(* removed again by a tree that is built alone: later builds take it.      *)
CompleteStays ==
  [][ Alone => \A f \in Files : IsComplete(f) =>
        final'[f] = final[f] /\ ino'[final[f]] = ino[final[f]] ]_vars

(* With the crashes and failures behind it, a tree that is built alone     *)
(* gets all its files if each is offered by an allowed site whose fetcher  *)
(* needs no working copy (one that was left behind blocks git, svn and hg).*)
(* Two trees may remove each other's temporary file for ever.              *)
FetcherOf(s) == CASE s = "primary" -> conf.primary
                  [] s = "package" -> conf.method
                  [] s = "backup"  -> IF conf.backup THEN "wget" ELSE "none"
Allowed == IF conf.only THEN {"primary"} ELSE Sites
Served == \A k \in 1 .. Len(conf.files) : \E s \in Allowed :
            conf.files[k] \in conf.has[s]
            /\ FetcherOf(s) \notin Working \cup {"none"}
            /\ (FetcherOf(s) = "bzr" => k = 1)

Recovers ==
  Alone /\ Served => \A t \in Trees : t \in conf.trees => []<>stamped[t]

(* The archive of a package that comes from git or svn, for any number of  *)
(* trees that are not disturbed: the tree that is refused the directory    *)
(* gets the file in the end.                                               *)
SharesCopies ==
  [](crashes = 0 /\ fails = 0) /\ ~conf.only
    /\ conf.method \in {"git", "svn"} /\ Len(conf.files) = 1
    /\ conf.files[1] \in conf.has["package"] =>
    \A t \in Trees : t \in conf.trees => []<>stamped[t]

(* The download directory as the rest of Buildroot sees it.  What it       *)
(* promises is kept by wget, for one tree: of other configurations nothing *)
(* is said.                                                                *)
Cache == INSTANCE AtomicCache WITH
  Absent <- "absent",
  allowed <- Allowed,
  cache <- [f \in Files |->
              IF ~AllWget \/ ~Alone \/ final[f] = None THEN "absent"
              ELSE IF ino[final[f]].full THEN ino[final[f]].site
              ELSE "incomplete"]

(* Files appear at once, complete, from an allowed site, and stay so: one  *)
(* tree that uses wget implements an atomic cache.                         *)
Atomic == Cache!Spec
=============================================================================
