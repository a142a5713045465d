--------------------------- MODULE DlCacheProofs ----------------------------
(***************************************************************************)
(* What the download directory promises, for any number of trees, files    *)
(* and configurations, and any number of kills and failures.               *)
(*                                                                         *)
(* DlInv holds for any number of trees: the shell of a tree runs what fits *)
(* its fetcher, and no way through the sites forgets a file.  AloneInv is  *)
(* what a tree can rely on when no other shares the directory: files have  *)
(* inodes of their own, and between its look at the final name and its     *)
(* rename or its first write nobody makes the file.  The five results at   *)
(* the end follow from the two.                                            *)
(***************************************************************************)
EXTENDS DlCache, FiniteSetTheorems, TLAPS

(* Each name is fetched as the file it is, so that no file is taken for    *)
(* another: the repository's git, svn, cvs, hg and bzr ignore the name.    *)
OwnFiles == conf.method \notin Working \cup {"bzr"} \/ Len(conf.files) = 1

Busy(t) == pc[t] # "idle"
Cloning == {"rmold", "shallow", "shallowing", "clone", "cloning", "pack", "packing", "rmcopy"}

(* A site that may be asked.                                               *)
MayAsk(s) == s \in Allowed /\ (s = "primary" => conf.primary # "none")

(* What the shell of a tree is about to do fits the fetcher it runs, and   *)
(* the site is one the configuration allows.                               *)
Shell(t) ==
  /\ Busy(t) => MayAsk(site[t])
  /\ pc[t] \in {"mv", "rm"} => Fetcher(t) = "wget"
  /\ pc[t] \in {"open", "write"} => Fetcher(t) \in {"wget"} \cup Direct
  /\ pc[t] \in Cloning => Fetcher(t) \in Working
  /\ pc[t] \in {"write", "packing"} => fd[t] \in Inodes
  /\ stamped[t] => pc[t] = "idle"

(* The final name exists while it is written and after.                    *)
InPlace(t) ==
  \/ pc[t] = "write" /\ Fetcher(t) \in Direct
  \/ pc[t] = "packing"
Exists(t) == InPlace(t) \/ pc[t] = "rmcopy" => final[Dest(t)] # None

(* The files before the one at hand are there.                             *)
Present(t) ==
  /\ Busy(t) => \A k \in 1 .. file[t] - 1 : final[conf.files[k]] # None
  /\ stamped[t] => \A k \in 1 .. Len(conf.files) : final[conf.files[k]] # None

DlInv ==
  /\ TypeOK
  /\ \A t \in Trees : Shell(t) /\ Exists(t) /\ (OwnFiles => Present(t))

-----------------------------------------------------------------------------
(* Two names never share an inode, and no temporary name that of a final   *)
(* one.                                                                    *)
Distinct ==
  /\ \A f, g \in Files : f # g /\ final[f] # None => final[f] # final[g]
  /\ \A f, g \in Files : f # g /\ tmp[f] # None => tmp[f] # tmp[g]
  /\ \A f, g \in Files : final[f] # None => final[f] # tmp[g]

ByWget(t) == pc[t] = "write" /\ Fetcher(t) = "wget"

(* A tree that is alone finds everything as it left it.                    *)
Undone(t) ==
  /\ \/ pc[t] \in {"open", "mv", "rm"} \cup (Cloning \ {"packing", "rmcopy"})
     \/ ByWget(t)
     => final[Dest(t)] = None
  /\ ByWget(t) => fd[t] = tmp[Dest(t)]
  /\ InPlace(t) => fd[t] = final[Dest(t)]
  /\ pc[t] \in {"write", "packing"} => ino[fd[t]].by = t
  /\ pc[t] = "write" => ino[fd[t]].site = site[t]
  /\ pc[t] = "mv" => /\ tmp[Dest(t)] # None /\ ino[tmp[Dest(t)]].full
                     /\ ino[tmp[Dest(t)]].site = site[t]
  /\ pc[t] \in {"pack", "packing"} => copy.full
  /\ pc[t] = "write" /\ Fetcher(t) \in Direct => Offered(t)

(* What carries a final name is complete, but for what is being written    *)
(* in place.                                                               *)
Whole(t) ==
  /\ AllWget => \A f \in Files : final[f] # None =>
                  ino[final[f]].full /\ ino[final[f]].site \in Allowed
  /\ crashes = 0 /\ fails = 0 => \A f \in Files : final[f] # None =>
                  ino[final[f]].full \/ (InPlace(t) /\ f = Dest(t))

AloneInv ==
  \A t \in Trees : conf.trees = {t} =>
    /\ Distinct /\ Undone(t) /\ Whole(t)
    /\ \A u \in Trees : u # t => pc[u] = "idle" /\ fd[u] = None

-----------------------------------------------------------------------------
(* Configurations and sites.                                               *)

(* What is known of a configuration.                                       *)
LEMMA ConfFacts ==
  ASSUME conf \in Configs
  PROVE  /\ conf.trees \subseteq Trees /\ conf.trees # {}
         /\ conf.primary \in {"none", "wget", "scp"} /\ conf.only \in BOOLEAN
         /\ conf.method \in Methods /\ conf.backup \in BOOLEAN
         /\ conf.files \in Seq(Files) /\ Len(conf.files) \in Nat \ {0}
         /\ \A k \in 1 .. Len(conf.files) : conf.files[k] \in Files
         /\ conf.only => conf.primary # "none"
<1>1. /\ conf \in ConfigSet /\ conf.files # <<>> /\ (conf.only => conf.primary # "none")
      /\ conf.trees # {}
  BY DlAssumption
<1>2. conf.files \in Seq(Files)
  BY <1>1 DEF ConfigSet
<1>3. Len(conf.files) \in Nat \ {0} /\ \A k \in 1 .. Len(conf.files) : conf.files[k] \in Files
  BY <1>1, <1>2
<1>. QED  BY <1>1, <1>2, <1>3 DEF ConfigSet

(* The sites are asked in the order of the configuration, and a site that  *)
(* is not allowed is never asked.                                          *)
LEMMA AsksAllowed ==
  ASSUME conf \in Configs
  PROVE  /\ MayAsk(NextSite("none"))
         /\ \A s : MayAsk(s) => NextSite(s) = "failed" \/ MayAsk(NextSite(s))
<1>1. conf.only => conf.primary # "none"
  BY ConfFacts
<1>2. MayAsk(NextSite("none"))
  BY <1>1 DEF MayAsk, NextSite, Allowed, Sites
<1>3. ASSUME NEW s, MayAsk(s) PROVE NextSite(s) = "failed" \/ MayAsk(NextSite(s))
  <2>1. s = "primary" \/ s = "package" \/ s = "backup"
    BY <1>3 DEF MayAsk, Allowed, Sites
  <2>. QED  BY <1>1, <1>3, <2>1 DEF MayAsk, NextSite, Allowed, Sites
<1>. QED  BY <1>2, <1>3

(* A site is asked with one of the fetchers, for one of the files.         *)
LEMMA AsksFile ==
  ASSUME TypeOK, NEW t \in Trees
  PROVE  /\ Wanted(t) \in Files /\ Dest(t) \in Files
         /\ MayAsk(site[t]) => Fetcher(t) \in Methods
<1>1. /\ 1 \in 1 .. Len(conf.files) /\ file[t] \in 1 .. Len(conf.files)
  BY ConfFacts DEF TypeOK
<1>2. Wanted(t) \in Files /\ Dest(t) \in Files
  BY <1>1, ConfFacts DEF TypeOK, Wanted, Dest
<1>3. ASSUME MayAsk(site[t]) PROVE Fetcher(t) \in Methods
  <2>1. /\ site[t] = "primary" \/ site[t] = "package" \/ site[t] = "backup"
        /\ site[t] = "primary" => conf.primary # "none"
    BY <1>3 DEF MayAsk, Allowed, Sites
  <2>2. conf.primary \in {"none", "wget", "scp"} /\ conf.method \in Methods
    BY ConfFacts DEF TypeOK
  <2>. QED  BY <2>1, <2>2 DEF Fetcher, Methods, Direct
<1>. QED  BY <1>2, <1>3

(* Where it runs on, the shell asks the same site for the same file.       *)
LEMMA SameAsked ==
  ASSUME NEW u, conf' = conf, site'[u] = site[u], file'[u] = file[u]
  PROVE  /\ Fetcher(u)' = Fetcher(u) /\ Wanted(u)' = Wanted(u)
         /\ Dest(u)' = Dest(u) /\ Offered(u)' = Offered(u)
<1>1. Fetcher(u)' = Fetcher(u)
  BY DEF Fetcher
<1>2. Wanted(u)' = Wanted(u)
  BY DEF Wanted
<1>3. Dest(u)' = Dest(u)
  BY <1>1, <1>2 DEF Dest
<1>4. Offered(u)' = Offered(u)
  BY <1>3 DEF Offered
<1>. QED  BY <1>1, <1>2, <1>3, <1>4

-----------------------------------------------------------------------------
(* Inodes.                                                                 *)

(* A file that is created finds an inode nobody has: there is one for each *)
(* final and temporary name and for what each tree has open, and the name  *)
(* that is created has none.                                               *)
Free(i) == /\ i \in Inodes
           /\ \A f \in Files : i \notin {final[f], tmp[f]}
           /\ \A u \in Trees : fd[u] # i

(* A function has at most as many values as arguments.                     *)
LEMMA ImageSize ==
  ASSUME NEW S, IsFiniteSet(S), NEW g
  PROVE  /\ IsFiniteSet({g[x] : x \in S})
         /\ Cardinality({g[x] : x \in S}) \in Nat /\ Cardinality({g[x] : x \in S}) <= Cardinality(S)
<1>1. [x \in S |-> g[x]] \in Surjection(S, {g[x] : x \in S})
  BY DEF Surjection
<1>. QED  BY <1>1, FS_Surjection, FS_CardinalityType

(* A union has at most as many elements as its parts together.             *)
LEMMA UnionSize ==
  ASSUME NEW S, IsFiniteSet(S), NEW T, IsFiniteSet(T)
  PROVE  /\ IsFiniteSet(S \cup T)
         /\ Cardinality(S) \in Nat /\ Cardinality(T) \in Nat /\ Cardinality(S \cup T) \in Nat
         /\ Cardinality(S \cup T) <= Cardinality(S) + Cardinality(T)
<1>1. IsFiniteSet(S \cup T) /\ IsFiniteSet(S \cap T)
  BY FS_Union, FS_Intersection
<1>2. /\ Cardinality(S) \in Nat /\ Cardinality(T) \in Nat /\ Cardinality(S \cup T) \in Nat
      /\ Cardinality(S \cap T) \in Nat
  BY <1>1, FS_CardinalityType
<1>3. Cardinality(S \cup T) = Cardinality(S) + Cardinality(T) - Cardinality(S \cap T)
  BY FS_Union
<1>. QED  BY <1>1, <1>2, <1>3

(* There is an inode nobody has, as long as one name has none.             *)
LEMMA FreshFree ==
  ASSUME TypeOK, NEW d \in Files, final[d] = None \/ tmp[d] = None
  PROVE  Free(Fresh)
<1>. DEFINE here == {final[f] : f \in Files}
            there == {tmp[f] : f \in Files}
            rest == Files \ {d}
            finals == IF final[d] = None THEN {final[f] : f \in rest} ELSE here
            tmps == IF final[d] = None THEN there ELSE {tmp[f] : f \in rest}
            open == {fd[u] : u \in Trees}
            used == (finals \cup tmps) \cup open
            n == Cardinality(Files)
            m == Cardinality(Trees)
<1>1. IsFiniteSet(Files) /\ IsFiniteSet(Trees) /\ n \in Nat /\ m \in Nat
  BY DlAssumption, FS_CardinalityType
<1>2. IsFiniteSet(rest) /\ Cardinality(rest) = n - 1
  BY <1>1, FS_RemoveElement
<1>3. /\ IsFiniteSet(here) /\ Cardinality(here) <= n
      /\ IsFiniteSet(there) /\ Cardinality(there) <= n
      /\ IsFiniteSet(open) /\ Cardinality(open) <= m
  BY <1>1, ImageSize
<1>4. /\ IsFiniteSet({final[f] : f \in rest}) /\ Cardinality({final[f] : f \in rest}) <= n - 1
      /\ IsFiniteSet({tmp[f] : f \in rest}) /\ Cardinality({tmp[f] : f \in rest}) <= n - 1
  <2>. HIDE DEF rest
  <2>. QED  BY <1>2, ImageSize
<1>5. /\ IsFiniteSet(finals) /\ IsFiniteSet(tmps)
      /\ Cardinality(finals) \in Nat /\ Cardinality(tmps) \in Nat /\ Cardinality(open) \in Nat
      /\ Cardinality(finals) + Cardinality(tmps) <= 2 * n - 1
  <2>1. CASE final[d] = None
    <3>1. finals = {final[f] : f \in rest} /\ tmps = there
      BY <2>1
    <3>. HIDE DEF finals, tmps, here, there, rest, open
    <3>2. Cardinality(finals) \in Nat /\ Cardinality(tmps) \in Nat /\ Cardinality(open) \in Nat
      BY <1>3, <1>4, <3>1, FS_CardinalityType
    <3>3. Cardinality(finals) <= n - 1 /\ Cardinality(tmps) <= n
      BY <1>3, <1>4, <3>1
    <3>4. Cardinality(finals) + Cardinality(tmps) <= 2 * n - 1
      BY <1>1, <3>2, <3>3
    <3>. QED  BY <1>3, <1>4, <3>1, <3>2, <3>4
  <2>2. CASE final[d] # None
    <3>1. finals = here /\ tmps = {tmp[f] : f \in rest}
      BY <2>2
    <3>. HIDE DEF finals, tmps, here, there, rest, open
    <3>2. Cardinality(finals) \in Nat /\ Cardinality(tmps) \in Nat /\ Cardinality(open) \in Nat
      BY <1>3, <1>4, <3>1, FS_CardinalityType
    <3>3. Cardinality(tmps) <= n - 1 /\ Cardinality(finals) <= n
      BY <1>3, <1>4, <3>1
    <3>4. Cardinality(finals) + Cardinality(tmps) <= 2 * n - 1
      BY <1>1, <3>2, <3>3
    <3>. QED  BY <1>3, <1>4, <3>1, <3>2, <3>4
  <2>. QED  BY <2>1, <2>2
<1>6. IsFiniteSet(used) /\ Cardinality(used) <= 2 * n - 1 + m
  <2>. HIDE DEF finals, tmps, here, there, rest, open
  <2>1. IsFiniteSet(finals \cup tmps) /\ Cardinality(finals \cup tmps) <= Cardinality(finals) + Cardinality(tmps)
    BY <1>5, UnionSize
  <2>2. IsFiniteSet(used) /\ Cardinality(used) <= Cardinality(finals \cup tmps) + Cardinality(open)
    BY <1>3, <2>1, UnionSize
  <2>3. Cardinality(finals \cup tmps) \in Nat /\ Cardinality(used) \in Nat
    BY <2>1, <2>2, FS_CardinalityType
  <2>. QED  BY <1>1, <1>3, <1>5, <2>1, <2>2, <2>3
<1>7. Cardinality(Inodes) = 2 * n + m
  <2>1. 2 * n + m \in Nat
    BY <1>1
  <2>2. Inodes = 1 .. (2 * n + m)
    BY DEF Inodes
  <2>. QED  BY <2>1, <2>2, FS_Interval
<1>8. PICK i \in Inodes : i \notin used
  <2>. SUFFICES ASSUME Inodes \subseteq used PROVE FALSE
    OBVIOUS
  <2>1. Cardinality(Inodes) <= Cardinality(used)
    BY <1>6, FS_Subset
  <2>2. Cardinality(used) \in Nat
    BY <1>6, FS_CardinalityType
  <2>. QED  BY <1>1, <1>6, <1>7, <2>1, <2>2
<1>9. i # None
  BY <1>1 DEF Inodes, None
<1>10. Free(i)
  <2>1. ASSUME NEW f \in Files PROVE i # final[f] /\ i # tmp[f]
    <3>1. CASE final[d] = None
      BY <1>8, <1>9, <3>1
    <3>2. CASE final[d] # None
      BY <1>8, <1>9, <3>2
    <3>. QED  BY <3>1, <3>2
  <2>. QED  BY <1>8, <2>1 DEF Free
<1>. QED  BY <1>10 DEF Free, Fresh

(* So what is opened is the inode of the name or a new one.                *)
LEMMA OpensInode ==
  ASSUME TypeOK, NEW d \in Files, NEW names \in {final, tmp}
  PROVE  /\ Opened(names[d]) \in Inodes /\ Opened(names[d]) # None
         /\ names[d] # None => Opened(names[d]) = names[d]
         /\ names[d] = None => Free(Opened(names[d]))
<1>0. None \notin Inodes
  <2>1. Inodes \subseteq Nat \ {0}
    <3>1. 2 * Cardinality(Files) + Cardinality(Trees) \in Nat
      BY DlAssumption, FS_CardinalityType
    <3>. QED  BY <3>1 DEF Inodes
  <2>. QED  BY <2>1 DEF None
<1>1. CASE names[d] = None
  BY <1>0, <1>1, FreshFree DEF Opened, Free
<1>2. CASE names[d] # None
  BY <1>0, <1>2 DEF Opened, TypeOK
<1>. QED  BY <1>1, <1>2

-----------------------------------------------------------------------------
(* The steps of a shell.                                                   *)

Labels == {"idle", "test", "open", "write", "mv", "rm"} \cup Cloning

(* Tree t goes to l to ask site s for the file at n, with or without its   *)
(* stamp.                                                                  *)
Goes(t, l, s, n, st) ==
  /\ conf' = conf
  /\ pc' = [pc EXCEPT ![t] = l] /\ site' = [site EXCEPT ![t] = s]
  /\ file' = [file EXCEPT ![t] = n] /\ stamped' = [stamped EXCEPT ![t] = st]

(* No final name goes away, and every file and counter has its type.       *)
Grows ==
  /\ \A f \in Files : final[f] # None => final'[f] # None
  /\ final' \in [Files -> Inodes \cup {None}]
  /\ tmp' \in [Files -> Inodes \cup {None}]
  /\ ino' \in [Inodes -> [by : Trees \cup {None}, site : Sites \cup {"none"}, full : BOOLEAN]]
  /\ copy' \in [there : BOOLEAN, by : Trees \cup {None}, full : BOOLEAN]
  /\ fd' \in [Trees -> Inodes \cup {None}]
  /\ crashes' \in 0 .. MaxCrashes /\ fails' \in 0 .. MaxFails
Alters(t) == Grows /\ \A u \in Trees : u # t => fd'[u] = fd[u]

(* What holds of a shell goes on to hold while another one takes a step.   *)
LEMMA OthersKept ==
  ASSUME DlInv, NEW t \in Trees, NEW l \in Labels, NEW s \in Sites \cup {"none"},
         NEW n \in 1 .. Len(conf.files), NEW st \in BOOLEAN, Goes(t, l, s, n, st), Alters(t),
         Shell(t)', Exists(t)', OwnFiles => Present(t)'
  PROVE  DlInv'
<1>1. TypeOK
  BY DEF DlInv
<1>2. TypeOK'
  <2>1. conf' \in Configs /\ conf' = conf
    BY <1>1 DEF TypeOK, Goes
  <2>2. /\ pc' \in [Trees -> Labels] /\ site' \in [Trees -> Sites \cup {"none"}]
        /\ stamped' \in [Trees -> BOOLEAN]
    BY <1>1 DEF TypeOK, Goes, Labels, Cloning
  <2>3. file' \in [Trees -> 1 .. Len(conf.files)]
    BY <1>1 DEF TypeOK, Goes
  <2>4. Labels = {"idle", "test", "open", "write", "mv", "rm", "rmold", "shallow", "shallowing",
                  "clone", "cloning", "pack", "packing", "rmcopy"}
    BY DEF Labels, Cloning
  <2>. QED  BY <2>1, <2>2, <2>3, <2>4 DEF TypeOK, Alters, Grows
<1>3. ASSUME NEW u \in Trees, u # t
      PROVE  Shell(u)' /\ Exists(u)' /\ (OwnFiles' => Present(u)')
  <2>1. /\ conf' = conf /\ pc'[u] = pc[u] /\ site'[u] = site[u] /\ file'[u] = file[u]
        /\ stamped'[u] = stamped[u] /\ fd'[u] = fd[u]
    BY <1>1, <1>3 DEF TypeOK, Goes, Alters
  <2>2. Fetcher(u)' = Fetcher(u) /\ Dest(u)' = Dest(u)
    BY <2>1, SameAsked
  <2>3. Dest(u) \in Files
    BY <1>1, AsksFile
  <2>4. Shell(u) /\ Exists(u) /\ (OwnFiles => Present(u))
    BY DEF DlInv
  <2>5. Shell(u)'
    BY <2>1, <2>2, <2>4 DEF Shell, Busy, MayAsk, Allowed
  <2>6. Exists(u)'
    BY <2>1, <2>2, <2>3, <2>4 DEF Exists, InPlace, Alters, Grows
  <2>7. OwnFiles' = OwnFiles
    BY <2>1 DEF OwnFiles
  <2>8. ASSUME Present(u) PROVE Present(u)'
    <3>1. \A k \in 1 .. Len(conf.files) : conf.files[k] \in Files
      BY <1>1, ConfFacts DEF TypeOK
    <3>2. file[u] \in 1 .. Len(conf.files) /\ Len(conf.files) \in Nat
      BY <1>1, ConfFacts DEF TypeOK
    <3>3. \A k \in 1 .. Len(conf.files) : final[conf.files[k]] # None => final'[conf.files[k]] # None
      BY <3>1 DEF Alters, Grows
    <3>4. \A k \in 1 .. file[u] - 1 : k \in 1 .. Len(conf.files)
      BY <3>2
    <3>. QED  BY <2>1, <2>8, <3>3, <3>4 DEF Present, Busy
  <2>. QED  BY <2>4, <2>5, <2>6, <2>7, <2>8
<1>4. OwnFiles' = OwnFiles
  BY DEF Goes, OwnFiles
<1>. QED  BY <1>2, <1>3, <1>4 DEF DlInv

(* A shell that has what it was asked for, and one that gives it up, comes *)
(* to rest: to the next look for a file, or to the end of the recipe.      *)
Rests(t, n, st) ==
  \/ Goes(t, "idle", "none", n, st)
  \/ ~st /\ \E s \in Sites : MayAsk(s) /\ Goes(t, "test", s, n, st)

(* Coming to rest keeps DlInv if the files up to there are there.          *)
LEMMA RestsKept ==
  ASSUME DlInv, NEW t \in Trees, NEW n \in 1 .. Len(conf.files), NEW st \in BOOLEAN,
         Rests(t, n, st), Alters(t),
         OwnFiles => \A k \in 1 .. n - 1 : final'[conf.files[k]] # None,
         OwnFiles /\ st => \A k \in 1 .. Len(conf.files) : final'[conf.files[k]] # None
  PROVE  DlInv'
<1>1. PICK l \in {"idle", "test"}, s \in Sites \cup {"none"} :
        Goes(t, l, s, n, st) /\ (l = "test" => ~st /\ MayAsk(s))
  BY DEF Rests
<1>2. /\ conf' = conf /\ pc'[t] = l /\ site'[t] = s /\ file'[t] = n /\ stamped'[t] = st
  BY <1>1 DEF Goes, DlInv, TypeOK
<1>3. l \in Labels
  BY DEF Labels
<1>4. Shell(t)'
  BY <1>1, <1>2 DEF Shell, Busy, MayAsk, Allowed, Cloning
<1>5. Exists(t)'
  BY <1>2 DEF Exists, InPlace
<1>6. OwnFiles => Present(t)'
  BY <1>2 DEF Present
<1>. QED  BY <1>1, <1>3, <1>4, <1>5, <1>6, OthersKept

(* DOWNLOAD gives up on a site.                                            *)
LEMMA GivesUp ==
  ASSUME DlInv, NEW t \in Trees, Busy(t), GiveUp(t), UNCHANGED <<conf, stamped>>
  PROVE  Rests(t, file[t], stamped[t]) /\ stamped[t] = FALSE
<1>1. conf \in Configs /\ MayAsk(site[t]) /\ stamped \in [Trees -> BOOLEAN] /\ stamped[t] = FALSE
  BY DEF DlInv, TypeOK, Shell, Busy
<1>2. /\ file' = [file EXCEPT ![t] = file[t]] /\ stamped' = [stamped EXCEPT ![t] = stamped[t]]
  BY DEF DlInv, TypeOK, GiveUp
<1>3. CASE NextSite(site[t]) = "failed"
  BY <1>1, <1>2, <1>3 DEF Rests, Goes, GiveUp, Goto
<1>4. CASE NextSite(site[t]) # "failed"
  <2>1. MayAsk(NextSite(site[t])) /\ NextSite(site[t]) \in Sites
    BY <1>1, <1>4, AsksAllowed DEF MayAsk, Allowed, Sites
  <2>2. Goes(t, "test", NextSite(site[t]), file[t], stamped[t])
    BY <1>2, <1>4 DEF Goes, GiveUp, Goto
  <2>. QED  BY <1>1, <2>1, <2>2 DEF Rests
<1>. QED  BY <1>3, <1>4

(* The file is there: the next one, or the stamp.                          *)
LEMMA Gets ==
  ASSUME DlInv, NEW t \in Trees, Busy(t), Got(t), conf' = conf
  PROVE  \/ file[t] = Len(conf.files) /\ Rests(t, file[t], TRUE)
         \/ file[t] + 1 \in 1 .. Len(conf.files) /\ Rests(t, file[t] + 1, stamped[t])
<1>1. conf \in Configs /\ stamped[t] = FALSE /\ file[t] \in 1 .. Len(conf.files)
  BY DEF DlInv, TypeOK, Shell, Busy
<1>a. Len(conf.files) \in Nat
  BY <1>1, ConfFacts
<1>2. CASE file[t] = Len(conf.files)
  <2>1. file' = [file EXCEPT ![t] = file[t]]
    BY <1>2 DEF DlInv, TypeOK, Got
  <2>. QED  BY <1>2, <2>1 DEF Rests, Goes, Got, Goto
<1>3. CASE file[t] # Len(conf.files)
  <2>1. file[t] + 1 \in 1 .. Len(conf.files)
    BY <1>1, <1>3, <1>a
  <2>2. MayAsk(NextSite("none")) /\ NextSite("none") \in Sites
    BY <1>1, AsksAllowed DEF MayAsk, Allowed, Sites
  <2>3. stamped' = [stamped EXCEPT ![t] = stamped[t]]
    BY <1>3 DEF DlInv, TypeOK, Got
  <2>4. file' = [file EXCEPT ![t] = file[t] + 1]
    BY <1>3 DEF Got
  <2>5. Goes(t, "test", NextSite("none"), file[t] + 1, stamped[t])
    BY <1>3, <2>3, <2>4 DEF Goes, Got, Goto
  <2>. QED  BY <1>1, <2>1, <2>2, <2>5 DEF Rests
<1>. QED  BY <1>2, <1>3

(* Giving up a site forgets no file.                                       *)
LEMMA GiveUpKept ==
  ASSUME DlInv, NEW t \in Trees, Busy(t), GiveUp(t), UNCHANGED <<conf, stamped>>, Alters(t)
  PROVE  DlInv'
<1>1. Rests(t, file[t], stamped[t]) /\ stamped[t] = FALSE
  BY GivesUp
<1>2. conf \in Configs /\ file[t] \in 1 .. Len(conf.files)
  BY DEF DlInv, TypeOK
<1>3. Len(conf.files) \in Nat /\ \A k \in 1 .. Len(conf.files) : conf.files[k] \in Files
  BY <1>2, ConfFacts
<1>4. OwnFiles => \A k \in 1 .. file[t] - 1 : final[conf.files[k]] # None /\ conf.files[k] \in Files
  BY <1>2, <1>3 DEF DlInv, Present
<1>5. OwnFiles => \A k \in 1 .. file[t] - 1 : final'[conf.files[k]] # None
  BY <1>4 DEF Alters, Grows
<1>. QED  BY <1>1, <1>2, <1>5, RestsKept

(* Where each name is fetched as the file it is, the fetchers look for     *)
(* what they are asked for.                                                *)
LEMMA OwnDest ==
  ASSUME DlInv, NEW t \in Trees, Busy(t), OwnFiles
  PROVE  Dest(t) = Wanted(t)
<1>1. conf \in Configs /\ MayAsk(site[t]) /\ file[t] \in 1 .. Len(conf.files)
  BY DEF DlInv, TypeOK, Shell
<1>2. CASE Len(conf.files) = 1
  <2>1. file[t] = 1
    BY <1>1, <1>2
  <2>. QED  BY <2>1 DEF Dest, Wanted
<1>3. CASE conf.method \notin Working \cup {"bzr"}
  <2>1. /\ site[t] = "primary" \/ site[t] = "package" \/ site[t] = "backup"
        /\ site[t] = "primary" => conf.primary # "none"
    BY <1>1 DEF MayAsk, Allowed, Sites
  <2>2. conf.primary \in {"none", "wget", "scp"}
    BY <1>1, ConfFacts
  <2>3. Fetcher(t) \notin Working \cup {"bzr"}
    BY <1>3, <2>1, <2>2 DEF Fetcher, Working
  <2>. QED  BY <2>3 DEF Dest
<1>. QED  BY <1>2, <1>3 DEF OwnFiles

(* Going on forgets no file if the one that was asked for is there.        *)
LEMMA GotKept ==
  ASSUME DlInv, NEW t \in Trees, Busy(t), Got(t), conf' = conf, Alters(t), final'[Dest(t)] # None
  PROVE  DlInv'
<1>1. conf \in Configs /\ file[t] \in 1 .. Len(conf.files) /\ stamped[t] = FALSE
  BY DEF DlInv, TypeOK, Shell, Busy
<1>2. Len(conf.files) \in Nat /\ \A k \in 1 .. Len(conf.files) : conf.files[k] \in Files
  BY <1>1, ConfFacts
<1>3. OwnFiles => \A k \in 1 .. file[t] : final'[conf.files[k]] # None
  <2>. SUFFICES ASSUME OwnFiles, NEW k \in 1 .. file[t] PROVE final'[conf.files[k]] # None
    OBVIOUS
  <2>1. CASE k = file[t]
    BY <2>1, OwnDest DEF Wanted
  <2>2. CASE k # file[t]
    <3>1. k \in 1 .. file[t] - 1 /\ k \in 1 .. Len(conf.files)
      BY <1>1, <1>2, <2>2
    <3>2. final[conf.files[k]] # None /\ conf.files[k] \in Files
      BY <1>2, <3>1 DEF DlInv, Present
    <3>. QED  BY <3>2 DEF Alters, Grows
  <2>. QED  BY <2>1, <2>2
<1>4. CASE file[t] = Len(conf.files) /\ Rests(t, file[t], TRUE)
  <2>1. \A k \in 1 .. file[t] - 1 : k \in 1 .. file[t]
    BY <1>1, <1>2
  <2>. QED  BY <1>1, <1>3, <1>4, <2>1, RestsKept
<1>5. CASE file[t] + 1 \in 1 .. Len(conf.files) /\ Rests(t, file[t] + 1, stamped[t])
  <2>1. 1 .. (file[t] + 1) - 1 = 1 .. file[t]
    BY <1>1, <1>2
  <2>. QED  BY <1>1, <1>3, <1>5, <2>1, RestsKept
<1>. QED  BY <1>4, <1>5, Gets

(* A shell goes on with the file and the site it has.                      *)
LEMMA GotoKept ==
  ASSUME DlInv, NEW t \in Trees, Busy(t), NEW l \in Labels, l \notin {"idle", "test"}, Goto(t, l),
         UNCHANGED <<conf, file, site, stamped>>, Alters(t),
         l \in {"mv", "rm"} => Fetcher(t) = "wget",
         l \in {"open", "write"} => Fetcher(t) \in {"wget"} \cup Direct,
         l \in Cloning => Fetcher(t) \in Working,
         l \in {"write", "packing"} => fd'[t] \in Inodes,
         \/ l = "write" /\ Fetcher(t) \in Direct
         \/ l \in {"packing", "rmcopy"}
         => final'[Dest(t)] # None
  PROVE  DlInv'
<1>1. TypeOK /\ Shell(t) /\ stamped[t] = FALSE
  BY DEF DlInv, Shell, Busy, TypeOK
<1>2. Goes(t, l, site[t], file[t], stamped[t])
  BY <1>1 DEF Goes, Goto, TypeOK
<1>3. /\ conf' = conf /\ pc'[t] = l /\ site'[t] = site[t] /\ file'[t] = file[t]
      /\ stamped'[t] = FALSE
  BY <1>1 DEF Goto, TypeOK
<1>4. Fetcher(t)' = Fetcher(t) /\ Dest(t)' = Dest(t)
  BY <1>3, SameAsked
<1>5. MayAsk(site[t])' = MayAsk(site[t])
  BY <1>3 DEF MayAsk, Allowed
<1>6. Shell(t)'
  BY <1>1, <1>3, <1>4, <1>5 DEF Shell, Busy
<1>7. Exists(t)'
  BY <1>3, <1>4 DEF Exists, InPlace
<1>8. OwnFiles => Present(t)'
  <2>. SUFFICES ASSUME OwnFiles PROVE Present(t)'
    OBVIOUS
  <2>1. Len(conf.files) \in Nat /\ \A k \in 1 .. Len(conf.files) : conf.files[k] \in Files
    BY <1>1, ConfFacts DEF TypeOK
  <2>2. \A k \in 1 .. file[t] - 1 : k \in 1 .. Len(conf.files)
    BY <1>1, <2>1 DEF TypeOK
  <2>3. \A k \in 1 .. file[t] - 1 : final[conf.files[k]] # None
    BY DEF DlInv, Present
  <2>4. \A k \in 1 .. file[t] - 1 : final'[conf.files[k]] # None
    BY <2>1, <2>2, <2>3 DEF Alters, Grows
  <2>. QED  BY <1>3, <2>4 DEF Present
<1>9. site[t] \in Sites \cup {"none"} /\ file[t] \in 1 .. Len(conf.files) /\ stamped[t] \in BOOLEAN
  BY <1>1 DEF TypeOK
<1>. QED  BY <1>2, <1>6, <1>7, <1>8, <1>9, OthersKept

-----------------------------------------------------------------------------
(* What the steps do to files.                                             *)

(* The actions that leave all files alone, but for the working copy.       *)
LEMMA FilesAlone ==
  ASSUME DlInv, NEW t \in Trees, UNCHANGED <<files, fd, crashes>>,
         copy' \in [there : BOOLEAN, by : Trees \cup {None}, full : BOOLEAN],
         fails' \in 0 .. MaxFails
  PROVE  Alters(t)
  BY DEF DlInv, TypeOK, files, Alters, Grows

(* A writer that stops leaves the file as it is.                           *)
LEMMA Closes ==
  ASSUME DlInv, NEW t \in Trees, fd' = [fd EXCEPT ![t] = None], UNCHANGED <<files, copy>>,
         crashes' \in 0 .. MaxCrashes, fails' \in 0 .. MaxFails
  PROVE  Alters(t)
<1>1. fd' \in [Trees -> Inodes \cup {None}] /\ \A u \in Trees : u # t => fd'[u] = fd[u]
  BY DEF DlInv, TypeOK
<1>. QED  BY <1>1 DEF DlInv, TypeOK, files, Alters, Grows

(* A file that is opened for writing is empty, and the tree's.             *)
LEMMA Truncates ==
  ASSUME DlInv, NEW t \in Trees, NEW i \in Inodes, Truncate(t, i)
  PROVE  /\ fd' \in [Trees -> Inodes \cup {None}] /\ fd'[t] = i
         /\ \A u \in Trees : u # t => fd'[u] = fd[u]
         /\ ino' \in [Inodes -> [by : Trees \cup {None}, site : Sites \cup {"none"}, full : BOOLEAN]]
         /\ ino'[i].by = t /\ ino'[i].site = site[t]
         /\ \A j \in Inodes : j # i => ino'[j] = ino[j]
  BY DEF DlInv, TypeOK, Truncate

(* A file that is written to its end is complete, if it is still the       *)
(* tree's.                                                                 *)
LEMMA Completes ==
  ASSUME DlInv, NEW t \in Trees, fd[t] \in Inodes, Complete(t)
  PROVE  /\ fd' \in [Trees -> Inodes \cup {None}] /\ fd'[t] = None
         /\ \A u \in Trees : u # t => fd'[u] = fd[u]
         /\ ino' \in [Inodes -> [by : Trees \cup {None}, site : Sites \cup {"none"}, full : BOOLEAN]]
         /\ \A j \in Inodes : ino'[j].by = ino[j].by /\ ino'[j].site = ino[j].site
         /\ \A j \in Inodes : j # fd[t] \/ ino[j].full => ino'[j] = ino[j]
         /\ ino[fd[t]].by = t => ino'[fd[t]].full = TRUE
<1>. DEFINE full == ino[fd[t]].full \/ ino[fd[t]].by = t
            i == fd[t]
            Inode == [by : Trees \cup {None}, site : Sites \cup {"none"}, full : BOOLEAN]
<1>1. ino \in [Inodes -> Inode] /\ fd \in [Trees -> Inodes \cup {None}] /\ i \in Inodes
  BY DEF DlInv, TypeOK
<1>2. full \in BOOLEAN /\ (ino[i].full => full = TRUE) /\ (ino[i].by = t => full = TRUE)
  OBVIOUS
<1>3. ino' = [ino EXCEPT ![i].full = full] /\ fd' = [fd EXCEPT ![t] = None]
  BY DEF Complete
<1>. HIDE DEF full
<1>4. /\ fd' \in [Trees -> Inodes \cup {None}] /\ fd'[t] = None
      /\ \A u \in Trees : u # t => fd'[u] = fd[u]
  BY <1>1, <1>3
<1>. HIDE DEF i
<1>5. /\ ino' \in [Inodes -> Inode] /\ ino'[i].by = ino[i].by /\ ino'[i].site = ino[i].site
      /\ ino'[i].full = full /\ \A j \in Inodes : j # i => ino'[j] = ino[j]
  BY <1>1, <1>2, <1>3
<1>6. ASSUME ino[i].full PROVE ino'[i] = ino[i]
  <2>1. ino[i] \in Inode /\ ino'[i] \in Inode
    BY <1>1, <1>5
  <2>2. full = ino[i].full
    BY <1>2, <1>6, <2>1
  <2>3. \A a, b \in Inode : a.by = b.by /\ a.site = b.site /\ a.full = b.full => a = b
    OBVIOUS
  <2>. HIDE DEF Inode
  <2>. QED  BY <1>5, <2>1, <2>2, <2>3
<1>7. \A j \in Inodes : ino'[j].by = ino[j].by /\ ino'[j].site = ino[j].site
  BY <1>5
<1>8. \A j \in Inodes : j # i \/ ino[j].full => ino'[j] = ino[j]
  BY <1>5, <1>6
<1>. QED  BY <1>2, <1>4, <1>5, <1>7, <1>8 DEF i

-----------------------------------------------------------------------------
(* DlInv is inductive.                                                     *)

(* Nothing is there, and no shell runs.                                    *)
LEMMA DlInitial == Init => DlInv
<1>. SUFFICES ASSUME Init PROVE DlInv
  OBVIOUS
<1>1. Len(conf.files) \in Nat \ {0}
  BY ConfFacts DEF Init
<1>2. TypeOK
  <2>1. 1 \in 1 .. Len(conf.files)
    BY <1>1
  <2>2. 0 \in 0 .. MaxCrashes /\ 0 \in 0 .. MaxFails
    BY DlAssumption
  <2>3. NoCopy \in [there : BOOLEAN, by : Trees \cup {None}, full : BOOLEAN]
    BY DEF NoCopy
  <2>4. [by |-> None, site |-> "none", full |-> FALSE]
          \in [by : Trees \cup {None}, site : Sites \cup {"none"}, full : BOOLEAN]
    OBVIOUS
  <2>. QED  BY <2>1, <2>2, <2>3, <2>4 DEF Init, TypeOK
<1>3. ASSUME NEW t \in Trees PROVE Shell(t) /\ Exists(t) /\ Present(t)
  <2>1. pc[t] = "idle" /\ stamped[t] = FALSE
    BY DEF Init
  <2>. QED  BY <2>1 DEF Shell, Exists, InPlace, Present, Busy, Cloning
<1>. QED  BY <1>2, <1>3 DEF DlInv

(* Steps that only look at files.                                          *)
LEMMA LooksKept ==
  ASSUME DlInv, NEW t \in Trees,
         \/ Start(t) \/ Dirclean(t) \/ TestFound(t) \/ TestAbsent(t) \/ NotOffered(t) \/ RenameFails(t)
         \/ RemoveOld(t) \/ BeginClone(t) \/ CloneRefused(t) \/ EndClone(t) \/ CloneFails(t)
         \/ RemoveCopy(t)
  PROVE  DlInv'
<1>1. TypeOK /\ Shell(t) /\ Exists(t)
  BY DEF DlInv
<1>2. /\ conf \in Configs /\ fails \in 0 .. MaxFails /\ MaxFails \in Nat /\ Dest(t) \in Files
      /\ copy \in [there : BOOLEAN, by : Trees \cup {None}, full : BOOLEAN]
      /\ NoCopy \in [there : BOOLEAN, by : Trees \cup {None}, full : BOOLEAN]
  BY <1>1, AsksFile, DlAssumption DEF TypeOK, NoCopy
<1>3. CASE Start(t)
  <2>1. Alters(t)
    BY <1>2, <1>3, FilesAlone DEF Start
  <2>2. MayAsk(NextSite("none")) /\ NextSite("none") \in Sites
    BY <1>2, AsksAllowed DEF MayAsk, Allowed, Sites
  <2>3. stamped[t] = FALSE /\ stamped' = [stamped EXCEPT ![t] = FALSE]
    BY <1>1, <1>3 DEF Start, TypeOK
  <2>4. Goes(t, "test", NextSite("none"), 1, FALSE)
    BY <1>3, <2>3 DEF Start, Goes, Goto
  <2>5. Rests(t, 1, FALSE)
    BY <2>2, <2>4 DEF Rests
  <2>6. 1 \in 1 .. Len(conf.files) /\ 1 .. 1 - 1 = {}
    BY <1>2, ConfFacts
  <2>. QED  BY <2>1, <2>5, <2>6, RestsKept
<1>4. CASE Dirclean(t)
  <2>1. Alters(t)
    BY <1>2, <1>4, FilesAlone DEF Dirclean
  <2>2. file[t] \in 1 .. Len(conf.files) /\ site[t] \in Sites \cup {"none"} /\ "idle" \in Labels
    BY <1>1 DEF TypeOK, Labels
  <2>3. Goes(t, "idle", site[t], file[t], FALSE)
    BY <1>1, <1>4 DEF Dirclean, Goes, TypeOK
  <2>4. pc'[t] = "idle" /\ stamped'[t] = FALSE
    BY <1>1, <2>3 DEF Goes, TypeOK
  <2>5. Shell(t)' /\ Exists(t)' /\ Present(t)'
    BY <2>4 DEF Shell, Exists, InPlace, Present, Busy, Cloning
  <2>. QED  BY <2>1, <2>2, <2>3, <2>5, OthersKept
<1>5. CASE TestFound(t)
  <2>1. Busy(t) /\ Alters(t) /\ conf' = conf
    BY <1>2, <1>5, FilesAlone DEF TestFound, Same, Busy
  <2>2. final'[Dest(t)] # None
    BY <1>5 DEF TestFound, files
  <2>. QED  BY <1>5, <2>1, <2>2, GotKept DEF TestFound
<1>6. CASE TestAbsent(t)
  <2>1. Busy(t) /\ Alters(t) /\ UNCHANGED <<conf, file, site, stamped>>
    BY <1>2, <1>6, FilesAlone DEF TestAbsent, Same, Busy
  <2>2. Fetcher(t) \in Methods
    BY <1>1, <2>1, AsksFile DEF Shell
  <2>3. PICK l : /\ Goto(t, l)
                 /\ \/ l \in {"shallow", "clone", "rmold"} /\ Fetcher(t) \in Working
                    \/ l = "open" /\ Fetcher(t) \in {"wget"} \cup Direct
    BY <1>6, <2>2 DEF TestAbsent, Methods, Working, Direct
  <2>4. l \in Labels /\ l \notin {"idle", "test", "mv", "rm", "write", "packing", "rmcopy"}
    BY <2>3 DEF Labels, Cloning
  <2>5. l \in {"open", "write"} => Fetcher(t) \in {"wget"} \cup Direct
    BY <2>3
  <2>6. l \in Cloning => Fetcher(t) \in Working
    BY <2>3 DEF Cloning
  <2>. QED  BY <2>1, <2>3, <2>4, <2>5, <2>6, GotoKept
<1>7. CASE NotOffered(t)
  <2>1. Busy(t) /\ Alters(t)
    BY <1>2, <1>7, FilesAlone DEF NotOffered, Same, Busy
  <2>. QED  BY <1>7, <2>1, GiveUpKept DEF NotOffered, Same
<1>8. CASE RenameFails(t)
  <2>1. Busy(t) /\ Alters(t) /\ Fetcher(t) = "wget" /\ "rm" \in Labels /\ "rm" \notin Cloning
    BY <1>1, <1>2, <1>8, FilesAlone DEF RenameFails, Same, Busy, Shell, Labels, Cloning
  <2>. QED  BY <1>8, <2>1, GotoKept DEF RenameFails, Same
\* From one step of the work on a copy to the next.
<1>9. ASSUME Busy(t), Alters(t), pc[t] \in Cloning, NEW l \in Cloning \ {"packing", "rmcopy"},
             Goto(t, l), UNCHANGED <<conf, file, site, stamped>>
      PROVE  DlInv'
  <2>1. Fetcher(t) \in Working /\ l \in Labels
    BY <1>1, <1>9 DEF Shell, Labels
  <2>2. l \notin {"idle", "test", "mv", "rm", "open", "write", "packing", "rmcopy"}
    BY DEF Cloning
  <2>. QED  BY <1>9, <2>1, <2>2, GotoKept
<1>10. CASE RemoveOld(t)
  <2>1. Busy(t) /\ Alters(t) /\ pc[t] \in Cloning /\ "clone" \in Cloning \ {"packing", "rmcopy"}
    BY <1>2, <1>10, FilesAlone DEF RemoveOld, Same, Busy, Cloning
  <2>. QED  BY <1>9, <1>10, <2>1 DEF RemoveOld, Same
<1>11. CASE BeginClone(t)
  <2>1. copy' \in [there : BOOLEAN, by : Trees \cup {None}, full : BOOLEAN]
    BY <1>2, <1>11 DEF BeginClone
  <2>2. Busy(t) /\ Alters(t) /\ pc[t] \in Cloning
    BY <1>2, <1>11, <2>1, FilesAlone DEF BeginClone, Same, Busy, Cloning
  <2>3. PICK l \in {"shallowing", "cloning"} : Goto(t, l)
    BY <1>11 DEF BeginClone
  <2>4. l \in Cloning \ {"packing", "rmcopy"}
    BY <2>3 DEF Cloning
  <2>. QED  BY <1>9, <1>11, <2>2, <2>3, <2>4 DEF BeginClone, Same
\* A clone that failed is tried again or given up.
<1>12. ASSUME Busy(t), Alters(t), pc[t] \in Cloning, CloneFailed(t), UNCHANGED <<conf, stamped>>
       PROVE  DlInv'
  <2>1. CASE pc[t] \in {"shallow", "shallowing"}
    <3>1. "clone" \in Cloning \ {"packing", "rmcopy"}
      BY DEF Cloning
    <3>. QED  BY <1>9, <1>12, <2>1, <3>1 DEF CloneFailed
  <2>2. CASE pc[t] \notin {"shallow", "shallowing"}
    BY <1>12, <2>2, GiveUpKept DEF CloneFailed
  <2>. QED  BY <2>1, <2>2
<1>13. CASE CloneRefused(t)
  <2>1. Busy(t) /\ Alters(t) /\ pc[t] \in Cloning
    BY <1>2, <1>13, FilesAlone DEF CloneRefused, Same, Busy, Cloning
  <2>. QED  BY <1>12, <1>13, <2>1 DEF CloneRefused, Same
<1>14. CASE EndClone(t)
  <2>1. copy' \in [there : BOOLEAN, by : Trees \cup {None}, full : BOOLEAN]
    BY <1>2, <1>14 DEF EndClone
  <2>2. Busy(t) /\ Alters(t) /\ pc[t] \in Cloning /\ "pack" \in Cloning \ {"packing", "rmcopy"}
    BY <1>2, <1>14, <2>1, FilesAlone DEF EndClone, Same, Busy, Cloning
  <2>. QED  BY <1>9, <1>14, <2>2 DEF EndClone, Same
<1>15. CASE CloneFails(t)
  <2>1. copy' \in [there : BOOLEAN, by : Trees \cup {None}, full : BOOLEAN] /\ fails' \in 0 .. MaxFails
    BY <1>2, <1>15 DEF CloneFails
  <2>2. Busy(t) /\ Alters(t) /\ pc[t] \in Cloning
    BY <1>2, <1>15, <2>1, FilesAlone DEF CloneFails, Same, Busy, Cloning
  <2>. QED  BY <1>12, <1>15, <2>2 DEF CloneFails, Same
<1>16. CASE RemoveCopy(t)
  <2>1. Busy(t) /\ Alters(t)
    BY <1>2, <1>16, FilesAlone DEF RemoveCopy, Same, Busy
  <2>2. final'[Dest(t)] # None
    BY <1>1, <1>16 DEF RemoveCopy, files, Exists
  <2>. QED  BY <1>16, <2>1, <2>2, GotKept DEF RemoveCopy, Same
<1>. QED
  BY <1>3, <1>4, <1>5, <1>6, <1>7, <1>8, <1>10, <1>11, <1>13, <1>14, <1>15, <1>16

(* Steps that write, rename or remove a file, and the end of a make.       *)
LEMMA WritesKept ==
  ASSUME DlInv, NEW t \in Trees,
         \/ OpenTmp(t) \/ OpenFinal(t) \/ Written(t) \/ WriteFails(t) \/ Rename(t) \/ RemoveTmp(t)
         \/ BeginPack(t) \/ EndPack(t) \/ PackFails(t) \/ Crash(t)
  PROVE  DlInv'
<1>1. TypeOK /\ Shell(t) /\ Exists(t)
  BY DEF DlInv
<1>2. /\ conf \in Configs /\ crashes \in 0 .. MaxCrashes /\ fails \in 0 .. MaxFails
      /\ MaxCrashes \in Nat /\ MaxFails \in Nat /\ Dest(t) \in Files
  BY <1>1, AsksFile, DlAssumption DEF TypeOK
<1>3. CASE OpenTmp(t)
  <2>. DEFINE i == Opened(tmp[Dest(t)])
  <2>1. i \in Inodes
    BY <1>1, <1>2, OpensInode
  <2>2. tmp' = [tmp EXCEPT ![Dest(t)] = i] /\ Truncate(t, i)
    BY <1>3 DEF OpenTmp
  <2>. HIDE DEF i
  <2>3. tmp' \in [Files -> Inodes \cup {None}]
    BY <1>1, <2>1, <2>2 DEF TypeOK
  <2>4. Alters(t) /\ fd'[t] \in Inodes
    BY <1>1, <1>3, <2>1, <2>2, <2>3, Truncates DEF OpenTmp, Same, TypeOK, Alters, Grows
  <2>5. Busy(t) /\ Fetcher(t) = "wget" /\ "write" \in Labels /\ "write" \notin Cloning /\ "wget" \notin Direct
    BY <1>3 DEF OpenTmp, Busy, Labels, Cloning, Direct
  <2>. QED  BY <1>3, <2>4, <2>5, GotoKept DEF OpenTmp, Same
\* A file that is opened under its final name.
<1>4. ASSUME LET i == Opened(final[Dest(t)])
             IN  final' = [final EXCEPT ![Dest(t)] = i] /\ Truncate(t, i),
             UNCHANGED <<tmp, copy, crashes, fails>>
      PROVE  Alters(t) /\ fd'[t] \in Inodes /\ final'[Dest(t)] # None
  <2>. DEFINE i == Opened(final[Dest(t)])
  <2>1. i \in Inodes /\ i # None
    BY <1>1, <1>2, OpensInode
  <2>2. final' = [final EXCEPT ![Dest(t)] = i] /\ Truncate(t, i)
    BY <1>4
  <2>. HIDE DEF i
  <2>3. /\ final' \in [Files -> Inodes \cup {None}] /\ final'[Dest(t)] = i
        /\ \A f \in Files : final[f] # None => final'[f] # None
    BY <1>1, <1>2, <2>1, <2>2 DEF TypeOK
  <2>. QED
    BY <1>1, <1>4, <2>1, <2>2, <2>3, Truncates DEF TypeOK, Alters, Grows
<1>5. CASE OpenFinal(t)
  <2>1. Busy(t) /\ Fetcher(t) \in Direct /\ "write" \in Labels /\ "write" \notin Cloning
    BY <1>5 DEF OpenFinal, Busy, Labels, Cloning
  <2>2. Alters(t) /\ fd'[t] \in Inodes /\ final'[Dest(t)] # None
    BY <1>4, <1>5 DEF OpenFinal, Same
  <2>. QED  BY <1>5, <2>1, <2>2, GotoKept DEF OpenFinal, Same
<1>6. CASE BeginPack(t)
  <2>1. /\ Busy(t) /\ Fetcher(t) \in Working /\ "packing" \in Labels
        /\ "packing" \notin {"idle", "test", "mv", "rm", "open", "write"}
    BY <1>1, <1>6 DEF BeginPack, Busy, Shell, Labels, Cloning
  <2>2. Alters(t) /\ fd'[t] \in Inodes /\ final'[Dest(t)] # None
    BY <1>4, <1>6 DEF BeginPack, Same
  <2>. QED  BY <1>6, <2>1, <2>2, GotoKept DEF BeginPack, Same
<1>7. CASE Written(t)
  <2>1. Busy(t) /\ fd[t] \in Inodes /\ Fetcher(t) \in {"wget"} \cup Direct /\ Complete(t)
    BY <1>1, <1>7 DEF Written, Busy, Shell
  <2>2. Alters(t) /\ UNCHANGED final
    BY <1>1, <1>7, <2>1, Completes DEF Written, Same, TypeOK, Alters, Grows
  <2>3. CASE Fetcher(t) = "wget"
    <3>1. "mv" \in Labels /\ "mv" \notin Cloning
      BY DEF Labels, Cloning
    <3>. QED  BY <1>7, <2>1, <2>2, <2>3, <3>1, GotoKept DEF Written, Same
  <2>4. CASE Fetcher(t) # "wget"
    <3>1. final'[Dest(t)] # None
      BY <1>1, <1>7, <2>1, <2>2, <2>4 DEF Written, Exists, InPlace
    <3>. QED  BY <1>7, <2>1, <2>2, <2>4, <3>1, GotKept DEF Written, Same
  <2>. QED  BY <2>3, <2>4
<1>8. CASE WriteFails(t)
  <2>1. fails' \in 0 .. MaxFails
    BY <1>2, <1>8 DEF WriteFails, MayFail
  <2>2. Busy(t) /\ Alters(t)
    BY <1>2, <1>8, <2>1, Closes DEF WriteFails, Same, Busy
  <2>3. CASE Fetcher(t) = "wget"
    <3>1. "rm" \in Labels /\ "rm" \notin Cloning
      BY DEF Labels, Cloning
    <3>. QED  BY <1>8, <2>2, <2>3, <3>1, GotoKept DEF WriteFails, Same
  <2>4. CASE Fetcher(t) # "wget"
    BY <1>8, <2>2, <2>4, GiveUpKept DEF WriteFails, Same
  <2>. QED  BY <2>3, <2>4
<1>9. CASE Rename(t)
  <2>1. /\ tmp[Dest(t)] \in Inodes /\ tmp[Dest(t)] # None
        /\ final' = [final EXCEPT ![Dest(t)] = tmp[Dest(t)]]
        /\ tmp' = [tmp EXCEPT ![Dest(t)] = None]
    BY <1>1, <1>2, <1>9 DEF Rename, TypeOK
  <2>2. /\ final' \in [Files -> Inodes \cup {None}] /\ final'[Dest(t)] # None
        /\ \A f \in Files : final[f] # None => final'[f] # None
        /\ tmp' \in [Files -> Inodes \cup {None}]
    BY <1>1, <1>2, <2>1 DEF TypeOK
  <2>3. Busy(t) /\ Alters(t)
    BY <1>1, <1>9, <2>2 DEF Rename, Same, Busy, TypeOK, Alters, Grows
  <2>. QED  BY <1>9, <2>2, <2>3, GotKept DEF Rename, Same
<1>10. CASE RemoveTmp(t)
  <2>1. tmp' \in [Files -> Inodes \cup {None}]
    BY <1>1, <1>10 DEF RemoveTmp, TypeOK
  <2>2. Busy(t) /\ Alters(t)
    BY <1>1, <1>10, <2>1 DEF RemoveTmp, Same, Busy, TypeOK, Alters, Grows
  <2>. QED  BY <1>10, <2>2, GiveUpKept DEF RemoveTmp, Same
<1>11. CASE EndPack(t)
  <2>1. Busy(t) /\ fd[t] \in Inodes /\ Fetcher(t) \in Working /\ Complete(t)
    BY <1>1, <1>11 DEF EndPack, Busy, Shell, Cloning
  <2>2. Alters(t) /\ UNCHANGED final
    BY <1>1, <1>11, <2>1, Completes DEF EndPack, Same, TypeOK, Alters, Grows
  <2>3. final'[Dest(t)] # None
    BY <1>1, <1>11, <2>2 DEF EndPack, Exists, InPlace
  <2>4. /\ "rmcopy" \in Labels
        /\ "rmcopy" \notin {"idle", "test", "mv", "rm", "open", "write", "packing"}
    BY DEF Labels, Cloning
  <2>. QED  BY <1>11, <2>1, <2>2, <2>3, <2>4, GotoKept DEF EndPack, Same
<1>12. CASE PackFails(t)
  <2>1. fails' \in 0 .. MaxFails
    BY <1>2, <1>12 DEF PackFails
  <2>2. Busy(t) /\ Alters(t)
    BY <1>2, <1>12, <2>1, Closes DEF PackFails, Same, Busy
  <2>. QED  BY <1>12, <2>2, GiveUpKept DEF PackFails, Same
<1>13. CASE Crash(t)
  <2>1. crashes' \in 0 .. MaxCrashes
    BY <1>2, <1>13 DEF Crash
  <2>2. Alters(t)
    BY <1>2, <1>13, <2>1, Closes DEF Crash
  <2>3. file[t] \in 1 .. Len(conf.files) /\ "idle" \in Labels /\ stamped[t] = FALSE
    BY <1>1, <1>13 DEF TypeOK, Labels, Shell, Crash
  <2>4. Goes(t, "idle", "none", file[t], FALSE)
    BY <1>1, <1>13, <2>3 DEF Crash, Goes, Goto, TypeOK
  <2>5. pc'[t] = "idle" /\ stamped'[t] = FALSE
    BY <1>1, <2>4 DEF Goes, TypeOK
  <2>6. Shell(t)' /\ Exists(t)' /\ Present(t)'
    BY <2>5 DEF Shell, Exists, InPlace, Present, Busy, Cloning
  <2>. QED  BY <2>2, <2>3, <2>4, <2>6, OthersKept
<1>. QED
  BY <1>3, <1>5, <1>6, <1>7, <1>8, <1>9, <1>10, <1>11, <1>12, <1>13

(* Every step of every tree keeps DlInv.                                   *)
LEMMA DlStep == DlInv /\ [Next]_vars => DlInv'
<1>1. CASE UNCHANGED vars
  BY <1>1 DEF vars, files, DlInv, TypeOK, Shell, Exists, InPlace, Present, OwnFiles, Busy, MayAsk,
              Allowed, Fetcher, Dest, Wanted
<1>2. ASSUME DlInv, NEW t \in conf.trees, Step(t) \/ Dirclean(t) \/ Crash(t) PROVE DlInv'
  <2>1. t \in Trees
    BY <1>2, ConfFacts DEF DlInv, TypeOK
  <2>. QED  BY <1>2, <2>1, LooksKept, WritesKept DEF Step
<1>. QED  BY <1>1, <1>2 DEF Next

(* DlInv holds in every state.                                             *)
LEMMA DlInvariant == Spec => []DlInv
<1>. QED  BY DlInitial, DlStep, PTL DEF Spec

-----------------------------------------------------------------------------
(* A tree that is alone.                                                   *)

(* Where every site is asked with wget, wget runs.                         *)
LEMMA WgetRuns ==
  ASSUME DlInv, NEW t \in Trees, Busy(t), AllWget
  PROVE  Fetcher(t) = "wget"
<1>1. conf \in Configs /\ MayAsk(site[t])
  BY DEF DlInv, TypeOK, Shell
<1>2. /\ site[t] = "primary" \/ site[t] = "package" \/ site[t] = "backup"
      /\ site[t] = "primary" => conf.primary # "none"
  BY <1>1 DEF MayAsk, Allowed, Sites
<1>3. conf.primary \in {"none", "wget", "scp"}
  BY <1>1, ConfFacts
<1>. QED  BY <1>2, <1>3 DEF AllWget, Fetcher

(* What carries a name has an inode, and the file at hand a name.          *)
LEMMA InodesOf ==
  ASSUME DlInv, NEW t \in Trees
  PROVE  /\ \A f \in Files : final[f] # None => final[f] \in Inodes
         /\ \A f \in Files : tmp[f] # None => tmp[f] \in Inodes
         /\ Dest(t) \in Files /\ None \notin Inodes
         /\ crashes \in Nat /\ fails \in Nat
<1>1. Dest(t) \in Files
  BY AsksFile DEF DlInv
<1>2. None \notin Inodes
  <2>1. 2 * Cardinality(Files) + Cardinality(Trees) \in Nat
    BY DlAssumption, FS_CardinalityType
  <2>. QED  BY <2>1 DEF Inodes, None
<1>3. crashes \in Nat /\ fails \in Nat
  BY DlAssumption DEF DlInv, TypeOK
<1>. QED  BY <1>1, <1>2, <1>3 DEF DlInv, TypeOK

(* What one tree finds, told of the only tree.                             *)
Lone(t) ==
  /\ conf.trees = {t} /\ Distinct /\ Undone(t) /\ Whole(t)
  /\ \A u \in Trees : u # t => pc[u] = "idle" /\ fd[u] = None

(* Trees that are not built go on doing nothing.                           *)
LEMMA LoneKept ==
  ASSUME NEW t \in Trees, Lone(t), conf' = conf, Distinct', Undone(t)', Whole(t)',
         \A u \in Trees : u # t => pc'[u] = pc[u] /\ fd'[u] = fd[u]
  PROVE  Lone(t)'
  BY DEF Lone

(* When a shell comes to rest nothing is under way.                        *)
LEMMA AtRest ==
  ASSUME NEW t, pc'[t] \in {"idle", "test"}
  PROVE  Undone(t)' /\ ~InPlace(t)'
  BY DEF Undone, ByWget, InPlace, Cloning

(* A shell that has its file or gives it up comes to rest.                 *)
LEMMA ComesToRest ==
  ASSUME DlInv, NEW t \in Trees, Got(t) \/ GiveUp(t)
  PROVE  pc'[t] \in {"idle", "test"} /\ \A u \in Trees : u # t => pc'[u] = pc[u]
  BY DEF DlInv, TypeOK, Got, GiveUp, Goto

(* No other shell moves with one that goes on.                             *)
LEMMA GoesTo ==
  ASSUME DlInv, NEW t \in Trees, NEW l, Goto(t, l)
  PROVE  pc'[t] = l /\ \A u \in Trees : u # t => pc'[u] = pc[u]
  BY DEF DlInv, TypeOK, Goto

(* Files that are left alone are as good as they were.                     *)
LEMMA WholeKept ==
  ASSUME DlInv, NEW t \in Trees, Lone(t), conf' = conf, UNCHANGED <<final, ino>>,
         crashes' = 0 /\ fails' = 0 => crashes = 0 /\ fails = 0 /\ ~InPlace(t)
  PROVE  Whole(t)'
<1>1. AllWget' = AllWget /\ Allowed' = Allowed
  BY DEF AllWget, Allowed
<1>. QED  BY <1>1 DEF Lone, Whole

(* Steps that end in rest and leave the files alone.                       *)
LEMMA RestsLone ==
  ASSUME DlInv, NEW t \in Trees, Lone(t), conf' = conf, UNCHANGED <<final, tmp, ino>>,
         pc'[t] \in {"idle", "test"},
         \A u \in Trees : u # t => pc'[u] = pc[u] /\ fd'[u] = fd[u],
         crashes' = 0 /\ fails' = 0 => crashes = 0 /\ fails = 0 /\ ~InPlace(t)
  PROVE  Lone(t)'
<1>1. Distinct'
  BY DEF Lone, Distinct
<1>. QED  BY <1>1, AtRest, WholeKept, LoneKept

(* Steps that only look at files.                                          *)
LEMMA LooksLone ==
  ASSUME DlInv, NEW t \in Trees, Lone(t),
         \/ Start(t) \/ Dirclean(t) \/ TestFound(t) \/ TestAbsent(t) \/ NotOffered(t) \/ RenameFails(t)
         \/ RemoveOld(t) \/ BeginClone(t) \/ CloneRefused(t) \/ EndClone(t) \/ CloneFails(t)
         \/ RemoveCopy(t)
  PROVE  Lone(t)'
<1>1. Undone(t) /\ Whole(t) /\ Distinct /\ fails \in Nat /\ Shell(t) /\ pc \in [Trees -> Labels]
  BY InodesOf DEF Lone, DlInv, TypeOK, Labels, Cloning
<1>2. CASE Start(t) \/ Dirclean(t)
  <2>1. /\ pc'[t] \in {"idle", "test"} /\ \A u \in Trees : u # t => pc'[u] = pc[u] /\ fd'[u] = fd[u]
        /\ UNCHANGED <<conf, final, tmp, ino, crashes, fails>> /\ ~InPlace(t)
    BY <1>1, <1>2, GoesTo DEF Start, Dirclean, files, InPlace
  <2>. QED  BY <2>1, RestsLone
<1>3. CASE TestFound(t) \/ NotOffered(t) \/ RemoveCopy(t)
  <2>1. /\ pc'[t] \in {"idle", "test"} /\ \A u \in Trees : u # t => pc'[u] = pc[u] /\ fd'[u] = fd[u]
        /\ UNCHANGED <<conf, final, tmp, ino, crashes, fails>> /\ ~InPlace(t)
    BY <1>3, ComesToRest DEF TestFound, NotOffered, RemoveCopy, files, Same, InPlace
  <2>. QED  BY <2>1, RestsLone
\* From one step to the next where the final name does not exist.
<1>4. ASSUME NEW l, Goto(t, l), l \in {"open"} \cup (Cloning \ {"packing", "rmcopy"}),
             UNCHANGED <<conf, files, file, site, fd, crashes>>, ~InPlace(t),
             fails' = 0 => fails = 0, final[Dest(t)] = None, l = "pack" => copy'.full
      PROVE  Lone(t)'
  <2>1. pc'[t] = l /\ \A u \in Trees : u # t => pc'[u] = pc[u] /\ fd'[u] = fd[u]
    BY <1>4, GoesTo
  <2>2. Dest(t)' = Dest(t) /\ final' = final /\ tmp' = tmp /\ ino' = ino
    BY <1>4, SameAsked DEF files
  <2>3. Undone(t)'
    BY <1>4, <2>1, <2>2 DEF Undone, ByWget, InPlace, Cloning
  <2>4. Distinct'
    BY <1>1, <2>2 DEF Distinct
  <2>5. Whole(t)'
    BY <1>4, <2>2, WholeKept
  <2>. QED  BY <1>4, <2>1, <2>3, <2>4, <2>5, LoneKept
<1>5. CASE TestAbsent(t)
  <2>1. PICK l : Goto(t, l) /\ l \in {"shallow", "clone", "rmold", "open"}
    BY <1>5 DEF TestAbsent
  <2>2. l \in {"open"} \cup (Cloning \ {"packing", "rmcopy"}) /\ l # "pack"
    BY <2>1 DEF Cloning
  <2>. QED  BY <1>4, <1>5, <2>1, <2>2 DEF TestAbsent, Same, InPlace
<1>6. CASE RenameFails(t)
  BY <1>1, <1>6 DEF RenameFails, Undone
<1>7. CASE RemoveOld(t)
  <2>1. final[Dest(t)] = None /\ "clone" \in Cloning \ {"packing", "rmcopy"}
    BY <1>1, <1>7 DEF RemoveOld, Undone, Cloning
  <2>. QED  BY <1>4, <1>7, <2>1 DEF RemoveOld, Same, InPlace
<1>8. CASE BeginClone(t)
  <2>1. PICK l \in {"shallowing", "cloning"} : Goto(t, l)
    BY <1>8 DEF BeginClone
  <2>2. final[Dest(t)] = None /\ l \in Cloning \ {"packing", "rmcopy"} /\ l # "pack"
    BY <1>1, <1>8, <2>1 DEF BeginClone, Undone, Cloning
  <2>. QED  BY <1>4, <1>8, <2>1, <2>2 DEF BeginClone, Same, InPlace
<1>9. CASE EndClone(t)
  <2>1. final[Dest(t)] = None /\ "pack" \in Cloning \ {"packing", "rmcopy"}
    BY <1>1, <1>9 DEF EndClone, Undone, Cloning
  <2>2. copy'.full
    BY <1>9 DEF EndClone, DlInv, TypeOK
  <2>. QED  BY <1>4, <1>9, <2>1, <2>2 DEF EndClone, Same, InPlace
<1>10. CASE CloneRefused(t) \/ CloneFails(t)
  <2>1. /\ pc[t] \in {"shallow", "shallowing", "clone", "cloning"} /\ CloneFailed(t)
        /\ UNCHANGED <<conf, files, fd, crashes>>
    BY <1>10 DEF CloneRefused, CloneFails, Same
  <2>2. fails' = 0 => fails = 0
    BY <1>1, <1>10 DEF CloneRefused, CloneFails
  <2>3. final[Dest(t)] = None /\ ~InPlace(t)
    BY <1>1, <2>1 DEF Undone, Cloning, InPlace
  <2>4. CASE pc[t] \in {"shallow", "shallowing"}
    <3>1. "clone" \in Cloning \ {"packing", "rmcopy"} /\ "clone" # "pack"
      BY DEF Cloning
    <3>. QED  BY <1>4, <2>1, <2>2, <2>3, <2>4, <3>1 DEF CloneFailed
  <2>5. CASE pc[t] \notin {"shallow", "shallowing"}
    <3>1. pc'[t] \in {"idle", "test"} /\ \A u \in Trees : u # t => pc'[u] = pc[u]
      BY <2>1, <2>5, ComesToRest DEF CloneFailed
    <3>. QED  BY <2>1, <2>2, <2>3, <3>1, RestsLone DEF files
  <2>. QED  BY <2>4, <2>5
<1>. QED
  BY <1>2, <1>3, <1>5, <1>6, <1>7, <1>8, <1>9, <1>10

(* A file that is opened under its final name has a new inode: the name    *)
(* did not exist a moment before.                                          *)
LEMMA OpensNew ==
  ASSUME DlInv, NEW t \in Trees, Lone(t), final[Dest(t)] = None, NEW i, i = Opened(final[Dest(t)]),
         final' = [final EXCEPT ![Dest(t)] = i], Truncate(t, i), tmp' = tmp
  PROVE  /\ i \in Inodes /\ i # None /\ final'[Dest(t)] = i /\ fd'[t] = i
         /\ ino'[i].by = t /\ ino'[i].site = site[t]
         /\ Distinct' /\ \A u \in Trees : u # t => fd'[u] = fd[u]
         /\ \A f \in Files : f # Dest(t) => final'[f] = final[f]
         /\ \A f \in Files : final[f] # None => ino'[final[f]] = ino[final[f]]
<1>1. Dest(t) \in Files /\ \A f \in Files : final[f] # None => final[f] \in Inodes
  BY InodesOf
<1>2. i \in Inodes /\ i # None /\ Free(i)
  BY <1>1, OpensInode DEF DlInv
<1>3. \A f \in Files : i # final[f] /\ i # tmp[f]
  BY <1>2 DEF Free
<1>4. /\ final'[Dest(t)] = i /\ \A f \in Files : f # Dest(t) => final'[f] = final[f]
  BY <1>1 DEF DlInv, TypeOK
<1>5. /\ fd'[t] = i /\ ino'[i].by = t /\ ino'[i].site = site[t]
      /\ \A u \in Trees : u # t => fd'[u] = fd[u]
      /\ \A j \in Inodes : j # i => ino'[j] = ino[j]
  BY <1>2, Truncates
<1>6. Distinct'
  BY <1>1, <1>2, <1>3, <1>4 DEF Lone, Distinct
<1>7. \A f \in Files : final[f] # None => ino'[final[f]] = ino[final[f]]
  BY <1>1, <1>3, <1>5
<1>. QED  BY <1>2, <1>4, <1>5, <1>6, <1>7

(* The steps that write, rename or remove a file.                          *)
LEMMA WritesLone ==
  ASSUME DlInv, NEW t \in Trees, Lone(t),
         \/ OpenTmp(t) \/ OpenFinal(t) \/ Written(t) \/ WriteFails(t) \/ Rename(t) \/ RemoveTmp(t)
         \/ BeginPack(t) \/ EndPack(t) \/ PackFails(t) \/ Crash(t)
  PROVE  Lone(t)'
<1>1. /\ Undone(t) /\ Whole(t) /\ Distinct /\ Shell(t) /\ Exists(t) /\ TypeOK /\ fails \in Nat /\ crashes \in Nat
      /\ Dest(t) \in Files
      /\ \A f \in Files : final[f] # None => final[f] \in Inodes
      /\ \A f \in Files : tmp[f] # None => tmp[f] \in Inodes
  BY InodesOf DEF Lone, DlInv
<1>2. conf' = conf => AllWget' = AllWget /\ Allowed' = Allowed
  BY DEF AllWget, Allowed
<1>3. CASE OpenTmp(t)
  <2>. DEFINE i == Opened(tmp[Dest(t)])
  <2>1. /\ final[Dest(t)] = None /\ Fetcher(t) = "wget" /\ "wget" \notin Direct
        /\ UNCHANGED <<conf, final, file, site, fails, crashes>> /\ Truncate(t, i)
        /\ tmp' = [tmp EXCEPT ![Dest(t)] = i] /\ Goto(t, "write") /\ ~InPlace(t)
    BY <1>1, <1>3 DEF OpenTmp, Undone, Same, InPlace, Direct
  <2>2. i \in Inodes /\ i # None /\ (tmp[Dest(t)] # None => i = tmp[Dest(t)])
        /\ (tmp[Dest(t)] = None => Free(i))
    BY <1>1, OpensInode
  <2>. HIDE DEF i
  <2>3. \A f \in Files : i # final[f] /\ (f # Dest(t) => i # tmp[f])
    <3>1. CASE tmp[Dest(t)] # None
      BY <1>1, <2>2, <3>1 DEF Distinct
    <3>2. CASE tmp[Dest(t)] = None
      BY <2>2, <3>2 DEF Free
    <3>. QED  BY <3>1, <3>2
  <2>4. /\ fd'[t] = i /\ ino'[i].by = t /\ ino'[i].site = site[t]
        /\ \A u \in Trees : u # t => fd'[u] = fd[u]
        /\ \A j \in Inodes : j # i => ino'[j] = ino[j]
    BY <2>1, <2>2, Truncates
  <2>5. tmp'[Dest(t)] = i /\ \A f \in Files : f # Dest(t) => tmp'[f] = tmp[f]
    BY <1>1, <2>1 DEF TypeOK
  <2>6. Distinct'
    BY <1>1, <2>1, <2>2, <2>3, <2>5 DEF Distinct
  <2>7. pc'[t] = "write" /\ \A u \in Trees : u # t => pc'[u] = pc[u]
    BY <2>1, GoesTo
  <2>8. Dest(t)' = Dest(t) /\ Fetcher(t)' = Fetcher(t) /\ site'[t] = site[t]
    BY <2>1, SameAsked
  <2>9. Undone(t)'
    BY <2>1, <2>4, <2>5, <2>7, <2>8 DEF Undone, ByWget, InPlace, Cloning
  <2>10. \A f \in Files : final[f] # None => ino'[final[f]] = ino[final[f]]
    BY <1>1, <2>3, <2>4
  <2>11. Whole(t)'
    BY <1>1, <1>2, <2>1, <2>10 DEF Whole
  <2>. QED  BY <2>1, <2>4, <2>6, <2>7, <2>9, <2>11, LoneKept
<1>4. CASE OpenFinal(t) \/ BeginPack(t)
  <2>. DEFINE i == Opened(final[Dest(t)])
  <2>1. /\ final[Dest(t)] = None /\ UNCHANGED <<conf, tmp, copy, file, site, fails, crashes>>
        /\ Truncate(t, i) /\ final' = [final EXCEPT ![Dest(t)] = i] /\ Busy(t) /\ ~InPlace(t)
    BY <1>1, <1>4 DEF OpenFinal, BeginPack, Undone, Same, InPlace, Busy, Cloning
  <2>2. \/ Goto(t, "write") /\ Fetcher(t) \in Direct /\ Offered(t)
        \/ Goto(t, "packing") /\ Fetcher(t) \in Working /\ copy.full /\ pc[t] = "pack"
    BY <1>1, <1>4 DEF OpenFinal, BeginPack, Undone, Shell, Cloning
  <2>. HIDE DEF i
  <2>3. /\ i \in Inodes /\ i # None /\ final'[Dest(t)] = i /\ fd'[t] = i
        /\ ino'[i].by = t /\ ino'[i].site = site[t]
        /\ Distinct' /\ \A u \in Trees : u # t => fd'[u] = fd[u]
        /\ \A f \in Files : f # Dest(t) => final'[f] = final[f]
        /\ \A f \in Files : final[f] # None => ino'[final[f]] = ino[final[f]]
    BY <2>1, OpensNew DEF i
  <2>4. /\ \/ pc'[t] = "write" /\ Fetcher(t) \in Direct /\ Offered(t)
           \/ pc'[t] = "packing" /\ copy.full /\ Fetcher(t) \in Working
        /\ \A u \in Trees : u # t => pc'[u] = pc[u]
    <3>1. CASE Goto(t, "write") /\ Fetcher(t) \in Direct /\ Offered(t)
      BY <3>1, GoesTo
    <3>2. CASE Goto(t, "packing") /\ Fetcher(t) \in Working /\ copy.full
      BY <3>2, GoesTo
    <3>. QED  BY <2>2, <3>1, <3>2
  <2>5. /\ Dest(t)' = Dest(t) /\ Fetcher(t)' = Fetcher(t) /\ Offered(t)' = Offered(t)
        /\ site'[t] = site[t] /\ copy' = copy
    BY <2>1, SameAsked
  <2>6. Fetcher(t) # "wget"
    BY <2>4 DEF Direct, Working
  <2>7. Undone(t)'
    BY <2>3, <2>4, <2>5, <2>6 DEF Undone, ByWget, InPlace, Cloning
  <2>8. ~AllWget
    BY <2>1, <2>6, WgetRuns
  <2>9. InPlace(t)'
    BY <2>4, <2>5 DEF InPlace
  <2>10. Whole(t)'
    BY <1>1, <1>2, <2>1, <2>3, <2>5, <2>8, <2>9 DEF Whole
  <2>. QED  BY <2>1, <2>3, <2>4, <2>7, <2>10, LoneKept
<1>5. CASE Written(t) \/ EndPack(t)
  <2>1. /\ Busy(t) /\ fd[t] \in Inodes /\ Complete(t) /\ ino[fd[t]].by = t
        /\ UNCHANGED <<conf, final, tmp, copy, fails, crashes>>
    BY <1>1, <1>5 DEF Written, EndPack, Busy, Shell, Undone, Same
  <2>2. /\ \A u \in Trees : u # t => fd'[u] = fd[u]
        /\ \A j \in Inodes : ino'[j].site = ino[j].site
        /\ \A j \in Inodes : j # fd[t] \/ ino[j].full => ino'[j] = ino[j]
        /\ ino'[fd[t]].full
    BY <2>1, Completes
  <2>3. Distinct'
    BY <1>1, <2>1 DEF Distinct
  <2>4. \A f \in Files : final[f] # None /\ ino[final[f]].full => ino'[final[f]] = ino[final[f]]
    BY <1>1, <2>2
  <2>5. CASE Written(t) /\ Fetcher(t) = "wget"
    <3>1. /\ Goto(t, "mv") /\ UNCHANGED <<file, site>> /\ final[Dest(t)] = None /\ ~InPlace(t)
          /\ fd[t] = tmp[Dest(t)] /\ ino[fd[t]].site = site[t]
      BY <1>1, <2>5 DEF Written, Undone, ByWget, InPlace, Direct
    <3>2. pc'[t] = "mv" /\ \A u \in Trees : u # t => pc'[u] = pc[u]
      BY <3>1, GoesTo
    <3>3. Dest(t)' = Dest(t) /\ Fetcher(t)' = Fetcher(t) /\ site'[t] = site[t]
      BY <2>1, <3>1, SameAsked
    <3>4. Undone(t)'
      <4>1. tmp'[Dest(t)] = fd[t] /\ fd[t] # None /\ ino'[fd[t]].site = site[t]
        BY <2>1, <2>2, <3>1, InodesOf
      <4>. QED  BY <2>1, <2>2, <3>1, <3>2, <3>3, <4>1 DEF Undone, ByWget, InPlace, Cloning
    <3>5. Whole(t)'
      BY <1>1, <1>2, <2>1, <2>4, <3>1 DEF Whole
    <3>. QED  BY <2>1, <2>2, <2>3, <3>2, <3>4, <3>5, LoneKept
  <2>6. CASE ~(Written(t) /\ Fetcher(t) = "wget")
    <3>1. InPlace(t) /\ Fetcher(t) # "wget"
      BY <1>1, <1>5, <2>6 DEF Written, EndPack, InPlace, Shell, Cloning, Working
    <3>2. fd[t] = final[Dest(t)] /\ ~AllWget
      BY <1>1, <2>1, <3>1, WgetRuns DEF Undone
    <3>3. Whole(t)'
      <4>1. ASSUME crashes = 0, fails = 0, NEW f \in Files, final[f] # None PROVE ino'[final[f]].full
        <5>1. CASE f = Dest(t)
          BY <2>2, <3>2, <5>1
        <5>2. CASE f # Dest(t)
          BY <1>1, <2>4, <4>1, <5>2 DEF Whole
        <5>. QED  BY <5>1, <5>2
      <4>. QED  BY <1>2, <2>1, <3>2, <4>1 DEF Whole
    <3>4. Undone(t)' /\ \A u \in Trees : u # t => pc'[u] = pc[u]
      <4>1. CASE Written(t)
        <5>1. Got(t)
          BY <2>6, <4>1 DEF Written
        <5>. QED  BY <5>1, ComesToRest, AtRest
      <4>2. CASE EndPack(t)
        <5>1. pc'[t] = "rmcopy" /\ \A u \in Trees : u # t => pc'[u] = pc[u]
          BY <4>2, GoesTo DEF EndPack
        <5>. QED  BY <5>1 DEF Undone, ByWget, InPlace, Cloning
      <4>. QED  BY <1>5, <4>1, <4>2
    <3>. QED  BY <2>1, <2>2, <2>3, <3>3, <3>4, LoneKept
  <2>. QED  BY <2>5, <2>6
\* A writer that stops because of a failure.
<1>6. CASE WriteFails(t) \/ PackFails(t)
  <2>1. /\ UNCHANGED <<conf, final, tmp, ino, crashes>> /\ fails' \in Nat
        /\ fails' = 0 => fails = 0
        /\ \A u \in Trees : u # t => fd'[u] = fd[u]
    BY <1>1, <1>6 DEF WriteFails, PackFails, MayFail, Same, files, TypeOK
  <2>2. InPlace(t) => fails' # 0
    BY <1>1, <1>6 DEF WriteFails, PackFails, MayFail, InPlace, Undone
  <2>3. CASE WriteFails(t) /\ Fetcher(t) = "wget"
    <3>1. /\ Goto(t, "rm") /\ UNCHANGED <<file, site>> /\ final[Dest(t)] = None /\ ~InPlace(t)
      BY <1>1, <2>3 DEF WriteFails, Undone, ByWget, InPlace, Direct
    <3>2. pc'[t] = "rm" /\ \A u \in Trees : u # t => pc'[u] = pc[u]
      BY <3>1, GoesTo
    <3>3. Dest(t)' = Dest(t)
      BY <2>1, <3>1, SameAsked
    <3>4. Undone(t)'
      BY <2>1, <3>1, <3>2, <3>3 DEF Undone, ByWget, InPlace, Cloning
    <3>5. Distinct' /\ Whole(t)'
      BY <1>1, <2>1, <2>2, WholeKept DEF Distinct
    <3>. QED  BY <2>1, <3>2, <3>4, <3>5, LoneKept
  <2>4. CASE ~(WriteFails(t) /\ Fetcher(t) = "wget")
    <3>1. GiveUp(t)
      BY <1>6, <2>4 DEF WriteFails, PackFails
    <3>2. pc'[t] \in {"idle", "test"} /\ \A u \in Trees : u # t => pc'[u] = pc[u]
      BY <3>1, ComesToRest
    <3>. QED  BY <2>1, <2>2, <3>2, RestsLone
  <2>. QED  BY <2>3, <2>4
<1>7. CASE Crash(t)
  <2>1. /\ UNCHANGED <<conf, final, tmp, ino>> /\ crashes' # 0
        /\ \A u \in Trees : u # t => fd'[u] = fd[u]
    BY <1>1, <1>7 DEF Crash, files, TypeOK
  <2>2. pc'[t] \in {"idle", "test"} /\ \A u \in Trees : u # t => pc'[u] = pc[u]
    BY <1>7, GoesTo DEF Crash
  <2>. QED  BY <2>1, <2>2, RestsLone
<1>8. CASE Rename(t)
  <2>. DEFINE d == Dest(t)
              i == tmp[Dest(t)]
  <2>1. /\ final[d] = None /\ i # None /\ ino[i].full /\ ino[i].site = site[t] /\ MayAsk(site[t])
        /\ final' = [final EXCEPT ![d] = i] /\ tmp' = [tmp EXCEPT ![d] = None]
        /\ UNCHANGED <<conf, ino, fd, fails, crashes>> /\ Got(t)
    BY <1>1, <1>8 DEF Rename, Undone, Shell, Busy, Same
  <2>2. d \in Files
    BY <1>1
  <2>. HIDE DEF d, i
  <2>3. /\ final'[d] = i /\ \A f \in Files : f # d => final'[f] = final[f]
        /\ tmp'[d] = None /\ \A f \in Files : f # d => tmp'[f] = tmp[f]
    BY <1>1, <2>1, <2>2 DEF TypeOK
  <2>4. \A f \in Files : i # final[f] /\ (f # d => i # tmp[f])
    BY <1>1, <2>1, <2>2 DEF Distinct, i, d
  <2>5. Distinct'
    BY <1>1, <2>1, <2>2, <2>3, <2>4 DEF Distinct
  <2>6. Undone(t)' /\ \A u \in Trees : u # t => pc'[u] = pc[u]
    BY <2>1, ComesToRest, AtRest
  <2>7. Whole(t)'
    <3>1. ~InPlace(t) /\ site[t] \in Allowed
      BY <1>8, <2>1 DEF Rename, InPlace, MayAsk
    <3>2. ASSUME AllWget, NEW f \in Files, final'[f] # None
          PROVE  ino'[final'[f]].full /\ ino'[final'[f]].site \in Allowed
      <4>1. CASE f = d
        BY <2>1, <2>3, <3>1, <4>1
      <4>2. CASE f # d
        BY <1>1, <2>1, <2>3, <3>2, <4>2 DEF Whole
      <4>. QED  BY <4>1, <4>2
    <3>3. ASSUME crashes = 0, fails = 0, NEW f \in Files, final'[f] # None
          PROVE  ino'[final'[f]].full
      <4>1. CASE f = d
        BY <2>1, <2>3, <4>1
      <4>2. CASE f # d
        BY <1>1, <2>1, <2>3, <3>1, <3>3, <4>2 DEF Whole
      <4>. QED  BY <4>1, <4>2
    <3>. QED  BY <1>2, <2>1, <3>2, <3>3 DEF Whole
  <2>. QED  BY <2>1, <2>5, <2>6, <2>7, LoneKept
<1>9. CASE RemoveTmp(t)
  <2>1. /\ tmp' = [tmp EXCEPT ![Dest(t)] = None] /\ GiveUp(t) /\ ~InPlace(t)
        /\ UNCHANGED <<conf, final, ino, fd, fails, crashes>>
    BY <1>9 DEF RemoveTmp, InPlace, Same
  <2>2. tmp'[Dest(t)] = None /\ \A f \in Files : f # Dest(t) => tmp'[f] = tmp[f]
    BY <1>1, <2>1 DEF TypeOK
  <2>3. Distinct'
    BY <1>1, <2>1, <2>2 DEF Distinct
  <2>4. Undone(t)' /\ \A u \in Trees : u # t => pc'[u] = pc[u]
    BY <2>1, ComesToRest, AtRest
  <2>5. Whole(t)'
    BY <2>1, WholeKept
  <2>. QED  BY <2>1, <2>3, <2>4, <2>5, LoneKept
<1>. QED
  BY <1>3, <1>4, <1>5, <1>6, <1>7, <1>8, <1>9

-----------------------------------------------------------------------------
(* AloneInv is inductive, given DlInv.                                     *)

(* A tree that is alone has made nothing yet.                              *)
LEMMA LoneInitial ==
  ASSUME Init, NEW t \in Trees, conf.trees = {t}
  PROVE  Lone(t)
<1>1. \A u \in Trees : pc[u] = "idle" /\ fd[u] = None
  BY DEF Init
<1>2. \A f \in Files : final[f] = None /\ tmp[f] = None
  BY DEF Init
<1>3. Undone(t)
  BY <1>1 DEF Undone, ByWget, InPlace, Cloning
<1>. QED  BY <1>1, <1>2, <1>3 DEF Lone, Distinct, Whole

(* Every step of the only tree leaves it as it found it.                   *)
LEMMA LoneStep ==
  ASSUME DlInv, NEW t \in Trees, Lone(t), [Next]_vars
  PROVE  Lone(t)'
<1>1. CASE UNCHANGED vars
  BY <1>1 DEF vars, files, Lone, Distinct, Undone, Whole, AllWget, Allowed, ByWget, InPlace, Offered,
              Fetcher, Dest, Wanted
<1>2. CASE Next
  <2>1. Step(t) \/ Dirclean(t) \/ Crash(t)
    BY <1>2 DEF Next, Lone
  <2>. QED  BY <2>1, LooksLone, WritesLone DEF Step
<1>. QED  BY <1>1, <1>2

(* The configuration stays what it is.                                     *)
LEMMA SameConf == [Next]_vars => conf' = conf
  BY DEF Next, Step, Start, Dirclean, Crash, TestFound, TestAbsent, OpenTmp, OpenFinal, NotOffered,
         Written, WriteFails, Rename, RenameFails, RemoveTmp, RemoveOld, BeginClone, CloneRefused,
         EndClone, CloneFails, BeginPack, EndPack, PackFails, RemoveCopy, Same, vars

(* So AloneInv goes on to hold.                                            *)
LEMMA AloneInvariant == Spec => []AloneInv
<1>1. AloneInv <=> \A t \in Trees : conf.trees = {t} => Lone(t)
  BY DEF AloneInv, Lone
<1>2. Init => AloneInv
  BY <1>1, LoneInitial
<1>3. DlInv /\ AloneInv /\ [Next]_vars => AloneInv'
  <2>. SUFFICES ASSUME DlInv, AloneInv, [Next]_vars, NEW t \in Trees, (conf.trees = {t})'
                PROVE  Lone(t)'
    BY DEF AloneInv, Lone
  <2>1. conf.trees = {t}
    BY SameConf
  <2>. QED  BY <1>1, <2>1, LoneStep
<1>. QED  BY <1>2, <1>3, DlInvariant, PTL DEF Spec

(* Alone means that there is one tree.                                     *)
LEMMA OnlyTree ==
  ASSUME DlInv, AloneInv, Alone
  PROVE  \E t \in Trees : conf.trees = {t} /\ Lone(t)
<1>1. conf.trees \subseteq Trees /\ IsFiniteSet(conf.trees)
  BY ConfFacts, DlAssumption, FS_Subset DEF DlInv, TypeOK
<1>2. PICK t : conf.trees = {t}
  BY <1>1, FS_Singleton DEF Alone
<1>. QED  BY <1>1, <1>2 DEF AloneInv, Lone

(* Only trees that are built have a stamp.                                 *)
LEMMA OnlyBuilt == Spec => [](\A u \in Trees \ conf.trees : stamped[u] = FALSE)
<1>. DEFINE Unbuilt == \A u \in Trees \ conf.trees : stamped[u] = FALSE
<1>1. Init => Unbuilt
  BY DEF Init
<1>2. DlInv /\ Unbuilt /\ [Next]_vars => Unbuilt'
  <2>. SUFFICES ASSUME DlInv, Unbuilt, [Next]_vars, NEW u \in Trees \ conf.trees
                PROVE  stamped'[u] = stamped[u]
    BY SameConf
  <2>1. CASE UNCHANGED vars
    BY <2>1 DEF vars
  <2>2. ASSUME NEW t \in conf.trees, Step(t) \/ Dirclean(t) \/ Crash(t)
        PROVE  stamped'[u] = stamped[u]
    <3>1. stamped' = stamped \/ \E b \in BOOLEAN : stamped' = [stamped EXCEPT ![t] = b]
      BY <2>2 DEF Step, Start, Dirclean, Crash, TestFound, TestAbsent, OpenTmp, OpenFinal, NotOffered,
           Written, WriteFails, Rename, RenameFails, RemoveTmp, RemoveOld, BeginClone, CloneRefused,
           EndClone, CloneFails, BeginPack, EndPack, PackFails, RemoveCopy, Got
    <3>. QED  BY <3>1 DEF DlInv, TypeOK
  <2>. QED  BY <2>1, <2>2 DEF Next
<1>. QED  BY <1>1, <1>2, DlInvariant, PTL DEF Spec

-----------------------------------------------------------------------------
(* What a tree does to the files that are there.                           *)

(* A tree that is alone leaves a complete file as it is.                   *)
LEMMA StaysPut ==
  ASSUME DlInv, NEW t \in Trees, Lone(t), Step(t) \/ Dirclean(t) \/ Crash(t),
         NEW f \in Files, IsComplete(f)
  PROVE  final'[f] = final[f] /\ ino'[final[f]] = ino[final[f]]
<1>1. /\ Undone(t) /\ Distinct /\ Shell(t) /\ TypeOK /\ Dest(t) \in Files
      /\ final[f] # None /\ ino[final[f]].full /\ final[f] \in Inodes
  BY InodesOf DEF Lone, DlInv, IsComplete
<1>2. CASE OpenTmp(t)
  <2>. DEFINE i == Opened(tmp[Dest(t)])
  <2>1. Truncate(t, i) /\ final' = final
    BY <1>2 DEF OpenTmp
  <2>2. /\ i \in Inodes /\ (tmp[Dest(t)] # None => i = tmp[Dest(t)])
        /\ (tmp[Dest(t)] = None => Free(i))
    BY <1>1, OpensInode
  <2>. HIDE DEF i
  <2>3. i # final[f]
    BY <1>1, <2>2 DEF Distinct, Free
  <2>. QED  BY <1>1, <2>1, <2>2, <2>3, Truncates
<1>3. CASE OpenFinal(t) \/ BeginPack(t)
  <2>. DEFINE i == Opened(final[Dest(t)])
  <2>1. /\ final[Dest(t)] = None /\ tmp' = tmp
        /\ Truncate(t, i) /\ final' = [final EXCEPT ![Dest(t)] = i]
    BY <1>1, <1>3 DEF OpenFinal, BeginPack, Undone, Cloning
  <2>. HIDE DEF i
  <2>2. /\ \A g \in Files : g # Dest(t) => final'[g] = final[g]
        /\ \A g \in Files : final[g] # None => ino'[final[g]] = ino[final[g]]
    BY <2>1, OpensNew DEF i
  <2>. QED  BY <1>1, <2>1, <2>2
<1>4. CASE Written(t) \/ EndPack(t)
  <2>1. fd[t] \in Inodes /\ Complete(t) /\ final' = final
    BY <1>1, <1>4 DEF Written, EndPack, Shell
  <2>. QED  BY <1>1, <2>1, Completes
<1>5. CASE Rename(t)
  <2>1. final[Dest(t)] = None /\ final' = [final EXCEPT ![Dest(t)] = tmp[Dest(t)]] /\ ino' = ino
    BY <1>1, <1>5 DEF Rename, Undone
  <2>. QED  BY <1>1, <2>1 DEF TypeOK
<1>6. CASE ~(OpenTmp(t) \/ OpenFinal(t) \/ BeginPack(t) \/ Written(t) \/ EndPack(t) \/ Rename(t))
  <2>1. final' = final /\ ino' = ino
    BY <1>6 DEF Step, Start, Dirclean, Crash, TestFound, TestAbsent, NotOffered, WriteFails,
         RenameFails, RemoveTmp, RemoveOld, BeginClone, CloneRefused, EndClone, CloneFails, PackFails,
         RemoveCopy, files
  <2>. QED  BY <2>1
<1>. QED  BY <1>2, <1>3, <1>4, <1>5, <1>6

(* Where all sites are asked with wget, a file appears by its rename.      *)
LEMMA Appears ==
  ASSUME DlInv, NEW t \in Trees, AllWget, Step(t) \/ Dirclean(t) \/ Crash(t), ~Rename(t)
  PROVE  final' = final
<1>1. Shell(t)
  BY DEF DlInv
<1>2. ~OpenFinal(t)
  BY WgetRuns DEF OpenFinal, Busy, Direct
<1>3. ~BeginPack(t)
  <2>1. pc[t] = "pack" => Fetcher(t) \in Working /\ Busy(t)
    BY <1>1 DEF Shell, Cloning, Busy
  <2>. QED  BY <2>1, WgetRuns DEF BeginPack, Working
<1>. QED
  BY <1>2, <1>3 DEF Step, Start, Dirclean, Crash, TestFound, TestAbsent, NotOffered, WriteFails,
       RenameFails, RemoveTmp, RemoveOld, BeginClone, CloneRefused, EndClone, CloneFails, PackFails,
       RemoveCopy, OpenTmp, Written, EndPack, files

-----------------------------------------------------------------------------
(* The results.                                                            *)

(* Every variable has its type, for any number of trees that share the     *)
(* directory: in particular there is always an inode for a file that is    *)
(* created.                                                                *)
THEOREM TypeCorrect == Spec => []TypeOK
<1>1. DlInv => TypeOK
  BY DEF DlInv
<1>. QED  BY <1>1, DlInvariant, PTL

(* A stamp means that every file of the package is there, whatever other   *)
(* trees do, whatever fails and is killed: no way through the sites, the   *)
(* files and the recipe forgets one.  Where a method ignores which file it *)
(* is asked for, the package must have that file only.                     *)
THEOREM NoFileForgotten == Spec => [](OwnFiles => StampedPresent)
<1>1. DlInv => (OwnFiles => StampedPresent)
  BY DEF DlInv, Present, StampedPresent
<1>. QED  BY <1>1, DlInvariant, PTL

(* With wget, one tree, and kills and failures anywhere, what carries a    *)
(* final name is complete.                                                 *)
THEOREM CompleteCache == Spec => [](Alone => CacheComplete)
<1>1. DlInv /\ AloneInv => (Alone => CacheComplete)
  BY OnlyTree DEF Lone, Whole, CacheComplete, IsComplete
<1>. QED  BY <1>1, DlInvariant, AloneInvariant, PTL

(* A tree that is alone and was not disturbed has all its files, complete, *)
(* when it has its stamp, whatever the method.                             *)
THEOREM Undisturbed == Spec => [](OwnFiles => UndisturbedComplete)
<1>. DEFINE Unbuilt == \A u \in Trees \ conf.trees : stamped[u] = FALSE
<1>1. DlInv /\ AloneInv /\ Unbuilt => (OwnFiles => UndisturbedComplete)
  <2>. SUFFICES ASSUME DlInv, AloneInv, Unbuilt, OwnFiles, Alone, crashes = 0, fails = 0,
                       NEW u \in Trees, stamped[u], NEW k \in 1 .. Len(conf.files)
                PROVE  IsComplete(conf.files[k])
    BY DEF UndisturbedComplete
  <2>1. PICK t \in Trees : conf.trees = {t} /\ Lone(t)
    BY OnlyTree
  <2>2. final[conf.files[k]] # None /\ conf.files[k] \in Files
    BY ConfFacts DEF DlInv, TypeOK, Present
  <2>3. ~InPlace(t)
    <3>1. u = t
      BY <2>1
    <3>. QED  BY <3>1 DEF DlInv, Shell, InPlace
  <2>. QED  BY <2>1, <2>2, <2>3 DEF Lone, Whole, IsComplete
<1>. QED  BY <1>1, DlInvariant, AloneInvariant, OnlyBuilt, PTL

(* A complete file is never truncated, replaced or removed by a tree that  *)
(* is alone.                                                               *)
THEOREM CompleteKept == Spec => CompleteStays
<1>. DEFINE Stays == Alone => \A f \in Files : IsComplete(f) =>
                       final'[f] = final[f] /\ ino'[final[f]] = ino[final[f]]
<1>1. DlInv /\ AloneInv /\ [Next]_vars => [Stays]_vars
  <2>. SUFFICES ASSUME DlInv, AloneInv, Next, Alone PROVE Stays
    OBVIOUS
  <2>1. PICK t \in Trees : conf.trees = {t} /\ Lone(t)
    BY OnlyTree
  <2>2. Step(t) \/ Dirclean(t) \/ Crash(t)
    BY <2>1 DEF Next
  <2>. QED  BY <2>1, <2>2, StaysPut
<1>. QED  BY <1>1, DlInvariant, AloneInvariant, PTL DEF Spec, CompleteStays

(* The cache that others see: files appear at once and complete, each from *)
(* an allowed site, and stay.                                              *)
Seen == [f \in Files |-> IF ~AllWget \/ ~Alone \/ final[f] = None THEN "absent"
                         ELSE IF ino[final[f]].full THEN ino[final[f]].site ELSE "incomplete"]

(* The download directory implements the atomic cache: the rename of a     *)
(* complete file stores it, and every other step leaves the cache alone.   *)
THEOREM AtomicRefined == Spec => Atomic
<1>1. Init => Cache!Init
  <2>1. Allowed \in SUBSET Sites
    BY DEF Allowed, Sites
  <2>2. Init => \A f \in Files : final[f] = None
    BY DEF Init
  <2>. QED  BY <2>1, <2>2 DEF Cache!Init
<1>2. DlInv /\ AloneInv /\ [Next]_vars => [Cache!Next]_<<Allowed, Seen>>
  <2>. SUFFICES ASSUME DlInv, AloneInv, [Next]_vars
                PROVE  Cache!Next \/ (Allowed' = Allowed /\ Seen' = Seen)
    OBVIOUS
  <2>1. conf' = conf
    BY SameConf
  <2>2. Allowed' = Allowed /\ AllWget' = AllWget /\ Alone' = Alone
    BY <2>1 DEF Allowed, AllWget, Alone
  <2>3. CASE UNCHANGED vars
    BY <2>2, <2>3 DEF vars, files, Seen
  <2>4. CASE ~AllWget \/ ~Alone
    BY <2>2, <2>4 DEF Seen
  <2>5. CASE Next /\ AllWget /\ Alone
    <3>1. PICK t \in Trees : conf.trees = {t} /\ Lone(t)
      BY <2>5, OnlyTree
    <3>2. Step(t) \/ Dirclean(t) \/ Crash(t)
      BY <2>5, <3>1 DEF Next
    <3>3. \A f \in Files : final[f] # None => IsComplete(f)
      BY <2>5, <3>1 DEF Lone, Whole, IsComplete
    <3>4. \A f \in Files : final[f] # None => final'[f] = final[f] /\ ino'[final[f]] = ino[final[f]]
      BY <3>1, <3>2, <3>3, StaysPut
    <3>5. CASE ~Rename(t)
      <4>1. final' = final
        BY <2>5, <3>2, <3>5, Appears
      <4>. QED  BY <2>2, <3>4, <4>1 DEF Seen
    <3>6. CASE Rename(t)
      <4>. DEFINE d == Dest(t)
                  i == tmp[Dest(t)]
      <4>1. /\ final[d] = None /\ i # None /\ ino[i].full /\ ino[i].site = site[t] /\ site[t] \in Allowed
            /\ final' = [final EXCEPT ![d] = i] /\ ino' = ino /\ d \in Files
        BY <3>1, <3>6, InodesOf DEF Rename, Lone, Undone, DlInv, Shell, Busy, MayAsk
      <4>. HIDE DEF d, i
      <4>2. final'[d] = i /\ \A f \in Files : f # d => final'[f] = final[f]
        BY <4>1 DEF DlInv, TypeOK
      <4>3. Seen[d] = "absent" /\ Seen' = [Seen EXCEPT ![d] = site[t]]
        <5>1. Seen'[d] = site[t]
          BY <2>2, <2>5, <4>1, <4>2 DEF Seen
        <5>2. \A f \in Files : f # d => Seen'[f] = Seen[f]
          BY <2>2, <4>1, <4>2 DEF Seen
        <5>3. Seen = [f \in Files |-> Seen[f]] /\ Seen' = [f \in Files |-> Seen'[f]]
          BY DEF Seen
        <5>4. Seen[d] = "absent"
          BY <4>1 DEF Seen
        <5>. HIDE DEF Seen
        <5>. QED  BY <4>1, <5>1, <5>2, <5>3, <5>4
      <4>4. site[t] \in Sites
        BY <4>1 DEF Allowed, Sites
      <4>. QED  BY <2>2, <4>1, <4>3, <4>4 DEF Cache!Next, Cache!Store, Seen
    <3>. QED  BY <3>5, <3>6
  <2>. QED  BY <2>3, <2>4, <2>5
<1>. QED  BY <1>1, <1>2, DlInvariant, AloneInvariant, PTL DEF Spec, Atomic, Cache!Spec, Seen
=============================================================================
