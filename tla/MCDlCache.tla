----------------------------- MODULE MCDlCache ------------------------------
(* Instances of DlCache for TLC: a package with a source archive and one   *)
(* patch, or with the archive alone.                                       *)
EXTENDS DlCache

CONSTANTS src, patch, t1, t2

MCFiles == {src, patch}
Both == <<src, patch>>
Archive == <<src>>

Conf(ts, p, o, m, b, fs, hp, hs, hb) ==
  [trees |-> ts, primary |-> p, only |-> o, method |-> m, backup |-> b,
   files |-> fs, has |-> [s \in Sites |-> CASE s = "primary" -> hp [] s = "package" -> hs
                              [] s = "backup" -> hb]]

(* wget alone: every choice of sites, the files spread over them.          *)
MCWget ==
  {Conf({t1}, p, o, "wget", b, Both, hp, hs, MCFiles) :
     p \in {"none", "wget"}, o \in BOOLEAN, b \in BOOLEAN,
     hp \in SUBSET MCFiles, hs \in SUBSET MCFiles}

(* Every method, every choice of sites, one file.                          *)
MCMethods ==
  {Conf({t1}, p, o, m, b, Archive, hp, hs, hb) :
     p \in {"none", "wget", "scp"}, o \in BOOLEAN, m \in Methods,
     b \in BOOLEAN, hp \in {{}, {src}}, hs \in {{}, {src}},
     hb \in {{}, {src}}}

MCOne == {c \in MCWget \cup MCMethods : c.only => c.primary # "none"}

(* Two trees.                                                              *)
MCTwo ==
  {Conf({t1, t2}, "none", FALSE, m, b, Archive, {}, {src}, {src}) :
     m \in {"git", "svn"}, b \in BOOLEAN}
MCAll == MCOne \cup MCTwo

MCTwoWget ==
  {Conf({t1, t2}, "none", FALSE, "wget", TRUE, Archive, {}, {src}, {src})}

(* A package that comes from git and has a patch at the same place.        *)
MCGitPatch ==
  {Conf({t1}, "none", FALSE, "git", TRUE, Both, {}, MCFiles, MCFiles)}
=============================================================================
