------------------------------ MODULE MkUsers -------------------------------
(***************************************************************************)
(* The script support/scripts/mkusers, as fs/common.mk runs it: once for   *)
(* every root filesystem image, each time on the same target directory.    *)
(*                                                                         *)
(* The script reads the table of users that the packages ask for in five   *)
(* passes: main groups with a given gid, main groups with an automatic     *)
(* gid, additional groups, users with a given uid, users with an automatic *)
(* uid.  Every line of /etc/group and /etc/passwd it touches is deleted    *)
(* with one command and appended with another, and the script stops at the *)
(* first error without undoing anything.  The next make, possibly with     *)
(* another table, starts from what is there.                               *)
(*                                                                         *)
(* Passwords, comments and shells are left out, and /etc/gshadow, which    *)
(* gets the edits of /etc/group when it exists.  No decision reads them.   *)
(***************************************************************************)
EXTENDS Integers, Sequences, FiniteSets, SequencesExt

CONSTANTS
  Tables,      (* the tables of users: sequences of records, see TableLine *)
  SkelGroups,  (* /etc/group of the skeleton: name -> [gid, members]       *)
  SkelPasswd,  (* /etc/passwd of the skeleton: name -> [uid, gid]          *)
  MinId,       (* MIN_UID and MIN_GID                                      *)
  MaxId,       (* MAX_UID and MAX_GID                                      *)
  MaxRuns,     (* bound: runs of the script                                *)
  MaxKills     (* bound: runs that are interrupted                         *)

AutoId == -1

(* home: "-" for no home directory, "own" for an absolute path other than  *)
(* "/", "bad" for anything else.  groups: the additional groups.           *)
TableLine == [user : STRING, uid : Int, group : STRING, gid : Int,
              home : {"-", "own", "bad"}, groups : Seq(STRING)]

ASSUME UsersAssumption ==
  /\ Tables \subseteq Seq(TableLine)
  /\ SkelGroups = [g \in DOMAIN SkelGroups |-> SkelGroups[g]]
  /\ SkelPasswd = [u \in DOMAIN SkelPasswd |-> SkelPasswd[u]]
  /\ \A u, v \in DOMAIN SkelPasswd :
       SkelPasswd[u].uid = SkelPasswd[v].uid => u = v
  /\ MinId \in Nat \ {0} /\ MaxId \in Nat
  /\ MaxRuns \in Nat /\ MaxKills \in Nat

VARIABLES
  group,    (* /etc/group: name -> [gid, members]                          *)
  passwd,   (* /etc/passwd: name -> [uid, gid]                             *)
  shadow,   (* the users of /etc/shadow                                    *)
  owners,   (* the chown lines for fakeroot: user -> owner of its home     *)
  table,    (* the table this run reads                                    *)
  job,      (* where the passes over it are                                *)
  step,     (* how far this job is                                         *)
  id,       (* the uid or gid chosen for it                                *)
  pc,       (* "idle", "run", "done" or "failed"                           *)
  image,    (* history: groups and users when a run last ended well, and   *)
            (* the set of its table, empty when runs failed since          *)
  cut,      (* history: some run on this directory did not end well        *)
  runs, kills

files == <<group, passwd, shadow, owners>>
bounds == <<image, cut, runs, kills>>
vars == <<files, table, job, step, id, pc, bounds>>

Empty == [x \in {} |-> x]
Without(f, x) == [y \in DOMAIN f \ {x} |-> f[y]]
With(f, x, v) == [y \in DOMAIN f \cup {x} |-> IF y = x THEN v ELSE f[y]]

-----------------------------------------------------------------------------
(* What the script asks the files.                                         *)

GroupsOf(gid) == {g \in DOMAIN group : group[g].gid = gid}
UsersOf(uid) == {u \in DOMAIN passwd : passwd[u].uid = uid}

(* get_ugid splits the line of the user at ":i".  The second field of a    *)
(* line is "x", so that the first piece is never a bare name: it finds     *)
(* nothing, whatever the user.                                             *)
UserGids(u) == {}
UserGroups(u) == UNION {GroupsOf(gid) : gid \in UserGids(u)}

Ids == MinId .. MaxId
FreeGids == {i \in Ids : GroupsOf(i) = {}}
FreeUids == {i \in Ids : UsersOf(i) = {}}
Lowest(S) == CHOOSE i \in S : \A j \in S : i <= j

(* generate_gid and generate_uid, as the set of the id they report: empty  *)
(* if they fail.                                                           *)
NewGid(g) ==                (* the group's own gid is not asked for       *)
  IF FreeGids = {} THEN {} ELSE {Lowest(FreeGids)}
GenerateGid(g) ==
  IF g \in DOMAIN group THEN {group[g].gid}
  ELSE IF FreeGids = {} THEN {} ELSE {Lowest(FreeGids)}

AnyUid(u) ==                (* uids in use are not looked at              *)
  IF u \in DOMAIN passwd THEN {passwd[u].uid} ELSE {MinId}
NewUid(u) ==                (* the user's own uid is not asked for        *)
  IF FreeUids = {} THEN {} ELSE {Lowest(FreeUids)}
GenerateUid(u) ==
  IF u \in DOMAIN passwd THEN {passwd[u].uid}
  ELSE IF FreeUids = {} THEN {} ELSE {Lowest(FreeUids)}

(* check_user_validity                                                     *)
AnyGroupOfGid(r) ==         (* gid used by another group: not checked     *)
  /\ r.gid >= AutoId /\ r.gid # 0
  /\ r.gid # AutoId /\ r.group \in DOMAIN group => group[r.group].gid = r.gid
AnyGidOfGroup(r) ==         (* group with another gid: not checked        *)
  /\ r.gid >= AutoId /\ r.gid # 0
  /\ r.gid # AutoId => GroupsOf(r.gid) \subseteq {r.group}
GidValid(r) ==
  /\ r.gid >= AutoId /\ r.gid # 0
  /\ r.gid # AutoId => /\ GroupsOf(r.gid) \subseteq {r.group}
                       /\ r.group \in DOMAIN group => group[r.group].gid = r.gid
                       /\ UserGids(r.user) \subseteq {r.gid}

UidValid(r) ==
  /\ r.uid >= AutoId /\ r.uid # 0
  /\ r.uid # AutoId => /\ UsersOf(r.uid) \subseteq {r.user}
                       /\ r.user \in DOMAIN passwd => passwd[r.user].uid = r.uid

Valid(r) ==
  /\ r.user # "root"
  /\ GidValid(r)
  /\ UidValid(r)
  /\ UserGroups(r.user) \subseteq {r.group}

-----------------------------------------------------------------------------
(* The five passes of main over the table.  A job is what a pass does for  *)
(* a line: one main group, each of the additional groups, or the parts of  *)
(* add_one_user, which are the user (part 0), a membership for each        *)
(* additional group, and the home.                                         *)

GroupsLast == <<"fixed groups", "automatic groups",
                "fixed users", "automatic users", "more groups", "end">>
Passes == <<"fixed groups", "automatic groups", "more groups",
            "fixed users", "automatic users", "end">>

Parts(pass, r) ==
  {k \in 0 .. Len(r.groups) + 1 :
     \/ pass = "fixed groups" /\ r.gid >= 0 /\ k = 0
     \/ pass = "automatic groups" /\ r.gid = AutoId /\ k = 0
     \/ pass = "more groups" /\ k \in DOMAIN r.groups
     \/ pass = "fixed users" /\ r.uid >= 0
     \/ pass = "automatic users" /\ r.uid = AutoId}

Jobs(t) == UNION {[pass : {p}, line : {i}, part : Parts(Passes[p], t[i])] :
                    p \in DOMAIN Passes, i \in DOMAIN t}
End == [pass |-> Len(Passes), line |-> 0, part |-> 0]

Precedes(a, b) == \/ a.pass < b.pass
                  \/ a.pass = b.pass /\ a.line < b.line
                  \/ a.pass = b.pass /\ a.line = b.line /\ a.part < b.part
Earliest(S) == CHOOSE a \in S : \A b \in S \ {a} : Precedes(a, b)

Rec == table[job.line]
Kind ==
  CASE Passes[job.pass] \in {"fixed groups", "automatic groups", "more groups"} -> "group"
    [] Passes[job.pass] = "end" -> "end"
    [] OTHER -> IF job.part = 0 THEN "user"
                ELSE IF job.part \in DOMAIN Rec.groups THEN "join" ELSE "home"

-----------------------------------------------------------------------------
Init ==
  /\ group = SkelGroups /\ passwd = SkelPasswd /\ shadow = DOMAIN SkelPasswd
  /\ owners = Empty /\ table = <<>> /\ job = End /\ step = "start" /\ id = 0
  /\ pc = "idle"
  /\ image = [table |-> {}, group |-> SkelGroups, passwd |-> SkelPasswd]
  /\ cut = FALSE /\ runs = 0 /\ kills = 0

(* fs/common.mk writes the table, removes the script for fakeroot that an  *)
(* earlier run left, and runs mkusers.                                     *)
Run(t) ==
  /\ pc # "run" /\ runs < MaxRuns
  /\ table' = t /\ job' = Earliest(Jobs(t) \cup {End}) /\ step' = "start" /\ pc' = "run"
  /\ owners' = Empty /\ id' = 0 /\ runs' = runs + 1
  /\ UNCHANGED <<group, passwd, shadow, image, cut, kills>>

(* The job is of this kind, and has come to this step.                     *)
At(kind, s) == pc = "run" /\ Kind = kind /\ step = s

GoTo(s) == step' = s /\ UNCHANGED <<table, job, pc, bounds>>
NextJob == /\ job' = Earliest({j \in Jobs(table) : Precedes(job, j)} \cup {End})
           /\ step' = "start"
           /\ UNCHANGED <<table, pc, bounds>>
Stop == pc' = "failed" /\ cut' = TRUE /\ image' = [image EXCEPT !.table = {}]
Fail == Stop /\ UNCHANGED <<files, table, job, step, id, runs, kills>>

(* add_one_group: the line goes, with its members, and a new one comes.    *)
GroupName ==
  IF Passes[job.pass] = "more groups" THEN Rec.groups[job.part] ELSE Rec.group
GroupIds ==
  IF Passes[job.pass] = "fixed groups" THEN {Rec.gid} ELSE GenerateGid(GroupName)

NoGid == At("group", "start") /\ GroupIds = {} /\ Fail

RemoveGroup ==
  /\ At("group", "start")
  /\ id' \in GroupIds
  /\ group' = Without(group, GroupName)
  /\ UNCHANGED <<passwd, shadow, owners>>
  /\ GoTo("append")

AppendGroup ==
  /\ At("group", "append")
  /\ group' = With(group, GroupName, [gid |-> id, members |-> {}])
  /\ UNCHANGED <<passwd, shadow, owners, id>>
  /\ NextJob

(* add_one_user                                                            *)
UserIds == IF Rec.uid = AutoId THEN GenerateUid(Rec.user) ELSE {Rec.uid}

Reject == At("user", "start") /\ (~Valid(Rec) \/ UserIds = {}) /\ Fail

RemoveUser ==
  /\ At("user", "start")
  /\ Valid(Rec)
  /\ id' \in UserIds
  /\ passwd' = Without(passwd, Rec.user)
  /\ UNCHANGED <<group, shadow, owners>>
  /\ GoTo("shadow")

RemoveShadow ==
  /\ At("user", "shadow")
  /\ shadow' = shadow \ {Rec.user}
  /\ UNCHANGED <<group, passwd, owners, id>>
  /\ GoTo("append")

(* The home directory is looked at when the user is gone already.          *)
BadHome == At("user", "append") /\ Rec.home = "bad" /\ Fail

AppendUser ==
  /\ At("user", "append")
  /\ Rec.home # "bad"
  /\ passwd' = With(passwd, Rec.user,
                    [uid |-> id, gid |-> group[Rec.group].gid])
  /\ UNCHANGED <<group, shadow, owners, id>>
  /\ GoTo("appendShadow")

AppendShadow ==
  /\ At("user", "appendShadow")
  /\ shadow' = shadow \cup {Rec.user}
  /\ UNCHANGED <<group, passwd, owners, id>>
  /\ NextJob

(* add_user_to_group, for each additional group                            *)
JoinGroup ==
  /\ At("join", "start")
  /\ group' = [g \in DOMAIN group |->
                 IF g = Rec.groups[job.part]
                 THEN [group[g] EXCEPT !.members = @ \cup {Rec.user}]
                 ELSE group[g]]
  /\ UNCHANGED <<passwd, shadow, owners, id>>
  /\ NextJob

(* A user with a home gets a line for fakeroot, with the ids just used.    *)
OwnerTwice == [uid |-> id, gid |-> id]
HomeOwner == [uid |-> id, gid |-> group[Rec.group].gid]

ChownHome ==
  /\ At("home", "start")
  /\ owners' = IF Rec.home = "-" THEN owners
               ELSE With(owners, Rec.user, HomeOwner)
  /\ UNCHANGED <<group, passwd, shadow, id>>
  /\ NextJob

Finish ==
  /\ At("end", "start")
  /\ pc' = "done"
  /\ image' = [table |-> {table}, group |-> group, passwd |-> passwd]
  /\ UNCHANGED <<files, table, job, step, id, cut, runs, kills>>

(* The make is interrupted between two commands of the script.             *)
Kill ==
  /\ pc = "run" /\ kills < MaxKills
  /\ Stop /\ kills' = kills + 1
  /\ UNCHANGED <<files, table, job, step, id, runs>>

Next ==
  \/ \E t \in Tables : Run(t)
  \/ NoGid \/ RemoveGroup \/ AppendGroup
  \/ Reject \/ RemoveUser \/ RemoveShadow \/ BadHome \/ AppendUser
  \/ AppendShadow \/ JoinGroup \/ ChownHome
  \/ Finish \/ Kill

Spec == Init /\ [][Next]_vars

-----------------------------------------------------------------------------
TypeOK ==
  /\ \A g \in DOMAIN group : group[g].gid \in Nat /\ IsFiniteSet(group[g].members)
  /\ \A u \in DOMAIN passwd : passwd[u].uid \in Nat /\ passwd[u].gid \in Nat
  /\ \A u \in DOMAIN owners : owners[u].uid \in Nat /\ owners[u].gid \in Nat
  /\ step \in {"start", "shadow", "append", "appendShadow"} /\ id \in Nat
  /\ pc \in {"idle", "run", "done", "failed"}
  /\ runs \in 0 .. MaxRuns /\ kills \in 0 .. MaxKills

Lines == {table[i] : i \in DOMAIN table}
ListedOnce(u) == Cardinality({i \in DOMAIN table : table[i].user = u}) = 1

(* No two users ever have the same uid, however many tables, failures and  *)
(* interruptions the file has seen (generate_uid: "not already used by a   *)
(* user"; check_user_validity: "the uid is not already used for another    *)
(* user").                                                                 *)
UidsUnique ==
  \A u, v \in DOMAIN passwd : passwd[u].uid = passwd[v].uid => u = v

(* When all runs so far ended well, the groups with the same gid are those *)
(* the skeleton has.  It says nothing after a failure: a group that was    *)
(* added before the check refused its gid keeps that gid when the table is *)
(* corrected to ask for an automatic one.                                  *)
GidsUnique ==
  pc = "done" /\ ~cut =>
    \A g, h \in DOMAIN group :
      group[g].gid = group[h].gid =>
        \/ g = h
        \/ /\ {g, h} \subseteq DOMAIN SkelGroups
           /\ SkelGroups[g].gid = SkelGroups[h].gid

(* When the script ends well, whatever happened to the files before, the   *)
(* users of the table exist in both files with the ids they ask for, in    *)
(* their main group (a user that is listed twice is another matter, see    *)
(* OneMainGroup).                                                          *)
TableInEffect ==
  pc = "done" =>
    \A r \in Lines :
      /\ r.user \in DOMAIN passwd \cap shadow /\ r.group \in DOMAIN group
      /\ r.uid # AutoId => passwd[r.user].uid = r.uid
      /\ r.gid # AutoId => group[r.group].gid = r.gid
      /\ ListedOnce(r.user) => passwd[r.user].gid = group[r.group].gid

(* ... and they are members of their additional groups, although every     *)
(* pass over the groups removes the members.                               *)
Memberships ==
  pc = "done" =>
    \A r \in Lines : \A i \in DOMAIN r.groups :
      r.user \in group[r.groups[i]].members

(* ... and the home directories in the image belong to the ids that its    *)
(* /etc/passwd has for them.                                               *)
HomesOwned ==
  pc = "done" =>
    \A r \in Lines : ListedOnce(r.user) /\ r.home = "own" =>
      r.user \in DOMAIN owners /\ owners[r.user] = passwd[r.user]

(* fs/common.mk runs the script once per image.  With the same table, the  *)
(* second image has the same users and groups as the first.                *)
SameForEveryImage ==
  [][pc = "run" /\ pc' = "done" /\ image.table = {table} =>
       group = image.group /\ passwd = image.passwd]_vars

(* Files of an image that belong to a user go on belonging to it: as long  *)
(* as all runs end well, no table moves a user to another uid.             *)
UidsStay ==
  [][pc = "run" /\ pc' = "done" /\ ~cut =>
       \A u \in DOMAIN image.passwd :
         u \in DOMAIN passwd /\ passwd[u].uid = image.passwd[u].uid]_vars

(* "Check the user does not already exist in another group"                *)
(* (support/scripts/mkusers:164): a table that the script accepts has each *)
(* of its users in the main group that it gives for the user.              *)
OneMainGroup ==
  pc = "done" =>
    \A r \in Lines : passwd[r.user].gid = group[r.group].gid
=============================================================================
