-------------------------- MODULE UserTableProofs ---------------------------
(***************************************************************************)
(* What the files of users and groups are worth when mkusers ends well:    *)
(* the table is in effect, members, homes and gids are right, and a second *)
(* run with the same table changes nothing.                                *)
(*                                                                         *)
(* Between the deletion of a line and its return a group or a user is in   *)
(* the script only.  The invariants speak of the files as they will be:    *)
(* with the line that is about to return.                                  *)
(***************************************************************************)
EXTENDS MkUsersProofs, FiniteSetTheorems

(* makeusers-syntax.txt: a uid is -1 or an id.  The script passes over the *)
(* users of other lines, but adds their groups without a check.            *)
Documented == \A t \in Tables : \A i \in DOMAIN t : t[i].uid >= AutoId

Going == pc \in {"run", "done"}
Between(kind, steps) == pc = "run" /\ Kind = kind /\ step \in steps

(* The files as they will be.                                              *)
GroupOut == Between("group", {"append"})
UserOut == Between("user", {"shadow", "append"})
ShadowOut == Between("user", {"shadow", "append", "appendShadow"})
GroupsToBe == DOMAIN group \cup (IF GroupOut THEN {GroupName} ELSE {})
UsersToBe == DOMAIN passwd \cup (IF UserOut THEN {Rec.user} ELSE {})
ShadowToBe == shadow \cup (IF ShadowOut THEN {Rec.user} ELSE {})
GidToBe(g) == IF GroupOut /\ g = GroupName THEN id ELSE group[g].gid
UidToBe(u) == IF UserOut /\ u = Rec.user THEN id ELSE passwd[u].uid

(* The jobs of a table t by name.                                          *)
MainJob(t, i) == [pass |-> IF t[i].gid = AutoId THEN 2 ELSE 1, line |-> i, part |-> 0]
ExtraJob(i, k) == [pass |-> 3, line |-> i, part |-> k]
UserJob(t, i, k) == [pass |-> IF t[i].uid = AutoId THEN 5 ELSE 4, line |-> i, part |-> k]
GroupJobs(t) == {j \in Jobs(t) : j.pass <= 3}
NameOf(t, j) == IF j.pass = 3 THEN t[j.line].groups[j.part] ELSE t[j.line].group

(* The run has job j behind it; the user of line i is past its checks; the *)
(* line is in /etc/passwd; and none of the same user came later.           *)
Done(j) == j \in Jobs(table) /\ Precedes(j, job)
At0(i) == job = UserJob(table, i, 0)
Checked(i) == Done(UserJob(table, i, 0)) \/ (At0(i) /\ step # "start")
Written(i) == Done(UserJob(table, i, 0)) \/ (At0(i) /\ step = "appendShadow")
LastWritten(i) ==
  /\ Written(i)
  /\ \A k \in DOMAIN table :
       table[k].user = table[i].user /\ Written(k) =>
         k = i \/ Precedes(UserJob(table, k, 0), UserJob(table, i, 0))
Joined(g) ==
  {table[i].user : i \in {l \in DOMAIN table :
                            \E k \in DOMAIN table[l].groups :
                              table[l].groups[k] = g /\ Done(UserJob(table, l, k))}}
Once(u) == \A i, k \in DOMAIN table : table[i].user = u /\ table[k].user = u => i = k

(* Where the run is.                                                       *)
Position ==
  /\ pc \in {"idle", "run", "done", "failed"}
  /\ Going => table \in Tables /\ job \in Jobs(table) \cup {End}
  /\ pc \in {"idle", "done"} => job = End /\ step = "start"
  /\ pc = "idle" => table = <<>>
  /\ pc = "run" => \/ step = "start"
                   \/ Kind = "group" /\ step = "append"
                   \/ Kind = "user" /\ step \in {"shadow", "append", "appendShadow"}

(* The files have one line per name.                                       *)
OneLineEach ==
  /\ group = [g \in DOMAIN group |-> group[g]]
  /\ passwd = [u \in DOMAIN passwd |-> passwd[u]]

(* A group that the run has written is there, with the members that the    *)
(* run has added since.                                                    *)
Created ==
  Going => \A j \in GroupJobs(table) : Done(j) =>
    /\ NameOf(table, j) \in GroupsToBe
    /\ NameOf(table, j) \in DOMAIN group =>
         group[NameOf(table, j)] = [gid |-> group[NameOf(table, j)].gid,
                                    members |-> Joined(NameOf(table, j))]

(* A user that is past its checks is or will be there, with the ids of its *)
(* line, and its group has the gid of its line.                            *)
Settled ==
  Going => \A i \in DOMAIN table : Checked(i) =>
    /\ table[i].gid >= AutoId
    /\ table[i].gid # AutoId => group[table[i].group].gid = table[i].gid
    /\ table[i].user \in UsersToBe \cap ShadowToBe
    /\ table[i].uid # AutoId => UidToBe(table[i].user) = table[i].uid

(* Of several lines of a user, the one that is written last decides.       *)
Decided ==
  Going => \A i \in DOMAIN table : LastWritten(i) /\ table[i].user \in DOMAIN passwd =>
    passwd[table[i].user] = [uid |-> passwd[table[i].user].uid,
                             gid |-> group[table[i].group].gid]

(* What the rest of add_one_user goes on with is what it has written.      *)
Current ==
  pc = "run" /\ (Kind \in {"join", "home"} \/ (Kind = "user" /\ step = "appendShadow")) =>
    /\ Rec.user \in DOMAIN passwd
    /\ passwd[Rec.user] = [uid |-> id, gid |-> group[Rec.group].gid]

Housed ==
  Going => \A i \in DOMAIN table :
    Done(UserJob(table, i, Len(table[i].groups) + 1))
      /\ table[i].home = "own" /\ Once(table[i].user) =>
        /\ table[i].user \in DOMAIN owners /\ table[i].user \in DOMAIN passwd
        /\ owners[table[i].user] = passwd[table[i].user]

(* As long as all runs went well, two groups with one gid, which the       *)
(* skeleton does not have, are there because of a line that the checks of  *)
(* this run will refuse.                                                   *)
SkelSame(g, h) == /\ {g, h} \subseteq DOMAIN SkelGroups
                  /\ SkelGroups[g].gid = SkelGroups[h].gid
Refused(i, g, h) ==
  /\ table[i].gid # AutoId /\ table[i].gid = GidToBe(g) /\ table[i].group \in {g, h}
  /\ ~Checked(i)
Clashes ==
  ~cut => \A g, h \in GroupsToBe :
    GidToBe(g) = GidToBe(h) => \/ g = h
                               \/ SkelSame(g, h)
                               \/ pc = "run" /\ \E i \in DOMAIN table : Refused(i, g, h)

(* The image is what the last run that ended well has left.                *)
LastImage ==
  /\ image = [table |-> image.table, group |-> image.group, passwd |-> image.passwd]
  /\ image.table # {} => /\ image.group = [g \in DOMAIN image.group |-> image.group[g]]
                         /\ image.passwd = [u \in DOMAIN image.passwd |-> image.passwd[u]]
  /\ pc = "failed" => cut
  /\ pc \in {"idle", "failed"} => image.table = {}
  /\ pc = "done" => image.table = {table}
  /\ pc \in {"idle", "done"} => image.group = group /\ image.passwd = passwd
UidsKept ==
  ~cut => \A u \in DOMAIN image.passwd :
    u \in UsersToBe /\ UidToBe(u) = image.passwd[u].uid

(* Files that a table is in effect in.                                     *)
LastOf(t, i) == \A k \in DOMAIN t : t[k].user = t[i].user =>
  \/ k = i
  \/ t[k].uid # AutoId /\ t[i].uid = AutoId
  \/ (t[k].uid = AutoId <=> t[i].uid = AutoId) /\ k < i
GroupsIn(t) ==
  {t[i].group : i \in DOMAIN t} \cup UNION {{t[i].groups[k] : k \in DOMAIN t[i].groups} : i \in DOMAIN t}
UsersIn(t) == {t[i].user : i \in DOMAIN t}
MembersIn(t, g) ==
  {t[i].user : i \in {l \in DOMAIN t : \E k \in DOMAIN t[l].groups : t[l].groups[k] = g}}
InEffect(t, G, P) ==
  /\ GroupsIn(t) \subseteq DOMAIN G /\ UsersIn(t) \subseteq DOMAIN P
  /\ \A g \in GroupsIn(t) : G[g] = [gid |-> G[g].gid, members |-> MembersIn(t, g)]
  /\ \A i \in DOMAIN t :
       /\ t[i].gid # AutoId => G[t[i].group].gid = t[i].gid
       /\ t[i].uid # AutoId => P[t[i].user].uid = t[i].uid
       /\ LastOf(t, i) => P[t[i].user] = [uid |-> P[t[i].user].uid, gid |-> G[t[i].group].gid]
ImageInEffect ==
  \A t \in image.table : InEffect(t, image.group, image.passwd)

(* A run with the table of the last image gives back what it takes away.   *)
Repeats ==
  pc = "run" /\ image.table = {table} =>
    /\ GroupsToBe = DOMAIN image.group
    /\ UsersToBe = DOMAIN image.passwd
    /\ \A g \in GroupsToBe : GidToBe(g) = image.group[g].gid
    /\ \A g \in DOMAIN group \ GroupsIn(table) : group[g] = image.group[g]
    /\ \A u \in UsersToBe : UidToBe(u) = image.passwd[u].uid
    /\ \A u \in DOMAIN passwd \ UsersIn(table) : passwd[u] = image.passwd[u]

-----------------------------------------------------------------------------
(* The order of the jobs.                                                  *)

Positions == [pass : Nat, line : Nat, part : Nat]

(* Precedes is a total order.                                              *)
LEMMA InOrder ==
  /\ \A a \in Positions : ~Precedes(a, a)
  /\ \A a, b \in Positions : a = b \/ Precedes(a, b) \/ Precedes(b, a)
  /\ \A a, b \in Positions : ~(Precedes(a, b) /\ Precedes(b, a))
  /\ \A a, b, c \in Positions : Precedes(a, b) /\ Precedes(b, c) => Precedes(a, c)
BY DEF Positions, Precedes

(* The least pass, in it the least line, and of that the least part.       *)
LEMMA EarliestIs ==
  ASSUME NEW S, S \subseteq Positions, S # {}
  PROVE  Earliest(S) \in S /\ \A b \in S : b = Earliest(S) \/ Precedes(Earliest(S), b)
<1>1. PICK p \in {a.pass : a \in S} : \A q \in {a.pass : a \in S} : p <= q
  <2>1. {a.pass : a \in S} \subseteq Nat /\ {a.pass : a \in S} # {}
    BY SMT DEF Positions
  <2>. QED  BY <2>1, LeastExists
<1>. DEFINE P == {a \in S : a.pass = p}
<1>2. P # {} /\ P \subseteq S
  OBVIOUS
<1>3. PICK l \in {a.line : a \in P} : \A q \in {a.line : a \in P} : l <= q
  <2>1. {a.line : a \in P} \subseteq Nat /\ {a.line : a \in P} # {}
    BY <1>2, SMT DEF Positions
  <2>. QED  BY <2>1, LeastExists
<1>. DEFINE L == {a \in P : a.line = l}
<1>4. L # {} /\ L \subseteq P
  OBVIOUS
<1>5. PICK k \in {a.part : a \in L} : \A q \in {a.part : a \in L} : k <= q
  <2>1. {a.part : a \in L} \subseteq Nat /\ {a.part : a \in L} # {}
    BY <1>2, <1>4, SMT DEF Positions
  <2>. QED  BY <2>1, LeastExists
<1>6. PICK a \in L : a.part = k
  OBVIOUS
<1>7. a \in S /\ \A b \in S \ {a} : Precedes(a, b)
  <2>. SUFFICES ASSUME NEW b \in S, b # a PROVE Precedes(a, b)
    BY <1>6
  <2>1. a.pass = p /\ a.line = l /\ a.part = k
    BY <1>6
  <2>2. a \in Positions /\ b \in Positions
    BY <1>6
  <2>3. p <= b.pass /\ (b.pass = p => l <= b.line)
        /\ (b.pass = p /\ b.line = l => k <= b.part)
    BY <1>1, <1>3, <1>5
  <2>4. a.pass = b.pass /\ a.line = b.line /\ a.part = b.part => a = b
    BY <2>2 DEF Positions
  <2>. QED  BY <2>1, <2>2, <2>3, <2>4 DEF Positions, Precedes
<1>. QED  BY <1>7 DEF Earliest

LEMMA PassesAre == DOMAIN Passes = 1 .. 6 /\ Len(Passes) = 6
<1>1. DOMAIN Passes = 1 .. 6
  BY DEF Passes
<1>2. Len(Passes) = 6
  BY DEF Passes
<1>. QED  BY <1>1, <1>2

LEMMA Table ==
  ASSUME NEW t \in Tables
  PROVE  /\ DOMAIN t = 1 .. Len(t) /\ Len(t) \in Nat
         /\ \A i \in DOMAIN t :
              /\ t[i].uid \in Int /\ t[i].gid \in Int
              /\ Len(t[i].groups) \in Nat /\ DOMAIN t[i].groups = 1 .. Len(t[i].groups)
<1>1. t \in Seq(TableLine)
  BY UsersAssumption
<1>2. DOMAIN t = 1 .. Len(t) /\ Len(t) \in Nat /\ \A i \in DOMAIN t : t[i] \in TableLine
  BY <1>1
<1>3. ASSUME NEW r \in TableLine
      PROVE  /\ r.uid \in Int /\ r.gid \in Int
             /\ Len(r.groups) \in Nat /\ DOMAIN r.groups = 1 .. Len(r.groups)
  <2>1. r.uid \in Int /\ r.gid \in Int /\ r.groups \in Seq(STRING)
    BY DEF TableLine
  <2>. QED  BY <2>1
<1>. QED  BY <1>2, <1>3

(* What each pass does for a line.                                         *)
LEMMA PartsAre ==
  ASSUME NEW r, NEW k, r.gid \in Int, r.uid \in Int, Len(r.groups) \in Nat
  PROVE  /\ k \in Parts(Passes[1], r) <=> k = 0 /\ r.gid >= 0
         /\ k \in Parts(Passes[2], r) <=> k = 0 /\ r.gid = AutoId
         /\ k \in Parts(Passes[3], r) <=> k \in 0 .. Len(r.groups) + 1 /\ k \in DOMAIN r.groups
         /\ k \in Parts(Passes[4], r) <=> k \in 0 .. Len(r.groups) + 1 /\ r.uid >= 0
         /\ k \in Parts(Passes[5], r) <=> k \in 0 .. Len(r.groups) + 1 /\ r.uid = AutoId
         /\ k \notin Parts(Passes[6], r)
<1>1. 0 \in 0 .. Len(r.groups) + 1
  OBVIOUS
<1>2. k \in Parts("fixed groups", r) <=> k = 0 /\ r.gid >= 0
  BY <1>1 DEF Parts
<1>3. k \in Parts("automatic groups", r) <=> k = 0 /\ r.gid = AutoId
  BY <1>1 DEF Parts
<1>4. k \in Parts("more groups", r) <=> k \in 0 .. Len(r.groups) + 1 /\ k \in DOMAIN r.groups
  BY DEF Parts
<1>5. k \in Parts("fixed users", r) <=> k \in 0 .. Len(r.groups) + 1 /\ r.uid >= 0
  BY DEF Parts
<1>6. k \in Parts("automatic users", r) <=> k \in 0 .. Len(r.groups) + 1 /\ r.uid = AutoId
  BY DEF Parts
<1>7. k \notin Parts("end", r)
  BY DEF Parts
<1>8. Passes[1] = "fixed groups" /\ Passes[2] = "automatic groups" /\ Passes[3] = "more groups"
  BY DEF Passes
<1>9. Passes[4] = "fixed users" /\ Passes[5] = "automatic users" /\ Passes[6] = "end"
  BY DEF Passes
<1>. QED  BY <1>2, <1>3, <1>4, <1>5, <1>6, <1>7, <1>8, <1>9, Zenon

(* The jobs of a table, one by one.                                        *)
LEMMA JobOf ==
  ASSUME NEW t \in Tables, NEW j
  PROVE  j \in Jobs(t) <=> \E p \in 1 .. 6 : \E i \in DOMAIN t : \E k \in Parts(Passes[p], t[i]) :
                             j = [pass |-> p, line |-> i, part |-> k]
<1>. DEFINE Block(p, i) == [pass : {p}, line : {i}, part : Parts(Passes[p], t[i])]
<1>1. j \in Jobs(t) <=> \E p \in DOMAIN Passes, i \in DOMAIN t : j \in Block(p, i)
  <2>1. Jobs(t) = UNION {Block(p, i) : p \in DOMAIN Passes, i \in DOMAIN t}
    BY DEF Jobs
  <2>. HIDE DEF Block
  <2>2. j \in Jobs(t) <=> \E J \in {Block(p, i) : p \in DOMAIN Passes, i \in DOMAIN t} : j \in J
    BY <2>1
  <2>. QED  BY <2>2, SMT
<1>2. \A p \in DOMAIN Passes : \A i \in DOMAIN t :
        j \in Block(p, i) <=> \E k \in Parts(Passes[p], t[i]) : j = [pass |-> p, line |-> i, part |-> k]
  OBVIOUS
<1>. HIDE DEF Block
<1>. QED  BY <1>1, <1>2, PassesAre, Zenon

(* A job is for a main group, an additional group, or a part of            *)
(* add_one_user; and every line has the jobs that its ids ask for.         *)
LEMMA JobIs ==
  ASSUME NEW t \in Tables, NEW j \in Jobs(t)
  PROVE  /\ j \in Positions /\ j.line \in DOMAIN t
         /\ \/ j = MainJob(t, j.line) /\ t[j.line].gid >= AutoId
            \/ j = ExtraJob(j.line, j.part) /\ j.part \in DOMAIN t[j.line].groups
            \/ /\ j = UserJob(t, j.line, j.part) /\ t[j.line].uid >= AutoId
               /\ j.part \in 0 .. Len(t[j.line].groups) + 1
<1>1. PICK p \in 1 .. 6 : \E i \in DOMAIN t : \E k \in Parts(Passes[p], t[i]) :
               j = [pass |-> p, line |-> i, part |-> k]
  BY JobOf
<1>2. PICK i \in DOMAIN t : \E k \in Parts(Passes[p], t[i]) : j = [pass |-> p, line |-> i, part |-> k]
  BY <1>1
<1>3. PICK k \in Parts(Passes[p], t[i]) : j = [pass |-> p, line |-> i, part |-> k]
  BY <1>2
<1>. DEFINE r == t[i]
<1>4. /\ r.uid \in Int /\ r.gid \in Int /\ Len(r.groups) \in Nat
      /\ DOMAIN r.groups = 1 .. Len(r.groups) /\ i \in Nat
  BY Table
<1>5. k \in 0 .. Len(r.groups) + 1
  BY <1>3 DEF Parts
<1>6. j \in Positions /\ j.line = i /\ j.part = k /\ j.pass = p
  BY <1>3, <1>4, <1>5 DEF Positions
<1>7. \/ p = 1 /\ k = 0 /\ r.gid >= 0
      \/ p = 2 /\ k = 0 /\ r.gid = AutoId
      \/ p = 3 /\ k \in DOMAIN r.groups
      \/ p = 4 /\ r.uid >= 0
      \/ p = 5 /\ r.uid = AutoId
  <2>1. p = 1 \/ p = 2 \/ p = 3 \/ p = 4 \/ p = 5 \/ p = 6
    BY <1>1
  <2>. HIDE DEF r
  <2>2. k \in Parts(Passes[p], r)
    BY <1>3 DEF r
  <2>. QED  BY <1>4, <2>1, <2>2, PartsAre
<1>8. AutoId = -1
  BY DEF AutoId
<1>9. \/ j = MainJob(t, i) /\ r.gid >= AutoId
      \/ j = ExtraJob(i, k) /\ k \in DOMAIN r.groups
      \/ j = UserJob(t, i, k) /\ r.uid >= AutoId
  BY <1>3, <1>4, <1>7, <1>8 DEF MainJob, ExtraJob, UserJob
<1>. QED  BY <1>5, <1>6, <1>9

LEMMA JobsOfLine ==
  ASSUME NEW t \in Tables, NEW i \in DOMAIN t
  PROVE  /\ t[i].gid >= AutoId => MainJob(t, i) \in Jobs(t)
         /\ \A k \in DOMAIN t[i].groups : ExtraJob(i, k) \in Jobs(t)
         /\ t[i].uid >= AutoId => \A k \in 0 .. Len(t[i].groups) + 1 : UserJob(t, i, k) \in Jobs(t)
<1>. DEFINE r == t[i]
<1>1. /\ r.uid \in Int /\ r.gid \in Int /\ Len(r.groups) \in Nat
      /\ DOMAIN r.groups = 1 .. Len(r.groups)
  BY Table
<1>2. ASSUME r.gid >= AutoId PROVE MainJob(t, i) \in Jobs(t)
  <2>1. CASE r.gid = AutoId
    <3>1. 0 \in Parts(Passes[2], r)
      BY <1>1, <2>1, PartsAre
    <3>2. MainJob(t, i) = [pass |-> 2, line |-> i, part |-> 0]
      BY <2>1 DEF MainJob
    <3>. QED  BY <3>1, <3>2, JobOf
  <2>2. CASE r.gid # AutoId
    <3>1. r.gid >= 0
      BY <1>1, <1>2, <2>2 DEF AutoId
    <3>2. 0 \in Parts(Passes[1], r)
      BY <1>1, <3>1, PartsAre
    <3>3. MainJob(t, i) = [pass |-> 1, line |-> i, part |-> 0]
      BY <2>2 DEF MainJob
    <3>. QED  BY <3>2, <3>3, JobOf
  <2>. QED  BY <2>1, <2>2
<1>3. ASSUME NEW k \in DOMAIN r.groups PROVE ExtraJob(i, k) \in Jobs(t)
  <2>1. k \in 0 .. Len(r.groups) + 1
    BY <1>1
  <2>2. k \in Parts(Passes[3], r)
    BY <1>1, <2>1, PartsAre
  <2>. QED  BY <2>2, JobOf DEF ExtraJob
<1>4. ASSUME r.uid >= AutoId, NEW k \in 0 .. Len(r.groups) + 1
      PROVE  UserJob(t, i, k) \in Jobs(t)
  <2>1. CASE r.uid = AutoId
    <3>1. k \in Parts(Passes[5], r)
      BY <1>1, <2>1, PartsAre
    <3>2. UserJob(t, i, k) = [pass |-> 5, line |-> i, part |-> k]
      BY <2>1 DEF UserJob
    <3>. QED  BY <3>1, <3>2, JobOf
  <2>2. CASE r.uid # AutoId
    <3>1. r.uid >= 0
      BY <1>1, <1>4, <2>2 DEF AutoId
    <3>2. k \in Parts(Passes[4], r)
      BY <1>1, <3>1, PartsAre
    <3>3. UserJob(t, i, k) = [pass |-> 4, line |-> i, part |-> k]
      BY <2>2 DEF UserJob
    <3>. QED  BY <3>2, <3>3, JobOf
  <2>. QED  BY <2>1, <2>2
<1>. QED  BY <1>2, <1>3, <1>4

(* The jobs of a user stand one after the other.                           *)
LEMMA UserJobs ==
  ASSUME NEW t \in Tables, NEW i \in DOMAIN t, NEW k \in 0 .. Len(t[i].groups) + 1,
         UserJob(t, i, k) \in Jobs(t)
  PROVE  \A l \in 0 .. Len(t[i].groups) + 1 : UserJob(t, i, l) \in Jobs(t)
<1>1. t[i].uid >= AutoId
  <2>. DEFINE j == UserJob(t, i, k)
  <2>1. j.line = i /\ j.pass \in {4, 5}
    BY DEF UserJob
  <2>2. j # MainJob(t, j.line) /\ j # ExtraJob(j.line, j.part)
    BY <2>1 DEF MainJob, ExtraJob
  <2>. QED  BY <2>1, <2>2, JobIs
<1>. QED  BY <1>1, JobsOfLine

(* What the run does with a job.                                           *)
LEMMA KindIs ==
  ASSUME table \in Tables, job \in Jobs(table) \cup {End}
  PROVE  /\ Kind = "group" <=> job \in GroupJobs(table)
         /\ Kind = "user" <=> /\ job \in Jobs(table) /\ job.line \in DOMAIN table
                              /\ job = UserJob(table, job.line, 0)
         /\ Kind = "join" <=> /\ job \in Jobs(table) /\ job.line \in DOMAIN table
                              /\ job.part \in DOMAIN Rec.groups
                              /\ job = UserJob(table, job.line, job.part)
         /\ Kind = "home" <=> /\ job \in Jobs(table) /\ job.line \in DOMAIN table
                              /\ job = UserJob(table, job.line, Len(Rec.groups) + 1)
         /\ Kind = "end" <=> job = End
<1>1. /\ Passes[1] = "fixed groups" /\ Passes[2] = "automatic groups" /\ Passes[3] = "more groups"
      /\ Passes[4] = "fixed users" /\ Passes[5] = "automatic users" /\ Passes[6] = "end"
  BY DEF Passes
<1>2. CASE job = End
  <2>1. job.pass = 6 /\ job.line = 0
    BY <1>2, PassesAre DEF End
  <2>2. Kind = "end"
    BY <1>1, <2>1 DEF Kind
  <2>3. 0 \notin DOMAIN table
    BY Table
  <2>4. job \notin Jobs(table)
    BY <2>1, <2>3, JobIs
  <2>. QED  BY <1>2, <2>2, <2>4 DEF GroupJobs
<1>3. CASE job \in Jobs(table)
  <2>. DEFINE i == job.line
  <2>1. /\ i \in DOMAIN table /\ job \in Positions /\ Len(table[i].groups) \in Nat
        /\ DOMAIN table[i].groups = 1 .. Len(table[i].groups)
    BY <1>3, JobIs, Table
  <2>2. job # End
    <3>1. 0 \notin DOMAIN table
      BY Table
    <3>. QED  BY <2>1, <3>1 DEF End
  <2>3. CASE job.pass \in {1, 2, 3}
    <3>1. Kind = "group"
      BY <1>1, <2>3 DEF Kind
    <3>2. \A k : job # UserJob(table, i, k)
      BY <2>3 DEF UserJob
    <3>. QED  BY <1>3, <2>2, <2>3, <3>1, <3>2 DEF GroupJobs
  <2>4. CASE job.pass \notin {1, 2, 3}
    <3>1. /\ job = UserJob(table, i, job.part) /\ job.part \in 0 .. Len(table[i].groups) + 1
          /\ job.pass \in {4, 5}
      BY <1>3, <2>4, JobIs DEF MainJob, ExtraJob, UserJob
    <3>2. Kind = IF job.part = 0 THEN "user"
                 ELSE IF job.part \in DOMAIN Rec.groups THEN "join" ELSE "home"
      BY <1>1, <3>1 DEF Kind
    <3>3. job \notin GroupJobs(table)
      BY <3>1 DEF GroupJobs
    <3>4. \A k, l : UserJob(table, i, k) = UserJob(table, i, l) => k = l
      BY DEF UserJob
    <3>5. Rec = table[i]
      BY DEF Rec
    <3>6. CASE job.part = 0
      BY <1>3, <2>1, <2>2, <3>1, <3>2, <3>3, <3>4, <3>5, <3>6
    <3>7. CASE job.part \in DOMAIN Rec.groups
      BY <1>3, <2>1, <2>2, <3>1, <3>2, <3>3, <3>4, <3>5, <3>7
    <3>8. CASE job.part = Len(Rec.groups) + 1
      BY <1>3, <2>1, <2>2, <3>1, <3>2, <3>3, <3>4, <3>5, <3>8
    <3>. QED  BY <2>1, <3>1, <3>5, <3>6, <3>7, <3>8
  <2>. QED  BY <2>3, <2>4
<1>. QED  BY <1>2, <1>3

(* The end comes after all jobs.                                           *)
LEMMA EndLast ==
  /\ End \in Positions
  /\ \A t \in Tables : \A j \in Jobs(t) : Precedes(j, End)
<1>1. End \in Positions
  BY PassesAre DEF End, Positions
<1>2. ASSUME NEW t \in Tables, NEW j \in Jobs(t) PROVE Precedes(j, End)
  <2>1. j.pass \in 1 .. 5
    BY JobIs DEF MainJob, ExtraJob, UserJob
  <2>. QED  BY <2>1, PassesAre DEF End, Precedes
<1>. QED  BY <1>1, <1>2

(* A run begins with all jobs before it.                                   *)
LEMMA Begins ==
  ASSUME NEW t \in Tables, Run(t)
  PROVE  /\ table' = t /\ job' \in Jobs(t) \cup {End}
         /\ \A j \in Jobs(t) : ~Precedes(j, job')
<1>1. Jobs(t) \cup {End} \subseteq Positions
  BY JobIs, EndLast
<1>2. job' = Earliest(Jobs(t) \cup {End})
  BY DEF Run
<1>3. job' \in Jobs(t) \cup {End} /\ \A b \in Jobs(t) \cup {End} : b = job' \/ Precedes(job', b)
  BY <1>1, <1>2, EarliestIs
<1>. QED  BY <1>1, <1>3, InOrder DEF Run

(* The next job is the one after this one.                                 *)
LEMMA Advances ==
  ASSUME table \in Tables, job \in Jobs(table), NextJob
  PROVE  /\ job' \in Jobs(table) \cup {End} /\ Precedes(job, job')
         /\ \A j \in Jobs(table) : Precedes(j, job') <=> Precedes(j, job) \/ j = job
<1>. DEFINE S == {j \in Jobs(table) : Precedes(job, j)} \cup {End}
<1>1. S \subseteq Positions /\ job \in Positions /\ Jobs(table) \subseteq Positions
  BY JobIs, EndLast
<1>2. job' = Earliest(S)
  BY DEF NextJob
<1>. HIDE DEF S
<1>3. S # {}
  BY DEF S
<1>4. job' \in S /\ \A b \in S : b = job' \/ Precedes(job', b)
  BY <1>1, <1>2, <1>3, EarliestIs
<1>5. job' \in Jobs(table) \cup {End} /\ Precedes(job, job') /\ job' \in Positions
  BY <1>1, <1>4, EndLast DEF S
<1>6. ASSUME NEW j \in Jobs(table)
      PROVE  Precedes(j, job') <=> Precedes(j, job) \/ j = job
  <2>1. j \in Positions
    BY <1>1
  <2>2. CASE Precedes(job, j)
    <3>1. j = job' \/ Precedes(job', j)
      BY <1>4, <2>2 DEF S
    <3>. QED  BY <1>1, <1>5, <2>1, <2>2, <3>1, InOrder
  <2>3. CASE Precedes(j, job) \/ j = job
    BY <1>1, <1>5, <2>1, <2>3, InOrder
  <2>. QED  BY <1>1, <2>1, <2>2, <2>3, InOrder
<1>. QED  BY <1>5, <1>6

(* The memberships and the home of a user come after it, one by one.       *)
LEMMA Follows ==
  ASSUME table \in Tables, NEW p \in Jobs(table) \cup {End}, NEW i \in DOMAIN table,
         NEW k \in 0 .. Len(table[i].groups) + 1, k # 0, p = UserJob(table, i, k)
  PROVE  /\ UserJob(table, i, k - 1) \in Jobs(table)
         /\ Precedes(UserJob(table, i, k - 1), p)
         /\ \A j \in Positions : Precedes(j, p) => j = UserJob(table, i, k - 1)
                                               \/ Precedes(j, UserJob(table, i, k - 1))
<1>1. Len(table[i].groups) \in Nat /\ i \in Nat
  BY Table
<1>2. p # End
  BY PassesAre DEF UserJob, End
<1>3. UserJob(table, i, k - 1) \in Jobs(table)
  <2>1. k - 1 \in 0 .. Len(table[i].groups) + 1
    BY <1>1
  <2>. QED  BY <1>2, <2>1, UserJobs
<1>4. Precedes(UserJob(table, i, k - 1), p)
  BY <1>1 DEF UserJob, Precedes
<1>5. ASSUME NEW j \in Positions, Precedes(j, p)
      PROVE  j = UserJob(table, i, k - 1) \/ Precedes(j, UserJob(table, i, k - 1))
  <2>. DEFINE q == UserJob(table, i, k - 1)
  <2>1. q \in Positions /\ q.pass = p.pass /\ q.line = p.line /\ q.part = p.part - 1 /\ p.part \in Nat
    BY <1>1 DEF UserJob, Positions
  <2>2. p.pass \in Nat /\ p.line \in Nat
    BY <2>1 DEF Positions
  <2>3. j.pass \in Nat /\ j.line \in Nat /\ j.part \in Nat
    BY DEF Positions
  <2>4. Precedes(j, q) \/ (j.pass = q.pass /\ j.line = q.line /\ j.part = q.part)
    BY <1>5, <2>1, <2>2, <2>3 DEF Precedes
  <2>5. j.pass = q.pass /\ j.line = q.line /\ j.part = q.part => j = q
    BY <2>1 DEF Positions
  <2>. QED  BY <2>4, <2>5
<1>. QED  BY <1>3, <1>4, <1>5

-----------------------------------------------------------------------------
(* The steps of a run.                                                     *)

(* A step of a run that goes on or ends well.                              *)
Onward == pc = "run" /\ pc' # "failed" /\ [Next]_vars

LEMMA Steps ==
  ASSUME Onward
  PROVE  \/ UNCHANGED vars
         \/ RemoveGroup \/ AppendGroup
         \/ RemoveUser \/ RemoveShadow \/ AppendUser \/ AppendShadow
         \/ JoinGroup \/ ChownHome \/ Finish
BY DEF Onward, Next, Run, NoGid, Reject, BadHome, Kill, Fail, Stop

LEMMA PositionStart == Init => Position
BY DEF Init, Position, Going

(* Every step of make and of the script keeps the run at a job of its      *)
(* table.                                                                  *)
LEMMA PositionStep ==
  ASSUME Position, [Next]_vars
  PROVE  Position'
<1>1. CASE UNCHANGED vars
  BY <1>1 DEF Position, Going, Kind, Rec, vars, files, bounds
<1>2. ASSUME NEW t \in Tables, Run(t) PROVE Position'
  BY <1>2, Begins DEF Run, Position, Going
<1>3. CASE NoGid \/ Reject \/ BadHome \/ Kill
  BY <1>3 DEF NoGid, Reject, BadHome, Kill, Fail, Stop, Position, Going
<1>4. ASSUME pc = "run", pc' = "run", Kind # "end", NextJob PROVE Position'
  <2>1. table \in Tables /\ job \in Jobs(table)
    BY <1>4, KindIs DEF Position, Going
  <2>2. job' \in Jobs(table) \cup {End} /\ table' = table /\ step' = "start"
    BY <1>4, <2>1, Advances DEF NextJob
  <2>. QED  BY <1>4, <2>1, <2>2 DEF Position, Going
<1>5. CASE AppendGroup \/ AppendShadow \/ JoinGroup \/ ChownHome
  <2>1. pc = "run" /\ Kind # "end" /\ NextJob
    BY <1>5 DEF AppendGroup, AppendShadow, JoinGroup, ChownHome, At
  <2>. QED  BY <1>4, <2>1 DEF NextJob
<1>6. CASE RemoveGroup \/ RemoveUser \/ RemoveShadow \/ AppendUser
  BY <1>6 DEF RemoveGroup, RemoveUser, RemoveShadow, AppendUser, At, GoTo, Position, Going, Kind, Rec
<1>7. CASE Finish
  <2>1. job = End
    BY <1>7, KindIs DEF Finish, At, Position, Going
  <2>. QED  BY <1>7, <2>1 DEF Finish, At, Position, Going
<1>. QED  BY <1>1, <1>2, <1>3, <1>5, <1>6, <1>7 DEF Next

(* Where the steps of each kind stand.                                     *)
LEMMA Places ==
  ASSUME Position, Onward
  PROVE  /\ table \in Tables /\ table' = table /\ job \in Jobs(table) \cup {End}
         /\ job' \in Jobs(table) \cup {End}
         /\ RemoveGroup \/ AppendGroup => job \in GroupJobs(table)
         /\ RemoveUser \/ RemoveShadow \/ AppendUser \/ AppendShadow =>
              job.line \in DOMAIN table /\ job \in Jobs(table) /\ job = UserJob(table, job.line, 0)
         /\ JoinGroup => /\ job.line \in DOMAIN table /\ job \in Jobs(table)
                         /\ job.part \in DOMAIN Rec.groups
                         /\ job = UserJob(table, job.line, job.part)
         /\ ChownHome => /\ job.line \in DOMAIN table /\ job \in Jobs(table)
                         /\ job = UserJob(table, job.line, Len(Rec.groups) + 1)
         /\ Finish => job = End
<1>1. table \in Tables /\ job \in Jobs(table) \cup {End}
  BY DEF Position, Going, Onward
<1>2. table' = table
  BY Steps DEF vars, files, bounds, RemoveGroup, AppendGroup, RemoveUser, RemoveShadow, AppendUser,
               AppendShadow, JoinGroup, ChownHome, Finish, GoTo, NextJob
<1>3. Going'
  BY Steps DEF Onward, Going, vars, files, bounds, RemoveGroup, AppendGroup, RemoveUser, RemoveShadow,
               AppendUser, AppendShadow, JoinGroup, ChownHome, Finish, GoTo, NextJob
<1>4. job' \in Jobs(table) \cup {End}
  BY <1>2, <1>3, PositionStep DEF Position, Onward
<1>. QED  BY <1>1, <1>2, <1>4, KindIs
          DEF RemoveGroup, AppendGroup, RemoveUser, RemoveShadow, AppendUser, AppendShadow,
              JoinGroup, ChownHome, Finish, At

(* A job for a group is for one of the groups of the table.                *)
LEMMA GroupNamed ==
  ASSUME table \in Tables, job \in GroupJobs(table)
  PROVE  GroupName = NameOf(table, job) /\ GroupName \in GroupsIn(table)
<1>1. /\ job.pass \in {1, 2, 3} /\ job.line \in DOMAIN table
      /\ job.pass = 3 => job.part \in DOMAIN table[job.line].groups
  BY JobIs DEF GroupJobs, MainJob, ExtraJob, UserJob
<1>2. /\ Passes[1] = "fixed groups" /\ Passes[2] = "automatic groups" /\ Passes[3] = "more groups"
  BY DEF Passes
<1>3. GroupName = NameOf(table, job)
  BY <1>1, <1>2 DEF GroupName, NameOf, Rec
<1>. QED  BY <1>1, <1>3 DEF NameOf, GroupsIn

(* What the run has behind it after a step.                                *)
LEMMA DoneMoves ==
  ASSUME Position, Onward
  PROVE  \/ /\ UNCHANGED <<table, job>>
            /\ \A j \in Jobs(table) : Done(j)' <=> Done(j)
         \/ /\ AppendGroup \/ AppendShadow \/ JoinGroup \/ ChownHome
            /\ step' = "start" /\ job \in Jobs(table) /\ Precedes(job, job')
            /\ \A j \in Jobs(table) : Done(j)' <=> Done(j) \/ j = job
<1>1. CASE AppendGroup \/ AppendShadow \/ JoinGroup \/ ChownHome
  <2>1. job \in Jobs(table) /\ table \in Tables /\ table' = table
    BY <1>1, Places DEF GroupJobs
  <2>2. NextJob /\ step' = "start"
    BY <1>1 DEF AppendGroup, AppendShadow, JoinGroup, ChownHome, NextJob
  <2>3. /\ Precedes(job, job')
        /\ \A j \in Jobs(table) : Precedes(j, job') <=> Precedes(j, job) \/ j = job
    BY <2>1, <2>2, Advances
  <2>. QED  BY <1>1, <2>1, <2>2, <2>3 DEF Done
<1>2. CASE ~(AppendGroup \/ AppendShadow \/ JoinGroup \/ ChownHome)
  <2>1. UNCHANGED <<table, job>>
    BY <1>2, Steps DEF vars, files, bounds, RemoveGroup, RemoveUser, RemoveShadow, AppendUser,
                       Finish, GoTo
  <2>. QED  BY <2>1 DEF Done
<1>. QED  BY <1>1, <1>2

(* A user is checked when it is removed, and written when it is appended.  *)
LEMMA CheckedMoves ==
  ASSUME Position, Onward, NEW i \in DOMAIN table
  PROVE  /\ Checked(i)' <=> Checked(i) \/ (RemoveUser /\ i = job.line)
         /\ Written(i)' <=> Written(i) \/ (AppendUser /\ i = job.line)
<1>. DEFINE u == UserJob(table, i, 0)
<1>1. table \in Tables /\ table' = table /\ i \in Nat
  BY Places, Table
<1>2. UserJob(table, i, 0)' = u
  BY <1>1
<1>3. job = u => job.line = i /\ job.part = 0 /\ job.pass \in {4, 5}
  BY DEF UserJob
<1>4. u # End
  BY PassesAre DEF UserJob, End
<1>5. (job' = u) \in BOOLEAN /\ (job = u) \in BOOLEAN
  OBVIOUS
<1>6. CASE RemoveGroup
  <2>1. UNCHANGED <<table, job>> /\ job # u
    BY <1>3, <1>6, Places DEF RemoveGroup, GoTo, GroupJobs
  <2>2. ~RemoveUser /\ ~AppendUser
    BY <1>6 DEF RemoveGroup, RemoveUser, AppendUser, At
  <2>. QED  BY <2>1, <2>2 DEF Checked, Written, At0, Done
<1>7. CASE RemoveUser
  <2>1. UNCHANGED <<table, job>> /\ step = "start" /\ step' = "shadow" /\ ~AppendUser
    BY <1>7 DEF RemoveUser, GoTo, At, AppendUser
  <2>2. job.line \in DOMAIN table /\ job = UserJob(table, job.line, 0)
    BY <1>7, Places
  <2>3. job = u <=> i = job.line
    BY <1>3, <2>2
  <2>. QED  BY <1>7, <2>1, <2>3 DEF Checked, Written, At0, Done
<1>8. CASE RemoveShadow
  BY <1>8 DEF RemoveShadow, GoTo, At, RemoveUser, AppendUser, Checked, Written, At0, Done
<1>9. CASE AppendUser
  <2>1. UNCHANGED <<table, job>> /\ step = "append" /\ step' = "appendShadow" /\ ~RemoveUser
    BY <1>9 DEF AppendUser, GoTo, At, RemoveUser
  <2>2. job.line \in DOMAIN table /\ job = UserJob(table, job.line, 0)
    BY <1>9, Places
  <2>3. job = u <=> i = job.line
    BY <1>3, <2>2
  <2>. QED  BY <1>9, <2>1, <2>3 DEF Checked, Written, At0, Done
<1>10. CASE AppendGroup \/ AppendShadow \/ JoinGroup \/ ChownHome
  <2>1. ~RemoveUser /\ ~AppendUser
    BY <1>10 DEF AppendGroup, AppendShadow, JoinGroup, ChownHome, At, RemoveUser, AppendUser
  <2>2. step' = "start" /\ job \in Jobs(table)
    BY <1>10, Places DEF AppendGroup, AppendShadow, JoinGroup, ChownHome, NextJob, GroupJobs
  <2>3. \A j \in Jobs(table) : Done(j)' <=> Done(j) \/ j = job
    <3>1. NextJob /\ table \in Tables
      BY <1>1, <1>10 DEF AppendGroup, AppendShadow, JoinGroup, ChownHome
    <3>. QED  BY <1>1, <2>2, <3>1, Advances DEF Done
  <2>4. Done(u)' <=> Done(u) \/ u = job
    BY <1>1, <2>2, <2>3 DEF Done
  <2>5. u = job => step = "appendShadow"
    <3>1. CASE AppendGroup
      BY <1>3, <3>1, Places DEF GroupJobs
    <3>2. CASE AppendShadow
      BY <3>2 DEF AppendShadow, At
    <3>3. CASE JoinGroup
      <4>1. job.part \in DOMAIN table[job.line].groups /\ job.line \in DOMAIN table
        BY <3>3, Places DEF Rec
      <4>2. job.part # 0
        BY <1>1, <4>1, Table
      <4>. QED  BY <1>3, <4>2
    <3>4. CASE ChownHome
      <4>1. job.part = Len(table[job.line].groups) + 1 /\ job.line \in DOMAIN table
        BY <3>4, Places DEF Rec, UserJob
      <4>2. job.part # 0
        BY <1>1, <4>1, Table
      <4>. QED  BY <1>3, <4>2
    <3>. QED  BY <1>10, <3>1, <3>2, <3>3, <3>4
  <2>6. Checked(i)' <=> Done(u)'
    BY <1>2, <2>2 DEF Checked
  <2>7. Written(i)' <=> Done(u)'
    BY <1>2, <2>2 DEF Written
  <2>. QED  BY <2>1, <2>4, <2>5, <2>6, <2>7 DEF Checked, Written, At0
<1>11. CASE Finish \/ UNCHANGED vars
  <2>1. UNCHANGED <<table, job, step>>
    BY <1>11 DEF Finish, vars, files, bounds
  <2>2. ~RemoveUser /\ ~AppendUser
    <3>1. CASE Finish
      BY <3>1 DEF Finish, At, RemoveUser, AppendUser
    <3>2. CASE UNCHANGED vars
      BY <3>2 DEF vars, RemoveUser, AppendUser, GoTo, At
    <3>. QED  BY <1>11, <3>1, <3>2
  <2>. QED  BY <2>1, <2>2 DEF Checked, Written, At0, Done
<1>. QED  BY <1>6, <1>7, <1>8, <1>9, <1>10, <1>11, Steps

(* Only add_user_to_group adds a member.                                   *)
LEMMA JoinedMoves ==
  ASSUME Position, Onward, NEW g
  PROVE  Joined(g)' = Joined(g) \cup (IF JoinGroup /\ Rec.groups[job.part] = g THEN {Rec.user} ELSE {})
<1>1. table \in Tables /\ table' = table
  BY Places
<1>2. ASSUME NEW l \in DOMAIN table, NEW k \in DOMAIN table[l].groups
      PROVE  Done(UserJob(table, l, k))' <=>
               \/ Done(UserJob(table, l, k))
               \/ JoinGroup /\ l = job.line /\ k = job.part
  <2>. DEFINE u == UserJob(table, l, k)
  <2>1. k \in Nat \ {0} /\ k # Len(table[l].groups) + 1
    BY <1>1, Table
  <2>2. u.line = l /\ u.part = k /\ u.pass \in {4, 5}
    BY DEF UserJob
  <2>3. CASE UNCHANGED <<table, job>>
    <3>1. ~JoinGroup
      <4>. SUFFICES ASSUME JoinGroup PROVE FALSE
        OBVIOUS
      <4>1. job \in Jobs(table) /\ NextJob
        BY Places DEF JoinGroup
      <4>2. Precedes(job, job)
        BY <1>1, <2>3, <4>1, Advances
      <4>. QED  BY <1>1, <4>1, <4>2, JobIs, InOrder
    <3>. QED  BY <2>3, <3>1 DEF Done
  <2>4. CASE /\ AppendGroup \/ AppendShadow \/ JoinGroup \/ ChownHome
             /\ job \in Jobs(table)
             /\ \A j \in Jobs(table) : Done(j)' <=> Done(j) \/ j = job
    <3>1. Done(u)' <=> Done(u) \/ u = job
      BY <1>1, <2>4 DEF Done
    <3>2. CASE JoinGroup
      <4>1. job.line \in DOMAIN table /\ job = UserJob(table, job.line, job.part)
        BY <3>2, Places
      <4>2. u = job <=> l = job.line /\ k = job.part
        BY <2>2, <4>1
      <4>. QED  BY <1>1, <3>1, <3>2, <4>2
    <3>3. CASE ~JoinGroup
      <4>1. u # job
        <5>1. CASE AppendGroup
          BY <2>2, <5>1, Places DEF GroupJobs
        <5>2. CASE AppendShadow
          BY <2>1, <2>2, <5>2, Places DEF UserJob
        <5>3. CASE ChownHome
          BY <2>1, <2>2, <5>3, Places DEF UserJob, Rec
        <5>. QED  BY <2>4, <3>3, <5>1, <5>2, <5>3
      <4>. QED  BY <1>1, <3>1, <3>3, <4>1
    <3>. QED  BY <3>2, <3>3
  <2>. QED  BY <2>3, <2>4, DoneMoves
<1>3. CASE JoinGroup /\ Rec.groups[job.part] = g
  <2>1. job.line \in DOMAIN table /\ job.part \in DOMAIN table[job.line].groups
        /\ table[job.line].groups[job.part] = g /\ Rec.user = table[job.line].user
    BY <1>3, Places DEF Rec
  <2>. QED  BY <1>1, <1>2, <1>3, <2>1 DEF Joined
<1>4. CASE ~(JoinGroup /\ Rec.groups[job.part] = g)
  <2>1. \A l \in DOMAIN table : \A k \in DOMAIN table[l].groups :
          table[l].groups[k] = g => (Done(UserJob(table, l, k))' <=> Done(UserJob(table, l, k)))
    BY <1>2, <1>4 DEF Rec
  <2>. QED  BY <1>1, <1>4, <2>1 DEF Joined
<1>. QED  BY <1>3, <1>4

(* The groups as they will be: a group that is taken away will be back     *)
(* with the gid that was chosen, and no other step changes a gid.          *)
LEMMA GroupView ==
  ASSUME Position, Onward, ~RemoveGroup
  PROVE  /\ GroupsToBe' = GroupsToBe
         /\ \A g \in GroupsToBe : GidToBe(g)' = GidToBe(g)
<1>1. CASE UNCHANGED vars
  BY <1>1 DEF vars, files, bounds, GroupsToBe, GidToBe, GroupOut, Between, Kind, Rec, GroupName
<1>2. CASE AppendGroup
  <2>1. /\ GroupOut /\ ~GroupOut'
        /\ DOMAIN group' = DOMAIN group \cup {GroupName}
        /\ group'[GroupName].gid = id
        /\ \A g \in DOMAIN group : g # GroupName => group'[g] = group[g]
    BY <1>2 DEF AppendGroup, At, GroupOut, Between, NextJob, With
  <2>. QED  BY <2>1 DEF GroupsToBe, GidToBe
<1>3. CASE JoinGroup
  <2>1. /\ ~GroupOut /\ ~GroupOut' /\ DOMAIN group' = DOMAIN group
    BY <1>3 DEF JoinGroup, At, GroupOut, Between, NextJob
  <2>2. \A g \in DOMAIN group : group'[g].gid = group[g].gid
    BY <1>3 DEF JoinGroup
  <2>. QED  BY <2>1, <2>2 DEF GroupsToBe, GidToBe
<1>4. CASE RemoveUser \/ RemoveShadow \/ AppendUser
  BY <1>4 DEF RemoveUser, RemoveShadow, AppendUser, At, GoTo, GroupsToBe, GidToBe, GroupOut, Between,
              Kind, Rec, GroupName
<1>5. CASE AppendShadow \/ ChownHome \/ Finish
  <2>1. ~GroupOut /\ ~GroupOut' /\ group' = group
    BY <1>5 DEF AppendShadow, ChownHome, Finish, files, At, GroupOut, Between, NextJob
  <2>. QED  BY <2>1 DEF GroupsToBe, GidToBe
<1>. QED  BY <1>1, <1>2, <1>3, <1>4, <1>5, Steps

LEMMA LowestGid == FreeGids # {} => Lowest(FreeGids) \in FreeGids
<1>1. FreeGids \subseteq Nat
  BY UsersAssumption DEF FreeGids, Ids
<1>. QED  BY <1>1, LeastExists DEF Lowest

(* The group that is taken away: its gid is that of its line, or its own,  *)
(* or free.                                                                *)
LEMMA GroupTaken ==
  ASSUME Position, Onward, RemoveGroup
  PROVE  /\ GroupName = NameOf(table, job) /\ ~GroupOut /\ GroupsToBe = DOMAIN group
         /\ DOMAIN group' = DOMAIN group \ {GroupName}
         /\ \A g \in DOMAIN group' : group'[g] = group[g]
         /\ GroupsToBe' = GroupsToBe \cup {GroupName}
         /\ \A g \in GroupsToBe : g # GroupName => GidToBe(g)' = GidToBe(g)
         /\ \A g : g = GroupName => GidToBe(g)' = id'
         /\ \/ /\ job = MainJob(table, job.line) /\ job.line \in DOMAIN table
               /\ Rec.gid # AutoId /\ GroupName = Rec.group /\ id' = Rec.gid
            \/ GroupName \in GroupsToBe /\ id' = GidToBe(GroupName)
            \/ GroupName \notin GroupsToBe /\ id' \in FreeGids
<1>1. table \in Tables /\ job \in GroupJobs(table) /\ job \in Jobs(table) /\ job.line \in DOMAIN table
  BY Places, JobIs DEF GroupJobs
<1>2. job.pass \in {1, 2, 3}
  BY <1>1, JobIs DEF GroupJobs, MainJob, ExtraJob, UserJob
<1>3. /\ Passes[1] = "fixed groups" /\ Passes[2] = "automatic groups" /\ Passes[3] = "more groups"
  BY DEF Passes
<1>4. GroupName = NameOf(table, job)
  BY <1>1, GroupNamed
<1>5. /\ ~GroupOut /\ GroupOut' /\ UNCHANGED <<table, job>> /\ id' \in GroupIds
      /\ DOMAIN group' = DOMAIN group \ {GroupName}
      /\ \A g \in DOMAIN group' : group'[g] = group[g]
  BY DEF RemoveGroup, At, GoTo, GroupOut, Between, Without, Kind, Rec
<1>6. GroupName' = GroupName
  BY <1>5 DEF GroupName, Rec
<1>7. GroupsToBe = DOMAIN group /\ GroupsToBe' = GroupsToBe \cup {GroupName}
  BY <1>5, <1>6 DEF GroupsToBe
<1>8. \A g \in GroupsToBe : g # GroupName => GidToBe(g)' = GidToBe(g)
  BY <1>5, <1>6, <1>7 DEF GidToBe
<1>9. \A g : g = GroupName => GidToBe(g)' = id'
  BY <1>5, <1>6 DEF GidToBe
<1>10. CASE job.pass = 1
  <2>1. job = MainJob(table, job.line) /\ table[job.line].gid # AutoId
    BY <1>1, <1>10, JobIs DEF MainJob, ExtraJob, UserJob
  <2>2. id' = Rec.gid /\ GroupName = Rec.group
    BY <1>3, <1>5, <1>10 DEF GroupIds, GroupName
  <2>. QED  BY <1>1, <1>4, <1>5, <1>7, <1>8, <1>9, <2>1, <2>2 DEF Rec
<1>11. CASE job.pass # 1
  <2>1. id' \in GenerateGid(GroupName)
    BY <1>2, <1>3, <1>5, <1>11 DEF GroupIds
  <2>2. CASE GroupName \in DOMAIN group
    <3>1. id' = GidToBe(GroupName)
      BY <1>5, <2>1, <2>2 DEF GenerateGid, GidToBe
    <3>. QED  BY <1>4, <1>5, <1>7, <1>8, <1>9, <2>2, <3>1
  <2>3. CASE GroupName \notin DOMAIN group
    <3>1. id' \in FreeGids
      BY <2>1, <2>3, LowestGid DEF GenerateGid
    <3>. QED  BY <1>4, <1>5, <1>7, <1>8, <1>9, <2>3, <3>1
  <2>. QED  BY <2>2, <2>3
<1>. QED  BY <1>10, <1>11

(* The same for the users: a user that is taken away keeps its uid.        *)
LEMMA UserView ==
  ASSUME Position, Onward
  PROVE  /\ UsersToBe' = UsersToBe \cup (IF RemoveUser THEN {Rec.user} ELSE {})
         /\ \A u \in UsersToBe : UidToBe(u)' = UidToBe(u)
         /\ ShadowToBe' = ShadowToBe \cup (IF RemoveUser THEN {Rec.user} ELSE {})
<1>1. CASE UNCHANGED vars
  <2>1. ~RemoveUser
    BY <1>1 DEF vars, RemoveUser, GoTo, At
  <2>. QED
    BY <1>1, <2>1 DEF vars, files, bounds, UsersToBe, UidToBe, ShadowToBe, UserOut, ShadowOut,
                      Between, Kind, Rec
<1>2. CASE RemoveUser
  <2>1. /\ ~UserOut /\ UserOut' /\ ~ShadowOut /\ ShadowOut' /\ UNCHANGED <<table, job, shadow>>
        /\ Valid(Rec) /\ id' \in UserIds
        /\ DOMAIN passwd' = DOMAIN passwd \ {Rec.user}
        /\ \A u \in DOMAIN passwd' : passwd'[u] = passwd[u]
    BY <1>2 DEF RemoveUser, At, GoTo, UserOut, ShadowOut, Between, Without, Kind, Rec
  <2>2. Rec' = Rec
    BY <2>1 DEF Rec
  <2>3. Rec.user \in DOMAIN passwd => id' = passwd[Rec.user].uid
    BY <2>1 DEF Valid, UidValid, UserIds, GenerateUid
  <2>. QED  BY <1>2, <2>1, <2>2, <2>3 DEF UsersToBe, UidToBe, ShadowToBe
<1>3. CASE RemoveShadow
  <2>1. ~RemoveUser /\ UserOut /\ UserOut' /\ ShadowOut /\ ShadowOut'
        /\ UNCHANGED <<table, job, passwd, id>> /\ shadow' = shadow \ {Rec.user}
    BY <1>3 DEF RemoveShadow, RemoveUser, At, GoTo, UserOut, ShadowOut, Between, Kind, Rec
  <2>2. Rec' = Rec
    BY <2>1 DEF Rec
  <2>. QED  BY <2>1, <2>2 DEF UsersToBe, UidToBe, ShadowToBe
<1>4. CASE AppendUser
  <2>1. /\ ~RemoveUser /\ UserOut /\ ~UserOut' /\ ShadowOut /\ ShadowOut'
        /\ UNCHANGED <<table, job, shadow, id>>
        /\ DOMAIN passwd' = DOMAIN passwd \cup {Rec.user} /\ passwd'[Rec.user].uid = id
        /\ \A u \in DOMAIN passwd : u # Rec.user => passwd'[u] = passwd[u]
    BY <1>4 DEF AppendUser, RemoveUser, At, GoTo, UserOut, ShadowOut, Between, With, Kind, Rec
  <2>2. Rec' = Rec
    BY <2>1 DEF Rec
  <2>. QED  BY <2>1, <2>2 DEF UsersToBe, UidToBe, ShadowToBe
<1>5. CASE AppendShadow
  <2>1. ~RemoveUser /\ ~UserOut /\ ~UserOut' /\ ShadowOut /\ ~ShadowOut'
        /\ UNCHANGED <<passwd>> /\ shadow' = shadow \cup {Rec.user}
    BY <1>5 DEF AppendShadow, RemoveUser, At, NextJob, UserOut, ShadowOut, Between
  <2>. QED  BY <2>1 DEF UsersToBe, UidToBe, ShadowToBe
<1>6. CASE RemoveGroup \/ AppendGroup \/ JoinGroup \/ ChownHome \/ Finish
  <2>1. /\ ~RemoveUser /\ ~UserOut /\ ~ShadowOut /\ UNCHANGED <<passwd, shadow>>
    BY <1>6 DEF RemoveGroup, AppendGroup, JoinGroup, ChownHome, Finish, files, At, RemoveUser,
                UserOut, ShadowOut, Between
  <2>2. ~UserOut' /\ ~ShadowOut'
    <3>1. CASE RemoveGroup
      BY <3>1 DEF RemoveGroup, At, GoTo, UserOut, ShadowOut, Between, Kind, Rec
    <3>2. CASE AppendGroup \/ JoinGroup \/ ChownHome \/ Finish
      BY <3>2 DEF AppendGroup, JoinGroup, ChownHome, Finish, At, NextJob, UserOut, ShadowOut, Between
    <3>. QED  BY <1>6, <3>1, <3>2
  <2>. QED  BY <2>1, <2>2 DEF UsersToBe, UidToBe, ShadowToBe
<1>. QED  BY <1>1, <1>2, <1>3, <1>4, <1>5, <1>6, Steps

-----------------------------------------------------------------------------
(* The invariants, one by one.                                             *)

LEMMA OneLineStep ==
  ASSUME OneLineEach, [Next]_vars
  PROVE  OneLineEach'
<1>1. CASE UNCHANGED <<group, passwd>>
  BY <1>1 DEF OneLineEach
<1>2. CASE RemoveGroup \/ AppendGroup
  BY <1>2 DEF RemoveGroup, AppendGroup, Without, With, OneLineEach
<1>3. CASE RemoveUser \/ AppendUser
  BY <1>3 DEF RemoveUser, AppendUser, Without, With, OneLineEach
<1>4. CASE JoinGroup
  BY <1>4 DEF JoinGroup, OneLineEach
<1>5. CASE \/ UNCHANGED vars \/ (\E t \in Tables : Run(t)) \/ NoGid \/ Reject \/ BadHome \/ Kill
           \/ RemoveShadow \/ AppendShadow \/ ChownHome \/ Finish
  BY <1>1, <1>5 DEF vars, files, Run, NoGid, Reject, BadHome, Kill, Fail, RemoveShadow, AppendShadow,
                    ChownHome, Finish
<1>. QED  BY <1>1, <1>2, <1>3, <1>4, <1>5 DEF Next

(* The users come after all groups: none of the groups is out, and those   *)
(* of their lines are there.                                               *)
LEMMA GroupsReady ==
  ASSUME Position, Created, pc = "run", NEW i \in DOMAIN table, NEW k \in Nat,
         UserJob(table, i, k) \in Jobs(table),
         job = UserJob(table, i, k) \/ Precedes(UserJob(table, i, k), job)
  PROVE  /\ ~GroupOut
         /\ \A l \in DOMAIN table :
              /\ table[l].gid >= AutoId => table[l].group \in DOMAIN group
              /\ \A m \in DOMAIN table[l].groups : table[l].groups[m] \in DOMAIN group
<1>1. table \in Tables /\ job \in Jobs(table) \cup {End}
  BY DEF Position, Going
<1>2. job.pass >= 4 /\ job.pass \in Nat
  <2>1. UserJob(table, i, k) \in Positions /\ job \in Positions
    BY <1>1, JobIs, EndLast
  <2>. QED  BY <2>1 DEF UserJob, Precedes, Positions
<1>3. ~GroupOut /\ GroupsToBe = DOMAIN group
  <2>1. job \notin GroupJobs(table)
    BY <1>2 DEF GroupJobs
  <2>2. Kind # "group"
    BY <1>1, <2>1, KindIs
  <2>. QED  BY <2>2 DEF GroupOut, Between, GroupsToBe
<1>4. ASSUME NEW j \in GroupJobs(table) PROVE NameOf(table, j) \in DOMAIN group
  <2>1. j \in Jobs(table) /\ j.pass <= 3 /\ j.pass \in Nat
    BY <1>1, JobIs DEF GroupJobs, Positions
  <2>2. Done(j)
    BY <1>2, <2>1 DEF Done, Precedes
  <2>. QED  BY <1>3, <2>2 DEF Created, Going
<1>5. ASSUME NEW l \in DOMAIN table, table[l].gid >= AutoId PROVE table[l].group \in DOMAIN group
  <2>1. MainJob(table, l) \in GroupJobs(table)
    BY <1>1, <1>5, JobsOfLine DEF GroupJobs, MainJob
  <2>2. NameOf(table, MainJob(table, l)) = table[l].group
    BY DEF NameOf, MainJob
  <2>. QED  BY <1>4, <2>1, <2>2
<1>6. ASSUME NEW l \in DOMAIN table, NEW m \in DOMAIN table[l].groups
      PROVE  table[l].groups[m] \in DOMAIN group
  <2>1. ExtraJob(l, m) \in GroupJobs(table)
    BY <1>1, JobsOfLine DEF GroupJobs, ExtraJob
  <2>2. NameOf(table, ExtraJob(l, m)) = table[l].groups[m]
    BY DEF NameOf, ExtraJob
  <2>. QED  BY <1>4, <2>1, <2>2
<1>. QED  BY <1>3, <1>5, <1>6

(* Nobody joins before all groups are written.                             *)
LEMMA NobodyYet ==
  ASSUME Position, Onward, RemoveGroup \/ AppendGroup, NEW g
  PROVE  Joined(g)' = {}
<1>1. table \in Tables /\ table' = table /\ job \in Jobs(table) /\ job.pass <= 3 /\ job.pass \in Nat
  BY Places, JobIs DEF GroupJobs, Positions
<1>2. ASSUME NEW l \in DOMAIN table, NEW k \in DOMAIN table[l].groups,
             Done(UserJob(table, l, k))
      PROVE  FALSE
  BY <1>1, <1>2 DEF Done, Precedes, UserJob
<1>3. Joined(g) = {}
  BY <1>2 DEF Joined
<1>4. ~JoinGroup
  BY DEF RemoveGroup, AppendGroup, JoinGroup, At
<1>. QED  BY <1>3, <1>4, JoinedMoves

(* Whatever pass writes a group again, its members come later.             *)
LEMMA CreatedStep ==
  ASSUME Position, Created, Onward
  PROVE  Created'
<1>1. table \in Tables /\ table' = table /\ Going /\ \A j \in GroupJobs(table) : j \in Jobs(table)
  BY Places DEF GroupJobs, Onward, Going
<1>. DEFINE Fine(j) == /\ NameOf(table, j) \in GroupsToBe
                       /\ NameOf(table, j) \in DOMAIN group =>
                            group[NameOf(table, j)] = [gid |-> group[NameOf(table, j)].gid,
                                                       members |-> Joined(NameOf(table, j))]
<1>2. \A j \in GroupJobs(table) : Done(j) => Fine(j)
  BY <1>1 DEF Created
<1>. SUFFICES ASSUME NEW j \in GroupJobs(table), Done(j)' PROVE Fine(j)'
  BY <1>1 DEF Created
<1>0. PICK n : n = NameOf(table, j)
  OBVIOUS
<1>3. NameOf(table, j) = n /\ NameOf(table, j)' = n
  BY <1>0, <1>1
<1>4. CASE RemoveGroup
  <2>1. Done(j)
    BY <1>1, <1>4 DEF RemoveGroup, GoTo, Done
  <2>2. n \in GroupsToBe' /\ (n \in DOMAIN group' => n \in DOMAIN group /\ group'[n] = group[n])
    BY <1>2, <1>3, <1>4, <2>1, GroupTaken
  <2>3. Joined(n)' = {} /\ Joined(n) = {}
    BY <1>4, NobodyYet, JoinedMoves
  <2>4. n \in DOMAIN group' => group'[n] = [gid |-> group'[n].gid, members |-> Joined(n)']
    <3>1. n \in DOMAIN group => group[n] = [gid |-> group[n].gid, members |-> Joined(n)]
      BY <1>2, <1>3, <2>1
    <3>. QED  BY <2>2, <2>3, <3>1
  <2>. QED  BY <1>3, <2>2, <2>4
<1>5. CASE AppendGroup
  <2>1. Done(j) \/ j = job
    <3>1. job \in Jobs(table) /\ NextJob
      BY <1>1, <1>5, Places DEF AppendGroup
    <3>. QED  BY <1>1, <3>1, Advances DEF Done
  <2>2. /\ GroupsToBe' = DOMAIN group' /\ DOMAIN group' = DOMAIN group \cup {GroupName}
        /\ GroupsToBe = DOMAIN group'
        /\ group'[GroupName] = [gid |-> id, members |-> {}]
        /\ \A g \in DOMAIN group : g # GroupName => group'[g] = group[g]
    BY <1>5 DEF AppendGroup, At, NextJob, With, GroupsToBe, GroupOut, Between
  <2>3. Joined(n)' = {} /\ Joined(n) = {}
    BY <1>5, NobodyYet, JoinedMoves
  <2>4. GroupName = NameOf(table, job)
    BY <1>1, <1>5, Places, GroupNamed
  <2>5. n \in GroupsToBe
    BY <1>2, <1>3, <2>1, <2>2, <2>4
  <2>6. CASE n = GroupName
    BY <1>3, <2>2, <2>3, <2>5, <2>6
  <2>7. CASE n # GroupName
    <3>1. n \in DOMAIN group /\ group[n] = [gid |-> group[n].gid, members |-> {}]
      BY <1>2, <1>3, <2>1, <2>2, <2>3, <2>4, <2>5, <2>7
    <3>. QED  BY <1>3, <2>2, <2>3, <2>5, <2>7, <3>1
  <2>. QED  BY <2>6, <2>7
<1>6. CASE JoinGroup
  <2>1. Done(j)
    <3>1. job = UserJob(table, job.line, job.part) /\ job \in Jobs(table) /\ NextJob
      BY <1>6, Places DEF JoinGroup
    <3>2. j # job
      BY <3>1 DEF GroupJobs, UserJob
    <3>. QED  BY <1>1, <3>1, <3>2, Advances DEF Done
  <2>2. /\ n \in GroupsToBe' /\ DOMAIN group' = DOMAIN group
        /\ \A g \in DOMAIN group : group'[g] = IF g = Rec.groups[job.part]
                                              THEN [group[g] EXCEPT !.members = @ \cup {Rec.user}]
                                              ELSE group[g]
    <3>1. ~RemoveGroup
      BY <1>6 DEF JoinGroup, RemoveGroup, At
    <3>. QED  BY <1>2, <1>3, <1>6, <2>1, <3>1, GroupView DEF JoinGroup
  <2>3. Joined(n)' = Joined(n) \cup (IF Rec.groups[job.part] = n THEN {Rec.user} ELSE {})
    BY <1>6, JoinedMoves
  <2>4. n \in DOMAIN group => group[n] = [gid |-> group[n].gid, members |-> Joined(n)]
    BY <1>2, <1>3, <2>1
  <2>5. n \in DOMAIN group' => group'[n] = [gid |-> group'[n].gid, members |-> Joined(n)']
    <3>. SUFFICES ASSUME n \in DOMAIN group
                  PROVE  group'[n] = [gid |-> group'[n].gid, members |-> Joined(n)']
      BY <2>2
    <3>1. CASE n = Rec.groups[job.part]
      <4>1. group'[n] = [group[n] EXCEPT !.members = @ \cup {Rec.user}]
        BY <2>2, <3>1
      <4>2. Joined(n)' = Joined(n) \cup {Rec.user}
        BY <2>3, <3>1
      <4>. QED  BY <2>4, <4>1, <4>2
    <3>2. CASE n # Rec.groups[job.part]
      BY <2>2, <2>3, <2>4, <3>2
    <3>. QED  BY <3>1, <3>2
  <2>. QED  BY <1>3, <2>2, <2>5
<1>7. CASE \/ RemoveUser \/ RemoveShadow \/ AppendUser \/ AppendShadow \/ ChownHome
           \/ Finish \/ UNCHANGED vars
  <2>1. group' = group /\ ~JoinGroup /\ ~RemoveGroup
    <3>1. CASE UNCHANGED vars
      <4>1. ~JoinGroup
        <5>. SUFFICES ASSUME JoinGroup PROVE FALSE
          OBVIOUS
        <5>1. job \in Jobs(table) /\ NextJob /\ job' = job
          BY <3>1, Places DEF JoinGroup, vars
        <5>2. Precedes(job, job)
          BY <1>1, <5>1, Advances
        <5>. QED  BY <1>1, <5>1, <5>2, JobIs, InOrder
      <4>. QED  BY <3>1, <4>1 DEF vars, files, RemoveGroup, At, GoTo
    <3>2. CASE RemoveUser \/ RemoveShadow \/ AppendUser \/ AppendShadow \/ ChownHome \/ Finish
      BY <3>2 DEF RemoveUser, RemoveShadow, AppendUser, AppendShadow, ChownHome, Finish, files,
                  At, JoinGroup, RemoveGroup
    <3>. QED  BY <1>7, <3>1, <3>2
  <2>2. Done(j)
    <3>1. CASE UNCHANGED <<table, job>>
      BY <3>1 DEF Done
    <3>2. CASE AppendShadow \/ ChownHome
      <4>1. j # job
        BY <3>2, Places DEF GroupJobs, UserJob
      <4>2. job \in Jobs(table) /\ NextJob
        BY <3>2, Places DEF AppendShadow, ChownHome
      <4>. QED  BY <1>1, <4>1, <4>2, Advances DEF Done
    <3>. QED  BY <1>7, <3>1, <3>2 DEF Finish, vars, RemoveUser, RemoveShadow, AppendUser, GoTo
  <2>3. Joined(n)' = Joined(n)
    BY <2>1, JoinedMoves
  <2>4. GroupsToBe' = GroupsToBe
    BY <2>1, GroupView
  <2>. QED  BY <1>2, <1>3, <2>1, <2>2, <2>3, <2>4
<1>. QED  BY <1>4, <1>5, <1>6, <1>7, Steps

(* Once the run has come to a user, it changes no gid any more.            *)
LEMMA GidsStay ==
  ASSUME Position, Created, Onward, NEW i \in DOMAIN table, NEW k \in Nat,
         UserJob(table, i, k) \in Jobs(table),
         job = UserJob(table, i, k) \/ Precedes(UserJob(table, i, k), job)
  PROVE  DOMAIN group' = DOMAIN group /\ \A g \in DOMAIN group : group'[g].gid = group[g].gid
<1>1. ~(RemoveGroup \/ AppendGroup)
  <2>. SUFFICES ASSUME RemoveGroup \/ AppendGroup PROVE FALSE
    OBVIOUS
  <2>1. table \in Tables /\ job \in Jobs(table) /\ job.pass <= 3 /\ job.pass \in Nat
    BY Places, JobIs DEF GroupJobs, Positions
  <2>. QED  BY <2>1 DEF UserJob, Precedes
<1>2. CASE JoinGroup
  BY <1>2 DEF JoinGroup
<1>3. CASE ~JoinGroup
  <2>1. group' = group
    BY <1>1, <1>3, Steps DEF vars, files, RemoveUser, RemoveShadow, AppendUser, AppendShadow,
                             ChownHome, Finish
  <2>. QED  BY <2>1
<1>. QED  BY <1>2, <1>3

(* A user that is past its checks is at or before the job of the run.      *)
LEMMA CheckedJob ==
  ASSUME Position, Going, NEW i \in DOMAIN table, Checked(i)
  PROVE  /\ UserJob(table, i, 0) \in Jobs(table)
         /\ job = UserJob(table, i, 0) \/ Precedes(UserJob(table, i, 0), job)
<1>1. table \in Tables /\ job \in Jobs(table) \cup {End}
  BY DEF Position
<1>2. UserJob(table, i, 0) # End
  BY PassesAre DEF UserJob, End
<1>. QED  BY <1>1, <1>2 DEF Checked, Done, At0

(* The checks make the ids of the line those of the files, and no later    *)
(* job changes them.                                                       *)
LEMMA SettledStep ==
  ASSUME Position, Created, Settled, Onward
  PROVE  Settled'
<1>1. table \in Tables /\ table' = table /\ Going /\ pc = "run"
  BY Places DEF Onward, Going
<1>. SUFFICES ASSUME NEW i \in DOMAIN table, Checked(i)'
              PROVE  (/\ table[i].gid >= AutoId
                      /\ table[i].gid # AutoId => group[table[i].group].gid = table[i].gid
                      /\ table[i].user \in UsersToBe \cap ShadowToBe
                      /\ table[i].uid # AutoId => UidToBe(table[i].user) = table[i].uid)'
  BY <1>1 DEF Settled
<1>. DEFINE r == table[i]
<1>2. CASE Checked(i)
  <2>1. /\ r.gid >= AutoId
        /\ r.gid # AutoId => group[r.group].gid = r.gid
        /\ r.user \in UsersToBe \cap ShadowToBe
        /\ r.uid # AutoId => UidToBe(r.user) = r.uid
    BY <1>1, <1>2 DEF Settled
  <2>2. /\ UserJob(table, i, 0) \in Jobs(table)
        /\ job = UserJob(table, i, 0) \/ Precedes(UserJob(table, i, 0), job)
    BY <1>1, <1>2, CheckedJob
  <2>3. r.group \in DOMAIN group
    BY <1>1, <2>1, <2>2, GroupsReady
  <2>4. r.gid # AutoId => group'[r.group].gid = r.gid
    BY <2>1, <2>2, <2>3, GidsStay
  <2>5. PICK u : u = r.user
    OBVIOUS
  <2>6. u \in UsersToBe' /\ u \in ShadowToBe' /\ UidToBe(u)' = UidToBe(u)
    BY <2>1, <2>5, UserView
  <2>. QED  BY <1>1, <2>1, <2>4, <2>5, <2>6
<1>3. CASE RemoveUser /\ i = job.line
  <2>1. job = UserJob(table, i, 0) /\ job \in Jobs(table) /\ Rec = r
    BY <1>3, Places DEF Rec
  <2>2. Valid(r) /\ id' \in UserIds /\ group' = group
    BY <1>3, <2>1 DEF RemoveUser
  <2>3. r.gid >= AutoId
    BY <2>2 DEF Valid, GidValid
  <2>4. r.group \in DOMAIN group
    BY <1>1, <2>1, <2>3, GroupsReady
  <2>5. r.gid # AutoId => group[r.group].gid = r.gid
    BY <2>2, <2>4 DEF Valid, GidValid
  <2>6. PICK u : u = r.user
    OBVIOUS
  <2>7. u \in UsersToBe' /\ u \in ShadowToBe'
    BY <1>3, <2>1, <2>6, UserView
  <2>8. UidToBe(u)' = id'
    <3>1. UserOut' /\ Rec' = Rec
      BY <1>3 DEF RemoveUser, At, GoTo, UserOut, Between, Kind, Rec
    <3>. QED  BY <2>1, <2>6, <3>1 DEF UidToBe
  <2>9. r.uid # AutoId => id' = r.uid
    BY <2>1, <2>2 DEF UserIds
  <2>. QED  BY <1>1, <2>2, <2>3, <2>5, <2>6, <2>7, <2>8, <2>9
<1>. QED  BY <1>2, <1>3, CheckedMoves

(* From its checks on, the main group of a user is there.                  *)
LEMMA BelongsReady ==
  ASSUME Position, Created, Settled, pc = "run", NEW i \in DOMAIN table,
         \/ Checked(i)
         \/ i = job.line /\ (Kind \in {"join", "home"} \/ (Kind = "user" /\ step # "start"))
  PROVE  Checked(i) /\ table[i].group \in DOMAIN group
<1>1. table \in Tables /\ job \in Jobs(table) \cup {End} /\ Going
  BY DEF Position, Going
<1>2. Checked(i)
  <2>1. CASE i = job.line /\ Kind = "user" /\ step # "start"
    BY <1>1, <2>1, KindIs DEF Checked, At0
  <2>2. ASSUME i = job.line, NEW k \in 1 .. Len(table[i].groups) + 1,
               job = UserJob(table, i, k), job \in Jobs(table)
        PROVE  Checked(i)
    <3>1. Len(table[i].groups) \in Nat
      BY <1>1, Table
    <3>2. UserJob(table, i, 0) \in Jobs(table)
      BY <1>1, <2>2, <3>1, UserJobs
    <3>3. Precedes(UserJob(table, i, 0), job)
      BY <2>2, <3>1 DEF Precedes, UserJob
    <3>. QED  BY <3>2, <3>3 DEF Checked, Done
  <2>3. CASE i = job.line /\ Kind \in {"join", "home"}
    <3>1. Len(table[i].groups) \in Nat /\ DOMAIN table[i].groups = 1 .. Len(table[i].groups)
      BY <1>1, Table
    <3>2. Rec = table[i]
      BY <2>3 DEF Rec
    <3>3. CASE Kind = "join"
      <4>1. job.part \in 1 .. Len(table[i].groups) + 1
        BY <1>1, <3>1, <3>2, <3>3, KindIs
      <4>. QED  BY <1>1, <2>2, <2>3, <3>3, <4>1, KindIs
    <3>4. CASE Kind = "home"
      <4>1. Len(table[i].groups) + 1 \in 1 .. Len(table[i].groups) + 1
        BY <3>1
      <4>. QED  BY <1>1, <2>2, <2>3, <3>2, <3>4, <4>1, KindIs
    <3>. QED  BY <2>3, <3>3, <3>4
  <2>. QED  BY <2>1, <2>3
<1>3. table[i].gid >= AutoId
  BY <1>1, <1>2 DEF Settled
<1>. QED  BY <1>1, <1>2, <1>3, CheckedJob, GroupsReady

(* What follows a user's line is the rest of its own record.               *)
LEMMA CurrentStep ==
  ASSUME Position, Created, Settled, Current, Onward
  PROVE  Current'
<1>1. table \in Tables /\ table' = table /\ job' \in Jobs(table) \cup {End} /\ pc = "run"
  BY Places DEF Onward
<1>. DEFINE Rest == Kind \in {"join", "home"} \/ (Kind = "user" /\ step = "appendShadow")
            Entry == Rec.user \in DOMAIN passwd
                     /\ passwd[Rec.user] = [uid |-> id, gid |-> group[Rec.group].gid]
<1>. SUFFICES ASSUME pc' = "run", Rest' PROVE Entry'
  BY DEF Current
<1>2. Rest => Entry
  BY <1>1 DEF Current
<1>3. CASE UNCHANGED vars
  <2>1. Rest
    BY <1>3 DEF vars, Kind, Rec
  <2>. QED  BY <1>2, <1>3, <2>1 DEF vars, files, Rec
<1>4. CASE AppendUser
  <2>1. Rec' = Rec
    BY <1>4 DEF AppendUser, GoTo, Rec
  <2>. QED  BY <1>4, <2>1 DEF AppendUser, With
<1>5. CASE RemoveGroup \/ RemoveUser \/ RemoveShadow
  <2>1. ~Rest'
    BY <1>5 DEF RemoveGroup, RemoveUser, RemoveShadow, At, GoTo, Kind, Rec
  <2>. QED  BY <2>1
<1>6. CASE AppendGroup \/ AppendShadow \/ JoinGroup \/ ChownHome
  <2>1. job \in Jobs(table) /\ job \in Positions /\ step' = "start"
        /\ Precedes(job, job')
        /\ \A j \in Jobs(table) : Precedes(j, job') <=> Precedes(j, job) \/ j = job
    <3>1. job \in Jobs(table) /\ NextJob
      BY <1>6, Places DEF GroupJobs, AppendGroup, AppendShadow, JoinGroup, ChownHome
    <3>. QED  BY <1>1, <3>1, Advances, JobIs DEF NextJob
  <2>2. Kind' \in {"join", "home"}
    BY <2>1
  <2>3. PICK l \in DOMAIN table, k \in Nat :
           k \in 0 .. Len(table[l].groups) + 1 /\ k # 0 /\ job' = UserJob(table, l, k)
    <3>0. Kind' = "join" \/ Kind' = "home"
      BY <2>2
    <3>1. /\ Kind' = "join" => /\ job' \in Jobs(table) /\ job'.line \in DOMAIN table
                               /\ job'.part \in DOMAIN table[job'.line].groups
                               /\ job' = UserJob(table, job'.line, job'.part)
          /\ Kind' = "home" => /\ job' \in Jobs(table) /\ job'.line \in DOMAIN table
                               /\ job' = UserJob(table, job'.line, Len(table[job'.line].groups) + 1)
      <4>1. (table \in Tables /\ job \in Jobs(table) \cup {End})'
        BY <1>1
      <4>2. (/\ Kind = "join" => /\ job \in Jobs(table) /\ job.line \in DOMAIN table
                                 /\ job.part \in DOMAIN Rec.groups
                                 /\ job = UserJob(table, job.line, job.part)
             /\ Kind = "home" => /\ job \in Jobs(table) /\ job.line \in DOMAIN table
                                 /\ job = UserJob(table, job.line, Len(Rec.groups) + 1))'
        BY <4>1, KindIs, PTL
      <4>. QED  BY <1>1, <4>2 DEF Rec
    <3>2. job'.line \in DOMAIN table => /\ Len(table[job'.line].groups) \in Nat
                                      /\ DOMAIN table[job'.line].groups = 1 .. Len(table[job'.line].groups)
      BY <1>1, Table
    <3>3. CASE Kind' = "join"
      BY <3>1, <3>2, <3>3
    <3>4. CASE Kind' = "home"
      BY <3>1, <3>2, <3>4
    <3>. QED  BY <3>0, <3>3, <3>4
  <2>4. job = UserJob(table, l, k - 1)
    <3>1. /\ UserJob(table, l, k - 1) \in Jobs(table)
          /\ Precedes(UserJob(table, l, k - 1), job')
          /\ \A j \in Positions : Precedes(j, job') => j = UserJob(table, l, k - 1)
                                                   \/ Precedes(j, UserJob(table, l, k - 1))
      BY <1>1, <2>3, Follows
    <3>2. job = UserJob(table, l, k - 1) \/ Precedes(job, UserJob(table, l, k - 1))
      BY <2>1, <3>1
    <3>3. UserJob(table, l, k - 1) = job \/ Precedes(UserJob(table, l, k - 1), job)
      BY <2>1, <3>1
    <3>4. UserJob(table, l, k - 1) \in Positions
      BY <1>1, <3>1, JobIs
    <3>. QED  BY <2>1, <3>2, <3>3, <3>4, InOrder
  <2>5. Rec' = Rec /\ job.line = l
    BY <1>1, <2>3, <2>4 DEF Rec, UserJob
  <2>6. /\ ~AppendGroup
        /\ Rest
    <3>1. job \notin GroupJobs(table)
      BY <2>4 DEF GroupJobs, UserJob
    <3>2. ~AppendGroup
      BY <3>1, Places
    <3>. QED  BY <1>6, <3>2 DEF AppendShadow, JoinGroup, ChownHome, At
  <2>7. Entry
    BY <1>2, <2>6
  <2>8. UNCHANGED <<passwd, id>>
    BY <1>6, <2>6 DEF AppendShadow, JoinGroup, ChownHome
  <2>9. Rec.group \in DOMAIN group /\ group'[Rec.group].gid = group[Rec.group].gid
    <3>1. k - 1 \in Nat
      BY <2>3
    <3>2. UserJob(table, l, k - 1) \in Jobs(table)
      BY <2>1, <2>4
    <3>3. DOMAIN group' = DOMAIN group /\ \A g \in DOMAIN group : group'[g].gid = group[g].gid
      BY <2>4, <3>1, <3>2, GidsStay
    <3>4. Rec.group \in DOMAIN group
      BY <1>1, <2>4, <2>5, <2>6, BelongsReady DEF Rec
    <3>. QED  BY <3>3, <3>4
  <2>. QED  BY <2>5, <2>7, <2>8, <2>9
<1>7. CASE Finish
  BY <1>7 DEF Finish
<1>. QED  BY <1>3, <1>4, <1>5, <1>6, <1>7, Steps

(* A line of /etc/passwd changes by the removal and the return of its user *)
(* only.                                                                   *)
LEMMA UserStays ==
  ASSUME Onward, NEW u, ~((RemoveUser \/ AppendUser) /\ u = Rec.user)
  PROVE  /\ u \in DOMAIN passwd' <=> u \in DOMAIN passwd
         /\ u \in DOMAIN passwd => passwd'[u] = passwd[u]
<1>1. CASE RemoveUser
  BY <1>1 DEF RemoveUser, Without
<1>2. CASE AppendUser
  BY <1>2 DEF AppendUser, With
<1>3. CASE ~RemoveUser /\ ~AppendUser
  <2>1. passwd' = passwd
    BY <1>3, Steps DEF vars, files, RemoveGroup, AppendGroup, RemoveShadow, AppendShadow, JoinGroup,
                       ChownHome, Finish
  <2>. QED  BY <2>1
<1>. QED  BY <1>1, <1>2, <1>3

(* The last line of a user so far changes when the user is written again.  *)
LEMMA LastMoves ==
  ASSUME Position, Onward, NEW i \in DOMAIN table, LastWritten(i)'
  PROVE  IF AppendUser /\ table[i].user = Rec.user THEN i = job.line ELSE LastWritten(i)
<1>1. table \in Tables /\ table' = table
  BY Places
<1>2. \A k \in DOMAIN table : Written(k)' <=> Written(k) \/ (AppendUser /\ k = job.line)
  BY CheckedMoves
<1>3. /\ Written(i)'
      /\ \A k \in DOMAIN table :
           table[k].user = table[i].user /\ Written(k)' =>
             k = i \/ Precedes(UserJob(table, k, 0), UserJob(table, i, 0))
  BY <1>1 DEF LastWritten
<1>4. CASE AppendUser /\ table[i].user = Rec.user
  <2>. SUFFICES ASSUME i # job.line PROVE FALSE
    BY <1>4
  <2>1. /\ job.line \in DOMAIN table /\ job \in Jobs(table) /\ job = UserJob(table, job.line, 0)
        /\ Rec = table[job.line]
    BY <1>4, Places DEF Rec
  <2>2. Precedes(job, UserJob(table, i, 0))
    BY <1>2, <1>3, <1>4, <2>1
  <2>3. Written(i) /\ ~At0(i)
    BY <1>2, <1>3, <2>1 DEF At0, UserJob
  <2>4. UserJob(table, i, 0) \in Jobs(table) /\ Precedes(UserJob(table, i, 0), job)
    BY <2>3 DEF Written, Done
  <2>5. job \in Positions /\ UserJob(table, i, 0) \in Positions
    BY <1>1, <2>1, <2>4, JobIs
  <2>. QED  BY <2>2, <2>4, <2>5, InOrder
<1>5. CASE ~(AppendUser /\ table[i].user = Rec.user)
  <2>1. AppendUser => table[job.line].user = Rec.user
    BY DEF Rec
  <2>2. Written(i)
    BY <1>2, <1>3, <1>5, <2>1
  <2>3. \A k \in DOMAIN table : Written(k) => Written(k)'
    BY <1>2
  <2>. QED  BY <1>3, <1>5, <2>2, <2>3 DEF LastWritten
<1>. QED  BY <1>4, <1>5

(* No gid moves after a user was written with it.                          *)
LEMMA DecidedStep ==
  ASSUME Position, Created, Settled, Decided, Onward
  PROVE  Decided'
<1>1. table \in Tables /\ table' = table /\ Going /\ pc = "run"
  BY Places DEF Onward, Going
<1>. SUFFICES ASSUME NEW i \in DOMAIN table, LastWritten(i)', table[i].user \in DOMAIN passwd'
              PROVE  passwd'[table[i].user] = [uid |-> passwd'[table[i].user].uid,
                                               gid |-> group'[table[i].group].gid]
  BY <1>1 DEF Decided
<1>. DEFINE r == table[i]
<1>2. CASE AppendUser /\ r.user = Rec.user
  <2>1. i = job.line /\ r = Rec
    BY <1>2, LastMoves DEF Rec
  <2>2. passwd'[r.user] = [uid |-> id, gid |-> group[r.group].gid] /\ group' = group
    BY <1>2, <2>1 DEF AppendUser, With
  <2>. QED  BY <2>2
<1>3. CASE ~(AppendUser /\ r.user = Rec.user)
  <2>1. LastWritten(i)
    BY <1>3, LastMoves
  <2>2. ~(RemoveUser /\ r.user = Rec.user)
    BY DEF RemoveUser, Without
  <2>3. r.user \in DOMAIN passwd /\ passwd'[r.user] = passwd[r.user]
    BY <1>3, <2>2, UserStays
  <2>4. passwd[r.user] = [uid |-> passwd[r.user].uid, gid |-> group[r.group].gid]
    BY <1>1, <2>1, <2>3 DEF Decided
  <2>5. Checked(i)
    BY <2>1 DEF LastWritten, Written, Checked
  <2>6. r.group \in DOMAIN group
    BY <1>1, <2>5, BelongsReady
  <2>7. group'[r.group].gid = group[r.group].gid
    BY <1>1, <2>5, <2>6, CheckedJob, GidsStay
  <2>. QED  BY <2>3, <2>4, <2>7
<1>. QED  BY <1>2, <1>3

(* The owner of a home is written with the ids that the user has just got, *)
(* and a user that is listed once is not written again.                    *)
LEMMA HousedStep ==
  ASSUME Position, Current, Housed, Onward
  PROVE  Housed'
<1>1. table \in Tables /\ table' = table /\ Going /\ pc = "run"
  BY Places DEF Onward, Going
<1>. SUFFICES ASSUME NEW i \in DOMAIN table, Done(UserJob(table, i, Len(table[i].groups) + 1))',
                     table[i].home = "own", Once(table[i].user)
              PROVE  /\ table[i].user \in DOMAIN owners' /\ table[i].user \in DOMAIN passwd'
                     /\ owners'[table[i].user] = passwd'[table[i].user]
  BY <1>1 DEF Housed, Once
<1>. DEFINE u == table[i].user
<1>0. PICK n, last : n = Len(table[i].groups) + 1 /\ last = UserJob(table, i, n)
  OBVIOUS
<1>2. n \in Nat /\ n # 0 /\ n \notin DOMAIN table[i].groups
  BY <1>0, <1>1, Table
<1>3. last \in Jobs(table) /\ last \in Positions /\ last.line = i /\ last.part = n
      /\ last = UserJob(table, i, Len(table[i].groups) + 1)
  BY <1>0, <1>1, JobIs DEF Done, UserJob
<1>4. ASSUME \/ RemoveUser \/ AppendUser \/ ChownHome, u = Rec.user
      PROVE  job.line = i /\ (ChownHome => job = last) /\ ~Done(last)
  <2>1. job.line \in DOMAIN table /\ table[job.line].user = u /\ job \in Jobs(table)
    BY <1>4, Places DEF Rec
  <2>2. job.line = i
    BY <2>1 DEF Once
  <2>3. ChownHome => job = last
    BY <2>2, <1>3, Places DEF Rec
  <2>4. CASE ChownHome
    BY <1>3, <2>2, <2>3, <2>4, InOrder DEF Done
  <2>5. CASE RemoveUser \/ AppendUser
    <3>1. job = UserJob(table, i, 0)
      BY <2>2, <2>5, Places
    <3>2. ~Precedes(last, job)
      BY <1>2, <1>3, <3>1 DEF Precedes, UserJob, Positions
    <3>. QED  BY <2>2, <2>3, <3>2 DEF Done
  <2>. QED  BY <1>4, <2>4, <2>5
<1>5. CASE Done(last)
  <2>1. u \in DOMAIN owners /\ u \in DOMAIN passwd /\ owners[u] = passwd[u]
    BY <1>1, <1>3, <1>5 DEF Housed
  <2>2. u \in DOMAIN passwd' /\ passwd'[u] = passwd[u]
    BY <1>4, <1>5, <2>1, UserStays
  <2>3. u \in DOMAIN owners' /\ owners'[u] = owners[u]
    <3>1. CASE ChownHome
      <4>1. u # Rec.user
        BY <1>4, <1>5, <3>1
      <4>. QED  BY <2>1, <3>1, <4>1 DEF ChownHome, With
    <3>2. CASE ~ChownHome
      <4>1. owners' = owners
        BY <3>2, Steps DEF vars, files, RemoveGroup, AppendGroup, RemoveUser, RemoveShadow, AppendUser,
                           AppendShadow, JoinGroup, Finish
      <4>. QED  BY <2>1, <4>1
    <3>. QED  BY <3>1, <3>2
  <2>. QED  BY <2>1, <2>2, <2>3
<1>6. CASE ~Done(last)
  <2>1. Done(last)'
    BY <1>0, <1>1 DEF Done
  <2>2. job = last /\ (AppendGroup \/ AppendShadow \/ JoinGroup \/ ChownHome)
    BY <1>3, <1>6, <2>1, DoneMoves
  <2>3. ~AppendGroup
    BY <2>2, <1>3, Places DEF GroupJobs, UserJob
  <2>4. ~AppendShadow
    BY <1>2, <1>3, <2>2, Places DEF UserJob
  <2>5. ~JoinGroup
    BY <1>2, <1>3, <2>2, Places DEF Rec
  <2>6. ChownHome /\ Rec = table[i]
    BY <1>3, <2>2, <2>3, <2>4, <2>5 DEF Rec
  <2>7. u \in DOMAIN passwd /\ passwd[u] = HomeOwner
    BY <2>6 DEF Current, HomeOwner, ChownHome, At
  <2>8. passwd' = passwd /\ owners' = With(owners, u, HomeOwner)
    BY <2>6 DEF ChownHome
  <2>. QED  BY <2>7, <2>8 DEF With
<1>. QED  BY <1>5, <1>6

(* At the end of a documented table everything is behind the run.          *)
LEMMA AllBehind ==
  ASSUME Documented, Position, Going, job = End
  PROVE  /\ table \in Tables
         /\ \A j \in Jobs(table) : Done(j)
         /\ \A i \in DOMAIN table :
              /\ \A k \in 0 .. Len(table[i].groups) + 1 : Done(UserJob(table, i, k))
              /\ Checked(i) /\ Written(i)
<1>1. table \in Tables /\ \A j \in Jobs(table) : Done(j)
  BY EndLast DEF Position, Done
<1>2. ASSUME NEW i \in DOMAIN table
      PROVE  /\ \A k \in 0 .. Len(table[i].groups) + 1 : Done(UserJob(table, i, k))
             /\ Done(UserJob(table, i, 0))
  <2>1. table[i].uid >= AutoId
    BY <1>1 DEF Documented
  <2>2. 0 \in 0 .. Len(table[i].groups) + 1
    BY <1>1, Table
  <2>. QED  BY <1>1, <2>1, <2>2, JobsOfLine
<1>. QED  BY <1>1, <1>2 DEF Checked, Written

(* A gid that becomes double is that of a line with a check still to come; *)
(* that check fails.                                                       *)
LEMMA ClashesStep ==
  ASSUME Documented, Position, Clashes, Onward
  PROVE  Clashes'
<1>1. table \in Tables /\ table' = table /\ Going /\ pc = "run" /\ cut' = cut
  <2>1. cut' = cut
    BY Steps DEF vars, files, bounds, RemoveGroup, AppendGroup, RemoveUser, RemoveShadow, AppendUser,
                 AppendShadow, JoinGroup, ChownHome, Finish, GoTo, NextJob
  <2>. QED  BY <2>1, Places DEF Onward, Going
<1>. DEFINE Excused(g, h) == g = h \/ SkelSame(g, h)
                             \/ (pc = "run" /\ \E i \in DOMAIN table : Refused(i, g, h))
<1>. SUFFICES ASSUME ~cut, NEW g \in GroupsToBe', NEW h \in GroupsToBe',
                     GidToBe(g)' = GidToBe(h)', g # h, ~SkelSame(g, h)
              PROVE  pc' = "run" /\ \E i \in DOMAIN table : Refused(i, g, h)'
  BY <1>1 DEF Clashes, SkelSame
<1>2. ASSUME g \in GroupsToBe, h \in GroupsToBe, GidToBe(g)' = GidToBe(g), GidToBe(h)' = GidToBe(h)
      PROVE  \E i \in DOMAIN table : Refused(i, g, h)
  BY <1>1, <1>2 DEF Clashes
<1>3. ASSUME g \in GroupsToBe, h \in GroupsToBe, GidToBe(g)' = GidToBe(g), GidToBe(h)' = GidToBe(h),
             ~RemoveUser, ~Finish
      PROVE  pc' = "run" /\ \E i \in DOMAIN table : Refused(i, g, h)'
  <2>1. pc' = "run"
    BY <1>1, <1>3, Steps DEF vars, RemoveGroup, AppendGroup, RemoveShadow, AppendUser, AppendShadow,
                             JoinGroup, ChownHome, GoTo, NextJob
  <2>2. PICK i \in DOMAIN table : Refused(i, g, h)
    BY <1>2, <1>3
  <2>3. ~Checked(i)'
    BY <1>3, <2>2, CheckedMoves DEF Refused
  <2>4. Refused(i, g, h)'
    BY <1>1, <1>3, <2>2, <2>3 DEF Refused
  <2>. QED  BY <2>1, <2>4
<1>4. CASE RemoveGroup
  <2>1. ~RemoveUser /\ ~Finish /\ pc' = "run"
    BY <1>4 DEF RemoveGroup, RemoveUser, Finish, At, GoTo
  <2>2. CASE GroupName \notin {g, h} \/ (GroupName \in GroupsToBe /\ id' = GidToBe(GroupName))
    <3>1. g \in GroupsToBe /\ h \in GroupsToBe /\ GidToBe(g)' = GidToBe(g) /\ GidToBe(h)' = GidToBe(h)
      BY <1>4, <2>2, GroupTaken
    <3>. QED  BY <1>3, <2>1, <3>1
  <2>3. CASE /\ GroupName \in {g, h} /\ job = MainJob(table, job.line) /\ job.line \in DOMAIN table
             /\ Rec.gid # AutoId /\ GroupName = Rec.group /\ id' = Rec.gid
    <3>1. PICK l \in DOMAIN table : l = job.line /\ Rec = table[l]
      BY <2>3 DEF Rec
    <3>2. GidToBe(g)' = id'
      BY <1>4, <2>3, GroupTaken
    <3>3. ~Checked(l)'
      <4>1. job.pass \in {1, 2}
        BY <2>3 DEF MainJob
      <4>2. ~Checked(l)
        BY <4>1 DEF Checked, Done, At0, UserJob, Precedes
      <4>. QED  BY <2>1, <4>2, CheckedMoves
    <3>4. Refused(l, g, h)'
      BY <1>1, <2>3, <3>1, <3>2, <3>3 DEF Refused
    <3>. QED  BY <2>1, <3>4
  <2>4. CASE GroupName \in {g, h} /\ GroupName \notin GroupsToBe /\ id' \in FreeGids
    <3>. SUFFICES ASSUME NEW x \in GroupsToBe, x # GroupName, GidToBe(x)' = id'
                  PROVE  FALSE
      BY <1>4, <2>4, GroupTaken
    <3>1. x \in DOMAIN group /\ group[x].gid = id'
      BY <1>4, GroupTaken DEF GidToBe
    <3>. QED  BY <2>4, <3>1 DEF FreeGids, GroupsOf
  <2>. QED  BY <1>4, <2>2, <2>3, <2>4, GroupTaken
<1>5. CASE RemoveUser
  <2>1. g \in GroupsToBe /\ h \in GroupsToBe /\ GidToBe(g)' = GidToBe(g) /\ GidToBe(h)' = GidToBe(h)
    <3>1. ~RemoveGroup
      BY <1>5 DEF RemoveGroup, RemoveUser, At
    <3>. QED  BY <3>1, GroupView
  <2>2. PICK i \in DOMAIN table : Refused(i, g, h)
    BY <1>2, <2>1
  <2>3. i # job.line
    <3>. SUFFICES ASSUME i = job.line PROVE FALSE
      OBVIOUS
    <3>1. table[i] = Rec /\ Rec.gid # AutoId /\ GroupsOf(Rec.gid) \subseteq {Rec.group}
      BY <1>5, <2>2 DEF Rec, Refused, RemoveUser, Valid, GidValid
    <3>2. ~GroupOut
      BY <1>5 DEF RemoveUser, At, GroupOut, Between
    <3>3. {g, h} \subseteq DOMAIN group /\ group[g].gid = Rec.gid /\ group[h].gid = Rec.gid
      BY <2>1, <2>2, <3>1, <3>2 DEF GroupsToBe, GidToBe, Refused
    <3>. QED  BY <3>1, <3>3 DEF GroupsOf
  <2>4. ~Checked(i)'
    BY <2>2, <2>3, CheckedMoves DEF Refused
  <2>5. Refused(i, g, h)'
    BY <1>1, <2>1, <2>2, <2>4 DEF Refused
  <2>. QED  BY <1>1, <1>5, <2>5 DEF RemoveUser, GoTo
<1>6. CASE Finish
  <2>1. g \in GroupsToBe /\ h \in GroupsToBe /\ GidToBe(g)' = GidToBe(g) /\ GidToBe(h)' = GidToBe(h)
    <3>1. ~RemoveGroup
      BY <1>6 DEF RemoveGroup, Finish, At
    <3>. QED  BY <3>1, GroupView
  <2>2. PICK i \in DOMAIN table : Refused(i, g, h)
    BY <1>2, <2>1
  <2>3. Checked(i)
    BY <1>1, <1>6, Places, AllBehind
  <2>. QED  BY <2>2, <2>3 DEF Refused
<1>7. CASE ~RemoveGroup /\ ~RemoveUser /\ ~Finish
  BY <1>3, <1>7, GroupView
<1>. QED  BY <1>4, <1>5, <1>6, <1>7

(* What a step of a run does to the image.                                 *)
LEMMA ImageMoves ==
  ASSUME Onward
  PROVE  /\ cut' = cut
         /\ IF Finish
            THEN /\ image' = [table |-> {table}, group |-> group, passwd |-> passwd]
                 /\ pc' = "done" /\ UNCHANGED <<files, table>>
            ELSE image' = image /\ pc' = "run"
<1>1. CASE Finish
  BY <1>1 DEF Finish
<1>2. CASE UNCHANGED vars /\ ~Finish
  BY <1>2 DEF vars, bounds, Onward
<1>3. CASE ~UNCHANGED vars /\ ~Finish
  BY <1>3, Steps DEF RemoveGroup, AppendGroup, RemoveUser, RemoveShadow, AppendUser, AppendShadow,
                     JoinGroup, ChownHome, GoTo, NextJob, bounds, Onward
<1>. QED  BY <1>1, <1>2, <1>3

LEMMA LastImageStep ==
  ASSUME OneLineEach, LastImage, Onward
  PROVE  LastImage'
<1>1. CASE Finish
  BY <1>1, ImageMoves DEF LastImage, OneLineEach, files
<1>2. CASE ~Finish
  BY <1>2, ImageMoves DEF LastImage
<1>. QED  BY <1>1, <1>2

LEMMA UidsKeptStep ==
  ASSUME Position, UidsKept, Onward
  PROVE  UidsKept'
<1>1. CASE Finish
  <2>1. ~UserOut' /\ image'.passwd = passwd /\ passwd' = passwd
    BY <1>1, ImageMoves DEF UserOut, Between, files
  <2>. QED  BY <2>1 DEF UidsKept, UsersToBe, UidToBe
<1>2. CASE ~Finish
  <2>1. image' = image /\ cut' = cut
    BY <1>2, ImageMoves
  <2>. QED  BY <2>1, UserView DEF UidsKept
<1>. QED  BY <1>1, <1>2

(* A table that has no undocumented line is in effect when its run ends.   *)
LEMMA EndInEffect ==
  ASSUME Documented, Position, Created, Settled, Decided, Going, job = End, step = "start"
  PROVE  InEffect(table, group, passwd)
<1>1. /\ table \in Tables
      /\ \A j \in Jobs(table) : Done(j)
      /\ \A i \in DOMAIN table :
           /\ \A k \in 0 .. Len(table[i].groups) + 1 : Done(UserJob(table, i, k))
           /\ Checked(i) /\ Written(i)
  BY AllBehind
<1>2. ~GroupOut /\ ~UserOut
  <2>1. Kind = "end"
    BY <1>1, KindIs
  <2>. QED  BY <2>1 DEF GroupOut, UserOut, Between
<1>3. ASSUME NEW j \in GroupJobs(table)
      PROVE  /\ NameOf(table, j) \in DOMAIN group
             /\ group[NameOf(table, j)] = [gid |-> group[NameOf(table, j)].gid,
                                           members |-> Joined(NameOf(table, j))]
  <2>1. Done(j)
    BY <1>1 DEF GroupJobs
  <2>. QED  BY <1>2, <2>1 DEF Created, GroupsToBe
<1>4. ASSUME NEW g \in GroupsIn(table)
      PROVE  g \in DOMAIN group /\ group[g] = [gid |-> group[g].gid, members |-> MembersIn(table, g)]
  <2>1. Joined(g) = MembersIn(table, g)
    <3>1. \A l \in DOMAIN table : \A k \in DOMAIN table[l].groups : Done(UserJob(table, l, k))
      <4>. SUFFICES ASSUME NEW l \in DOMAIN table, NEW k \in DOMAIN table[l].groups
                    PROVE  Done(UserJob(table, l, k))
        OBVIOUS
      <4>1. k \in 0 .. Len(table[l].groups) + 1
        BY <1>1, Table
      <4>. QED  BY <1>1, <4>1
    <3>. QED  BY <3>1 DEF Joined, MembersIn
  <2>2. CASE \E i \in DOMAIN table : g = table[i].group
    <3>1. PICK i \in DOMAIN table : g = table[i].group
      BY <2>2
    <3>2. table[i].gid >= AutoId
      BY <1>1 DEF Settled
    <3>3. MainJob(table, i) \in GroupJobs(table) /\ NameOf(table, MainJob(table, i)) = g
      BY <1>1, <3>1, <3>2, JobsOfLine DEF GroupJobs, MainJob, NameOf
    <3>. QED  BY <1>3, <2>1, <3>3
  <2>3. CASE \E i \in DOMAIN table : \E k \in DOMAIN table[i].groups : g = table[i].groups[k]
    <3>1. PICK i \in DOMAIN table : \E k \in DOMAIN table[i].groups : g = table[i].groups[k]
      BY <2>3
    <3>2. PICK k \in DOMAIN table[i].groups : g = table[i].groups[k]
      BY <3>1
    <3>3. ExtraJob(i, k) \in GroupJobs(table) /\ NameOf(table, ExtraJob(i, k)) = g
      BY <1>1, <3>2, JobsOfLine DEF GroupJobs, ExtraJob, NameOf
    <3>. QED  BY <1>3, <2>1, <3>3
  <2>. QED  BY <2>2, <2>3 DEF GroupsIn
<1>5. ASSUME NEW i \in DOMAIN table
      PROVE  /\ table[i].user \in DOMAIN passwd
             /\ table[i].gid # AutoId => group[table[i].group].gid = table[i].gid
             /\ table[i].uid # AutoId => passwd[table[i].user].uid = table[i].uid
  BY <1>1, <1>2 DEF Settled, UsersToBe, UidToBe
<1>6. ASSUME NEW i \in DOMAIN table, LastOf(table, i)
      PROVE  passwd[table[i].user] = [uid |-> passwd[table[i].user].uid,
                                      gid |-> group[table[i].group].gid]
  <2>1. ASSUME NEW k \in DOMAIN table, table[k].user = table[i].user, k # i
        PROVE  Precedes(UserJob(table, k, 0), UserJob(table, i, 0))
    BY <1>6, <2>1 DEF LastOf, Precedes, UserJob
  <2>2. LastWritten(i)
    BY <1>1, <2>1 DEF LastWritten
  <2>. QED  BY <1>5, <2>2 DEF Decided
<1>. QED  BY <1>4, <1>5, <1>6 DEF InEffect, UsersIn

LEMMA ImageInEffectStep ==
  ASSUME Documented, Position, Created, Settled, Decided, ImageInEffect, Onward
  PROVE  ImageInEffect'
<1>1. CASE Finish
  <2>1. Going /\ job = End /\ step = "start"
    BY <1>1, Places DEF Finish, At, Going
  <2>2. InEffect(table, group, passwd)
    BY <2>1, EndInEffect
  <2>3. image' = [table |-> {table}, group |-> group, passwd |-> passwd]
    BY <1>1 DEF Finish
  <2>4. image'.table = {table} /\ image'.group = group /\ image'.passwd = passwd
    BY <2>3
  <2>. QED  BY <2>2, <2>4 DEF ImageInEffect
<1>2. CASE ~Finish
  <2>1. image' = image
    BY <1>2, ImageMoves
  <2>. QED  BY <2>1 DEF ImageInEffect
<1>. QED  BY <1>1, <1>2

(* A run with the table of the image chooses the ids that are in it.       *)
LEMMA RepeatsStep ==
  ASSUME Position, ImageInEffect, Repeats, Onward
  PROVE  Repeats'
<1>1. table \in Tables /\ table' = table /\ pc = "run"
  BY Places DEF Onward
<1>. SUFFICES ASSUME pc' = "run", image'.table = {table}
              PROVE  (/\ GroupsToBe = DOMAIN image.group
                      /\ UsersToBe = DOMAIN image.passwd
                      /\ \A g \in GroupsToBe : GidToBe(g) = image.group[g].gid
                      /\ \A g \in DOMAIN group \ GroupsIn(table) : group[g] = image.group[g]
                      /\ \A u \in UsersToBe : UidToBe(u) = image.passwd[u].uid
                      /\ \A u \in DOMAIN passwd \ UsersIn(table) : passwd[u] = image.passwd[u])'
  BY <1>1 DEF Repeats
<1>2. image' = image /\ ~Finish
  BY ImageMoves
<1>3. /\ GroupsToBe = DOMAIN image.group
      /\ UsersToBe = DOMAIN image.passwd
      /\ \A g \in GroupsToBe : GidToBe(g) = image.group[g].gid
      /\ \A g \in DOMAIN group \ GroupsIn(table) : group[g] = image.group[g]
      /\ \A u \in UsersToBe : UidToBe(u) = image.passwd[u].uid
      /\ \A u \in DOMAIN passwd \ UsersIn(table) : passwd[u] = image.passwd[u]
  BY <1>1, <1>2 DEF Repeats
<1>4. InEffect(table, image.group, image.passwd)
  BY <1>2 DEF ImageInEffect
<1>5. GroupsToBe' = GroupsToBe /\ \A g \in GroupsToBe : GidToBe(g)' = GidToBe(g)
  <2>1. CASE RemoveGroup
    <3>1. GroupName \in GroupsIn(table)
      BY <1>1, <2>1, Places, GroupNamed
    <3>2. GroupName \in GroupsToBe
      BY <1>3, <1>4, <3>1 DEF InEffect
    <3>3. id' = GidToBe(GroupName)
      <4>1. CASE job.line \in DOMAIN table /\ Rec.gid # AutoId /\ GroupName = Rec.group /\ id' = Rec.gid
        <5>1. image.group[GroupName].gid = id'
          BY <1>4, <4>1 DEF InEffect, Rec
        <5>. QED  BY <1>3, <3>2, <5>1
      <4>. QED  BY <2>1, <3>2, <4>1, GroupTaken
    <3>. QED  BY <2>1, <3>2, <3>3, GroupTaken
  <2>. QED  BY <2>1, GroupView
<1>6. UsersToBe' = UsersToBe /\ \A u \in UsersToBe : UidToBe(u)' = UidToBe(u)
  <2>1. RemoveUser => Rec.user \in UsersToBe
    <3>. SUFFICES ASSUME RemoveUser PROVE Rec.user \in UsersIn(table)
      BY <1>3, <1>4 DEF InEffect
    <3>. QED  BY Places DEF Rec, UsersIn
  <2>. QED  BY <2>1, UserView
<1>7. \A g \in DOMAIN group' \ GroupsIn(table) : g \in DOMAIN group /\ group'[g] = group[g]
  <2>1. CASE RemoveGroup
    BY <2>1, GroupTaken
  <2>2. CASE AppendGroup
    <3>1. GroupName \in GroupsIn(table)
      BY <1>1, <2>2, Places, GroupNamed
    <3>. QED  BY <2>2, <3>1 DEF AppendGroup, With
  <2>3. CASE JoinGroup
    <3>1. Rec.groups[job.part] \in GroupsIn(table)
      BY <2>3, Places DEF Rec, GroupsIn
    <3>. QED  BY <2>3, <3>1 DEF JoinGroup
  <2>4. CASE ~RemoveGroup /\ ~AppendGroup /\ ~JoinGroup
    <3>1. group' = group
      BY <2>4, Steps DEF vars, files, RemoveUser, RemoveShadow, AppendUser, AppendShadow, ChownHome,
                         Finish
    <3>. QED  BY <3>1
  <2>. QED  BY <2>1, <2>2, <2>3, <2>4
<1>8. \A u \in DOMAIN passwd' \ UsersIn(table) : u \in DOMAIN passwd /\ passwd'[u] = passwd[u]
  <2>1. RemoveUser \/ AppendUser => Rec.user \in UsersIn(table)
    BY Places DEF Rec, UsersIn
  <2>. QED  BY <2>1, UserStays
<1>. QED  BY <1>1, <1>2, <1>3, <1>5, <1>6, <1>7, <1>8

-----------------------------------------------------------------------------
(* The steps outside of a run, or that end it before its time.             *)

FilesInv ==
  /\ Position /\ OneLineEach
  /\ Created /\ Settled /\ Decided /\ Current /\ Housed
  /\ LastImage /\ UidsKept

(* These need the table to be documented.                                  *)
TableInv == Clashes /\ ImageInEffect /\ Repeats

(* With a job to start nothing is out of the files.                        *)
LEMMA NothingOut ==
  ASSUME pc # "run" \/ step = "start"
  PROVE  /\ GroupsToBe = DOMAIN group /\ UsersToBe = DOMAIN passwd /\ ShadowToBe = shadow
         /\ \A g : GidToBe(g) = group[g].gid
         /\ \A u : UidToBe(u) = passwd[u].uid
<1>1. ~GroupOut /\ ~UserOut /\ ~ShadowOut
  BY DEF GroupOut, UserOut, ShadowOut, Between
<1>. QED  BY <1>1 DEF GroupsToBe, UsersToBe, ShadowToBe, GidToBe, UidToBe

(* Nothing is behind a run that begins.                                    *)
LEMMA NothingBehind ==
  ASSUME NEW t \in Tables, Run(t)
  PROVE  /\ table' = t /\ step' = "start" /\ pc' = "run"
         /\ \A j : ~Done(j)'
         /\ \A i : ~Checked(i)' /\ ~Written(i)'
<1>1. table' = t /\ step' = "start" /\ pc' = "run"
  BY DEF Run
<1>2. \A j \in Jobs(t) : ~Precedes(j, job')
  BY Begins
<1>3. \A j : ~Done(j)'
  BY <1>1, <1>2 DEF Done
<1>. QED  BY <1>1, <1>3 DEF Checked, Written

(* A run starts with nothing behind it, from whatever was left.            *)
LEMMA FilesRun ==
  ASSUME FilesInv, NEW t \in Tables, Run(t)
  PROVE  FilesInv'
<1>1. Position' /\ OneLineEach'
  BY PositionStep, OneLineStep DEF FilesInv, Next
<1>2. Created'
  BY <1>1, NothingBehind DEF Created
<1>3. Settled' /\ Decided'
  BY NothingBehind DEF Settled, Decided, LastWritten
<1>4. Housed'
  BY NothingBehind DEF Housed
<1>5. Current'
  <2>. SUFFICES ASSUME Kind' \in {"join", "home"} PROVE FALSE
    BY NothingBehind DEF Current
  <2>1. table' = t /\ job' \in Jobs(t) \cup {End} /\ \A j \in Jobs(t) : ~Precedes(j, job')
    BY Begins
  <2>2. (/\ Kind = "join" => /\ job \in Jobs(table) /\ job.line \in DOMAIN table
                             /\ job.part \in DOMAIN Rec.groups
                             /\ job = UserJob(table, job.line, job.part)
         /\ Kind = "home" => /\ job \in Jobs(table) /\ job.line \in DOMAIN table
                             /\ job = UserJob(table, job.line, Len(Rec.groups) + 1))'
    <3>1. (table \in Tables /\ job \in Jobs(table) \cup {End})'
      BY <2>1
    <3>. QED  BY <3>1, KindIs, PTL
  <2>3. PICK l \in DOMAIN t, k \in Nat :
          k \in 1 .. Len(t[l].groups) + 1 /\ job' \in Jobs(t) /\ job' = UserJob(t, l, k)
    <3>1. \A l \in DOMAIN t : Len(t[l].groups) \in Nat /\ DOMAIN t[l].groups = 1 .. Len(t[l].groups)
      BY Table
    <3>2. CASE Kind' = "join"
      <4>1. /\ job' \in Jobs(t) /\ job'.line \in DOMAIN t /\ job'.part \in DOMAIN t[job'.line].groups
            /\ job' = UserJob(t, job'.line, job'.part)
        BY <2>1, <2>2, <3>2 DEF Rec
      <4>2. job'.part \in 1 .. Len(t[job'.line].groups) + 1
        BY <3>1, <4>1
      <4>. QED  BY <4>1, <4>2
    <3>3. CASE Kind' = "home"
      <4>1. /\ job' \in Jobs(t) /\ job'.line \in DOMAIN t
            /\ job' = UserJob(t, job'.line, Len(t[job'.line].groups) + 1)
        BY <2>1, <2>2, <3>3 DEF Rec
      <4>2. Len(t[job'.line].groups) + 1 \in 1 .. Len(t[job'.line].groups) + 1
        BY <3>1, <4>1
      <4>. QED  BY <4>1, <4>2
    <3>. QED  BY <3>2, <3>3
  <2>4. Len(t[l].groups) \in Nat /\ k \in 0 .. Len(t[l].groups) + 1 /\ 0 \in 0 .. Len(t[l].groups) + 1
    BY <2>3, Table
  <2>5. UserJob(t, l, 0) \in Jobs(t)
    BY <2>3, <2>4, UserJobs
  <2>6. Precedes(UserJob(t, l, 0), job')
    BY <2>3, <2>4 DEF Precedes, UserJob
  <2>. QED  BY <2>1, <2>5, <2>6
<1>6. LastImage' /\ UidsKept'
  <2>1. image' = image /\ cut' = cut /\ UNCHANGED <<group, passwd>> /\ pc' = "run" /\ pc # "run"
    BY DEF Run
  <2>2. (UsersToBe = DOMAIN passwd)' /\ (\A u : UidToBe(u) = passwd[u].uid)'
    <3>1. (pc # "run" \/ step = "start")'
      BY NothingBehind
    <3>. QED  BY <3>1, NothingOut, PTL
  <2>3. UsersToBe = DOMAIN passwd /\ \A u : UidToBe(u) = passwd[u].uid
    BY <2>1, NothingOut
  <2>. QED  BY <2>1, <2>2, <2>3 DEF FilesInv, LastImage, UidsKept
<1>. QED  BY <1>1, <1>2, <1>3, <1>4, <1>5, <1>6 DEF FilesInv

LEMMA TableRun ==
  ASSUME FilesInv, TableInv, NEW t \in Tables, Run(t)
  PROVE  TableInv'
<1>1. /\ image' = image /\ cut' = cut /\ UNCHANGED <<group, passwd>> /\ pc' = "run" /\ pc # "run"
      /\ table' = t
  BY DEF Run
<1>2. (/\ GroupsToBe = DOMAIN group /\ UsersToBe = DOMAIN passwd
       /\ \A g : GidToBe(g) = group[g].gid
       /\ \A u : UidToBe(u) = passwd[u].uid)'
  <2>1. (pc # "run" \/ step = "start")'
    BY NothingBehind
  <2>. QED  BY <2>1, NothingOut, PTL
<1>3. /\ GroupsToBe = DOMAIN group /\ UsersToBe = DOMAIN passwd
      /\ \A g : GidToBe(g) = group[g].gid
      /\ \A u : UidToBe(u) = passwd[u].uid
  BY <1>1, NothingOut
<1>4. Clashes'
  <2>. SUFFICES ASSUME ~cut, NEW g \in DOMAIN group, NEW h \in DOMAIN group, group[g].gid = group[h].gid
                PROVE  g = h \/ SkelSame(g, h)
    BY <1>1, <1>2 DEF Clashes, SkelSame
  <2>. QED  BY <1>1, <1>3 DEF TableInv, Clashes
<1>5. ImageInEffect'
  BY <1>1 DEF TableInv, ImageInEffect
<1>6. Repeats'
  <2>. SUFFICES ASSUME image.table = {t}
                PROVE  image.group = group /\ image.passwd = passwd
    BY <1>1, <1>2 DEF Repeats
  <2>1. pc = "done"
    BY <1>1 DEF FilesInv, LastImage, Position
  <2>. QED  BY <2>1 DEF FilesInv, LastImage
<1>. QED  BY <1>4, <1>5, <1>6 DEF TableInv

Stopped == NoGid \/ Reject \/ BadHome \/ Kill

(* A run that fails or is interrupted gives no promise any more.           *)
LEMMA InvStop ==
  ASSUME FilesInv, Stopped
  PROVE  FilesInv' /\ TableInv'
<1>1. Position' /\ OneLineEach'
  BY PositionStep, OneLineStep DEF FilesInv, Stopped, Next
<1>2. pc' = "failed" /\ cut' = TRUE /\ image' = [image EXCEPT !.table = {}]
  BY DEF Stopped, NoGid, Reject, BadHome, Kill, Fail, Stop
<1>3. /\ image'.table = {}
      /\ image' = [table |-> image'.table, group |-> image'.group, passwd |-> image'.passwd]
  BY <1>2 DEF FilesInv, LastImage
<1>4. ~Going'
  BY <1>2 DEF Going
<1>5. Created' /\ Settled' /\ Decided' /\ Current' /\ Housed'
  BY <1>2, <1>4 DEF Created, Settled, Decided, Current, Housed
<1>6. LastImage' /\ UidsKept'
  BY <1>2, <1>3 DEF LastImage, UidsKept
<1>7. TableInv'
  BY <1>2, <1>3 DEF TableInv, Clashes, ImageInEffect, Repeats
<1>. QED  BY <1>1, <1>5, <1>6, <1>7 DEF FilesInv

LEMMA FilesStart == Init => FilesInv /\ TableInv
<1>. SUFFICES ASSUME Init PROVE FilesInv /\ TableInv
  OBVIOUS
<1>1. pc = "idle" /\ ~Going
  BY DEF Init, Going
<1>2. Position /\ Created /\ Settled /\ Decided /\ Current /\ Housed
  BY <1>1, PositionStart DEF Created, Settled, Decided, Current, Housed
<1>3. OneLineEach
  BY UsersAssumption DEF Init, OneLineEach
<1>4. LastImage
  BY DEF Init, LastImage
<1>5. UidsKept /\ Clashes
  BY <1>1, NothingOut DEF Init, UidsKept, Clashes, SkelSame
<1>6. ImageInEffect /\ Repeats
  BY DEF Init, ImageInEffect, Repeats
<1>. QED  BY <1>2, <1>3, <1>4, <1>5, <1>6 DEF FilesInv, TableInv

LEMMA FilesStutter ==
  ASSUME UNCHANGED vars
  PROVE  (FilesInv => FilesInv') /\ (TableInv => TableInv')
<1>. USE DEF vars, files, bounds
<1>1. /\ Kind' = Kind /\ Rec' = Rec /\ GroupName' = GroupName
  BY DEF Kind, Rec, GroupName
<1>2. /\ GroupsToBe' = GroupsToBe /\ UsersToBe' = UsersToBe /\ ShadowToBe' = ShadowToBe
      /\ \A g : GidToBe(g)' = GidToBe(g)
      /\ \A u : UidToBe(u)' = UidToBe(u)
  BY <1>1 DEF GroupsToBe, UsersToBe, ShadowToBe, GidToBe, UidToBe, GroupOut, UserOut, ShadowOut, Between
<1>3. /\ \A j : Done(j)' <=> Done(j)
      /\ \A i : (Checked(i)' <=> Checked(i)) /\ (Written(i)' <=> Written(i))
      /\ \A g : Joined(g)' = Joined(g)
  BY DEF Done, Checked, Written, At0, Joined
<1>4. Position => Position'
  BY <1>1 DEF Position, Going
<1>5. (OneLineEach => OneLineEach') /\ (LastImage => LastImage') /\ (ImageInEffect => ImageInEffect')
  BY DEF OneLineEach, LastImage, ImageInEffect
<1>6. Created => Created'
  BY <1>2, <1>3 DEF Created, Going
<1>7. Settled => Settled'
  BY <1>2, <1>3 DEF Settled, Going
<1>8. Decided => Decided'
  BY <1>3 DEF Decided, LastWritten, Going
<1>9. Current => Current'
  BY <1>1 DEF Current
<1>10. Housed => Housed'
  BY <1>3 DEF Housed, Going, Once
<1>11. UidsKept => UidsKept'
  BY <1>2 DEF UidsKept
<1>12. Clashes => Clashes'
  BY <1>2, <1>3 DEF Clashes, Refused
<1>13. Repeats => Repeats'
  BY <1>2 DEF Repeats
<1>. QED  BY <1>4, <1>5, <1>6, <1>7, <1>8, <1>9, <1>10, <1>11, <1>12, <1>13 DEF FilesInv, TableInv

LEMMA StepKinds ==
  ASSUME [Next]_vars, Position
  PROVE  \/ UNCHANGED vars \/ (\E t \in Tables : Run(t)) \/ Stopped \/ Onward
<1>1. CASE NoGid \/ Reject \/ BadHome \/ Kill
  BY <1>1 DEF Stopped
<1>2. CASE RemoveGroup \/ AppendGroup \/ RemoveUser \/ RemoveShadow \/ AppendUser \/ AppendShadow
           \/ JoinGroup \/ ChownHome \/ Finish
  BY <1>2 DEF Onward, RemoveGroup, AppendGroup, RemoveUser, RemoveShadow, AppendUser, AppendShadow,
              JoinGroup, ChownHome, Finish, At, GoTo, NextJob
<1>. QED  BY <1>1, <1>2 DEF Next

(* All steps together.                                                     *)
LEMMA FilesStep ==
  ASSUME FilesInv, [Next]_vars
  PROVE  FilesInv'
<1>1. CASE UNCHANGED vars
  BY <1>1, FilesStutter
<1>2. ASSUME NEW t \in Tables, Run(t) PROVE FilesInv'
  BY <1>2, FilesRun
<1>3. CASE Stopped
  BY <1>3, InvStop
<1>4. CASE Onward
  BY <1>4, PositionStep, OneLineStep, CreatedStep, SettledStep, DecidedStep, CurrentStep, HousedStep,
     LastImageStep, UidsKeptStep DEF FilesInv
<1>. QED  BY <1>1, <1>2, <1>3, <1>4, StepKinds DEF FilesInv

LEMMA TableStep ==
  ASSUME Documented, FilesInv, TableInv, [Next]_vars
  PROVE  TableInv'
<1>1. CASE UNCHANGED vars
  BY <1>1, FilesStutter
<1>2. ASSUME NEW t \in Tables, Run(t) PROVE TableInv'
  BY <1>2, TableRun
<1>3. CASE Stopped
  BY <1>3, InvStop
<1>4. CASE Onward
  BY <1>4, ClashesStep, ImageInEffectStep, RepeatsStep DEF FilesInv, TableInv
<1>. QED  BY <1>1, <1>2, <1>3, <1>4, StepKinds DEF FilesInv

-----------------------------------------------------------------------------
(* The files are at all times what the part of the table that is behind    *)
(* the run makes of them.                                                  *)
THEOREM FilesInvariant == Spec => []FilesInv
<1>1. Init => FilesInv
  BY FilesStart
<1>2. FilesInv /\ [Next]_vars => FilesInv'
  BY FilesStep
<1>. QED  BY <1>1, <1>2, PTL DEF Spec

(* With documented tables, clashes of gids, the image of the last run and  *)
(* a run with its table are as the invariants say.                         *)
THEOREM TableInvariant ==
  ASSUME Documented
  PROVE  Spec => []TableInv
<1>1. Init => FilesInv /\ TableInv
  BY FilesStart
<1>2. (FilesInv /\ TableInv) /\ [Next]_vars => (FilesInv /\ TableInv)'
  BY FilesStep, TableStep
<1>. QED  BY <1>1, <1>2, PTL DEF Spec

(* As long as all runs end well, a user that an image has keeps its uid,   *)
(* for tables of any kind.                                                 *)
THEOREM UidsBelong == Spec => UidsStay
<1>1. FilesInv /\ [Next]_vars =>
        [pc = "run" /\ pc' = "done" /\ ~cut =>
           \A u \in DOMAIN image.passwd :
             u \in DOMAIN passwd /\ passwd[u].uid = image.passwd[u].uid]_vars
  <2>. SUFFICES ASSUME FilesInv, [Next]_vars, pc = "run", pc' = "done", ~cut
                PROVE  \A u \in DOMAIN image.passwd :
                         u \in DOMAIN passwd /\ passwd[u].uid = image.passwd[u].uid
    OBVIOUS
  <2>1. Onward /\ Finish
    <3>1. Onward
      BY DEF Onward
    <3>. QED  BY <3>1, ImageMoves
  <2>2. UsersToBe = DOMAIN passwd /\ \A u : UidToBe(u) = passwd[u].uid
    BY <2>1, NothingOut DEF Finish, At
  <2>. QED  BY <2>2 DEF FilesInv, UidsKept
<1>. QED  BY <1>1, FilesInvariant, PTL DEF Spec, UidsStay

LEMMA ListedOnceIs ==
  ASSUME table \in Tables, NEW u, ListedOnce(u)
  PROVE  Once(u)
<1>. DEFINE S == {i \in DOMAIN table : table[i].user = u}
<1>1. IsFiniteSet(S)
  <2>1. DOMAIN table = 1 .. Len(table) /\ Len(table) \in Nat
    BY Table
  <2>2. IsFiniteSet(DOMAIN table)
    BY <2>1, FS_Interval
  <2>3. S \subseteq DOMAIN table
    OBVIOUS
  <2>. QED  BY <2>2, <2>3, FS_Subset
<1>2. Cardinality(S) = 1
  BY DEF ListedOnce
<1>3. PICK x : S = {x}
  BY <1>1, <1>2, FS_Singleton
<1>. QED  BY <1>3 DEF Once

(* At the end of a run nothing is left to do.                              *)
LEMMA AtTheEnd ==
  ASSUME FilesInv, pc = "done"
  PROVE  Going /\ job = End /\ step = "start" /\ table \in Tables
BY DEF FilesInv, Position, Going

(* When the script ends well the users and groups of its table are there   *)
(* with the ids they ask for, whatever the files were before: failed and   *)
(* interrupted runs, and tables that list a user twice, included.          *)
THEOREM EffectOfTable ==
  ASSUME Documented
  PROVE  Spec => []TableInEffect
<1>1. FilesInv => TableInEffect
  <2>. SUFFICES ASSUME FilesInv, pc = "done", NEW i \in DOMAIN table
                PROVE  LET r == table[i]
                       IN /\ r.user \in DOMAIN passwd \cap shadow /\ r.group \in DOMAIN group
                          /\ r.uid # AutoId => passwd[r.user].uid = r.uid
                          /\ r.gid # AutoId => group[r.group].gid = r.gid
                          /\ ListedOnce(r.user) => passwd[r.user].gid = group[r.group].gid
    BY DEF TableInEffect, Lines
  <2>1. Going /\ job = End /\ step = "start" /\ table \in Tables
    BY AtTheEnd
  <2>2. InEffect(table, group, passwd)
    BY <2>1, EndInEffect DEF FilesInv
  <2>3. table[i].user \in shadow
    <3>1. Checked(i)
      BY <2>1, AllBehind DEF FilesInv
    <3>. QED  BY <2>1, <3>1, NothingOut DEF FilesInv, Settled
  <2>4. ListedOnce(table[i].user) => LastOf(table, i)
    BY <2>1, ListedOnceIs DEF Once, LastOf
  <2>5. table[i].group \in GroupsIn(table) /\ table[i].user \in UsersIn(table)
    BY DEF GroupsIn, UsersIn
  <2>6. /\ table[i].group \in DOMAIN group /\ table[i].user \in DOMAIN passwd
        /\ table[i].uid # AutoId => passwd[table[i].user].uid = table[i].uid
        /\ table[i].gid # AutoId => group[table[i].group].gid = table[i].gid
    BY <2>2, <2>5 DEF InEffect
  <2>7. LastOf(table, i) => passwd[table[i].user].gid = group[table[i].group].gid
    <3>1. LastOf(table, i) =>
            passwd[table[i].user] = [uid |-> passwd[table[i].user].uid,
                                     gid |-> group[table[i].group].gid]
      BY <2>2 DEF InEffect
    <3>. QED  BY <3>1
  <2>. QED  BY <2>3, <2>4, <2>6, <2>7
<1>. QED  BY <1>1, FilesInvariant, PTL

(* ... and they are members of their additional groups.                    *)
THEOREM MembersOfTable ==
  ASSUME Documented
  PROVE  Spec => []Memberships
<1>1. FilesInv => Memberships
  <2>. SUFFICES ASSUME FilesInv, pc = "done", NEW i \in DOMAIN table, NEW k \in DOMAIN table[i].groups
                PROVE  table[i].user \in group[table[i].groups[k]].members
    BY DEF Memberships, Lines
  <2>1. Going /\ job = End /\ step = "start" /\ table \in Tables
    BY AtTheEnd
  <2>2. InEffect(table, group, passwd)
    BY <2>1, EndInEffect DEF FilesInv
  <2>3. table[i].groups[k] \in GroupsIn(table) /\ table[i].user \in MembersIn(table, table[i].groups[k])
    BY DEF GroupsIn, MembersIn
  <2>4. PICK g : g = table[i].groups[k]
    OBVIOUS
  <2>5. group[g] = [gid |-> group[g].gid, members |-> MembersIn(table, g)]
    BY <2>2, <2>3, <2>4 DEF InEffect
  <2>. QED  BY <2>3, <2>4, <2>5
<1>. QED  BY <1>1, FilesInvariant, PTL

(* ... and the homes in the image belong to the ids that its /etc/passwd   *)
(* has for their users.                                                    *)
THEOREM HomesOfTable ==
  ASSUME Documented
  PROVE  Spec => []HomesOwned
<1>1. FilesInv => HomesOwned
  <2>. SUFFICES ASSUME FilesInv, pc = "done", NEW i \in DOMAIN table, ListedOnce(table[i].user),
                       table[i].home = "own"
                PROVE  table[i].user \in DOMAIN owners /\ owners[table[i].user] = passwd[table[i].user]
    BY DEF HomesOwned, Lines
  <2>1. Going /\ job = End /\ step = "start" /\ table \in Tables
    BY AtTheEnd
  <2>2. Len(table[i].groups) + 1 \in 0 .. Len(table[i].groups) + 1
    BY <2>1, Table
  <2>3. Done(UserJob(table, i, Len(table[i].groups) + 1))
    BY <2>1, <2>2, AllBehind DEF FilesInv
  <2>4. Once(table[i].user)
    BY <2>1, ListedOnceIs
  <2>. QED  BY <2>1, <2>3, <2>4 DEF FilesInv, Housed
<1>. QED  BY <1>1, FilesInvariant, PTL

(* As long as all runs end well, no two groups have the same gid that do   *)
(* not have it in the skeleton.                                            *)
THEOREM GidsDistinct ==
  ASSUME Documented
  PROVE  Spec => []GidsUnique
<1>1. TableInv => GidsUnique
  <2>. SUFFICES ASSUME TableInv, pc = "done", ~cut, NEW g \in DOMAIN group, NEW h \in DOMAIN group,
                       group[g].gid = group[h].gid
                PROVE  g = h \/ SkelSame(g, h)
    BY DEF GidsUnique, SkelSame
  <2>1. GroupsToBe = DOMAIN group /\ \A x : GidToBe(x) = group[x].gid
    BY NothingOut
  <2>. QED  BY <2>1 DEF TableInv, Clashes
<1>. QED  BY <1>1, TableInvariant, PTL

(* Of the lines of a user, one is the last.                                *)
LEMMA LastExists ==
  ASSUME NEW t \in Tables, NEW u \in UsersIn(t)
  PROVE  \E i \in DOMAIN t : t[i].user = u /\ LastOf(t, i)
<1>1. DOMAIN t = 1 .. Len(t) /\ Len(t) \in Nat
  BY Table
<1>2. ASSUME NEW L \in SUBSET DOMAIN t, L # {}
      PROVE  \E i \in L : \A k \in L : k <= i
  <2>. DEFINE D == {Len(t) - i : i \in L}
  <2>1. D \subseteq Nat /\ D # {}
    BY <1>1, <1>2
  <2>2. PICK d \in D : \A e \in D : d <= e
    BY <2>1, LeastExists
  <2>3. PICK i \in L : d = Len(t) - i
    BY <2>2
  <2>4. ASSUME NEW k \in L PROVE k <= i
    <3>1. Len(t) - k \in D
      BY <2>4
    <3>2. Len(t) - i <= Len(t) - k
      BY <2>2, <2>3, <3>1
    <3>. QED  BY <1>1, <3>2
  <2>. QED  BY <2>4
<1>. DEFINE Of == {i \in DOMAIN t : t[i].user = u}
            Automatic == {i \in Of : t[i].uid = AutoId}
<1>3. Of # {} /\ Of \subseteq DOMAIN t /\ Automatic \subseteq DOMAIN t
  BY DEF UsersIn
<1>4. CASE Automatic # {}
  <2>1. PICK i \in Automatic : \A k \in Automatic : k <= i
    BY <1>2, <1>3, <1>4
  <2>. QED  BY <1>1, <2>1 DEF LastOf
<1>5. CASE Automatic = {}
  <2>1. PICK i \in Of : \A k \in Of : k <= i
    BY <1>2, <1>3
  <2>. QED  BY <1>1, <1>5, <2>1 DEF LastOf
<1>. QED  BY <1>4, <1>5

(* fs/common.mk runs the script once per image: a second run with the same *)
(* table ends with the groups and users of the first.                      *)
THEOREM ImagesSame ==
  ASSUME Documented
  PROVE  Spec => SameForEveryImage
<1>1. FilesInv /\ TableInv /\ [Next]_vars =>
        [pc = "run" /\ pc' = "done" /\ image.table = {table} =>
           group = image.group /\ passwd = image.passwd]_vars
  <2>. SUFFICES ASSUME FilesInv, TableInv, [Next]_vars, pc = "run", pc' = "done",
                       image.table = {table}
                PROVE  group = image.group /\ passwd = image.passwd
    OBVIOUS
  <2>1. Onward /\ Finish
    <3>1. Onward
      BY DEF Onward
    <3>. QED  BY <3>1, ImageMoves
  <2>2. Going /\ job = End /\ step = "start" /\ table \in Tables
    BY <2>1, Places DEF FilesInv, Finish, At, Going
  <2>3. /\ GroupsToBe = DOMAIN group /\ UsersToBe = DOMAIN passwd
        /\ \A g : GidToBe(g) = group[g].gid
        /\ \A u : UidToBe(u) = passwd[u].uid
    BY <2>2, NothingOut
  <2>4. InEffect(table, group, passwd) /\ InEffect(table, image.group, image.passwd)
    BY <2>2, EndInEffect DEF FilesInv, TableInv, ImageInEffect
  <2>5. /\ DOMAIN group = DOMAIN image.group /\ DOMAIN passwd = DOMAIN image.passwd
        /\ \A g \in DOMAIN group : group[g].gid = image.group[g].gid
        /\ \A g \in DOMAIN group \ GroupsIn(table) : group[g] = image.group[g]
        /\ \A u \in DOMAIN passwd : passwd[u].uid = image.passwd[u].uid
        /\ \A u \in DOMAIN passwd \ UsersIn(table) : passwd[u] = image.passwd[u]
    BY <2>3 DEF TableInv, Repeats
  <2>6. ASSUME NEW g \in DOMAIN group PROVE group[g] = image.group[g]
    <3>1. CASE g \in GroupsIn(table)
      <4>1. group[g] = [gid |-> group[g].gid, members |-> MembersIn(table, g)]
        BY <2>4, <3>1 DEF InEffect
      <4>2. image.group[g] = [gid |-> image.group[g].gid, members |-> MembersIn(table, g)]
        BY <2>4, <3>1 DEF InEffect
      <4>. QED  BY <2>5, <4>1, <4>2
    <3>. QED  BY <2>5, <3>1
  <2>7. ASSUME NEW u \in DOMAIN passwd PROVE passwd[u] = image.passwd[u]
    <3>1. CASE u \in UsersIn(table)
      <4>1. PICK i \in DOMAIN table : table[i].user = u /\ LastOf(table, i)
        BY <2>2, <3>1, LastExists
      <4>2. table[i].group \in DOMAIN group
        BY <2>4 DEF InEffect, GroupsIn
      <4>3. passwd[u] = [uid |-> passwd[u].uid, gid |-> group[table[i].group].gid]
        BY <2>4, <4>1 DEF InEffect
      <4>4. image.passwd[u] = [uid |-> image.passwd[u].uid, gid |-> image.group[table[i].group].gid]
        BY <2>4, <4>1 DEF InEffect
      <4>. QED  BY <2>5, <4>2, <4>3, <4>4
    <3>. QED  BY <2>5, <3>1
  <2>8. /\ group = [g \in DOMAIN group |-> group[g]]
        /\ passwd = [u \in DOMAIN passwd |-> passwd[u]]
        /\ image.group = [g \in DOMAIN image.group |-> image.group[g]]
        /\ image.passwd = [u \in DOMAIN image.passwd |-> image.passwd[u]]
    BY DEF FilesInv, OneLineEach, LastImage
  <2>9. group = image.group
    BY <2>5, <2>6, <2>8
  <2>10. passwd = image.passwd
    BY <2>5, <2>7, <2>8
  <2>. QED  BY <2>9, <2>10
<1>. QED  BY <1>1, FilesInvariant, TableInvariant, PTL DEF Spec, SameForEveryImage
=============================================================================
