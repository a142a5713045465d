----------------------------- MODULE MCMkUsers ------------------------------
(* Instances of MkUsers for TLC: tables of up to two lines over three      *)
(* users, three groups of the packages and two of the skeleton.            *)
EXTENDS MkUsers

Line(u, uid, g, gid, h, gs) ==
  [user |-> u, uid |-> uid, group |-> g, gid |-> gid, home |-> h, groups |-> gs]

(* The skeleton has a user and a group at the first automatic id.          *)
MCGroups == [wheel   |-> [gid |-> 10, members |-> {"root"}],
             default |-> [gid |-> 1000, members |-> {}]]
MCPasswd == [root    |-> [uid |-> 0, gid |-> 0],
             default |-> [uid |-> 1000, gid |-> 1000]]

(* Automatic ids, ids at and beyond the automatic range, and ids that the  *)
(* skeleton has; the same user with other ids and another group; groups    *)
(* that are the main group of one user and an additional one of another.   *)
MCLines ==
  {Line("foo", -1,   "foo",   -1,   "own", <<"bar", "wheel">>),
   Line("foo", 1001, "bar",   1001, "own", <<>>),
   Line("foo", 1000, "foo",   -1,   "-",   <<>>),
   Line("foo", -1,   "bar",   -1,   "bad", <<>>),
   Line("foo", 1002, "wheel", 50,   "-",   <<"foo">>),
   Line("bar", -1,   "bar",   -1,   "-",   <<"wheel">>),
   Line("bar", 50,   "bar",   50,   "own", <<"foo">>),
   Line("bar", -1,   "foo",   0,    "own", <<>>),
   Line("baz", -1,   "foo",   -1,   "own", <<"baz">>)}

MCTables == {<<>>} \cup {<<r>> : r \in MCLines}
            \cup {<<r, s>> : r \in MCLines, s \in MCLines}
=============================================================================
