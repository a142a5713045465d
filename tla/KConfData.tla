---------------------------- MODULE KConfData ----------------------------
(***************************************************************************)
(* Setting symbols, reading and writing configurations:                    *)
(* support/kconfig/symbol.c and confdata.c.                                *)
(*                                                                         *)
(* m is what a running configurator has in memory: m.user and m.cur as in  *)
(* KSymbol, and m.changed (sym_change_count # 0, the bit that              *)
(* conf_get_changed() returns).  A configuration file is a sequence of     *)
(* lines [s, v]; "# CONFIG_s is not set" is the line with v = "n".  Words  *)
(* carry no quotes or backslashes, which files escape.                     *)
(***************************************************************************)
EXTENDS KSymbol

Unset == [has |-> FALSE, tri |-> 0, val |-> None]

\* sym_calc_value() for the symbols of S, each after those it depends on.
CalcOne(k, user, old, S, cur, s) ==
  IF s \in S THEN [cur EXCEPT ![s] = CalcSymbol(k, user, cur, old[s], s)] ELSE cur
CalcAll(k, user, old, S) ==
  LET after[n \in 0..Len(k.order)] ==
        IF n = 0 THEN old ELSE CalcOne(k, user, old, S, after[n - 1], k.order[n])
  IN  after[Len(k.order)]

\* sym_clear_all_valid() and the calculation of every symbol.  A choice that has a new
\* value is new itself.
WithCur(k, m, cur) ==
  [m EXCEPT !.cur = cur,
            !.user = [s \in DOMAIN @ |-> IF IsChoice(k, s) THEN [@[s] EXCEPT !.has = cur[s].has]
                                         ELSE @[s]]]
EvalAll(k, m) == WithCur(k, m, CalcAll(k, m.user, m.cur, DOMAIN k.tab))

Changed(k, m) == EvalAll(k, [m EXCEPT !.changed = TRUE])

\* The program after conf_parse().
Parsed(k) ==
  EvalAll(k, [user |-> [s \in DOMAIN k.tab |-> Unset], changed |-> TRUE,
              cur |-> [s \in DOMAIN TypeOf |-> IF s \in DOMAIN k.tab THEN Fresh ELSE ConstEntry(s)]])

-----------------------------------------------------------------------------
(* Setting a symbol.                                                       *)

Changable(m, s) == m.cur[s].vis > m.cur[s].rev

\* Mutant for SetHolds: only the visibility bounds what can be set.
UpToVisible(k, m, s, v) ==
  IsTri(s) /\ v <= m.cur[s].vis /\ (ActsBoolean(k, m.cur, s, m.cur[s].vis) => v # 1)
TriInRange(k, m, s, v) ==
  LET c == m.cur[s]
  IN  /\ IsTri(s) /\ Changable(m, s)
      /\ ActsBoolean(k, m.cur, s, c.vis) => v # 1
      /\ IF IsValue(k, s) /\ c.vis = 2 THEN v = 2 ELSE c.rev <= v /\ v <= c.vis

CanSetTri(k, m, s, v) == m.cur[s].tri = v \/ TriInRange(k, m, s, v)

\* Mutant for DialogueEnds: an answer that changes nothing is not recorded.
OnlyIfDifferent(k, m, s, v) ==
  IF m.cur[s].tri = v THEN m
  ELSE Changed(k, [m EXCEPT !.user[s] = [@ EXCEPT !.has = TRUE, !.tri = v]])

\* Choosing a value also takes the new flag from the choice and its other values.
SetTri(k, m, s, v) ==
  LET cs == k.tab[s].choice
      own == [m.user EXCEPT ![s] = [@ EXCEPT !.has = TRUE, !.tri = v]]
      user == IF IsValue(k, s) /\ v = 2
              THEN [t \in DOMAIN own |->
                     CASE t = cs -> [own[t] EXCEPT !.has = TRUE, !.val = s]
                       [] t # cs /\ k.tab[t].choice = cs /\ m.cur[t].vis # 0
                            -> [own[t] EXCEPT !.has = TRUE]
                       [] OTHER -> own[t]]
              ELSE own
      set == [m EXCEPT !.user = user]
  IN  IF m.cur[s].tri = v THEN set ELSE Changed(k, set)

\* The first value after the present one that can be set; at last the present one.
ToggleTo(k, m, s) ==
  LET now == m.cur[s].tri
      next == <<(now + 1) % 3, (now + 2) % 3, now>>
  IN  next[Min({i \in 1..3 : CanSetTri(k, m, s, next[i])})]

\* The first range whose condition holds bounds what can be typed.
StringInRange(k, m, s, w) ==
  LET at == RangeAt(k, m.cur, s)
      r == k.tab[s].ranges[at]
  IN  \/ TypeOf[s] = "string"
      \/ /\ TypeOf[s] = "int" /\ w # "" /\ w \in DOMAIN NumOf
         /\ at # 0 => NumOf[w] \in NumOf[m.cur[r.lo].val] .. NumOf[m.cur[r.hi].val]

\* The same string as before changes nothing, whether or not it was in force.
SetString(k, m, s, w) ==
  LET set == [m EXCEPT !.user[s] = [@ EXCEPT !.has = TRUE, !.val = w]]
  IN  IF m.user[s].val = w THEN set ELSE Changed(k, set)

\* What the value would be had the user said nothing.
DefaultSays(k, m, s, at) ==
  LET tri == MaxOf(DefaultTri(k, m.cur, s, at), m.cur[s].rev)
      toYes == tri = 1 /\ (TypeOf[s] = "boolean" \/ (~IsValue(k, s) /\ ModulesVal(m.cur) = 0))
  IN  IF IsTri(s) THEN TriName(IF toYes THEN 2 ELSE tri) ELSE DefaultVal(k, m.cur, s, at)
StringDefault(k, m, s) == DefaultSays(k, m, s, DefaultAt(k, m.cur, s))

-----------------------------------------------------------------------------
(* Reading.  acc collects m.user, the number of warnings and whether a     *)
(* line named a symbol the tree does not have.                             *)

ValidLine(s, v) ==
  CASE TypeOf[s] = "tristate" -> v \in {"n", "m", "y"}
    [] TypeOf[s] = "boolean" -> v \in {"n", "y"}
    [] TypeOf[s] = "int" -> v # "" /\ v \in DOMAIN NumOf
    [] OTHER -> TRUE

TriOf(v) == CASE v = "y" -> 2 [] v = "m" -> 1 [] OTHER -> 0

\* Mutant for WrittenIsRead: the last member read is chosen, whatever its value.
LastIsChosen(k, acc, line) ==
  LET s == line.s
      cs == k.tab[s].choice
      own(t) == IF IsTri(t) THEN [acc.user[t] EXCEPT !.has = TRUE, !.tri = TriOf(line.v)]
                ELSE [acc.user[t] EXCEPT !.has = TRUE, !.val = line.v]
  IN  IF s \notin DOMAIN k.tab THEN [acc EXCEPT !.unknown = TRUE]
      ELSE [acc EXCEPT !.user = [t \in DOMAIN @ |->
              IF t = s THEN own(t) ELSE IF t = cs THEN [@[t] EXCEPT !.tri = 2, !.val = s] ELSE @[t]]]
\* A choice takes the highest value of its members; the last one at y is chosen.
ReadLine(k, acc, line) ==
  LET s == line.s
      cs == k.tab[s].choice
      tri == TriOf(line.v)
      again == IF acc.user[s].has THEN acc.warnings + 1 ELSE acc.warnings
      own == [acc.user EXCEPT ![s] = IF IsTri(s) THEN [@ EXCEPT !.has = TRUE, !.tri = tri]
                                     ELSE [@ EXCEPT !.has = TRUE, !.val = line.v]]
      odd == tri = 1 /\ own[cs].tri = 2
      over == tri = 2 /\ own[cs].tri # 0
      chosen == [own EXCEPT ![cs] = [has |-> @.has /\ ~odd,
                                     tri |-> MaxOf(@.tri, tri),
                                     val |-> IF tri = 2 THEN s ELSE @.val]]
  IN  CASE s \notin DOMAIN k.tab -> [acc EXCEPT !.unknown = TRUE]
        [] s \in DOMAIN k.tab /\ ~ValidLine(s, line.v) -> [acc EXCEPT !.warnings = again + 1]
        [] s \in DOMAIN k.tab /\ ValidLine(s, line.v) /\ IsValue(k, s)
             -> [acc EXCEPT !.user = chosen,
                            !.warnings = IF odd \/ over THEN again + 1 ELSE again]
        [] OTHER -> [acc EXCEPT !.user = own, !.warnings = again]

\* conf_read_simple: all that was set before is forgotten.
ReadSimple(k, lines) ==
  LET after[n \in 0..Len(lines)] ==
        IF n = 0 THEN [user |-> [s \in DOMAIN k.tab |-> [Unset EXCEPT !.has = IsChoice(k, s)]],
                       warnings |-> 0, unknown |-> FALSE]
        ELSE ReadLine(k, after[n - 1], lines[n])
  IN  after[Len(lines)]

ValueOf(m, s) == IF IsTri(s) THEN TriName(m.cur[s].tri) ELSE m.cur[s].val
UserValue(m, s) == IF IsTri(s) THEN TriName(m.user[s].tri) ELSE m.user[s].val

\* The symbols whose value does not agree with what was read.
Unsaved(k, m) ==
  {s \in DOMAIN k.tab : /\ ~IsChoice(k, s)
                        /\ m.user[s].has \/ m.cur[s].write
                        /\ ~(m.user[s].has /\ m.cur[s].write /\ ValueOf(m, s) = UserValue(m, s))}

OutOfRange(k, m) ==
  {s \in DOMAIN k.tab : ~IsTri(s) /\ m.user[s].has /\ ~StringInRange(k, m, s, m.user[s].val)}

\* Invisible symbols become new again when the file agrees with the tree.
Invisible(k, m) ==
  {s \in DOMAIN k.tab : m.user[s].has /\ ~IsValue(k, s) /\ m.cur[s].vis = 0}

Forget(m, S) == [m EXCEPT !.user = [s \in DOMAIN @ |-> IF s \in S THEN [@[s] EXCEPT !.has = FALSE]
                                                      ELSE @[s]]]

\* Strings out of range are dropped; they, and nothing that depends on them, are
\* calculated again.
Recalculated(k, r, read, differs, reset) ==
  LET kept == Forget(read, reset \cup (IF differs THEN {} ELSE Invisible(k, read)))
  IN  [kept EXCEPT !.cur = CalcAll(k, kept.user, @, reset),
                   !.changed = r.unknown \/ r.warnings > 0 \/ differs \/ reset # {}]
Checked(k, r, read) == Recalculated(k, r, read, Unsaved(k, read) # {}, OutOfRange(k, read))
Taken(k, m, r) == Checked(k, r, EvalAll(k, [m EXCEPT !.user = r.user]))
Read(k, m, lines) == Taken(k, m, ReadSimple(k, lines))

-----------------------------------------------------------------------------
(* Writing.                                                                *)

Line(m, s) == [s |-> s, v |-> IF IsTri(s) THEN StringValue(m.cur, s) ELSE m.cur[s].val]

Written(k, m) == {s \in Range(k.lines) : m.cur[s].write /\ ~IsChoice(k, s)}

\* The walk of the menu writes a symbol where it meets it first.
AddLine(m, S, file, s) ==
  IF s \in S /\ \A i \in DOMAIN file : file[i].s # s THEN Append(file, Line(m, s)) ELSE file
LinesOf(k, m, S) ==
  LET file[n \in 0..Len(k.lines)] == IF n = 0 THEN <<>> ELSE AddLine(m, S, file[n - 1], k.lines[n])
  IN  file[Len(k.lines)]
Lines(k, m) == LinesOf(k, m, Written(k, m))

NothingToWrite(k, m) ==
  [m EXCEPT !.cur = [s \in DOMAIN @ |-> IF s \in Written(k, m)
                                       THEN [@[s] EXCEPT !.write = FALSE] ELSE @[s]]]

\* conf_write calculates again only when nothing changed since the last time.
BeforeWrite(k, m) == IF m.changed THEN m ELSE Changed(k, m)

\* Mutant for MinimalIsEnough: any value that is chosen is left out.
ChosenToo(k, m, s) ==
  \/ ~Changable(m, s) \/ Line(m, s).v = StringDefault(k, m, s)
  \/ IsValue(k, s) /\ TypeOf[s] = "boolean" /\ m.cur[s].tri = 2

\* What a minimal configuration leaves out.
Redundant(k, m, s) ==
  LET cs == k.tab[s].choice
      seen == {v \in Range(k.tab[cs].vals) : m.cur[v].vis # 0}
  IN  \/ ~Changable(m, s)
      \/ Line(m, s).v = StringDefault(k, m, s)
      \/ /\ IsValue(k, s) /\ ~k.tab[cs].optional
         /\ s = ChoiceDefault(k, m.cur, cs, seen)
         /\ TypeOf[s] = "boolean" /\ m.cur[s].tri = 2

MinimalLines(k, m) == LinesOf(k, m, {s \in Written(k, m) : ~Redundant(k, m, s)})

-----------------------------------------------------------------------------
(* allyesconfig and the like: every symbol that has no value yet.          *)

NewTri(k, m, mode, s) == CASE mode = "allyes" -> 2 [] mode = "allmod" -> 1
                           [] mode = "allno" -> 0 [] OTHER -> m.user[s].tri

\* set_all_choice_values
SettleChoices(k, m) ==
  LET new == {c \in DOMAIN k.tab : IsChoice(k, c) /\ ~m.user[c].has}
      settled(s) ==
        CASE s \in new -> [m.user[s] EXCEPT !.has = TRUE]
          [] s \notin new /\ k.tab[s].choice \in new /\ ~m.user[s].has
               -> [m.user[s] EXCEPT !.tri = 0]
          [] OTHER -> m.user[s]
  IN  EvalAll(k, [m EXCEPT !.user = [s \in DOMAIN @ |-> settled(s)]])

\* conf_set_all_new_symbols; new: the symbols that have neither a value nor VALID.
SetAllNew(k, m, mode, new) ==
  LET given == [s \in DOMAIN m.user |->
                  IF s \in new /\ IsTri(s) /\ mode # "default"
                  THEN [m.user[s] EXCEPT !.has = TRUE, !.tri = NewTri(k, m, mode, s)]
                  ELSE m.user[s]]
  IN  SettleChoices(k, Changed(k, [m EXCEPT !.user = given]))
==========================================================================
