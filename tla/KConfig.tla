----------------------------- MODULE KConfig -----------------------------
(***************************************************************************)
(* The programs that edit a configuration, one after the other in one      *)
(* directory: the dialogue of conf.c with its batch modes, and the front   *)
(* ends mconf, nconf, gconf and qconf.                                     *)
(*                                                                         *)
(* tree is the name of the Kconfig tree, k; tool the program; mode its      *)
(* input_mode; m its memory (KConfData); name the file its exit saves to;  *)
(* todo the stack of menu entries conf() and check_conf() still have to    *)
(* visit, rootEntry and asked as in conf.c (asked: conf_cnt # 0).  disk    *)
(* holds .config, .config.old, an alternate file and the minimal           *)
(* configuration.  What the front ends show while they edit is in KViews;  *)
(* here any of their lines may be set at any time.                         *)
(***************************************************************************)
EXTENDS KEntries

CONSTANTS
  Trees,       \* name |-> a tree as conf_parse() leaves it, Tree(root)
  FirstFiles,  \* name |-> the files found as .config at the beginning
  Tools,       \* name |-> the programs that are run
  Outcomes,    \* how a write may end: "ok", "noopen", "norename", "killed", "between"
  MaxRuns,     \* programs started
  MaxEdits     \* settings changed by hand in all

\* What conf_parse() and sym_check_deps() leave, or the program ends at once.
ASSUME TreesAccepted ==
  \A t \in DOMAIN Trees : Rooted(Trees[t]) /\ Evaluable(Trees[t]) /\ Acyclic(Trees[t])

\* A write ends in one of these ways.
ASSUME OutcomesKnown == Outcomes \subseteq {"ok", "noopen", "norename", "killed", "between"}

\* Files are made of lines.
ASSUME FilesOfLines ==
  \A t \in DOMAIN Trees : FirstFiles[t] \subseteq Seq([s : STRING, v : STRING])

VARIABLES tree, tool, mode, m, name, todo, rootEntry, asked, disk, runs, edits

vars == <<tree, tool, mode, m, name, todo, rootEntry, asked, disk, runs, edits>>

FrontEnds == {"mconf", "nconf", "gconf", "qconf"}
Dialogues == {"oldaskconfig", "oldconfig", "silentoldconfig", "olddefconfig", "listnewconfig"}
Batches == {"defconfig", "savedefconfig", "allnoconfig", "allyesconfig", "allmodconfig",
            "alldefconfig"}

Absent == <<[s |-> None, v |-> None]>>
NoMemory == [user |-> <<>>, cur |-> <<>>, changed |-> FALSE]

-----------------------------------------------------------------------------
k == Trees[tree]
EntryAt(path) == EntryOf(k, path)
Kids(path, op) == [i \in DOMAIN EntryAt(path).list |-> [op |-> op, at |-> Append(path, i)]]
Paths == PathsOf(k)
MenuOf(path) == ParentMenu(k, path)

-----------------------------------------------------------------------------
(* Files.                                                                  *)

\* conf_write with each of the ways it may end: what is in memory and on disk after it,
\* and whether it reports success.
WriteEnd(file, outcome, before) ==
  LET after == NothingToWrite(k, before)
      moved == IF file = "config" /\ disk.config # Absent
               THEN [disk EXCEPT !.old = disk.config] ELSE disk
  IN  CASE outcome = "noopen"   -> [m |-> m, disk |-> disk, ok |-> FALSE]
        [] outcome = "norename" -> [m |-> after, ok |-> FALSE, disk |-> [moved EXCEPT ![file] = Absent]]
        [] outcome = "killed"   -> [m |-> NoMemory, disk |-> disk, ok |-> FALSE]
        [] outcome = "between"  -> [m |-> NoMemory, ok |-> FALSE, disk |-> [moved EXCEPT ![file] = Absent]]
        [] outcome = "ok"       -> [m |-> [after EXCEPT !.changed = FALSE], ok |-> TRUE,
                                    disk |-> [moved EXCEPT ![file] = Lines(k, before)]]
WriteTo(file, outcome) == WriteEnd(file, outcome, BeforeWrite(k, m))

\* conf_read(name); a missing file leaves memory as it is, but for the count.
ReadFrom(mem, file) ==
  IF disk[file] = Absent THEN [mem EXCEPT !.changed = file = "config"] ELSE Read(k, mem, disk[file])

Idle == /\ tool' = "none" /\ mode' = "none" /\ m' = NoMemory /\ name' = "config"
        /\ todo' = <<>> /\ rootEntry' = <<>> /\ asked' = FALSE

Init ==
  /\ tree \in DOMAIN Trees
  /\ tool = "none" /\ mode = "none" /\ m = NoMemory /\ name = "config"
  /\ todo = <<>> /\ rootEntry = <<>> /\ asked = FALSE
  /\ \E file \in FirstFiles[tree] :
       disk = [config |-> file, old |-> Absent, alt |-> Absent, min |-> Absent]
  /\ runs = 0 /\ edits = 0

\* What a program does with what it read: the batch modes give all new symbols a value.
\* Without a file every symbol is new.
AllNew(t) == CASE t = "allnoconfig" -> "allno" [] t = "allyesconfig" -> "allyes"
               [] t = "allmodconfig" -> "allmod" [] OTHER -> "default"
Prepared(t, mem) ==
  CASE t \in FrontEnds -> DrawnAt(k, mem, Paths)
    [] t \in Dialogues \cup {"savedefconfig"} -> mem
    [] OTHER -> SetAllNew(k, mem, AllNew(t), IF t = "defconfig" THEN {} ELSE DOMAIN k.tab)
AtStart(t, fresh) ==
  IF t \in Batches \ {"savedefconfig", "defconfig"} THEN fresh
  ELSE ReadFrom(fresh, IF t = "defconfig" THEN "min" ELSE "config")

\* The program starts and reads what its mode reads; the dialogues begin their walk.
Start(t) ==
  /\ tool = "none" /\ runs < MaxRuns
  /\ t = "silentoldconfig" => disk.config # Absent
  /\ t = "defconfig" => disk.min # Absent
  /\ tool' = t /\ mode' = t /\ runs' = runs + 1
  /\ m' = Prepared(t, AtStart(t, Parsed(k)))
  /\ todo' = CASE t = "oldaskconfig" -> <<[op |-> "conf", at |-> <<>>]>>
               [] t \in Dialogues \ {"oldaskconfig"} -> <<[op |-> "check", at |-> <<>>]>>
               [] OTHER -> <<>>
  /\ UNCHANGED <<tree, name, rootEntry, asked, disk, edits>>

-----------------------------------------------------------------------------
(* The dialogue: conf() and check_conf().                                  *)

Task == Head(todo)
Here == EntryAt(Task.at)
Drawn == DrawnAt(k, m, {Task.at})
Now(s) == m.cur[s].tri
Seen(path) == MenuIsVisible(k, m.cur, path)

Walking(op) == todo # <<>> /\ Task.op = op
Goto(tasks, mem) == /\ todo' = tasks \o Tail(todo)
                    /\ m' = mem
                    /\ UNCHANGED <<tree, tool, name, disk, runs>>

\* What conf_askvalue asks about: new symbols, or all of them.
Asks(s) == Changable(m, s) /\ (mode = "oldaskconfig" \/ ~m.user[s].has)
IsChoiceEntry(e) == e.sym # None /\ IsChoice(k, e.sym)

Skip == /\ Walking("conf") \/ Walking("check")
        /\ ~Seen(Task.at)
        /\ Goto(<<>>, m) /\ UNCHANGED <<mode, rootEntry, asked, edits>>

\* Only the menu in question is asked about; its submenus are merely checked.
CheckSubmenu ==
  /\ Walking("conf") /\ Seen(Task.at)
  /\ Here.type = "menu" /\ Here.prompt /\ Task.at # rootEntry
  /\ mode \in {"silentoldconfig", "listnewconfig", "olddefconfig"}
  /\ Goto(<<[op |-> "check", at |-> Task.at]>>, Drawn)
  /\ UNCHANGED <<mode, rootEntry, asked, edits>>

Entering ==
  /\ Walking("conf") /\ Seen(Task.at)
  /\ ~(Here.type = "menu" /\ Task.at # rootEntry
       /\ mode \in {"silentoldconfig", "listnewconfig", "olddefconfig"})

\* An entry with nothing to ask.
Pass ==
  /\ Entering
  /\ Here.sym # None => ~IsChoiceEntry(Here) /\ ~Asks(Here.sym)
  /\ Goto(Kids(Task.at, "conf"), Drawn) /\ UNCHANGED <<mode, rootEntry, asked, edits>>

\* conf_sym: the answer of the user, who may also just press enter.
Answer(v) ==
  /\ Entering /\ Here.sym # None /\ ~IsChoiceEntry(Here) /\ Asks(Here.sym)
  /\ IsTri(Here.sym) /\ CanSetTri(k, m, Here.sym, v)
  /\ v # Now(Here.sym) => edits < MaxEdits
  /\ Goto(Kids(Task.at, "conf"), SetTri(k, Drawn, Here.sym, v))
  /\ edits' = edits + (IF v = Now(Here.sym) THEN 0 ELSE 1)
  /\ UNCHANGED <<mode, rootEntry, asked>>

\* conf_string
AnswerString(w) ==
  /\ Entering /\ Here.sym # None /\ ~IsTri(Here.sym) /\ Asks(Here.sym)
  /\ StringInRange(k, m, Here.sym, w)
  /\ w # m.cur[Here.sym].val => edits < MaxEdits
  /\ Goto(Kids(Task.at, "conf"), SetString(k, Drawn, Here.sym, w))
  /\ edits' = edits + (IF w = m.cur[Here.sym].val THEN 0 ELSE 1)
  /\ UNCHANGED <<mode, rootEntry, asked>>

\* conf_choice: first whether the choice is set at all, then which value.  A choice that
\* is not y has its values asked about one by one.
EnteredChoice(s, mem) ==
  Goto(CASE mem.cur[s].tri = 0 -> <<>>
         [] mem.cur[s].tri = 1 -> Kids(Task.at, "conf")
         [] mem.cur[s].tri = 2 -> <<[op |-> IF m.user[s].has THEN "keep" ELSE "pick", at |-> Task.at]>>,
       mem)
EnterChoice(v) ==
  LET s == Here.sym
  IN  /\ Entering /\ IsChoiceEntry(Here)
      /\ IF Asks(s) THEN CanSetTri(k, m, s, v) ELSE v = Now(s)
      /\ v # Now(s) => edits < MaxEdits
      /\ EnteredChoice(s, IF Asks(s) THEN SetTri(k, Drawn, s, v) ELSE Drawn)
      /\ edits' = edits + (IF v = Now(s) THEN 0 ELSE 1)
      /\ UNCHANGED <<mode, rootEntry, asked>>

Pickable(path) ==
  {i \in DOMAIN EntryAt(path).list : LET e == EntryAt(path).list[i]
                                     IN  e.sym # None /\ Seen(Append(path, i))}

\* The value that is picked: the only one, the present one where the choice is not new,
\* else the user's.  Then what is below that value is asked about.
PickedIn(mem, v) == IF CanSetTri(k, mem, v, 2) THEN SetTri(k, mem, v, 2) ELSE mem
PickValue(i) ==
  LET s == Here.sym
      v == Here.list[i].sym
      now == m.cur[s].val
  IN  /\ Walking("pick") \/ Walking("keep")
      /\ i \in Pickable(Task.at)
      /\ \/ Cardinality(Pickable(Task.at)) = 1
         \/ v = now
         \/ (Task.op = "pick" \/ mode = "oldaskconfig") /\ edits < MaxEdits
      /\ Goto(Kids(Append(Task.at, i), "conf"),
              PickedIn(DrawnAt(k, m, {Append(Task.at, j) : j \in DOMAIN Here.list}), v))
      /\ edits' = edits + (IF v = now THEN 0 ELSE 1)
      /\ UNCHANGED <<mode, rootEntry, asked>>

\* check_conf: a new symbol that can be changed, or a new choice, restarts the dialogue
\* in its menu.
Restarts(s) == /\ ~m.user[s].has
               /\ Changable(m, s) \/ (IsChoice(k, s) /\ Now(s) = 2)
Check ==
  /\ Walking("check") /\ Seen(Task.at)
  /\ IF Here.sym # None /\ Restarts(Here.sym) /\ mode \notin {"listnewconfig", "olddefconfig"}
     THEN /\ rootEntry' = MenuOf(Task.at) /\ asked' = TRUE
          /\ Goto(<<[op |-> "conf", at |-> MenuOf(Task.at)]>> \o Kids(Task.at, "check"), Drawn)
     ELSE /\ UNCHANGED <<rootEntry, asked>>
          /\ Goto(Kids(Task.at, "check"), Drawn)
  /\ UNCHANGED <<mode, edits>>

\* Update until a loop caused no more changes; oldaskconfig goes on as silentoldconfig.
NextRound ==
  /\ tool \in Dialogues /\ todo = <<>>
  /\ asked \/ mode = "oldaskconfig"
  /\ todo' = <<[op |-> "check", at |-> <<>>]>> /\ asked' = FALSE
  /\ mode' = IF mode = "oldaskconfig" THEN "silentoldconfig" ELSE mode
  /\ UNCHANGED <<tree, tool, m, name, rootEntry, disk, runs, edits>>

\* Mutant for AllAsked: what an answer brings up is not looked for.
FinishedAtOnce == tool \in Batches \/ (tool \in Dialogues /\ todo = <<>>)
Finished == tool \in Batches \/ (tool \in Dialogues /\ todo = <<>> /\ ~asked /\ mode # "oldaskconfig")

\* The end of conf: write what the mode writes.  A failed write is reported, and lost.
Finish(outcome) ==
  /\ Finished
  /\ CASE tool = "listnewconfig" -> outcome = "ok" /\ UNCHANGED disk
       [] tool = "savedefconfig" ->
            /\ outcome = "ok"
            /\ disk' = [disk EXCEPT !.min = MinimalLines(k, Changed(k, m))]
       [] tool = "silentoldconfig" /\ ~m.changed -> outcome = "ok" /\ UNCHANGED disk
       [] OTHER -> disk' = WriteTo("config", outcome).disk
  /\ Idle /\ UNCHANGED <<tree, runs, edits>>

-----------------------------------------------------------------------------
(* The front ends.                                                         *)

Editing == tool \in FrontEnds

\* The lines of symbols.  All but nconf act on invisible lines too, which they show on
\* demand.
HasLine(p) ==
  LET e == EntryAt(p)
  IN  e.sym # None /\ (Seen(p) \/ (e.prompt /\ tool # "nconf"))
Edit(mem) == /\ edits < MaxEdits /\ edits' = edits + 1
             /\ m' = DrawnAt(k, mem, Paths)
             /\ UNCHANGED <<tree, tool, mode, name, todo, rootEntry, asked, disk, runs>>

\* A line is set to a value it can be set to.
SetLine(p, v) ==
  LET s == EntryAt(p).sym
  IN  /\ Editing /\ HasLine(p) /\ IsTri(s)
      /\ CanSetTri(k, m, s, v)
      /\ Edit(SetTri(k, m, s, v))

TypeLine(p, w) ==
  LET s == EntryAt(p).sym
  IN  /\ Editing /\ HasLine(p) /\ ~IsTri(s)
      /\ StringInRange(k, m, s, w)
      /\ Edit(SetString(k, m, s, w))

\* mconf and nconf go on with the file they loaded, and count it as a change.
Load(file) ==
  LET own == tool \in {"mconf", "nconf"}
  IN  /\ Editing /\ edits < MaxEdits
      /\ edits' = edits + 1
      /\ IF disk[file] = Absent
         THEN m' = [m EXCEPT !.changed = FALSE] /\ UNCHANGED name
         ELSE /\ m' = DrawnAt(k, [Read(k, m, disk[file]) EXCEPT !.changed = @ \/ own], Paths)
              /\ name' = IF own THEN file ELSE name
      /\ UNCHANGED <<tree, tool, mode, todo, rootEntry, asked, disk, runs>>

\* Saving: mconf and nconf to any file, which is then the one they work on; gconf to .config
\* or to any file; qconf always to .config.
AfterSave(file, w) ==
  /\ disk' = w.disk
  /\ IF w.m = NoMemory THEN Idle
     ELSE /\ m' = w.m
          /\ name' = IF w.ok /\ tool \in {"mconf", "nconf"} THEN file ELSE name
          /\ UNCHANGED <<tool, mode, todo, rootEntry, asked>>
  /\ UNCHANGED <<tree, runs, edits>>
Save(file, outcome) ==
  /\ Editing
  /\ tool = "qconf" => file = "config"
  /\ AfterSave(file, WriteTo(file, outcome))

\* Nothing changed: the program ends without a word.
Leave == /\ Editing /\ ~m.changed
         /\ Idle /\ UNCHANGED <<tree, disk, runs, edits>>

\* Something changed and the user wants it saved.  Only qconf stays when the write fails.
AfterLeave(w) ==
  /\ disk' = w.disk
  /\ IF tool = "qconf" /\ ~w.ok /\ w.m # NoMemory
     THEN m' = w.m /\ UNCHANGED <<tool, mode, name, todo, rootEntry, asked>>
     ELSE Idle
  /\ UNCHANGED <<tree, runs, edits>>
SaveAndLeave(outcome) == Editing /\ m.changed /\ AfterLeave(WriteTo(name, outcome))

Discard == /\ Editing /\ m.changed
           /\ Idle /\ UNCHANGED <<tree, disk, runs, edits>>
-----------------------------------------------------------------------------
Words == {w \in DOMAIN NumOf : w # ""}
Files == {"config", "alt"}
SymbolLines == Paths \ {<<>>}

Dialogue ==
  \/ Skip \/ CheckSubmenu \/ Pass \/ Check \/ NextRound
  \/ \E v \in 0..2 : Answer(v) \/ EnterChoice(v)
  \/ \E w \in Words : AnswerString(w)
  \/ \E i \in 1..3 : PickValue(i)

FrontEnd ==
  \/ \E p \in SymbolLines, v \in 0..2 : SetLine(p, v)
  \/ \E p \in SymbolLines, w \in Words : TypeLine(p, w)
  \/ \E f \in Files : Load(f) \/ \E o \in Outcomes : Save(f, o)
  \/ Leave \/ Discard \/ \E o \in Outcomes : SaveAndLeave(o)

\* No program needs to be started; a program that runs may not stop.
Done == tool = "none" /\ UNCHANGED vars

Next ==
  \/ \E t \in Tools[tree] : Start(t)
  \/ Dialogue
  \/ \E o \in Outcomes : Finish(o)
  \/ FrontEnd
  \/ Done

Spec == Init /\ [][Next]_vars

\* A dialogue goes on for as long as it runs.  (That it can go on, so that this is weak
\* fairness of its steps, is what the search for deadlocks shows.)
GoesOn == []<>(tool \notin Dialogues) \/ []<><<TRUE>>_<<todo, tool>>
FairSpec == Spec /\ GoesOn

-----------------------------------------------------------------------------
(* Properties.                                                             *)

Reread(file) == Read(k, Parsed(k), file)
Contents(mem) == Lines(k, BeforeWrite(k, mem))

\* What a file sets: a line that says n says no more than no line at all.
Sets(file) == {l \in Range(file) : ~(IsTri(l.s) /\ l.v = "n")}

\* A configuration that a program wrote gives, when it is read, every symbol the value it
\* was written with (conf_write, conf_read).
WrittenIsRead ==
  [][\A f \in Files : disk'[f] # disk[f] /\ disk'[f] # Absent
       => Sets(Contents(Reread(disk'[f]))) = Sets(disk'[f])]_vars

\* The minimal configuration stands for the whole one: read as a defconfig it gives the
\* values it was made from (conf_write_defconfig).
MinimalIsEnough ==
  [][disk'.min # disk.min
       => Sets(Contents(SetAllNew(k, Reread(disk'.min), "default", {}))) = Sets(Contents(m))]_vars

\* Of the values of a choice that is y exactly one is y, and it can be seen
\* (sym_calc_choice).
OneChoice ==
  m # NoMemory =>
    \A c \in DOMAIN k.tab : IsChoice(k, c) /\ Now(c) = 2
      => LET on == {v \in Range(k.tab[c].vals) : Now(v) = 2}
         IN  /\ Cardinality(on) = 1
             /\ \A v \in on : m.cur[v].vis = 2

\* Whatever the configurators can be asked to set is what they then show: the range check
\* of sym_tristate_within_range and the calculation of sym_calc_value agree.
SetHolds ==
  Editing => \A s \in DOMAIN k.tab, v \in 0..2 :
                    TriInRange(k, m, s, v) => SetTri(k, m, s, v).cur[s].tri = v

\* A dialogue that is about to write has asked about every new symbol it shows, those too
\* that an answer brought up (the loop of main() in conf.c).
AllAsked ==
  Finished /\ tool \in {"oldaskconfig", "oldconfig", "silentoldconfig"}
    => \A p \in Paths : EntryAt(p).sym # None /\ AllVisible(k, m, p) => ~Restarts(EntryAt(p).sym)

\* A dialogue ends when the user answers its questions (the loop of main() in conf.c).
DialogueEnds == (tool \in Dialogues) ~> (tool = "none")
==========================================================================
