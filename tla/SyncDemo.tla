------------------------------ MODULE SyncDemo ------------------------------
(***************************************************************************)
(* The thread demonstration, applications/mthread_demo/mthread_demo.c: two *)
(* threads that take turns, by a mutex, or by signals on a condition.      *)
(*                                                                         *)
(* sync is [at, held, late]: at[t] the next step of thread t, held the     *)
(* thread that has the mutex, or 0.  The condition has no predicate: what  *)
(* keeps a signal from being lost is that the other one sleeps for a       *)
(* second before it sends it.  A sleep ends when no thread has anything    *)
(* else to do, or too early for a thread that was kept from running: late. *)
(***************************************************************************)
EXTENDS Naturals

VARIABLE sync

Turns == {1, 2}
Other(t) == 3 - t

\* The two demonstrations: thread1_yell begins with waiting, thread2_yell with sleeping.
MutexDemo == [at |-> [t \in Turns |-> "lock"], held |-> 0, late |-> FALSE]
SignalDemo == [at |-> <<"wait", "sleep">>, held |-> 0, late |-> FALSE]
Init == sync \in {MutexDemo, SignalDemo}

Step(t, from, to) == sync.at[t] = from /\ sync' = [sync EXCEPT !.at[t] = to]

\* threadx_yell
Lock(t) ==
  /\ sync.at[t] = "lock" /\ sync.held = 0
  /\ sync' = [sync EXCEPT !.at[t] = "inside", !.held = t]
Unlock(t) ==
  /\ sync.at[t] = "unlock"
  /\ sync' = [sync EXCEPT !.at[t] = "outside", !.held = 0]

\* pthread_cond_wait without the mutex: the one of glibc gives the mutex back, whoever has it,
\* and takes it when it returns.
CondWait(t) ==
  /\ sync.at[t] = "wait"
  /\ sync' = [sync EXCEPT !.at[t] = "waiting", !.held = 0]
Released(t) ==
  /\ sync.at[t] = "signalled" /\ sync.held = 0
  /\ sync' = [sync EXCEPT !.at[t] = "sleep", !.held = t]

\* pthread_cond_signal: nothing happens when nobody waits.
CondSignal(t) ==
  /\ sync.at[t] = "signal"
  /\ sync' = [sync EXCEPT !.at = [u \in Turns |->
                 IF u = t THEN "wait" ELSE IF @[u] = "waiting" THEN "signalled" ELSE @[u]]]

\* sleep and msleep.
AfterSleep == [sleep |-> "signal", inside |-> "unlock", outside |-> "lock"]
Asleep(t) == sync.at[t] \in DOMAIN AfterSleep
Busy(t) ==
  \/ sync.at[t] \in {"unlock", "wait", "signal"}
  \/ sync.at[t] \in {"lock", "signalled"} /\ sync.held = 0

\* Mutant for NobodyStuck: a sleep of no length.
SleepsNot(t) == Asleep(t) /\ sync' = [sync EXCEPT !.at[t] = AfterSleep[@]]
SleepEnds(t) ==
  /\ Asleep(t)
  /\ sync' = [sync EXCEPT !.at[t] = AfterSleep[@], !.late = @ \/ Busy(Other(t))]

Thread(t) == Lock(t) \/ Unlock(t) \/ CondWait(t) \/ Released(t) \/ CondSignal(t) \/ SleepEnds(t)
Next == \E t \in Turns : Thread(t)
Fairness == \A t \in Turns : WF_sync(Thread(t))

\* Each thread comes round again and again.
Turn(t) == sync.at[t] \in {"inside", "sleep"}
=============================================================================
