-------------------------------- MODULE Board -------------------------------
(***************************************************************************)
(* The BeagleBone: its LED drivers (BoardLeds) and the demonstration       *)
(* programs, which use nothing of each other.  The scene says which of     *)
(* them a behaviour is about.                                              *)
(***************************************************************************)
EXTENDS BoardLeds, Sequences

CONSTANTS
  MaxRuns,     \* how often a demonstration is started
  Programs     \* programs that use the clock, numbered from 1 on

ASSUME DemoAssumption == Programs \subseteq Nat \ {0} /\ MaxRuns \in Nat

VARIABLES sync, ipc, rtc

Sync == INSTANCE SyncDemo
Ipc == INSTANCE IpcDemo
Rtc == INSTANCE RtcClock

Demos == {"sync", "ipc", "rtc"}
demovars == <<sync, ipc, rtc>>

BoardInit ==
  /\ scene \in Scenes \cup {{d} : d \in Demos}
  /\ GpioInit /\ Bbb!Init /\ Mth!Init
  /\ Ipc!Init /\ Rtc!Init
  /\ IF scene = {"sync"} THEN Sync!Init ELSE sync = Sync!MutexDemo
  /\ scene \in Scenes \/ \A p \in Pins : IsFree(p)

Still == UNCHANGED <<scene, holder, level, bbbvars, mthvars>>
BoardNext ==
  \/ scene \in Scenes /\ Next /\ UNCHANGED demovars
  \/ scene = {"sync"} /\ Sync!Next /\ UNCHANGED <<ipc, rtc>> /\ Still
  \/ scene = {"ipc"} /\ Ipc!Next /\ UNCHANGED <<sync, rtc>> /\ Still
  \/ scene = {"rtc"} /\ Rtc!Next /\ UNCHANGED <<sync, ipc>> /\ Still

BoardSpec == BoardInit /\ [][BoardNext]_<<vars, demovars>>
FairBoard ==
  /\ BoardSpec /\ Bbb!Fairness /\ Mth!Fairness /\ Ipc!Fairness
  /\ \A t \in Sync!Turns : WF_sync(scene = {"sync"} /\ Sync!Thread(t))

-----------------------------------------------------------------------------
(* Nobody waits for ever: not rmmod for the threads of the thread driver,  *)
(* nor the two threads of the communication demonstration for each other,  *)
(* whatever killed runs left behind, nor those of the thread demonstration *)
(* (the first one, for a signal of the second or for the mutex) as long as *)
(* no thread is kept from running while the other sleeps.                  *)
Waits ==
  \/ mpc \in Mth!ExitSteps
  \/ ipc.main \in {"put", "write", "join"}
  \/ scene = {"sync"} /\ ~sync.late /\ ~Sync!Turn(1)
NobodyStuck == []<>~Waits

(* The receiver prints what this run has sent: always with a pipe, by the  *)
(* other methods unless a run that was killed left something, and with     *)
(* shared memory maybe nothing.                                            *)
GetsSent == ipc.slave = "ended" => Ipc!Right

(* The clock has what a program has set, if no other one set it at the     *)
(* same time, whatever is read meanwhile; a program that uses the chip     *)
(* alone prints the registers of the clock; and when nobody sets the clock  *)
(* it is protected against writing, also after two programs overlapped.    *)
ClockKept ==
  ~rtc.failed =>
    /\ \A p \in Programs :
         /\ rtc.alone[p] /\ Rtc!At(p, "disable") => Rtc!Arrived(p)
         /\ rtc.alone[p] /\ rtc.wants[p] = "read" => rtc.shown[p]
    /\ (\A p \in Programs : ~Rtc!Setting(p)) => ~rtc.allowed
=============================================================================
