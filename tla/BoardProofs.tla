---------------------------- MODULE BoardProofs -----------------------------
(***************************************************************************)
(* What the two LED drivers leave behind when they are unloaded, for every *)
(* set of readers and every mixture of scenes, and whatever fails while    *)
(* they are loaded; and what the demonstration programs print and leave in *)
(* the clock, for every number of runs and programs, whatever was killed.  *)
(*                                                                         *)
(* Neither NothingDangles nor PinsReturned is inductive: they speak of an  *)
(* unloaded module, and what is true then follows from how far each step   *)
(* of loading and unloading has come.                                      *)
(***************************************************************************)
EXTENDS Board, Integers, TLAPS

DriversType == GpioTypeOK /\ Bbb!TypeOK /\ Mth!TypeOK

(* How far the thread driver is.                                           *)
MthInits == {"request", "direction", "register", "cleanup"}
MthExits == {"off", "free", "stop", "join", "deregister"}

(* What each step of the thread driver may still have: a device and        *)
(* threads only from its registration on, pins in the map of those it      *)
(* took while it is loaded, and those not yet freed while it is unloaded.  *)
Registered == mmisc => mpc \in {"spawn", "live", "broken"} \cup MthExits
Running ==
  mpc \in {"out", "broken"} \cup MthInits => \A k \in Mth!Leds : thread[k] = "none"
Held(k) == holder[Mth!Pin(k)] = "mth"
Mapped ==
  /\ mpc = "out" => led_init_map = {}
  /\ mpc \in {"out"} \cup MthInits => \A k \in Mth!Leds : Held(k) => k \in led_init_map
Freed ==
  /\ mpc \in {"off", "free"} => \A k \in Mth!Leds : Held(k) => k >= i
  /\ mpc \in {"stop", "join"} => \A k \in Mth!Leds : Held(k) => k > i
  /\ mpc = "deregister" => \A k \in Mth!Leds : ~Held(k)

(* The LED driver: its timer and its device, by the step it has come to.   *)
Armed ==
  /\ timer => bpc \in {"live", "off", "free", "deltimer"}
  /\ bmisc => bpc \notin {"out", "request", "direction", "register"}

DriversInv == DriversType /\ Registered /\ Running /\ Mapped /\ Freed /\ Armed

-----------------------------------------------------------------------------
(* The LED driver touches nothing of the thread driver but its pins: it    *)
(* takes free ones, and may free one that is not its own.                  *)
LEMMA OtherDriver ==
  ASSUME DriversInv, UNCHANGED mthvars, DriversType',
         \A p \in Pins : holder'[p] = "mth" => holder[p] = "mth"
  PROVE  Registered' /\ Running' /\ Mapped' /\ Freed'
<1>1. Mth!Pin(0) \in Pins /\ Mth!Pin(1) \in Pins
  BY DEF Mth!Pin, Pins
<1>2. \A k \in Mth!Leds : Held(k)' => Held(k)
  BY <1>1 DEF Held, Mth!Pin, Mth!Leds
<1>. QED
  BY <1>2 DEF DriversInv, Registered, Running, Mapped, Freed, mthvars, Mth!Pin, Mth!Leds, Held

USE DEF Bbb!Step, Bbb!Quiet, Bbb!ctrl, Bbb!Unload, Bbb!Calm, Bbb!Become

LEMMA BbbSafe ==
  ASSUME DriversInv, Bbb!Next
  PROVE  /\ GpioTypeOK' /\ Bbb!TypeOK' /\ Armed'
         /\ \A p \in Pins : holder'[p] = "mth" => holder[p] = "mth"
<1>. USE DEF DriversInv, DriversType, GpioTypeOK, Bbb!TypeOK, Bbb!InitSteps, Bbb!ExitSteps,
             Bbb!Modes, Bbb!SetValue, Bbb!Request, Bbb!Release, Bbb!IsFree, Bbb!Pins, Pins,
             Holders, Armed
<1>1. CASE \E usrLed \in {0, 1} : Bbb!Insmod(usrLed)
  BY <1>1 DEF Bbb!Insmod, Bbb!PinOf
<1>2. CASE Bbb!Rmmod
  BY <1>2 DEF Bbb!Rmmod
<1>3. CASE Bbb!RequestPin
  <2>1. CASE Bbb!Step("request", "direction") /\ Bbb!Request(pin, "bbb")
    BY <1>3, <2>1 DEF Bbb!RequestPin
  <2>2. CASE Bbb!Unload("request") /\ UNCHANGED holder
    BY <1>3, <2>2 DEF Bbb!RequestPin
  <2>. QED  BY <1>3, <2>1, <2>2 DEF Bbb!RequestPin
<1>4. CASE Bbb!DirectionOutput
  <2>1. CASE Bbb!Step("direction", "register") /\ Bbb!SetValue(pin, 0)
    BY <1>4, <2>1 DEF Bbb!DirectionOutput
  <2>2. CASE Bbb!Unload("direction") /\ UNCHANGED level
    BY <1>4, <2>2 DEF Bbb!DirectionOutput
  <2>. QED  BY <1>4, <2>1, <2>2 DEF Bbb!DirectionOutput
<1>5. CASE Bbb!MiscRegister
  <2>1. CASE Bbb!Step("register", "status") /\ bmisc' = TRUE
    BY <1>5, <2>1 DEF Bbb!MiscRegister
  <2>2. CASE Bbb!Unload("register") /\ UNCHANGED bmisc
    BY <1>5, <2>2 DEF Bbb!MiscRegister
  <2>. QED  BY <1>5, <2>1, <2>2 DEF Bbb!MiscRegister
<1>6. CASE Bbb!InitStatus
  BY <1>6 DEF Bbb!InitStatus
<1>7. CASE Bbb!AddTimer
  BY <1>7 DEF Bbb!AddTimer
<1>8. CASE Bbb!Off
  BY <1>8 DEF Bbb!Off
<1>9. CASE Bbb!FreePin
  BY <1>9 DEF Bbb!FreePin
<1>10. CASE Bbb!DelTimerSync
  BY <1>10 DEF Bbb!DelTimerSync
<1>11. CASE Bbb!MiscDeregister
  BY <1>11 DEF Bbb!MiscDeregister
<1>12. CASE Bbb!Tick
  BY <1>12 DEF Bbb!Tick
<1>13. CASE \E v \in {0, 1} : Bbb!Ioctl(v)
  BY <1>13 DEF Bbb!Ioctl
<1>14. CASE \E mode \in Bbb!Modes : Bbb!Write(mode)
  BY <1>14 DEF Bbb!Write
<1>15. ASSUME NEW q \in Procs, Bbb!OpenToRead(q) \/ Bbb!Reading(q)
       PROVE  /\ GpioTypeOK' /\ Bbb!TypeOK' /\ Armed'
              /\ \A p \in Pins : holder'[p] = "mth" => holder[p] = "mth"
  <2>1. UNCHANGED <<bpc, pin, bled_on, timer, bmisc, holder, mode_id, level>>
    BY <1>15 DEF Bbb!OpenToRead, Bbb!Reading, Bbb!ReadBegin, Bbb!ReadCopy, Bbb!ReadEnd
  <2>2. read_complete' \in BOOLEAN
    BY <1>15 DEF Bbb!OpenToRead, Bbb!Reading, Bbb!ReadBegin, Bbb!ReadCopy, Bbb!ReadEnd
  <2>3. \E to \in {"closed", "cat", "copying"} : user' = [user EXCEPT ![q] = to]
    BY <1>15 DEF Bbb!OpenToRead, Bbb!Reading, Bbb!ReadBegin, Bbb!ReadCopy, Bbb!ReadEnd
  <2>4. user' \in [Procs -> {"closed", "cat", "copying"}]
    BY <2>3
  <2>. QED  BY <2>1, <2>2, <2>4
<1>. QED
  BY <1>1, <1>2, <1>3, <1>4, <1>5, <1>6, <1>7, <1>8, <1>9, <1>10, <1>11, <1>12, <1>13, <1>14, <1>15 DEF Bbb!Next, Bbb!InitOrExit

LEMMA BbbStep ==
  ASSUME DriversInv, Bbb!Next, UNCHANGED mthvars
  PROVE  DriversInv'
<1>1. Mth!TypeOK'
  BY DEF DriversInv, DriversType, mthvars, Mth!TypeOK
<1>2. DriversType'
  BY <1>1, BbbSafe DEF DriversType
<1>. QED  BY <1>2, BbbSafe, OtherDriver DEF DriversInv

-----------------------------------------------------------------------------
(* A step of the thread driver, one lemma for each of its parts: loading,  *)
(* the threads, unloading.                                                 *)
USE DEF Mth!Step, Mth!Unload, Mth!Forget, Mth!Threads, Mth!Elsewhere, Mth!Thread

(* init_mthread_demo *)
LEMMA MthLoads ==
  ASSUME DriversInv, Mth!Insmod \/ Mth!RequestPin \/ Mth!DirectionOutput \/ Mth!MiscRegister \/ Mth!Cleanup \/ Mth!Spawn \/ Mth!SpawnFails
  PROVE  /\ GpioTypeOK' /\ Mth!TypeOK'
         /\ Registered' /\ Running' /\ Mapped' /\ Freed'
<1>. USE DEF DriversInv, DriversType, GpioTypeOK, Mth!TypeOK, Mth!InitSteps, Mth!ExitSteps,
             Mth!ThreadSteps, Mth!SetValue, Mth!Request, Mth!Release, Mth!IsFree, Mth!Pins,
             Pins, Holders, Mth!Leds, Mth!Pin, Held, MthInits, MthExits
<1>1. CASE Mth!Insmod
  <2>1. GpioTypeOK' /\ Mth!TypeOK'
    BY <1>1 DEF Mth!Insmod
  <2>2. Registered' /\ Running'
    BY <1>1 DEF Mth!Insmod, Registered, Running
  <2>3. Mapped'
    BY <1>1 DEF Mth!Insmod, Mapped
  <2>4. Freed'
    BY <1>1 DEF Mth!Insmod, Freed
  <2>. QED  BY <2>1, <2>2, <2>3, <2>4
<1>2. CASE Mth!RequestPin
  <2>1. GpioTypeOK' /\ Mth!TypeOK'
    <3>1. UNCHANGED <<mled_on, mmisc, thread, ready, stop, level>>
      BY <1>2 DEF Mth!RequestPin
    <3>2. mpc' \in Mth!InitSteps /\ i' \in Mth!Leds /\ ret' \in BOOLEAN
      BY <1>2 DEF Mth!RequestPin, Mth!NextLed
    <3>3. led_init_map' \in SUBSET Mth!Leds
      BY <1>2 DEF Mth!RequestPin, Mth!NextLed
    <3>4. holder' \in [Pins -> Holders]
      BY <1>2 DEF Mth!RequestPin, Mth!NextLed
    <3>. QED  BY <3>1, <3>2, <3>3, <3>4
  <2>2. Registered' /\ Running'
    BY <1>2 DEF Mth!RequestPin, Mth!NextLed, Registered, Running
  <2>3. Mapped'
    BY <1>2 DEF Mth!RequestPin, Mth!NextLed, Mapped
  <2>4. Freed'
    BY <1>2 DEF Mth!RequestPin, Mth!NextLed, Freed
  <2>. QED  BY <2>1, <2>2, <2>3, <2>4
<1>3. CASE Mth!DirectionOutput
  <2>1. GpioTypeOK' /\ Mth!TypeOK'
    BY <1>3 DEF Mth!DirectionOutput, Mth!NextLed
  <2>2. Registered' /\ Running'
    BY <1>3 DEF Mth!DirectionOutput, Mth!NextLed, Registered, Running
  <2>3. Mapped'
    BY <1>3 DEF Mth!DirectionOutput, Mth!NextLed, Mapped
  <2>4. Freed'
    BY <1>3 DEF Mth!DirectionOutput, Mth!NextLed, Freed
  <2>. QED  BY <2>1, <2>2, <2>3, <2>4
<1>4. CASE Mth!MiscRegister
  <2>1. GpioTypeOK' /\ Mth!TypeOK'
    BY <1>4 DEF Mth!MiscRegister
  <2>2. Registered' /\ Running'
    BY <1>4 DEF Mth!MiscRegister, Registered, Running
  <2>3. Mapped'
    BY <1>4 DEF Mth!MiscRegister, Mapped
  <2>4. Freed'
    BY <1>4 DEF Mth!MiscRegister, Freed
  <2>. QED  BY <2>1, <2>2, <2>3, <2>4
<1>5. CASE Mth!Cleanup
  <2>1. GpioTypeOK' /\ Mth!TypeOK'
    BY <1>5 DEF Mth!Cleanup
  <2>2. Registered' /\ Running'
    BY <1>5 DEF Mth!Cleanup, Registered, Running
  <2>3. Mapped'
    BY <1>5 DEF Mth!Cleanup, Mapped
  <2>4. Freed'
    BY <1>5 DEF Mth!Cleanup, Freed
  <2>. QED  BY <2>1, <2>2, <2>3, <2>4
<1>6. CASE Mth!Spawn
  <2>1. GpioTypeOK' /\ Mth!TypeOK'
    BY <1>6 DEF Mth!Spawn
  <2>2. Registered' /\ Running'
    BY <1>6 DEF Mth!Spawn, Registered, Running
  <2>3. Mapped'
    BY <1>6 DEF Mth!Spawn, Mapped
  <2>4. Freed'
    BY <1>6 DEF Mth!Spawn, Freed
  <2>. QED  BY <2>1, <2>2, <2>3, <2>4
<1>7. CASE Mth!SpawnFails
  <2>1. GpioTypeOK' /\ Mth!TypeOK'
    BY <1>7 DEF Mth!SpawnFails
  <2>2. Registered' /\ Running'
    BY <1>7 DEF Mth!SpawnFails, Registered, Running
  <2>3. Mapped'
    BY <1>7 DEF Mth!SpawnFails, Mapped
  <2>4. Freed'
    BY <1>7 DEF Mth!SpawnFails, Freed
  <2>. QED  BY <2>1, <2>2, <2>3, <2>4
<1>. QED  BY <1>1, <1>2, <1>3, <1>4, <1>5, <1>6, <1>7

(* exit_mthread_demo *)
LEMMA MthUnloads ==
  ASSUME DriversInv, Mth!Rmmod \/ Mth!Off \/ Mth!FreePin \/ Mth!StopThread \/ Mth!JoinThread \/ Mth!MiscDeregister
  PROVE  /\ GpioTypeOK' /\ Mth!TypeOK'
         /\ Registered' /\ Running' /\ Mapped' /\ Freed'
<1>. USE DEF DriversInv, DriversType, GpioTypeOK, Mth!TypeOK, Mth!InitSteps, Mth!ExitSteps,
             Mth!ThreadSteps, Mth!SetValue, Mth!Request, Mth!Release, Mth!IsFree, Mth!Pins,
             Pins, Holders, Mth!Leds, Mth!Pin, Held, MthInits, MthExits
<1>1. CASE Mth!Rmmod
  <2>1. GpioTypeOK' /\ Mth!TypeOK'
    BY <1>1 DEF Mth!Rmmod
  <2>2. Registered' /\ Running'
    BY <1>1 DEF Mth!Rmmod, Registered, Running
  <2>3. Mapped'
    BY <1>1 DEF Mth!Rmmod, Mapped
  <2>4. Freed'
    BY <1>1 DEF Mth!Rmmod, Freed
  <2>. QED  BY <2>1, <2>2, <2>3, <2>4
<1>2. CASE Mth!Off
  <2>1. GpioTypeOK' /\ Mth!TypeOK'
    BY <1>2 DEF Mth!Off
  <2>2. Registered' /\ Running'
    BY <1>2 DEF Mth!Off, Registered, Running
  <2>3. Mapped'
    BY <1>2 DEF Mth!Off, Mapped
  <2>4. Freed'
    BY <1>2 DEF Mth!Off, Freed
  <2>. QED  BY <2>1, <2>2, <2>3, <2>4
<1>3. CASE Mth!FreePin
  <2>1. GpioTypeOK' /\ Mth!TypeOK'
    BY <1>3 DEF Mth!FreePin
  <2>2. Registered' /\ Running'
    BY <1>3 DEF Mth!FreePin, Registered, Running
  <2>3. Mapped'
    BY <1>3 DEF Mth!FreePin, Mapped
  <2>4. Freed'
    BY <1>3 DEF Mth!FreePin, Freed
  <2>. QED  BY <2>1, <2>2, <2>3, <2>4
<1>4. CASE Mth!StopThread
  <2>1. GpioTypeOK' /\ Mth!TypeOK'
    BY <1>4 DEF Mth!StopThread
  <2>2. Registered' /\ Running'
    BY <1>4 DEF Mth!StopThread, Registered, Running
  <2>3. Mapped'
    BY <1>4 DEF Mth!StopThread, Mapped
  <2>4. Freed'
    BY <1>4 DEF Mth!StopThread, Freed
  <2>. QED  BY <2>1, <2>2, <2>3, <2>4
<1>5. CASE Mth!JoinThread
  <2>1. GpioTypeOK' /\ Mth!TypeOK'
    BY <1>5 DEF Mth!JoinThread
  <2>2. Registered' /\ Running'
    BY <1>5 DEF Mth!JoinThread, Registered, Running
  <2>3. Mapped'
    BY <1>5 DEF Mth!JoinThread, Mapped
  <2>4. Freed'
    BY <1>5 DEF Mth!JoinThread, Freed
  <2>. QED  BY <2>1, <2>2, <2>3, <2>4
<1>6. CASE Mth!MiscDeregister
  <2>1. GpioTypeOK' /\ Mth!TypeOK'
    BY <1>6 DEF Mth!MiscDeregister
  <2>2. Registered' /\ Running'
    BY <1>6 DEF Mth!MiscDeregister, Registered, Running
  <2>3. Mapped'
    BY <1>6 DEF Mth!MiscDeregister, Mapped, Freed
  <2>4. Freed'
    BY <1>6 DEF Mth!MiscDeregister, Freed
  <2>. QED  BY <2>1, <2>2, <2>3, <2>4
<1>. QED  BY <1>1, <1>2, <1>3, <1>4, <1>5, <1>6

(* led_flsh_thread: a thread that runs was started, and it leaves alone    *)
(* the pins, the device and the loading.                                   *)
LEMMA MthThreads ==
  ASSUME DriversInv, NEW k \in Mth!Leds, Mth!Run(k) \/ Mth!Timeout(k)
  PROVE  /\ GpioTypeOK' /\ Mth!TypeOK'
         /\ Registered' /\ Running' /\ Mapped' /\ Freed'
<1>. USE DEF Mth!Run, Mth!AnnounceSleep, Mth!CheckStop, Mth!Toggle, Mth!Schedule, Mth!Timeout
<1>1. UNCHANGED <<mpc, i, ret, led_init_map, mmisc, stop, holder>>
  OBVIOUS
<1>2. thread[k] # "none"
  OBVIOUS
<1>3. /\ level' \in [Pins -> {0, 1}] /\ mled_on' \in [Mth!Leds -> {0, 1}]
      /\ ready' \in [Mth!Leds -> BOOLEAN]
  <2>. USE DEF DriversInv, DriversType, GpioTypeOK, Mth!TypeOK, Mth!SetValue
  <2>1. CASE Mth!Toggle(k)
    <3>1. 1 - mled_on[k] \in {0, 1}
      OBVIOUS
    <3>2. level' = [level EXCEPT ![Mth!Pin(k)] = 1 - mled_on[k]]
      BY <2>1
    <3>3. mled_on' = [mled_on EXCEPT ![k] = 1 - mled_on[k]] /\ ready' = ready
      BY <2>1
    <3>. QED  BY <3>1, <3>2, <3>3
  <2>2. CASE Mth!AnnounceSleep(k) \/ Mth!CheckStop(k) \/ Mth!Schedule(k) \/ Mth!Timeout(k)
    BY <2>2
  <2>. QED  BY <2>1, <2>2
<1>4. \E to \in Mth!ThreadSteps : thread' = [thread EXCEPT ![k] = to]
  BY DEF Mth!ThreadSteps
<1>5. thread' \in [Mth!Leds -> Mth!ThreadSteps]
  BY <1>4 DEF DriversInv, DriversType, Mth!TypeOK
<1>6. Running'
  BY <1>1, <1>2 DEF DriversInv, Running
<1>7. Registered' /\ Mapped' /\ Freed'
  BY <1>1 DEF DriversInv, Registered, Mapped, Freed, Held
<1>. QED
  BY <1>1, <1>3, <1>5, <1>6, <1>7 DEF DriversInv, DriversType, GpioTypeOK, Mth!TypeOK

LEMMA MthStep ==
  ASSUME DriversInv, Mth!Next, UNCHANGED bbbvars
  PROVE  DriversInv'
<1>1. Bbb!TypeOK' /\ Armed'
  BY DEF DriversInv, DriversType, bbbvars, Bbb!TypeOK, Armed
<1>2. /\ GpioTypeOK' /\ Mth!TypeOK'
      /\ Registered' /\ Running' /\ Mapped' /\ Freed'
  BY MthLoads, MthUnloads, MthThreads DEF Mth!Next, Mth!InitOrExit
<1>. QED
  BY <1>1, <1>2 DEF DriversInv, DriversType

-----------------------------------------------------------------------------
(* What the unloaded drivers left is true of the board in every state.     *)
LEMMA DriversInvInit == BoardInit => DriversInv
<1>1. BoardInit => GpioInit /\ Bbb!Init /\ Mth!Init
  BY DEF BoardInit
<1>2. GpioInit /\ Bbb!Init /\ Mth!Init => DriversType
  <2>1. GpioInit => GpioTypeOK
    BY DEF GpioInit, GpioTypeOK, Pins, Holders
  <2>2. Bbb!Init => Bbb!TypeOK
    BY DEF Bbb!Init, Bbb!TypeOK, Bbb!Pins, Bbb!Modes
  <2>3. Mth!Init => Mth!TypeOK
    BY DEF Mth!Init, Mth!TypeOK, Mth!ThreadSteps, Mth!Leds
  <2>. QED  BY <2>1, <2>2, <2>3 DEF DriversType
<1>3. GpioInit => \A k \in Mth!Leds : ~Held(k)
  BY DEF GpioInit, Held, Mth!Leds, Mth!Pin, Pins
<1>4. GpioInit /\ Bbb!Init /\ Mth!Init => Registered /\ Running /\ Mapped /\ Freed /\ Armed
  BY <1>3 DEF Bbb!Init, Mth!Init, Registered, Running, Mapped, Freed, Armed, MthInits
<1>. QED  BY <1>1, <1>2, <1>4 DEF DriversInv

LEMMA DriversInvKept == DriversInv /\ [BoardNext]_<<vars, demovars>> => DriversInv'
<1>. SUFFICES ASSUME DriversInv, [BoardNext]_<<vars, demovars>>
              PROVE  DriversInv'
  OBVIOUS
<1>1. CASE UNCHANGED <<holder, level, bbbvars, mthvars>>
  BY <1>1 DEF DriversInv, DriversType, GpioTypeOK, Bbb!TypeOK, Mth!TypeOK, Registered, Running,
              Mapped, Freed, Armed, Held, bbbvars, mthvars
<1>2. CASE Next
  BY <1>2, BbbStep, MthStep DEF Next
<1>. QED
  BY <1>1, <1>2 DEF BoardNext, Still, vars

THEOREM DriversInvariant == BoardSpec => []DriversInv
<1>. QED  BY DriversInvInit, DriversInvKept, PTL DEF BoardSpec

(* No timer, no device and no thread of a module that is not loaded,       *)
(* whatever failed while it was loaded.                                    *)
THEOREM Dangling == BoardSpec => []NothingDangles
<1>1. DriversInv => NothingDangles
  BY DEF DriversInv, Registered, Running, Armed, NothingDangles, MthExits
<1>. QED  BY <1>1, DriversInvariant, PTL

(* The thread driver gives back every pin it took, whatever the LED driver *)
(* takes and frees meanwhile.                                              *)
THEOREM Returned == BoardSpec => []PinsReturned
<1>1. ASSUME DriversInv, mpc = "out", NEW p \in Pins
      PROVE  holder[p] # "mth"
  <2>1. PICK k \in Mth!Leds : p = Mth!Pin(k)
    BY DEF Pins, Mth!Leds, Mth!Pin
  <2>. QED  BY <1>1, <2>1 DEF DriversInv, Mapped, Held
<1>2. DriversInv => PinsReturned
  BY <1>1 DEF PinsReturned
<1>. QED  BY <1>2, DriversInvariant, PTL
-----------------------------------------------------------------------------
(* The demonstration programs: the second thread and what is in the pipes. *)

USE DEF Ipc!Main, Ipc!Slave, Ipc!By, Ipc!Methods, Ipc!Empty, Ipc!NoSegment

IpcType ==
  ipc \in [run : Nat, method : Ipc!Methods \cup {"none"},
           main : {"out", "enter", "put", "write", "join"},
           slave : {"none", "get", "read", "ended"}, got : Int,
           open : SUBSET {"main", "slave"}, pipe : Seq(Nat), fifo : BOOLEAN,
           queue : Seq(Nat), shm : Int, killed : SUBSET Ipc!Methods]

(* The second thread receives only while the first one sends or waits.     *)
Threads ==
  /\ ipc.slave \in {"get", "read"} => ipc.main \in {"put", "write", "join"}
  /\ ipc.main # "out" => ipc.method # "none"
  /\ ipc.main = "write" \/ ipc.slave = "read" => ipc.method = "fifo"

(* A pipe is of this run.                                                  *)
InPipe ==
  /\ ipc.pipe = <<>> \/ ipc.pipe = <<ipc.run>>
  /\ ipc.main # "join" => ipc.pipe = <<>>

(* A queue and a segment are, unless a run that used them was killed.      *)
InQueue ==
  "queue" \notin ipc.killed =>
    \/ ipc.queue = <<>>
    \/ ipc.queue = <<ipc.run>> /\ ipc.main = "join" /\ ipc.method = "queue"
InSegment ==
  "shm" \notin ipc.killed =>
    \/ ipc.main # "out" /\ ipc.method = "shm" /\ ipc.shm = Ipc!Empty
    \/ ipc.main = "join" /\ ipc.method = "shm" /\ ipc.shm = ipc.run
    \/ (ipc.main = "out" \/ ipc.method # "shm") /\ ipc.shm = Ipc!NoSegment

IpcInv == IpcType /\ Threads /\ InPipe /\ InQueue /\ InSegment /\ GetsSent

-----------------------------------------------------------------------------
USE DEF Rtc!At, Rtc!Setting, Rtc!Registers, Rtc!TimeOf, Rtc!DateOf, Rtc!Jobs, Rtc!Zero, Rtc!AllOnes

RtcSteps == {"out", "address", "get", "enable", "write", "disable"}
RtcType ==
  rtc \in [reg : [Rtc!Registers -> Int], allowed : BOOLEAN, home : BOOLEAN,
           at : [Programs -> RtcSteps],
           wants : [Programs -> Rtc!Jobs \cup {"read"}],
           buf : [Programs -> [0 .. 6 -> Int]], len : [Programs -> 0 .. 7],
           shown : [Programs -> BOOLEAN], alone : [Programs -> BOOLEAN],
           runs : Nat, failed : BOOLEAN]

(* What a program does is what it was started for, and the message of one  *)
(* that sets the time, or the time with the date, is complete.             *)
Wanted(p) == Rtc!Setting(p) <=> rtc.wants[p] # "read"
Loaded(p) ==
  Rtc!Setting(p) =>
    /\ rtc.wants[p] = "time" =>
         rtc.buf[p][0] = 0 /\ rtc.len[p] = 4 /\ \A k \in 1 .. 3 : rtc.buf[p][k] = p
    /\ rtc.wants[p] = "both" /\ rtc.len[p] > 4 =>
         rtc.buf[p][0] = 0 /\ rtc.len[p] = 7 /\ \A k \in 1 .. 6 : rtc.buf[p][k] = p

(* Alone: no other one sets the clock beside one that does, and none at all*)
(* uses it beside one that reads.                                          *)
Apart(p) ==
  rtc.alone[p] =>
    /\ Rtc!Setting(p) => \A q \in Programs \ {p} : ~Rtc!Setting(q)
    /\ rtc.at[p] \in {"address", "get"} => \A q \in Programs \ {p} : Rtc!At(q, "out")

(* The chip, as those that use it left it.                                 *)
Chip(p) ==
  rtc.alone[p] =>
    /\ Rtc!At(p, "write") => rtc.allowed
    /\ Rtc!At(p, "get") => rtc.home
Protected == rtc.allowed => \E p \in Programs : rtc.at[p] \in {"write", "disable"}

RtcInv ==
  /\ RtcType
  /\ \A p \in Programs : Wanted(p) /\ Loaded(p) /\ Apart(p)
  /\ ~rtc.failed => Protected /\ \A p \in Programs : Chip(p)
  /\ ClockKept

DemoInv == IpcInv /\ RtcInv

-----------------------------------------------------------------------------
(* A message that is put into an empty pipe or queue is the only one in it.*)
LEMMA OneMessage ==
  ASSUME NEW m \in Nat
  PROVE  /\ Append(<<>>, m) = <<m>> /\ <<m>> \in Seq(Nat) /\ <<>> \in Seq(Nat)
         /\ Head(<<m>>) = m /\ Tail(<<m>>) = <<>> /\ <<m>> # <<>>
<1>. QED  OBVIOUS

LEMMA IpcStep == ASSUME IpcInv, Ipc!Next PROVE IpcInv'
<1>. USE DEF IpcInv
<1>0. ipc.run \in Nat
  BY DEF IpcType
<1>a. /\ <<>> \in Seq(Nat) /\ ipc.queue \in Seq(Nat) /\ ipc.pipe \in Seq(Nat)
      /\ Append(ipc.queue, ipc.run) \in Seq(Nat) /\ Append(ipc.pipe, ipc.run) \in Seq(Nat)
      /\ ipc.queue # <<>> => Head(ipc.queue) \in Nat /\ Tail(ipc.queue) \in Seq(Nat)
      /\ ipc.pipe # <<>> => Head(ipc.pipe) \in Nat /\ Tail(ipc.pipe) \in Seq(Nat)
  BY <1>0 DEF IpcType
<1>1. CASE Ipc!Start
  <2>1. IpcType'
    BY <1>1, <1>a DEF Ipc!Start, IpcType, Threads
  <2>2. Threads'
    BY <1>1 DEF Ipc!Start, IpcType, Threads
  <2>3. InPipe'
    BY <1>1, <1>0, OneMessage DEF Ipc!Start, IpcType, Threads, InPipe
  <2>4. InQueue'
    BY <1>1, <1>0, OneMessage DEF Ipc!Start, IpcType, Threads, InQueue
  <2>5. InSegment'
    BY <1>1 DEF Ipc!Start, IpcType, Threads, InSegment
  <2>6. GetsSent'
    BY <1>1, <1>0, OneMessage DEF Ipc!Start, IpcType, Threads, InPipe, InQueue, InSegment, GetsSent, Ipc!Right
  <2>. QED  BY <2>1, <2>2, <2>3, <2>4, <2>5, <2>6
<1>2. CASE Ipc!OpenToPut
  <2>1. IpcType'
    BY <1>2, <1>a DEF Ipc!OpenToPut, Ipc!Mine, IpcType, Threads
  <2>2. Threads'
    BY <1>2 DEF Ipc!OpenToPut, Ipc!Mine, IpcType, Threads
  <2>3. InPipe'
    BY <1>2, <1>0, OneMessage DEF Ipc!OpenToPut, Ipc!Mine, IpcType, Threads, InPipe
  <2>4. InQueue'
    BY <1>2, <1>0, OneMessage DEF Ipc!OpenToPut, Ipc!Mine, IpcType, Threads, InQueue
  <2>5. InSegment'
    BY <1>2 DEF Ipc!OpenToPut, Ipc!Mine, IpcType, Threads, InSegment
  <2>6. GetsSent'
    BY <1>2, <1>0, OneMessage DEF Ipc!OpenToPut, Ipc!Mine, IpcType, Threads, InPipe, InQueue, InSegment, GetsSent, Ipc!Right
  <2>. QED  BY <2>1, <2>2, <2>3, <2>4, <2>5, <2>6
<1>3. CASE Ipc!Put
  <2>1. IpcType'
    <3>. DEFINE pipe == IF ipc.method \in {"pipe", "fifo"} THEN Append(ipc.pipe, ipc.run) ELSE ipc.pipe
                queue == IF ipc.method = "queue" THEN Append(ipc.queue, ipc.run) ELSE ipc.queue
                shm == IF ipc.method = "shm" THEN ipc.run ELSE ipc.shm
    <3>1. pipe \in Seq(Nat) /\ queue \in Seq(Nat) /\ shm \in Int
      BY <1>0, <1>a DEF IpcType
    <3>2. ipc' = [ipc EXCEPT !.main = "join", !.pipe = pipe, !.queue = queue, !.shm = shm]
      BY <1>3 DEF Ipc!Put, Ipc!Sent
    <3>. HIDE DEF pipe, queue, shm
    <3>. QED  BY <3>1, <3>2 DEF IpcType
  <2>2. Threads'
    BY <1>3 DEF Ipc!Put, Ipc!Sent, IpcType, Threads
  <2>3. InPipe'
    BY <1>3, <1>0, OneMessage DEF Ipc!Put, Ipc!Sent, IpcType, Threads, InPipe
  <2>4. InQueue'
    BY <1>3, <1>0, OneMessage DEF Ipc!Put, Ipc!Sent, IpcType, Threads, InQueue
  <2>5. InSegment'
    BY <1>3 DEF Ipc!Put, Ipc!Sent, IpcType, Threads, InSegment
  <2>6. GetsSent'
    BY <1>3, <1>0, OneMessage DEF Ipc!Put, Ipc!Sent, IpcType, Threads, InPipe, InQueue, InSegment, GetsSent, Ipc!Right
  <2>. QED  BY <2>1, <2>2, <2>3, <2>4, <2>5, <2>6
<1>4. CASE Ipc!PutOpened
  <2>1. IpcType'
    <3>. DEFINE pipe == IF ipc.method \in {"pipe", "fifo"} THEN Append(ipc.pipe, ipc.run) ELSE ipc.pipe
                queue == IF ipc.method = "queue" THEN Append(ipc.queue, ipc.run) ELSE ipc.queue
                shm == IF ipc.method = "shm" THEN ipc.run ELSE ipc.shm
    <3>1. pipe \in Seq(Nat) /\ queue \in Seq(Nat) /\ shm \in Int
      BY <1>0, <1>a DEF IpcType
    <3>2. ipc' = [ipc EXCEPT !.main = "join", !.pipe = pipe, !.queue = queue, !.shm = shm]
      BY <1>4 DEF Ipc!PutOpened, Ipc!Sent
    <3>. HIDE DEF pipe, queue, shm
    <3>. QED  BY <3>1, <3>2 DEF IpcType
  <2>2. Threads'
    BY <1>4 DEF Ipc!PutOpened, Ipc!Sent, IpcType, Threads
  <2>3. InPipe'
    BY <1>4, <1>0, OneMessage DEF Ipc!PutOpened, Ipc!Sent, IpcType, Threads, InPipe
  <2>4. InQueue'
    BY <1>4, <1>0, OneMessage DEF Ipc!PutOpened, Ipc!Sent, IpcType, Threads, InQueue
  <2>5. InSegment'
    BY <1>4 DEF Ipc!PutOpened, Ipc!Sent, IpcType, Threads, InSegment
  <2>6. GetsSent'
    BY <1>4, <1>0, OneMessage DEF Ipc!PutOpened, Ipc!Sent, IpcType, Threads, InPipe, InQueue, InSegment, GetsSent, Ipc!Right
  <2>. QED  BY <2>1, <2>2, <2>3, <2>4, <2>5, <2>6
<1>5. CASE Ipc!Delete
  <2>1. IpcType'
    <3>. DEFINE fifo == ipc.fifo /\ ipc.method # "fifo"
                queue == IF ipc.method = "queue" THEN <<>> ELSE ipc.queue
                shm == IF ipc.method = "shm" THEN Ipc!NoSegment ELSE ipc.shm
    <3>1. fifo \in BOOLEAN /\ queue \in Seq(Nat) /\ shm \in Int
      BY <1>a DEF IpcType
    <3>2. ipc' = [run |-> ipc.run, method |-> ipc.method, main |-> "out", slave |-> "ended",
                  got |-> ipc.got, open |-> {}, pipe |-> <<>>, fifo |-> fifo, queue |-> queue,
                  shm |-> shm, killed |-> ipc.killed]
      BY <1>5 DEF Ipc!Delete, Ipc!Idle
    <3>. HIDE DEF fifo, queue, shm
    <3>. QED  BY <1>a, <3>1, <3>2 DEF IpcType
  <2>2. Threads'
    BY <1>5 DEF Ipc!Delete, Ipc!Idle, IpcType, Threads
  <2>3. InPipe'
    BY <1>5, <1>0, OneMessage DEF Ipc!Delete, Ipc!Idle, IpcType, Threads, InPipe
  <2>4. InQueue'
    BY <1>5, <1>0, OneMessage DEF Ipc!Delete, Ipc!Idle, IpcType, Threads, InQueue
  <2>5. InSegment'
    BY <1>5 DEF Ipc!Delete, Ipc!Idle, IpcType, Threads, InSegment
  <2>6. GetsSent'
    BY <1>5, <1>0, OneMessage DEF Ipc!Delete, Ipc!Idle, IpcType, Threads, InPipe, InQueue, InSegment, GetsSent, Ipc!Right
  <2>. QED  BY <2>1, <2>2, <2>3, <2>4, <2>5, <2>6
<1>6. CASE Ipc!OpenToGet
  <2>1. IpcType'
    BY <1>6, <1>a DEF Ipc!OpenToGet, Ipc!Mine, IpcType, Threads
  <2>2. Threads'
    BY <1>6 DEF Ipc!OpenToGet, Ipc!Mine, IpcType, Threads
  <2>3. InPipe'
    BY <1>6, <1>0, OneMessage DEF Ipc!OpenToGet, Ipc!Mine, IpcType, Threads, InPipe
  <2>4. InQueue'
    BY <1>6, <1>0, OneMessage DEF Ipc!OpenToGet, Ipc!Mine, IpcType, Threads, InQueue
  <2>5. InSegment'
    BY <1>6 DEF Ipc!OpenToGet, Ipc!Mine, IpcType, Threads, InSegment
  <2>6. GetsSent'
    BY <1>6, <1>0, OneMessage DEF Ipc!OpenToGet, Ipc!Mine, IpcType, Threads, InPipe, InQueue, InSegment, GetsSent, Ipc!Right
  <2>. QED  BY <2>1, <2>2, <2>3, <2>4, <2>5, <2>6
<1>7. CASE Ipc!GetPipe
  <2>1. IpcType'
    <3>1. ipc' = [ipc EXCEPT !.slave = "ended", !.got = Head(ipc.pipe), !.pipe = Tail(ipc.pipe)]
      BY <1>7 DEF Ipc!GetPipe, Ipc!Got, IpcType
    <3>2. Head(ipc.pipe) \in Int /\ Tail(ipc.pipe) \in Seq(Nat)
      BY <1>7, <1>a DEF Ipc!GetPipe
    <3>. QED  BY <3>1, <3>2 DEF IpcType
  <2>2. Threads'
    BY <1>7 DEF Ipc!GetPipe, Ipc!Got, IpcType, Threads
  <2>3. InPipe'
    BY <1>7, <1>0, OneMessage DEF Ipc!GetPipe, Ipc!Got, IpcType, Threads, InPipe
  <2>4. InQueue'
    BY <1>7, <1>0, OneMessage DEF Ipc!GetPipe, Ipc!Got, IpcType, Threads, InQueue
  <2>5. InSegment'
    BY <1>7 DEF Ipc!GetPipe, Ipc!Got, IpcType, Threads, InSegment
  <2>6. GetsSent'
    BY <1>7, <1>0, OneMessage DEF Ipc!GetPipe, Ipc!Got, IpcType, Threads, InPipe, InQueue, InSegment, GetsSent, Ipc!Right
  <2>. QED  BY <2>1, <2>2, <2>3, <2>4, <2>5, <2>6
<1>8. CASE Ipc!GetQueue
  <2>1. IpcType'
    <3>1. ipc' = [ipc EXCEPT !.slave = "ended", !.got = Head(ipc.queue), !.queue = Tail(ipc.queue)]
      BY <1>8 DEF Ipc!GetQueue, Ipc!Got, IpcType
    <3>2. Head(ipc.queue) \in Int /\ Tail(ipc.queue) \in Seq(Nat)
      BY <1>8, <1>a DEF Ipc!GetQueue
    <3>. QED  BY <3>1, <3>2 DEF IpcType
  <2>2. Threads'
    BY <1>8 DEF Ipc!GetQueue, Ipc!Got, IpcType, Threads
  <2>3. InPipe'
    BY <1>8, <1>0, OneMessage DEF Ipc!GetQueue, Ipc!Got, IpcType, Threads, InPipe
  <2>4. InQueue'
    BY <1>8, <1>0, OneMessage DEF Ipc!GetQueue, Ipc!Got, IpcType, Threads, InQueue
  <2>5. InSegment'
    BY <1>8 DEF Ipc!GetQueue, Ipc!Got, IpcType, Threads, InSegment
  <2>6. GetsSent'
    BY <1>8, <1>0, OneMessage DEF Ipc!GetQueue, Ipc!Got, IpcType, Threads, InPipe, InQueue, InSegment, GetsSent, Ipc!Right
  <2>. QED  BY <2>1, <2>2, <2>3, <2>4, <2>5, <2>6
<1>9. CASE Ipc!GetShm
  <2>1. IpcType'
    BY <1>9, <1>a DEF Ipc!GetShm, Ipc!Got, IpcType, Threads
  <2>2. Threads'
    BY <1>9 DEF Ipc!GetShm, Ipc!Got, IpcType, Threads
  <2>3. InPipe'
    BY <1>9, <1>0, OneMessage DEF Ipc!GetShm, Ipc!Got, IpcType, Threads, InPipe
  <2>4. InQueue'
    BY <1>9, <1>0, OneMessage DEF Ipc!GetShm, Ipc!Got, IpcType, Threads, InQueue
  <2>5. InSegment'
    BY <1>9 DEF Ipc!GetShm, Ipc!Got, IpcType, Threads, InSegment
  <2>6. GetsSent'
    BY <1>9, <1>0, OneMessage DEF Ipc!GetShm, Ipc!Got, IpcType, Threads, InPipe, InQueue, InSegment, GetsSent, Ipc!Right
  <2>. QED  BY <2>1, <2>2, <2>3, <2>4, <2>5, <2>6
<1>10. CASE Ipc!Kill
  <2>1. IpcType'
    BY <1>10, <1>a DEF Ipc!Kill, Ipc!Idle, IpcType, Threads
  <2>2. Threads'
    BY <1>10 DEF Ipc!Kill, Ipc!Idle, IpcType, Threads
  <2>3. InPipe'
    BY <1>10, <1>0, OneMessage DEF Ipc!Kill, Ipc!Idle, IpcType, Threads, InPipe
  <2>4. InQueue'
    BY <1>10, <1>0, OneMessage DEF Ipc!Kill, Ipc!Idle, IpcType, Threads, InQueue
  <2>5. InSegment'
    BY <1>10 DEF Ipc!Kill, Ipc!Idle, IpcType, Threads, InSegment
  <2>6. GetsSent'
    BY <1>10, <1>0, OneMessage DEF Ipc!Kill, Ipc!Idle, IpcType, Threads, InPipe, InQueue, InSegment, GetsSent, Ipc!Right
  <2>. QED  BY <2>1, <2>2, <2>3, <2>4, <2>5, <2>6
<1>11. ASSUME NEW method \in Ipc!Methods, Ipc!Create(method) PROVE IpcInv'
  <2>1. IpcType'
    <3>. DEFINE fifo == ipc.fifo \/ method = "fifo"
                shm == IF method = "shm" /\ ipc.shm = Ipc!NoSegment THEN Ipc!Empty ELSE ipc.shm
    <3>1. fifo \in BOOLEAN /\ shm \in Int
      BY DEF IpcType
    <3>2. ipc' = [ipc EXCEPT !.run = ipc.run + 1, !.method = method, !.main = "enter",
                    !.got = Ipc!NoSegment, !.fifo = fifo, !.slave = "none", !.shm = shm]
      BY <1>11 DEF Ipc!Create
    <3>3. ipc.run + 1 \in Nat /\ method \in Ipc!Methods \cup {"none"} /\ Ipc!NoSegment \in Int
      BY <1>0, <1>11
    <3>. HIDE DEF fifo, shm
    <3>. QED  BY <3>1, <3>2, <3>3 DEF IpcType
  <2>2. Threads'
    BY <1>11 DEF Ipc!Create, IpcType, Threads
  <2>3. InPipe'
    BY <1>11, <1>0, OneMessage DEF Ipc!Create, IpcType, Threads, InPipe
  <2>4. InQueue'
    BY <1>11, <1>0, OneMessage DEF Ipc!Create, IpcType, Threads, InQueue
  <2>5. InSegment'
    BY <1>11 DEF Ipc!Create, IpcType, Threads, InSegment
  <2>6. GetsSent'
    BY <1>11, <1>0, OneMessage DEF Ipc!Create, IpcType, Threads, InPipe, InQueue, InSegment, GetsSent, Ipc!Right
  <2>. QED  BY <2>1, <2>2, <2>3, <2>4, <2>5, <2>6
<1>. QED
  BY <1>1, <1>2, <1>3, <1>4, <1>5, <1>6, <1>7, <1>8, <1>9, <1>10, <1>11 DEF Ipc!Next, Ipc!MainGoes, Ipc!SlaveGoes

-----------------------------------------------------------------------------
(* Who is alone when p begins: the programs that p meets are not.          *)
Meets(p, q) == q # p /\ rtc.at[q] # "out"
Company(p, job) ==
  [q \in Programs |->
     IF q = p THEN \A o \in Programs : Meets(p, o) => job # "read" /\ rtc.wants[o] = "read"
     ELSE rtc.alone[q] /\ (Meets(p, q) => job = "read" /\ rtc.wants[q] # "read")]

LEMMA Begins ==
  ASSUME RtcType, NEW p \in Programs, NEW job \in Rtc!Jobs \cup {"read"}
  PROVE  /\ Company(p, job) \in [Programs -> BOOLEAN]
         /\ Rtc!Begun(p, job) = [rtc EXCEPT !.wants = [rtc.wants EXCEPT ![p] = job],
                                  !.runs = rtc.runs + 1, !.alone = Company(p, job)]
         /\ [rtc.wants EXCEPT ![p] = job] \in [Programs -> Rtc!Jobs \cup {"read"}]
         /\ rtc.runs + 1 \in Nat
<1>1. Company(p, job) \in [Programs -> BOOLEAN]
  BY DEF Company, RtcType
<1>2. Rtc!Begun(p, job) = [rtc EXCEPT !.wants = [rtc.wants EXCEPT ![p] = job],
                           !.runs = rtc.runs + 1, !.alone = Company(p, job)]
  BY DEF Rtc!Begun, Company, Meets, RtcType
<1>. QED  BY <1>1, <1>2 DEF RtcType

LEMMA RtcStep == ASSUME RtcInv, Rtc!Next PROVE RtcInv'
<1>0. PICK p \in Programs :
        \/ Rtc!BeginRead(p)
        \/ \E job \in Rtc!Jobs, timeSeen \in BOOLEAN : Rtc!BeginSet(p, job, timeSeen)
        \/ Rtc!EnableWrite(p) \/ Rtc!Write(p) \/ Rtc!DisableWrite(p) \/ Rtc!SendAddress(p)
        \/ \E again \in BOOLEAN : Rtc!GetDateTime(p, again)
        \/ Rtc!Lost(p, "enable", "write") \/ Rtc!Lost(p, "write", "disable")
        \/ Rtc!Lost(p, "address", "get") \/ Rtc!LastLost(p)
  BY DEF Rtc!Next
<1>. USE DEF RtcInv
<1>1. CASE Rtc!BeginRead(p)
  <2>. DEFINE at == [rtc.at EXCEPT ![p] = "address"]
              wants == [rtc.wants EXCEPT ![p] = "read"]
              shown == [rtc.shown EXCEPT ![p] = TRUE]
  <2>0. rtc' = [rtc EXCEPT !.at = at, !.wants = wants, !.shown = shown,
                  !.alone = Company(p, "read"), !.runs = rtc.runs + 1]
    <3>1. Rtc!Begun(p, "read") = [rtc EXCEPT !.wants = wants, !.runs = rtc.runs + 1,
                                  !.alone = Company(p, "read")]
      BY Begins
    <3>2. rtc' = [Rtc!Begun(p, "read") EXCEPT !.at[p] = "address", !.shown[p] = TRUE]
      BY <1>1 DEF Rtc!BeginRead
    <3>. QED  BY <3>1, <3>2 DEF RtcType
  <2>1. RtcType'
    <3>1. at \in [Programs -> RtcSteps] /\ shown \in [Programs -> BOOLEAN]
      BY DEF RtcType, RtcSteps
    <3>2. wants \in [Programs -> Rtc!Jobs \cup {"read"}]
      BY Begins
    <3>. HIDE DEF at, wants, shown
    <3>. QED  BY <2>0, <3>1, <3>2, Begins DEF RtcType
  <2>2. \A q \in Programs : Wanted(q)'
    BY <1>1 DEF Rtc!BeginRead, Rtc!Begun, RtcType, Wanted
  <2>3. \A q \in Programs : Loaded(q)'
    BY <1>1 DEF Rtc!BeginRead, Rtc!Begun, RtcType, Wanted, Loaded
  <2>4. \A q \in Programs : Apart(q)'
    <3>1. rtc'.at = at /\ rtc'.alone = Company(p, "read")
      BY <2>0 DEF RtcType
    <3>2. \A q \in Programs : at[q] = IF q = p THEN "address" ELSE rtc.at[q]
      BY DEF RtcType
    <3>3. Apart(p)'
      BY <3>1, <3>2 DEF Apart, Company, Meets
    <3>4. ASSUME NEW q \in Programs \ {p} PROVE Apart(q)'
      <4>1. rtc'.alone[q] => rtc.alone[q] /\ (rtc.at[q] = "out" \/ Rtc!Setting(q))
        BY <3>1 DEF Company, Meets, Wanted
      <4>2. \A o \in Programs : rtc'.at[o] = IF o = p THEN "address" ELSE rtc.at[o]
        BY <3>1, <3>2
      <4>. HIDE DEF at
      <4>. QED  BY <4>1, <4>2 DEF Apart
    <3>. QED  BY <3>3, <3>4
  <2>5. (~rtc.failed => Protected)'
    BY <1>1 DEF Rtc!BeginRead, Rtc!Begun, RtcType, Protected
  <2>6. \A q \in Programs : (~rtc.failed => Chip(q))'
    BY <1>1 DEF Rtc!BeginRead, Rtc!Begun, RtcType, Wanted, Apart, Chip
  <2>7. ClockKept'
    BY <1>1, <2>5 DEF Rtc!BeginRead, Rtc!Begun, RtcType, Wanted, Loaded, Apart, Chip, ClockKept, Rtc!Arrived
  <2>. QED  BY <2>1, <2>2, <2>3, <2>4, <2>5, <2>6, <2>7
<1>2. ASSUME NEW job \in Rtc!Jobs, NEW timeSeen \in BOOLEAN, Rtc!BeginSet(p, job, timeSeen)
      PROVE  RtcInv'
  <2>. DEFINE at == [rtc.at EXCEPT ![p] = "enable"]
              wants == [rtc.wants EXCEPT ![p] = job]
              message == [Rtc!Fields(p, job, timeSeen) EXCEPT ![0] = Rtc!Pointer(job, timeSeen) - 1]
              buf == [rtc.buf EXCEPT ![p] = message]
              len == [rtc.len EXCEPT ![p] = Rtc!Length(job, timeSeen)]
  <2>0. rtc' = [rtc EXCEPT !.at = at, !.wants = wants, !.alone = Company(p, job), !.buf = buf,
                  !.len = len, !.runs = rtc.runs + 1]
    <3>1. Rtc!Begun(p, job) = [rtc EXCEPT !.wants = wants, !.runs = rtc.runs + 1,
                               !.alone = Company(p, job)]
      BY Begins
    <3>2. rtc' = [Rtc!Begun(p, job) EXCEPT !.at[p] = "enable",
                    !.len[p] = Rtc!Length(job, timeSeen), !.buf[p] = message]
      BY <1>2 DEF Rtc!BeginSet
    <3>. QED  BY <3>1, <3>2 DEF RtcType
  <2>1. RtcType'
    <3>1. at \in [Programs -> RtcSteps]
      BY DEF RtcType, RtcSteps
    <3>2. p \in Int
      BY DemoAssumption
    <3>3. message \in [0 .. 6 -> Int]
      BY <3>2 DEF Rtc!Fields, Rtc!Pointer
    <3>4. Rtc!Length(job, timeSeen) \in 0 .. 7
      BY DEF Rtc!Length
    <3>5. buf \in [Programs -> [0 .. 6 -> Int]] /\ len \in [Programs -> 0 .. 7]
      BY <3>3, <3>4 DEF RtcType
    <3>6. /\ wants \in [Programs -> Rtc!Jobs \cup {"read"}] /\ rtc.runs + 1 \in Nat
          /\ Company(p, job) \in [Programs -> BOOLEAN]
      BY Begins
    <3>. HIDE DEF at, wants, buf, len
    <3>. QED  BY <2>0, <3>1, <3>5, <3>6 DEF RtcType
  <2>2. \A q \in Programs : Wanted(q)'
    BY <1>2 DEF Rtc!BeginSet, Rtc!Begun, Rtc!Pointer, Rtc!Length, Rtc!Fields, RtcType, Wanted
  <2>3. \A q \in Programs : Loaded(q)'
    BY <1>2 DEF Rtc!BeginSet, Rtc!Begun, Rtc!Pointer, Rtc!Length, Rtc!Fields, RtcType, Wanted, Loaded
  <2>4. \A q \in Programs : Apart(q)'
    <3>1. /\ rtc'.at = at /\ rtc'.alone = Company(p, job)
      BY <2>0 DEF RtcType
    <3>2. \A q \in Programs : at[q] = IF q = p THEN "enable" ELSE rtc.at[q]
      BY DEF RtcType
    <3>3. Apart(p)'
      BY <3>1, <3>2 DEF Apart, Company, Meets, Wanted
    <3>4. ASSUME NEW q \in Programs \ {p} PROVE Apart(q)'
      <4>1. rtc'.alone[q] => rtc.at[q] = "out"
        BY <3>1 DEF Company, Meets
      <4>2. rtc'.at[q] = rtc.at[q]
        BY <3>1, <3>2
      <4>. QED  BY <4>1, <4>2 DEF Apart
    <3>. QED  BY <3>3, <3>4
  <2>5. (~rtc.failed => Protected)'
    BY <1>2 DEF Rtc!BeginSet, Rtc!Begun, Rtc!Pointer, Rtc!Length, Rtc!Fields, RtcType, Protected
  <2>6. \A q \in Programs : (~rtc.failed => Chip(q))'
    BY <1>2 DEF Rtc!BeginSet, Rtc!Begun, Rtc!Pointer, Rtc!Length, Rtc!Fields, RtcType, Wanted, Apart, Chip
  <2>7. ClockKept'
    BY <1>2, <2>5 DEF Rtc!BeginSet, Rtc!Begun, Rtc!Pointer, Rtc!Length, Rtc!Fields, RtcType, Wanted, Loaded, Apart, Chip, ClockKept, Rtc!Arrived
  <2>. QED  BY <2>1, <2>2, <2>3, <2>4, <2>5, <2>6, <2>7
<1>3. CASE Rtc!EnableWrite(p)
  <2>1. RtcType'
    BY <1>3 DEF Rtc!EnableWrite, Rtc!Message, RtcType, RtcSteps
  <2>2. \A q \in Programs : Wanted(q)'
    BY <1>3 DEF Rtc!EnableWrite, Rtc!Message, RtcType, Wanted
  <2>3. \A q \in Programs : Loaded(q)'
    BY <1>3 DEF Rtc!EnableWrite, Rtc!Message, RtcType, Wanted, Loaded
  <2>4. \A q \in Programs : Apart(q)'
    BY <1>3 DEF Rtc!EnableWrite, Rtc!Message, RtcType, Wanted, Apart
  <2>5. (~rtc.failed => Protected)'
    BY <1>3 DEF Rtc!EnableWrite, Rtc!Message, RtcType, Protected
  <2>6. \A q \in Programs : (~rtc.failed => Chip(q))'
    BY <1>3 DEF Rtc!EnableWrite, Rtc!Message, RtcType, Wanted, Apart, Chip
  <2>7. ClockKept'
    BY <1>3, <2>5 DEF Rtc!EnableWrite, Rtc!Message, RtcType, Wanted, Loaded, Apart, Chip, ClockKept, Rtc!Arrived
  <2>. QED  BY <2>1, <2>2, <2>3, <2>4, <2>5, <2>6, <2>7
<1>4. CASE Rtc!Write(p)
  <2>1. RtcType'
    <3>. DEFINE at == [rtc.at EXCEPT ![p] = "disable"]
                first == rtc.buf[p][0]
                reg == [r \in Rtc!Registers |->
                          IF rtc.allowed /\ r \in first .. first + (rtc.len[p] - 1) - 1
                          THEN rtc.buf[p][r - first + 1] ELSE rtc.reg[r]]
    <3>1. at \in [Programs -> RtcSteps]
      BY DEF RtcType, RtcSteps
    <3>2. reg \in [Rtc!Registers -> Int]
      <4>1. rtc.buf[p] \in [0 .. 6 -> Int] /\ first \in Int /\ rtc.len[p] \in 0 .. 7
        BY DEF RtcType
      <4>2. ASSUME NEW r \in Rtc!Registers, r \in first .. first + (rtc.len[p] - 1) - 1
            PROVE  rtc.buf[p][r - first + 1] \in Int
        <5>1. r - first + 1 \in 0 .. 6
          BY <4>1, <4>2
        <5>. QED  BY <4>1, <5>1
      <4>3. rtc.reg \in [Rtc!Registers -> Int]
        BY DEF RtcType
      <4>. QED  BY <4>2, <4>3
    <3>3. rtc' = [rtc EXCEPT !.at = at, !.home = FALSE, !.reg = reg]
      BY <1>4 DEF Rtc!Write, Rtc!Message, RtcType
    <3>. HIDE DEF at, reg
    <3>. QED  BY <3>1, <3>2, <3>3 DEF RtcType
  <2>2. \A q \in Programs : Wanted(q)'
    BY <1>4 DEF Rtc!Write, Rtc!Message, RtcType, Wanted
  <2>3. \A q \in Programs : Loaded(q)'
    BY <1>4 DEF Rtc!Write, Rtc!Message, RtcType, Wanted, Loaded
  <2>4. \A q \in Programs : Apart(q)'
    BY <1>4 DEF Rtc!Write, Rtc!Message, RtcType, Wanted, Apart
  <2>5. (~rtc.failed => Protected)'
    BY <1>4 DEF Rtc!Write, Rtc!Message, RtcType, Protected
  <2>6. \A q \in Programs : (~rtc.failed => Chip(q))'
    BY <1>4 DEF Rtc!Write, Rtc!Message, RtcType, Wanted, Apart, Chip
  <2>7. ClockKept'
    BY <1>4, <2>5 DEF Rtc!Write, Rtc!Message, RtcType, Wanted, Loaded, Apart, Chip, ClockKept, Rtc!Arrived
  <2>. QED  BY <2>1, <2>2, <2>3, <2>4, <2>5, <2>6, <2>7
<1>5. CASE Rtc!DisableWrite(p)
  <2>1. RtcType'
    <3>. DEFINE at == [rtc.at EXCEPT ![p] = "out"]
                buf == [rtc.buf EXCEPT ![p] = [k \in 0 .. 6 |-> Rtc!Zero]]
                len == [rtc.len EXCEPT ![p] = 0]
                wants == [rtc.wants EXCEPT ![p] = "read"]
                shown == [rtc.shown EXCEPT ![p] = TRUE]
                alone == [rtc.alone EXCEPT ![p] = TRUE]
    <3>1. at \in [Programs -> RtcSteps] /\ wants \in [Programs -> Rtc!Jobs \cup {"read"}]
      BY DEF RtcType, RtcSteps
    <3>2. buf \in [Programs -> [0 .. 6 -> Int]] /\ len \in [Programs -> 0 .. 7]
      BY DEF RtcType
    <3>3. shown \in [Programs -> BOOLEAN] /\ alone \in [Programs -> BOOLEAN]
      BY DEF RtcType
    <3>4. rtc' = [rtc EXCEPT !.at = at, !.buf = buf, !.len = len, !.wants = wants,
                    !.shown = shown, !.alone = alone, !.allowed = FALSE, !.home = FALSE]
      BY <1>5 DEF Rtc!DisableWrite, Rtc!Message, Rtc!Ended, RtcType
    <3>. HIDE DEF at, buf, len, wants, shown, alone
    <3>. QED  BY <3>1, <3>2, <3>3, <3>4 DEF RtcType
  <2>2. \A q \in Programs : Wanted(q)'
    BY <1>5 DEF Rtc!DisableWrite, Rtc!Message, Rtc!Ended, RtcType, Wanted
  <2>3. \A q \in Programs : Loaded(q)'
    BY <1>5 DEF Rtc!DisableWrite, Rtc!Message, Rtc!Ended, RtcType, Wanted, Loaded
  <2>4. \A q \in Programs : Apart(q)'
    BY <1>5 DEF Rtc!DisableWrite, Rtc!Message, Rtc!Ended, RtcType, Wanted, Apart
  <2>5. (~rtc.failed => Protected)'
    BY <1>5 DEF Rtc!DisableWrite, Rtc!Message, Rtc!Ended, RtcType, Protected
  <2>6. \A q \in Programs : (~rtc.failed => Chip(q))'
    BY <1>5 DEF Rtc!DisableWrite, Rtc!Message, Rtc!Ended, RtcType, Wanted, Apart, Chip
  <2>7. ClockKept'
    BY <1>5, <2>5 DEF Rtc!DisableWrite, Rtc!Message, Rtc!Ended, RtcType, Wanted, Loaded, Apart, Chip, ClockKept, Rtc!Arrived
  <2>. QED  BY <2>1, <2>2, <2>3, <2>4, <2>5, <2>6, <2>7
<1>6. CASE Rtc!SendAddress(p)
  <2>1. RtcType'
    BY <1>6 DEF Rtc!SendAddress, Rtc!Message, RtcType, RtcSteps
  <2>2. \A q \in Programs : Wanted(q)'
    BY <1>6 DEF Rtc!SendAddress, Rtc!Message, RtcType, Wanted
  <2>3. \A q \in Programs : Loaded(q)'
    BY <1>6 DEF Rtc!SendAddress, Rtc!Message, RtcType, Wanted, Loaded
  <2>4. \A q \in Programs : Apart(q)'
    BY <1>6 DEF Rtc!SendAddress, Rtc!Message, RtcType, Wanted, Apart
  <2>5. (~rtc.failed => Protected)'
    BY <1>6 DEF Rtc!SendAddress, Rtc!Message, RtcType, Protected
  <2>6. \A q \in Programs : (~rtc.failed => Chip(q))'
    BY <1>6 DEF Rtc!SendAddress, Rtc!Message, RtcType, Wanted, Apart, Chip
  <2>7. ClockKept'
    BY <1>6, <2>5 DEF Rtc!SendAddress, Rtc!Message, RtcType, Wanted, Loaded, Apart, Chip, ClockKept, Rtc!Arrived
  <2>. QED  BY <2>1, <2>2, <2>3, <2>4, <2>5, <2>6, <2>7
<1>7. CASE \E again \in BOOLEAN : Rtc!GetDateTime(p, again)
  <2>1. RtcType'
    <3>0. PICK again \in BOOLEAN : Rtc!GetDateTime(p, again)
      BY <1>7
    <3>. DEFINE at == [rtc.at EXCEPT ![p] = IF again THEN "address" ELSE "out"]
                shown == [rtc.shown EXCEPT ![p] = rtc.home]
    <3>1. at \in [Programs -> RtcSteps] /\ shown \in [Programs -> BOOLEAN]
      BY DEF RtcType, RtcSteps
    <3>2. rtc' = [rtc EXCEPT !.at = at, !.shown = shown, !.home = FALSE]
      BY <3>0 DEF Rtc!GetDateTime, Rtc!Message, RtcType
    <3>. HIDE DEF at, shown
    <3>. QED  BY <3>1, <3>2 DEF RtcType
  <2>2. \A q \in Programs : Wanted(q)'
    BY <1>7 DEF Rtc!GetDateTime, Rtc!Message, RtcType, Wanted
  <2>3. \A q \in Programs : Loaded(q)'
    BY <1>7 DEF Rtc!GetDateTime, Rtc!Message, RtcType, Wanted, Loaded
  <2>4. \A q \in Programs : Apart(q)'
    BY <1>7 DEF Rtc!GetDateTime, Rtc!Message, RtcType, Wanted, Apart
  <2>5. (~rtc.failed => Protected)'
    BY <1>7 DEF Rtc!GetDateTime, Rtc!Message, RtcType, Protected
  <2>6. \A q \in Programs : (~rtc.failed => Chip(q))'
    BY <1>7 DEF Rtc!GetDateTime, Rtc!Message, RtcType, Wanted, Apart, Chip
  <2>7. ClockKept'
    BY <1>7, <2>5 DEF Rtc!GetDateTime, Rtc!Message, RtcType, Wanted, Loaded, Apart, Chip, ClockKept, Rtc!Arrived
  <2>. QED  BY <2>1, <2>2, <2>3, <2>4, <2>5, <2>6, <2>7
<1>8. CASE Rtc!Lost(p, "enable", "write")
  <2>1. RtcType'
    BY <1>8 DEF Rtc!Lost, Rtc!Message, RtcType, RtcSteps
  <2>2. \A q \in Programs : Wanted(q)'
    BY <1>8 DEF Rtc!Lost, Rtc!Message, RtcType, Wanted
  <2>3. \A q \in Programs : Loaded(q)'
    BY <1>8 DEF Rtc!Lost, Rtc!Message, RtcType, Wanted, Loaded
  <2>4. \A q \in Programs : Apart(q)'
    BY <1>8 DEF Rtc!Lost, Rtc!Message, RtcType, Wanted, Apart
  <2>5. (~rtc.failed => Protected)'
    BY <1>8 DEF Rtc!Lost, Rtc!Message, RtcType, Protected
  <2>6. \A q \in Programs : (~rtc.failed => Chip(q))'
    BY <1>8 DEF Rtc!Lost, Rtc!Message, RtcType, Wanted, Apart, Chip
  <2>7. ClockKept'
    BY <1>8, <2>5 DEF Rtc!Lost, Rtc!Message, RtcType, Wanted, Loaded, Apart, Chip, ClockKept, Rtc!Arrived
  <2>. QED  BY <2>1, <2>2, <2>3, <2>4, <2>5, <2>6, <2>7
<1>9. CASE Rtc!Lost(p, "write", "disable")
  <2>1. RtcType'
    BY <1>9 DEF Rtc!Lost, Rtc!Message, RtcType, RtcSteps
  <2>2. \A q \in Programs : Wanted(q)'
    BY <1>9 DEF Rtc!Lost, Rtc!Message, RtcType, Wanted
  <2>3. \A q \in Programs : Loaded(q)'
    BY <1>9 DEF Rtc!Lost, Rtc!Message, RtcType, Wanted, Loaded
  <2>4. \A q \in Programs : Apart(q)'
    BY <1>9 DEF Rtc!Lost, Rtc!Message, RtcType, Wanted, Apart
  <2>5. (~rtc.failed => Protected)'
    BY <1>9 DEF Rtc!Lost, Rtc!Message, RtcType, Protected
  <2>6. \A q \in Programs : (~rtc.failed => Chip(q))'
    BY <1>9 DEF Rtc!Lost, Rtc!Message, RtcType, Wanted, Apart, Chip
  <2>7. ClockKept'
    BY <1>9, <2>5 DEF Rtc!Lost, Rtc!Message, RtcType, Wanted, Loaded, Apart, Chip, ClockKept, Rtc!Arrived
  <2>. QED  BY <2>1, <2>2, <2>3, <2>4, <2>5, <2>6, <2>7
<1>10. CASE Rtc!Lost(p, "address", "get")
  <2>1. RtcType'
    BY <1>10 DEF Rtc!Lost, Rtc!Message, RtcType, RtcSteps
  <2>2. \A q \in Programs : Wanted(q)'
    BY <1>10 DEF Rtc!Lost, Rtc!Message, RtcType, Wanted
  <2>3. \A q \in Programs : Loaded(q)'
    BY <1>10 DEF Rtc!Lost, Rtc!Message, RtcType, Wanted, Loaded
  <2>4. \A q \in Programs : Apart(q)'
    BY <1>10 DEF Rtc!Lost, Rtc!Message, RtcType, Wanted, Apart
  <2>5. (~rtc.failed => Protected)'
    BY <1>10 DEF Rtc!Lost, Rtc!Message, RtcType, Protected
  <2>6. \A q \in Programs : (~rtc.failed => Chip(q))'
    BY <1>10 DEF Rtc!Lost, Rtc!Message, RtcType, Wanted, Apart, Chip
  <2>7. ClockKept'
    BY <1>10, <2>5 DEF Rtc!Lost, Rtc!Message, RtcType, Wanted, Loaded, Apart, Chip, ClockKept, Rtc!Arrived
  <2>. QED  BY <2>1, <2>2, <2>3, <2>4, <2>5, <2>6, <2>7
<1>11. CASE Rtc!LastLost(p)
  <2>1. RtcType'
    <3>. DEFINE at == [rtc.at EXCEPT ![p] = "out"]
                buf == [rtc.buf EXCEPT ![p] = [k \in 0 .. 6 |-> Rtc!Zero]]
                len == [rtc.len EXCEPT ![p] = 0]
                wants == [rtc.wants EXCEPT ![p] = "read"]
                shown == [rtc.shown EXCEPT ![p] = TRUE]
                alone == [rtc.alone EXCEPT ![p] = TRUE]
    <3>1. at \in [Programs -> RtcSteps] /\ wants \in [Programs -> Rtc!Jobs \cup {"read"}]
      BY DEF RtcType, RtcSteps
    <3>2. buf \in [Programs -> [0 .. 6 -> Int]] /\ len \in [Programs -> 0 .. 7]
      BY DEF RtcType
    <3>3. shown \in [Programs -> BOOLEAN] /\ alone \in [Programs -> BOOLEAN]
      BY DEF RtcType
    <3>4. rtc' = [rtc EXCEPT !.at = at, !.buf = buf, !.len = len, !.wants = wants,
                    !.shown = shown, !.alone = alone, !.failed = TRUE]
      BY <1>11 DEF Rtc!LastLost, Rtc!Message, Rtc!Ended, RtcType
    <3>. HIDE DEF at, buf, len, wants, shown, alone
    <3>. QED  BY <3>1, <3>2, <3>3, <3>4 DEF RtcType
  <2>2. \A q \in Programs : Wanted(q)'
    BY <1>11 DEF Rtc!LastLost, Rtc!Message, Rtc!Ended, RtcType, Wanted
  <2>3. \A q \in Programs : Loaded(q)'
    BY <1>11 DEF Rtc!LastLost, Rtc!Message, Rtc!Ended, RtcType, Wanted, Loaded
  <2>4. \A q \in Programs : Apart(q)'
    BY <1>11 DEF Rtc!LastLost, Rtc!Message, Rtc!Ended, RtcType, Wanted, Apart
  <2>5. (~rtc.failed => Protected)'
    BY <1>11 DEF Rtc!LastLost, Rtc!Message, Rtc!Ended, RtcType, Protected
  <2>6. \A q \in Programs : (~rtc.failed => Chip(q))'
    BY <1>11 DEF Rtc!LastLost, Rtc!Message, Rtc!Ended, RtcType, Wanted, Apart, Chip
  <2>7. ClockKept'
    BY <1>11, <2>5 DEF Rtc!LastLost, Rtc!Message, Rtc!Ended, RtcType, Wanted, Loaded, Apart, Chip, ClockKept, Rtc!Arrived
  <2>. QED  BY <2>1, <2>2, <2>3, <2>4, <2>5, <2>6, <2>7
<1>. QED
  BY <1>0, <1>1, <1>2, <1>3, <1>4, <1>5, <1>6, <1>7, <1>8, <1>9, <1>10, <1>11

-----------------------------------------------------------------------------
(* The demonstrations run in scenes of their own, so a step of the board   *)
(* is a step of one of them or leaves it alone.                            *)
LEMMA DemoInit == BoardInit => DemoInv
<1>1. Ipc!Init => IpcInv
  <2>1. <<>> \in Seq(Nat)
    OBVIOUS
  <2>. QED
    BY <2>1 DEF Ipc!Init, Ipc!Idle, IpcInv, IpcType, Threads, InPipe, InQueue, InSegment, GetsSent
<1>2. Rtc!Init => RtcInv
  <2>1. Rtc!Init => RtcType
    BY DEF Rtc!Init, RtcType, RtcSteps
  <2>2. Rtc!Init => ClockKept /\ Protected
    BY DEF Rtc!Init, ClockKept, Protected
  <2>3. Rtc!Init => \A p \in Programs : Wanted(p) /\ Loaded(p) /\ Apart(p) /\ Chip(p)
    BY DEF Rtc!Init, Wanted, Loaded, Apart, Chip
  <2>. QED  BY <2>1, <2>2, <2>3 DEF RtcInv
<1>. QED  BY <1>1, <1>2 DEF BoardInit, DemoInv

LEMMA DemoKept == DemoInv /\ [BoardNext]_<<vars, demovars>> => DemoInv'
<1>. SUFFICES ASSUME DemoInv, [BoardNext]_<<vars, demovars>>
              PROVE  DemoInv'
  OBVIOUS
<1>1. IpcInv'
  <2>1. CASE UNCHANGED ipc
    BY <2>1 DEF DemoInv, IpcInv, IpcType, Threads, InPipe, InQueue, InSegment, GetsSent, Ipc!Right
  <2>2. CASE Ipc!Next
    BY <2>2, IpcStep DEF DemoInv
  <2>. QED  BY <2>1, <2>2 DEF BoardNext, demovars
<1>2. RtcInv'
  <2>1. CASE UNCHANGED rtc
    BY <2>1 DEF DemoInv, RtcInv, RtcType, Wanted, Loaded, Apart, Chip, Protected, ClockKept,
                Rtc!Arrived
  <2>2. CASE Rtc!Next
    BY <2>2, RtcStep DEF DemoInv
  <2>. QED  BY <2>1, <2>2 DEF BoardNext, demovars
<1>. QED  BY <1>1, <1>2 DEF DemoInv

THEOREM DemoInvariant == BoardSpec => []DemoInv
<1>. QED  BY DemoInit, DemoKept, PTL DEF BoardSpec

(* The receiver prints the message of its own run, whatever runs were      *)
(* killed before it and whatever they left.                                *)
THEOREM Received == BoardSpec => []GetsSent
<1>1. DemoInv => GetsSent
  BY DEF DemoInv, IpcInv
<1>. QED  BY <1>1, DemoInvariant, PTL

(* The clock keeps what its only setter has set, shows it to its only      *)
(* reader, and is protected when nobody sets it, for any number of         *)
(* programs that overlap.                                                  *)
THEOREM Kept == BoardSpec => []ClockKept
<1>1. DemoInv => ClockKept
  BY DEF DemoInv, RtcInv
<1>. QED  BY <1>1, DemoInvariant, PTL
=============================================================================
