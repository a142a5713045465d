------------------------------- MODULE BbbLed -------------------------------
(***************************************************************************)
(* The LED driver, package/ii-vi/modules/bbb_led_mod/bbb_led_mod.c.        *)
(*                                                                         *)
(* Loading and unloading are sequences of steps, between any two of which  *)
(* the timer handler and, once the device is registered, user processes    *)
(* run.  The AM335x has one core: the handler interrupts everything else   *)
(* and runs to its end.  An open file pins the module (fops.owner), so     *)
(* rmmod is refused while there is one, and no file can be opened once the *)
(* module is going.                                                        *)
(***************************************************************************)
EXTENDS Naturals, Gpio

CONSTANT Procs       (* user processes that read the device                *)

VARIABLES
  bpc,               (* next step of init_bbb_led or exit_bbb_led, or the  *)
                     (* state of the module: "out" or "live"               *)
  pin, mode_id, led_on,      (* led_ctrl                                   *)
  timer,             (* led_timer is pending                               *)
  misc,              (* /dev/bbb_leds exists                               *)
  read_complete,     (* static variable of bbb_led_read                    *)
  user               (* user[q]: where process q is in its reading loop     *)

ctrl  == <<pin, mode_id, led_on>>
bvars == <<bpc, pin, mode_id, led_on, timer, misc, read_complete, user>>

Modes == {"manual", "flashing"}
InitSteps == {"request", "direction", "register", "status", "addtimer"}
ExitSteps == {"off", "free", "deltimer", "deregister"}
PinOf(l) == IF l = 0 THEN 53 ELSE 54

Init ==
  /\ bpc = "out" /\ pin = 53 /\ mode_id = "manual" /\ led_on = 0
  /\ timer = FALSE /\ misc = FALSE /\ read_complete = FALSE
  /\ user = [q \in Procs |-> "closed"]

-----------------------------------------------------------------------------
(* init_bbb_led, lines 186 to 233.  A failing step ends it with an error   *)
(* and undoes nothing.                                                     *)

Step(from, to) == bpc = from /\ bpc' = to

(* The parameter usrLed is read here only; writing it in sysfs later has   *)
(* no effect on the loaded module.                                         *)
Insmod(usrLed) ==
  /\ Step("out", "request")
  /\ pin' = PinOf(usrLed)
  /\ UNCHANGED <<mode_id, led_on, read_complete, timer, misc, user, holder, level>>

Quiet == UNCHANGED <<ctrl, read_complete, user>>

(* A module that is thrown away takes its variables with it.               *)
Unload(from) ==
  /\ Step(from, "out")
  /\ pin' = 53 /\ mode_id' = "manual" /\ led_on' = 0
  /\ read_complete' = FALSE /\ UNCHANGED user

RequestPin ==
  /\ \/ Step("request", "direction") /\ IsFree(pin) /\ Request(pin, "bbb") /\ Quiet
     \/ ~IsFree(pin) /\ UNCHANGED holder /\ Unload("request")
  /\ UNCHANGED <<timer, misc, level>>

DirectionOutput ==
  /\ \/ Step("direction", "register") /\ SetValue(pin, 0) /\ Quiet
     \/ UNCHANGED level /\ Unload("direction")
  /\ UNCHANGED <<timer, misc, holder>>

MiscRegister ==
  /\ \/ Step("register", "status") /\ misc' = TRUE /\ Quiet
     \/ UNCHANGED misc /\ Unload("register")
  /\ UNCHANGED <<timer, holder, level>>

InitStatus ==
  /\ Step("status", "addtimer") /\ SetValue(pin, 0)
  /\ UNCHANGED <<timer, misc, holder>> /\ Quiet

AddTimer ==
  /\ Step("addtimer", "live") /\ timer' = TRUE
  /\ UNCHANGED <<misc, holder, level>> /\ Quiet

(* exit_bbb_led, lines 235 to 246.                                         *)
Rmmod ==
  /\ Step("live", "off") /\ \A q \in Procs : user[q] = "closed"
  /\ UNCHANGED <<timer, misc, holder, level>> /\ Quiet

Off ==
  /\ Step("off", "free") /\ SetValue(pin, 0)
  /\ UNCHANGED <<timer, misc, holder>> /\ Quiet

FreePin ==
  /\ Step("free", "deltimer") /\ Release(pin)
  /\ UNCHANGED <<timer, misc, level>> /\ Quiet

(* del_timer_sync waits for a running handler; on one core none is running.*)
ForgetTimer ==
  /\ Step("deltimer", "deregister")
  /\ UNCHANGED <<timer, misc, holder, level>> /\ Quiet
DelTimerSync ==
  /\ Step("deltimer", "deregister") /\ timer' = FALSE
  /\ UNCHANGED <<misc, holder, level>> /\ Quiet

MiscDeregister ==
  /\ Unload("deregister") /\ misc' = FALSE
  /\ UNCHANGED <<timer, holder, level>>

-----------------------------------------------------------------------------
(* led_timer_isr, lines 63 to 71: it arms itself again in every mode.      *)
RearmWhenFlashing ==
  /\ timer
  /\ IF mode_id = "flashing"
     THEN led_on' = 1 - led_on /\ SetValue(pin, 1 - led_on) /\ UNCHANGED timer
     ELSE timer' = FALSE /\ UNCHANGED <<led_on, level>>
  /\ UNCHANGED <<bpc, pin, mode_id, misc, read_complete, user, holder>>
Tick ==
  /\ timer
  /\ IF mode_id = "flashing"
     THEN led_on' = 1 - led_on /\ SetValue(pin, 1 - led_on)
     ELSE UNCHANGED <<led_on, level>>
  /\ UNCHANGED <<bpc, pin, mode_id, timer, misc, read_complete, user,
                 holder>>

-----------------------------------------------------------------------------
(* User processes.  led_app and echo open the device, make one call and    *)
(* close it again; while they are at it the module cannot go, so nothing   *)
(* is lost by taking the three together.  cat opens it and reads until it  *)
(* gets an empty answer.                                                   *)

CanOpen == misc /\ bpc \notin ExitSteps
Calm == UNCHANGED <<bpc, pin, led_on, timer, misc, holder>>

(* bbb_led_ioctl, lines 73 to 104, and bbb_led_write, lines 120 to 145.    *)
Ioctl(v) ==
  /\ CanOpen /\ SetValue(pin, v)
  /\ UNCHANGED <<mode_id, read_complete, user>> /\ Calm

Write(m) ==
  /\ CanOpen /\ mode_id' = m
  /\ UNCHANGED <<read_complete, user, level>> /\ Calm

Become(q, from, to) == user[q] = from /\ user' = [user EXCEPT ![q] = to]

OpenToRead(q) ==
  /\ CanOpen /\ Become(q, "closed", "cat")
  /\ UNCHANGED <<mode_id, read_complete, level>> /\ Calm

(* bbb_led_read, lines 147 to 169: copy_to_user may sleep, so another      *)
(* reader can come between the test of read_complete and its assignment.   *)
ReadEnd(q) ==
  /\ read_complete /\ Become(q, "cat", "closed") /\ read_complete' = FALSE
  /\ UNCHANGED <<mode_id, level>> /\ Calm

ReadBegin(q) ==
  /\ ~read_complete /\ Become(q, "cat", "copying")
  /\ UNCHANGED <<mode_id, read_complete, level>> /\ Calm

ForgetRead(q) ==
  /\ Become(q, "copying", "cat")
  /\ UNCHANGED <<mode_id, read_complete, level>> /\ Calm
ReadCopy(q) ==
  /\ Become(q, "copying", "cat") /\ read_complete' = TRUE
  /\ UNCHANGED <<mode_id, level>> /\ Calm

-----------------------------------------------------------------------------
InitOrExit ==
  \/ RequestPin \/ DirectionOutput \/ MiscRegister \/ InitStatus \/ AddTimer
  \/ Off \/ FreePin \/ DelTimerSync \/ MiscDeregister

Reading(q) == ReadBegin(q) \/ ReadCopy(q) \/ ReadEnd(q)

Next ==
  \/ \E usrLed \in {0, 1} : Insmod(usrLed)
  \/ Rmmod \/ InitOrExit \/ Tick
  \/ \E v \in {0, 1} : Ioctl(v)
  \/ \E m \in Modes : Write(m)
  \/ \E q \in Procs : OpenToRead(q) \/ Reading(q)

(* insmod, rmmod and a read that were started go on; jiffies advance.      *)
allvars  == <<bvars, holder, level>>
Fairness == /\ WF_allvars(InitOrExit) /\ WF_allvars(Tick)
            /\ \A q \in Procs : WF_allvars(Reading(q))

TypeOK ==
  /\ bpc \in {"out", "live"} \cup InitSteps \cup ExitSteps
  /\ pin \in Pins /\ mode_id \in Modes /\ led_on \in {0, 1}
  /\ timer \in BOOLEAN /\ misc \in BOOLEAN /\ read_complete \in BOOLEAN
  /\ user \in [Procs -> {"closed", "cat", "copying"}]
=============================================================================
