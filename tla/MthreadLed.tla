----------------------------- MODULE MthreadLed -----------------------------
(***************************************************************************)
(* The thread driver, package/ii-vi/modules/mthread_demo_mod/              *)
(* mthread_demo_mod.c: two kernel threads that blink one LED each.         *)
(*                                                                         *)
(* A thread announces that it is going to sleep before it looks whether it *)
(* should stop, and kthread_stop sets the flag before it wakes the thread: *)
(* the two orders together keep the wake-up from being lost.               *)
(***************************************************************************)
EXTENDS Naturals, FiniteSets, Gpio

VARIABLES
  mpc,       (* next step of init_mthread_demo or exit_mthread_demo, or the*)
             (* state of the module: "out", "live" or "broken"             *)
  i,         (* the loop variable of the two functions                     *)
  ret,       (* ret of init_led_ctrl: FALSE is 0, success                  *)
  led_init_map,
  led_on,    (* mthread_led_ctrl[i].led_on                                 *)
  misc,      (* /dev/mthread_leds exists                                   *)
  thread,    (* thread[k]: next step of kernel thread k                    *)
  ready,     (* ready[k]: its task state is TASK_RUNNING                   *)
  stop       (* stop[k]: kthread_should_stop()                             *)

mvars == <<mpc, i, ret, led_init_map, led_on, misc, thread, ready, stop>>

Leds == {0, 1}
Pin(k) == 53 + k                                   (* led_pin_desc         *)
InitSteps == {"request", "direction", "register", "cleanup", "spawn"}
ExitSteps == {"off", "free", "stop", "join", "deregister"}
ThreadSteps == {"none", "set", "check", "toggle", "schedule", "asleep", "gone"}

Init ==
  /\ mpc = "out" /\ i = 0 /\ ret = FALSE /\ led_init_map = {}
  /\ led_on = [k \in Leds |-> 0] /\ misc = FALSE
  /\ thread = [k \in Leds |-> "none"]
  /\ ready = [k \in Leds |-> TRUE] /\ stop = [k \in Leds |-> FALSE]

Threads == <<thread, ready, stop>>
Step(from, to) == mpc = from /\ mpc' = to

Forget ==
  /\ i' = 0 /\ ret' = FALSE /\ led_init_map' = {}
  /\ led_on' = [k \in Leds |-> 0] /\ thread' = [k \in Leds |-> "none"]
  /\ ready' = [k \in Leds |-> TRUE] /\ stop' = [k \in Leds |-> FALSE]

Insmod ==
  /\ Step("out", "request")
  /\ UNCHANGED <<i, ret, led_init_map, led_on, misc, Threads, holder, level>>

(* A module that is thrown away takes its variables with it.               *)
Unload(from) == Step(from, "out") /\ Forget

-----------------------------------------------------------------------------
(* init_led_ctrl, lines 80 to 136.  ret is overwritten by every call, so   *)
(* what counts in the end is the last LED.                                 *)

NextLed(failed) ==
  /\ ret' = failed
  /\ IF i = 0 THEN i' = 1 /\ mpc' = "request"
     ELSE i' = 0 /\ mpc' = IF failed THEN "cleanup" ELSE "register"

RequestPin ==
  /\ mpc = "request"
  /\ \/ /\ IsFree(Pin(i)) /\ Request(Pin(i), "mth")
        /\ led_init_map' = led_init_map \cup {i}
        /\ mpc' = "direction" /\ UNCHANGED <<i, ret>>
     \/ /\ ~IsFree(Pin(i)) /\ NextLed(TRUE) /\ UNCHANGED <<led_init_map, holder>>
  /\ UNCHANGED <<led_on, misc, Threads, level>>

DirectionOutput ==
  /\ mpc = "direction"
  /\ \/ SetValue(Pin(i), 0) /\ NextLed(FALSE)
     \/ UNCHANGED level /\ NextLed(TRUE)
  /\ UNCHANGED <<led_init_map, led_on, misc, Threads, holder>>

MiscRegister ==
  /\ \/ Step("register", "spawn") /\ misc' = TRUE
     \/ Step("register", "cleanup") /\ UNCHANGED misc
  /\ UNCHANGED <<i, ret, led_init_map, led_on, Threads, holder, level>>

(* Lines 124 to 133.                                                       *)
KeepPins == Unload("cleanup") /\ UNCHANGED <<misc, holder, level>>
Cleanup ==
  /\ Unload("cleanup")
  /\ holder' = [p \in Pins |-> IF \E k \in led_init_map : p = Pin(k)
                               THEN "none" ELSE holder[p]]
  /\ UNCHANGED <<misc, level>>

(* init_mthread_demo, lines 159 to 174.                                    *)
Spawn ==
  /\ mpc = "spawn"
  /\ thread' = [thread EXCEPT ![i] = "set"]
  /\ IF i = 0 THEN i' = 1 /\ UNCHANGED mpc ELSE i' = 0 /\ mpc' = "live"
  /\ UNCHANGED <<ret, led_init_map, led_on, misc, ready, stop, holder, level>>

(* kthread_run fails: the error is returned and the module is thrown away, *)
(* with its device registered, its pins taken and maybe thread 0 running   *)
(* in its memory.  Nothing can be said of what that thread does; the model *)
(* keeps the pins and the device and ends the driver here.                 *)
SpawnFails ==
  /\ Step("spawn", "broken") /\ Forget
  /\ UNCHANGED <<misc, holder, level>>

-----------------------------------------------------------------------------
(* led_flsh_thread, lines 52 to 68.                                        *)

Thread(k, from, to) == thread[k] = from /\ thread' = [thread EXCEPT ![k] = to]
Elsewhere == UNCHANGED <<mpc, i, ret, led_init_map, misc, stop, holder>>

AnnounceSleep(k) ==
  /\ Thread(k, "set", "check") /\ ready' = [ready EXCEPT ![k] = FALSE]
  /\ UNCHANGED <<led_on, level>> /\ Elsewhere

CheckStop(k) ==
  /\ \/ Thread(k, "check", "gone") /\ stop[k]
     \/ Thread(k, "check", "toggle") /\ ~stop[k]
  /\ UNCHANGED <<led_on, ready, level>> /\ Elsewhere

Toggle(k) ==
  /\ Thread(k, "toggle", "schedule")
  /\ led_on' = [led_on EXCEPT ![k] = 1 - @] /\ SetValue(Pin(k), 1 - led_on[k])
  /\ UNCHANGED ready /\ Elsewhere

(* schedule_timeout: a thread that was woken in the meantime goes on.      *)
SleepAlways(k) ==
  /\ Thread(k, "schedule", "asleep")
  /\ UNCHANGED <<led_on, ready, level>> /\ Elsewhere
Schedule(k) ==
  /\ Thread(k, "schedule", IF ready[k] THEN "set" ELSE "asleep")
  /\ UNCHANGED <<led_on, ready, level>> /\ Elsewhere

Timeout(k) ==
  /\ Thread(k, "asleep", "set") /\ ready' = [ready EXCEPT ![k] = TRUE]
  /\ UNCHANGED <<led_on, level>> /\ Elsewhere

-----------------------------------------------------------------------------
(* exit_mthread_demo, lines 181 to 197.                                    *)

Rmmod ==
  /\ Step("live", "off") /\ i' = 0
  /\ UNCHANGED <<ret, led_init_map, led_on, misc, Threads, holder, level>>

Off ==
  /\ Step("off", "free") /\ SetValue(Pin(i), 0)
  /\ UNCHANGED <<i, ret, led_init_map, led_on, misc, Threads, holder>>

FreePin ==
  /\ Step("free", "stop") /\ Release(Pin(i))
  /\ UNCHANGED <<i, ret, led_init_map, led_on, misc, Threads, level>>

(* kthread_stop: the flag, the wake-up, and the wait for the thread.       *)
StopThread ==
  /\ Step("stop", "join")
  /\ stop' = [stop EXCEPT ![i] = TRUE] /\ ready' = [ready EXCEPT ![i] = TRUE]
  /\ thread' = [thread EXCEPT ![i] = IF @ = "asleep" THEN "set" ELSE @]
  /\ UNCHANGED <<i, ret, led_init_map, led_on, misc, holder, level>>

JoinThread ==
  /\ mpc = "join" /\ thread[i] = "gone"
  /\ IF i = 0 THEN i' = 1 /\ mpc' = "off" ELSE i' = 0 /\ mpc' = "deregister"
  /\ UNCHANGED <<ret, led_init_map, led_on, misc, Threads, holder, level>>

MiscDeregister ==
  /\ Unload("deregister") /\ misc' = FALSE
  /\ UNCHANGED <<holder, level>>

-----------------------------------------------------------------------------
InitOrExit ==
  \/ RequestPin \/ DirectionOutput \/ MiscRegister \/ Cleanup \/ Spawn
  \/ SpawnFails \/ Off \/ FreePin \/ StopThread \/ JoinThread \/ MiscDeregister

Run(k) == AnnounceSleep(k) \/ CheckStop(k) \/ Toggle(k) \/ Schedule(k)

Next == \/ Insmod \/ Rmmod \/ InitOrExit
        \/ \E k \in Leds : Run(k) \/ Timeout(k)

(* insmod and rmmod go on and a thread that can run does.  Nothing is      *)
(* assumed of the timeout: mth_periods may be as long as the user likes.   *)
allvars  == <<mvars, holder, level>>
Fairness == WF_allvars(InitOrExit) /\ \A k \in Leds : WF_allvars(Run(k))

TypeOK ==
  /\ mpc \in {"out", "live", "broken"} \cup InitSteps \cup ExitSteps
  /\ i \in Leds /\ ret \in BOOLEAN /\ led_init_map \in SUBSET Leds
  /\ led_on \in [Leds -> {0, 1}] /\ misc \in BOOLEAN
  /\ thread \in [Leds -> ThreadSteps]
  /\ ready \in [Leds -> BOOLEAN] /\ stop \in [Leds -> BOOLEAN]
=============================================================================
