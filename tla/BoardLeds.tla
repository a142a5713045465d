----------------------------- MODULE BoardLeds ------------------------------
(***************************************************************************)
(* The two LED drivers loaded on one board.  They want the same pins and   *)
(* know nothing of each other.                                             *)
(***************************************************************************)
EXTENDS Naturals, FiniteSets, Gpio

CONSTANTS
  Procs,     (* processes that read the LED device                         *)
  Scenes     (* which modules are loaded and which processes read, in a    *)
             (* behaviour: sets of names                                   *)

ASSUME SceneAssumption == Scenes \subseteq SUBSET ({"bbb", "mth"} \cup Procs)

VARIABLES
  scene,
  bpc, pin, mode_id, bled_on, timer, bmisc, read_complete, user,
  mpc, i, ret, led_init_map, mled_on, mmisc, thread, ready, stop

Bbb == INSTANCE BbbLed WITH led_on <- bled_on, misc <- bmisc
Mth == INSTANCE MthreadLed WITH led_on <- mled_on, misc <- mmisc

bbbvars == <<bpc, pin, mode_id, bled_on, timer, bmisc, read_complete,
             user>>
mthvars == <<mpc, i, ret, led_init_map, mled_on, mmisc, thread, ready, stop>>
vars    == <<scene, holder, level, bbbvars, mthvars>>

Init == scene \in Scenes /\ GpioInit /\ Bbb!Init /\ Mth!Init

(* What is not in the scene does not begin.                                *)
Present ==
  /\ (bpc = "out" /\ bpc' # "out") => "bbb" \in scene
  /\ (mpc = "out" /\ mpc' # "out") => "mth" \in scene
  /\ \A q \in Procs : user[q] = "closed" /\ user'[q] # "closed" => q \in scene

Next == /\ \/ Bbb!Next /\ UNCHANGED mthvars
           \/ Mth!Next /\ UNCHANGED bbbvars
        /\ Present /\ UNCHANGED scene

Spec == Init /\ [][Next]_vars

-----------------------------------------------------------------------------
(* Every variable has its type.                                            *)
TypeOK == scene \in Scenes /\ GpioTypeOK /\ Bbb!TypeOK /\ Mth!TypeOK

(* A module that is not loaded left nothing behind that would run its code:*)
(* no timer, no device, no thread; and the timer is armed by its module    *)
(* only after it was initialised.  (mthread_demo_mod breaks this when a    *)
(* thread cannot be created; that state is "broken", not "out".)           *)
NothingDangles ==
  /\ timer => bpc \in {"live", "off", "free", "deltimer"}
  /\ bmisc => bpc \notin {"out", "request", "direction", "register"}
  /\ mpc = "out" =>
       ~mmisc /\ \A k \in Mth!Leds : thread[k] = "none"

(* mthread_demo_mod gives back every pin it took, also when its insertion  *)
(* fails half way and whatever the other driver holds or frees.            *)
PinsReturned ==
  mpc = "out" => \A p \in Pins : holder[p] # "mth"

(* In flashing mode the LED goes on and off for ever, through any mixture  *)
(* of mode changes, ioctls and the other driver.                           *)
Flashes ==
  <>[](bpc = "live" /\ mode_id = "flashing") =>
    []<><<level'[pin] # level[pin]>>_vars

(* A reader of /dev/bbb_leds gets its end of file once it is the only one: *)
(* it shares read_complete with the others, and none is left reading for   *)
(* ever because of what they left behind.                                  *)
ReadEnds == []<>(Cardinality({q \in Procs : user[q] # "closed"}) # 1)

(* bbb_led_mod.c line 239 and mthread_demo_mod.c line 188, "usr LED off":  *)
(* after the modules are unloaded no LED they used is lit.                 *)
LedsOff == bpc = "out" /\ mpc = "out" => \A p \in Pins : level[p] = 0
=============================================================================
