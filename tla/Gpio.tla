-------------------------------- MODULE Gpio --------------------------------
(***************************************************************************)
(* The pins of the user LEDs as the kernel's GPIO library offers them to   *)
(* the two LED drivers.  Only gpio_request looks at who holds a pin: a     *)
(* value can be set on, and gpio_free takes, a pin of somebody else.       *)
(***************************************************************************)
VARIABLES
  holder,    (* holder[p]: who requested pin p                             *)
  level      (* level[p]: 1 if the LED at pin p is on                      *)

Pins    == {53, 54}          (* USR0, USR1                                 *)
Holders == {"none", "kernel", "bbb", "mth"}

(* A device tree may give LEDs to the kernel's own LED driver.             *)
GpioInit == /\ holder \in [Pins -> {"none", "kernel"}]
            /\ level = [p \in Pins |-> 0]
GpioTypeOK == holder \in [Pins -> Holders] /\ level \in [Pins -> {0, 1}]

IsFree(p)       == holder[p] = "none"
Request(p, who) == holder' = [holder EXCEPT ![p] = who]
Release(p)      == holder' = [holder EXCEPT ![p] = "none"]
SetValue(p, v)  == level' = [level EXCEPT ![p] = v]
=============================================================================
