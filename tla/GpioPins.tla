------------------------------ MODULE GpioPins -------------------------------
(***************************************************************************)
(* What a bank of GPIO pins promises the GPIO class extension.             *)
(*                                                                         *)
(* A callback takes effect between its call and its return, in one or two  *)
(* steps that nothing else shows through, on the pins it names and on no   *)
(* other.  One caller is the class extension's thread, the other its       *)
(* interrupt context.  A power cycle with save and restore does not show.  *)
(***************************************************************************)
EXTENDS GpioEffects

CONSTANT Pins

VARIABLES
  outputs,   \* the pins that drive their line
  high,      \* the pins whose output latch is set
  armed,     \* the pins that may interrupt
  trigger,   \* on what: the trigger of each pin
  todo       \* for each caller, the effects its call still has to have

pinVars == <<outputs, high, armed, trigger, todo>>

Calls == [thread |-> {"connect input", "connect output", "disconnect", "write", "enable",
                      "disable"},
          isr    |-> {"mask", "unmask", "reconfigure"}]

-----------------------------------------------------------------------------
PinsInit ==
  /\ outputs = {} /\ high = {} /\ armed = {}
  /\ trigger = [p \in Pins |-> [edge |-> FALSE, rising |-> FALSE]]
  /\ todo = [k \in Contexts |-> << >>]

Call(k) ==
  /\ todo[k] = << >>
  /\ UNCHANGED <<outputs, high, armed, trigger>>
  /\ \E op \in Calls[k], S \in SUBSET Pins :
     \E raised \in (IF op = "write" THEN SUBSET S ELSE {{}}),
        t \in (IF op \in {"enable", "reconfigure"} THEN Trigger ELSE {NoTrigger}) :
       todo' = [todo EXCEPT ![k] = EffectsOf(op, S, raised, t)]

TakeEffect(k) ==
  LET e == Head(todo[k]) IN
  /\ todo[k] # << >>
  /\ todo' = [todo EXCEPT ![k] = Tail(@)]
  /\ outputs' = CASE e.what = "drive" -> outputs \cup e.pins
                  [] e.what \in {"release", "prepare"} -> outputs \ e.pins
                  [] OTHER -> outputs
  /\ high' = IF e.what = "write" THEN (high \ e.pins) \cup (e.raised \cap e.pins) ELSE high
  /\ armed' = CASE e.what = "arm" -> armed \cup e.pins
                [] e.what = "disarm" -> armed \ e.pins
                [] OTHER -> armed
  /\ trigger' = IF e.what \in {"prepare", "set trigger"}
                THEN [p \in Pins |-> IF p \in e.pins THEN e.trigger ELSE trigger[p]]
                ELSE trigger

PinsNext == \E k \in Contexts : Call(k) \/ TakeEffect(k)

PinsSpec == PinsInit /\ [][PinsNext]_pinVars
=============================================================================
