----------------------------- MODULE GpioEffects ----------------------------
(***************************************************************************)
(* What each callback of the rk3xgpio driver does to the pins it names: a  *)
(* sequence of effects, shared by the promise (GpioPins) and the bank      *)
(* (GpioBank).                                                             *)
(***************************************************************************)
EXTENDS Sequences

\* The class extension's thread and its interrupt context.
Contexts == {"thread", "isr"}
Trigger == [edge : BOOLEAN, rising : BOOLEAN]    \* or level; low or falling otherwise
NoTrigger == [edge |-> FALSE, rising |-> FALSE]

\* An effect: what is done, to which pins, which pins are raised (the others
\* are lowered) and the trigger that is set.
Effect(what, pins, raised, t) ==
  [what |-> what, pins |-> pins, raised |-> raised, trigger |-> t]

\* The effects of a callback on pins S.
EffectsOf(op, S, raised, t) ==
  CASE op = "connect input"  -> << Effect("release", S, raised, t) >>
    [] op = "connect output" -> << Effect("drive", S, raised, t) >>
    [] op = "disconnect"     -> << Effect("write", S, {}, t), Effect("drive", S, raised, t) >>
    [] op = "write"          -> << Effect("write", S, raised, t) >>
    [] op = "enable"         -> << Effect("prepare", S, raised, t), Effect("arm", S, raised, t) >>
    [] op \in {"disable", "mask"} -> << Effect("disarm", S, raised, t) >>
    [] op = "unmask"         -> << Effect("arm", S, raised, t) >>
    [] op = "reconfigure"    -> << Effect("release", S, raised, t), Effect("set trigger", S, raised, t) >>
    [] OTHER -> << >>
=============================================================================
