------------------------------ MODULE GpioBank -------------------------------
(***************************************************************************)
(* A bank of the rk3xgpio driver (gpio/rk3xgpio/rk3xgpio.c).               *)
(*                                                                         *)
(* Every callback reads, changes and writes back registers that hold a bit *)
(* for each pin.  The GPIO class extension calls back from its thread, one *)
(* call at a time, and from its interrupt context with the interrupt lock  *)
(* held; EnableInterrupt and DisableInterrupt take that lock, the I/O      *)
(* callbacks do not.  A register is the set of the pins whose bit is 1.    *)
(*                                                                         *)
(* Assumed of the class extension: a pin is used for I/O or for interrupts *)
(* at one time; a reconfiguration keeps the mode and turns the polarity    *)
(* (the emulation of ActiveBoth); no callback runs while the controller is *)
(* stopped and started.                                                    *)
(***************************************************************************)
EXTENDS GpioEffects

CONSTANT Pins

VARIABLES
  dr, ddr,       \* PortDR, PortDDR
  intMask, intType, intPol, intEn,  \* IntMask, IntType, IntPolarity, IntEn
  latched,       \* IntRawStatus of the pins that trigger on an edge
  level,         \* the lines
  saved,         \* SavedContext
  power,         \* "on", "off", or what StartController does next
  ctx,           \* the call of each context
  user,          \* what the class extension uses a pin for
  heard,         \* history: pins with an edge as configured, not yet cleared
  glitch         \* history: pins with a bit latched under another configuration

regs == <<dr, ddr, intMask, intType, intPol, intEn>>
history == <<heard, glitch>>
vars == <<regs, latched, level, saved, power, ctx, user, history>>

\* A call: the pins, those to raise, the trigger, what is done next, and the
\* value read from PortDDR.
Steps == {"none", "read", "write", "lower", "level", "prepare", "clear", "arm", "disarm",
          "trigger"}
ThreadOps == {"connect input", "connect output", "disconnect", "write", "enable", "disable"}
IsrOps == {"mask", "unmask", "reconfigure", "clear"}
Ops == {"idle"} \cup ThreadOps \cup IsrOps
CallRecord == [op : Ops, pins : SUBSET Pins, raised : SUBSET Pins, trigger : Trigger,
               at : Steps, ddr : SUBSET Pins]

Idle == [op |-> "idle", pins |-> {}, raised |-> {}, trigger |-> NoTrigger, at |-> "none",
         ddr |-> {}]

\* After StartController without a context to restore.
Init ==
  /\ dr = {} /\ ddr = {} /\ intType = {} /\ intPol = {}
  /\ intMask = Pins /\ intEn = Pins
  /\ latched = {} /\ level = {}
  /\ saved = [dr |-> {}, ddr |-> {}, intMask |-> Pins, intType |-> {}, intPol |-> {}]
  /\ power = "on"
  /\ ctx = [k \in Contexts |-> Idle]
  /\ user = [p \in Pins |-> "none"]
  /\ heard = {} /\ glitch = {}

-----------------------------------------------------------------------------
(* Bits.                                                                   *)

With(reg, S, on) == IF on THEN reg \cup S ELSE reg \ S

\* Level clears the bit of the mode register, active high sets the bit of
\* the polarity register.
SetTrigger(S, t) ==
  /\ intType' = With(intType, S, t.edge)
  /\ intPol' = With(intPol, S, t.rising)

\* Writing PortEOI.
EndOfInterrupt(S) == latched' = latched \ S /\ heard' = heard \ S /\ glitch' = glitch \ S

\* IntStatus, as QueryActiveInterrupts returns it.
QueryActiveInterrupts ==
  {p \in intEn \ intMask : IF p \in intType THEN p \in latched ELSE p \in level <=> p \in intPol}

\* QueryEnabledInterrupts: "the true state of the hardware".
QueryEnabledInterrupts == Pins \ intMask

-----------------------------------------------------------------------------
(* The steps of a call.                                                    *)

Goto(k, step) == ctx' = [ctx EXCEPT ![k].at = step]
Return(k) == ctx' = [ctx EXCEPT ![k] = Idle]

At(k, ops, step) == ctx[k].op \in ops /\ ctx[k].at = step

\* The class extension begins a call.
Begin(k, op, S, raised, t, step) ==
  /\ power = "on" /\ ctx[k] = Idle
  /\ ctx' = [ctx EXCEPT ![k] = [op |-> op, pins |-> S, raised |-> raised, trigger |-> t,
                                at |-> step, ddr |-> {}]]
  /\ UNCHANGED <<regs, latched, level, saved, power, user, history>>

PinsUsed(uses) == {p \in Pins : user[p] \in uses}

UserIs(S, use) == user' = [p \in Pins |-> IF p \in S THEN use ELSE user[p]]

\* EnableInterrupt holds the interrupt lock.
Locked == ctx["thread"].op = "enable" /\ ctx["thread"].at \in {"clear", "arm"}

-----------------------------------------------------------------------------
(* RockchipGpioConnectIoPins and DisconnectIoPins.                         *)

ConnectIoPins(S, isOutput) ==
  /\ S \subseteq PinsUsed({"none"})
  /\ Begin("thread", IF isOutput THEN "connect output" ELSE "connect input", S, {},
           NoTrigger, "read")

\* "The pin configuration should be preserved": DisconnectIoPins returns.
DisconnectPreserving ==
  /\ power = "on" /\ ctx["thread"] = Idle
  /\ \E S \in SUBSET PinsUsed({"in", "out"}) : S # {} /\ UserIs(S, "none")
  /\ UNCHANGED <<regs, latched, level, saved, power, ctx, history>>

DisconnectIoPins(S) ==
  /\ S \subseteq PinsUsed({"in", "out"})
  /\ Begin("thread", "disconnect", S, {}, NoTrigger, "read")

AfterRead_Lower(op) == "lower"    \* slip: a connected pin is lowered as well
AfterRead(op) == IF op = "disconnect" THEN "lower" ELSE "write"

IoRead ==
  /\ ctx["thread"].at = "read"
  /\ ctx' = [ctx EXCEPT !["thread"].ddr = ddr, !["thread"].at = AfterRead(ctx["thread"].op)]
  /\ UNCHANGED <<regs, latched, level, saved, power, user, history>>

IoLower ==
  /\ At("thread", {"disconnect"}, "lower")
  /\ dr' = dr \ ctx["thread"].pins
  /\ Goto("thread", "write")
  /\ UNCHANGED <<ddr, intMask, intType, intPol, intEn, latched, level, saved, power, user, history>>

Driven_None(read, S, op) == read    \* slip: the value read is written back
Driven(read, S, op) == With(read, S, op # "connect input")

IoWrite ==
  LET c == ctx["thread"] IN
  /\ c.at = "write"
  /\ ddr' = Driven(c.ddr, c.pins, c.op)
  /\ UserIs(c.pins, CASE c.op = "connect input" -> "in"
                      [] c.op = "connect output" -> "out"
                      [] OTHER -> "none")
  /\ Return("thread")
  /\ UNCHANGED <<dr, intMask, intType, intPol, intEn, latched, level, saved, power, history>>

(* RockchipGpioWriteGpioPins.                                              *)

WriteGpioPins(S, raised) ==
  S \subseteq PinsUsed({"out"}) /\ Begin("thread", "write", S, raised, NoTrigger, "level")

WriteLevel ==
  LET c == ctx["thread"] IN
  /\ At("thread", {"write"}, "level")
  /\ dr' = (dr \cup (c.raised \cap c.pins)) \ (c.pins \ c.raised)
  /\ Return("thread")
  /\ UNCHANGED <<ddr, intMask, intType, intPol, intEn, latched, level, saved, power, user,
                 history>>

-----------------------------------------------------------------------------
(* RockchipGpioEnableInterrupt, with the interrupt lock held from its first *)
(* register to its last, and RockchipGpioDisableInterrupt.                 *)

EnableInterrupt(p, t) ==
  user[p] = "none" /\ Begin("thread", "enable", {p}, {}, t, "prepare")

EnablePrepare ==
  LET c == ctx["thread"] IN
  /\ At("thread", {"enable"}, "prepare") /\ ctx["isr"] = Idle
  /\ ddr' = ddr \ c.pins
  /\ SetTrigger(c.pins, c.trigger)
  /\ heard' = heard \ c.pins
  /\ Goto("thread", "clear")
  /\ UNCHANGED <<dr, intMask, intEn, latched, level, saved, power, user, glitch>>

\* "Clear the corresponding status bit first to ignore any stale value."
Stale_Kept(S) == UNCHANGED <<latched, history>>    \* slip: the status bit is not cleared
Stale(S) == EndOfInterrupt(S)

EnableClear ==
  /\ At("thread", {"enable"}, "clear")
  /\ Stale(ctx["thread"].pins)
  /\ Goto("thread", "arm")
  /\ UNCHANGED <<regs, level, saved, power, user>>

EnableArm ==
  /\ At("thread", {"enable"}, "arm")
  /\ intMask' = intMask \ ctx["thread"].pins
  /\ UserIs(ctx["thread"].pins, "int")
  /\ Return("thread")
  /\ UNCHANGED <<dr, ddr, intType, intPol, intEn, latched, level, saved, power, history>>

DisableInterrupt(p) ==
  user[p] = "int" /\ Begin("thread", "disable", {p}, {}, NoTrigger, "disarm")

DisableDisarm ==
  /\ At("thread", {"disable"}, "disarm") /\ ctx["isr"] = Idle
  /\ intMask' = intMask \cup ctx["thread"].pins
  /\ UserIs(ctx["thread"].pins, "none")
  /\ Return("thread")
  /\ UNCHANGED <<dr, ddr, intType, intPol, intEn, latched, level, saved, power, history>>

-----------------------------------------------------------------------------
(* The callbacks of the interrupt context, with the interrupt lock held.   *)

BeginIsr(op, S, t, step) == ~Locked /\ Begin("isr", op, S, {}, t, step)

MaskInterrupts(S) ==
  S \subseteq (PinsUsed({"int"}) \cap QueryEnabledInterrupts) /\ BeginIsr("mask", S, NoTrigger, "disarm")

UnmaskInterrupt(p) == user[p] = "int" /\ BeginIsr("unmask", {p}, NoTrigger, "arm")

ClearActiveInterrupts(S) ==
  S \subseteq QueryActiveInterrupts /\ BeginIsr("clear", S, NoTrigger, "clear")

ReconfigureInterrupt(p) ==
  /\ user[p] = "int"
  /\ BeginIsr("reconfigure", {p}, [edge |-> p \in intType, rising |-> p \notin intPol], "clear")

IsrMask ==
  /\ At("isr", {"mask"}, "disarm")
  /\ intMask' = intMask \cup ctx["isr"].pins
  /\ Return("isr")
  /\ UNCHANGED <<dr, ddr, intType, intPol, intEn, latched, level, saved, power, user, history>>

IsrUnmask ==
  /\ At("isr", {"unmask"}, "arm")
  /\ intMask' = intMask \ ctx["isr"].pins
  /\ Return("isr")
  /\ UNCHANGED <<dr, ddr, intType, intPol, intEn, latched, level, saved, power, user, history>>

\* "Clear any stale status bits from the previous configuration", before the
\* configuration is changed.
IsrClear ==
  /\ At("isr", {"clear", "reconfigure"}, "clear")
  /\ EndOfInterrupt(ctx["isr"].pins)
  /\ IF ctx["isr"].op = "clear" THEN Return("isr") ELSE Goto("isr", "read")
  /\ UNCHANGED <<regs, level, saved, power, user>>

IsrRead ==
  /\ At("isr", {"reconfigure"}, "read")
  /\ ctx' = [ctx EXCEPT !["isr"].ddr = ddr, !["isr"].at = "write"]
  /\ UNCHANGED <<regs, latched, level, saved, power, user, history>>

IsrWrite ==
  /\ At("isr", {"reconfigure"}, "write")
  /\ ddr' = ctx["isr"].ddr \ ctx["isr"].pins
  /\ Goto("isr", "trigger")
  /\ UNCHANGED <<dr, intMask, intType, intPol, intEn, latched, level, saved, power, user, history>>

IsrTrigger ==
  LET c == ctx["isr"] IN
  /\ At("isr", {"reconfigure"}, "trigger")
  /\ SetTrigger(c.pins, c.trigger)
  /\ heard' = heard \ c.pins
  /\ glitch' = glitch \cup (c.pins \cap latched)
  /\ Return("isr")
  /\ UNCHANGED <<dr, ddr, intMask, intEn, latched, level, saved, power, user>>

-----------------------------------------------------------------------------
(* RockchipGpioStopController with SaveContext, and the controller losing  *)
(* its power; RockchipGpioStartController with RestoreContext.             *)

SaveBankHardwareContext ==
  saved' = [dr |-> dr, ddr |-> ddr, intMask |-> intMask, intType |-> intType, intPol |-> intPol]

StopController ==
  /\ power = "on" /\ \A k \in Contexts : ctx[k] = Idle
  /\ SaveBankHardwareContext
  /\ power' = "off"
  /\ dr' = {} /\ ddr' = {} /\ intMask' = {} /\ intType' = {} /\ intPol' = {} /\ intEn' = {}
  /\ latched' = {} /\ heard' = {} /\ glitch' = {}
  /\ UNCHANGED <<level, ctx, user>>

StartStep(from, to) ==
  power = from /\ power' = to /\ UNCHANGED <<level, saved, ctx, user>>

StartMask ==
  /\ StartStep("off", "eoi") /\ intMask' = Pins
  /\ UNCHANGED <<dr, ddr, intType, intPol, intEn, latched, history>>

StartClear == StartStep("eoi", "enable") /\ EndOfInterrupt(Pins) /\ UNCHANGED regs

StartEnable ==
  /\ StartStep("enable", "restore level") /\ intEn' = Pins
  /\ UNCHANGED <<dr, ddr, intMask, intType, intPol, latched, history>>

RestoreLevel ==
  /\ StartStep("restore level", "restore mode") /\ dr' = saved.dr
  /\ UNCHANGED <<ddr, intMask, intType, intPol, intEn, latched, history>>

RestoreMode ==
  /\ StartStep("restore mode", "restore polarity") /\ intType' = saved.intType
  /\ UNCHANGED <<dr, ddr, intMask, intPol, intEn, latched, history>>

RestorePolarity ==
  /\ StartStep("restore polarity", "restore direction") /\ intPol' = saved.intPol
  /\ UNCHANGED <<dr, ddr, intMask, intType, intEn, latched, history>>

RestoreDirection ==
  /\ StartStep("restore direction", "restore mask") /\ ddr' = saved.ddr
  /\ UNCHANGED <<dr, intMask, intType, intPol, intEn, latched, history>>

\* "Take care to restore the mask register only after restoring the mode and
\* polarity registers."
RestoredMask(m) == m

RestoreMask ==
  /\ StartStep("restore mask", "on") /\ intMask' = RestoredMask(saved.intMask)
  /\ UNCHANGED <<dr, ddr, intType, intPol, intEn, latched, history>>

StartController == StartMask \/ StartClear \/ StartEnable \/ RestoreLevel \/ RestoreMode
                     \/ RestorePolarity \/ RestoreDirection \/ RestoreMask

-----------------------------------------------------------------------------
(* The lines (external).  An edge that the configuration asks for is       *)
(* latched, masked or not.                                                 *)

AsConfigured(p, rising) == p \in intType /\ (rising <=> p \in intPol)

Edge(p) ==
  LET rising == p \notin level IN
  /\ level' = With(level, {p}, rising)
  /\ IF p \in intEn /\ AsConfigured(p, rising)
     THEN /\ latched' = latched \cup {p}
          /\ IF power = "on" THEN heard' = heard \cup {p} /\ UNCHANGED glitch
             ELSE glitch' = glitch \cup {p} /\ UNCHANGED heard
     ELSE UNCHANGED <<latched, history>>
  /\ UNCHANGED <<regs, saved, power, ctx, user>>

-----------------------------------------------------------------------------
Thread == \/ \E S \in SUBSET Pins, b \in BOOLEAN : S # {} /\ ConnectIoPins(S, b)
          \/ \E S \in SUBSET Pins : S # {} /\ DisconnectIoPins(S)
          \/ DisconnectPreserving \/ IoRead \/ IoLower \/ IoWrite
          \/ \E S \in SUBSET Pins : \E raised \in SUBSET S : S # {} /\ WriteGpioPins(S, raised)
          \/ WriteLevel
          \/ \E p \in Pins, t \in Trigger : EnableInterrupt(p, t)
          \/ EnablePrepare \/ EnableClear \/ EnableArm
          \/ \E p \in Pins : DisableInterrupt(p)
          \/ DisableDisarm

Isr == \/ \E S \in SUBSET Pins : S # {} /\ (MaskInterrupts(S) \/ ClearActiveInterrupts(S))
       \/ \E p \in Pins : UnmaskInterrupt(p) \/ ReconfigureInterrupt(p)
       \/ IsrMask \/ IsrUnmask \/ IsrClear \/ IsrRead \/ IsrWrite \/ IsrTrigger

Next == Thread \/ Isr \/ StopController \/ StartController \/ \E p \in Pins : Edge(p)

Spec == Init /\ [][Next]_vars

\* Both contexts are between their read of PortDDR and their write.
Overlap == ctx["thread"].at \in {"lower", "write"} /\ ctx["isr"].at = "write"

QuietSpec == Init /\ [][Next /\ ~Overlap']_vars
-----------------------------------------------------------------------------
StepsOf(op) ==
  CASE op \in {"connect input", "connect output"} -> {"read", "write"}
    [] op = "disconnect" -> {"read", "lower", "write"}
    [] op = "write" -> {"level"}
    [] op = "enable" -> {"prepare", "clear", "arm"}
    [] op \in {"disable", "mask"} -> {"disarm"}
    [] op = "unmask" -> {"arm"}
    [] op = "reconfigure" -> {"clear", "read", "write", "trigger"}
    [] op = "clear" -> {"clear"}
    [] OTHER -> {"none"}

CallsOK ==
  /\ ctx \in [Contexts -> CallRecord]
  /\ \A k \in Contexts : ctx[k].at \in StepsOf(ctx[k].op)
  /\ ctx["thread"].op \notin IsrOps /\ ctx["isr"].op \notin ThreadOps

RegsOK ==
  /\ dr \subseteq Pins /\ ddr \subseteq Pins
  /\ intMask \subseteq Pins /\ intType \subseteq Pins /\ intPol \subseteq Pins
  /\ intEn \subseteq Pins /\ latched \subseteq Pins /\ level \subseteq Pins
  /\ heard \subseteq Pins /\ glitch \subseteq Pins
  /\ saved \in [dr : SUBSET Pins, ddr : SUBSET Pins, intMask : SUBSET Pins,
                intType : SUBSET Pins, intPol : SUBSET Pins]
  /\ power \in {"on", "off", "eoi", "enable", "restore level", "restore mode",
                "restore polarity", "restore direction", "restore mask"}
  /\ user \in [Pins -> {"none", "in", "out", "int"}]

\* Every variable has its type, and the step each context is at belongs to
\* the callback it runs.
TypeOK == CallsOK /\ RegsOK

\* An edge interrupt the class extension is told of stems from an edge the
\* pin was configured for, since it was last cleared: enabling a pin and
\* restoring a bank report nothing that was latched before.  A line that
\* moves while it is reconfigured or restored is the exception.
NoSpurious == QueryActiveInterrupts \cap intType \subseteq heard \cup glitch

-----------------------------------------------------------------------------
(* The bank implements GpioPins.  While the controller is down, what it is *)
(* going to restore stands for its registers.                              *)

Kept(reg, copy) == IF power = "on" THEN reg ELSE copy

\* The effects call c still has to have.
Left(c) ==
  LET all == EffectsOf(c.op, c.pins, c.raised, c.trigger)
  IN IF \/ c.op = "disconnect" /\ c.at = "write"
        \/ c.op = "enable" /\ c.at \in {"clear", "arm"}
        \/ c.op = "reconfigure" /\ c.at = "trigger"
     THEN Tail(all) ELSE all

PinsAbs == INSTANCE GpioPins WITH
  outputs <- Kept(ddr, saved.ddr),
  high <- Kept(dr, saved.dr),
  armed <- Pins \ Kept(intMask, saved.intMask),
  trigger <- [p \in Pins |-> [edge |-> p \in Kept(intType, saved.intType),
                             rising |-> p \in Kept(intPol, saved.intPol)]],
  todo <- [k \in Contexts |-> Left(ctx[k])]

\* What the implementation rests on.  A context that is about to write PortDDR
\* has the value it holds, no call is under way when the controller is down,
\* and what has been restored is what was saved.
ReadsFresh ==
  /\ ctx["thread"].at \in {"lower", "write"} => ctx["thread"].ddr = ddr
  /\ ctx["isr"].at = "write" => ctx["isr"].ddr = ddr
  /\ ~Overlap

NoCallsWhenDown == power # "on" => \A k \in Contexts : ctx[k] = Idle

Restored ==
  /\ power \in {"restore mode", "restore polarity", "restore direction", "restore mask"}
       => dr = saved.dr
  /\ power \in {"restore polarity", "restore direction", "restore mask"}
       => intType = saved.intType
  /\ power \in {"restore direction", "restore mask"} => intPol = saved.intPol
  /\ power = "restore mask" => ddr = saved.ddr

QuietInv == TypeOK /\ ReadsFresh /\ NoCallsWhenDown /\ Restored

\* If the two contexts do not overlap on PortDDR, every callback has its
\* effect on its own pins and no other, whatever the other context and a
\* power cycle do.
ImplementsPins == PinsAbs!PinsSpec

\* "Those routines should acquire the interrupt lock prior to manipulating
\* any state accessed from within this routine" (ReconfigureInterrupt): a pin
\* that was connected for output and not touched since drives its line.
DirectionKept ==
  power = "on" /\ ctx["thread"] = Idle => PinsUsed({"out"}) \subseteq ddr
=============================================================================
