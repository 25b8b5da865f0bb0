--------------------------- MODULE GpioBankProofs ----------------------------
(***************************************************************************)
(* For any set of pins: the state of a bank has its type, the bank         *)
(* implements GpioPins as long as its two callers do not overlap on        *)
(* PortDDR, and no stale edge interrupt is reported.                       *)
(***************************************************************************)
EXTENDS GpioBank, TLAPS

-----------------------------------------------------------------------------
(* The type invariant.                                                     *)

\* A context that returns, goes on to a step of its call or reads PortDDR.
LEMMA ReturnOK ==
  ASSUME CallsOK, NEW k \in Contexts, Return(k)
  PROVE  CallsOK'
BY DEF CallsOK, Return, Idle, CallRecord, StepsOf, Contexts, Ops, IsrOps, ThreadOps,
       Steps, Trigger, NoTrigger

LEMMA GotoOK ==
  ASSUME CallsOK, NEW k \in Contexts, NEW step \in Steps, step \in StepsOf(ctx[k].op),
         Goto(k, step)
  PROVE  CallsOK'
BY DEF CallsOK, Goto, CallRecord, Contexts

LEMMA ReadOK ==
  ASSUME CallsOK, ddr \in SUBSET Pins, NEW k \in Contexts, NEW step \in Steps,
         step \in StepsOf(ctx[k].op), ctx' = [ctx EXCEPT ![k].ddr = ddr, ![k].at = step]
  PROVE  CallsOK'
BY DEF CallsOK, CallRecord, Contexts

LEMMA BeginOK ==
  ASSUME TypeOK, NEW k \in Contexts, NEW op \in Ops, NEW S \in SUBSET Pins,
         NEW raised \in SUBSET Pins, NEW t \in Trigger, NEW step \in Steps,
         step \in StepsOf(op), Begin(k, op, S, raised, t, step),
         k = "thread" => op \notin IsrOps, k = "isr" => op \notin ThreadOps
  PROVE  TypeOK'
BY DEF TypeOK, CallsOK, RegsOK, Begin, CallRecord, regs, history, Contexts

LEMMA UserOK ==
  ASSUME RegsOK, NEW S, NEW use \in {"none", "in", "out", "int"}, UserIs(S, use)
  PROVE  user' \in [Pins -> {"none", "in", "out", "int"}]
BY DEF RegsOK, UserIs

\* Every step of a call belongs to it, by what it is at.
LEMMA ThreadStepsTyped ==
  ASSUME TypeOK,
         \/ IoRead \/ IoLower \/ IoWrite \/ WriteLevel \/ EnablePrepare \/ EnableClear
         \/ EnableArm \/ DisableDisarm
  PROVE  TypeOK'
<1> DEFINE c == ctx["thread"]
<1>1. CallsOK /\ RegsOK /\ "thread" \in Contexts
  BY DEF TypeOK, Contexts
<1>2. /\ c.pins \in SUBSET Pins /\ c.raised \in SUBSET Pins /\ c.ddr \in SUBSET Pins
      /\ c.trigger \in Trigger /\ c.op \in Ops /\ c.at \in StepsOf(c.op) /\ c.op \notin IsrOps
  BY <1>1 DEF CallsOK, CallRecord
<1>3. CASE IoRead
  <2>1. AfterRead(c.op) \in StepsOf(c.op) \cap Steps
    BY <1>2, <1>3 DEF IoRead, AfterRead, StepsOf, Steps, Ops, IsrOps, ThreadOps
  <2>2. CallsOK'
    BY <1>1, <1>3, <2>1, ReadOK DEF IoRead, RegsOK
  <2>3. RegsOK'
    BY <1>1, <1>3 DEF IoRead, RegsOK, regs, history
  <2> QED BY <2>2, <2>3 DEF TypeOK
<1>4. CASE IoLower
  <2>1. CallsOK'
    BY <1>1, <1>4, GotoOK DEF IoLower, At, StepsOf, Steps
  <2>2. RegsOK'
    BY <1>1, <1>4 DEF IoLower, RegsOK, history
  <2> QED BY <2>1, <2>2 DEF TypeOK
<1>5. CASE IoWrite
  <2>1. CallsOK'
    BY <1>1, <1>5, ReturnOK DEF IoWrite
  <2>2. RegsOK'
    BY <1>1, <1>2, <1>5, UserOK DEF IoWrite, RegsOK, history, Driven, With
  <2> QED BY <2>1, <2>2 DEF TypeOK
<1>6. CASE WriteLevel
  BY <1>1, <1>2, <1>6, ReturnOK DEF TypeOK, WriteLevel, RegsOK, history
<1>7. CASE EnablePrepare
  <2>1. CallsOK'
    BY <1>1, <1>7, GotoOK DEF EnablePrepare, At, StepsOf, Steps
  <2>2. RegsOK'
    BY <1>1, <1>2, <1>7 DEF EnablePrepare, RegsOK, SetTrigger, With
  <2> QED BY <2>1, <2>2 DEF TypeOK
<1>8. CASE EnableClear
  <2>1. CallsOK'
    BY <1>1, <1>8, GotoOK DEF EnableClear, At, StepsOf, Steps
  <2>2. RegsOK'
    BY <1>1, <1>8 DEF EnableClear, RegsOK, Stale, EndOfInterrupt, regs
  <2> QED BY <2>1, <2>2 DEF TypeOK
<1>9. CASE EnableArm
  <2>1. CallsOK'
    BY <1>1, <1>9, ReturnOK DEF EnableArm
  <2>2. RegsOK'
    BY <1>1, <1>9, UserOK DEF EnableArm, RegsOK, history
  <2> QED BY <2>1, <2>2 DEF TypeOK
<1>10. CASE DisableDisarm
  <2>1. CallsOK'
    BY <1>1, <1>10, ReturnOK DEF DisableDisarm
  <2>2. RegsOK'
    BY <1>1, <1>2, <1>10, UserOK DEF DisableDisarm, RegsOK, history
  <2> QED BY <2>1, <2>2 DEF TypeOK
<1> QED
  BY <1>3, <1>4, <1>5, <1>6, <1>7, <1>8, <1>9, <1>10

LEMMA IsrStepsTyped ==
  ASSUME TypeOK, IsrMask \/ IsrUnmask \/ IsrClear \/ IsrRead \/ IsrWrite \/ IsrTrigger
  PROVE  TypeOK'
<1> DEFINE c == ctx["isr"]
<1>1. CallsOK /\ RegsOK /\ "isr" \in Contexts
  BY DEF TypeOK, Contexts
<1>2. /\ c.pins \in SUBSET Pins /\ c.ddr \in SUBSET Pins
      /\ c.trigger \in Trigger /\ c.op \in Ops /\ c.at \in StepsOf(c.op)
  BY <1>1 DEF CallsOK, CallRecord
<1>3. CASE IsrMask
  BY <1>1, <1>2, <1>3, ReturnOK DEF TypeOK, IsrMask, RegsOK, history
<1>4. CASE IsrUnmask
  BY <1>1, <1>2, <1>4, ReturnOK DEF TypeOK, IsrUnmask, RegsOK, history
<1>5. CASE IsrClear
  <2>1. CallsOK'
    BY <1>1, <1>5, GotoOK, ReturnOK DEF IsrClear, At, StepsOf, Steps
  <2>2. RegsOK'
    BY <1>1, <1>5 DEF IsrClear, RegsOK, EndOfInterrupt, regs
  <2> QED BY <2>1, <2>2 DEF TypeOK
<1>6. CASE IsrRead
  <2>1. CallsOK'
    BY <1>1, <1>6, ReadOK DEF IsrRead, RegsOK, At, StepsOf, Steps
  <2>2. RegsOK'
    BY <1>1, <1>6 DEF IsrRead, RegsOK, regs, history
  <2> QED BY <2>1, <2>2 DEF TypeOK
<1>7. CASE IsrWrite
  <2>1. CallsOK'
    BY <1>1, <1>7, GotoOK DEF IsrWrite, At, StepsOf, Steps
  <2>2. RegsOK'
    BY <1>1, <1>2, <1>7 DEF IsrWrite, RegsOK, history
  <2> QED BY <2>1, <2>2 DEF TypeOK
<1>8. CASE IsrTrigger
  <2>1. CallsOK'
    BY <1>1, <1>8, ReturnOK DEF IsrTrigger
  <2>2. RegsOK'
    BY <1>1, <1>2, <1>8 DEF IsrTrigger, RegsOK, SetTrigger, With
  <2> QED BY <2>1, <2>2 DEF TypeOK
<1> QED
  BY <1>3, <1>4, <1>5, <1>6, <1>7, <1>8
\* The calls, the power and the lines.
LEMMA OtherStepsTyped ==
  ASSUME TypeOK,
         \/ \E S \in SUBSET Pins, b \in BOOLEAN : S # {} /\ ConnectIoPins(S, b)
         \/ \E S \in SUBSET Pins : S # {} /\ DisconnectIoPins(S)
         \/ \E S \in SUBSET Pins : \E raised \in SUBSET S : S # {} /\ WriteGpioPins(S, raised)
         \/ \E p \in Pins, t \in Trigger : EnableInterrupt(p, t)
         \/ \E p \in Pins : DisableInterrupt(p)
         \/ \E S \in SUBSET Pins : S # {} /\ (MaskInterrupts(S) \/ ClearActiveInterrupts(S))
         \/ \E p \in Pins : UnmaskInterrupt(p) \/ ReconfigureInterrupt(p)
         \/ DisconnectPreserving \/ StopController \/ StartController \/ \E p \in Pins : Edge(p)
  PROVE  TypeOK'
<1> USE DEF Contexts
<1>1. CallsOK /\ RegsOK
  BY DEF TypeOK
<1>2. NoTrigger \in Trigger /\ {} \in SUBSET Pins
  BY DEF NoTrigger, Trigger
<1>3. ASSUME NEW S \in SUBSET Pins, NEW b \in BOOLEAN, ConnectIoPins(S, b) PROVE TypeOK'
  <2>1. CASE b
    BY <1>2, <1>3, <2>1, BeginOK DEF ConnectIoPins, Ops, ThreadOps, IsrOps, Steps, StepsOf
  <2>2. CASE ~b
    BY <1>2, <1>3, <2>2, BeginOK DEF ConnectIoPins, Ops, ThreadOps, IsrOps, Steps, StepsOf
  <2> QED BY <2>1, <2>2
<1>4. ASSUME NEW S \in SUBSET Pins, DisconnectIoPins(S) PROVE TypeOK'
  BY <1>2, <1>4, BeginOK DEF DisconnectIoPins, Ops, ThreadOps, IsrOps, Steps, StepsOf
<1>5. ASSUME NEW S \in SUBSET Pins, NEW raised \in SUBSET S, WriteGpioPins(S, raised) PROVE TypeOK'
  <2>1. raised \in SUBSET Pins
    BY <1>5
  <2> QED BY <1>2, <1>5, <2>1, BeginOK DEF WriteGpioPins, Ops, ThreadOps, IsrOps, Steps, StepsOf
<1>6. ASSUME NEW p \in Pins, NEW t \in Trigger, EnableInterrupt(p, t) PROVE TypeOK'
  <2>1. {p} \in SUBSET Pins
    OBVIOUS
  <2> QED BY <1>2, <1>6, <2>1, BeginOK DEF EnableInterrupt, Ops, ThreadOps, IsrOps, Steps, StepsOf
<1>7. ASSUME NEW p \in Pins, DisableInterrupt(p) PROVE TypeOK'
  <2>1. {p} \in SUBSET Pins
    OBVIOUS
  <2> QED BY <1>2, <1>7, <2>1, BeginOK DEF DisableInterrupt, Ops, ThreadOps, IsrOps, Steps, StepsOf
<1>8. ASSUME NEW S \in SUBSET Pins, MaskInterrupts(S) PROVE TypeOK'
  BY <1>2, <1>8, BeginOK DEF MaskInterrupts, BeginIsr, Ops, ThreadOps, IsrOps, Steps, StepsOf
<1>9. ASSUME NEW S \in SUBSET Pins, ClearActiveInterrupts(S) PROVE TypeOK'
  BY <1>2, <1>9, BeginOK DEF ClearActiveInterrupts, BeginIsr, Ops, ThreadOps, IsrOps, Steps, StepsOf
<1>10. ASSUME NEW p \in Pins, UnmaskInterrupt(p) PROVE TypeOK'
  <2>1. {p} \in SUBSET Pins
    OBVIOUS
  <2> QED BY <1>2, <1>10, <2>1, BeginOK DEF UnmaskInterrupt, BeginIsr, Ops, ThreadOps, IsrOps, Steps, StepsOf
<1>11. ASSUME NEW p \in Pins, ReconfigureInterrupt(p) PROVE TypeOK'
  <2>1. /\ {p} \in SUBSET Pins
        /\ [edge |-> p \in intType, rising |-> p \notin intPol] \in Trigger
    BY DEF Trigger
  <2> QED BY <1>2, <1>11, <2>1, BeginOK DEF ReconfigureInterrupt, BeginIsr, Ops, ThreadOps, IsrOps, Steps, StepsOf
<1>12. CASE DisconnectPreserving
  BY <1>1, <1>12 DEF DisconnectPreserving, UserIs, TypeOK, CallsOK, RegsOK, PinsUsed, regs, history
<1>13. CASE StopController
  BY <1>1, <1>13 DEF StopController, SaveBankHardwareContext, TypeOK, CallsOK, RegsOK
<1>14. CASE StartController
  BY <1>1, <1>14 DEF StartController, StartMask, StartClear, StartEnable, RestoreLevel, RestoreMode,
       RestorePolarity, RestoreDirection, RestoreMask, StartStep, EndOfInterrupt, RestoredMask,
       TypeOK, CallsOK, RegsOK, regs, history
<1>15. ASSUME NEW p \in Pins, Edge(p) PROVE TypeOK'
  <2>1. level' \subseteq Pins
    BY <1>1, <1>15 DEF Edge, With, RegsOK
  <2>2. latched' \subseteq Pins /\ heard' \subseteq Pins /\ glitch' \subseteq Pins
    BY <1>1, <1>15 DEF Edge, RegsOK, history
  <2>3. UNCHANGED <<regs, saved, power, ctx, user>>
    BY <1>15 DEF Edge
  <2> QED BY <1>1, <2>1, <2>2, <2>3 DEF TypeOK, CallsOK, RegsOK, regs
<1> QED
  BY <1>3, <1>4, <1>5, <1>6, <1>7, <1>8, <1>9, <1>10, <1>11, <1>12, <1>13, <1>14, <1>15

LEMMA InitTyped ==
  ASSUME Init
  PROVE  TypeOK
BY DEF Init, TypeOK, CallsOK, RegsOK, Idle, CallRecord, StepsOf, Contexts, Ops, IsrOps,
       ThreadOps, Steps, Trigger, NoTrigger

LEMMA StepsTyped ==
  ASSUME TypeOK, [Next]_vars
  PROVE  TypeOK'
<1>1. CASE Next
  BY <1>1, ThreadStepsTyped, IsrStepsTyped, OtherStepsTyped DEF Next, Thread, Isr
<1>2. CASE UNCHANGED vars
  BY <1>2 DEF vars, regs, history, TypeOK, CallsOK, RegsOK
<1> QED BY <1>1, <1>2

\* Whatever the two contexts of the class extension and the power do, the
\* state of a bank has its type.
THEOREM TypeCorrect == Spec => []TypeOK
<1>1. Init => TypeOK
  BY InitTyped
<1>2. TypeOK /\ [Next]_vars => TypeOK'
  BY StepsTyped
<1> QED BY <1>1, <1>2, PTL DEF Spec
-----------------------------------------------------------------------------
(* The invariant of a bank whose contexts do not overlap on PortDDR.       *)

LEMMA QuietInitially ==
  ASSUME Init
  PROVE  QuietInv
BY InitTyped DEF Init, QuietInv, ReadsFresh, NoCallsWhenDown, Restored, Overlap, Idle, Contexts

LEMMA Begins ==
  ASSUME QuietInv, NEW k \in Contexts, NEW op, NEW S, NEW raised, NEW t,
         NEW step \in Steps \ {"lower", "write"}, Begin(k, op, S, raised, t, step), TypeOK'
  PROVE  QuietInv'
<1>1. \A j \in Contexts : ctx'[j] = ctx[j] \/ ctx'[j].at = step
  BY DEF QuietInv, Begin, TypeOK, CallsOK, Contexts
<1>2. UNCHANGED <<regs, saved, power>> /\ power = "on"
  BY DEF Begin
<1>3. ReadsFresh'
  BY <1>1, <1>2 DEF QuietInv, ReadsFresh, Overlap, Contexts, regs
<1>4. NoCallsWhenDown' /\ Restored'
  BY <1>2 DEF NoCallsWhenDown, Restored
<1> QED BY <1>3, <1>4 DEF QuietInv
\* The calls of both contexts, given as in Thread and Isr.
CallBegins ==
  \/ \E S \in SUBSET Pins, b \in BOOLEAN : S # {} /\ ConnectIoPins(S, b)
  \/ \E S \in SUBSET Pins : S # {} /\ DisconnectIoPins(S)
  \/ \E S \in SUBSET Pins : \E raised \in SUBSET S : S # {} /\ WriteGpioPins(S, raised)
  \/ \E p \in Pins, t \in Trigger : EnableInterrupt(p, t)
  \/ \E p \in Pins : DisableInterrupt(p)
  \/ \E S \in SUBSET Pins : S # {} /\ (MaskInterrupts(S) \/ ClearActiveInterrupts(S))
  \/ \E p \in Pins : UnmaskInterrupt(p) \/ ReconfigureInterrupt(p)

LEMMA CallBeginsQuiet ==
  ASSUME QuietInv, CallBegins, TypeOK'
  PROVE  QuietInv'
<1> USE DEF Contexts, Steps
<1>1. \A S, b : ConnectIoPins(S, b) => QuietInv'
  BY Begins DEF ConnectIoPins
<1>2. \A S : DisconnectIoPins(S) => QuietInv'
  BY Begins DEF DisconnectIoPins
<1>3. \A S, raised : WriteGpioPins(S, raised) => QuietInv'
  BY Begins DEF WriteGpioPins
<1>4. \A p, t : EnableInterrupt(p, t) => QuietInv'
  BY Begins DEF EnableInterrupt
<1>5. \A p : DisableInterrupt(p) => QuietInv'
  BY Begins DEF DisableInterrupt
<1>6. \A S : MaskInterrupts(S) \/ ClearActiveInterrupts(S) => QuietInv'
  BY Begins DEF MaskInterrupts, ClearActiveInterrupts, BeginIsr
<1>7. \A p : UnmaskInterrupt(p) \/ ReconfigureInterrupt(p) => QuietInv'
  BY Begins DEF UnmaskInterrupt, ReconfigureInterrupt, BeginIsr
<1> QED
  BY <1>1, <1>2, <1>3, <1>4, <1>5, <1>6, <1>7 DEF CallBegins

\* A step of a call runs when the controller is up, and leaves it up.
LEMMA StepsUp ==
  ASSUME NoCallsWhenDown, NEW k \in Contexts, ctx[k] # Idle, power' = power
  PROVE  NoCallsWhenDown' /\ Restored'
BY DEF NoCallsWhenDown, Restored

LEMMA ThreadStepsQuiet ==
  ASSUME QuietInv, ~Overlap', TypeOK',
         \/ IoRead \/ IoLower \/ IoWrite \/ WriteLevel \/ EnablePrepare \/ EnableClear
         \/ EnableArm \/ DisableDisarm
  PROVE  QuietInv'
<1> USE DEF Contexts
<1>1. ctx["thread"] # Idle /\ power' = power
  <2>1. CASE IoRead \/ IoLower
    BY <2>1 DEF IoRead, IoLower, At, Idle
  <2>2. CASE IoWrite
    <3>1. ctx["thread"].at = "write" /\ power' = power
      BY <2>2 DEF IoWrite
    <3> QED BY <3>1 DEF Idle
  <2>3. CASE WriteLevel \/ EnablePrepare
    BY <2>3 DEF WriteLevel, EnablePrepare, At, Idle
  <2>4. CASE EnableClear \/ EnableArm \/ DisableDisarm
    BY <2>4 DEF EnableClear, EnableArm, DisableDisarm, At, Idle
  <2> QED BY <2>1, <2>2, <2>3, <2>4
<1>2. NoCallsWhenDown' /\ Restored'
  BY <1>1, StepsUp DEF QuietInv
<1>3. ctx \in [Contexts -> CallRecord]
  BY DEF QuietInv, TypeOK, CallsOK
<1>4. ReadsFresh'
  <2>1. CASE IoRead
    <3>1. /\ ddr' = ddr /\ ctx'["isr"] = ctx["isr"] /\ ctx'["thread"].ddr = ddr
      BY <1>3, <2>1 DEF IoRead, regs, CallRecord
    <3> QED BY <3>1 DEF QuietInv, ReadsFresh
  <2>2. CASE IoLower
    <3>1. /\ ddr' = ddr /\ ctx'["isr"] = ctx["isr"] /\ ctx'["thread"].ddr = ctx["thread"].ddr
      BY <1>3, <2>2 DEF IoLower, Goto, CallRecord
    <3> QED BY <3>1, <2>2 DEF QuietInv, ReadsFresh, IoLower, At
  <2>3. CASE IoWrite \/ EnablePrepare
    <3>1. ctx["isr"].at # "write"
      <4>1. CASE IoWrite
        BY <4>1 DEF IoWrite, QuietInv, ReadsFresh, Overlap
      <4>2. CASE EnablePrepare
        BY <4>2 DEF EnablePrepare, Idle
      <4> QED BY <2>3, <4>1, <4>2
    <3>2. ctx'["isr"] = ctx["isr"] /\ ctx'["thread"].at \notin {"lower", "write"}
      <4>1. CASE IoWrite
        BY <1>3, <4>1 DEF IoWrite, Return, Idle
      <4>2. CASE EnablePrepare
        BY <1>3, <4>2 DEF EnablePrepare, Goto, CallRecord
      <4> QED BY <2>3, <4>1, <4>2
    <3> QED BY <3>1, <3>2 DEF ReadsFresh, Overlap
  <2>4. CASE WriteLevel \/ EnableClear \/ EnableArm \/ DisableDisarm
    <3>1. /\ ddr' = ddr /\ ctx'["isr"] = ctx["isr"] /\ ctx'["thread"].at \notin {"lower", "write"}
      BY <1>3, <2>4 DEF WriteLevel, EnableClear, EnableArm, DisableDisarm, Return, Goto, Idle,
                        regs, CallRecord
    <3> QED BY <3>1 DEF QuietInv, ReadsFresh, Overlap
  <2> QED BY <2>1, <2>2, <2>3, <2>4
<1> QED
  BY <1>2, <1>4 DEF QuietInv

LEMMA IsrStepsQuiet ==
  ASSUME QuietInv, ~Overlap', TypeOK',
         IsrMask \/ IsrUnmask \/ IsrClear \/ IsrRead \/ IsrWrite \/ IsrTrigger
  PROVE  QuietInv'
<1> USE DEF Contexts
<1>1. ctx["isr"] # Idle /\ power' = power
  BY DEF IsrMask, IsrUnmask, IsrClear, IsrRead, IsrWrite, IsrTrigger, At, Idle
<1>2. NoCallsWhenDown' /\ Restored'
  BY <1>1, StepsUp DEF QuietInv
<1>3. ctx \in [Contexts -> CallRecord]
  BY DEF QuietInv, TypeOK, CallsOK
<1>4. ReadsFresh'
  <2>1. CASE IsrRead
    <3>1. /\ ddr' = ddr /\ ctx'["thread"] = ctx["thread"] /\ ctx'["isr"].ddr = ddr
      BY <1>3, <2>1 DEF IsrRead, regs, CallRecord
    <3> QED BY <3>1 DEF QuietInv, ReadsFresh
  <2>2. CASE IsrWrite
    <3>1. /\ ctx'["thread"] = ctx["thread"] /\ ctx["thread"].at \notin {"lower", "write"}
          /\ ctx'["isr"].at = "trigger"
      BY <1>3, <2>2 DEF IsrWrite, At, Goto, CallRecord, QuietInv, ReadsFresh, Overlap
    <3> QED BY <3>1 DEF ReadsFresh, Overlap
  <2>3. CASE IsrMask \/ IsrUnmask \/ IsrClear \/ IsrTrigger
    <3>1. /\ ddr' = ddr /\ ctx'["thread"] = ctx["thread"] /\ ctx'["isr"].at # "write"
      BY <1>3, <2>3 DEF IsrMask, IsrUnmask, IsrClear, IsrTrigger, Return, Goto, Idle, regs,
                        CallRecord
    <3> QED BY <3>1 DEF QuietInv, ReadsFresh, Overlap
  <2> QED BY <2>1, <2>2, <2>3
<1> QED
  BY <1>2, <1>4 DEF QuietInv

LEMMA RestQuiet ==
  ASSUME QuietInv, TypeOK',
         DisconnectPreserving \/ StopController \/ StartController \/ \E p \in Pins : Edge(p)
  PROVE  QuietInv'
<1> USE DEF Contexts
<1>1. CASE DisconnectPreserving \/ \E p \in Pins : Edge(p)
  <2>1. UNCHANGED <<regs, saved, power, ctx>>
    BY <1>1 DEF DisconnectPreserving, Edge
  <2> QED BY <2>1 DEF QuietInv, ReadsFresh, Overlap, NoCallsWhenDown, Restored, regs
<1>2. CASE StopController
  BY <1>2 DEF StopController, SaveBankHardwareContext, QuietInv, ReadsFresh, Overlap, NoCallsWhenDown, Restored, Idle
<1>3. CASE StartController
  <2>1. \A k \in Contexts : ctx[k] = Idle /\ ctx'[k] = Idle
    BY <1>3 DEF StartController, StartMask, StartClear, StartEnable, RestoreLevel, RestoreMode,
         RestorePolarity, RestoreDirection, RestoreMask, StartStep, QuietInv, NoCallsWhenDown
  <2>2. ReadsFresh' /\ NoCallsWhenDown'
    BY <2>1 DEF ReadsFresh, Overlap, NoCallsWhenDown, Idle
  <2>3. Restored'
    BY <1>3 DEF StartController, StartMask, StartClear, StartEnable, RestoreLevel, RestoreMode,
         RestorePolarity, RestoreDirection, RestoreMask, StartStep, QuietInv, Restored, regs
  <2> QED BY <2>2, <2>3 DEF QuietInv
<1> QED BY <1>1, <1>2, <1>3

LEMMA StepsQuiet ==
  ASSUME QuietInv, [Next /\ ~Overlap']_vars
  PROVE  QuietInv'
<1>1. TypeOK'
  BY StepsTyped DEF QuietInv
<1>2. CASE Next /\ ~Overlap'
  BY <1>1, <1>2, CallBeginsQuiet, ThreadStepsQuiet, IsrStepsQuiet, RestQuiet
     DEF Next, Thread, Isr, CallBegins
<1>3. CASE UNCHANGED vars
  BY <1>1, <1>3 DEF vars, regs, QuietInv, ReadsFresh, Overlap, NoCallsWhenDown, Restored
<1> QED BY <1>2, <1>3
-----------------------------------------------------------------------------
(* The bank implements GpioPins.                                           *)

LEMMA HeadTail ==
  ASSUME NEW a, NEW b
  PROVE  /\ Head(<<a>>) = a /\ Tail(<<a>>) = << >> /\ <<a>> # << >>
         /\ Head(<<a, b>>) = a /\ Tail(<<a, b>>) = <<b>> /\ <<a, b>> # << >>
OBVIOUS

\* The first of two effects is had by the step that makes the second the only
\* one left, the last by the step that returns.
LEMMA FirstEffect ==
  ASSUME NEW c, NEW d, d.op = c.op, d.pins = c.pins, d.raised = c.raised, d.trigger = c.trigger,
         NEW what, NEW raised,
         \/ c.op = "disconnect" /\ c.at = "lower" /\ d.at = "write" /\ what = "write" /\ raised = {}
         \/ c.op = "enable" /\ c.at = "prepare" /\ d.at = "clear" /\ what = "prepare" /\ raised = c.raised
         \/ c.op = "reconfigure" /\ c.at = "write" /\ d.at = "trigger" /\ what = "release" /\ raised = c.raised
  PROVE  /\ Left(c) # << >> /\ Head(Left(c)) = Effect(what, c.pins, raised, c.trigger)
         /\ Left(d) = Tail(Left(c))
<1>1. CASE c.op = "disconnect"
  <2>1. Left(c) = << Effect("write", c.pins, {}, c.trigger), Effect("drive", c.pins, c.raised, c.trigger) >>
    BY <1>1 DEF Left, EffectsOf
  <2>2. Left(d) = Tail(Left(c))
    BY <1>1 DEF Left
  <2> QED BY <1>1, <2>1, <2>2, HeadTail
<1>2. CASE c.op = "enable"
  <2>1. Left(c) = << Effect("prepare", c.pins, c.raised, c.trigger), Effect("arm", c.pins, c.raised, c.trigger) >>
    BY <1>2 DEF Left, EffectsOf
  <2>2. Left(d) = Tail(Left(c))
    BY <1>2 DEF Left
  <2> QED BY <1>2, <2>1, <2>2, HeadTail
<1>3. CASE c.op = "reconfigure"
  <2>1. Left(c) = << Effect("release", c.pins, c.raised, c.trigger), Effect("set trigger", c.pins, c.raised, c.trigger) >>
    BY <1>3 DEF Left, EffectsOf
  <2>2. Left(d) = Tail(Left(c))
    BY <1>3 DEF Left
  <2>3. what = "release" /\ raised = c.raised
    BY <1>3
  <2> DEFINE a == Effect("release", c.pins, c.raised, c.trigger)
             b == Effect("set trigger", c.pins, c.raised, c.trigger)
  <2>4. Left(c) = <<a, b>>
    BY <2>1
  <2> HIDE DEF a, b
  <2>5. Head(Left(c)) = a /\ Left(c) # << >>
    BY <2>4, HeadTail
  <2> QED BY <2>2, <2>3, <2>5 DEF a
<1> QED BY <1>1, <1>2, <1>3

LEMMA IdleLeft == Left(Idle) = << >>
BY DEF Left, EffectsOf, Idle

LEMMA LastEffect ==
  ASSUME NEW c, NEW what,
         \/ c.op = "connect input" /\ what = "release"
         \/ c.op = "connect output" /\ what = "drive"
         \/ c.op = "disconnect" /\ c.at = "write" /\ what = "drive"
         \/ c.op = "write" /\ what = "write"
         \/ c.op = "enable" /\ c.at = "arm" /\ what = "arm"
         \/ c.op \in {"disable", "mask"} /\ what = "disarm"
         \/ c.op = "unmask" /\ what = "arm"
         \/ c.op = "reconfigure" /\ c.at = "trigger" /\ what = "set trigger"
  PROVE  /\ Left(c) # << >> /\ Head(Left(c)) = Effect(what, c.pins, c.raised, c.trigger)
         /\ Left(Idle) = Tail(Left(c))
<1>1. Left(c) = << Effect(what, c.pins, c.raised, c.trigger) >>
  <2>1. CASE c.op = "disconnect"
    BY <2>1, HeadTail DEF Left, EffectsOf
  <2>2. CASE c.op = "enable"
    BY <2>2, HeadTail DEF Left, EffectsOf
  <2>3. CASE c.op = "reconfigure"
    <3>1. Left(c) = Tail(EffectsOf(c.op, c.pins, c.raised, c.trigger))
      BY <2>3 DEF Left
    <3>2. EffectsOf(c.op, c.pins, c.raised, c.trigger)
            = << Effect("release", c.pins, c.raised, c.trigger),
                 Effect("set trigger", c.pins, c.raised, c.trigger) >>
      BY <2>3 DEF EffectsOf
    <3>3. what = "set trigger"
      BY <2>3
    <3> DEFINE a == Effect("release", c.pins, c.raised, c.trigger)
               b == Effect("set trigger", c.pins, c.raised, c.trigger)
    <3>4. Left(c) = Tail(<<a, b>>)
      BY <3>1, <3>2
    <3> HIDE DEF a, b
    <3>5. Left(c) = <<b>>
      BY <3>4, HeadTail
    <3> QED BY <3>3, <3>5 DEF b
  <2>4. CASE c.op \notin {"disconnect", "enable", "reconfigure"}
    BY <2>4 DEF Left, EffectsOf
  <2> QED BY <2>1, <2>2, <2>3, <2>4
<1> QED BY <1>1, HeadTail, IdleLeft

LEMMA SameNames ==
  ASSUME NEW op, NEW S, NEW raised, NEW t
  PROVE  /\ PinsAbs!EffectsOf(op, S, raised, t) = EffectsOf(op, S, raised, t)
         /\ PinsAbs!Trigger = Trigger /\ PinsAbs!NoTrigger = NoTrigger
BY DEF PinsAbs!EffectsOf, EffectsOf, PinsAbs!Effect, Effect, PinsAbs!Trigger, Trigger,
       PinsAbs!NoTrigger, NoTrigger

\* A step that changes neither the registers nor what is left of a call does
\* not show.
LEMMA Unseen ==
  ASSUME UNCHANGED <<dr, ddr, intMask, intType, intPol, saved, power>>,
         \A k \in Contexts : Left(ctx'[k]) = Left(ctx[k])
  PROVE  UNCHANGED PinsAbs!pinVars
BY DEF PinsAbs!pinVars, Kept, Contexts

\* A call that begins has all its effects left.
LEMMA CallRefines ==
  ASSUME QuietInv, NEW k \in Contexts, NEW op \in PinsAbs!Calls[k], NEW S \in SUBSET Pins,
         NEW raised \in (IF op = "write" THEN SUBSET S ELSE {{}}),
         NEW t \in (IF op \in {"enable", "reconfigure"} THEN Trigger ELSE {NoTrigger}),
         NEW step, Begin(k, op, S, raised, t, step),
         op = "disconnect" => step # "write", op = "enable" => step = "prepare",
         op = "reconfigure" => step # "trigger"
  PROVE  PinsAbs!Call(k)
<1>1. ctx[k] = Idle /\ ctx \in [Contexts -> CallRecord] /\ ctx \in [Contexts -> CallRecord]
  BY DEF Begin, QuietInv, TypeOK, CallsOK
<1>2. Left(ctx[k]) = << >>
  BY <1>1, IdleLeft
<1>3. /\ Left(ctx'[k]) = EffectsOf(op, S, raised, t)
      /\ \A j \in Contexts : j # k => ctx'[j] = ctx[j]
  BY <1>1 DEF Begin, Left
<1>4. UNCHANGED <<dr, ddr, intMask, intType, intPol, saved, power>>
  BY DEF Begin, regs
<1>5. UNCHANGED <<Kept(ddr, saved.ddr), Kept(dr, saved.dr), Kept(intMask, saved.intMask),
                  Kept(intType, saved.intType), Kept(intPol, saved.intPol)>>
  BY <1>4 DEF Kept
<1> DEFINE todo == [j \in Contexts |-> Left(ctx[j])]
<1>6. todo' = [todo EXCEPT ![k] = EffectsOf(op, S, raised, t)]
  BY <1>3
<1>7. todo[k] = << >>
  BY <1>2
<1> HIDE DEF todo
<1>8. todo' = [todo EXCEPT ![k] = PinsAbs!EffectsOf(op, S, raised, t)]
  BY <1>6, SameNames
<1>9. /\ raised \in (IF op = "write" THEN SUBSET S ELSE {{}})
      /\ t \in (IF op \in {"enable", "reconfigure"} THEN PinsAbs!Trigger ELSE {PinsAbs!NoTrigger})
  BY SameNames
<1> QED
  BY <1>5, <1>7, <1>8, <1>9 DEF PinsAbs!Call, todo

LEMMA CallsRefine ==
  ASSUME QuietInv, CallBegins
  PROVE  (\E k \in PinsAbs!Contexts : PinsAbs!Call(k)) \/ UNCHANGED PinsAbs!pinVars
<1> DEFINE Goal == (\E k \in PinsAbs!Contexts : PinsAbs!Call(k)) \/ UNCHANGED PinsAbs!pinVars
<1>1. Contexts = PinsAbs!Contexts /\ "thread" \in Contexts /\ "isr" \in Contexts
  BY DEF Contexts, PinsAbs!Contexts
<1> SUFFICES Goal
  OBVIOUS
<1> DEFINE Called == \E k \in PinsAbs!Contexts : PinsAbs!Call(k)
<1>2. ASSUME NEW S \in SUBSET Pins, NEW b \in BOOLEAN, ConnectIoPins(S, b)  PROVE Called
  <2>1. CASE b
    <3>1. "connect output" \in PinsAbs!Calls["thread"] /\ {} \in {{}} /\ NoTrigger \in {NoTrigger}
      BY DEF PinsAbs!Calls
    <3>2. Begin("thread", "connect output", S, {}, NoTrigger, "read")
      BY <1>2, <2>1 DEF ConnectIoPins
    <3> QED BY <1>1, <3>1, <3>2, CallRefines
  <2>2. CASE ~b
    <3>1. "connect input" \in PinsAbs!Calls["thread"] /\ {} \in {{}} /\ NoTrigger \in {NoTrigger}
      BY DEF PinsAbs!Calls
    <3>2. Begin("thread", "connect input", S, {}, NoTrigger, "read")
      BY <1>2, <2>2 DEF ConnectIoPins
    <3> QED BY <1>1, <3>1, <3>2, CallRefines
  <2> QED BY <2>1, <2>2
<1>3. ASSUME NEW S \in SUBSET Pins, DisconnectIoPins(S) PROVE Called
  BY <1>1, <1>3, CallRefines DEF DisconnectIoPins, PinsAbs!Calls
<1>4. ASSUME NEW S \in SUBSET Pins, NEW raised \in SUBSET S, WriteGpioPins(S, raised) PROVE Called
  BY <1>1, <1>4, CallRefines DEF WriteGpioPins, PinsAbs!Calls
<1>5. ASSUME NEW p \in Pins, NEW t \in Trigger, EnableInterrupt(p, t) PROVE Called
  BY <1>1, <1>5, CallRefines DEF EnableInterrupt, PinsAbs!Calls
<1>6. ASSUME NEW p \in Pins, DisableInterrupt(p) PROVE Called
  BY <1>1, <1>6, CallRefines DEF DisableInterrupt, PinsAbs!Calls
<1>7. ASSUME NEW S \in SUBSET Pins, MaskInterrupts(S) PROVE Called
  BY <1>1, <1>7, CallRefines DEF MaskInterrupts, BeginIsr, PinsAbs!Calls
<1>8. ASSUME NEW p \in Pins, UnmaskInterrupt(p) PROVE Called
  BY <1>1, <1>8, CallRefines DEF UnmaskInterrupt, BeginIsr, PinsAbs!Calls
<1>9. ASSUME NEW p \in Pins, ReconfigureInterrupt(p) PROVE Called
  <2>0. [edge |-> p \in intType, rising |-> p \notin intPol] \in Trigger
    BY DEF Trigger
  <2>1. PICK t \in Trigger : t = [edge |-> p \in intType, rising |-> p \notin intPol]
    BY <2>0
  <2>2. Begin("isr", "reconfigure", {p}, {}, t, "clear")
    BY <1>9, <2>1 DEF ReconfigureInterrupt, BeginIsr
  <2> QED BY <1>1, <2>2, CallRefines DEF PinsAbs!Calls
\* A call that clears interrupts has no effect on the pins.
<1>10. ASSUME NEW S \in SUBSET Pins, ClearActiveInterrupts(S) PROVE UNCHANGED PinsAbs!pinVars
  <2>1. Begin("isr", "clear", S, {}, NoTrigger, "clear")
    BY <1>10 DEF ClearActiveInterrupts, BeginIsr
  <2>2. ctx \in [Contexts -> CallRecord]
    BY DEF QuietInv, TypeOK, CallsOK
  <2>3. /\ UNCHANGED <<dr, ddr, intMask, intType, intPol, saved, power>>
        /\ ctx["isr"] = Idle /\ ctx'["thread"] = ctx["thread"] /\ ctx'["isr"].op = "clear"
    BY <2>1, <2>2 DEF Begin, regs, Contexts
  <2>4. Left(ctx'["isr"]) = Left(ctx["isr"])
    BY <2>3, IdleLeft DEF Left, EffectsOf
  <2> QED BY <2>3, <2>4, Unseen DEF Contexts
<1> QED
  BY <1>2, <1>3, <1>4, <1>5, <1>6, <1>7, <1>8, <1>9, <1>10 DEF CallBegins

\* SetTrigger gives the pins in S the trigger t, and no other pin another.
TriggerOf(types, pols) == [p \in Pins |-> [edge |-> p \in types, rising |-> p \in pols]]

LEMMA TriggerSet ==
  ASSUME NEW S, NEW t \in Trigger, SetTrigger(S, t)
  PROVE  TriggerOf(intType', intPol')
           = [p \in Pins |-> IF p \in S THEN t ELSE TriggerOf(intType, intPol)[p]]
<1>1. t = [edge |-> t.edge, rising |-> t.rising] /\ t.edge \in BOOLEAN /\ t.rising \in BOOLEAN
  BY DEF Trigger
<1>2. ASSUME NEW p, p \in S
      PROVE  [edge |-> p \in intType', rising |-> p \in intPol'] = t
  <2>1. (p \in intType') = t.edge /\ (p \in intPol') = t.rising
    BY <1>1, <1>2 DEF With, SetTrigger
  <2> QED BY <1>1, <2>1
<1>3. ASSUME NEW p, p \notin S
      PROVE  (p \in intType') = (p \in intType) /\ (p \in intPol') = (p \in intPol)
  BY <1>3 DEF With, SetTrigger
<1> QED BY <1>2, <1>3 DEF TriggerOf

\* A step that does the first thing left of its call, and nothing else that
\* shows, is an effect of the call.
LEMMA EffectRefines ==
  ASSUME NEW k \in Contexts, NEW e, power = "on", power' = "on", ctx \in [Contexts -> CallRecord],
         Left(ctx[k]) # << >>, Head(Left(ctx[k])) = e,
         Left(ctx'[k]) = Tail(Left(ctx[k])),
         \A j \in Contexts : j # k => ctx'[j] = ctx[j],
         ddr' = (CASE e.what = "drive" -> ddr \cup e.pins
                   [] e.what \in {"release", "prepare"} -> ddr \ e.pins
                   [] OTHER -> ddr),
         dr' = (IF e.what = "write" THEN (dr \ e.pins) \cup (e.raised \cap e.pins) ELSE dr),
         Pins \ intMask' = (CASE e.what = "arm" -> (Pins \ intMask) \cup e.pins
                              [] e.what = "disarm" -> (Pins \ intMask) \ e.pins
                              [] OTHER -> Pins \ intMask),
         TriggerOf(intType', intPol')
           = (IF e.what \in {"prepare", "set trigger"}
              THEN [p \in Pins |-> IF p \in e.pins THEN e.trigger ELSE TriggerOf(intType, intPol)[p]]
              ELSE TriggerOf(intType, intPol))
  PROVE  PinsAbs!TakeEffect(k)
<1> DEFINE todo == [j \in Contexts |-> Left(ctx[j])]
<1>1. todo[k] # << >> /\ Head(todo[k]) = e /\ todo' = [todo EXCEPT ![k] = Tail(@)]
  OBVIOUS
<1>2. /\ Kept(ddr, saved.ddr) = ddr /\ Kept(ddr, saved.ddr)' = ddr'
      /\ Kept(dr, saved.dr) = dr /\ Kept(dr, saved.dr)' = dr'
      /\ Kept(intMask, saved.intMask) = intMask /\ Kept(intMask, saved.intMask)' = intMask'
      /\ Kept(intType, saved.intType) = intType /\ Kept(intType, saved.intType)' = intType'
      /\ Kept(intPol, saved.intPol) = intPol /\ Kept(intPol, saved.intPol)' = intPol'
  BY DEF Kept
<1> HIDE DEF todo
<1> QED
  BY <1>1, <1>2 DEF PinsAbs!TakeEffect, todo, TriggerOf

Shows == (\E k \in PinsAbs!Contexts : PinsAbs!TakeEffect(k)) \/ UNCHANGED PinsAbs!pinVars

LEMMA ThreadRefines ==
  ASSUME QuietInv,
         \/ IoRead \/ IoLower \/ IoWrite \/ WriteLevel \/ EnablePrepare \/ EnableClear
         \/ EnableArm \/ DisableDisarm
  PROVE  Shows
<1> DEFINE c == ctx["thread"]
           d == ctx'["thread"]
           E(what, raised) == Effect(what, c.pins, raised, c.trigger)
<1>1. /\ ctx \in [Contexts -> CallRecord] /\ c \in CallRecord
      /\ Contexts = PinsAbs!Contexts /\ "thread" \in Contexts /\ "isr" \in Contexts
      /\ c.at \in StepsOf(c.op) /\ c.op \in Ops \ IsrOps
  BY DEF QuietInv, TypeOK, CallsOK, Contexts, PinsAbs!Contexts, CallRecord
<1>2. /\ dr \in SUBSET Pins /\ ddr \in SUBSET Pins /\ intMask \in SUBSET Pins
      /\ c.pins \in SUBSET Pins /\ c.raised \in SUBSET Pins /\ c.trigger \in Trigger
  BY <1>1 DEF QuietInv, TypeOK, RegsOK, CallRecord
<1>3. c.at # "none" => power = "on"
  BY <1>1 DEF QuietInv, NoCallsWhenDown, Idle
<1>4. CASE IoRead
  <2>1. /\ UNCHANGED <<dr, ddr, intMask, intType, intPol, saved, power>>
        /\ ctx'["isr"] = ctx["isr"] /\ c.at = "read" /\ d.op = c.op
        /\ d.pins = c.pins /\ d.raised = c.raised /\ d.trigger = c.trigger /\ d.at = AfterRead(c.op)
    BY <1>1, <1>4 DEF IoRead, regs, CallRecord
  <2>2. c.op \in {"connect input", "connect output", "disconnect"}
    BY <1>1, <2>1 DEF StepsOf, Ops, ThreadOps, IsrOps
  <2>3. Left(d) = Left(c)
    BY <2>1, <2>2 DEF Left, AfterRead
  <2> QED BY <2>1, <2>3, Unseen DEF Contexts, Shows
<1>5. CASE EnableClear
  <2>1. /\ UNCHANGED <<dr, ddr, intMask, intType, intPol, saved, power>>
        /\ ctx'["isr"] = ctx["isr"] /\ c.at = "clear" /\ c.op = "enable" /\ d.op = c.op
        /\ d.pins = c.pins /\ d.raised = c.raised /\ d.trigger = c.trigger /\ d.at = "arm"
    BY <1>1, <1>5 DEF EnableClear, regs, CallRecord, Goto, At
  <2>2. Left(d) = Left(c)
    BY <2>1 DEF Left
  <2> QED BY <2>1, <2>2, Unseen DEF Contexts, Shows
<1>6. CASE IoLower
  <2>1. /\ c.op = "disconnect" /\ c.at = "lower" /\ ctx'["isr"] = ctx["isr"]
        /\ d.op = c.op /\ d.at = "write" /\ d.pins = c.pins /\ d.raised = c.raised
        /\ d.trigger = c.trigger /\ dr' = dr \ c.pins
        /\ UNCHANGED <<ddr, intMask, intType, intPol, power>>
    BY <1>1, <1>6 DEF IoLower, Goto, At, CallRecord
  <2>2. Left(c) # << >> /\ Head(Left(c)) = E("write", {}) /\ Left(d) = Tail(Left(c))
    BY <2>1, FirstEffect
  <2>3. E("write", {}).what = "write" /\ E("write", {}).pins = c.pins /\ E("write", {}).raised = {}
    BY DEF Effect
  <2>4. PinsAbs!TakeEffect("thread")
    BY <1>1, <1>3, <2>1, <2>2, <2>3, EffectRefines DEF Contexts
  <2> QED BY <1>1, <2>4 DEF Shows
<1>7. CASE IoWrite
  <2>1. /\ c.at = "write" /\ ctx'["isr"] = ctx["isr"] /\ d = Idle
        /\ ddr' = Driven(c.ddr, c.pins, c.op) /\ c.ddr = ddr
        /\ UNCHANGED <<dr, intMask, intType, intPol, power>>
    BY <1>1, <1>7 DEF IoWrite, Return, QuietInv, ReadsFresh
  <2>2. c.op \in {"connect input", "connect output", "disconnect"}
    BY <1>1, <2>1 DEF StepsOf, Ops, ThreadOps, IsrOps
  <2>3. PICK what \in {"release", "drive"} : what = "release" <=> c.op = "connect input"
    OBVIOUS
  <2>4. Left(c) # << >> /\ Head(Left(c)) = E(what, c.raised) /\ Left(d) = Tail(Left(c))
    BY <2>1, <2>2, <2>3, LastEffect
  <2>5. E(what, c.raised).what = what /\ E(what, c.raised).pins = c.pins
    BY DEF Effect
  <2>6. ddr' = IF what = "release" THEN ddr \ c.pins ELSE ddr \cup c.pins
    BY <2>1, <2>2, <2>3 DEF Driven, With
  <2>7. PinsAbs!TakeEffect("thread")
    BY <1>1, <1>3, <2>1, <2>3, <2>4, <2>5, <2>6, EffectRefines DEF Contexts
  <2> QED BY <1>1, <2>7 DEF Shows
<1>8. CASE WriteLevel
  <2>1. /\ c.op = "write" /\ c.at = "level" /\ ctx'["isr"] = ctx["isr"] /\ d = Idle
        /\ dr' = (dr \ c.pins) \cup (c.raised \cap c.pins)
        /\ UNCHANGED <<ddr, intMask, intType, intPol, power>>
    BY <1>1, <1>8 DEF WriteLevel, Return, At
  <2>2. Left(c) # << >> /\ Head(Left(c)) = E("write", c.raised) /\ Left(d) = Tail(Left(c))
    BY <2>1, LastEffect
  <2>3. /\ E("write", c.raised).what = "write" /\ E("write", c.raised).pins = c.pins
        /\ E("write", c.raised).raised = c.raised
    BY DEF Effect
  <2>4. PinsAbs!TakeEffect("thread")
    BY <1>1, <1>3, <2>1, <2>2, <2>3, EffectRefines DEF Contexts
  <2> QED BY <1>1, <2>4 DEF Shows
<1>9. CASE EnablePrepare
  <2>1. /\ c.op = "enable" /\ c.at = "prepare" /\ ctx'["isr"] = ctx["isr"]
        /\ d.op = c.op /\ d.at = "clear" /\ d.pins = c.pins /\ d.raised = c.raised
        /\ d.trigger = c.trigger /\ ddr' = ddr \ c.pins /\ UNCHANGED <<dr, intMask, power>>
        /\ SetTrigger(c.pins, c.trigger)
    BY <1>1, <1>9 DEF EnablePrepare, Goto, At, CallRecord
  <2>2. Left(c) # << >> /\ Head(Left(c)) = E("prepare", c.raised) /\ Left(d) = Tail(Left(c))
    BY <2>1, FirstEffect
  <2>3. /\ E("prepare", c.raised).what = "prepare" /\ E("prepare", c.raised).pins = c.pins
        /\ E("prepare", c.raised).trigger = c.trigger
    BY DEF Effect
  <2>4. TriggerOf(intType', intPol')
          = [p \in Pins |-> IF p \in c.pins THEN c.trigger ELSE TriggerOf(intType, intPol)[p]]
    BY <1>2, <2>1, TriggerSet
  <2>5. ddr' = (ddr \ c.pins) /\ Pins \ intMask' = Pins \ intMask /\ dr' = dr
        /\ power = "on" /\ power' = "on" /\ (\A j \in Contexts : j # "thread" => ctx'[j] = ctx[j])
    BY <1>1, <1>3, <2>1 DEF Contexts
  <2>6. PinsAbs!TakeEffect("thread")
    BY <1>1, <2>2, <2>3, <2>4, <2>5, EffectRefines
  <2> QED BY <1>1, <2>6 DEF Shows
<1>10. CASE EnableArm \/ DisableDisarm
  <2>1. PICK what \in {"arm", "disarm"} : (what = "arm") <=> EnableArm
    OBVIOUS
  <2>2. /\ c.at \in {"arm", "disarm"} /\ ctx'["isr"] = ctx["isr"] /\ d = Idle
        /\ what = "arm" => c.op = "enable" /\ c.at = "arm" /\ intMask' = intMask \ c.pins
        /\ what = "disarm" => c.op = "disable" /\ intMask' = intMask \cup c.pins
        /\ UNCHANGED <<dr, ddr, intType, intPol, power>>
    BY <1>1, <1>10, <2>1 DEF EnableArm, DisableDisarm, Return, At
  <2>3. Left(c) # << >> /\ Head(Left(c)) = E(what, c.raised) /\ Left(d) = Tail(Left(c))
    BY <2>1, <2>2, LastEffect
  <2>4. E(what, c.raised).what = what /\ E(what, c.raised).pins = c.pins
    BY DEF Effect
  <2>5. Pins \ intMask' = IF what = "arm" THEN (Pins \ intMask) \cup c.pins
                          ELSE (Pins \ intMask) \ c.pins
    BY <1>2, <2>1, <2>2
  <2>6. PinsAbs!TakeEffect("thread")
    BY <1>1, <1>3, <2>1, <2>2, <2>3, <2>4, <2>5, EffectRefines DEF Contexts
  <2> QED BY <1>1, <2>6 DEF Shows
<1> QED
  BY <1>4, <1>5, <1>6, <1>7, <1>8, <1>9, <1>10

LEMMA IsrRefines ==
  ASSUME QuietInv, IsrMask \/ IsrUnmask \/ IsrClear \/ IsrRead \/ IsrWrite \/ IsrTrigger
  PROVE  Shows
<1> DEFINE c == ctx["isr"]
           d == ctx'["isr"]
           E(what, raised) == Effect(what, c.pins, raised, c.trigger)
<1>1. /\ ctx \in [Contexts -> CallRecord] /\ c \in CallRecord
      /\ Contexts = PinsAbs!Contexts /\ "thread" \in Contexts /\ "isr" \in Contexts
  BY DEF QuietInv, TypeOK, CallsOK, Contexts, PinsAbs!Contexts, CallRecord
<1>2. /\ ddr \in SUBSET Pins /\ intMask \in SUBSET Pins
      /\ c.pins \in SUBSET Pins /\ c.trigger \in Trigger
  BY <1>1 DEF QuietInv, TypeOK, RegsOK, CallRecord
<1>3. c.at # "none" => power = "on"
  BY <1>1 DEF QuietInv, NoCallsWhenDown, Idle
<1>4. CASE IsrClear \/ IsrRead
  <2>1. /\ UNCHANGED <<dr, ddr, intMask, intType, intPol, saved, power>>
        /\ ctx'["thread"] = ctx["thread"]
    BY <1>1, <1>4 DEF IsrClear, IsrRead, regs, Goto, Return, Contexts
  <2>2. CASE d = Idle /\ c.op = "clear"
    <3>1. Left(c) = << >>
      BY <2>2 DEF Left, EffectsOf
    <3>2. Left(d) = Left(c)
      BY <2>2, <3>1, IdleLeft
    <3> QED BY <2>1, <3>2, Unseen DEF Contexts, Shows
  <2>3. CASE /\ c.op = "reconfigure" /\ d.op = c.op /\ d.pins = c.pins /\ d.raised = c.raised
             /\ d.trigger = c.trigger /\ d.at \in {"read", "write"} /\ c.at \in {"clear", "read"}
    <3>1. Left(d) = Left(c)
      BY <2>3 DEF Left
    <3> QED BY <2>1, <3>1, Unseen DEF Contexts, Shows
  <2>4. CASE IsrClear
    BY <1>1, <2>2, <2>3, <2>4 DEF IsrClear, Goto, Return, At, CallRecord
  <2>5. CASE IsrRead
    BY <1>1, <2>3, <2>5 DEF IsrRead, At, CallRecord
  <2> QED BY <1>4, <2>4, <2>5
<1>5. CASE IsrWrite
  <2>1. /\ c.op = "reconfigure" /\ c.at = "write" /\ ctx'["thread"] = ctx["thread"]
        /\ d.op = c.op /\ d.at = "trigger" /\ d.pins = c.pins /\ d.raised = c.raised
        /\ d.trigger = c.trigger /\ ddr' = ddr \ c.pins
        /\ UNCHANGED <<dr, intMask, intType, intPol, power>>
    BY <1>1, <1>5 DEF IsrWrite, Goto, At, CallRecord, QuietInv, ReadsFresh
  <2>2. Left(c) # << >> /\ Head(Left(c)) = E("release", c.raised) /\ Left(d) = Tail(Left(c))
    BY <2>1, FirstEffect
  <2>3. E("release", c.raised).what = "release" /\ E("release", c.raised).pins = c.pins
    BY DEF Effect
  <2>4. PinsAbs!TakeEffect("isr")
    BY <1>1, <1>3, <2>1, <2>2, <2>3, EffectRefines DEF Contexts
  <2> QED BY <1>1, <2>4 DEF Shows
<1>6. CASE IsrTrigger
  <2>1. /\ c.op = "reconfigure" /\ c.at = "trigger" /\ ctx'["thread"] = ctx["thread"]
        /\ d = Idle /\ UNCHANGED <<dr, ddr, intMask, power>>
        /\ SetTrigger(c.pins, c.trigger)
    BY <1>1, <1>6 DEF IsrTrigger, Return, At
  <2>2. Left(c) # << >> /\ Head(Left(c)) = E("set trigger", c.raised) /\ Left(d) = Tail(Left(c))
    BY <2>1, LastEffect
  <2>3. /\ E("set trigger", c.raised).what = "set trigger"
        /\ E("set trigger", c.raised).pins = c.pins
        /\ E("set trigger", c.raised).trigger = c.trigger
    BY DEF Effect
  <2>4. TriggerOf(intType', intPol')
          = [p \in Pins |-> IF p \in c.pins THEN c.trigger ELSE TriggerOf(intType, intPol)[p]]
    BY <1>2, <2>1, TriggerSet
  <2>5. ddr' = ddr /\ Pins \ intMask' = Pins \ intMask /\ dr' = dr
        /\ power = "on" /\ power' = "on" /\ (\A j \in Contexts : j # "isr" => ctx'[j] = ctx[j])
    BY <1>1, <1>3, <2>1 DEF Contexts
  <2>6. PinsAbs!TakeEffect("isr")
    BY <1>1, <2>2, <2>3, <2>4, <2>5, EffectRefines
  <2> QED BY <1>1, <2>6 DEF Shows
<1>7. CASE IsrMask \/ IsrUnmask
  <2>1. PICK what \in {"arm", "disarm"} : (what = "arm") <=> IsrUnmask
    OBVIOUS
  <2>2. /\ c.at \in {"arm", "disarm"} /\ ctx'["thread"] = ctx["thread"] /\ d = Idle
        /\ what = "arm" => c.op = "unmask" /\ intMask' = intMask \ c.pins
        /\ what = "disarm" => c.op = "mask" /\ intMask' = intMask \cup c.pins
        /\ UNCHANGED <<dr, ddr, intType, intPol, power>>
    BY <1>1, <1>7, <2>1 DEF IsrMask, IsrUnmask, Return, At
  <2>3. Left(c) # << >> /\ Head(Left(c)) = E(what, c.raised) /\ Left(d) = Tail(Left(c))
    BY <2>1, <2>2, LastEffect
  <2>4. E(what, c.raised).what = what /\ E(what, c.raised).pins = c.pins
    BY DEF Effect
  <2>5. Pins \ intMask' = IF what = "arm" THEN (Pins \ intMask) \cup c.pins
                          ELSE (Pins \ intMask) \ c.pins
    BY <1>2, <2>1, <2>2
  <2>6. PinsAbs!TakeEffect("isr")
    BY <1>1, <1>3, <2>1, <2>2, <2>3, <2>4, <2>5, EffectRefines DEF Contexts
  <2> QED BY <1>1, <2>6 DEF Shows
<1> QED
  BY <1>4, <1>5, <1>6, <1>7

\* The lines, and a controller that is stopped and started, do not show.
LEMMA RestHidden ==
  ASSUME QuietInv,
         DisconnectPreserving \/ StopController \/ StartController \/ \E p \in Pins : Edge(p)
  PROVE  UNCHANGED PinsAbs!pinVars
<1>1. CASE DisconnectPreserving \/ \E p \in Pins : Edge(p)
  <2>1. UNCHANGED <<regs, saved, power, ctx>>
    BY <1>1 DEF DisconnectPreserving, Edge
  <2> QED BY <2>1, Unseen DEF regs
<1>2. CASE StopController
  <2>1. /\ saved'.dr = dr /\ saved'.ddr = ddr /\ saved'.intMask = intMask
        /\ saved'.intType = intType /\ saved'.intPol = intPol
        /\ power = "on" /\ power' # "on" /\ ctx' = ctx
    BY <1>2 DEF StopController, SaveBankHardwareContext
  <2> QED BY <2>1 DEF PinsAbs!pinVars, Kept
<1>3. CASE StartController /\ power' # "on"
  <2>1. UNCHANGED <<saved, ctx>> /\ power # "on" /\ power' # "on"
    BY <1>3 DEF StartController, StartMask, StartClear, StartEnable, RestoreLevel, RestoreMode,
         RestorePolarity, RestoreDirection, RestoreMask, StartStep
  <2> QED BY <2>1 DEF PinsAbs!pinVars, Kept
<1>4. CASE StartController /\ power' = "on"
  <2>1. /\ UNCHANGED <<saved, ctx>> /\ power = "restore mask" /\ power' = "on"
        /\ intMask' = saved.intMask /\ UNCHANGED <<dr, ddr, intType, intPol>>
    BY <1>4 DEF StartController, StartMask, StartClear, StartEnable, RestoreLevel, RestoreMode,
         RestorePolarity, RestoreDirection, RestoreMask, StartStep, RestoredMask
  <2>2. dr = saved.dr /\ ddr = saved.ddr /\ intType = saved.intType /\ intPol = saved.intPol
    BY <2>1 DEF QuietInv, Restored
  <2> QED BY <2>1, <2>2 DEF PinsAbs!pinVars, Kept
<1> QED
  BY <1>1, <1>2, <1>3, <1>4

LEMMA InitRefines ==
  ASSUME Init
  PROVE  PinsAbs!PinsInit
<1>1. /\ Kept(ddr, saved.ddr) = {} /\ Kept(dr, saved.dr) = {}
      /\ Kept(intMask, saved.intMask) = Pins
      /\ Kept(intType, saved.intType) = {} /\ Kept(intPol, saved.intPol) = {}
  BY DEF Init, Kept
<1>2. [k \in Contexts |-> Left(ctx[k])] = [k \in PinsAbs!Contexts |-> << >>]
  BY IdleLeft DEF Init, PinsAbs!Contexts, Contexts
<1>3. [p \in Pins |-> [edge |-> p \in {}, rising |-> p \in {}]]
        = [p \in Pins |-> [edge |-> FALSE, rising |-> FALSE]]
  <2>1. \A p : (p \in {}) = FALSE
    OBVIOUS
  <2> QED BY <2>1, Zenon
<1>4. Pins \ Pins = {}
  OBVIOUS
<1> QED BY <1>1, <1>2, <1>3, <1>4, Zenon DEF PinsAbs!PinsInit

LEMMA StepsRefine ==
  ASSUME QuietInv, [Next /\ ~Overlap']_vars
  PROVE  [PinsAbs!PinsNext]_(PinsAbs!pinVars)
<1>1. CASE Next /\ ~Overlap'
  BY <1>1, CallsRefine, ThreadRefines, IsrRefines, RestHidden
     DEF Next, Thread, Isr, CallBegins, Shows, PinsAbs!PinsNext
<1>2. CASE UNCHANGED vars
  BY <1>2, Unseen DEF vars, regs
<1> QED BY <1>1, <1>2

\* If the two contexts do not overlap on PortDDR, every callback of the driver
\* has its effect on its own pins and no other, whatever the interrupt context
\* and a power cycle with save and restore do meanwhile.
THEOREM Implements == QuietSpec => ImplementsPins
<1>1. Init => QuietInv
  BY QuietInitially
<1>2. QuietInv /\ [Next /\ ~Overlap']_vars => QuietInv'
  BY StepsQuiet
<1>3. Init => PinsAbs!PinsInit
  BY InitRefines
<1>4. QuietInv /\ [Next /\ ~Overlap']_vars => [PinsAbs!PinsNext]_(PinsAbs!pinVars)
  BY StepsRefine
<1> QED
  BY <1>1, <1>2, <1>3, <1>4, PTL DEF QuietSpec, ImplementsPins, PinsAbs!PinsSpec
-----------------------------------------------------------------------------
(* No stale edge is reported, whether the contexts overlap or not.  What   *)
(* makes that inductive: every latched bit is accounted for, except of the *)
(* pin whose interrupt is being enabled, and that pin is masked, because a *)
(* pin that is not used for interrupts is.                                 *)

\* The pins between their new trigger and the write to PortEOI.
Settling == IF At("thread", {"enable"}, "clear") THEN ctx["thread"].pins ELSE {}

LatchesKnown == latched \subseteq heard \cup glitch \cup Settling

UnusedMasked == \A p \in Pins : user[p] # "int" => p \in Kept(intMask, saved.intMask)

UsesKept ==
  /\ ctx["thread"].op # "disable" => \A p \in ctx["thread"].pins : user[p] # "int"
  /\ ctx["isr"].op = "unmask" => \A p \in ctx["isr"].pins : user[p] = "int"

StaleInv == NoCallsWhenDown /\ LatchesKnown /\ UnusedMasked /\ UsesKept

LEMMA StaleInitially ==
  ASSUME Init
  PROVE  StaleInv
BY DEF Init, StaleInv, NoCallsWhenDown, LatchesKnown, UnusedMasked, UsesKept, Settling, At,
       Kept, Idle, Contexts

\* A bit that is latched and not masked belongs to a pin that has settled.
LEMMA StaleReported ==
  ASSUME TypeOK, StaleInv
  PROVE  NoSpurious
<1> SUFFICES ASSUME NEW p \in QueryActiveInterrupts \cap intType
             PROVE  p \in heard \cup glitch
  BY DEF NoSpurious
<1>1. intType \subseteq Pins
  BY DEF TypeOK, RegsOK
<1>2. p \in latched /\ p \notin intMask /\ p \in Pins
  BY <1>1 DEF QueryActiveInterrupts
<1>3. p \notin Settling
  <2> SUFFICES ASSUME At("thread", {"enable"}, "clear"), p \in ctx["thread"].pins
               PROVE  FALSE
    BY DEF Settling
  <2>1. power = "on"
    BY DEF StaleInv, NoCallsWhenDown, Contexts, At, Idle
  <2>2. user[p] # "int"
    BY DEF StaleInv, UsesKept, At
  <2> QED BY <1>2, <2>1, <2>2 DEF StaleInv, UnusedMasked, Kept
<1> QED BY <1>2, <1>3 DEF StaleInv, LatchesKnown

LEMMA BeginsStale ==
  ASSUME TypeOK, StaleInv, NEW k \in Contexts, NEW op, NEW S, NEW raised, NEW t, NEW step,
         Begin(k, op, S, raised, t, step),
         k = "thread" => step # "clear" /\ (op = "disable" \/ \A p \in S : user[p] # "int"),
         k = "isr" /\ op = "unmask" => \A p \in S : user[p] = "int"
  PROVE  StaleInv'
<1> USE DEF Contexts
<1>1. /\ UNCHANGED <<regs, latched, saved, power, user, history>> /\ power = "on"
      /\ ctx' = [ctx EXCEPT ![k] = [op |-> op, pins |-> S, raised |-> raised, trigger |-> t,
                                    at |-> step, ddr |-> {}]]
      /\ ctx[k] = Idle /\ ctx \in [Contexts -> CallRecord]
  BY DEF Begin, TypeOK, CallsOK
<1>2. NoCallsWhenDown' /\ UnusedMasked'
  BY <1>1 DEF StaleInv, NoCallsWhenDown, UnusedMasked, Kept, regs
<1>3. UsesKept'
  BY <1>1 DEF StaleInv, UsesKept
<1>4. Settling' = Settling
  BY <1>1 DEF Settling, At, Idle
<1>5. LatchesKnown'
  BY <1>1, <1>4 DEF StaleInv, LatchesKnown, history
<1> QED BY <1>2, <1>3, <1>5 DEF StaleInv

LEMMA CallBeginsStale ==
  ASSUME TypeOK, StaleInv, CallBegins
  PROVE  StaleInv'
<1> USE DEF Contexts
<1>1. ASSUME NEW S, NEW b, ConnectIoPins(S, b) PROVE StaleInv'
  <2>1. \A p \in S : user[p] # "int"
    BY <1>1 DEF ConnectIoPins, PinsUsed
  <2>2. PICK op : Begin("thread", op, S, {}, NoTrigger, "read")
    BY <1>1 DEF ConnectIoPins
  <2> QED BY <2>1, <2>2, BeginsStale
<1>2. \A S : DisconnectIoPins(S) => StaleInv'
  BY BeginsStale DEF DisconnectIoPins, PinsUsed
<1>3. \A S, raised : WriteGpioPins(S, raised) => StaleInv'
  BY BeginsStale DEF WriteGpioPins, PinsUsed
<1>4. \A p, t : EnableInterrupt(p, t) => StaleInv'
  BY BeginsStale DEF EnableInterrupt
<1>5. \A p : DisableInterrupt(p) => StaleInv'
  BY BeginsStale DEF DisableInterrupt
<1>6. \A S : MaskInterrupts(S) \/ ClearActiveInterrupts(S) => StaleInv'
  BY BeginsStale DEF MaskInterrupts, ClearActiveInterrupts, BeginIsr
<1>7. \A p : UnmaskInterrupt(p) \/ ReconfigureInterrupt(p) => StaleInv'
  BY BeginsStale DEF UnmaskInterrupt, ReconfigureInterrupt, BeginIsr
<1> QED
  BY <1>1, <1>2, <1>3, <1>4, <1>5, <1>6, <1>7 DEF CallBegins

LEMMA ThreadStepsStale ==
  ASSUME TypeOK, StaleInv,
         \/ IoRead \/ IoLower \/ IoWrite \/ WriteLevel \/ EnablePrepare \/ EnableClear
         \/ EnableArm \/ DisableDisarm
  PROVE  StaleInv'
<1> USE DEF Contexts
<1> DEFINE c == ctx["thread"]
           d == ctx'["thread"]
<1>1. /\ ctx \in [Contexts -> CallRecord] /\ user \in [Pins -> {"none", "in", "out", "int"}]
      /\ intMask \in SUBSET Pins /\ c.pins \in SUBSET Pins /\ c.at \in StepsOf(c.op)
  <2>1. /\ ctx \in [Contexts -> CallRecord] /\ c.at \in StepsOf(c.op)
        /\ user \in [Pins -> {"none", "in", "out", "int"}] /\ intMask \in SUBSET Pins
    BY DEF TypeOK, CallsOK, RegsOK
  <2> QED BY <2>1 DEF CallRecord
<1>2. c # Idle /\ power = "on" /\ power' = "on" /\ ctx'["isr"] = ctx["isr"]
  <2>1. CASE IoWrite
    <3>1. c.at = "write" /\ power' = power /\ Return("thread")
      BY <2>1 DEF IoWrite
    <3> QED BY <1>1, <3>1 DEF Return, StaleInv, NoCallsWhenDown, Idle
  <2>2. CASE ~IoWrite
    <3>1. c.at # "none" /\ power' = power /\ ctx'["isr"] = ctx["isr"]
      BY <1>1, <2>2 DEF IoRead, IoLower, WriteLevel, EnablePrepare, EnableClear, EnableArm,
           DisableDisarm, At, Goto, Return
    <3> QED BY <3>1 DEF StaleInv, NoCallsWhenDown, Idle
  <2> QED BY <2>1, <2>2
<1>3. NoCallsWhenDown'
  BY <1>2 DEF NoCallsWhenDown
<1>4. CASE IoRead \/ IoLower \/ WriteLevel
  <2>1. UNCHANGED <<intMask, latched, history, user>> /\ c.at \in {"read", "lower", "level"}
    BY <1>4 DEF IoRead, IoLower, WriteLevel, regs, At
  <2>2. d = Idle \/ (d.op = c.op /\ d.pins = c.pins)
    BY <1>1, <1>4 DEF IoRead, IoLower, WriteLevel, Goto, Return, CallRecord
  <2>3. UnusedMasked' /\ UsesKept'
    BY <1>2, <2>1, <2>2 DEF StaleInv, UnusedMasked, UsesKept, Kept, Idle
  <2>4. Settling = {}
    BY <2>1 DEF Settling, At
  <2>5. LatchesKnown'
    BY <2>1, <2>4 DEF StaleInv, LatchesKnown, history
  <2> QED BY <1>3, <2>3, <2>5 DEF StaleInv
<1>5. CASE IoWrite
  <2>1. PICK use \in {"none", "in", "out"} : UserIs(c.pins, use)
    BY <1>5 DEF IoWrite
  <2>2. /\ UNCHANGED <<intMask, latched, history>> /\ c.at = "write" /\ Return("thread")
    BY <1>5 DEF IoWrite
  <2>3. /\ d = Idle
        /\ \A p \in Pins : user'[p] = user[p]
                           \/ (p \in c.pins /\ user'[p] \in {"none", "in", "out"})
    BY <1>1, <2>1, <2>2 DEF UserIs, Return
  <2>4. c.op # "disable"
    BY <1>1, <2>2 DEF StepsOf
  <2>5. c.op # "disable" /\ Settling = {}
    BY <2>2, <2>4 DEF Settling, At
  <2>6. \A p \in c.pins : user[p] # "int"
    BY <2>5 DEF StaleInv, UsesKept
  <2>7. \A p \in Pins : user'[p] = "int" <=> user[p] = "int"
    BY <2>3, <2>6
  <2>8. \A p \in ctx["isr"].pins : p \in Pins
    BY <1>1 DEF CallRecord
  <2>9. UnusedMasked' /\ UsesKept'
    BY <1>2, <2>2, <2>3, <2>7, <2>8 DEF StaleInv, UnusedMasked, UsesKept, Kept, Idle
  <2>10. LatchesKnown'
    BY <2>2, <2>5 DEF StaleInv, LatchesKnown, history
  <2> QED BY <1>3, <2>9, <2>10 DEF StaleInv
<1>6. CASE EnablePrepare
  <2>1. /\ UNCHANGED <<intMask, latched, glitch, user>> /\ heard' = heard \ c.pins
        /\ c.op = "enable" /\ c.at = "prepare" /\ d.op = "enable" /\ d.at = "clear"
        /\ d.pins = c.pins
    BY <1>1, <1>6 DEF EnablePrepare, At, Goto, CallRecord
  <2>2. UnusedMasked' /\ UsesKept'
    BY <1>2, <2>1 DEF StaleInv, UnusedMasked, UsesKept, Kept
  <2>3. Settling = {} /\ Settling' = c.pins
    BY <2>1 DEF Settling, At
  <2>4. LatchesKnown'
    BY <2>1, <2>3 DEF StaleInv, LatchesKnown
  <2> QED BY <1>3, <2>2, <2>4 DEF StaleInv
<1>7. CASE EnableClear
  <2>1. /\ UNCHANGED <<intMask, user>> /\ latched' = latched \ c.pins
        /\ heard' = heard \ c.pins /\ glitch' = glitch \ c.pins
        /\ c.op = "enable" /\ c.at = "clear" /\ d.op = "enable" /\ d.pins = c.pins
    BY <1>1, <1>7 DEF EnableClear, Stale, EndOfInterrupt, At, Goto, CallRecord, regs
  <2>2. UnusedMasked' /\ UsesKept'
    BY <1>2, <2>1 DEF StaleInv, UnusedMasked, UsesKept, Kept
  <2>3. Settling = c.pins
    BY <2>1 DEF Settling, At
  <2>4. LatchesKnown'
    BY <2>1, <2>3 DEF StaleInv, LatchesKnown
  <2> QED BY <1>3, <2>2, <2>4 DEF StaleInv
<1>8. CASE EnableArm
  <2>1. /\ UNCHANGED <<latched, history>> /\ d = Idle /\ c.at = "arm"
        /\ intMask' = intMask \ c.pins
        /\ \A p \in Pins : user'[p] = IF p \in c.pins THEN "int" ELSE user[p]
    BY <1>1, <1>8 DEF EnableArm, UserIs, Return, At
  <2>2. \A p \in ctx["isr"].pins : p \in Pins
    BY <1>1 DEF CallRecord
  <2>3. UnusedMasked' /\ UsesKept'
    BY <1>2, <2>1, <2>2 DEF StaleInv, UnusedMasked, UsesKept, Kept, Idle
  <2>4. LatchesKnown'
    BY <2>1 DEF StaleInv, LatchesKnown, Settling, At, history
  <2> QED BY <1>3, <2>3, <2>4 DEF StaleInv
<1>9. CASE DisableDisarm
  <2>1. /\ UNCHANGED <<latched, history>> /\ d = Idle /\ c.at = "disarm"
        /\ intMask' = intMask \cup c.pins /\ ctx["isr"] = Idle
        /\ \A p \in Pins : user'[p] = IF p \in c.pins THEN "none" ELSE user[p]
    BY <1>1, <1>9 DEF DisableDisarm, UserIs, Return, At
  <2>2. UnusedMasked' /\ UsesKept'
    BY <1>2, <2>1 DEF StaleInv, UnusedMasked, UsesKept, Kept, Idle
  <2>3. LatchesKnown'
    BY <2>1 DEF StaleInv, LatchesKnown, Settling, At, history
  <2> QED BY <1>3, <2>2, <2>3 DEF StaleInv
<1> QED
  BY <1>4, <1>5, <1>6, <1>7, <1>8, <1>9

LEMMA IsrStepsStale ==
  ASSUME TypeOK, StaleInv, IsrMask \/ IsrUnmask \/ IsrClear \/ IsrRead \/ IsrWrite \/ IsrTrigger
  PROVE  StaleInv'
<1> USE DEF Contexts
<1> DEFINE c == ctx["isr"]
           d == ctx'["isr"]
<1>1. /\ ctx \in [Contexts -> CallRecord] /\ intMask \in SUBSET Pins
      /\ c.pins \in SUBSET Pins
  <2>1. ctx \in [Contexts -> CallRecord] /\ intMask \in SUBSET Pins
    BY DEF TypeOK, CallsOK, RegsOK
  <2> QED BY <2>1 DEF CallRecord
<1>2. power = "on" /\ power' = "on" /\ ctx'["thread"] = ctx["thread"] /\ user' = user
  <2>1. c.at # "none" /\ power' = power /\ ctx'["thread"] = ctx["thread"] /\ user' = user
    BY <1>1 DEF IsrMask, IsrUnmask, IsrClear, IsrRead, IsrWrite, IsrTrigger, At, Goto, Return
  <2> QED BY <2>1 DEF StaleInv, NoCallsWhenDown, Idle
<1>3. NoCallsWhenDown' /\ Settling' = Settling
  BY <1>2 DEF NoCallsWhenDown, Settling, At
<1>4. UsesKept'
  <2>1. d.op # "unmask"
    BY <1>1 DEF IsrMask, IsrUnmask, IsrClear, IsrRead, IsrWrite, IsrTrigger, At, Goto, Return,
         Idle, CallRecord
  <2> QED BY <1>2, <2>1 DEF StaleInv, UsesKept
<1>5. UnusedMasked'
  <2>1. CASE IsrUnmask
    <3>1. intMask' = intMask \ c.pins /\ c.op = "unmask"
      BY <2>1 DEF IsrUnmask, At
    <3> QED BY <1>2, <3>1 DEF StaleInv, UnusedMasked, UsesKept, Kept
  <2>2. CASE ~IsrUnmask
    <3>1. intMask \subseteq intMask'
      BY <2>2 DEF IsrMask, IsrClear, IsrRead, IsrWrite, IsrTrigger, regs
    <3> QED BY <1>2, <3>1 DEF StaleInv, UnusedMasked, Kept
  <2> QED BY <2>1, <2>2
<1>6. LatchesKnown'
  <2>1. CASE IsrClear
    BY <1>3, <2>1 DEF IsrClear, EndOfInterrupt, StaleInv, LatchesKnown
  <2>2. CASE IsrTrigger
    BY <1>3, <2>2 DEF IsrTrigger, StaleInv, LatchesKnown
  <2>3. CASE IsrMask \/ IsrUnmask \/ IsrRead \/ IsrWrite
    <3>1. UNCHANGED <<latched, history>>
      BY <2>3 DEF IsrMask, IsrUnmask, IsrRead, IsrWrite
    <3> QED BY <1>3, <3>1 DEF StaleInv, LatchesKnown, history
  <2> QED BY <2>1, <2>2, <2>3
<1> QED
  BY <1>3, <1>4, <1>5, <1>6 DEF StaleInv

\* A power cycle brings back the mask with the rest, and no edge from before.
LEMMA OtherStepsStale ==
  ASSUME TypeOK, StaleInv,
         DisconnectPreserving \/ StopController \/ StartController \/ \E p \in Pins : Edge(p)
  PROVE  StaleInv'
<1>1. CASE DisconnectPreserving
  <2>1. /\ UNCHANGED <<regs, latched, saved, power, ctx, history>>
        /\ ctx["thread"] = Idle
        /\ \A p \in Pins : user'[p] = "int" <=> user[p] = "int"
    BY <1>1 DEF DisconnectPreserving, UserIs, PinsUsed
  <2>2. \A p \in ctx["isr"].pins : p \in Pins
    BY DEF TypeOK, CallsOK, CallRecord, Contexts
  <2>3. NoCallsWhenDown' /\ LatchesKnown'
    BY <2>1 DEF StaleInv, NoCallsWhenDown, LatchesKnown, Settling, At, history
  <2>4. UnusedMasked' /\ UsesKept'
    BY <2>1, <2>2 DEF StaleInv, UnusedMasked, UsesKept, Kept, Idle, regs
  <2> QED BY <2>3, <2>4 DEF StaleInv
<1>2. CASE StopController
  <2>1. /\ power = "on" /\ power' # "on" /\ saved'.intMask = intMask /\ latched' = {}
        /\ UNCHANGED <<ctx, user>> /\ \A k \in Contexts : ctx[k] = Idle
    BY <1>2 DEF StopController, SaveBankHardwareContext
  <2> QED BY <2>1 DEF StaleInv, NoCallsWhenDown, LatchesKnown, UnusedMasked, UsesKept, Kept
<1>3. CASE StartController
  <2>1. /\ UNCHANGED <<saved, ctx, user>> /\ power # "on"
        /\ power' = "on" => intMask' = saved.intMask
    BY <1>3 DEF StartController, StartMask, StartClear, StartEnable, RestoreLevel, RestoreMode,
         RestorePolarity, RestoreDirection, RestoreMask, StartStep, RestoredMask
  <2>2. (latched' = latched /\ history' = history) \/ latched' = latched \ Pins
    BY <1>3 DEF StartController, StartMask, StartClear, StartEnable, RestoreLevel, RestoreMode,
         RestorePolarity, RestoreDirection, RestoreMask, StartStep, EndOfInterrupt
  <2>3. LatchesKnown'
    BY <2>1, <2>2 DEF StaleInv, LatchesKnown, Settling, At, TypeOK, RegsOK, history
  <2> QED BY <2>1, <2>3 DEF StaleInv, NoCallsWhenDown, UnusedMasked, UsesKept, Kept
<1>4. ASSUME NEW p \in Pins, Edge(p) PROVE StaleInv'
  <2>1. UNCHANGED <<regs, saved, power, ctx, user>>
    BY <1>4 DEF Edge
  <2>2. \/ UNCHANGED <<latched, history>>
        \/ /\ latched' = latched \cup {p} /\ heard \subseteq heard' /\ glitch \subseteq glitch'
           /\ p \in heard' \cup glitch'
    BY <1>4 DEF Edge
  <2>3. LatchesKnown'
    BY <2>1, <2>2 DEF StaleInv, LatchesKnown, Settling, At, history
  <2> QED BY <2>1, <2>3 DEF StaleInv, NoCallsWhenDown, UnusedMasked, UsesKept, Kept, regs
<1> QED
  BY <1>1, <1>2, <1>3, <1>4

LEMMA StepsStale ==
  ASSUME TypeOK, StaleInv, [Next]_vars
  PROVE  StaleInv'
<1>1. CASE Next
  BY <1>1, CallBeginsStale, ThreadStepsStale, IsrStepsStale, OtherStepsStale
     DEF Next, Thread, Isr, CallBegins
<1>2. CASE UNCHANGED vars
  BY <1>2 DEF vars, regs, history, StaleInv, NoCallsWhenDown, LatchesKnown, UnusedMasked,
       UsesKept, Settling, At, Kept
<1> QED BY <1>1, <1>2

\* An edge interrupt the class extension is told of stems from an edge the
\* pin was configured for, since it was last cleared, whatever was latched
\* before the interrupt was enabled or the controller lost its power.
THEOREM NothingStaleReported == Spec => []NoSpurious
<1>1. Init => TypeOK /\ StaleInv
  BY InitTyped, StaleInitially
<1>2. TypeOK /\ StaleInv /\ [Next]_vars => TypeOK' /\ StaleInv'
  BY StepsTyped, StepsStale
<1>3. TypeOK /\ StaleInv => NoSpurious
  BY StaleReported
<1> QED BY <1>1, <1>2, <1>3, PTL DEF Spec
=============================================================================
