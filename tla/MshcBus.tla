-------------------------------- MODULE MshcBus --------------------------------
(***************************************************************************)
(* The bus settings of dwcmshc (sd/dwcmshc/dwcmshc.cpp) and what the       *)
(* Rockchip platform adds to them (rockchip_ops.cpp): the supply, the      *)
(* signaling voltage and the clock of a card.                              *)
(*                                                                         *)
(* A bus operation is one step: sdport asks for one at a time, and the ISR *)
(* touches none of these registers.  The clock is set in registers that    *)
(* the card interface unit (CIU) loads when it is told to, or fails to.    *)
(* The firmware may lack the control of the supply, of the signal          *)
(* regulator or of the base clock.                                         *)
(*                                                                         *)
(* Assumed of sdport: after an operation that has failed it starts over    *)
(* with a full reset; it asks for 1.8 V when the card has accepted CMD11,  *)
(* and for 3.3 V when it has switched the supply off and on.                *)
(***************************************************************************)
EXTENDS Integers

CONSTANTS Khz,           \* the clock rates asked for, in kHz
          BaseKhz,       \* the base clock before the firmware is asked for one
          MaxKhz,        \* PlatformCapabilities->MaxFrequency, 0 for none
          MaxFailures    \* bound: resets and clock updates that time out

ASSUME KhzAssumption ==
  /\ Khz \subseteq Nat \ {0} /\ BaseKhz \in Nat \ {0}
  /\ MaxKhz \in Nat /\ MaxFailures \in Nat

VARIABLES
  firmware,   \* which of its controls the firmware implements
  bus,        \* the registers, the CIU's clock, the regulators
  ext,        \* the slot extension
  card,       \* the card in the slot
  sdport,     \* what sdport has come to
  failures,
  blind,      \* history: a reset could not ask a card that is at 1.8 V
  unstopped   \* history: a reset could not stop the clock, which is not set since

history == <<blind, unstopped>>
busVars == <<firmware, bus, ext, card, sdport, failures, history>>

NoCard == [in |-> FALSE, on |-> FALSE, v18 |-> FALSE, switching |-> FALSE, rca |-> 0]

Controls(implemented) == [c \in {"supply", "signal", "clock"} |-> c \in implemented]

BusInit ==
  /\ firmware = Controls({})
  /\ bus = [enable |-> FALSE, divider |-> 0, ciu |-> [on |-> FALSE, divider |-> 0],
            base |-> BaseKhz, voltReg18 |-> FALSE, regulator18 |-> FALSE, supply |-> TRUE,
            masked |-> TRUE, ddr |-> FALSE, width |-> 1]
  /\ ext = [khz |-> 0, signaling18 |-> FALSE, powerControl |-> FALSE, rca |-> 0]
  /\ card = [NoCard EXCEPT !.in = TRUE, !.on = TRUE]
  /\ sdport = "off" /\ failures = 0 /\ blind = FALSE /\ unstopped = FALSE

\* MshcSlotInitialize ends with a full reset.
SlotInitialize ==
  /\ sdport = "off" /\ sdport' = "failed"
  /\ \E implemented \in SUBSET {"supply", "signal", "clock"} : firmware' = Controls(implemented)
  /\ UNCHANGED <<bus, ext, card, failures, history>>

-----------------------------------------------------------------------------
(* The clock.                                                              *)

\* MshcCiuUpdateClock: the CIU loads the registers, or a timeout.
Loaded(b, ok) == IF ok THEN [b EXCEPT !.ciu = [on |-> b.enable, divider |-> b.divider]] ELSE b

DivCeil_Floor(n, d) == n \div d    \* slip: the remainder is dropped
DivCeil(n, d) == (n + d - 1) \div d

\* CLKDIV: 0 passes the base clock, d divides it by 2 * d.
Divider(base, khz) == IF khz = base THEN 0 ELSE DivCeil(base, 2 * khz)

Capped(khz) == IF MaxKhz # 0 /\ MaxKhz < khz THEN MaxKhz ELSE khz

\* MshcRockchipSetClock: a base clock the firmware does not set stays as it was.
RateSet(b, khz) == [b EXCEPT !.base = IF firmware.clock THEN khz ELSE @]
Based(b, khz) == RateSet(b, khz)

\* The registers when the first n - 1 of the updates have been made and the
\* n-th has timed out; n = 0 when none does.
ClockSet(b, khz, n) ==
  LET gated == Loaded([b EXCEPT !.enable = FALSE, !.divider = 0], n # 1)
      based == Based(gated, khz)
      divided == Loaded([based EXCEPT !.divider = Divider(based.base, khz)], n # 2)
  IN IF n = 1 \/ khz = 0 THEN gated
     ELSE IF n = 2 THEN divided
     ELSE Loaded([divided EXCEPT !.enable = TRUE], n # 3)

\* n steps of an operation time out.
TimedOut(n) == failures' = failures + n /\ failures' <= MaxFailures

\* The operation is one of sdport's, which then goes on or starts over.
BusOperation(ok, next) ==
  /\ sdport \notin {"off", "failed"}
  /\ sdport' = IF ok THEN next ELSE "failed"
  /\ UNCHANGED firmware

SetClock ==
  /\ sdport \in {"powered", "running"}
  /\ \E n \in 0 .. 3, khz \in Khz :
       /\ TimedOut(IF n = 0 THEN 0 ELSE 1) /\ BusOperation(n = 0, "running")
       /\ bus' = ClockSet(bus, Capped(khz), n)
       /\ ext' = IF n = 0 THEN [ext EXCEPT !.khz = Capped(khz)] ELSE ext
       /\ unstopped' = (unstopped /\ n # 0)
  /\ UNCHANGED <<card, blind>>

-----------------------------------------------------------------------------
(* The supply.  MshcSetVoltage computes PWREN but does not write it: the   *)
(* external regulator alone switches the card.                             *)

EnableSet(b, on) == [b EXCEPT !.supply = IF firmware.supply THEN on ELSE @]

Supplied(c, on) ==
  [c EXCEPT !.on = c.in /\ on,
            !.v18 = @ /\ on, !.switching = @ /\ on, !.rca = IF on THEN @ ELSE 0]

PowerControl_Assumed(ok) == TRUE    \* slip: the platform's status is not looked at
PowerControl(ok) == ok

SetVoltage ==
  /\ \E on \in BOOLEAN :
       /\ sdport \in (IF on THEN {"reset"} ELSE {"powered", "running"})
       /\ BusOperation(TRUE, IF on THEN "powered" ELSE "reset")
       /\ ext' = [ext EXCEPT !.powerControl = PowerControl(firmware.supply)]
       /\ bus' = EnableSet(bus, on)
       /\ card' = IF firmware.supply THEN Supplied(card, on) ELSE card
  /\ UNCHANGED <<failures, history>>

-----------------------------------------------------------------------------
(* The signaling voltage.                                                  *)

\* MshcSendStatusCommand needs a clock, the interrupts, and the card to know
\* the address that the driver remembers.
Heard(b) == b.ciu.on /\ ~b.masked
CardAnswers(b, c) == c.in /\ c.on /\ c.rca # 0 /\ c.rca = ext.rca /\ Heard(b)

\* The case of 3.3 V: "the card should've been power cycled".
StayAt18(b, e, c) == e.signaling18 /\ ~e.powerControl /\ CardAnswers(b, c)

VoltageSet(b, v18) == [b EXCEPT !.regulator18 = IF firmware.signal THEN v18 ELSE @]

At33(b) == VoltageSet([b EXCEPT !.voltReg18 = FALSE], FALSE)

SetSignaling33 ==
  /\ sdport = "powered"
  /\ BusOperation(firmware.signal \/ StayAt18(bus, ext, card), "powered")
  /\ IF StayAt18(bus, ext, card) THEN UNCHANGED <<bus, ext>>
     ELSE /\ bus' = At33(bus)
          /\ ext' = IF firmware.signal THEN [ext EXCEPT !.signaling18 = FALSE] ELSE ext
  /\ blind' = (blind \/ (card.v18 /\ ~CardAnswers(bus, card)))
  /\ UNCHANGED <<card, failures, unstopped>>

\* The clock is stopped for the switch, and stays so when the regulator or
\* the card does not follow.
SetSignaling18 ==
  /\ sdport = "running" /\ card.switching
  /\ \E follows \in BOOLEAN, stop, start \in {0, 1} :
       LET stopped == Loaded([bus EXCEPT !.enable = FALSE], stop = 0)
           at18 == VoltageSet([stopped EXCEPT !.voltReg18 = TRUE], TRUE)
           ok == firmware.signal /\ follows
       IN /\ TimedOut(stop + start) /\ (start = 1 => firmware.signal)
          /\ stop + start # 0 => ~follows
          /\ BusOperation(ok, "running")
          /\ bus' = IF firmware.signal THEN Loaded([at18 EXCEPT !.enable = TRUE], start = 0) ELSE at18
          /\ ext' = IF ok THEN [ext EXCEPT !.signaling18 = TRUE] ELSE ext
          /\ card' = [card EXCEPT !.switching = FALSE, !.v18 = ok]
  /\ UNCHANGED history

-----------------------------------------------------------------------------
(* MshcResetHost with SdResetTypeAll: "We don't trust sdport to always do  *)
(* it when needed."                                                        *)

ResetAll ==
  /\ sdport # "off"
  /\ \E sync, stop \in {0, 1} :
       LET synced == Loaded(bus, sync = 0)
           e == [ext EXCEPT !.powerControl = PowerControl(firmware.supply)]
           c == IF firmware.supply THEN Supplied(card, FALSE) ELSE card
           off == EnableSet(synced, FALSE)
           stay == StayAt18(synced, e, c)
           level == IF stay THEN off ELSE At33(off)
       IN /\ TimedOut(sync + stop)
          /\ bus' = [ClockSet(level, 0, stop) EXCEPT !.masked = TRUE, !.width = 1]
          /\ ext' = [e EXCEPT !.signaling18 = @ /\ (stay \/ ~firmware.signal),
                              !.khz = IF stop = 1 THEN @ ELSE 0]
          /\ card' = [c EXCEPT !.switching = FALSE]
          /\ blind' = (blind \/ (c.v18 /\ ~CardAnswers(synced, c))) /\ unstopped' = (stop = 1)
  /\ sdport' = "reset"
  /\ UNCHANGED firmware

\* MshcResetWait times out: nothing has been done.
ResetFails ==
  /\ sdport # "off" /\ TimedOut(1) /\ sdport' = "failed"
  /\ UNCHANGED <<firmware, bus, ext, card, history>>

-----------------------------------------------------------------------------
(* The width, the speed and the events are set in the registers alone.     *)

SetBusWidth ==
  /\ BusOperation(TRUE, sdport) /\ \E w \in {1, 4, 8} : bus' = [bus EXCEPT !.width = w]
  /\ UNCHANGED <<ext, card, failures, history>>

SetBusSpeed ==
  /\ BusOperation(TRUE, sdport) /\ \E ddr \in BOOLEAN : bus' = [bus EXCEPT !.ddr = ddr]
  /\ UNCHANGED <<ext, card, failures, history>>

ToggleEvents ==
  /\ BusOperation(TRUE, sdport) /\ bus' = [bus EXCEPT !.masked = ~@]
  /\ UNCHANGED <<ext, card, failures, history>>

-----------------------------------------------------------------------------
(* sdport's commands and the card (external).  A card gives up its address *)
(* with CMD0, and its signaling voltage with its supply only.              *)

Commands == sdport = "running" /\ Heard(bus) /\ card.in /\ card.on

Identify ==
  /\ Commands
  /\ card' = [card EXCEPT !.rca = 0, !.switching = FALSE]
  /\ UNCHANGED <<firmware, bus, ext, sdport, failures, history>>

\* CMD11: a card that is at 3.3 V and supports 1.8 V accepts it.
VoltageSwitch ==
  /\ Commands /\ card.rca = 0 /\ ~card.v18 /\ card' = [card EXCEPT !.switching = TRUE]
  /\ UNCHANGED <<firmware, bus, ext, sdport, failures, history>>

\* CMD3, whose response MshcSlotGetResponse remembers the address of.
GetResponse ==
  /\ Commands /\ card.rca = 0 /\ ~card.switching
  /\ \E rca \in 1 .. 2 : card' = [card EXCEPT !.rca = rca] /\ ext' = [ext EXCEPT !.rca = rca]
  /\ UNCHANGED <<firmware, bus, sdport, failures, history>>

\* A card is taken out or put in.
Exchange ==
  /\ sdport # "off"
  /\ card' = IF card.in THEN NoCard ELSE [NoCard EXCEPT !.in = TRUE, !.on = bus.supply]
  /\ UNCHANGED <<firmware, bus, ext, sdport, failures, history>>

BusNext == SlotInitialize \/ ResetAll \/ ResetFails \/ SetClock \/ SetVoltage \/ SetSignaling33 \/ SetSignaling18
           \/ SetBusWidth \/ SetBusSpeed \/ ToggleEvents
           \/ Identify \/ VoltageSwitch \/ GetResponse \/ Exchange

BusSpec == BusInit /\ [][BusNext]_busVars

-----------------------------------------------------------------------------
(* "If the platform does not support power control and the card was already
   initialized at 1.8V, it's unsafe to change voltage here" (dwcmshc.cpp 1727):
   a card at 1.8 V with an address is driven at 1.8 V, by both regulators, as
   long as each reset could ask it. *)
VoltageMatchesCard ==
  card.v18 /\ card.rca # 0 /\ ~blind => bus.voltReg18 /\ bus.regulator18

(* Whatever update of the clock times out and whether or not the firmware sets
   the base clock, what runs on the wire is no faster than what the driver
   holds BusFrequencyKhz to be, until the driver is told to start over; but a
   reset succeeds, too, when it could not stop the clock. *)
ClockNotTooFast ==
  bus.ciu.on /\ sdport # "failed" /\ ~unstopped =>
    IF bus.ciu.divider = 0 THEN bus.base <= ext.khz ELSE bus.base <= 2 * bus.ciu.divider * ext.khz
===============================================================================
