------------------------------- MODULE SdhcHost -------------------------------
(***************************************************************************)
(* The SDHCI miniport of the eMMC controller (sd/dwcsdhc/dwcsdhc.cpp): the *)
(* bus settings and the request engine.                                    *)
(*                                                                         *)
(* sdport powers the bus up, sets its clock and mode, issues a command, is *)
(* told when it has completed, and starts the transfer of a data command   *)
(* once per block.  The ISR hands the latched events to sdport's DPC.      *)
(*                                                                         *)
(* Assumed of sdport: it calls the miniport for one thing at a time, the   *)
(* ISR and the DPC apart; it starts over with a full reset when a bus      *)
(* operation has failed; its DPC has run before it issues a request,       *)
(* resets or gives up, but may run while a transfer is started; it hands   *)
(* the DPC a request it has issued and not given up on; a completion of    *)
(* what it has been told of already changes nothing; it resets after a     *)
(* request that could not be issued as after one that failed.              *)
(***************************************************************************)
EXTENDS Integers, FiniteSets

CONSTANTS Kinds,    \* the requests sdport issues
          MaxBlockSize, \* the largest block that is accepted, in bytes
          Widths,   \* the bus widths it asks for
          Speeds,   \* the bus speeds it asks for
          Adma2     \* CapabilitiesReg.Adma2Support

Kind == [data : {"none", "pio", "dma"}, dir : {"none", "read", "write"},
         blocks : Nat, size : Nat, busy : BOOLEAN]    \* busy: the response is R1b or R5b

\* sdport uses DMA only where it is supported.
ASSUME KindsAssumption ==
  \A k \in Kinds : /\ k \in Kind /\ (k.data = "none" <=> k.blocks = 0)
                   /\ k.data = "dma" => Adma2

ASSUME SettingsAssumption ==
  /\ Widths \subseteq {1, 4, 8} /\ Adma2 \in BOOLEAN
  /\ Speeds \subseteq {"Normal", "High", "SDR12", "SDR25", "SDR50", "DDR50", "SDR104",
                       "HS200", "HS400"}
  /\ MaxBlockSize \in Nat

VARIABLES
  bus,          \* the clock, power, host control and transfer mode registers
  enabled,      \* the status and signal enable registers, ERROR for all errors
  intsts,       \* INTERRUPT_STATUS, ERROR for the error status register
  dpc,          \* what sdport's DPC has still to hand over
  outstanding,  \* OutstandingRequest is not null
  currentEvents,
  req, blocks, required, status,  \* the request: its kind and its fields
  stage, left, buffer,            \* the controller and the card
  host,         \* what sdport is at
  phase,        \* the request's command or its transfer
  step, seen, loaded,    \* where StartTransfer is; its CurrentEvents, and the
                         \* word it is about to write into RequiredEvents
  dpcAt, handling, held, \* where RequestDpc is; its Events, and its such word
  failed,       \* history: the command on the bus has met an error
  lost,         \* history: the errors were disabled meanwhile, or one came
                \* while sdport was not waiting
  garbled,      \* history: a byte of the request was accessed at the wrong place
  raced         \* history: RequestDpc was at it while StartTransfer was; until
                \* the controller is reset

threadVars == <<step, seen, loaded>>
runVars == <<dpcAt, handling, held>>
reqVars == <<outstanding, currentEvents, req, blocks, required, status, phase>>
hwVars  == <<stage, left, buffer, failed>>
intVars == <<enabled, lost, intsts, dpc>>
historyVars == <<garbled, raced>>
vars == <<bus, reqVars, hwVars, intVars, host, threadVars, runVars, historyVars>>

NORMAL == {"CMD_COMPLETE", "TRANSFER_COMPLETE", "BUFFER_READY"}
EVENTS == NORMAL \cup {"ERROR"}
Nothing == [data |-> "none", dir |-> "none", blocks |-> 0, size |-> 0, busy |-> FALSE]

\* The transfer mode register and the block count.
NoMode == [dma |-> FALSE, read |-> FALSE, multi |-> FALSE, auto12 |-> FALSE, count |-> 0]

\* The registers after a full reset by the hardware.
BusReset == [clock |-> {}, power |-> FALSE, dma |-> FALSE, width |-> 1, high |-> FALSE,
             uhs |-> "SDR12", v18 |-> FALSE, tuning |-> FALSE, preset |-> FALSE,
             gap |-> FALSE, phy |-> "unset", mode |-> NoMode]

Init ==
  /\ bus = BusReset
  /\ enabled = {} /\ intsts = {} /\ dpc = {}
  /\ outstanding = FALSE /\ currentEvents = {}
  /\ req = Nothing /\ blocks = 0 /\ required = {} /\ status = "NOT_SET"
  /\ stage = "idle" /\ left = 0 /\ buffer = "empty"
  /\ host = "down" /\ phase = "command"
  /\ step = "none" /\ seen = {} /\ loaded = {}
  /\ dpcAt = "none" /\ handling = {} /\ held = {}
  /\ failed = FALSE /\ lost = FALSE /\ garbled = FALSE /\ raced = FALSE

IsData == req.data # "none"

-----------------------------------------------------------------------------
(* The controller and the card (external).  An event is latched only while *)
(* its status is enabled.                                                  *)

Latch(events) == intsts' = intsts \cup (events \cap enabled)

HwStep == UNCHANGED <<bus, reqVars, host, enabled, lost, dpc, threadVars, runVars, historyVars>>

HwRespond ==
  /\ stage = "command"
  /\ stage' = IF IsData THEN "data" ELSE IF req.busy THEN "busy" ELSE "idle"
  /\ Latch({"CMD_COMPLETE"})
  /\ UNCHANGED <<left, buffer, failed>> /\ HwStep

HwError ==
  /\ stage # "idle"
  /\ stage' = "idle" /\ failed' = TRUE
  /\ Latch({"ERROR"})
  /\ UNCHANGED <<left, buffer>> /\ HwStep

\* A block moves between the card and memory, or the buffer calls for the
\* processor, or a block that was written into it goes out: as the transfer
\* mode says, whatever the request is.
HwMove ==
  /\ stage = "data" /\ left > 0
  /\ \/ bus.mode.dma /\ left' = left - 1 /\ UNCHANGED buffer /\ Latch({})
     \/ /\ ~bus.mode.dma /\ bus.mode.read /\ buffer = "empty"
        /\ left' = left - 1 /\ buffer' = "full" /\ Latch({"BUFFER_READY"})
     \/ /\ ~bus.mode.dma /\ ~bus.mode.read /\ buffer = "empty"
        /\ buffer' = "asked" /\ UNCHANGED left /\ Latch({"BUFFER_READY"})
     \/ /\ ~bus.mode.dma /\ ~bus.mode.read /\ buffer = "full"
        /\ left' = left - 1 /\ buffer' = "empty" /\ Latch({})
  /\ UNCHANGED <<stage, failed>> /\ HwStep

\* "With short data read requests, the transfer is probably completed by the
\* time the command is done."
HwEnd ==
  /\ stage = "busy" \/ (stage = "data" /\ left = 0)
  /\ stage' = "idle"
  /\ Latch({"TRANSFER_COMPLETE"})
  /\ UNCHANGED <<left, buffer, failed>> /\ HwStep

-----------------------------------------------------------------------------
(* SdhcEnableInterrupt, SdhcDisableInterrupt and the ISR.                  *)

EnableInterrupt(events) == enabled' = enabled \cup events \cup {"ERROR"}

\* Whatever is disabled, the errors go with it.
DisableInterrupt(events) == enabled' = enabled \ (events \cup {"ERROR"})

\* SdhcAcknowledgeInterrupts: what was read is cleared, the errors by all-ones.
Acknowledged(events) == intsts \ events

SlotInterrupt ==
  /\ intsts # {}
  /\ dpc' = dpc \cup intsts
  /\ intsts' = Acknowledged(intsts)
  /\ UNCHANGED <<bus, reqVars, hwVars, enabled, lost, host, threadVars, runVars, historyVars>>

\* SdhcSlotToggleEvents, as sdport serves an SDIO interrupt.
CardInterrupt ==
  /\ \/ host \notin {"masked", "maskedDat", "resetDone"} /\ EnableInterrupt({})
     \/ DisableInterrupt({})
  /\ enabled' # enabled
  /\ lost' = (lost \/ "ERROR" \notin enabled')
  /\ intsts' = intsts \cap enabled'
  /\ UNCHANGED <<bus, reqVars, hwVars, dpc, host, threadVars, runVars, historyVars>>

-----------------------------------------------------------------------------
(* SdhcCompleteRequest, and SdhcRequestDpc with its separate accesses to    *)
(* what StartTransfer writes on another processor.                         *)

\* What sdport does with a request it waits for.
AfterCompletion(s) ==
  IF s = "MORE_PROCESSING_REQUIRED" THEN "transfer"
  ELSE IF s = "FAILED" THEN "failed"
  ELSE IF phase = "command" /\ IsData THEN "transfer" ELSE "done"

\* "Data commands are done after all data has been transfered."
CompleteRequest(s) ==
  /\ outstanding' = (IsData /\ blocks > 0 /\ outstanding)
  /\ host' = IF host = "waiting" THEN AfterCompletion(s) ELSE host

Saved_Awaited == currentEvents \cup (dpc \cap required)   \* slip: only what is awaited
Saved == currentEvents \cup dpc

\* The events are saved also when there is no request.
RequestDpc ==
  /\ dpcAt = "none" /\ dpc # {} /\ dpc' = {}
  /\ \/ /\ host \in {"waiting", "transfer", "done"}
        /\ currentEvents' = Saved
        /\ \/ outstanding /\ dpcAt' = "saved" /\ handling' = dpc
           \/ ~outstanding /\ UNCHANGED <<dpcAt, handling>>
     \/ /\ host \notin {"waiting", "transfer", "done"}
        /\ UNCHANGED <<currentEvents, dpcAt, handling>>
  /\ lost' = (lost \/ ("ERROR" \in dpc /\ host # "waiting"))
  /\ raced' = (raced \/ step # "none")
  /\ UNCHANGED <<bus, outstanding, req, blocks, required, status, phase, hwVars, enabled,
                 intsts, host, threadVars, held, garbled>>

DpcStep(from, to) ==
  /\ dpcAt = from /\ dpcAt' = to
  /\ UNCHANGED <<bus, req, blocks, phase, hwVars, intVars, threadVars, historyVars>>

\* RequiredEvents &= ~Events is no interlocked operation.
DpcLoad ==
  /\ DpcStep("saved", "loaded")
  /\ held' = required \ handling
  /\ UNCHANGED <<outstanding, currentEvents, required, status, host, handling>>

DpcStore ==
  /\ DpcStep("loaded", "stored")
  /\ required' = held /\ held' = {}
  /\ UNCHANGED <<outstanding, currentEvents, status, host, handling>>

DpcAnswer ==
  /\ DpcStep("stored", "none")
  /\ handling' = {}
  /\ \/ /\ "ERROR" \in handling
        /\ required' = {} /\ currentEvents' = {}
        /\ UNCHANGED status
        /\ CompleteRequest("FAILED")
     \/ /\ "ERROR" \notin handling /\ required = {}
        /\ UNCHANGED <<required, currentEvents>>
        /\ status' = IF status = "MORE_PROCESSING_REQUIRED" THEN status ELSE "SUCCESS"
        /\ CompleteRequest(status')
     \/ /\ "ERROR" \notin handling /\ required # {}
        /\ UNCHANGED <<required, currentEvents, status, outstanding, host>>
  /\ UNCHANGED held

-----------------------------------------------------------------------------
(* SdhcSendCommand and SdhcStartTransfer.                                  *)

RequiredFor_NoEnd(k) ==     \* slip: the end of a DMA transfer is not awaited
  {"CMD_COMPLETE"} \cup (IF k.busy THEN {"TRANSFER_COMPLETE"} ELSE {})
                   \cup (IF k.data = "pio" THEN {"BUFFER_READY"} ELSE {})
RequiredFor(k) ==
  {"CMD_COMPLETE"} \cup (IF k.busy \/ k.data = "dma" THEN {"TRANSFER_COMPLETE"} ELSE {})
                   \cup (IF k.data = "pio" THEN {"BUFFER_READY"} ELSE {})

\* Nothing of the last interrupt is left to do.
Settled == intsts = {} /\ dpc = {} /\ dpcAt = "none" /\ step = "none"

\* SdhcSetTransferMode, for a block size and a direction it accepts.
TransferMode(k) ==
  [dma |-> k.data = "dma", read |-> k.dir = "read",
   multi |-> k.blocks > 1, auto12 |-> k.blocks > 1, count |-> k.blocks]
ModeAccepted(k) == k.size <= MaxBlockSize /\ k.dir \in {"read", "write"}

BuildPioTransfer(k) == ModeAccepted(k)

\* The table of descriptors cannot fail (SdDescriptors).
BuildAdmaTransfer(k) == ModeAccepted(k)

\* SdhcBuildTransfer, for a command with data.
Builds(k) ==
  \/ k.data = "none"
  \/ k.data = "pio" /\ BuildPioTransfer(k)
  \/ k.data = "dma" /\ BuildAdmaTransfer(k)

\* A command without data leaves the rest of the mode as it was.
ModeFor(k) ==
  IF k.data = "none" THEN [bus.mode EXCEPT !.dma = FALSE, !.auto12 = FALSE]
                     ELSE TransferMode(k)

\* The blocks the controller moves: it counts only where it is told to.
Counted(mode) == IF mode.multi THEN mode.count ELSE 1

IssueRequest ==
  /\ host \in {"ready", "done"} /\ Settled
  /\ \E k \in Kinds :
       /\ Builds(k)
       /\ bus' = [bus EXCEPT !.mode = ModeFor(k)]
       /\ req' = k /\ blocks' = k.blocks
       /\ left' = IF k.data = "none" THEN 0 ELSE Counted(bus'.mode)
       /\ required' = RequiredFor(k)
  /\ outstanding' = TRUE /\ currentEvents' = {} /\ status' = "NOT_SET"
  /\ stage' = "command" /\ buffer' = "empty" /\ failed' = FALSE
  /\ host' = "waiting" /\ phase' = "command"
  /\ lost' = ("ERROR" \notin enabled) /\ garbled' = FALSE
  /\ UNCHANGED <<enabled, intsts, dpc, threadVars, runVars, raced>>

\* The transfer cannot be built: the request stays the outstanding one.
RefuseRequest ==
  /\ host \in {"ready", "done"} /\ Settled
  /\ \E k \in Kinds : ~Builds(k)
  /\ outstanding' = TRUE /\ host' = "failed"
  /\ UNCHANGED <<bus, currentEvents, req, blocks, required, status, phase, hwVars, intVars,
                 threadVars, runVars, historyVars>>

IssueTransfer ==
  /\ host = "transfer" /\ step = "none"
  /\ host' = "waiting" /\ phase' = "transfer" /\ outstanding' = TRUE
  /\ step' = "start"
  /\ raced' = (raced \/ dpcAt # "none")
  /\ UNCHANGED <<bus, currentEvents, req, blocks, required, status, hwVars, intVars, seen,
                 loaded, runVars, garbled>>

\* SdhcStartTransfer, by the method of the request.
TransferStep(method, from, to) ==
  /\ req.data = method
  /\ step = from /\ step' = to
  /\ UNCHANGED <<bus, req, phase, stage, left, failed, intVars, runVars, raced>>

StartAdmaTransfer ==
  /\ TransferStep("dma", "start", "none")
  /\ status' = "SUCCESS"
  /\ CompleteRequest("SUCCESS")
  /\ UNCHANGED <<currentEvents, blocks, required, buffer, seen, loaded, garbled>>

LastBlock(n) == n = 0

\* The bytes of a block the data port is read or written at: by four, then two
\* and then one of the four that are left.
Words(n) == 4 * (n \div 4)
HalfWord(n) == {i \in {Words(n), Words(n) + 1} : n - Words(n) >= 2}
LastByte(n) == {i \in {Words(n) + 2} : n % 2 = 1}
DataPort(n) == (0 .. Words(n) - 1) \cup HalfWord(n) \cup LastByte(n)

\* The block is the controller's or the driver's, whichever bytes of it went
\* through the data port.
ReadDataPort == "empty"
WriteDataPort == "full"
AllAccessed(n) == DataPort(n) = 0 .. n - 1

\* BlockCount is unsigned.  Of what it wraps to, it matters only that it is not
\* the last block.
WRAPPED == 3
BlockDone(n) == IF n = 0 THEN WRAPPED ELSE n - 1

KeepAnswer == UNCHANGED <<outstanding, status, host>>

PioTake ==
  /\ TransferStep("pio", "start", "taken")
  /\ seen' = currentEvents /\ currentEvents' = {}
  /\ UNCHANGED <<blocks, required, buffer, loaded, garbled>> /\ KeepAnswer

PioMove ==
  /\ TransferStep("pio", "taken", "moved")
  /\ buffer' = IF req.dir = "read" THEN ReadDataPort ELSE WriteDataPort
  /\ garbled' = (garbled \/ ~AllAccessed(req.size))
  /\ blocks' = BlockDone(blocks)
  /\ UNCHANGED <<currentEvents, required, seen, loaded>> /\ KeepAnswer

PioSucceed ==
  /\ LastBlock(blocks)
  /\ TransferStep("pio", "moved", "last")
  /\ status' = "SUCCESS"
  /\ UNCHANGED <<currentEvents, blocks, required, buffer, seen, loaded, outstanding, host,
                 garbled>>

PioEnd ==
  /\ "TRANSFER_COMPLETE" \in seen
  /\ TransferStep("pio", "last", "none")
  /\ seen' = {}
  /\ CompleteRequest("SUCCESS")
  /\ UNCHANGED <<currentEvents, blocks, required, status, buffer, loaded, garbled>>

\* RequiredEvents |= is no interlocked operation either.
PioLoad ==
  /\ \/ /\ ~LastBlock(blocks) /\ TransferStep("pio", "moved", "loaded")
        /\ loaded' = required \cup {"BUFFER_READY"}
     \/ /\ "TRANSFER_COMPLETE" \notin seen /\ TransferStep("pio", "last", "loaded")
        /\ loaded' = required \cup {"TRANSFER_COMPLETE"}
  /\ seen' = {}
  /\ UNCHANGED <<currentEvents, blocks, required, buffer, garbled>> /\ KeepAnswer

PioStore ==
  /\ TransferStep("pio", "loaded", IF LastBlock(blocks) THEN "none" ELSE "stored")
  /\ required' = loaded /\ loaded' = {}
  /\ UNCHANGED <<currentEvents, blocks, buffer, seen, garbled>> /\ KeepAnswer

PioAgain ==
  /\ TransferStep("pio", "stored", "none")
  /\ status' = "MORE_PROCESSING_REQUIRED"
  /\ UNCHANGED <<currentEvents, blocks, required, buffer, seen, loaded, outstanding, host,
                 garbled>>

StartPioTransfer == PioTake \/ PioMove \/ PioSucceed \/ PioEnd \/ PioLoad \/ PioStore \/ PioAgain

-----------------------------------------------------------------------------
(* The bus operations, SdhcSlotIssueBusOperation.                          *)

\* An operation that fails makes sdport start over.
BusOperation(from, to, registers) ==
  /\ host \in from /\ Settled
  /\ bus' = registers
  /\ host' = to
  /\ UNCHANGED <<reqVars, hwVars, intVars, threadVars, runVars, historyVars>>

Ready == {"ready", "done"}

\* The bits that enable the clock, once the internal clock is stable.
Off(b) == [b EXCEPT !.clock = @ \ {"internal", "enable"}]
Gated(b) == [b EXCEPT !.clock = @ \ {"enable"}]
Running(b) == [b EXCEPT !.clock = @ \cup {"enable"}]

\* DwcSdhcRkConfigurePhy: the delay line is bypassed below 100000000, and the
\* rate is in kHz.
PhyConfigured(b) == [b EXCEPT !.phy = "bypassed"]

\* DwcSdhcRkSetClock, and the wait for a stable clock, may fail.
SetClock ==
  LET started == PhyConfigured([bus EXCEPT !.clock = {"internal"}]) IN
  \/ BusOperation({"powered"} \cup Ready, "down", Off(bus))
  \/ BusOperation({"powered"} \cup Ready, "down", started)
  \/ BusOperation({"powered"}, "resetDone", Running(started))
  \/ BusOperation(Ready, host, Running(started))

\* The voltage may not be latched; the power is on even when it is zero.
SetVoltage ==
  \/ BusOperation({"reset"}, "down", [bus EXCEPT !.power = FALSE])
  \/ BusOperation({"reset"}, "powered", [bus EXCEPT !.power = TRUE])
  \/ BusOperation(Ready, "down", [bus EXCEPT !.power = TRUE])

SetBusWidth == \E w \in Widths : BusOperation(Ready, host, [bus EXCEPT !.width = w])

SetHighSpeed ==
  \E s \in Speeds \cap {"Normal", "High"} :
    BusOperation(Ready, host, [bus EXCEPT !.high = (s = "High")])

\* SdhcGetHwUhsMode: the modes it does not know are 0, which is SDR12.
HwUhsMode(speed) ==
  IF speed \in {"DDR50", "SDR104"} THEN "SDR50"
  ELSE IF speed \in {"HS200", "HS400"} THEN "SDR12" ELSE speed

\* The clock is off while the mode changes.
Switched_Gated(b, mode) == [Gated(b) EXCEPT !.uhs = mode]    \* slip: and stays off
Switched(b, mode) == Running([Gated(b) EXCEPT !.uhs = mode])

SetUhsMode ==
  \E s \in Speeds \ {"Normal", "High"} :
    /\ bus.uhs # HwUhsMode(s)
    /\ BusOperation(Ready, host, Switched(bus, HwUhsMode(s)))

SetSpeed == SetHighSpeed \/ SetUhsMode

\* The data lines may be high too early or low too late, and the voltage may
\* not be latched: the clock is on again only in the last of the three.
SetSignaling ==
  \E enable \in BOOLEAN :
    LET switched == [Gated(bus) EXCEPT !.v18 = enable] IN
    \/ BusOperation(Ready, "down", Gated(bus))
    \/ BusOperation(Ready, "down", switched)
    \/ BusOperation(Ready, "down", Running(switched))
    \/ BusOperation(Ready, host, Running(switched))

\* EXECUTE_TUNING is set, and nothing else of the tuning is done.
ExecuteTuning == BusOperation(Ready, host, [bus EXCEPT !.tuning = TRUE])

SetPresetValue == \E on \in BOOLEAN : BusOperation(Ready, host, [bus EXCEPT !.preset = on])

EnableBlockGapInterrupt ==
  \E on \in BOOLEAN : BusOperation(Ready, host, [bus EXCEPT !.gap = on])

-----------------------------------------------------------------------------
(* SdhcResetHost and the events sdport toggles around it.                  *)

\* The registers are written only when the reset has come to its end.
ResetHost(from, to, all) ==
  /\ host = from /\ Settled
  /\ outstanding' = FALSE
  /\ UNCHANGED <<currentEvents, req, blocks, required, status, phase>>
  /\ \/ /\ host' = "down"
        /\ UNCHANGED <<bus, hwVars, intVars, raced>>
     \/ /\ host' = to
        /\ bus' = [(IF all THEN BusReset ELSE bus) EXCEPT !.dma = Adma2, !.phy = bus.phy]
        /\ stage' = "idle" /\ left' = 0 /\ buffer' = "empty"
        /\ intsts' = {} /\ enabled' = IF all THEN {} ELSE enabled
        /\ raced' = FALSE
        /\ UNCHANGED <<failed, lost, dpc>>
  /\ UNCHANGED <<threadVars, runVars, garbled>>

ResetAll == ResetHost("down", "reset", TRUE)
ResetCmd == ResetHost("masked", "maskedDat", FALSE)
ResetDat == ResetHost("maskedDat", "resetDone", FALSE)

SdportTimeout ==
  /\ host = "waiting" /\ Settled
  /\ host' = "failed"
  /\ UNCHANGED <<bus, reqVars, hwVars, intVars, threadVars, runVars, historyVars>>

ToggleEvents ==
  /\ Settled
  /\ \/ host = "failed" /\ host' = "masked" /\ DisableInterrupt(NORMAL)
     \/ host = "resetDone" /\ host' = "ready" /\ EnableInterrupt(NORMAL)
  /\ UNCHANGED <<bus, reqVars, hwVars, lost, intsts, dpc, threadVars, runVars, historyVars>>

-----------------------------------------------------------------------------
Hardware == HwRespond \/ HwError \/ HwMove \/ HwEnd
Interrupt == SlotInterrupt \/ RequestDpc \/ DpcLoad \/ DpcStore \/ DpcAnswer
Requests == IssueRequest \/ RefuseRequest \/ IssueTransfer
Transfer == StartAdmaTransfer \/ StartPioTransfer
BusOps == \/ SetClock \/ SetVoltage \/ SetBusWidth \/ SetSpeed
          \/ SetSignaling \/ ExecuteTuning \/ SetPresetValue \/ EnableBlockGapInterrupt
          \/ ResetAll \/ ResetCmd \/ ResetDat
Sdport == SdportTimeout \/ ToggleEvents \/ CardInterrupt

Next == Hardware \/ Interrupt \/ Requests \/ Transfer \/ BusOps \/ Sdport

Spec == Init /\ [][Next]_vars

-----------------------------------------------------------------------------
(* A request is reported successful only when the card has answered without
   an error, all of its data has moved both between card and controller and
   between controller and memory, whatever mode the requests before it have
   left, every byte by its place of the data port unless the block has 4 * n + 1
   of them, and the card is no longer busy; unless the DPC has run while a
   transfer was started. *)
SuccessIsDone ==
  host = "done" /\ ~raced =>
    /\ stage = "idle" /\ ~failed /\ left = 0
    /\ req.data = "pio" => blocks = 0 /\ buffer = "empty"
    /\ req.size % 4 # 1 => ~garbled

Coming(e) ==
  \/ e \in intsts \cup dpc \cup handling
  \/ e = "CMD_COMPLETE" /\ stage = "command"
  \/ e = "TRANSFER_COMPLETE" /\ stage # "idle"
  \/ e = "BUFFER_READY" /\ stage \in {"command", "data"} /\ left > 0

AwaitedIsComing ==
  host = "waiting" /\ step = "none" /\ ~lost =>
    /\ required # {} \/ dpcAt # "none"
    /\ IF failed THEN "ERROR" \in intsts \cup dpc \cup handling
                 ELSE \A e \in required : Coming(e)

(* An awaited event is still to come, or the error that ended the command, so
   that nothing but the card makes a request time out: no event is forgotten
   between the phases of a request, unless the DPC has run while a transfer
   was started.  Errors sdport has disabled together with the SDIO interrupt,
   and errors that come between two phases, are lost. *)
AwaitedWillCome == ~raced => AwaitedIsComing

(* A command runs only on a powered bus with its clock on and its delays set,
   a DMA transfer with the DMA selected, and no command without data stops a
   transfer, whichever bus operations and requests have failed before; a
   transfer the DPC has ended too early may still run as the bus changes. *)
CommandHasClock ==
  stage # "idle" /\ ~raced =>
    /\ bus.power /\ {"internal", "enable"} \subseteq bus.clock
    /\ bus.phy # "unset"
    /\ bus.mode.dma => bus.dma /\ req.data = "dma"
    /\ bus.mode.auto12 => IsData /\ req.blocks > 1

(* "Data commands are done after all data has been transfered": no request is
   reported successful while blocks are left. *)
DoneHasNoBlocks == host = "done" /\ req.data = "pio" => blocks = 0
=============================================================================
