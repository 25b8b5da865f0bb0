---------------------------- MODULE SdhcHostProofs ----------------------------
(***************************************************************************)
(* For any kinds of requests, of any number of blocks of any accepted      *)
(* size: a request that succeeds is done, what is awaited comes, and no    *)
(* command runs on a bus that is not set up for it; as long as the DPC has *)
(* not run while a transfer was started (raced).                           *)
(*                                                                         *)
(* The last section is about SdDescriptors: the table of either controller *)
(* moves what the list says, for any list.                                 *)
(***************************************************************************)
EXTENDS SdhcHost, SdDescriptors, SequenceTheorems, WellFoundedInduction, TLAPS

Mode == [dma : BOOLEAN, read : BOOLEAN, multi : BOOLEAN, auto12 : BOOLEAN, count : Nat]

Bus == [clock : SUBSET {"internal", "enable"}, power : BOOLEAN, dma : BOOLEAN,
        width : {1, 4, 8}, high : BOOLEAN, uhs : {"SDR12", "SDR25", "SDR50"}, v18 : BOOLEAN,
        tuning : BOOLEAN, preset : BOOLEAN, gap : BOOLEAN, phy : {"unset", "bypassed"},
        mode : Mode]

Hosts == {"down", "reset", "powered", "resetDone", "ready", "waiting", "transfer", "done",
          "failed", "masked", "maskedDat"}

TypeOK ==
  /\ bus \in Bus /\ req \in Kind /\ host \in Hosts
  /\ blocks \in Nat /\ left \in Nat
  /\ enabled \subseteq EVENTS /\ intsts \subseteq EVENTS /\ dpc \subseteq EVENTS
  /\ currentEvents \subseteq EVENTS /\ required \subseteq EVENTS
  /\ outstanding \in BOOLEAN /\ failed \in BOOLEAN /\ lost \in BOOLEAN
  /\ garbled \in BOOLEAN /\ raced \in BOOLEAN
  /\ status \in {"NOT_SET", "SUCCESS", "MORE_PROCESSING_REQUIRED"}
  /\ stage \in {"idle", "command", "data", "busy"}
  /\ buffer \in {"empty", "asked", "full"}
  /\ phase \in {"command", "transfer"}
  /\ step \in {"none", "start", "taken", "moved", "last", "loaded", "stored"}
  /\ seen \subseteq EVENTS /\ loaded \subseteq EVENTS
  /\ dpcAt \in {"none", "saved", "loaded", "stored"}
  /\ handling \subseteq EVENTS /\ held \subseteq EVENTS

-----------------------------------------------------------------------------
(* The invariant of the bus: how far sdport has come in setting it up, and *)
(* that nothing runs while it does.                                        *)

IdleHosts == {"reset", "powered", "resetDone", "ready", "done"}

BusInv ==
  /\ host # "down" => bus.dma = Adma2
  /\ host \notin {"down", "reset"} => bus.power
  /\ host \notin {"down", "reset", "powered"} =>
       {"internal", "enable"} \subseteq bus.clock /\ bus.phy # "unset"
  /\ host \in IdleHosts /\ ~raced => stage = "idle"

-----------------------------------------------------------------------------
(* The invariant of a request: what the events say of the controller, the  *)
(* card and the buffer, on their way and after they have come, wherever    *)
(* the DPC or the start of a transfer are, unless they overlap.            *)

CmdDone ==
  stage # "command" /\ (~IsData /\ ~req.busy => stage = "idle" /\ ~failed)
TransferDone == stage = "idle" /\ ~failed /\ left = 0
BufferReady == req.data = "pio" /\ buffer = IF req.dir = "read" THEN "full" ELSE "asked"

Happened(e) ==
  /\ e = "CMD_COMPLETE" => CmdDone
  /\ e = "TRANSFER_COMPLETE" => TransferDone
  /\ e = "BUFFER_READY" => BufferReady
  /\ e = "ERROR" => failed

Full == IF buffer = "full" THEN 1 ELSE 0

\* The blocks the driver has still to move and those the card has.
BlocksOK ==
  req.data = "pio" =>
    /\ req.dir = "read" => buffer # "asked" /\ blocks = left + Full
    /\ req.dir # "read" => blocks + Full = left /\ (buffer = "asked" => left > 0)

StageOK ==
  /\ stage = "data" => IsData
  /\ stage = "busy" => ~IsData
  /\ ~IsData => left = 0
  /\ IsData => /\ bus.mode.dma <=> req.data = "dma"
               /\ bus.mode.read <=> req.dir = "read"

SeenOK ==
  /\ \A e \in intsts \cup dpc \cup handling : Happened(e)
  /\ "TRANSFER_COMPLETE" \in currentEvents \cup seen => TransferDone

\* A buffer is announced once, and awaited or about to be.
OnceOK ==
  /\ "BUFFER_READY" \notin intsts \cap dpc
  /\ "BUFFER_READY" \notin (intsts \cup dpc) \cap handling
  /\ "BUFFER_READY" \in intsts \cup dpc =>
       /\ host = "waiting"
       /\ "BUFFER_READY" \in required \/ (step \in {"moved", "loaded"} /\ blocks > 0)

\* Where the DPC is.
RunOK ==
  /\ dpcAt # "none" => step = "none" /\ host \in {"waiting", "transfer", "done"}
  /\ dpcAt = "loaded" => held = required \ handling
  /\ dpcAt = "stored" => required \cap handling = {}

\* What is not awaited any more has happened.
WaitingOK ==
  /\ outstanding
  /\ required = {} => dpcAt = "stored"
  /\ "BUFFER_READY" \in required => blocks > 0
  /\ phase = "command" => /\ status # "MORE_PROCESSING_REQUIRED"
                          /\ required \subseteq RequiredFor(req)
                          /\ \A e \in RequiredFor(req) \ required : Happened(e)
  /\ phase = "transfer" =>
       /\ req.data = "pio" /\ CmdDone
       /\ \/ /\ status = "MORE_PROCESSING_REQUIRED"
             /\ required = {"BUFFER_READY"} \/ (required = {} /\ BufferReady)
          \/ /\ status = "SUCCESS" /\ blocks = 0
             /\ required = {"TRANSFER_COMPLETE"} \/ (required = {} /\ TransferDone)

\* A transfer may be started: its data have not been touched.
TransferOK ==
  /\ required = {} /\ IsData /\ CmdDone
  /\ req.data = "pio" => BufferReady
  /\ req.data = "dma" => TransferDone

\* A block has moved, and what comes next is about to be awaited.
Moved == {"moved", "last", "loaded", "stored"}

MovedOK ==
  /\ req.data = "pio" /\ CmdDone
  /\ step # "stored" => required = {}
  /\ step = "stored" => required = {"BUFFER_READY"} /\ blocks > 0
  /\ step = "last" => blocks = 0 /\ status = "SUCCESS"
  /\ step = "loaded" =>
       IF blocks = 0 THEN loaded = {"TRANSFER_COMPLETE"} /\ status = "SUCCESS"
                     ELSE loaded = {"BUFFER_READY"}
  /\ "TRANSFER_COMPLETE" \in seen => blocks = 0

\* Where the start of a transfer is.
StepOK ==
  /\ step # "none" => host = "waiting" /\ phase = "transfer" /\ outstanding
  /\ step \notin {"none", "start"} => currentEvents = {} /\ req.data = "pio"
  /\ step \in Moved => MovedOK

Issued == {"waiting", "transfer"}

\* What holds also where the two overlap.
AlwaysOK ==
  /\ stage # "idle" => ~failed
  /\ req.data = "pio" => req.dir \in {"read", "write"}
  /\ garbled => req.size % 4 = 1
  /\ dpcAt = "none" => handling = {}
  /\ step \notin {"taken", "moved", "last"} => seen = {}

ApartOK ==
  /\ RunOK /\ StepOK
  /\ host \in Issued => StageOK /\ BlocksOK /\ SeenOK /\ OnceOK
  /\ host = "waiting" /\ step = "none" => WaitingOK
  /\ host = "transfer" \/ step \in {"start", "taken"} => TransferOK

RequestInv == AlwaysOK /\ (~raced => ApartOK)

-----------------------------------------------------------------------------
(* The invariant of the events: none is lost but the errors.               *)

Live == {"ready", "done", "waiting", "transfer", "failed"}

EnabledOK == host \in Live => NORMAL \subseteq enabled

ComingOK ==
  /\ host \in Issued =>
       /\ ~lost => /\ "ERROR" \in enabled
                   /\ failed => "ERROR" \in intsts \cup dpc \cup handling
                   /\ "ERROR" \in handling => host = "waiting"
       /\ IsData /\ stage = "idle" /\ ~failed =>
            left = 0 /\ "TRANSFER_COMPLETE" \in intsts \cup dpc \cup currentEvents \cup seen
       /\ step \in Moved /\ BufferReady => "BUFFER_READY" \in intsts \cup dpc
  /\ host = "waiting" /\ step = "none" /\ ~failed => \A e \in required : Coming(e)

EventsInv == EnabledOK /\ (~raced => ComingOK)

HostInv ==
  /\ TypeOK /\ BusInv /\ CommandHasClock /\ RequestInv /\ SuccessIsDone /\ EventsInv
-----------------------------------------------------------------------------
(* The data port.                                                          *)

\* Every byte of a block is accessed, unless it ends with a single one.
LEMMA AllBytesMoved ==
  ASSUME NEW n \in Nat, n % 4 # 1
  PROVE  DataPort(n) = 0 .. n - 1
<1>1. PICK q \in Nat : q = n \div 4
  OBVIOUS
<1>2. PICK r \in 0 .. 3 : r = n % 4 /\ n = 4 * q + r
  BY <1>1
<1>3. Words(n) = 4 * q
  BY <1>1 DEF Words
<1>4. n % 2 = r % 2
  BY <1>1, <1>2
<1>5. CASE r = 0
  BY <1>2, <1>3, <1>4, <1>5 DEF DataPort, HalfWord, LastByte
<1>6. CASE r = 2
  BY <1>2, <1>3, <1>4, <1>6 DEF DataPort, HalfWord, LastByte
<1>7. CASE r = 3
  BY <1>2, <1>3, <1>4, <1>7 DEF DataPort, HalfWord, LastByte
<1> QED BY <1>2, <1>5, <1>6, <1>7

-----------------------------------------------------------------------------
(* Types.                                                                  *)

LEMMA HardwareTyped ==
  ASSUME TypeOK, Hardware
  PROVE  TypeOK'
<1>1. /\ UNCHANGED <<bus, reqVars, host, enabled, lost, dpc, threadVars, runVars, historyVars>>
      /\ \E E : Latch(E)
  BY DEF Hardware, HwRespond, HwError, HwMove, HwEnd, HwStep
<1>2. intsts' \subseteq EVENTS
  BY <1>1 DEF TypeOK, Latch
<1>3. /\ stage' \in {"idle", "command", "data", "busy"} /\ buffer' \in {"empty", "asked", "full"}
      /\ left' \in Nat /\ failed' \in BOOLEAN
  <2>1. CASE HwMove
    <3>1. left' = left \/ (left' = left - 1 /\ left > 0)
      BY <2>1 DEF HwMove
    <3> QED BY <2>1, <3>1 DEF TypeOK, HwMove
  <2>2. CASE HwRespond \/ HwError \/ HwEnd
    BY <2>2 DEF TypeOK, HwRespond, HwError, HwEnd
  <2> QED BY <2>1, <2>2 DEF Hardware
<1> QED
  BY <1>1, <1>2, <1>3 DEF TypeOK, reqVars, threadVars, runVars, historyVars

LEMMA InterruptTyped ==
  ASSUME TypeOK, SlotInterrupt \/ CardInterrupt
  PROVE  TypeOK'
<1>1. UNCHANGED <<bus, reqVars, hwVars, host, threadVars, runVars, historyVars>>
  BY DEF SlotInterrupt, CardInterrupt
<1>2. /\ intsts' \subseteq EVENTS /\ dpc' \subseteq EVENTS /\ enabled' \subseteq EVENTS
      /\ lost' \in BOOLEAN
  BY DEF TypeOK, SlotInterrupt, CardInterrupt, Acknowledged, EnableInterrupt, DisableInterrupt,
         EVENTS
<1> QED BY <1>1, <1>2 DEF TypeOK, reqVars, hwVars, threadVars, runVars, historyVars

LEMMA CompletionTyped ==
  ASSUME TypeOK, NEW s, CompleteRequest(s)
  PROVE  host' \in Hosts /\ outstanding' \in BOOLEAN
<1>1. AfterCompletion(s) \in Hosts
  BY DEF AfterCompletion, Hosts
<1> QED BY <1>1 DEF CompleteRequest, TypeOK

LEMMA DpcTyped ==
  ASSUME TypeOK, RequestDpc \/ DpcLoad \/ DpcStore \/ DpcAnswer
  PROVE  TypeOK'
<1>1. CASE RequestDpc
  <2>1. /\ currentEvents' \subseteq EVENTS /\ handling' \subseteq EVENTS /\ dpc' = {}
        /\ dpcAt' \in {"none", "saved", "loaded", "stored"}
        /\ lost' \in BOOLEAN /\ raced' \in BOOLEAN
    BY <1>1 DEF RequestDpc, Saved, TypeOK
  <2>2. UNCHANGED <<bus, outstanding, req, blocks, required, status, phase, hwVars, enabled,
                    intsts, host, threadVars, held, garbled>>
    BY <1>1 DEF RequestDpc
  <2> QED BY <2>1, <2>2 DEF TypeOK, hwVars, threadVars
<1>2. CASE DpcLoad \/ DpcStore
  <2>1. /\ UNCHANGED <<bus, req, blocks, phase, hwVars, intVars, threadVars, historyVars,
                       outstanding, currentEvents, status, host, handling>>
        /\ dpcAt' \in {"loaded", "stored"}
    BY <1>2 DEF DpcLoad, DpcStore, DpcStep
  <2>2. required' \subseteq EVENTS /\ held' \subseteq EVENTS
    BY <1>2 DEF DpcLoad, DpcStore, TypeOK
  <2> QED BY <2>1, <2>2 DEF TypeOK, hwVars, intVars, threadVars, historyVars
<1>3. CASE DpcAnswer
  <2>1. /\ UNCHANGED <<bus, req, blocks, phase, hwVars, intVars, threadVars, historyVars, held>>
        /\ dpcAt' = "none" /\ handling' = {}
        /\ currentEvents' \subseteq EVENTS /\ required' \subseteq EVENTS
        /\ status' \in {"NOT_SET", "SUCCESS", "MORE_PROCESSING_REQUIRED"}
    BY <1>3 DEF DpcAnswer, DpcStep, TypeOK
  <2>2. host' \in Hosts /\ outstanding' \in BOOLEAN
    <3>1. \/ \E s : CompleteRequest(s)
          \/ UNCHANGED <<host, outstanding>>
      BY <1>3, Zenon DEF DpcAnswer
    <3> QED BY <3>1, CompletionTyped DEF TypeOK
  <2> QED BY <2>1, <2>2 DEF TypeOK, hwVars, intVars, threadVars, historyVars
<1> QED BY <1>1, <1>2, <1>3

\* The bus registers, changed by one of the operations.
LEMMA ClockTyped ==
  ASSUME NEW b \in Bus
  PROVE  Off(b) \in Bus /\ Gated(b) \in Bus /\ Running(b) \in Bus /\ PhyConfigured(b) \in Bus
<1>1. \A c \in SUBSET {"internal", "enable"} : [b EXCEPT !.clock = c] \in Bus
  BY DEF Bus
<1>2. b.clock \in SUBSET {"internal", "enable"}
  BY DEF Bus
<1>3. /\ Off(b) = [b EXCEPT !.clock = b.clock \ {"internal", "enable"}]
      /\ Gated(b) = [b EXCEPT !.clock = b.clock \ {"enable"}]
      /\ Running(b) = [b EXCEPT !.clock = b.clock \cup {"enable"}]
  BY DEF Off, Gated, Running
<1>4. PhyConfigured(b) \in Bus
  BY DEF PhyConfigured, Bus
<1> QED BY <1>1, <1>2, <1>3, <1>4

LEMMA FieldsTyped ==
  ASSUME NEW b \in Bus, NEW on \in BOOLEAN
  PROVE  /\ [b EXCEPT !.power = on] \in Bus
         /\ [b EXCEPT !.high = on] \in Bus
         /\ [b EXCEPT !.v18 = on] \in Bus
         /\ [b EXCEPT !.tuning = on] \in Bus
         /\ [b EXCEPT !.preset = on] \in Bus
         /\ [b EXCEPT !.gap = on] \in Bus
<1>1. [b EXCEPT !.power = on] \in Bus
  BY DEF Bus
<1>2. [b EXCEPT !.high = on] \in Bus
  BY DEF Bus
<1>3. [b EXCEPT !.v18 = on] \in Bus
  BY DEF Bus
<1>4. [b EXCEPT !.tuning = on] \in Bus
  BY DEF Bus
<1>5. [b EXCEPT !.preset = on] \in Bus
  BY DEF Bus
<1>6. [b EXCEPT !.gap = on] \in Bus
  BY DEF Bus
<1> QED BY <1>1, <1>2, <1>3, <1>4, <1>5, <1>6

LEMMA BusTyped ==
  ASSUME TypeOK, BusOps
  PROVE  bus' \in Bus
<1> USE SettingsAssumption
<1>1. bus \in Bus
  BY DEF TypeOK
<1>2. CASE SetClock
  <2>1. [bus EXCEPT !.clock = {"internal"}] \in Bus
    BY <1>1 DEF Bus
  <2> QED BY <1>1, <1>2, <2>1, ClockTyped DEF SetClock, BusOperation
<1>3. CASE SetVoltage
  BY <1>1, <1>3, FieldsTyped DEF SetVoltage, BusOperation
<1>4. CASE SetBusWidth
  BY <1>1, <1>4 DEF SetBusWidth, BusOperation, Bus
<1>5. CASE SetHighSpeed
  BY <1>1, <1>5, FieldsTyped DEF SetHighSpeed, BusOperation
<1>6. CASE SetUhsMode
  <2>1. PICK s \in Speeds \ {"Normal", "High"} : bus' = Switched(bus, HwUhsMode(s))
    BY <1>6 DEF SetUhsMode, BusOperation
  <2>2. HwUhsMode(s) \in {"SDR12", "SDR25", "SDR50"}
    BY DEF HwUhsMode
  <2>3. Gated(bus) \in Bus
    BY <1>1, ClockTyped
  <2>4. [Gated(bus) EXCEPT !.uhs = HwUhsMode(s)] \in Bus
    BY <2>2, <2>3 DEF Bus
  <2> QED BY <2>1, <2>4, ClockTyped DEF Switched
<1>7. CASE SetSignaling
  <2>1. Gated(bus) \in Bus
    BY <1>1, ClockTyped
  <2>2. PICK v \in BOOLEAN : bus' \in {Gated(bus), [Gated(bus) EXCEPT !.v18 = v],
                                      Running([Gated(bus) EXCEPT !.v18 = v])}
    BY <1>7 DEF SetSignaling, BusOperation
  <2>3. [Gated(bus) EXCEPT !.v18 = v] \in Bus
    BY <2>1, FieldsTyped
  <2> QED BY <2>1, <2>2, <2>3, ClockTyped
<1>8. CASE ExecuteTuning \/ SetPresetValue \/ EnableBlockGapInterrupt
  BY <1>1, <1>8, FieldsTyped
     DEF ExecuteTuning, SetPresetValue, EnableBlockGapInterrupt, BusOperation
<1>9. CASE ResetAll \/ ResetCmd \/ ResetDat
  <2>1. BusReset \in Bus
    BY DEF BusReset, NoMode, Bus, Mode
  <2>2. PICK b \in Bus : bus' \in {bus, [b EXCEPT !.dma = Adma2, !.phy = bus.phy]}
    BY <1>1, <1>9, <2>1 DEF ResetAll, ResetCmd, ResetDat, ResetHost
  <2>3. Adma2 \in BOOLEAN /\ bus.phy \in {"unset", "bypassed"}
    BY <1>1 DEF Bus
  <2>4. [b EXCEPT !.dma = Adma2, !.phy = bus.phy] \in Bus
    BY <2>3 DEF Bus
  <2> QED BY <1>1, <2>2, <2>4
<1> QED
  BY <1>2, <1>3, <1>4, <1>5, <1>6, <1>7, <1>8, <1>9 DEF BusOps, SetSpeed

LEMMA RequestsTyped ==
  ASSUME TypeOK, Requests
  PROVE  TypeOK'
<1> USE KindsAssumption
<1>1. CASE IssueRequest
  <2>1. PICK k \in Kinds :
          /\ bus' = [bus EXCEPT !.mode = ModeFor(k)] /\ req' = k /\ blocks' = k.blocks
          /\ left' = IF k.data = "none" THEN 0 ELSE Counted(bus'.mode)
          /\ required' = RequiredFor(k)
    BY <1>1 DEF IssueRequest
  <2>2. k \in Kind /\ k.blocks \in Nat /\ bus \in Bus
    BY DEF TypeOK, Kind
  <2>3. ModeFor(k) \in Mode
    <3>1. bus.mode \in Mode
      BY <2>2 DEF Bus
    <3>2. [bus.mode EXCEPT !.dma = FALSE, !.auto12 = FALSE] \in Mode
      BY <3>1 DEF Mode
    <3>3. TransferMode(k) \in Mode
      <4>1. /\ (k.data = "dma") \in BOOLEAN /\ (k.dir = "read") \in BOOLEAN
            /\ (k.blocks > 1) \in BOOLEAN
        BY <2>2
      <4> QED BY <2>2, <4>1 DEF TransferMode, Mode
    <3> QED BY <3>2, <3>3 DEF ModeFor
  <2>4. bus' \in Bus /\ bus'.mode \in Mode
    BY <2>1, <2>2, <2>3 DEF Bus
  <2>5. left' \in Nat
    BY <2>1, <2>4 DEF Counted, Mode
  <2>6. required' \subseteq EVENTS
    BY <2>1 DEF RequiredFor, EVENTS, NORMAL
  <2>7. /\ outstanding' = TRUE /\ currentEvents' = {} /\ status' = "NOT_SET"
        /\ stage' = "command" /\ buffer' = "empty" /\ failed' = FALSE
        /\ host' = "waiting" /\ phase' = "command" /\ lost' \in BOOLEAN /\ garbled' = FALSE
        /\ UNCHANGED <<enabled, intsts, dpc, threadVars, runVars, raced>>
    BY <1>1 DEF IssueRequest
  <2> QED
    BY <2>1, <2>2, <2>4, <2>5, <2>6, <2>7 DEF TypeOK, Hosts, threadVars, runVars
<1>2. CASE RefuseRequest
  BY <1>2 DEF RefuseRequest, TypeOK, hwVars, intVars, threadVars, runVars, historyVars, Hosts
<1>3. CASE IssueTransfer
  BY <1>3 DEF IssueTransfer, TypeOK, hwVars, intVars, runVars, Hosts
<1> QED
  BY <1>1, <1>2, <1>3 DEF Requests

LEMMA TransferTyped ==
  ASSUME TypeOK, Transfer
  PROVE  TypeOK'
<1>1. /\ UNCHANGED <<bus, req, phase, stage, left, failed, intVars, runVars, raced>>
      /\ step' \in {"none", "taken", "moved", "last", "loaded", "stored"}
  BY DEF Transfer, StartAdmaTransfer, StartPioTransfer, PioTake, PioMove, PioSucceed, PioEnd,
         PioLoad, PioStore, PioAgain, TransferStep
<1>2. host' \in Hosts /\ outstanding' \in BOOLEAN
  <2>1. \/ \E s : CompleteRequest(s)
        \/ UNCHANGED <<host, outstanding>>
    BY Zenon DEF Transfer, StartAdmaTransfer, StartPioTransfer, PioTake, PioMove, PioSucceed,
         PioEnd, PioLoad, PioStore, PioAgain, KeepAnswer
  <2> QED BY <2>1, CompletionTyped DEF TypeOK
<1>3. /\ currentEvents' \subseteq EVENTS /\ required' \subseteq EVENTS
      /\ seen' \subseteq EVENTS /\ loaded' \subseteq EVENTS
      /\ status' \in {"NOT_SET", "SUCCESS", "MORE_PROCESSING_REQUIRED"}
  <2>1. {"BUFFER_READY", "TRANSFER_COMPLETE"} \subseteq EVENTS
    BY DEF EVENTS, NORMAL
  <2> QED
    BY <2>1 DEF TypeOK, Transfer, StartAdmaTransfer, StartPioTransfer, PioTake, PioMove,
         PioSucceed, PioEnd, PioLoad, PioStore, PioAgain, KeepAnswer
<1>4. blocks' \in Nat
  <2>1. blocks' \in {blocks, BlockDone(blocks)}
    BY DEF Transfer, StartAdmaTransfer, StartPioTransfer, PioTake, PioMove, PioSucceed, PioEnd,
         PioLoad, PioStore, PioAgain
  <2> QED BY <2>1 DEF BlockDone, WRAPPED, TypeOK
<1>5. buffer' \in {"empty", "asked", "full"} /\ garbled' \in BOOLEAN
  BY DEF TypeOK, ReadDataPort, WriteDataPort, Transfer, StartAdmaTransfer, StartPioTransfer,
         PioTake, PioMove, PioSucceed, PioEnd, PioLoad, PioStore, PioAgain
<1> QED BY <1>1, <1>2, <1>3, <1>4, <1>5 DEF TypeOK, intVars, runVars

LEMMA BusOpsTyped ==
  ASSUME TypeOK, BusOps
  PROVE  TypeOK'
<1>1. bus' \in Bus
  BY BusTyped
<1>2. CASE ResetAll \/ ResetCmd \/ ResetDat
  <2>1. /\ outstanding' = FALSE /\ host' \in Hosts
        /\ UNCHANGED <<currentEvents, req, blocks, required, status, phase, threadVars, runVars,
                       garbled>>
        /\ \/ UNCHANGED <<hwVars, intVars, raced>>
           \/ /\ stage' = "idle" /\ left' = 0 /\ buffer' = "empty" /\ intsts' = {}
              /\ enabled' \in {{}, enabled} /\ raced' = FALSE /\ UNCHANGED <<failed, lost, dpc>>
    BY <1>2 DEF ResetAll, ResetCmd, ResetDat, ResetHost, Hosts
  <2>2. outstanding' \in BOOLEAN
    BY <2>1
  <2>3. /\ stage' \in {"idle", "command", "data", "busy"} /\ left' \in Nat
        /\ buffer' \in {"empty", "asked", "full"} /\ failed' \in BOOLEAN /\ lost' \in BOOLEAN
        /\ intsts' \subseteq EVENTS /\ enabled' \subseteq EVENTS /\ dpc' \subseteq EVENTS
    BY <2>1 DEF TypeOK, hwVars, intVars
  <2>4. raced' \in BOOLEAN
    BY <2>1, Zenon DEF TypeOK
  <2> QED BY <1>1, <2>1, <2>2, <2>3, <2>4 DEF TypeOK, threadVars, runVars
<1>3. CASE ~(ResetAll \/ ResetCmd \/ ResetDat)
  <2>1. /\ UNCHANGED <<reqVars, hwVars, intVars, threadVars, runVars, historyVars>>
        /\ host' \in Hosts
    BY <1>3 DEF BusOps, SetClock, SetVoltage, SetBusWidth, SetSpeed, SetHighSpeed, SetUhsMode,
         SetSignaling, ExecuteTuning, SetPresetValue, EnableBlockGapInterrupt, BusOperation,
         TypeOK, Hosts
  <2> QED
    BY <1>1, <2>1 DEF TypeOK, reqVars, hwVars, intVars, threadVars, runVars, historyVars
<1> QED BY <1>2, <1>3

LEMMA SdportTyped ==
  ASSUME TypeOK, SdportTimeout \/ ToggleEvents
  PROVE  TypeOK'
<1>1. CASE SdportTimeout
  BY <1>1 DEF SdportTimeout, TypeOK, reqVars, hwVars, intVars, threadVars, runVars, historyVars,
       Hosts
<1>2. CASE ToggleEvents
  <2>1. enabled' \subseteq EVENTS /\ host' \in Hosts
    BY <1>2 DEF ToggleEvents, EnableInterrupt, DisableInterrupt, TypeOK, EVENTS, Hosts
  <2>2. UNCHANGED <<bus, reqVars, hwVars, lost, intsts, dpc, threadVars, runVars, historyVars>>
    BY <1>2 DEF ToggleEvents
  <2> QED BY <2>1, <2>2 DEF TypeOK, reqVars, hwVars, threadVars, runVars, historyVars
<1> QED BY <1>1, <1>2

LEMMA StepsTyped ==
  ASSUME TypeOK, [Next]_vars
  PROVE  TypeOK'
<1>1. CASE Next
  BY <1>1, HardwareTyped, InterruptTyped, DpcTyped, RequestsTyped, TransferTyped, BusOpsTyped,
     SdportTyped DEF Next, Interrupt, Sdport
<1>2. CASE UNCHANGED vars
  BY <1>2 DEF vars, TypeOK, reqVars, hwVars, intVars, threadVars, runVars, historyVars
<1> QED BY <1>1, <1>2

-----------------------------------------------------------------------------
(* The bus.                                                                *)

\* What leaves the bus and the command alone, once the bus has been set up.
LEMMA BusLeft ==
  ASSUME BusInv, CommandHasClock, SuccessIsDone', UNCHANGED <<bus, req, stage>>,
         raced => raced',
         \/ host' = host
         \/ /\ host \notin {"down", "reset", "powered"}
            /\ host' \in {"waiting", "transfer", "failed", "masked", "done"}
         \/ host = "resetDone" /\ host' = "ready"
  PROVE  BusInv' /\ CommandHasClock'
<1>1. BusInv'
  BY DEF BusInv, SuccessIsDone, IdleHosts
<1>2. CommandHasClock'
  BY DEF CommandHasClock, IsData
<1> QED BY <1>1, <1>2

\* A bus operation, by what it makes of the registers.
LEMMA BusOperated ==
  ASSUME BusInv, NEW from, from \subseteq IdleHosts, NEW to, NEW registers,
         BusOperation(from, to, registers),
         to # "down" => registers.dma = Adma2,
         to \notin {"down", "reset"} => registers.power,
         to \notin {"down", "reset", "powered"} =>
           {"internal", "enable"} \subseteq registers.clock /\ registers.phy # "unset"
  PROVE  BusInv' /\ CommandHasClock'
<1>1. /\ bus' = registers /\ host' = to /\ stage' = stage /\ raced' = raced
      /\ ~raced => stage = "idle"
  BY DEF BusOperation, hwVars, historyVars, BusInv
<1> QED BY <1>1 DEF BusInv, CommandHasClock

LEMMA HardwareBus ==
  ASSUME BusInv, CommandHasClock, Hardware
  PROVE  BusInv' /\ CommandHasClock'
<1>1. UNCHANGED <<bus, req, host, raced>> /\ stage # "idle"
  BY DEF Hardware, HwRespond, HwError, HwMove, HwEnd, HwStep, reqVars, historyVars
<1> QED BY <1>1 DEF BusInv, CommandHasClock, IsData

LEMMA RequestsBus ==
  ASSUME TypeOK, BusInv, CommandHasClock, SuccessIsDone', Requests
  PROVE  BusInv' /\ CommandHasClock'
<1>1. CASE IssueRequest
  <2>1. PICK k \in Kinds : bus' = [bus EXCEPT !.mode = ModeFor(k)] /\ req' = k
    BY <1>1 DEF IssueRequest
  <2>2. host \in {"ready", "done"} /\ host' = "waiting" /\ bus \in Bus
    BY <1>1 DEF IssueRequest, TypeOK
  <2>3. /\ bus'.power = bus.power /\ bus'.clock = bus.clock /\ bus'.phy = bus.phy
        /\ bus'.dma = bus.dma /\ bus'.mode = ModeFor(k)
    BY <2>1, <2>2 DEF Bus
  <2>4. BusInv'
    BY <2>2, <2>3 DEF BusInv, IdleHosts
  <2>5. ModeFor(k).dma => k.data = "dma" /\ Adma2
    <3>1. bus.mode \in Mode
      BY <2>2 DEF Bus
    <3> QED BY <3>1, KindsAssumption DEF ModeFor, TransferMode, Mode
  <2>6. ModeFor(k).auto12 => k.data # "none" /\ k.blocks > 1
    <3>1. bus.mode \in Mode
      BY <2>2 DEF Bus
    <3> QED BY <3>1 DEF ModeFor, TransferMode, Mode
  <2>7. CommandHasClock'
    BY <2>1, <2>2, <2>3, <2>5, <2>6 DEF CommandHasClock, BusInv, IsData
  <2> QED BY <2>4, <2>7
<1>2. CASE RefuseRequest \/ IssueTransfer
  <2>1. UNCHANGED <<bus, req, stage>>
    BY <1>2 DEF RefuseRequest, IssueTransfer, hwVars
  <2>2. \/ host \in Ready /\ host' = "failed"
        \/ host = "transfer" /\ host' = "waiting"
    BY <1>2 DEF RefuseRequest, IssueTransfer, Ready
  <2>3. raced => raced'
    BY <1>2, Zenon DEF RefuseRequest, IssueTransfer, historyVars
  <2> QED BY <2>1, <2>2, <2>3, BusLeft DEF Ready
<1> QED BY <1>1, <1>2 DEF Requests

LEMMA TransferBus ==
  ASSUME BusInv, CommandHasClock, SuccessIsDone', Transfer
  PROVE  BusInv' /\ CommandHasClock'
<1>1. UNCHANGED <<bus, req, stage, raced>>
  BY DEF Transfer, StartAdmaTransfer, StartPioTransfer, PioTake, PioMove, PioSucceed, PioEnd,
         PioLoad, PioStore, PioAgain, TransferStep
<1>2. host' = host \/ (host = "waiting" /\ host' \in {"transfer", "failed", "done"})
  BY DEF Transfer, StartAdmaTransfer, StartPioTransfer, PioTake, PioMove, PioSucceed, PioEnd,
         PioLoad, PioStore, PioAgain, KeepAnswer, CompleteRequest, AfterCompletion
<1> QED BY <1>1, <1>2, BusLeft

LEMMA DpcBus ==
  ASSUME BusInv, CommandHasClock, SuccessIsDone', RequestDpc \/ DpcLoad \/ DpcStore \/ DpcAnswer
  PROVE  BusInv' /\ CommandHasClock'
<1>1. UNCHANGED <<bus, req, stage>>
  BY DEF RequestDpc, DpcLoad, DpcStore, DpcAnswer, DpcStep, hwVars
<1>2. raced => raced'
  BY Zenon DEF RequestDpc, DpcLoad, DpcStore, DpcAnswer, DpcStep, historyVars
<1>3. host' = host \/ (host = "waiting" /\ host' \in {"transfer", "failed", "done"})
  BY DEF RequestDpc, DpcLoad, DpcStore, DpcAnswer, CompleteRequest, AfterCompletion
<1> QED BY <1>1, <1>2, <1>3, BusLeft

LEMMA OperationsBus ==
  ASSUME TypeOK, BusInv, CommandHasClock, BusOps
  PROVE  BusInv' /\ CommandHasClock'
<1> USE SettingsAssumption
<1>1. /\ bus \in Bus /\ {"powered"} \cup Ready \subseteq IdleHosts
      /\ {"reset"} \subseteq IdleHosts /\ {"powered"} \subseteq IdleHosts /\ Ready \subseteq IdleHosts
  BY DEF TypeOK, Ready, IdleHosts
<1>2. host # "down" => bus.dma = Adma2
  BY DEF BusInv
<1>3. host \in Ready => /\ bus.power /\ {"internal", "enable"} \subseteq bus.clock
                       /\ bus.phy # "unset"
  BY DEF BusInv, Ready
<1>4. CASE SetClock
  <2> DEFINE started == PhyConfigured([bus EXCEPT !.clock = {"internal"}])
  <2>1. /\ started.dma = bus.dma /\ started.power = bus.power /\ started.phy = "bypassed"
        /\ started.clock = {"internal"} /\ started \in Bus
    BY <1>1 DEF PhyConfigured, Bus
  <2>2. /\ Running(started).dma = bus.dma /\ Running(started).power = bus.power
        /\ Running(started).phy = "bypassed" /\ Running(started).clock = {"internal", "enable"}
    BY <2>1 DEF Running, Bus
  <2>3. ASSUME BusOperation({"powered"} \cup Ready, "down", Off(bus)) PROVE BusInv' /\ CommandHasClock'
    BY <1>1, <2>3, BusOperated
  <2>4. ASSUME BusOperation({"powered"} \cup Ready, "down", started) PROVE BusInv' /\ CommandHasClock'
    BY <1>1, <2>4, BusOperated
  <2>5. ASSUME BusOperation({"powered"}, "resetDone", Running(started))
        PROVE  BusInv' /\ CommandHasClock'
    <3>1. bus.dma = Adma2 /\ bus.power
      BY <2>5 DEF BusOperation, BusInv
    <3> QED BY <1>1, <2>2, <2>5, <3>1, BusOperated
  <2>6. ASSUME BusOperation(Ready, host, Running(started)) PROVE BusInv' /\ CommandHasClock'
    <3>1. host \in Ready
      BY <2>6 DEF BusOperation
    <3> QED BY <1>1, <1>2, <1>3, <2>2, <2>6, <3>1, BusOperated DEF Ready
  <2> QED BY <1>4, <2>3, <2>4, <2>5, <2>6 DEF SetClock
<1>5. CASE SetVoltage
  <2>1. ASSUME NEW from, BusOperation(from, "down", bus') , from \subseteq IdleHosts
        PROVE  BusInv' /\ CommandHasClock'
    BY <2>1, BusOperated
  <2>2. ASSUME BusOperation({"reset"}, "powered", [bus EXCEPT !.power = TRUE])
        PROVE  BusInv' /\ CommandHasClock'
    <3>1. bus.dma = Adma2
      BY <2>2 DEF BusOperation, BusInv
    <3>2. [bus EXCEPT !.power = TRUE].dma = bus.dma /\ [bus EXCEPT !.power = TRUE].power = TRUE
      BY <1>1 DEF Bus
    <3> QED BY <1>1, <2>2, <3>1, <3>2, BusOperated
  <2> QED BY <1>1, <1>5, <2>1, <2>2 DEF SetVoltage, BusOperation
\* The operations that leave the clock running, and those that fail.
<1>6. ASSUME NEW registers \in Bus, BusOperation(Ready, host, registers),
             registers.dma = bus.dma, registers.power = bus.power,
             registers.phy = bus.phy, bus.clock \subseteq registers.clock
      PROVE  BusInv' /\ CommandHasClock'
  <2>1. host \in Ready
    BY <1>6 DEF BusOperation
  <2> QED BY <1>1, <1>2, <1>3, <1>6, <2>1, BusOperated DEF Ready
<1>7. ASSUME NEW registers, BusOperation(Ready, "down", registers)
      PROVE  BusInv' /\ CommandHasClock'
  BY <1>1, <1>7, BusOperated
<1>8. bus' \in Bus
  BY BusTyped
<1>9. CASE SetBusWidth
  BY <1>1, <1>6, <1>8, <1>9 DEF SetBusWidth, BusOperation, Bus
<1>10. CASE SetHighSpeed
  BY <1>1, <1>6, <1>8, <1>10 DEF SetHighSpeed, BusOperation, Bus
<1>11. CASE SetUhsMode
  <2>1. PICK m : BusOperation(Ready, host, Switched(bus, m))
    BY <1>11 DEF SetUhsMode
  <2>2. Switched(bus, m) = bus' /\ host \in Ready
    BY <2>1 DEF BusOperation
  <2>3. /\ Gated(bus).dma = bus.dma /\ Gated(bus).power = bus.power /\ Gated(bus).phy = bus.phy
        /\ Gated(bus).clock = bus.clock \ {"enable"} /\ Gated(bus) \in Bus
    BY <1>1, ClockTyped DEF Gated, Bus
  <2>4. /\ Switched(bus, m).dma = bus.dma /\ Switched(bus, m).power = bus.power
        /\ Switched(bus, m).phy = bus.phy
        /\ Switched(bus, m).clock = (bus.clock \ {"enable"}) \cup {"enable"}
    BY <2>3 DEF Switched, Running, Bus
  <2> QED BY <1>6, <1>8, <2>1, <2>2, <2>4
<1>12. CASE SetSignaling
  <2>1. PICK v \in BOOLEAN :
          \/ \E registers : BusOperation(Ready, "down", registers)
          \/ BusOperation(Ready, host, Running([Gated(bus) EXCEPT !.v18 = v]))
    BY <1>12 DEF SetSignaling
  <2>2. ASSUME BusOperation(Ready, host, Running([Gated(bus) EXCEPT !.v18 = v]))
        PROVE  BusInv' /\ CommandHasClock'
    <3> DEFINE b == [Gated(bus) EXCEPT !.v18 = v]
    <3>1. /\ Gated(bus).dma = bus.dma /\ Gated(bus).power = bus.power /\ Gated(bus).phy = bus.phy
          /\ Gated(bus).clock = bus.clock \ {"enable"} /\ Gated(bus) \in Bus
      BY <1>1, ClockTyped DEF Gated, Bus
    <3>2. /\ b.dma = bus.dma /\ b.power = bus.power /\ b.phy = bus.phy
          /\ b.clock = bus.clock \ {"enable"} /\ b \in Bus
      BY <3>1, FieldsTyped DEF Bus
    <3>3. /\ Running(b).dma = bus.dma /\ Running(b).power = bus.power
          /\ Running(b).phy = bus.phy
          /\ Running(b).clock = (bus.clock \ {"enable"}) \cup {"enable"}
      BY <3>2 DEF Running, Bus
    <3>4. bus' = Running(b)
      BY <2>2 DEF BusOperation
    <3> QED BY <1>6, <1>8, <2>2, <3>3, <3>4
  <2> QED BY <1>7, <2>1, <2>2
<1>13. CASE ExecuteTuning
  BY <1>1, <1>6, <1>8, <1>13 DEF ExecuteTuning, BusOperation, Bus
<1>14. CASE SetPresetValue
  BY <1>1, <1>6, <1>8, <1>14 DEF SetPresetValue, BusOperation, Bus
<1>15. CASE EnableBlockGapInterrupt
  BY <1>1, <1>6, <1>8, <1>15 DEF EnableBlockGapInterrupt, BusOperation, Bus
<1>16. CASE ResetAll \/ ResetCmd \/ ResetDat
  <2>1. CASE host' = "down" /\ UNCHANGED <<bus, stage, req, raced>>
    BY <2>1 DEF BusInv, CommandHasClock, IdleHosts, IsData
  <2>2. CASE ~(host' = "down" /\ UNCHANGED <<bus, stage, req, raced>>)
    <3>1. /\ stage' = "idle" /\ host' \in {"reset", "maskedDat", "resetDone"}
          /\ host' = "reset" \/ host \in {"masked", "maskedDat"}
          /\ \E b \in {bus, BusReset} :
               /\ bus' = [b EXCEPT !.dma = Adma2, !.phy = bus.phy]
               /\ host' # "reset" => b = bus
      BY <1>16, <2>2 DEF ResetAll, ResetCmd, ResetDat, ResetHost, hwVars
    <3>2. BusReset \in Bus
      BY DEF BusReset, NoMode, Bus, Mode
    <3>3. bus'.dma = Adma2
      BY <1>1, <3>1, <3>2 DEF Bus
    <3>4. host' # "reset" =>
            bus'.power = bus.power /\ bus'.clock = bus.clock /\ bus'.phy = bus.phy
      BY <1>1, <3>1 DEF Bus
    <3> QED BY <3>1, <3>3, <3>4 DEF BusInv, CommandHasClock
  <2> QED BY <2>1, <2>2
<1> QED
  BY <1>4, <1>5, <1>9, <1>10, <1>11, <1>12, <1>13, <1>14, <1>15, <1>16 DEF BusOps, SetSpeed

LEMMA StepsBus ==
  ASSUME TypeOK, BusInv, CommandHasClock, SuccessIsDone', [Next]_vars
  PROVE  BusInv' /\ CommandHasClock'
<1>1. CASE Hardware \/ Requests \/ Transfer \/ BusOps
  BY <1>1, HardwareBus, RequestsBus, TransferBus, OperationsBus
<1>2. CASE RequestDpc \/ DpcLoad \/ DpcStore \/ DpcAnswer
  BY <1>2, DpcBus
<1>3. CASE SlotInterrupt \/ CardInterrupt \/ SdportTimeout \/ ToggleEvents
  <2>1. UNCHANGED <<bus, reqVars, hwVars, historyVars>>
    BY <1>3 DEF SlotInterrupt, CardInterrupt, SdportTimeout, ToggleEvents
  <2>2. \/ host' = host
        \/ host \in {"waiting", "failed"} /\ host' \in {"failed", "masked"}
        \/ host = "resetDone" /\ host' = "ready"
    BY <1>3 DEF SlotInterrupt, CardInterrupt, SdportTimeout, ToggleEvents
  <2> QED BY <2>1, <2>2, BusLeft DEF reqVars, hwVars, historyVars
<1>4. CASE UNCHANGED vars
  BY <1>4, BusLeft DEF vars, reqVars, hwVars, historyVars
<1> QED
  BY <1>1, <1>2, <1>3, <1>4 DEF Next, Interrupt, Sdport

-----------------------------------------------------------------------------
(* The request.                                                            *)

\* What holds always.
LEMMA StepsAlways ==
  ASSUME TypeOK, AlwaysOK, [Next]_vars
  PROVE  AlwaysOK'
<1> DEFINE NotSeen == step \notin {"taken", "moved", "last"} => seen = {}
<1>1. AlwaysOK /\ req \in Kind
  BY DEF TypeOK
<1>2. CASE Hardware
  <2>1. UNCHANGED <<reqVars, threadVars, runVars, historyVars>> /\ (stage' # "idle" => ~failed')
    BY <1>1, <1>2 DEF AlwaysOK, Hardware, HwRespond, HwError, HwMove, HwEnd, HwStep
  <2> QED BY <1>1, <2>1 DEF AlwaysOK, reqVars, threadVars, runVars, historyVars
<1>3. CASE RequestDpc \/ DpcLoad \/ DpcStore \/ DpcAnswer
  <2>1. UNCHANGED <<req, hwVars, threadVars, garbled>>
    BY <1>3 DEF RequestDpc, DpcLoad, DpcStore, DpcAnswer, DpcStep, historyVars
  <2>2. dpcAt' = "none" => handling' = {}
    BY <1>1, <1>3 DEF AlwaysOK, RequestDpc, DpcLoad, DpcStore, DpcAnswer, DpcStep
  <2> QED BY <1>1, <2>1, <2>2 DEF AlwaysOK, hwVars, threadVars
<1>4. CASE IssueRequest
  <2>1. PICK k \in Kinds : req' = k /\ Builds(k)
    BY <1>4 DEF IssueRequest
  <2>2. /\ failed' = FALSE /\ garbled' = FALSE /\ dpcAt' = dpcAt /\ handling' = handling
        /\ step' = step /\ seen' = seen
    BY <1>4 DEF IssueRequest, threadVars, runVars
  <2>3. k.data = "pio" => k.dir \in {"read", "write"}
    BY <2>1 DEF Builds, BuildPioTransfer, ModeAccepted
  <2> QED BY <1>1, <2>1, <2>2, <2>3 DEF AlwaysOK
<1>5. CASE RefuseRequest \/ SdportTimeout \/ ToggleEvents \/ SlotInterrupt \/ CardInterrupt
           \/ UNCHANGED vars
  <2>1. UNCHANGED <<req, hwVars, threadVars, runVars, garbled>>
    BY <1>5 DEF RefuseRequest, SdportTimeout, ToggleEvents, SlotInterrupt, CardInterrupt, vars,
         reqVars, historyVars
  <2> QED BY <1>1, <2>1 DEF AlwaysOK, hwVars, threadVars, runVars
<1>6. CASE IssueTransfer
  <2>1. UNCHANGED <<req, hwVars, seen, runVars, garbled>> /\ step = "none"
    BY <1>6 DEF IssueTransfer
  <2> QED BY <1>1, <2>1 DEF AlwaysOK, hwVars, runVars
<1>7. CASE Transfer
  <2>1. UNCHANGED <<req, stage, failed, runVars>>
    BY <1>7 DEF Transfer, StartAdmaTransfer, StartPioTransfer, PioTake, PioMove, PioSucceed,
         PioEnd, PioLoad, PioStore, PioAgain, TransferStep
  <2>2. NotSeen'
    BY <1>1, <1>7 DEF AlwaysOK, Transfer, StartAdmaTransfer, StartPioTransfer, PioTake, PioMove,
         PioSucceed, PioEnd, PioLoad, PioStore, PioAgain, TransferStep
  <2>3. garbled' => garbled \/ req.size % 4 = 1
    <3>1. CASE PioMove
      <4>1. req.size \in Nat
        BY <1>1 DEF Kind
      <4>2. req.size % 4 # 1 => AllAccessed(req.size)
        BY <4>1, AllBytesMoved DEF AllAccessed
      <4>3. garbled' = (garbled \/ ~AllAccessed(req.size))
        BY <3>1 DEF PioMove
      <4> QED BY <4>2, <4>3, Zenon
    <3>2. CASE ~PioMove
      <4>1. garbled' = garbled
        BY <1>7, <3>2 DEF Transfer, StartAdmaTransfer, StartPioTransfer, PioTake,
             PioSucceed, PioEnd, PioLoad, PioStore, PioAgain
      <4> QED BY <4>1
    <3> QED BY <3>1, <3>2
  <2> QED BY <1>1, <2>1, <2>2, <2>3 DEF AlwaysOK, runVars
<1>8. CASE BusOps
  <2>1. /\ UNCHANGED <<req, threadVars, runVars, garbled>>
        /\ UNCHANGED <<stage, failed>> \/ stage' = "idle"
    BY <1>8 DEF BusOps, SetClock, SetVoltage, SetBusWidth, SetSpeed, SetHighSpeed, SetUhsMode,
         SetSignaling, ExecuteTuning, SetPresetValue, EnableBlockGapInterrupt, BusOperation,
         ResetAll, ResetCmd, ResetDat, ResetHost, reqVars, hwVars, historyVars
  <2> QED BY <1>1, <2>1 DEF AlwaysOK, threadVars, runVars
<1> QED
  BY <1>2, <1>3, <1>4, <1>5, <1>6, <1>7, <1>8 DEF Next, Interrupt, Requests, Sdport

\* Where no request is under way, nothing is said of it.
LEMMA Elsewhere ==
  ASSUME host' \notin Issued, host' # "done", step' = "none", dpcAt' = "none"
  PROVE  ApartOK' /\ SuccessIsDone'
BY DEF ApartOK, RunOK, StepOK, SuccessIsDone, Issued, Moved

\* What leaves the controller, the card and the request alone.
LEMMA HwLeft ==
  ASSUME UNCHANGED <<req, bus, hwVars>>
  PROVE  /\ CmdDone' <=> CmdDone
         /\ TransferDone' <=> TransferDone
         /\ BufferReady' <=> BufferReady
         /\ \A e : Happened(e)' <=> Happened(e)
         /\ StageOK => StageOK'
         /\ blocks' = blocks /\ BlocksOK => BlocksOK'
<1>1. CmdDone' <=> CmdDone
  BY DEF CmdDone, IsData, hwVars
<1>2. TransferDone' <=> TransferDone
  BY DEF TransferDone, hwVars
<1>3. BufferReady' <=> BufferReady
  BY DEF BufferReady, hwVars
<1>4. \A e : Happened(e)' <=> Happened(e)
  BY <1>1, <1>2, <1>3 DEF Happened, hwVars
<1>5. StageOK => StageOK'
  BY DEF StageOK, IsData, hwVars
<1>6. blocks' = blocks /\ BlocksOK => BlocksOK'
  BY DEF BlocksOK, Full, hwVars
<1> QED BY <1>1, <1>2, <1>3, <1>4, <1>5, <1>6

\* The hardware takes back nothing of what it has announced.
LEMMA HappenedStays ==
  ASSUME TypeOK, AlwaysOK, StageOK, Hardware, NEW e, Happened(e)
  PROVE  Happened(e)'
<1>1. UNCHANGED <<bus, req>> /\ stage # "idle" /\ StageOK
  BY DEF Hardware, HwRespond, HwError, HwMove, HwEnd, HwStep, reqVars
<1>2. CmdDone => CmdDone'
  BY <1>1 DEF Hardware, HwRespond, HwError, HwMove, HwEnd, CmdDone, IsData, StageOK
<1>3. ~TransferDone
  BY <1>1 DEF TransferDone
<1>4. BufferReady => BufferReady'
  BY <1>1 DEF Hardware, HwRespond, HwError, HwMove, HwEnd, BufferReady, StageOK, IsData
<1>5. failed => failed'
  BY DEF Hardware, HwRespond, HwError, HwMove, HwEnd
<1> QED BY <1>2, <1>3, <1>4, <1>5 DEF Happened

\* What it announces has happened, and a buffer is announced only when it is
\* empty and more is to move.
LEMMA LatchedHappened ==
  ASSUME TypeOK, AlwaysOK, StageOK, Hardware
  PROVE  \A e \in intsts' \ intsts :
           /\ Happened(e)'
           /\ e = "BUFFER_READY" => req.data = "pio" /\ buffer = "empty" /\ left > 0
<1>1. UNCHANGED <<bus, req>> /\ StageOK /\ (stage # "idle" => ~failed)
  BY DEF Hardware, HwRespond, HwError, HwMove, HwEnd, HwStep, reqVars, AlwaysOK
<1>2. CASE HwRespond
  <2>1. intsts' \ intsts \subseteq {"CMD_COMPLETE"} /\ CmdDone'
    BY <1>1, <1>2 DEF HwRespond, CmdDone, IsData, Latch
  <2> QED BY <2>1 DEF Happened
<1>3. CASE HwError
  BY <1>3 DEF HwError, Happened, Latch
<1>4. CASE HwEnd
  <2>1. intsts' \ intsts \subseteq {"TRANSFER_COMPLETE"} /\ TransferDone'
    BY <1>1, <1>4 DEF HwEnd, TransferDone, StageOK, Latch
  <2> QED BY <2>1 DEF Happened
<1>5. CASE HwMove
  <2>1. IsData /\ left > 0
    BY <1>1, <1>5 DEF HwMove, StageOK
  <2>2. \/ intsts' \subseteq intsts
        \/ /\ intsts' \ intsts \subseteq {"BUFFER_READY"} /\ ~bus.mode.dma /\ buffer = "empty"
           /\ buffer' = IF bus.mode.read THEN "full" ELSE "asked"
    BY <1>5 DEF HwMove, Latch
  <2>3. CASE /\ intsts' \ intsts \subseteq {"BUFFER_READY"} /\ ~bus.mode.dma /\ buffer = "empty"
             /\ buffer' = IF bus.mode.read THEN "full" ELSE "asked"
    <3>1. req.data = "pio"
      BY <1>1, <2>1, <2>3 DEF StageOK, IsData, TypeOK, Kind
    <3>2. BufferReady'
      BY <1>1, <2>1, <2>3, <3>1 DEF BufferReady, StageOK
    <3> QED BY <2>1, <2>3, <3>1, <3>2 DEF Happened
  <2> QED BY <2>2, <2>3
<1> QED BY <1>2, <1>3, <1>4, <1>5 DEF Hardware

LEMMA HardwareApart ==
  ASSUME TypeOK, AlwaysOK, ApartOK, SuccessIsDone, ~raced, Hardware
  PROVE  ApartOK' /\ SuccessIsDone'
<1>1. /\ UNCHANGED <<bus, reqVars, host, dpc, threadVars, runVars, historyVars>>
      /\ stage # "idle" /\ ~failed /\ req' = req /\ blocks' = blocks /\ required' = required
  BY DEF Hardware, HwRespond, HwError, HwMove, HwEnd, HwStep, AlwaysOK, reqVars
<1>2. host # "done" /\ RunOK /\ StepOK
  BY <1>1 DEF SuccessIsDone, ApartOK
<1>3. RunOK'
  BY <1>1, <1>2 DEF RunOK, reqVars, threadVars, runVars
<1>4. SuccessIsDone'
  BY <1>1, <1>2 DEF SuccessIsDone
<1>5. CASE host \notin Issued
  <2>1. step = "none" /\ step' = "none" /\ host' \notin Issued
    BY <1>1, <1>2, <1>5 DEF StepOK, Issued, threadVars
  <2> QED BY <1>3, <1>4, <2>1 DEF ApartOK, StepOK, Issued, Moved
<1>6. CASE host \in Issued
  <2>1. /\ StageOK /\ BlocksOK /\ SeenOK /\ OnceOK /\ req \in Kind
        /\ host = "waiting" /\ step = "none" => WaitingOK
        /\ host = "transfer" \/ step \in {"start", "taken"} => TransferOK
    BY <1>6 DEF ApartOK, TypeOK
  <2>2. StageOK'
    BY <1>1, <2>1 DEF StageOK, IsData, Hardware, HwRespond, HwError, HwMove, HwEnd, TypeOK
  <2>3. BlocksOK'
    <3>1. CASE HwMove /\ req.data = "pio"
      <4>1. ~bus.mode.dma /\ (bus.mode.read <=> req.dir = "read")
        BY <2>1, <3>1 DEF StageOK, IsData
      <4>2. blocks \in Nat /\ left \in Nat /\ blocks' = blocks /\ req' = req
        BY <1>1 DEF TypeOK
      <4>3. CASE req.dir = "read"
        BY <2>1, <3>1, <4>1, <4>2, <4>3 DEF BlocksOK, Full, HwMove
      <4>4. CASE req.dir # "read"
        BY <2>1, <3>1, <4>1, <4>2, <4>4 DEF BlocksOK, Full, HwMove
      <4> QED BY <4>3, <4>4
    <3>2. CASE ~(HwMove /\ req.data = "pio")
      <4>1. req.data = "pio" => UNCHANGED <<left, buffer>>
        BY <3>2 DEF Hardware, HwRespond, HwError, HwEnd
      <4> QED BY <1>1, <2>1, <4>1 DEF BlocksOK, Full
    <3> QED BY <3>1, <3>2
  <2>4. \A e : Happened(e) => Happened(e)'
    BY <2>1, HappenedStays
  <2>5. \A e \in intsts' \ intsts :
          /\ Happened(e)'
          /\ e = "BUFFER_READY" => req.data = "pio" /\ buffer = "empty" /\ left > 0
    BY <2>1, LatchedHappened
  <2>6. SeenOK'
    <3>1. "TRANSFER_COMPLETE" \notin currentEvents' \cup seen'
      BY <1>1, <2>1 DEF SeenOK, TransferDone, reqVars, threadVars
    <3>2. \A e \in intsts' \cup dpc' \cup handling' : Happened(e)'
      BY <1>1, <2>1, <2>4, <2>5 DEF SeenOK, runVars
    <3> QED BY <3>1, <3>2 DEF SeenOK
  <2>7. OnceOK'
    <3>1. CASE "BUFFER_READY" \notin intsts' \ intsts
      BY <1>1, <2>1, <3>1 DEF OnceOK, threadVars, runVars
    <3>2. CASE "BUFFER_READY" \in intsts' \ intsts
      <4>1. req.data = "pio" /\ buffer = "empty" /\ left > 0 /\ ~BufferReady
        BY <2>5, <3>2 DEF BufferReady
      <4>2. "BUFFER_READY" \notin intsts \cup dpc \cup handling
        BY <2>1, <4>1 DEF SeenOK, Happened
      <4>3. host = "waiting" /\ step \notin {"start", "taken"}
        BY <1>6, <2>1, <4>1 DEF TransferOK, Issued
      <4>4. blocks # 0 /\ blocks > 0
        BY <2>1, <4>1 DEF BlocksOK, Full, TypeOK
      <4>5. "BUFFER_READY" \in required \/ step \in {"moved", "loaded"}
        <5>1. CASE step = "none"
          <6>1. WaitingOK
            BY <2>1, <4>3, <5>1
          <6>2. CASE phase = "command"
            BY <4>1, <6>1, <6>2 DEF WaitingOK, Happened, RequiredFor
          <6>3. CASE phase = "transfer"
            BY <4>1, <4>4, <6>1, <6>3 DEF WaitingOK
          <6> QED BY <6>2, <6>3 DEF TypeOK
        <5>2. CASE step # "none"
          <6>1. step \in Moved /\ MovedOK
            BY <1>2, <4>3, <5>2 DEF StepOK, Moved, TypeOK
          <6> QED BY <4>4, <6>1 DEF MovedOK, Moved
        <5> QED BY <5>1, <5>2
      <4> QED BY <1>1, <4>2, <4>3, <4>4, <4>5 DEF OnceOK, threadVars, runVars
    <3> QED BY <3>1, <3>2
  <2>8. (CmdDone => CmdDone') /\ (BufferReady => BufferReady') /\ (TransferDone => TransferDone')
    BY <2>4 DEF Happened
  <2>9. host = "waiting" /\ step = "none" => WaitingOK'
    BY <1>1, <2>1, <2>4, <2>8 DEF WaitingOK, reqVars, runVars, RequiredFor
  <2>10. host = "transfer" \/ step \in {"start", "taken"} => TransferOK'
    BY <1>1, <2>1, <2>8 DEF TransferOK, IsData, reqVars
  <2>11. StepOK'
    <3>1. MovedOK => MovedOK'
      BY <1>1, <2>8 DEF MovedOK, reqVars, threadVars
    <3> QED BY <1>1, <1>2, <3>1 DEF StepOK, reqVars, threadVars
  <2> QED
    BY <1>1, <1>3, <1>4, <2>2, <2>3, <2>6, <2>7, <2>9, <2>10, <2>11
       DEF ApartOK, reqVars, threadVars
<1> QED BY <1>5, <1>6

\* Events that only move on, or are dropped.
LEMMA InterruptApart ==
  ASSUME ApartOK, SuccessIsDone,
         UNCHANGED <<bus, reqVars, hwVars, host, threadVars, runVars, historyVars>>,
         intsts' \cup dpc' \subseteq intsts \cup dpc, intsts' = {} \/ dpc' = dpc
  PROVE  ApartOK' /\ SuccessIsDone'
<1>1. SuccessIsDone'
  BY DEF SuccessIsDone, reqVars, hwVars, historyVars
<1>2. UNCHANGED <<req, blocks, required, currentEvents, step, seen, handling, dpcAt, host>>
  BY DEF reqVars, threadVars, runVars
<1>3. /\ CmdDone' <=> CmdDone
      /\ TransferDone' <=> TransferDone
      /\ BufferReady' <=> BufferReady
      /\ \A e : Happened(e)' <=> Happened(e)
      /\ StageOK => StageOK'
      /\ BlocksOK => BlocksOK'
  BY <1>2, HwLeft
<1>4. SeenOK => SeenOK'
  BY <1>2, <1>3 DEF SeenOK
<1>5. OnceOK => OnceOK'
  <2>1. intsts' \cap dpc' \subseteq intsts \cap dpc
    OBVIOUS
  <2> QED BY <1>2, <2>1 DEF OnceOK
<1>6. WaitingOK => WaitingOK'
  <2>1. UNCHANGED <<outstanding, status, phase, RequiredFor(req)>>
    BY DEF reqVars, RequiredFor
  <2> QED BY <1>2, <1>3, <2>1 DEF WaitingOK
<1>7. TransferOK => TransferOK'
  BY <1>2, <1>3 DEF TransferOK, IsData
<1>8. StepOK => StepOK'
  BY <1>2, <1>3 DEF StepOK, MovedOK, reqVars, threadVars
<1>9. RunOK => RunOK'
  BY <1>2 DEF RunOK, runVars
<1> QED
  BY <1>1, <1>2, <1>3, <1>4, <1>5, <1>6, <1>7, <1>8, <1>9 DEF ApartOK

\* The DPC hands over what is raised, and says that it is at it.
LEMMA RequestDpcApart ==
  ASSUME TypeOK, AlwaysOK, ApartOK, SuccessIsDone, ~raced', ~raced, RequestDpc
  PROVE  ApartOK' /\ SuccessIsDone'
<1>1. /\ UNCHANGED <<bus, outstanding, req, blocks, required, status, phase, hwVars, intsts, host,
                     threadVars, garbled>>
      /\ dpc' = {} /\ dpcAt = "none" /\ handling = {} /\ required' = required /\ host' = host
  BY DEF RequestDpc, AlwaysOK
<1>2. step = "none" /\ step' = "none"
  <2>1. raced' = (raced \/ step # "none")
    BY DEF RequestDpc
  <2>2. ~(step # "none")
    BY <2>1, Zenon
  <2> QED BY <1>1, <2>2 DEF threadVars
<1>3. SuccessIsDone'
  BY <1>1 DEF SuccessIsDone, hwVars
<1>4. CASE host \notin Issued
  <2>1. RunOK'
    BY <1>1, <1>2, <1>4 DEF RequestDpc, RunOK, Issued
  <2> QED BY <1>1, <1>2, <1>3, <1>4, <2>1 DEF ApartOK, StepOK, Issued, Moved
<1>5. CASE host \in Issued
  <2>1. /\ StageOK /\ BlocksOK /\ SeenOK /\ OnceOK
        /\ host = "waiting" => WaitingOK
        /\ host = "transfer" => TransferOK
    BY <1>2, <1>5 DEF ApartOK
  <2>2. /\ dpcAt' \in {"none", "saved"} /\ handling' \subseteq dpc
        /\ currentEvents' = currentEvents \cup dpc
    BY <1>1, <1>5 DEF RequestDpc, Saved, Issued
  <2>3. /\ CmdDone' <=> CmdDone
        /\ TransferDone' <=> TransferDone
        /\ BufferReady' <=> BufferReady
        /\ \A e : Happened(e)' <=> Happened(e)
        /\ StageOK => StageOK'
        /\ BlocksOK => BlocksOK'
    BY <1>1, HwLeft
  <2>4. SeenOK'
    <3>1. "TRANSFER_COMPLETE" \in dpc => TransferDone
      BY <2>1 DEF SeenOK, Happened
    <3>2. \A e \in intsts' \cup dpc' \cup handling' : Happened(e)'
      BY <1>1, <2>1, <2>2, <2>3 DEF SeenOK
    <3>3. seen' = seen
      BY <1>1 DEF threadVars
    <3> QED BY <2>1, <2>2, <2>3, <3>1, <3>2, <3>3 DEF SeenOK
  <2>5. OnceOK'
    BY <1>1, <1>2, <2>1, <2>2 DEF OnceOK
  <2>6. WaitingOK => WaitingOK'
    <3>1. RequiredFor(req)' = RequiredFor(req)
      BY <1>1 DEF RequiredFor
    <3>2. WaitingOK => required # {}
      BY <1>1 DEF WaitingOK
    <3> QED BY <1>1, <2>3, <3>1, <3>2 DEF WaitingOK
  <2>7. TransferOK => TransferOK'
    BY <1>1, <2>3 DEF TransferOK, IsData
  <2>8. RunOK' /\ StepOK'
    BY <1>1, <1>2, <1>5, <2>2 DEF RunOK, StepOK, Issued, Moved
  <2> QED
    BY <1>1, <1>2, <1>3, <2>1, <2>3, <2>4, <2>5, <2>6, <2>7, <2>8 DEF ApartOK
<1> QED BY <1>4, <1>5

\* It takes what it handles off what is awaited.
LEMMA DpcStoreApart ==
  ASSUME TypeOK, AlwaysOK, ApartOK, SuccessIsDone, ~raced, DpcLoad \/ DpcStore
  PROVE  ApartOK' /\ SuccessIsDone'
<1>1. /\ UNCHANGED <<bus, req, blocks, phase, hwVars, intVars, threadVars, historyVars,
                     outstanding, currentEvents, status, host, handling>>
      /\ dpcAt' # "none" /\ step' = step /\ seen' = seen /\ intsts' = intsts /\ dpc' = dpc
      /\ dpcAt \in {"saved", "loaded"} /\ handling' = handling
      /\ required' = required \/ (required' = required \ handling /\ dpcAt' = "stored")
  BY DEF DpcLoad, DpcStore, DpcStep, threadVars, intVars, ApartOK, RunOK
<1>2. step = "none" /\ RunOK /\ host \in {"waiting", "transfer", "done"}
  BY <1>1 DEF ApartOK, RunOK
<1>3. SuccessIsDone'
  BY <1>1 DEF SuccessIsDone, hwVars, historyVars
<1>4. RunOK'
  BY <1>1, <1>2 DEF RunOK, DpcLoad, DpcStore, DpcStep
<1>5. StepOK'
  BY <1>1, <1>2 DEF StepOK, Moved
<1>6. CASE host \notin Issued
  BY <1>1, <1>2, <1>3, <1>4, <1>5, <1>6 DEF ApartOK, Issued
<1>7. CASE host \in Issued
  <2>1. /\ StageOK /\ BlocksOK /\ SeenOK /\ OnceOK
        /\ host = "waiting" => WaitingOK
        /\ host = "transfer" => TransferOK
    BY <1>2, <1>7 DEF ApartOK
  <2>2. /\ CmdDone' <=> CmdDone
        /\ TransferDone' <=> TransferDone
        /\ BufferReady' <=> BufferReady
        /\ \A e : Happened(e)' <=> Happened(e)
        /\ StageOK => StageOK'
        /\ BlocksOK => BlocksOK'
    BY <1>1, HwLeft
  <2>3. \A e \in handling : Happened(e)
    BY <2>1 DEF SeenOK
  <2>4. SeenOK'
    BY <1>1, <2>1, <2>2 DEF SeenOK
  <2>5. OnceOK'
    BY <1>1, <2>1 DEF OnceOK
  <2>6. WaitingOK => WaitingOK'
    <3>1. SUFFICES ASSUME WaitingOK PROVE WaitingOK'
      OBVIOUS
    <3>2. RequiredFor(req)' = RequiredFor(req) /\ required # {}
      BY <1>1, <3>1 DEF RequiredFor, WaitingOK
    <3>3. CASE required' = required
      BY <1>1, <2>2, <3>1, <3>2, <3>3 DEF WaitingOK
    <3>4. CASE required' = required \ handling /\ dpcAt' = "stored"
      <4>1. ASSUME phase = "command", NEW e \in RequiredFor(req), e \notin required'
            PROVE  Happened(e)
        BY <2>3, <3>1, <3>4, <4>1 DEF WaitingOK
      <4>2. ASSUME phase = "transfer"
            PROVE  required' = required
                     \/ /\ required' = {}
                        /\ status = "MORE_PROCESSING_REQUIRED" => BufferReady
                        /\ status = "SUCCESS" => TransferDone
        BY <2>3, <3>1, <3>2, <3>4, <4>2 DEF WaitingOK, Happened
      <4>3. phase = "command" => /\ status # "MORE_PROCESSING_REQUIRED"
                                 /\ required' \subseteq RequiredFor(req)
        BY <3>1, <3>4 DEF WaitingOK
      <4>4. "BUFFER_READY" \in required' => blocks > 0
        BY <3>1, <3>4 DEF WaitingOK
      <4>5. phase = "transfer" =>
              /\ req.data = "pio" /\ CmdDone
              /\ \/ /\ status = "MORE_PROCESSING_REQUIRED"
                    /\ required' = {"BUFFER_READY"} \/ (required' = {} /\ BufferReady)
                 \/ /\ status = "SUCCESS" /\ blocks = 0
                    /\ required' = {"TRANSFER_COMPLETE"} \/ (required' = {} /\ TransferDone)
        BY <3>1, <3>2, <4>2 DEF WaitingOK
      <4>6. outstanding' /\ UNCHANGED <<phase, status, blocks, req>>
        BY <1>1, <3>1 DEF WaitingOK
      <4> QED BY <1>1, <2>2, <3>2, <3>4, <4>1, <4>3, <4>4, <4>5, <4>6 DEF WaitingOK
    <3> QED BY <1>1, <3>3, <3>4
  <2>7. TransferOK => TransferOK'
    BY <1>1, <2>2 DEF TransferOK, IsData
  <2> QED
    BY <1>1, <1>2, <1>3, <1>4, <1>5, <2>1, <2>2, <2>4, <2>5, <2>6, <2>7 DEF ApartOK
<1> QED BY <1>6, <1>7

\* A request whose events have all come is done, or goes on.
LEMMA AnsweredApart ==
  ASSUME TypeOK, AlwaysOK, ApartOK, ~raced, host = "waiting", DpcAnswer,
         "ERROR" \notin handling, required = {}
  PROVE  ApartOK' /\ SuccessIsDone'
<1> DEFINE outcome == IF status = "MORE_PROCESSING_REQUIRED" THEN status ELSE "SUCCESS"
<1>1. dpcAt = "stored" /\ step = "none" /\ WaitingOK /\ RunOK
  BY DEF DpcAnswer, DpcStep, ApartOK, RunOK
<1>2. /\ StageOK /\ BlocksOK /\ SeenOK /\ OnceOK /\ (stage # "idle" => ~failed)
      /\ req \in Kind /\ phase \in {"command", "transfer"}
  BY DEF ApartOK, AlwaysOK, TypeOK, Issued
<1>3. /\ UNCHANGED <<bus, req, blocks, phase, hwVars, intVars, threadVars, historyVars>>
      /\ dpcAt' = "none" /\ handling' = {} /\ required' = {} /\ currentEvents' = currentEvents
      /\ status' = outcome /\ host' = AfterCompletion(outcome)
  BY DEF DpcAnswer, DpcStep, CompleteRequest
<1>4. step' = "none" /\ seen' = seen /\ intsts' = intsts /\ dpc' = dpc
  BY <1>1, <1>3 DEF threadVars, intVars
<1>5. /\ CmdDone' <=> CmdDone
      /\ TransferDone' <=> TransferDone
      /\ BufferReady' <=> BufferReady
      /\ \A e : Happened(e)' <=> Happened(e)
      /\ StageOK => StageOK'
      /\ BlocksOK => BlocksOK'
  BY <1>3, HwLeft
<1>6. phase = "command" => \A e \in RequiredFor(req) : Happened(e)
  BY <1>1 DEF WaitingOK
<1>7. CmdDone
  <2>1. CASE phase = "command"
    BY <1>6, <2>1 DEF RequiredFor, Happened
  <2>2. CASE phase = "transfer"
    BY <1>1, <2>2 DEF WaitingOK
  <2> QED BY <1>2, <2>1, <2>2
<1>8. SeenOK'
  BY <1>2, <1>3, <1>4, <1>5 DEF SeenOK
<1>9. OnceOK'
  BY <1>1, <1>2, <1>3, <1>4 DEF OnceOK
<1>10. RunOK' /\ StepOK'
  BY <1>3, <1>4 DEF RunOK, StepOK, Moved
<1>11. CASE host' = "transfer"
  <2>1. IsData
    <3>1. CASE phase = "command"
      BY <1>1, <1>3, <1>11, <3>1 DEF WaitingOK, AfterCompletion, IsData
    <3>2. CASE phase = "transfer"
      BY <1>1, <3>2 DEF WaitingOK, IsData
    <3> QED BY <1>2, <3>1, <3>2
  <2>2. req.data = "pio" => BufferReady
    <3>1. CASE phase = "command"
      BY <1>6, <3>1 DEF RequiredFor, Happened
    <3>2. CASE phase = "transfer"
      <4>1. status = "MORE_PROCESSING_REQUIRED"
        BY <1>3, <1>11, <3>2 DEF AfterCompletion
      <4> QED BY <1>1, <3>2, <4>1 DEF WaitingOK
    <3> QED BY <1>2, <3>1, <3>2
  <2>3. req.data = "dma" => TransferDone
    <3>1. CASE phase = "command"
      BY <1>6, <3>1 DEF RequiredFor, Happened
    <3>2. CASE phase = "transfer"
      BY <1>1, <3>2 DEF WaitingOK
    <3> QED BY <1>2, <3>1, <3>2
  <2>4. TransferOK'
    BY <1>3, <1>5, <1>7, <2>1, <2>2, <2>3 DEF TransferOK, IsData
  <2> QED
    BY <1>2, <1>4, <1>5, <1>8, <1>9, <1>10, <1>11, <2>4 DEF ApartOK, SuccessIsDone
<1>12. CASE host' = "done"
  <2>1. status # "MORE_PROCESSING_REQUIRED" /\ ~(phase = "command" /\ IsData)
    BY <1>3, <1>12 DEF AfterCompletion, IsData
  <2>2. stage = "idle" /\ ~failed /\ left = 0 /\ (req.data = "pio" => blocks = 0 /\ buffer = "empty")
    <3>1. CASE phase = "command"
      <4>1. ~IsData /\ req.data # "pio" /\ left = 0
        BY <1>2, <2>1, <3>1 DEF StageOK, IsData
      <4>2. req.busy => TransferDone
        BY <1>6, <3>1 DEF RequiredFor, Happened
      <4> QED BY <1>7, <4>1, <4>2 DEF CmdDone, TransferDone
    <3>2. CASE phase = "transfer"
      <4>1. TransferDone /\ blocks = 0 /\ req.data = "pio"
        BY <1>1, <2>1, <3>2 DEF WaitingOK
      <4>2. buffer = "empty"
        BY <1>2, <4>1 DEF BlocksOK, Full, TransferDone, TypeOK
      <4> QED BY <4>1, <4>2 DEF TransferDone
    <3> QED BY <1>2, <3>1, <3>2
  <2>3. SuccessIsDone'
    <3>1. garbled' => req'.size % 4 = 1
      BY <1>3 DEF AlwaysOK, historyVars
    <3> QED BY <1>3, <2>2, <3>1 DEF SuccessIsDone, hwVars
  <2> QED BY <1>4, <1>10, <1>12, <2>3 DEF ApartOK, Issued
<1>13. host' \in {"transfer", "done"}
  BY <1>3 DEF AfterCompletion
<1> QED BY <1>11, <1>12, <1>13

LEMMA DpcAnswerApart ==
  ASSUME TypeOK, AlwaysOK, ApartOK, SuccessIsDone, ~raced, DpcAnswer
  PROVE  ApartOK' /\ SuccessIsDone'
<1>1. /\ UNCHANGED <<bus, req, blocks, phase, hwVars, intVars, threadVars, historyVars>>
      /\ dpcAt = "stored" /\ dpcAt' = "none" /\ handling' = {}
      /\ step' = step /\ seen' = seen /\ intsts' = intsts /\ dpc' = dpc
  BY DEF DpcAnswer, DpcStep, threadVars, intVars
<1>2. step = "none" /\ RunOK /\ host \in {"waiting", "transfer", "done"}
  BY <1>1 DEF ApartOK, RunOK
<1>3. RunOK' /\ StepOK'
  BY <1>1, <1>2 DEF RunOK, StepOK, Moved
<1>4. CASE host = "done"
  <2>1. host' = "done"
    BY <1>4 DEF DpcAnswer, CompleteRequest
  <2>2. SuccessIsDone'
    BY <1>1, <1>4 DEF SuccessIsDone, hwVars, historyVars
  <2> QED BY <1>1, <1>2, <1>3, <2>1, <2>2 DEF ApartOK, Issued
<1>5. CASE host = "waiting" /\ "ERROR" \in handling
  <2>1. host' = "failed"
    BY <1>5 DEF DpcAnswer, CompleteRequest, AfterCompletion
  <2> QED BY <1>1, <1>2, <2>1, Elsewhere DEF Issued
<1>6. CASE host = "waiting" /\ "ERROR" \notin handling /\ required = {}
  BY <1>6, AnsweredApart
<1>7. CASE host = "transfer" \/ (host = "waiting" /\ "ERROR" \notin handling /\ required # {})
  <2>1. /\ StageOK /\ BlocksOK /\ SeenOK /\ OnceOK
        /\ host = "waiting" => WaitingOK
        /\ host = "transfer" => TransferOK
    BY <1>2, <1>7 DEF ApartOK, Issued
  <2>2. /\ host' = host /\ required' = required /\ currentEvents' \subseteq currentEvents
        /\ host = "waiting" => outstanding' = outstanding /\ status' = status
    <3>1. host = "transfer" => required = {}
      BY <2>1 DEF TransferOK
    <3> QED BY <1>7, <3>1 DEF DpcAnswer, CompleteRequest
  <2>3. /\ CmdDone' <=> CmdDone
        /\ TransferDone' <=> TransferDone
        /\ BufferReady' <=> BufferReady
        /\ \A e : Happened(e)' <=> Happened(e)
        /\ StageOK => StageOK'
        /\ BlocksOK => BlocksOK'
    BY <1>1, HwLeft
  <2>4. SeenOK'
    BY <1>1, <2>1, <2>2, <2>3 DEF SeenOK
  <2>5. OnceOK'
    BY <1>1, <2>1, <2>2 DEF OnceOK
  <2>6. host = "waiting" => WaitingOK'
    <3>1. RequiredFor(req)' = RequiredFor(req)
      BY <1>1 DEF RequiredFor
    <3> QED BY <1>1, <1>7, <2>1, <2>2, <2>3, <3>1 DEF WaitingOK
  <2>7. TransferOK => TransferOK'
    BY <1>1, <2>2, <2>3 DEF TransferOK, IsData
  <2>8. SuccessIsDone'
    BY <1>7, <2>2 DEF SuccessIsDone
  <2> QED
    BY <1>1, <1>2, <1>3, <2>1, <2>2, <2>3, <2>4, <2>5, <2>6, <2>7, <2>8 DEF ApartOK
<1> QED BY <1>2, <1>4, <1>5, <1>6, <1>7

LEMMA IssueApart ==
  ASSUME TypeOK, AlwaysOK, IssueRequest
  PROVE  ApartOK' /\ SuccessIsDone'
<1>1. PICK k \in Kinds :
        /\ Builds(k) /\ bus' = [bus EXCEPT !.mode = ModeFor(k)] /\ req' = k
        /\ blocks' = k.blocks /\ left' = IF k.data = "none" THEN 0 ELSE Counted(bus'.mode)
        /\ required' = RequiredFor(k)
  BY DEF IssueRequest
<1>2. /\ outstanding' = TRUE /\ currentEvents' = {} /\ status' = "NOT_SET"
      /\ stage' = "command" /\ buffer' = "empty" /\ failed' = FALSE
      /\ host' = "waiting" /\ phase' = "command" /\ intsts' = {} /\ dpc' = {}
      /\ dpcAt' = "none" /\ step' = "none" /\ handling' = {} /\ seen' = {}
  BY DEF IssueRequest, Settled, AlwaysOK, threadVars, runVars
<1>3. k \in Kind /\ (k.data = "none" <=> k.blocks = 0)
  BY KindsAssumption
<1>4. /\ k.blocks \in Nat /\ k.size \in Nat /\ k.data \in {"none", "pio", "dma"}
      /\ bus'.mode = ModeFor(k)
  BY <1>1, <1>3 DEF Kind, TypeOK, Bus
<1>5. ASSUME k.data # "none"
      PROVE  bus'.mode = TransferMode(k) /\ left' = k.blocks /\ k.blocks > 0
  <2>1. k.blocks > 0 /\ left' = Counted(bus'.mode)
    BY <1>1, <1>3, <1>4, <1>5
  <2>2. bus'.mode = TransferMode(k)
    BY <1>4, <1>5 DEF ModeFor
  <2>3. (TransferMode(k).multi <=> k.blocks > 1) /\ TransferMode(k).count = k.blocks
    BY DEF TransferMode
  <2>4. Counted(TransferMode(k)) = k.blocks
    BY <1>4, <2>1, <2>3 DEF Counted
  <2> QED BY <2>1, <2>2, <2>4
<1>6. StageOK'
  <2>1. (TransferMode(k).dma <=> k.data = "dma") /\ (TransferMode(k).read <=> k.dir = "read")
    BY DEF TransferMode
  <2> QED BY <1>1, <1>2, <1>5, <2>1 DEF StageOK, IsData
<1>7. BlocksOK'
  BY <1>1, <1>2, <1>4, <1>5 DEF BlocksOK, Full
<1>8. SeenOK' /\ OnceOK' /\ RunOK' /\ StepOK'
  BY <1>2 DEF SeenOK, OnceOK, RunOK, StepOK, Moved
<1>9. WaitingOK'
  BY <1>1, <1>2, <1>5 DEF WaitingOK, RequiredFor
<1> QED
  BY <1>2, <1>6, <1>7, <1>8, <1>9 DEF ApartOK, SuccessIsDone

LEMMA IssueTransferApart ==
  ASSUME TypeOK, AlwaysOK, ApartOK, ~raced', ~raced, IssueTransfer
  PROVE  ApartOK' /\ SuccessIsDone'
<1>1. /\ host = "transfer" /\ step = "none" /\ host' = "waiting" /\ phase' = "transfer"
      /\ outstanding' = TRUE /\ step' = "start" /\ seen' = seen
      /\ UNCHANGED <<bus, currentEvents, req, blocks, required, status, hwVars, intVars, runVars>>
  BY DEF IssueTransfer
<1>2. dpcAt = "none" /\ dpcAt' = "none" /\ handling' = handling /\ intsts' = intsts /\ dpc' = dpc
  <2>1. raced' = (raced \/ dpcAt # "none")
    BY DEF IssueTransfer
  <2>2. ~(dpcAt # "none")
    BY <2>1, Zenon
  <2> QED BY <1>1, <2>2 DEF runVars, intVars
<1>3. StageOK /\ BlocksOK /\ SeenOK /\ OnceOK /\ TransferOK
  BY <1>1 DEF ApartOK, Issued
<1>4. /\ CmdDone' <=> CmdDone
      /\ TransferDone' <=> TransferDone
      /\ BufferReady' <=> BufferReady
      /\ \A e : Happened(e)' <=> Happened(e)
      /\ StageOK => StageOK'
      /\ BlocksOK => BlocksOK'
  BY <1>1, HwLeft
<1>5. SeenOK'
  BY <1>1, <1>2, <1>3, <1>4 DEF SeenOK
<1>6. OnceOK'
  BY <1>1, <1>2, <1>3 DEF OnceOK
<1>7. TransferOK'
  BY <1>1, <1>3, <1>4 DEF TransferOK, IsData
<1>8. RunOK' /\ StepOK'
  BY <1>1, <1>2 DEF RunOK, StepOK, Moved
<1> QED
  BY <1>1, <1>3, <1>4, <1>5, <1>6, <1>7, <1>8 DEF ApartOK, SuccessIsDone

LEMMA AdmaApart ==
  ASSUME TypeOK, AlwaysOK, ApartOK, ~raced, StartAdmaTransfer
  PROVE  ApartOK' /\ SuccessIsDone'
<1>1. /\ UNCHANGED <<req, stage, left, failed, runVars, raced, garbled>>
      /\ req.data = "dma" /\ step = "start" /\ step' = "none"
  BY DEF StartAdmaTransfer, TransferStep
<1>2. host = "waiting" /\ phase = "transfer" /\ TransferOK /\ RunOK
  BY <1>1 DEF ApartOK, StepOK
<1>3. host' = "done"
  BY <1>2 DEF StartAdmaTransfer, CompleteRequest, AfterCompletion
<1>4. TransferDone
  BY <1>1, <1>2 DEF TransferOK
<1>5. SuccessIsDone'
  BY <1>1, <1>4 DEF SuccessIsDone, TransferDone, AlwaysOK
<1>6. RunOK' /\ StepOK'
  BY <1>1, <1>2 DEF RunOK, StepOK, Moved, runVars
<1> QED BY <1>1, <1>3, <1>5, <1>6 DEF ApartOK, Issued

\* What a step of a PIO transfer finds and leaves alone.
LEMMA PioFacts ==
  ASSUME TypeOK, AlwaysOK, ApartOK, ~raced, StartPioTransfer
  PROVE  /\ UNCHANGED <<bus, req, phase, stage, left, failed, enabled, lost, intsts, dpc,
                        dpcAt, handling, raced>>
         /\ host = "waiting" /\ phase = "transfer" /\ outstanding /\ dpcAt = "none"
         /\ req.data = "pio" /\ req.dir \in {"read", "write"} /\ IsData
         /\ StageOK /\ BlocksOK /\ SeenOK /\ OnceOK /\ CmdDone
         /\ StageOK' /\ CmdDone' /\ (TransferDone' <=> TransferDone) /\ RunOK'
         /\ step \in {"start", "taken"} =>
              /\ TransferOK /\ BufferReady /\ required = {}
              /\ "BUFFER_READY" \notin intsts \cup dpc
         /\ step \in Moved => MovedOK /\ currentEvents = {}
         /\ step # "none"
<1>1. /\ UNCHANGED <<bus, req, phase, stage, left, failed, intVars, runVars, raced>>
      /\ req.data = "pio" /\ step # "none"
  BY DEF StartPioTransfer, PioTake, PioMove, PioSucceed, PioEnd, PioLoad, PioStore, PioAgain,
         TransferStep
<1>2. host = "waiting" /\ phase = "transfer" /\ outstanding /\ dpcAt = "none"
  BY <1>1 DEF ApartOK, StepOK, RunOK
<1>3. StageOK /\ BlocksOK /\ SeenOK /\ OnceOK /\ IsData /\ req.dir \in {"read", "write"}
  BY <1>1, <1>2 DEF ApartOK, AlwaysOK, Issued, IsData
<1>4. step \in {"start", "taken"} => TransferOK
  BY DEF ApartOK
<1>5. step \in Moved => MovedOK /\ currentEvents = {}
  BY DEF ApartOK, StepOK, Moved
<1>6. CmdDone
  <2>1. step \in {"start", "taken"} \/ step \in Moved
    BY <1>1 DEF Moved, TypeOK
  <2> QED BY <1>4, <1>5, <2>1 DEF TransferOK, MovedOK
<1>7. step \in {"start", "taken"} => BufferReady /\ required = {} /\ "BUFFER_READY" \notin intsts \cup dpc
  BY <1>1, <1>3, <1>4 DEF TransferOK, OnceOK
<1>8. StageOK' /\ CmdDone' /\ (TransferDone' <=> TransferDone)
  BY <1>1, <1>3, <1>6 DEF StageOK, CmdDone, TransferDone, IsData
<1>9. RunOK'
  BY <1>1, <1>2 DEF RunOK, runVars
<1> QED
  BY <1>1, <1>2, <1>3, <1>4, <1>5, <1>6, <1>7, <1>8, <1>9 DEF intVars, runVars

\* The blocks, once one has gone through the data port.
LEMMA PioMoveBlocks ==
  ASSUME TypeOK, AlwaysOK, ApartOK, ~raced, PioMove
  PROVE  BlocksOK' /\ blocks' \in Nat /\ (left = 0 => blocks' = 0)
<1>1. StartPioTransfer /\ step = "taken"
  BY DEF StartPioTransfer, PioMove, TransferStep
<1>2. /\ BufferReady /\ BlocksOK /\ req.data = "pio" /\ req.dir \in {"read", "write"}
      /\ req' = req /\ left' = left
  BY <1>1, PioFacts
<1>3. /\ blocks' = BlockDone(blocks)
      /\ buffer' = IF req.dir = "read" THEN "empty" ELSE "full"
  BY DEF PioMove, ReadDataPort, WriteDataPort
<1>4. blocks \in Nat /\ left \in Nat
  BY DEF TypeOK
<1>5. CASE req.dir = "read"
  <2>1. blocks = left + 1
    BY <1>2, <1>5 DEF BlocksOK, BufferReady, Full
  <2>2. blocks' = left
    BY <1>3, <1>4, <2>1 DEF BlockDone
  <2> QED BY <1>2, <1>3, <1>4, <1>5, <2>2 DEF BlocksOK, Full
<1>6. CASE req.dir = "write"
  <2>1. blocks = left /\ left > 0
    BY <1>2, <1>4, <1>6 DEF BlocksOK, BufferReady, Full
  <2>2. blocks' = left - 1
    BY <1>3, <1>4, <2>1 DEF BlockDone
  <2> QED BY <1>2, <1>3, <1>4, <1>6, <2>1, <2>2 DEF BlocksOK, Full
<1> QED BY <1>2, <1>5, <1>6

LEMMA PioApart ==
  ASSUME TypeOK, AlwaysOK, ApartOK, ~raced, StartPioTransfer
  PROVE  ApartOK' /\ SuccessIsDone'
<1>1. /\ UNCHANGED <<bus, req, phase, stage, left, failed, enabled, lost, intsts, dpc,
                     dpcAt, handling, raced>>
      /\ host = "waiting" /\ phase = "transfer" /\ outstanding /\ dpcAt = "none"
      /\ req.data = "pio" /\ req.dir \in {"read", "write"} /\ IsData
      /\ BlocksOK /\ SeenOK /\ OnceOK
      /\ StageOK' /\ CmdDone' /\ (TransferDone' <=> TransferDone) /\ RunOK'
  BY PioFacts
<1>2. /\ step \in {"start", "taken"} =>
           /\ TransferOK /\ BufferReady /\ required = {}
           /\ "BUFFER_READY" \notin intsts \cup dpc
      /\ step \in Moved => MovedOK /\ currentEvents = {}
  BY PioFacts
<1>3. blocks \in Nat
  BY DEF TypeOK
\* All but the move of a block leave the buffer alone.
<1>4. ASSUME blocks' = blocks, buffer' = buffer
      PROVE  /\ BlocksOK' /\ (BufferReady' <=> BufferReady)
             /\ \A e \in intsts \cup dpc \cup handling : Happened(e)'
  <2>1. BlocksOK'
    BY <1>1, <1>4 DEF BlocksOK, Full
  <2>2. BufferReady' <=> BufferReady
    BY <1>1, <1>4 DEF BufferReady
  <2> QED BY <1>1, <2>1, <2>2 DEF SeenOK, Happened
<1>5. CASE PioTake
  <2>1. /\ step = "start" /\ step' = "taken" /\ seen' = currentEvents /\ currentEvents' = {}
        /\ UNCHANGED <<blocks, required, buffer, outstanding, status, host>>
    BY <1>5 DEF PioTake, TransferStep, KeepAnswer
  <2>2. BlocksOK' /\ (BufferReady' <=> BufferReady)
        /\ \A e \in intsts \cup dpc \cup handling : Happened(e)'
    BY <1>4, <2>1
  <2>3. SeenOK'
    BY <1>1, <2>1, <2>2 DEF SeenOK
  <2>4. OnceOK'
    BY <1>1, <1>2, <2>1 DEF OnceOK
  <2>5. TransferOK'
    BY <1>1, <1>2, <2>1, <2>2 DEF TransferOK, IsData
  <2>6. StepOK'
    BY <1>1, <2>1 DEF StepOK, Moved
  <2> QED
    BY <1>1, <2>1, <2>2, <2>3, <2>4, <2>5, <2>6 DEF ApartOK, SuccessIsDone
<1>6. CASE PioMove
  <2>1. /\ step = "taken" /\ step' = "moved" /\ currentEvents' = currentEvents /\ seen' = seen
        /\ UNCHANGED <<required, outstanding, status, host>>
    BY <1>6 DEF PioMove, TransferStep, KeepAnswer
  <2>2. BlocksOK' /\ blocks' \in Nat /\ (left = 0 => blocks' = 0)
    BY <1>6, PioMoveBlocks
  <2>3. required = {} /\ "BUFFER_READY" \notin intsts \cup dpc /\ dpcAt = "none"
    BY <1>1, <1>2, <2>1
  <2>4. handling = {}
    BY <1>1 DEF AlwaysOK
  <2>5. SeenOK'
    <3>1. \A e \in intsts \cup dpc \cup handling : Happened(e)'
      BY <1>1, <2>3, <2>4 DEF SeenOK, Happened
    <3> QED BY <1>1, <2>1, <3>1 DEF SeenOK
  <2>6. OnceOK'
    BY <1>1, <2>3, <2>4 DEF OnceOK
  <2>7. "TRANSFER_COMPLETE" \in seen' => blocks' = 0
    BY <1>1, <2>1, <2>2 DEF SeenOK, TransferDone
  <2>8. currentEvents = {}
    BY <2>1 DEF ApartOK, StepOK
  <2>9. StepOK'
    <3>1. MovedOK'
      BY <1>1, <2>1, <2>3, <2>7 DEF MovedOK
    <3> QED BY <1>1, <2>1, <2>8, <3>1 DEF StepOK
  <2> QED
    BY <1>1, <2>1, <2>2, <2>5, <2>6, <2>9 DEF ApartOK, SuccessIsDone
<1>7. CASE PioSucceed
  <2>1. /\ step = "moved" /\ step' = "last" /\ blocks = 0 /\ status' = "SUCCESS" /\ seen' = seen
        /\ UNCHANGED <<currentEvents, blocks, required, buffer, outstanding, host>>
    BY <1>7 DEF PioSucceed, TransferStep, LastBlock
  <2>2. BlocksOK' /\ \A e \in intsts \cup dpc \cup handling : Happened(e)'
    BY <1>4, <2>1
  <2>3. MovedOK /\ currentEvents = {}
    BY <1>2, <2>1 DEF Moved
  <2>4. SeenOK'
    BY <1>1, <2>1, <2>2 DEF SeenOK
  <2>5. OnceOK'
    BY <1>1, <2>1 DEF OnceOK
  <2>6. StepOK'
    <3>1. MovedOK'
      BY <1>1, <2>1, <2>3 DEF MovedOK
    <3> QED BY <1>1, <2>1, <2>3, <3>1 DEF StepOK
  <2> QED
    BY <1>1, <2>1, <2>2, <2>4, <2>5, <2>6 DEF ApartOK, SuccessIsDone
<1>8. CASE PioEnd
  <2>1. /\ step = "last" /\ step' = "none" /\ "TRANSFER_COMPLETE" \in seen /\ seen' = {}
        /\ UNCHANGED <<currentEvents, blocks, required, status, buffer, garbled>>
        /\ CompleteRequest("SUCCESS")
    BY <1>8 DEF PioEnd, TransferStep
  <2>2. host' = "done"
    BY <1>1, <2>1 DEF CompleteRequest, AfterCompletion
  <2>3. TransferDone /\ blocks = 0
    BY <1>1, <1>2, <2>1 DEF SeenOK, MovedOK, Moved
  <2>4. buffer = "empty"
    BY <1>1, <2>3 DEF BlocksOK, Full, TransferDone, TypeOK
  <2>5. SuccessIsDone'
    BY <1>1, <2>1, <2>3, <2>4 DEF SuccessIsDone, TransferDone, AlwaysOK
  <2> QED BY <1>1, <2>1, <2>2, <2>5 DEF ApartOK, StepOK, Issued, Moved
<1>9. CASE PioLoad
  <2>1. /\ step \in {"moved", "last"} /\ step' = "loaded" /\ seen' = {}
        /\ UNCHANGED <<currentEvents, blocks, required, buffer, outstanding, status, host>>
        /\ \/ step = "moved" /\ blocks # 0 /\ loaded' = required \cup {"BUFFER_READY"}
           \/ step = "last" /\ loaded' = required \cup {"TRANSFER_COMPLETE"}
    BY <1>9 DEF PioLoad, TransferStep, KeepAnswer, LastBlock
  <2>2. BlocksOK' /\ \A e \in intsts \cup dpc \cup handling : Happened(e)'
    BY <1>4, <2>1
  <2>3. MovedOK /\ currentEvents = {} /\ required = {}
    BY <1>2, <2>1 DEF Moved, MovedOK
  <2>4. SeenOK'
    BY <1>1, <2>1, <2>2 DEF SeenOK
  <2>5. OnceOK'
    <3>1. step = "last" => blocks = 0
      BY <2>3 DEF MovedOK
    <3> QED BY <1>1, <2>1, <2>3, <3>1 DEF OnceOK
  <2>6. StepOK'
    <3>1. MovedOK'
      BY <1>1, <2>1, <2>3 DEF MovedOK
    <3> QED BY <1>1, <2>1, <2>3, <3>1 DEF StepOK
  <2> QED
    BY <1>1, <2>1, <2>2, <2>4, <2>5, <2>6 DEF ApartOK, SuccessIsDone
<1>10. CASE PioStore
  <2>1. /\ step = "loaded" /\ step' = (IF blocks = 0 THEN "none" ELSE "stored") /\ seen' = seen
        /\ UNCHANGED <<currentEvents, blocks, buffer, outstanding, status, host>>
        /\ required' = loaded
    BY <1>10 DEF PioStore, TransferStep, KeepAnswer, LastBlock
  <2>2. BlocksOK' /\ \A e \in intsts \cup dpc \cup handling : Happened(e)'
    BY <1>4, <2>1
  <2>3. MovedOK /\ currentEvents = {} /\ seen = {}
    BY <1>2, <2>1 DEF Moved, AlwaysOK
  <2>4. IF blocks = 0 THEN required' = {"TRANSFER_COMPLETE"} /\ status = "SUCCESS"
                      ELSE required' = {"BUFFER_READY"}
    BY <2>1, <2>3 DEF MovedOK
  <2>5. SeenOK'
    BY <1>1, <2>1, <2>2 DEF SeenOK
  <2>6. OnceOK'
    <3>1. "BUFFER_READY" \in intsts \cup dpc => blocks > 0
      BY <1>1, <2>1, <2>3 DEF OnceOK, MovedOK
    <3>2. blocks > 0 => "BUFFER_READY" \in required'
      BY <2>4
    <3> QED BY <1>1, <2>1, <3>1, <3>2 DEF OnceOK
  <2>7. CASE blocks = 0
    <3>1. WaitingOK'
      BY <1>1, <2>1, <2>4, <2>7 DEF WaitingOK
    <3>2. StepOK'
      BY <2>1, <2>7 DEF StepOK, Moved
    <3> QED
      BY <1>1, <2>1, <2>2, <2>5, <2>6, <2>7, <3>1, <3>2 DEF ApartOK, SuccessIsDone
  <2>8. CASE blocks # 0
    <3>1. MovedOK'
      BY <1>1, <1>3, <2>1, <2>3, <2>4, <2>8 DEF MovedOK
    <3>2. StepOK'
      BY <1>1, <2>1, <2>3, <2>8, <3>1 DEF StepOK
    <3> QED
      BY <1>1, <2>1, <2>2, <2>5, <2>6, <2>8, <3>2 DEF ApartOK, SuccessIsDone
  <2> QED BY <2>7, <2>8
<1>11. CASE PioAgain
  <2>1. /\ step = "stored" /\ step' = "none" /\ status' = "MORE_PROCESSING_REQUIRED"
        /\ UNCHANGED <<currentEvents, blocks, required, buffer, seen, outstanding, host>>
    BY <1>11 DEF PioAgain, TransferStep
  <2>2. BlocksOK' /\ \A e \in intsts \cup dpc \cup handling : Happened(e)'
    BY <1>4, <2>1
  <2>3. required = {"BUFFER_READY"} /\ blocks > 0
    BY <1>2, <2>1 DEF Moved, MovedOK
  <2>4. SeenOK'
    BY <1>1, <2>1, <2>2 DEF SeenOK
  <2>5. OnceOK'
    BY <1>1, <2>1, <2>3 DEF OnceOK
  <2>6. WaitingOK'
    BY <1>1, <2>1, <2>3 DEF WaitingOK
  <2>7. StepOK'
    BY <2>1 DEF StepOK, Moved
  <2> QED
    BY <1>1, <2>1, <2>2, <2>4, <2>5, <2>6, <2>7 DEF ApartOK, SuccessIsDone
<1> QED
  BY <1>5, <1>6, <1>7, <1>8, <1>9, <1>10, <1>11 DEF StartPioTransfer

LEMMA OperationsApart ==
  ASSUME AlwaysOK, RequestInv, SuccessIsDone, ~raced',
         BusOps \/ RefuseRequest \/ SdportTimeout \/ ToggleEvents
  PROVE  ApartOK' /\ SuccessIsDone'
<1>1. step' = "none" /\ dpcAt' = "none" /\ step = "none" /\ dpcAt = "none"
  <2>1. Settled \/ RefuseRequest
    BY DEF BusOps, SetClock, SetVoltage, SetBusWidth, SetSpeed, SetHighSpeed, SetUhsMode,
       SetSignaling, ExecuteTuning, SetPresetValue, EnableBlockGapInterrupt, BusOperation,
       ResetAll, ResetCmd, ResetDat, ResetHost, SdportTimeout, ToggleEvents
  <2>2. UNCHANGED <<threadVars, runVars>>
    BY DEF BusOps, SetClock, SetVoltage, SetBusWidth, SetSpeed, SetHighSpeed, SetUhsMode,
       SetSignaling, ExecuteTuning, SetPresetValue, EnableBlockGapInterrupt, BusOperation,
       ResetAll, ResetCmd, ResetDat, ResetHost, RefuseRequest, SdportTimeout, ToggleEvents
  <2> QED BY <2>1, <2>2 DEF Settled, RefuseRequest, threadVars, runVars
<1>2. CASE RefuseRequest \/ SdportTimeout \/ ToggleEvents
  BY <1>1, <1>2, Elsewhere DEF RefuseRequest, SdportTimeout, ToggleEvents, Issued
<1>3. CASE ResetAll \/ ResetCmd \/ ResetDat
  BY <1>1, <1>3, Elsewhere DEF ResetAll, ResetCmd, ResetDat, ResetHost, Issued
<1>4. ASSUME NEW from, from \subseteq IdleHosts, NEW to, to \in {host, "down", "powered", "resetDone"},
             NEW registers, BusOperation(from, to, registers)
      PROVE  ApartOK' /\ SuccessIsDone'
  <2>1. /\ UNCHANGED <<reqVars, hwVars, historyVars>> /\ host' \notin Issued
        /\ host' = "done" => host = "done"
    BY <1>4 DEF BusOperation, IdleHosts, Issued
  <2>2. CASE host' # "done"
    BY <1>1, <2>1, <2>2, Elsewhere
  <2>3. CASE host' = "done"
    BY <1>1, <2>1, <2>3
       DEF ApartOK, RunOK, StepOK, Moved, SuccessIsDone, reqVars, hwVars, historyVars
  <2> QED BY <2>2, <2>3
<1>5. /\ {"powered"} \cup Ready \subseteq IdleHosts /\ Ready \subseteq IdleHosts
      /\ {"powered"} \subseteq IdleHosts /\ {"reset"} \subseteq IdleHosts
  BY DEF Ready, IdleHosts
<1>6. CASE SetClock \/ SetVoltage
  BY <1>4, <1>5, <1>6 DEF SetClock, SetVoltage
<1>7. CASE SetBusWidth \/ SetSpeed \/ ExecuteTuning \/ SetPresetValue \/ EnableBlockGapInterrupt
  BY <1>4, <1>5, <1>7 DEF SetBusWidth, SetSpeed, SetHighSpeed, SetUhsMode, ExecuteTuning,
     SetPresetValue, EnableBlockGapInterrupt
<1>8. CASE SetSignaling
  BY <1>4, <1>5, <1>8 DEF SetSignaling
<1> QED
  BY <1>2, <1>3, <1>6, <1>7, <1>8 DEF BusOps

\* Only a reset makes an overlap forgotten.
LEMMA RacedStays ==
  ASSUME raced, ~raced', [Next]_vars
  PROVE  ResetAll \/ ResetCmd \/ ResetDat
<1>1. SUFFICES ASSUME ~(ResetAll \/ ResetCmd \/ ResetDat) PROVE FALSE
  OBVIOUS
<1>2. CASE RequestDpc \/ IssueTransfer
  BY <1>2, Zenon DEF RequestDpc, IssueTransfer
<1>3. CASE ~(RequestDpc \/ IssueTransfer)
  <2>1. CASE Next
    <3>1. CASE Hardware
      BY <3>1 DEF Hardware, HwRespond, HwError, HwMove, HwEnd, HwStep, historyVars
    <3>2. CASE SlotInterrupt \/ DpcLoad \/ DpcStore \/ DpcAnswer
      BY <3>2 DEF SlotInterrupt, DpcLoad, DpcStore, DpcAnswer, DpcStep, historyVars
    <3>3. CASE Transfer
      BY <3>3 DEF Transfer, StartAdmaTransfer, StartPioTransfer, PioTake, PioMove, PioSucceed,
         PioEnd, PioLoad, PioStore, PioAgain, TransferStep
    <3>4. CASE IssueRequest \/ RefuseRequest \/ Sdport
      BY <3>4 DEF IssueRequest, RefuseRequest, Sdport, SdportTimeout, ToggleEvents, CardInterrupt,
         historyVars
    <3>5. CASE BusOps
      BY <1>1, <3>5 DEF BusOps, SetClock, SetVoltage, SetBusWidth, SetSpeed, SetHighSpeed,
         SetUhsMode, SetSignaling, ExecuteTuning, SetPresetValue, EnableBlockGapInterrupt,
         BusOperation, historyVars
    <3> QED BY <1>3, <2>1, <3>1, <3>2, <3>3, <3>4, <3>5 DEF Next, Interrupt, Requests
  <2>2. CASE UNCHANGED vars
    BY <2>2 DEF vars, historyVars
  <2> QED BY <2>1, <2>2
<1> QED BY <1>2, <1>3

LEMMA StepsRequest ==
  ASSUME TypeOK, RequestInv, SuccessIsDone, [Next]_vars
  PROVE  RequestInv' /\ SuccessIsDone'
<1>1. AlwaysOK /\ AlwaysOK'
  BY StepsAlways DEF RequestInv
<1>2. SUFFICES ASSUME ~raced' PROVE ApartOK' /\ SuccessIsDone'
  BY <1>1 DEF RequestInv, SuccessIsDone
<1>3. CASE raced
  BY <1>1, <1>2, <1>3, RacedStays, OperationsApart DEF BusOps
<1>4. CASE ~raced
  <2>1. ApartOK
    BY <1>4 DEF RequestInv
  <2>2. CASE Hardware \/ RequestDpc \/ DpcLoad \/ DpcStore \/ DpcAnswer
    BY <1>1, <1>2, <1>4, <2>1, <2>2, HardwareApart, RequestDpcApart, DpcStoreApart, DpcAnswerApart
  <2>3. CASE IssueRequest \/ IssueTransfer \/ Transfer
    BY <1>1, <1>2, <1>4, <2>1, <2>3, IssueApart, IssueTransferApart, AdmaApart, PioApart
       DEF Transfer
  <2>4. CASE BusOps \/ RefuseRequest \/ SdportTimeout \/ ToggleEvents
    BY <1>1, <1>2, <2>4, OperationsApart
  <2>5. CASE SlotInterrupt \/ CardInterrupt \/ UNCHANGED vars
    BY <2>1, <2>5, InterruptApart DEF SlotInterrupt, CardInterrupt, Acknowledged, vars, intVars
  <2> QED BY <2>2, <2>3, <2>4, <2>5 DEF Next, Interrupt, Requests, Sdport
<1> QED BY <1>3, <1>4

-----------------------------------------------------------------------------
(* The events.                                                             *)

LEMMA StepsEnabled ==
  ASSUME EnabledOK, [Next]_vars
  PROVE  EnabledOK'
<1>1. CASE Next
  <2>1. CASE Hardware
    BY <2>1 DEF Hardware, HwRespond, HwError, HwMove, HwEnd, HwStep, EnabledOK
  <2>2. CASE SlotInterrupt \/ CardInterrupt
    BY <2>2 DEF SlotInterrupt, CardInterrupt, EnableInterrupt, DisableInterrupt, NORMAL, EnabledOK
  <2>3. CASE RequestDpc \/ DpcLoad \/ DpcStore \/ DpcAnswer
    <3>1. enabled' = enabled
      BY <2>3 DEF RequestDpc, DpcLoad, DpcStore, DpcAnswer, DpcStep, intVars
    <3>2. host' = host \/ (host = "waiting" /\ host' \in Live)
      BY <2>3
         DEF RequestDpc, DpcLoad, DpcStore, DpcAnswer, CompleteRequest, AfterCompletion, Live
    <3> QED BY <3>1, <3>2 DEF EnabledOK, Live
  <2>4. CASE Requests
    BY <2>4 DEF Requests, IssueRequest, RefuseRequest, IssueTransfer, EnabledOK, Live, intVars
  <2>5. CASE Transfer
    <3>1. enabled' = enabled
      BY <2>5 DEF Transfer, StartAdmaTransfer, StartPioTransfer, PioTake, PioMove, PioSucceed,
         PioEnd, PioLoad, PioStore, PioAgain, TransferStep, intVars
    <3>2. host' = host \/ (host = "waiting" /\ host' \in Live)
      BY <2>5 DEF Transfer, StartAdmaTransfer, StartPioTransfer, PioTake, PioMove, PioSucceed,
         PioEnd, PioLoad, PioStore, PioAgain, KeepAnswer, CompleteRequest, AfterCompletion, Live
    <3> QED BY <3>1, <3>2 DEF EnabledOK, Live
  <2>6. CASE ResetAll \/ ResetCmd \/ ResetDat
    BY <2>6 DEF ResetAll, ResetCmd, ResetDat, ResetHost, EnabledOK, Live
  <2>7. CASE ~(ResetAll \/ ResetCmd \/ ResetDat) /\ BusOps
    <3>1. UNCHANGED intVars /\ host' \in {host, "down", "powered", "resetDone"}
      BY <2>7 DEF BusOps, SetClock, SetVoltage, SetBusWidth, SetSpeed, SetHighSpeed, SetUhsMode,
           SetSignaling, ExecuteTuning, SetPresetValue, EnableBlockGapInterrupt, BusOperation
    <3> QED BY <3>1 DEF EnabledOK, Live, intVars
  <2>8. CASE SdportTimeout \/ ToggleEvents
    BY <2>8 DEF SdportTimeout, ToggleEvents, EnableInterrupt, EnabledOK, Live, intVars
  <2> QED
    BY <1>1, <2>1, <2>2, <2>3, <2>4, <2>5, <2>6, <2>7, <2>8 DEF Next, Interrupt, Sdport
<1>2. CASE UNCHANGED vars
  BY <1>2 DEF vars, intVars, EnabledOK
<1> QED BY <1>1, <1>2

LEMMA Awaited ==
  ASSUME TypeOK, WaitingOK
  PROVE  /\ required \subseteq NORMAL
         /\ "BUFFER_READY" \in required => req.data = "pio" /\ blocks > 0
         /\ "TRANSFER_COMPLETE" \in required => IsData \/ req.busy
<1>1. CASE phase = "command"
  BY <1>1 DEF WaitingOK, RequiredFor, NORMAL, IsData
<1>2. CASE phase = "transfer"
  BY <1>2 DEF WaitingOK, NORMAL, IsData
<1> QED BY <1>1, <1>2 DEF TypeOK

\* Where nothing is under way, nothing comes.
LEMMA ComingElsewhere ==
  ASSUME host' \notin Issued
  PROVE  ComingOK'
BY DEF ComingOK, Issued

LEMMA HardwareComing ==
  ASSUME TypeOK, AlwaysOK, ApartOK, EnabledOK, ComingOK, Hardware
  PROVE  ComingOK'
<1>1. /\ UNCHANGED <<bus, reqVars, host, enabled, lost, dpc, threadVars, runVars, historyVars>>
      /\ intsts \subseteq intsts' /\ stage # "idle" /\ ~failed
      /\ UNCHANGED <<req, blocks, required, currentEvents, step, seen, handling>>
  BY DEF Hardware, HwRespond, HwError, HwMove, HwEnd, HwStep, AlwaysOK, Latch, reqVars,
         threadVars, runVars
<1>2. CASE host \notin Issued
  BY <1>1, <1>2, ComingElsewhere
<1>3. CASE host \in Issued
  <2>1. StageOK /\ BlocksOK /\ NORMAL \subseteq enabled /\ (~lost => "ERROR" \in enabled)
    BY <1>3 DEF ApartOK, EnabledOK, ComingOK, Issued, Live
  <2>2. ASSUME ~lost'
        PROVE  /\ "ERROR" \in enabled'
               /\ failed' => "ERROR" \in intsts' \cup dpc' \cup handling'
               /\ "ERROR" \in handling' => host' = "waiting"
    BY <1>1, <1>3, <2>1, <2>2 DEF ComingOK, Hardware, HwRespond, HwError, HwMove, HwEnd, Latch
  <2>3. ASSUME IsData', stage' = "idle", ~failed'
        PROVE  left' = 0 /\ "TRANSFER_COMPLETE" \in intsts'
    <3>1. IsData
      BY <1>1, <2>3 DEF IsData
    <3>2. HwEnd
      BY <1>1, <2>3, <3>1 DEF Hardware, HwRespond, HwError, HwMove
    <3> QED BY <2>1, <3>1, <3>2 DEF HwEnd, StageOK, Latch, NORMAL
  <2>4. ASSUME host = "waiting", step = "none", ~failed', NEW e \in required PROVE Coming(e)'
    <3>1. Coming(e) /\ WaitingOK
      BY <1>1, <2>4 DEF ComingOK, ApartOK
    <3>2. /\ e \in NORMAL /\ e \in enabled
          /\ e = "BUFFER_READY" => req.data = "pio" /\ blocks > 0
          /\ e = "TRANSFER_COMPLETE" => IsData \/ req.busy
      BY <2>1, <2>4, <3>1, Awaited
    <3>3. CASE e \in intsts \cup dpc \cup handling
      BY <1>1, <3>3 DEF Coming
    <3>4. CASE e \notin intsts \cup dpc \cup handling /\ HwRespond
      BY <1>1, <2>4, <3>1, <3>2, <3>4 DEF Coming, HwRespond, Latch, IsData, NORMAL
    <3>5. CASE e \notin intsts \cup dpc \cup handling /\ HwEnd
      BY <1>1, <2>1, <3>1, <3>2, <3>5 DEF Coming, HwEnd, Latch, NORMAL, StageOK, IsData
    <3>6. CASE e \notin intsts \cup dpc \cup handling /\ HwMove
      <4>1. stage = "data" /\ stage' = "data"
        BY <3>6 DEF HwMove
      <4>2. CASE e # "BUFFER_READY"
        BY <3>1, <3>6, <4>1, <4>2 DEF Coming
      <4>3. CASE e = "BUFFER_READY"
        <5>1. req.data = "pio" /\ ~bus.mode.dma /\ (bus.mode.read <=> req.dir = "read")
          BY <2>1, <3>2, <4>3 DEF StageOK, IsData
        <5>2. CASE buffer = "empty"
          BY <2>4, <3>2, <3>6, <4>3, <5>1, <5>2 DEF HwMove, Latch, Coming
        <5>3. CASE buffer # "empty"
          <6>1. req.dir # "read" /\ buffer = "full" /\ left' = left - 1
            BY <3>6, <5>1, <5>3 DEF HwMove
          <6>2. left' > 0
            BY <2>1, <3>2, <4>3, <5>1, <6>1 DEF BlocksOK, Full, TypeOK
          <6> QED BY <4>1, <4>3, <6>2 DEF Coming
        <5> QED BY <5>2, <5>3
      <4> QED BY <4>2, <4>3
    <3>7. ~HwError
      BY <2>4 DEF HwError
    <3> QED BY <3>3, <3>4, <3>5, <3>6, <3>7 DEF Hardware
  <2>5. ASSUME step \in Moved, BufferReady' PROVE "BUFFER_READY" \in intsts' \cup dpc'
    <3>1. CASE BufferReady
      BY <1>1, <1>3, <2>5, <3>1 DEF ComingOK
    <3>2. CASE ~BufferReady
      <4>1. req.data = "pio" /\ buffer' # buffer /\ HwMove
        BY <1>1, <2>5, <3>2 DEF BufferReady, Hardware, HwRespond, HwError, HwEnd
      <4>2. ~bus.mode.dma /\ (bus.mode.read <=> req.dir = "read")
        BY <2>1, <4>1 DEF StageOK, IsData
      <4> QED BY <1>1, <2>1, <2>5, <4>1, <4>2 DEF HwMove, BufferReady, Latch, NORMAL
    <3> QED BY <3>1, <3>2
  <2> QED BY <1>1, <2>2, <2>3, <2>4, <2>5 DEF ComingOK
<1> QED BY <1>2, <1>3

LEMMA InterruptComing ==
  ASSUME TypeOK, AlwaysOK, ApartOK, EnabledOK, EnabledOK', ComingOK, SlotInterrupt \/ CardInterrupt
  PROVE  ComingOK'
<1>1. /\ UNCHANGED <<bus, reqVars, hwVars, host, threadVars, runVars, historyVars>>
      /\ UNCHANGED <<req, blocks, required, currentEvents, step, seen, handling>>
  BY DEF SlotInterrupt, CardInterrupt, reqVars, threadVars, runVars
<1>2. CASE host \notin Issued
  BY <1>1, <1>2, ComingElsewhere
<1>3. CASE host \in Issued
  <2>1. NORMAL \subseteq enabled /\ NORMAL \subseteq enabled'
    BY <1>1, <1>3 DEF EnabledOK, Issued, Live
  <2>2. \A e \in NORMAL : e \in intsts \cup dpc => e \in intsts' \cup dpc'
    BY <2>1 DEF SlotInterrupt, CardInterrupt, Acknowledged
  <2>3. ~lost' => /\ ~lost /\ ("ERROR" \in enabled => "ERROR" \in enabled')
                  /\ ("ERROR" \in intsts \cup dpc => "ERROR" \in intsts' \cup dpc')
    BY DEF SlotInterrupt, CardInterrupt, Acknowledged
  <2>4. ASSUME host = "waiting", step = "none", ~failed, NEW e \in required PROVE Coming(e)'
    <3>1. Coming(e) /\ e \in NORMAL
      BY <2>4, Awaited DEF ComingOK, ApartOK
    <3> QED BY <1>1, <2>2, <3>1 DEF Coming, hwVars
  <2>5. "TRANSFER_COMPLETE" \in NORMAL /\ "BUFFER_READY" \in NORMAL
    BY DEF NORMAL
  <2>6. BufferReady' <=> BufferReady
    BY <1>1, HwLeft
  <2>7. ASSUME step \in Moved, BufferReady PROVE "BUFFER_READY" \in intsts' \cup dpc'
    BY <1>3, <2>2, <2>5, <2>7 DEF ComingOK
  <2>8. ASSUME IsData, stage = "idle", ~failed
        PROVE  left = 0 /\ "TRANSFER_COMPLETE" \in intsts' \cup dpc' \cup currentEvents \cup seen
    BY <1>3, <2>2, <2>5, <2>8 DEF ComingOK
  <2>9. ASSUME ~lost'
        PROVE  /\ "ERROR" \in enabled'
               /\ failed => "ERROR" \in intsts' \cup dpc' \cup handling
               /\ "ERROR" \in handling => host = "waiting"
    BY <1>3, <2>3, <2>9 DEF ComingOK
  <2>10. /\ IsData' <=> IsData
         /\ UNCHANGED <<stage, left, failed, host>>
    BY <1>1 DEF IsData, hwVars
  <2> QED BY <1>1, <2>4, <2>6, <2>7, <2>8, <2>9, <2>10 DEF ComingOK
<1> QED BY <1>2, <1>3

LEMMA DpcComing ==
  ASSUME TypeOK, AlwaysOK, ApartOK, ComingOK, ~raced', ~raced,
         RequestDpc \/ DpcLoad \/ DpcStore \/ DpcAnswer
  PROVE  ComingOK'
<1>1. /\ UNCHANGED <<bus, req, blocks, phase, hwVars, enabled, intsts, threadVars>>
      /\ UNCHANGED <<step, seen, stage, left, failed>> /\ (IsData' <=> IsData)
  BY DEF RequestDpc, DpcLoad, DpcStore, DpcAnswer, DpcStep, intVars, threadVars, hwVars, IsData
<1>2. host' = host \/ (host = "waiting" /\ host' \in {"transfer", "failed", "done"})
  BY DEF RequestDpc, DpcLoad, DpcStore, DpcAnswer, CompleteRequest, AfterCompletion
<1>3. CASE host' \notin Issued
  BY <1>3, ComingElsewhere
<1>4. CASE host' \in Issued
  <2>1. /\ host \in Issued /\ SeenOK
        /\ ~lost => /\ "ERROR" \in enabled
                    /\ failed => "ERROR" \in intsts \cup dpc \cup handling
                    /\ "ERROR" \in handling => host = "waiting"
        /\ IsData /\ stage = "idle" /\ ~failed =>
             left = 0 /\ "TRANSFER_COMPLETE" \in intsts \cup dpc \cup currentEvents \cup seen
    BY <1>2, <1>4 DEF Issued, ApartOK, ComingOK
  <2>2. step = "none" /\ step' = "none" /\ step \notin Moved
    <3>1. CASE RequestDpc
      <4>1. raced' = (raced \/ step # "none")
        BY <3>1 DEF RequestDpc
      <4>2. ~(step # "none")
        BY <4>1, Zenon
      <4> QED BY <1>1, <4>2 DEF Moved
    <3>2. CASE ~RequestDpc
      <4>1. dpcAt # "none"
        BY <3>2 DEF DpcLoad, DpcStore, DpcAnswer, DpcStep
      <4> QED BY <1>1, <4>1 DEF ApartOK, RunOK, Moved
    <3> QED BY <3>1, <3>2
  <2>3. host = "waiting" => WaitingOK
    BY <2>2 DEF ApartOK
  <2>4. CASE RequestDpc
    <3>1. /\ dpc' = {} /\ host' = host /\ required' = required /\ handling = {}
          /\ currentEvents' = currentEvents \cup dpc
          /\ lost' = (lost \/ ("ERROR" \in dpc /\ host # "waiting"))
          /\ handling' = dpc \/ (handling' = {} /\ ~outstanding)
      BY <2>1, <2>4 DEF RequestDpc, Saved, Issued, AlwaysOK
    <3>2. host = "waiting" => handling' = dpc
      BY <2>3, <3>1 DEF WaitingOK
    <3>3. ~lost' => ~lost /\ ("ERROR" \in dpc => host = "waiting")
      BY <3>1, Zenon
    <3>4. ASSUME ~lost'
          PROVE  /\ "ERROR" \in enabled'
                 /\ failed' => "ERROR" \in intsts' \cup dpc' \cup handling'
                 /\ "ERROR" \in handling' => host' = "waiting"
      BY <1>1, <2>1, <3>1, <3>2, <3>3, <3>4
    <3>5. ASSUME host = "waiting", ~failed, NEW e \in required PROVE Coming(e)'
      <4>1. Coming(e)
        BY <2>2, <3>5 DEF ComingOK
      <4> QED BY <1>1, <3>1, <3>2, <3>5, <4>1 DEF Coming
    <3> QED BY <1>1, <2>1, <2>2, <3>1, <3>4, <3>5 DEF ComingOK
  <2>5. CASE DpcLoad \/ DpcStore
    <3>1. /\ UNCHANGED <<dpc, host, handling, currentEvents, lost>>
          /\ required' \subseteq required
      BY <2>5 DEF DpcLoad, DpcStore, DpcStep, intVars, ApartOK, RunOK
    <3>2. ASSUME host = "waiting", ~failed, NEW e \in required PROVE Coming(e)'
      <4>1. Coming(e)
        BY <2>2, <3>2 DEF ComingOK
      <4> QED BY <1>1, <3>1, <4>1 DEF Coming
    <3> QED BY <1>1, <2>1, <2>2, <3>1, <3>2 DEF ComingOK
  <2>6. CASE DpcAnswer
    <3>1. dpcAt = "stored" /\ handling' = {} /\ UNCHANGED <<dpc, lost>> /\ required \cap handling = {}
      BY <2>6 DEF DpcAnswer, DpcStep, intVars, ApartOK, RunOK
    <3>2. "ERROR" \in handling => host = "transfer" /\ failed
      <4>1. "ERROR" \in handling => failed
        BY <2>1 DEF SeenOK, Happened
      <4>2. "ERROR" \in handling /\ host = "waiting" => host' = "failed"
        BY <2>6 DEF DpcAnswer, CompleteRequest, AfterCompletion
      <4> QED BY <1>4, <2>1, <4>1, <4>2 DEF Issued
    <3>3. "ERROR" \notin handling => currentEvents' = currentEvents /\ required' = required
      BY <2>6 DEF DpcAnswer
    <3>4. ~lost' => "ERROR" \notin handling
      BY <2>1, <3>1, <3>2
    <3>5. ASSUME host' = "waiting", ~failed, NEW e \in required' PROVE Coming(e)'
      <4>1. host = "waiting" /\ e \in required /\ e \notin handling
        BY <1>2, <3>1, <3>2, <3>3, <3>5
      <4>2. Coming(e)
        BY <2>2, <3>5, <4>1 DEF ComingOK
      <4> QED BY <1>1, <3>1, <4>1, <4>2 DEF Coming
    <3> QED BY <1>1, <2>1, <2>2, <3>1, <3>2, <3>3, <3>4, <3>5 DEF ComingOK
  <2> QED BY <2>4, <2>5, <2>6
<1> QED BY <1>3, <1>4

\* What the blocks of the driver say of those of the card.
LEMMA CardBlocks ==
  ASSUME NEW b \in Nat, NEW l \in Nat
  PROVE  /\ b = l + 0 \/ b + 0 = l => l = b
         /\ b = l + 0 \/ b + 0 = l \/ b + 1 = l => (b > 0 => l > 0)
OBVIOUS

LEMMA RequestsComing ==
  ASSUME TypeOK, TypeOK', AlwaysOK, ApartOK', ~raced', Requests,
         IssueTransfer => ApartOK /\ ComingOK
  PROVE  ComingOK'
<1>1. CASE RefuseRequest
  BY <1>1, ComingElsewhere DEF RefuseRequest, Issued
<1>2. CASE IssueRequest
  <2>1. /\ host \in {"ready", "done"} /\ host' = "waiting" /\ stage' = "command"
        /\ failed' = FALSE /\ enabled' = enabled /\ lost' = ("ERROR" \notin enabled)
        /\ buffer' = "empty" /\ step' = "none" /\ handling' = {}
    BY <1>2 DEF IssueRequest, Settled, AlwaysOK, threadVars, runVars
  <2>2. WaitingOK' /\ BlocksOK'
    BY <2>1 DEF ApartOK, Issued
  <2>3. \A e \in required' : e \in NORMAL /\ (e = "BUFFER_READY" => req'.data = "pio" /\ blocks' > 0)
    <3>1. CASE phase' = "command"
      BY <2>2, <3>1 DEF WaitingOK, RequiredFor, NORMAL
    <3> QED BY <1>2, <3>1 DEF IssueRequest
  <2>4. req'.data = "pio" => left' = blocks'
    <3>1. left' \in Nat /\ blocks' \in Nat
      BY DEF TypeOK
    <3>2. req'.data = "pio" => blocks' = left' + 0 \/ blocks' + 0 = left'
      BY <2>1, <2>2 DEF BlocksOK, Full
    <3> QED BY <3>1, <3>2, CardBlocks, Zenon
  <2>5. ASSUME NEW e \in required' PROVE Coming(e)'
    BY <2>1, <2>3, <2>4, <2>5 DEF Coming, NORMAL
  <2> QED BY <2>1, <2>5 DEF ComingOK, Moved
<1>3. CASE IssueTransfer
  <2>1. /\ host = "transfer" /\ host' = "waiting" /\ step = "none" /\ step' = "start"
        /\ UNCHANGED <<bus, currentEvents, req, required, hwVars, intVars, seen, runVars>>
    BY <1>3 DEF IssueTransfer
  <2> QED BY <1>3, <2>1 DEF ComingOK, Issued, Moved, IsData, hwVars, intVars, runVars
<1> QED BY <1>1, <1>2, <1>3 DEF Requests

LEMMA PioComing ==
  ASSUME TypeOK, TypeOK', AlwaysOK, ApartOK, ApartOK', ComingOK, ~raced, StartPioTransfer
  PROVE  ComingOK'
<1>1. /\ UNCHANGED <<bus, req, phase, stage, left, failed, enabled, lost, intsts, dpc,
                     dpcAt, handling, raced>>
      /\ host = "waiting" /\ req.data = "pio" /\ req.dir \in {"read", "write"} /\ IsData
      /\ StageOK /\ SeenOK /\ CmdDone
      /\ step \in Moved => MovedOK /\ currentEvents = {}
  BY PioFacts
<1>2. /\ ~lost => /\ "ERROR" \in enabled
                  /\ failed => "ERROR" \in intsts \cup dpc \cup handling
                  /\ "ERROR" \in handling => host = "waiting"
      /\ stage = "idle" /\ ~failed =>
           left = 0 /\ "TRANSFER_COMPLETE" \in intsts \cup dpc \cup currentEvents \cup seen
      /\ step \in Moved /\ BufferReady => "BUFFER_READY" \in intsts \cup dpc
  BY <1>1 DEF ComingOK, Issued
<1>3. stage \in {"data", "idle"}
  BY <1>1 DEF StageOK, CmdDone, TypeOK
\* It is enough that the end of the transfer is kept, and the next buffer.
<1>4. ASSUME host' = "waiting",
             "TRANSFER_COMPLETE" \in currentEvents \cup seen =>
               "TRANSFER_COMPLETE" \in currentEvents' \cup seen',
             step' \in Moved /\ BufferReady' => "BUFFER_READY" \in intsts \cup dpc,
             step' = "none" /\ ~failed => \A e \in required' : Coming(e)'
      PROVE  ComingOK'
  <2>1. IsData'
    BY <1>1 DEF IsData
  <2> QED BY <1>1, <1>2, <1>4, <2>1 DEF ComingOK
<1>5. CASE PioTake
  <2>1. /\ host' = host /\ step' = "taken" /\ seen' = currentEvents /\ step = "start"
    BY <1>5 DEF PioTake, TransferStep, KeepAnswer
  <2>2. seen = {}
    BY <2>1 DEF AlwaysOK
  <2> QED BY <1>1, <1>4, <2>1, <2>2 DEF Moved
<1>6. CASE PioMove
  <2>1. /\ host' = host /\ step' = "moved" /\ UNCHANGED <<currentEvents, seen>>
        /\ buffer' = IF req.dir = "read" THEN "empty" ELSE "full"
    BY <1>6 DEF PioMove, TransferStep, KeepAnswer, ReadDataPort, WriteDataPort
  <2>2. ~BufferReady'
    BY <1>1, <2>1 DEF BufferReady
  <2> QED BY <1>1, <1>4, <2>1, <2>2
<1>7. CASE PioSucceed
  <2>1. /\ host' = host /\ step' = "last" /\ UNCHANGED <<currentEvents, seen, buffer>>
        /\ step = "moved"
    BY <1>7 DEF PioSucceed, TransferStep
  <2>2. BufferReady' <=> BufferReady
    BY <1>1, <2>1 DEF BufferReady
  <2> QED BY <1>1, <1>2, <1>4, <2>1, <2>2 DEF Moved
<1>8. CASE PioEnd
  <2>1. host' = "done"
    <3>1. phase = "transfer"
      BY PioFacts
    <3> QED BY <1>1, <1>8, <3>1 DEF PioEnd, CompleteRequest, AfterCompletion
  <2> QED BY <2>1, ComingElsewhere DEF Issued
<1>9. CASE PioLoad
  <2>1. /\ host' = host /\ step' = "loaded" /\ UNCHANGED <<currentEvents, buffer>>
        /\ \/ step = "moved" /\ blocks # 0
           \/ step = "last" /\ "TRANSFER_COMPLETE" \notin seen
    BY <1>9 DEF PioLoad, TransferStep, KeepAnswer, LastBlock
  <2>2. "TRANSFER_COMPLETE" \notin seen /\ step \in Moved
    BY <1>1, <2>1 DEF Moved, MovedOK
  <2>3. BufferReady' <=> BufferReady
    BY <1>1, <2>1 DEF BufferReady
  <2> QED BY <1>1, <1>2, <1>4, <2>1, <2>2, <2>3
<1>10. CASE PioStore
  <2>1. /\ host' = host /\ UNCHANGED <<currentEvents, buffer, seen>> /\ step = "loaded"
        /\ step' = (IF blocks = 0 THEN "none" ELSE "stored") /\ required' = loaded
    BY <1>10 DEF PioStore, TransferStep, KeepAnswer, LastBlock
  <2>2. MovedOK /\ currentEvents = {} /\ seen = {}
    BY <1>1, <2>1 DEF Moved, AlwaysOK
  <2>3. BufferReady' <=> BufferReady
    BY <1>1, <2>1 DEF BufferReady
  <2>4. ASSUME step' = "none", ~failed, NEW e \in required' PROVE Coming(e)'
    <3>1. e = "TRANSFER_COMPLETE"
      BY <2>1, <2>2, <2>4 DEF MovedOK
    <3>2. stage # "idle" \/ "TRANSFER_COMPLETE" \in intsts \cup dpc
      BY <1>2, <2>2, <2>4
    <3> QED BY <1>1, <3>1, <3>2 DEF Coming
  <2> QED BY <1>1, <1>2, <1>4, <2>1, <2>2, <2>3, <2>4 DEF Moved
<1>11. CASE PioAgain
  <2>1. /\ host' = host /\ UNCHANGED <<currentEvents, buffer, seen, required, blocks>>
        /\ step = "stored" /\ step' = "none"
    BY <1>11 DEF PioAgain, TransferStep
  <2>2. MovedOK /\ currentEvents = {} /\ seen = {}
    BY <1>1, <2>1 DEF Moved, AlwaysOK
  <2>3. ASSUME ~failed, NEW e \in required PROVE Coming(e)'
    <3>1. e = "BUFFER_READY" /\ blocks > 0
      BY <2>1, <2>2, <2>3 DEF MovedOK
    <3>2. CASE "BUFFER_READY" \in intsts \cup dpc
      BY <1>1, <3>1, <3>2 DEF Coming
    <3>3. CASE "BUFFER_READY" \notin intsts \cup dpc
      <4>1. ~BufferReady /\ BlocksOK
        BY <1>1, <1>2, <2>1, <3>3 DEF Moved, ApartOK, Issued
      <4>2. blocks \in Nat /\ left \in Nat
        BY DEF TypeOK
      <4>3. left > 0
        <5>1. CASE req.dir = "read"
          <6>1. blocks = left + 0
            BY <1>1, <4>1, <5>1 DEF BlocksOK, BufferReady, Full
          <6> QED BY <3>1, <4>2, <6>1, CardBlocks
        <5>2. CASE req.dir = "write"
          <6>1. blocks + 0 = left \/ blocks + 1 = left
            BY <1>1, <4>1, <5>2 DEF BlocksOK, Full
          <6> QED BY <3>1, <4>2, <6>1, CardBlocks
        <5> QED BY <1>1, <5>1, <5>2
      <4>4. stage = "data"
        BY <1>2, <1>3, <2>3, <4>2, <4>3
      <4> QED BY <1>1, <3>1, <4>3, <4>4 DEF Coming
    <3> QED BY <3>2, <3>3
  <2> QED BY <1>1, <1>4, <2>1, <2>3 DEF Moved
<1> QED
  BY <1>5, <1>6, <1>7, <1>8, <1>9, <1>10, <1>11 DEF StartPioTransfer

LEMMA OperationsComing ==
  ASSUME BusOps \/ SdportTimeout \/ ToggleEvents
  PROVE  ComingOK'
<1>1. host' \notin Issued
  BY DEF SdportTimeout, ToggleEvents, Issued, BusOps, SetClock, SetVoltage, SetBusWidth, SetSpeed,
     SetHighSpeed, SetUhsMode, SetSignaling, ExecuteTuning, SetPresetValue,
     EnableBlockGapInterrupt, BusOperation, ResetAll, ResetCmd, ResetDat, ResetHost, Ready
<1> QED BY <1>1, ComingElsewhere

LEMMA StepsEvents ==
  ASSUME TypeOK, RequestInv, EventsInv, [Next]_vars, TypeOK', RequestInv'
  PROVE  EventsInv'
<1>1. EnabledOK /\ EnabledOK' /\ AlwaysOK
  BY StepsEnabled DEF EventsInv, RequestInv
<1>2. SUFFICES ASSUME ~raced' PROVE ComingOK'
  BY <1>1 DEF EventsInv
<1>3. ApartOK'
  BY <1>2 DEF RequestInv
<1>4. CASE ResetAll \/ ResetCmd \/ ResetDat
  BY <1>4, ComingElsewhere DEF ResetAll, ResetCmd, ResetDat, ResetHost, Issued
<1>5. CASE ~(ResetAll \/ ResetCmd \/ ResetDat)
  <2>1. ~raced /\ ApartOK /\ ComingOK
    BY <1>2, <1>5, RacedStays DEF RequestInv, EventsInv
  <2>2. CASE Hardware \/ SlotInterrupt \/ CardInterrupt
    BY <1>1, <2>1, <2>2, HardwareComing, InterruptComing
  <2>3. CASE RequestDpc \/ DpcLoad \/ DpcStore \/ DpcAnswer
    BY <1>1, <1>2, <2>1, <2>3, DpcComing
  <2>4. CASE Requests
    BY <1>1, <1>2, <1>3, <2>1, <2>4, RequestsComing
  <2>5. CASE StartAdmaTransfer
    <3>1. host = "waiting" /\ phase = "transfer"
      BY <2>1, <2>5 DEF ApartOK, StepOK, StartAdmaTransfer, TransferStep
    <3>2. host' = "done"
      BY <2>5, <3>1 DEF StartAdmaTransfer, CompleteRequest, AfterCompletion
    <3> QED BY <3>2, ComingElsewhere DEF Issued
  <2>6. CASE StartPioTransfer
    BY <1>1, <1>3, <2>1, <2>6, PioComing
  <2>7. CASE BusOps \/ SdportTimeout \/ ToggleEvents
    BY <2>7, OperationsComing
  <2>8. CASE UNCHANGED vars
    BY <2>1, <2>8 DEF vars, reqVars, hwVars, intVars, threadVars, runVars, ComingOK, Coming,
       IsData, BufferReady
  <2> QED
    BY <2>2, <2>3, <2>4, <2>5, <2>6, <2>7, <2>8 DEF Next, Interrupt, Transfer, Sdport
<1> QED BY <1>4, <1>5

-----------------------------------------------------------------------------
(* The theorems.                                                           *)

LEMMA InitiallyOK ==
  ASSUME Init
  PROVE  HostInv
<1> USE SettingsAssumption
<1>1. bus \in Bus
  BY DEF Init, BusReset, NoMode, Bus, Mode
<1>2. req \in Kind
  BY DEF Init, Nothing, Kind
<1>3. TypeOK
  BY <1>1, <1>2 DEF Init, TypeOK, Hosts, EVENTS, NORMAL
<1>4. BusInv /\ CommandHasClock /\ SuccessIsDone
  BY DEF Init, BusInv, CommandHasClock, SuccessIsDone, IdleHosts
<1>5. RequestInv
  BY DEF Init, RequestInv, AlwaysOK, ApartOK, RunOK, StepOK, Moved, Issued, Nothing
<1>6. EventsInv
  BY DEF Init, EventsInv, EnabledOK, ComingOK, Issued, Live
<1> QED BY <1>3, <1>4, <1>5, <1>6 DEF HostInv

\* The invariant holds however the card answers, fails or keeps quiet, and
\* wherever the DPC and the start of a transfer are.
THEOREM Invariance == Spec => []HostInv
<1>1. Init => HostInv
  BY InitiallyOK
<1>2. HostInv /\ [Next]_vars => HostInv'
  BY StepsTyped, StepsBus, StepsRequest, StepsEvents DEF HostInv
<1> QED BY <1>1, <1>2, PTL DEF Spec

\* A request the driver reports successful has been answered without an
\* error and all of its data has moved, for any number of blocks, by every
\* byte's place of the data port unless a block has 4 * n + 1 of them; unless
\* the DPC has run while a transfer was started.
THEOREM SuccessMeansDone == Spec => []SuccessIsDone
<1>1. HostInv => SuccessIsDone
  BY DEF HostInv
<1> QED BY <1>1, Invariance, PTL

\* An event the driver waits for is still to come, or the error that ends the
\* command: none is forgotten between the phases of a request, unless the DPC
\* has run while a transfer was started.
THEOREM AwaitedComes == Spec => []AwaitedWillCome
<1>1. HostInv => AwaitedWillCome
  <2>1. SUFFICES ASSUME HostInv, ~raced, host = "waiting", step = "none", ~lost
                 PROVE  /\ required # {} \/ dpcAt # "none"
                        /\ IF failed THEN "ERROR" \in intsts \cup dpc \cup handling
                                     ELSE \A e \in required : Coming(e)
    BY DEF AwaitedWillCome, AwaitedIsComing
  <2>2. ApartOK /\ ComingOK
    BY <2>1 DEF HostInv, RequestInv, EventsInv
  <2>3. required # {} \/ dpcAt # "none"
    BY <2>1, <2>2 DEF ApartOK, WaitingOK
  <2> QED BY <2>1, <2>2, <2>3 DEF ComingOK, Issued
<1> QED BY <1>1, Invariance, PTL

\* A command runs only on a powered and clocked bus in the mode of its
\* request, whatever bus operations and requests have failed before, unless
\* the DPC has run while a transfer was started.
THEOREM CommandsHaveClock == Spec => []CommandHasClock
<1>1. HostInv => CommandHasClock
  BY DEF HostInv
<1> QED BY <1>1, Invariance, PTL

-----------------------------------------------------------------------------
(* SdDescriptors.  Addresses is a recursive function: what is needed of it *)
(* is proved by induction over the indexes of the sequence.                *)

\* Induction over the natural numbers, of a set instead of a predicate.
LEMMA Induct ==
  ASSUME NEW S \in SUBSET Nat, 0 \in S, \A n \in S : n + 1 \in S
  PROVE  S = Nat
<1> DEFINE R == {q \in Nat \X Nat : q[1] < q[2]}
<1>1. IsWellFoundedOn(R, Nat)
  <2>1. R = OpToRel(<, Nat)
    BY DEF OpToRel
  <2> QED
    BY <2>1, NatLessThanWellFounded
<1> HIDE DEF R
<1>2. SUFFICES ASSUME Nat \ S # {} PROVE FALSE
  OBVIOUS
<1>3. PICK m \in Nat \ S : \A n \in Nat \ S : ~(<<n, m>> \in R)
  BY <1>1, <1>2, WFMin
<1>4. m # 0 /\ m - 1 \in Nat
  BY <1>3
<1>5. <<m - 1, m>> \in R
  BY <1>4 DEF R
<1>6. m - 1 \in S
  BY <1>3, <1>4, <1>5
<1> QED
  BY <1>3, <1>4, <1>6

Describes(s) ==
  /\ Len(s) \in Nat
  /\ \A i \in 1 .. Len(s) : s[i].address \in Nat /\ s[i].length \in Nat

LEMMA StretchTyped ==
  ASSUME NEW a \in Nat, NEW n \in Nat
  PROVE  Stretch(a, n) \in Seq(Nat) /\ Len(Stretch(a, n)) = n
<1>1. Stretch(a, n) \in [1 .. n -> Nat]
  BY DEF Stretch
<1> QED
  BY <1>1, SeqDef DEF Stretch

\* Pieces that follow each other are one piece.
LEMMA StretchJoined ==
  ASSUME NEW a \in Nat, NEW m \in Nat, NEW n \in Nat
  PROVE  Stretch(a, m) \o Stretch(a + m, n) = Stretch(a, m + n)
<1> DEFINE s == Stretch(a, m) t == Stretch(a + m, n) u == Stretch(a, m + n)
<1>1. /\ s \in Seq(Nat) /\ Len(s) = m /\ t \in Seq(Nat) /\ Len(t) = n /\ u \in Seq(Nat) /\ Len(u) = m + n
  <2>1. a + m \in Nat /\ m + n \in Nat
    OBVIOUS
  <2> QED
    BY <2>1, StretchTyped
<1>2. /\ \A i \in 1 .. m : s[i] = a + i - 1
      /\ \A i \in 1 .. n : t[i] = a + m + i - 1
      /\ \A i \in 1 .. m + n : u[i] = a + i - 1
  BY DEF Stretch
<1> HIDE DEF s, t, u
<1>3. /\ s \o t \in Seq(Nat) /\ Len(s \o t) = m + n
      /\ \A i \in 1 .. m + n : (s \o t)[i] = IF i <= m THEN s[i] ELSE t[i - m]
  BY <1>1, ConcatProperties
<1>4. ASSUME NEW i \in 1 .. m + n PROVE (s \o t)[i] = u[i]
  <2>1. u[i] = a + i - 1 /\ i \in Nat
    BY <1>2
  <2>2. CASE i <= m
    <3>1. (s \o t)[i] = s[i] /\ i \in 1 .. m
      BY <1>3, <2>2
    <3> QED
      BY <1>2, <2>1, <3>1
  <2>3. CASE ~(i <= m)
    <3>1. (s \o t)[i] = t[i - m] /\ i - m \in 1 .. n
      BY <1>3, <2>3
    <3>2. t[i - m] = a + m + (i - m) - 1
      BY <1>2, <3>1
    <3> QED
      BY <2>1, <3>1, <3>2
  <2> QED
    BY <2>2, <2>3
<1>5. s \o t = u
  BY <1>1, <1>3, <1>4, SeqEqual
<1> QED
  BY <1>5 DEF s, t, u

LEMMA NatAssociative ==
  ASSUME NEW x \in Seq(Nat), NEW y \in Seq(Nat), NEW z \in Seq(Nat)
  PROVE  (x \o y) \o z = x \o (y \o z)
<1> DEFINE S == Nat
<1>1. x \in Seq(S) /\ y \in Seq(S) /\ z \in Seq(S)
  OBVIOUS
<1> HIDE DEF S
<1> QED
  BY <1>1, ConcatAssociative, SMTT(30)

LEMMA StretchEmpty == \A a \in Nat : Stretch(a, 0) = << >>
BY DEF Stretch

\* The recursive function UpTo is what its definition says.
UpToDefined(s) ==
  /\ UpTo(s)[0] = << >>
  /\ \A n \in 0 .. Len(s) : UpTo(s)[n] \in Seq(Nat)
  /\ \A n \in 1 .. Len(s) : UpTo(s)[n] = UpTo(s)[n - 1] \o Stretch(s[n].address, s[n].length)

Piled(f, m, d) ==
  /\ f \in [0 .. m -> Seq(Nat)] /\ f[0] = << >>
  /\ \A n \in 1 .. m : f[n] = f[n - 1] \o d[n]

LEMMA PiledHigher ==
  ASSUME NEW N \in Nat, NEW d \in [1 .. N -> Seq(Nat)], NEW m \in Nat, m + 1 <= N, NEW f, Piled(f, m, d)
  PROVE  Piled([n \in 0 .. m + 1 |-> IF n = m + 1 THEN f[m] \o d[m + 1] ELSE f[n]], m + 1, d)
<1> DEFINE g == [n \in 0 .. m + 1 |-> IF n = m + 1 THEN f[m] \o d[m + 1] ELSE f[n]]
<1>1. f[m] \in Seq(Nat) /\ d[m + 1] \in Seq(Nat)
  BY DEF Piled
<1>2. f[m] \o d[m + 1] \in Seq(Nat)
  BY <1>1, ConcatProperties
<1>3. g \in [0 .. m + 1 -> Seq(Nat)]
  BY <1>2 DEF Piled
<1>4. g[0] = << >>
  BY DEF Piled
<1>5. ASSUME NEW n \in 1 .. m + 1 PROVE g[n] = g[n - 1] \o d[n]
  <2>1. CASE n = m + 1
    <3>1. n - 1 = m /\ m \in 0 .. m + 1 /\ m # m + 1 /\ m + 1 \in 0 .. m + 1
      BY <2>1
    <3>2. g[m + 1] = f[m] \o d[m + 1] /\ g[m] = f[m]
      BY <3>1
    <3> HIDE DEF g
    <3> QED
      BY <2>1, <3>1, <3>2
  <2>2. CASE n # m + 1
    <3>1. n \in 1 .. m /\ n - 1 \in 0 .. m /\ n \in 0 .. m + 1 /\ n - 1 \in 0 .. m + 1 /\ n - 1 # m + 1
      BY <2>2
    <3>2. g[n] = f[n] /\ g[n - 1] = f[n - 1]
      BY <2>2, <3>1
    <3> HIDE DEF g
    <3> QED
      BY <3>1, <3>2 DEF Piled
  <2> QED
    BY <2>1, <2>2
<1> HIDE DEF g
<1>6. Piled(g, m + 1, d)
  BY <1>3, <1>4, <1>5 DEF Piled
<1> QED
  BY <1>6 DEF g

LEMMA PiledExists ==
  ASSUME NEW N \in Nat, NEW d \in [1 .. N -> Seq(Nat)]
  PROVE  \E f : Piled(f, N, d)
<1> DEFINE S == {m \in Nat : m <= N => \E f : Piled(f, m, d)}
<1>1. 0 \in S
  <2>1. << >> \in Seq(Nat)
    OBVIOUS
  <2>2. Piled([n \in 0 .. 0 |-> << >>], 0, d)
    BY <2>1 DEF Piled
  <2> QED
    BY <2>2
<1>2. ASSUME NEW m \in S PROVE m + 1 \in S
  <2>1. m \in Nat /\ (m <= N => \E f : Piled(f, m, d))
    OBVIOUS
  <2>2. ASSUME m + 1 <= N PROVE \E f : Piled(f, m + 1, d)
    <3>1. PICK f : Piled(f, m, d)
      BY <2>1, <2>2
    <3> QED
      BY <2>1, <2>2, <3>1, PiledHigher
  <2> QED
    BY <2>1, <2>2
<1>3. S = Nat
  BY <1>1, <1>2, Induct
<1>4. N \in S
  BY <1>3
<1> QED
  BY <1>4

LEMMA UpToIs ==
  ASSUME NEW s, Describes(s)
  PROVE  UpToDefined(s)
<1> DEFINE N == Len(s)
           D(n) == Stretch(s[n].address, s[n].length)
           d == [n \in 1 .. N |-> D(n)]
<1>1. N \in Nat /\ d \in [1 .. N -> Seq(Nat)]
  BY StretchTyped DEF Describes
<1>2. \A n \in 1 .. N : d[n] = D(n)
  OBVIOUS
<1> HIDE DEF d, N, D
<1>3. PICK f : Piled(f, N, d)
  BY <1>1, PiledExists
<1> DEFINE Is(h) == h = [n \in 0 .. N |-> IF n = 0 THEN << >> ELSE h[n - 1] \o D(n)]
<1>4. Is(f)
  <2>1. f = [n \in 0 .. N |-> f[n]]
    BY <1>3 DEF Piled
  <2>2. ASSUME NEW n \in 0 .. N PROVE f[n] = IF n = 0 THEN << >> ELSE f[n - 1] \o D(n)
    <3>1. CASE n = 0
      BY <1>3, <3>1 DEF Piled
    <3>2. CASE n # 0
      <4>1. n \in 1 .. N
        BY <1>1, <3>2
      <4>2. f[n] = f[n - 1] \o d[n] /\ d[n] = D(n)
        BY <1>2, <1>3, <4>1 DEF Piled
      <4> QED
        BY <3>2, <4>2
    <3> QED
      BY <3>1, <3>2
  <2> QED
    BY <2>1, <2>2, Zenon
<1>5. Is(UpTo(s))
  BY <1>4 DEF UpTo, D, N
<1>6. /\ UpTo(s)[0] = << >>
      /\ \A n \in 1 .. N : UpTo(s)[n] = UpTo(s)[n - 1] \o d[n]
  <2>1. \A n \in 0 .. N : UpTo(s)[n] = IF n = 0 THEN << >> ELSE UpTo(s)[n - 1] \o D(n)
    BY <1>5, Zenon
  <2>2. ASSUME NEW n \in 1 .. N PROVE UpTo(s)[n] = UpTo(s)[n - 1] \o d[n]
    <3>1. n \in 0 .. N /\ n # 0 /\ d[n] = D(n)
      BY <1>1, <1>2
    <3> QED
      BY <2>1, <3>1
  <2>3. 0 \in 0 .. N
    BY <1>1
  <2> QED
    BY <2>1, <2>2, <2>3
<1> HIDE DEF Is
<1> DEFINE V == {m \in Nat : m <= N => UpTo(s)[m] \in Seq(Nat)}
<1>7. V = Nat
  <2>1. 0 \in V
    <3>1. << >> \in Seq(Nat)
      OBVIOUS
    <3> QED
      BY <1>6, <3>1
  <2>2. ASSUME NEW m \in V PROVE m + 1 \in V
    <3>0. m \in Nat /\ (m <= N => UpTo(s)[m] \in Seq(Nat))
      OBVIOUS
    <3>1. ASSUME m + 1 <= N PROVE UpTo(s)[m + 1] \in Seq(Nat)
      <4>1. m + 1 \in 1 .. N /\ (m + 1) - 1 = m /\ m <= N
        BY <1>1, <3>0, <3>1
      <4>2. UpTo(s)[m] \in Seq(Nat) /\ d[m + 1] \in Seq(Nat) /\ UpTo(s)[m + 1] = UpTo(s)[m] \o d[m + 1]
        BY <1>1, <1>6, <3>0, <4>1
      <4> QED
        BY <4>2, ConcatProperties
    <3> QED
      BY <3>0, <3>1
  <2> QED
    BY <2>1, <2>2, Induct
<1>8. \A n \in 0 .. N : UpTo(s)[n] \in Seq(Nat)
  BY <1>1, <1>7
<1>9. \A n \in 1 .. N : UpTo(s)[n] = UpTo(s)[n - 1] \o D(n)
  BY <1>2, <1>6
<1> QED
  BY <1>6, <1>8, <1>9 DEF UpToDefined, D, N

\* Two sequences that describe the same pieces move the same addresses.
LEMMA SamePieces ==
  ASSUME NEW s, NEW t, Describes(s), Describes(t), NEW k \in Nat, k <= Len(s), k <= Len(t),
         \A i \in 1 .. k : s[i].address = t[i].address /\ s[i].length = t[i].length
  PROVE  UpTo(s)[k] = UpTo(t)[k]
<1>1. UpToDefined(s) /\ UpToDefined(t) /\ Len(s) \in Nat /\ Len(t) \in Nat
  BY UpToIs DEF Describes
<1> DEFINE V == {m \in Nat : m <= k => UpTo(s)[m] = UpTo(t)[m]}
<1>2. 0 \in V
  BY <1>1 DEF UpToDefined
<1>3. ASSUME NEW m \in V PROVE m + 1 \in V
  <2>1. SUFFICES ASSUME m + 1 <= k PROVE UpTo(s)[m + 1] = UpTo(t)[m + 1]
    OBVIOUS
  <2>2. m + 1 \in 1 .. Len(s) /\ m + 1 \in 1 .. Len(t) /\ m + 1 \in 1 .. k /\ (m + 1) - 1 = m
    BY <1>1, <2>1
  <2>3. UpTo(s)[m + 1] = UpTo(s)[m] \o Stretch(s[m + 1].address, s[m + 1].length)
    BY <1>1, <2>2 DEF UpToDefined
  <2>4. UpTo(t)[m + 1] = UpTo(t)[m] \o Stretch(t[m + 1].address, t[m + 1].length)
    BY <1>1, <2>2 DEF UpToDefined
  <2>5. UpTo(s)[m] = UpTo(t)[m]
    BY <2>1
  <2>6. s[m + 1].address = t[m + 1].address /\ s[m + 1].length = t[m + 1].length
    BY <2>2
  <2> QED
    BY <2>3, <2>4, <2>5, <2>6
<1>4. V = Nat
  BY <1>2, <1>3, Induct
<1> QED
  BY <1>4

Pieces == [address : Nat, length : 1 .. MaxLength, first : BOOLEAN, last : BOOLEAN]

\* What of the list has been cut.
Cut == UpTo(list)[element - 1] \o Stretch(list[element].address, list[element].length - remaining)

DescTypeOK ==
  /\ engine \in {"off", "adma2", "idmac"}
  /\ table \in Seq(Pieces)
  /\ engine # "off" =>
       /\ list \in Lists /\ element \in 1 .. Len(list) + 1
       /\ address \in Nat /\ remaining \in Nat

\* Inside the list the table moves what has been cut, the element's rest begins
\* at the address, and there is a descriptor to mark once an element is cut.
Cutting ==
  engine # "off" /\ element <= Len(list) =>
    /\ remaining <= list[element].length
    /\ address + remaining = list[element].address + list[element].length
    /\ Addresses(table) = Cut
    /\ element > 1 \/ remaining < list[element].length => table # << >>
    /\ \A i \in 1 .. Len(table) : ~table[i].first /\ ~table[i].last

AfterCut ==
  engine # "off" /\ element > Len(list) => remaining = 0 /\ DescriptorsCover

DescIInv == DescTypeOK /\ Cutting /\ AfterCut

\* The lists, and what a list and a table describe.
LEMMA ListTyped ==
  ASSUME NEW l \in Lists
  PROVE  /\ l \in Seq([address : Nat, length : Nat \ {0}]) /\ Len(l) \in Nat \ {0} /\ DOMAIN l = 1 .. Len(l)
         /\ Describes(l)
         /\ \A i \in 1 .. Len(l) : l[i].address \in Nat /\ l[i].length \in Nat \ {0}
<1>1. l \in Seq([address : Nat, length : Nat \ {0}]) /\ l # << >>
  BY ListsAssumption
<1>2. Len(l) \in Nat \ {0} /\ DOMAIN l = 1 .. Len(l)
  BY <1>1, EmptySeq, LenProperties
<1>3. \A i \in 1 .. Len(l) : l[i] \in [address : Nat, length : Nat \ {0}]
  BY <1>1, ElementOfSeq
<1> QED
  BY <1>1, <1>2, <1>3 DEF Describes

LEMMA TableTyped ==
  ASSUME NEW t \in Seq(Pieces)
  PROVE  /\ Len(t) \in Nat /\ DOMAIN t = 1 .. Len(t) /\ Describes(t)
         /\ \A i \in 1 .. Len(t) : t[i] \in Pieces
<1>1. MaxLength \in Nat
  BY ListsAssumption
<1>2. Len(t) \in Nat /\ DOMAIN t = 1 .. Len(t)
  BY LenProperties
<1>3. \A i \in 1 .. Len(t) : t[i] \in Pieces
  BY ElementOfSeq
<1>4. \A p \in Pieces : p.address \in Nat /\ p.length \in Nat
  BY <1>1 DEF Pieces
<1> QED
  BY <1>2, <1>3, <1>4 DEF Describes

LEMMA NothingDescribed == Addresses(<< >>) = << >>
<1>1. Describes(<< >>) /\ Len(<< >>) = 0
  BY DEF Describes
<1> QED
  BY <1>1, UpToIs DEF Addresses, UpToDefined

\* A descriptor adds its piece.
LEMMA OneMore ==
  ASSUME NEW t \in Seq(Pieces), NEW p \in Pieces
  PROVE  /\ Append(t, p) \in Seq(Pieces)
         /\ Addresses(Append(t, p)) = Addresses(t) \o Stretch(p.address, p.length)
<1> DEFINE u == Append(t, p)
<1>1. /\ u \in Seq(Pieces) /\ Len(u) = Len(t) + 1 /\ u[Len(t) + 1] = p
      /\ \A i \in 1 .. Len(t) : u[i] = t[i]
  BY TableTyped
<1> HIDE DEF u
<1>2. Len(t) \in Nat /\ Describes(t) /\ Describes(u)
  BY <1>1, TableTyped
<1>3. UpTo(u)[Len(t)] = UpTo(t)[Len(t)]
  BY <1>1, <1>2, SamePieces
<1>4. UpTo(u)[Len(t) + 1] = UpTo(u)[Len(t)] \o Stretch(p.address, p.length)
  <2>1. UpToDefined(u) /\ Len(t) + 1 \in 1 .. Len(u) /\ (Len(t) + 1) - 1 = Len(t)
    BY <1>1, <1>2, UpToIs
  <2> QED
    BY <1>1, <2>1 DEF UpToDefined
<1>5. Addresses(u) = Addresses(t) \o Stretch(p.address, p.length)
  BY <1>1, <1>3, <1>4 DEF Addresses
<1> QED
  BY <1>1, <1>5 DEF u

\* A mark moves nothing.
LEMMA MarkMovesNothing ==
  ASSUME NEW t \in Seq(Pieces), NEW u \in Seq(Pieces), Len(u) = Len(t),
         \A i \in 1 .. Len(t) : u[i].address = t[i].address /\ u[i].length = t[i].length
  PROVE  Addresses(u) = Addresses(t)
<1>1. Len(t) \in Nat /\ Describes(t) /\ Describes(u)
  BY TableTyped
<1> QED
  BY <1>1, SamePieces DEF Addresses

LEMMA MarkedLast ==
  ASSUME NEW t \in Seq(Pieces), NEW i \in 1 .. Len(t)
  PROVE  LET u == Marked(t, i, "last") IN
         /\ u \in Seq(Pieces) /\ Len(u) = Len(t)
         /\ \A j \in 1 .. Len(t) : /\ u[j].address = t[j].address /\ u[j].length = t[j].length
                                   /\ u[j].first = t[j].first
                                   /\ u[j].last = IF j = i THEN TRUE ELSE t[j].last
<1> DEFINE p == [t[i] EXCEPT !["last"] = TRUE] u == Marked(t, i, "last")
<1>1. t[i] \in Pieces
  BY TableTyped
<1>2. /\ p.address = t[i].address /\ p.length = t[i].length /\ p.first = t[i].first /\ p.last = TRUE
      /\ p \in Pieces
  BY <1>1 DEF Pieces
<1>3. u = [t EXCEPT ![i] = p]
  BY DEF Marked
<1> HIDE DEF p, u
<1>4. u \in Seq(Pieces) /\ Len(u) = Len(t) /\ \A j \in 1 .. Len(t) : u[j] = IF j = i THEN p ELSE t[j]
  BY <1>2, <1>3, ExceptSeq
<1>5. ASSUME NEW j \in 1 .. Len(t)
      PROVE  /\ u[j].address = t[j].address /\ u[j].length = t[j].length /\ u[j].first = t[j].first
             /\ u[j].last = IF j = i THEN TRUE ELSE t[j].last
  BY <1>2, <1>4
<1> QED
  BY <1>4, <1>5 DEF u

LEMMA MarkedFirst ==
  ASSUME NEW t \in Seq(Pieces), NEW i \in 1 .. Len(t)
  PROVE  LET u == Marked(t, i, "first") IN
         /\ u \in Seq(Pieces) /\ Len(u) = Len(t)
         /\ \A j \in 1 .. Len(t) : /\ u[j].address = t[j].address /\ u[j].length = t[j].length
                                   /\ u[j].last = t[j].last
                                   /\ u[j].first = IF j = i THEN TRUE ELSE t[j].first
<1> DEFINE p == [t[i] EXCEPT !["first"] = TRUE] u == Marked(t, i, "first")
<1>1. t[i] \in Pieces
  BY TableTyped
<1>2. /\ p.address = t[i].address /\ p.length = t[i].length /\ p.last = t[i].last /\ p.first = TRUE
      /\ p \in Pieces
  BY <1>1 DEF Pieces
<1>3. u = [t EXCEPT ![i] = p]
  BY DEF Marked
<1> HIDE DEF p, u
<1>4. u \in Seq(Pieces) /\ Len(u) = Len(t) /\ \A j \in 1 .. Len(t) : u[j] = IF j = i THEN p ELSE t[j]
  BY <1>2, <1>3, ExceptSeq
<1>5. ASSUME NEW j \in 1 .. Len(t)
      PROVE  /\ u[j].address = t[j].address /\ u[j].length = t[j].length /\ u[j].last = t[j].last
             /\ u[j].first = IF j = i THEN TRUE ELSE t[j].first
  BY <1>2, <1>4
<1> QED
  BY <1>4, <1>5 DEF u

LEMMA DescriptorsInitHolds == DescriptorsInit => DescIInv
<1>1. << >> \in Seq(Pieces)
  OBVIOUS
<1> QED
  BY <1>1 DEF DescriptorsInit, DescIInv, DescTypeOK, Cutting, AfterCut

LEMMA BuildTableHolds ==
  ASSUME DescIInv, BuildTable
  PROVE  DescIInv'
<1>1. /\ engine' \in {"adma2", "idmac"} /\ list' \in Lists /\ element' = 1
      /\ address' = list'[1].address /\ remaining' = list'[1].length /\ table' = << >>
  BY DEF BuildTable
<1>2. PICK l \in Lists : l = list'
  BY <1>1
<1>3. /\ Len(l) \in Nat \ {0} /\ l[1].address \in Nat /\ l[1].length \in Nat \ {0} /\ UpToDefined(l)
  BY ListTyped, UpToIs
<1>4. << >> \in Seq(Pieces) /\ Len(<< >>) = 0 /\ Addresses(<< >>) = << >>
  BY NothingDescribed
<1>5. Cut' = << >>
  <2>0. 1 - 1 = 0 /\ l[1].length - l[1].length = 0
    BY <1>3
  <2>1. Cut' = UpTo(l)[0] \o Stretch(l[1].address, 0)
    BY <1>1, <1>2, <2>0, Zenon DEF Cut
  <2> QED
    BY <1>3, <2>1, StretchEmpty DEF UpToDefined
<1>6. DescTypeOK'
  BY <1>1, <1>2, <1>3, <1>4 DEF DescTypeOK
<1>7. Cutting'
  BY <1>1, <1>2, <1>3, <1>4, <1>5 DEF Cutting
<1>8. AfterCut'
  BY <1>1, <1>2, <1>3 DEF AfterCut
<1> QED
  BY <1>6, <1>7, <1>8 DEF DescIInv

LEMMA AddDescriptorHolds ==
  ASSUME DescIInv, AddDescriptor
  PROVE  DescIInv'
<1>1. /\ engine # "off" /\ remaining > 0 /\ UNCHANGED <<engine, list, element>>
      /\ address' = address + Piece /\ remaining' = remaining - Piece
      /\ table' = Append(table, Descriptor)
  BY DEF AddDescriptor
<1>2. /\ list \in Lists /\ element \in 1 .. Len(list) + 1 /\ address \in Nat /\ remaining \in Nat
      /\ table \in Seq(Pieces) /\ Len(list) \in Nat
  BY <1>1, ListTyped DEF DescIInv, DescTypeOK
<1>3. element \in 1 .. Len(list)
  BY <1>1, <1>2 DEF DescIInv, AfterCut
<1> DEFINE e == list[element]
           done == e.length - remaining
<1>4. e.address \in Nat /\ e.length \in Nat \ {0} /\ Describes(list)
  BY <1>2, <1>3, ListTyped
<1> DEFINE whole == UpTo(list)[element - 1]
<1>5. /\ remaining <= e.length /\ address + remaining = e.address + e.length
      /\ Addresses(table) = whole \o Stretch(e.address, done)
      /\ \A i \in 1 .. Len(table) : ~table[i].first /\ ~table[i].last
  <2>1. engine # "off" /\ element <= Len(list)
    BY <1>1, <1>2, <1>3
  <2> QED
    BY <2>1, Zenon DEF DescIInv, Cutting, Cut
<1> HIDE DEF whole
<1>6. PICK n \in 1 .. MaxLength : n = Piece /\ n <= remaining
  BY <1>1, <1>2, ListsAssumption DEF Piece
<1>7. MaxLength \in Nat /\ n \in Nat \ {0}
  BY ListsAssumption, <1>6
<1> DEFINE p == [address |-> address, length |-> n, first |-> FALSE, last |-> FALSE]
<1>8. p \in Pieces /\ p.address = address /\ p.length = n /\ ~p.first /\ ~p.last /\ table' = Append(table, p)
  BY <1>1, <1>2, <1>6 DEF Descriptor, Pieces
<1> HIDE DEF p, e
<1>9. done \in Nat /\ address = e.address + done /\ e.length - remaining' = done + n
      /\ remaining' \in Nat /\ address' \in Nat /\ remaining' < e.length
      /\ address' + remaining' = e.address + e.length
  <2>1. PICK a \in Nat, l \in Nat : a = e.address /\ l = e.length
    BY <1>4
  <2>2. address' = address + n /\ remaining' = remaining - n
    BY <1>1, <1>6
  <2>3. remaining <= l /\ address + remaining = a + l
    BY <1>5, <2>1
  <2>4. /\ remaining - n \in Nat /\ address + n \in Nat /\ remaining - n < l
        /\ (address + n) + (remaining - n) = a + l
        /\ l - remaining \in Nat /\ address = a + (l - remaining)
        /\ l - (remaining - n) = (l - remaining) + n
    <3>1. n <= remaining
      BY <1>6
    <3> QED
      BY <1>2, <1>7, <2>3, <3>1
  <2> QED
    BY <2>1, <2>2, <2>4
<1> HIDE DEF done
<1>10. Addresses(table') = whole \o Stretch(e.address, done + n)
  <2>1. Addresses(table') = Addresses(table) \o Stretch(address, n)
    BY <1>2, <1>8, OneMore
  <2>2. whole \in Seq(Nat)
    <3>1. UpToDefined(list) /\ element - 1 \in 0 .. Len(list)
      BY <1>2, <1>3, <1>4, UpToIs
    <3> QED
      BY <3>1 DEF UpToDefined, whole
  <2>3. Stretch(e.address, done) \in Seq(Nat) /\ Stretch(address, n) \in Seq(Nat)
    BY <1>2, <1>4, <1>7, <1>9, StretchTyped
  <2>4. Stretch(e.address, done) \o Stretch(address, n) = Stretch(e.address, done + n)
    BY <1>4, <1>7, <1>9, StretchJoined
  <2>5. (whole \o Stretch(e.address, done)) \o Stretch(address, n)
          = whole \o (Stretch(e.address, done) \o Stretch(address, n))
    <3>1. \A x, y, z \in Seq(Nat) : (x \o y) \o z = x \o (y \o z)
      <4> TAKE x \in Seq(Nat), y \in Seq(Nat), z \in Seq(Nat)
      <4> QED
        BY NatAssociative, Zenon
    <3> QED
      BY <2>2, <2>3, <3>1, Zenon
  <2> QED
    BY <1>5, <2>1, <2>4, <2>5
<1>11. Cut' = whole \o Stretch(e.address, done + n)
  <2>1. Cut' = whole \o Stretch(e.address, e.length - remaining')
    BY <1>1, Zenon DEF Cut, e, whole
  <2> QED
    BY <1>9, <2>1, Zenon
<1>12. /\ table' \in Seq(Pieces) /\ table' # << >>
       /\ \A i \in 1 .. Len(table') : ~table'[i].first /\ ~table'[i].last
  <2>1. /\ Len(table') = Len(table) + 1 /\ Len(table) \in Nat /\ table' \in Seq(Pieces)
        /\ \A i \in 1 .. Len(table) + 1 : table'[i] = IF i = Len(table) + 1 THEN p ELSE table[i]
    BY <1>2, <1>8, TableTyped, OneMore
  <2> QED
    BY <1>5, <1>8, <2>1
<1>13. DescTypeOK'
  BY <1>1, <1>2, <1>9, <1>12 DEF DescIInv, DescTypeOK
<1>14. Cutting'
  <2>1. Addresses(table)' = Cut'
    BY <1>10, <1>11, Zenon
  <2>2. list'[element'].address = e.address /\ list'[element'].length = e.length
    BY <1>1 DEF e
  <2>3. remaining' <= e.length
    BY <1>4, <1>9
  <2> QED
    BY <1>9, <1>12, <2>1, <2>2, <2>3 DEF Cutting
<1>15. AfterCut'
  BY <1>1, <1>2, <1>3 DEF AfterCut
<1> QED
  BY <1>13, <1>14, <1>15 DEF DescIInv

\* What has been cut once an element is.
LEMMA ElementCut ==
  ASSUME NEW l \in Lists, NEW i \in 1 .. Len(l)
  PROVE  UpTo(l)[i - 1] \o Stretch(l[i].address, l[i].length - 0) = UpTo(l)[i]
<1>1. UpToDefined(l) /\ l[i].length - 0 = l[i].length
  BY ListTyped, UpToIs
<1> QED
  BY <1>1 DEF UpToDefined

LEMMA NextElementHolds ==
  ASSUME DescIInv, NextElement
  PROVE  DescIInv'
<1>1. /\ engine # "off" /\ element \in DOMAIN list /\ remaining = 0
      /\ element' = element + 1 /\ UNCHANGED <<engine, list>> /\ table' = Ended(table)
      /\ IF element < Len(list)
         THEN address' = list[element + 1].address /\ remaining' = list[element + 1].length
         ELSE UNCHANGED <<address, remaining>>
  BY DEF NextElement
<1>2. /\ list \in Lists /\ Len(list) \in Nat \ {0} /\ element \in 1 .. Len(list)
      /\ address \in Nat /\ remaining \in Nat /\ table \in Seq(Pieces) /\ UpToDefined(list)
      /\ \A i \in 1 .. Len(list) : list[i].address \in Nat /\ list[i].length \in Nat \ {0}
  BY <1>1, ListTyped, UpToIs DEF DescIInv, DescTypeOK
<1>3. /\ Addresses(table) = UpTo(list)[element] /\ table # << >>
      /\ \A i \in 1 .. Len(table) : ~table[i].first /\ ~table[i].last
  <2>1. engine # "off" /\ element <= Len(list) /\ remaining < list[element].length
    BY <1>1, <1>2
  <2>2. /\ Addresses(table) = Cut /\ table # << >>
        /\ \A i \in 1 .. Len(table) : ~table[i].first /\ ~table[i].last
    BY <2>1, Zenon DEF DescIInv, Cutting
  <2>3. Cut = UpTo(list)[element - 1] \o Stretch(list[element].address, list[element].length - 0)
    BY <1>1, Zenon DEF Cut
  <2>4. UpTo(list)[element - 1] \o Stretch(list[element].address, list[element].length - 0) = UpTo(list)[element]
    BY <1>2, ElementCut
  <2> QED
    BY <2>2, <2>3, <2>4, Zenon
<1>4. Len(table) \in Nat \ {0} /\ DOMAIN table = 1 .. Len(table) /\ \A i \in 1 .. Len(table) : table[i] \in Pieces
  BY <1>2, <1>3, TableTyped, EmptySeq
<1>5. CASE element < Len(list)
  <2>1. table' = table
    BY <1>1, <1>5 DEF Ended
  <2>2. address' = list[element + 1].address /\ remaining' = list[element + 1].length
        /\ element + 1 \in 1 .. Len(list)
    BY <1>1, <1>2, <1>5
  <2>3. PICK a \in Nat, n \in Nat \ {0} : a = list[element + 1].address /\ n = list[element + 1].length
    BY <1>2, <2>2
  <2>4. Cut' = UpTo(list)[element]
    <3>1. (element + 1) - 1 = element /\ n - n = 0
      BY <1>2, <2>3
    <3>2. Cut' = UpTo(list)[element] \o Stretch(a, 0)
      BY <1>1, <2>2, <2>3, <3>1, Zenon DEF Cut
    <3>3. UpTo(list)[element] \in Seq(Nat) /\ Stretch(a, 0) = << >>
      BY <1>2, StretchEmpty DEF UpToDefined
    <3> QED
      BY <3>2, <3>3, ConcatEmptySeq
  <2>5. Addresses(table)' = Cut'
    BY <1>3, <2>1, <2>4, Zenon
  <2>6. DescTypeOK'
    BY <1>1, <1>2, <2>1, <2>2, <2>3 DEF DescIInv, DescTypeOK
  <2>7. Cutting'
    BY <1>1, <1>2, <1>3, <2>1, <2>2, <2>3, <2>5 DEF Cutting
  <2>8. AfterCut'
    BY <1>1, <1>2, <1>5 DEF AfterCut
  <2> QED
    BY <2>6, <2>7, <2>8 DEF DescIInv
<1>6. CASE ~(element < Len(list))
  <2>1. element = Len(list) /\ UNCHANGED <<address, remaining>>
    BY <1>1, <1>2, <1>6
  <2> DEFINE n == Len(table) u == Marked(table, n, "last") v == Marked(u, 1, "first")
  <2>2. n \in 1 .. n /\ 1 \in 1 .. n
    BY <1>4
  <2>3. /\ u \in Seq(Pieces) /\ Len(u) = n
        /\ \A j \in 1 .. n : /\ u[j].address = table[j].address /\ u[j].length = table[j].length
                             /\ u[j].first = table[j].first
                             /\ u[j].last = IF j = n THEN TRUE ELSE table[j].last
    BY <1>2, <2>2, MarkedLast
  <2> HIDE DEF u
  <2>4. /\ v \in Seq(Pieces) /\ Len(v) = n
        /\ \A j \in 1 .. n : /\ v[j].address = u[j].address /\ v[j].length = u[j].length
                             /\ v[j].last = u[j].last
                             /\ v[j].first = IF j = 1 THEN TRUE ELSE u[j].first
    <3>1. PICK y \in Seq(Pieces) : y = u
      BY <2>3
    <3>2. 1 \in 1 .. Len(y) /\ Len(y) = n
      BY <2>2, <2>3, <3>1
    <3>3. v = Marked(y, 1, "first")
      BY <3>1, Zenon DEF v
    <3> HIDE DEF v
    <3>4. /\ v \in Seq(Pieces) /\ Len(v) = Len(y)
          /\ \A j \in 1 .. Len(y) : /\ v[j].address = y[j].address /\ v[j].length = y[j].length
                                     /\ v[j].last = y[j].last
                                     /\ v[j].first = IF j = 1 THEN TRUE ELSE y[j].first
      <4> DEFINE m == Marked(y, 1, "first")
      <4>1. /\ m \in Seq(Pieces) /\ Len(m) = Len(y)
            /\ \A j \in 1 .. Len(y) : /\ m[j].address = y[j].address /\ m[j].length = y[j].length
                                       /\ m[j].last = y[j].last
                                       /\ m[j].first = IF j = 1 THEN TRUE ELSE y[j].first
        BY <3>2, MarkedFirst, ZenonT(40)
      <4> HIDE DEF m
      <4>2. v = m
        BY <3>3, Zenon DEF m
      <4> QED
        BY <4>1, <4>2
    <3> HIDE DEF n
    <3> QED
      BY <3>1, <3>2, <3>4
  <2> HIDE DEF v
  <2>5. table' = IF engine = "adma2" THEN u ELSE v
    BY <1>1, <1>6 DEF Ended, u, v
  <2>6. engine = "adma2" \/ engine = "idmac"
    BY <1>1 DEF DescIInv, DescTypeOK
  <2>7. PICK w \in Seq(Pieces) : w = table'
    BY <2>3, <2>4, <2>5
  <2>8. /\ Len(w) = n
        /\ \A j \in 1 .. n : /\ w[j].address = table[j].address /\ w[j].length = table[j].length
                             /\ w[j].last = IF j = n THEN TRUE ELSE table[j].last
                             /\ w[j].first = IF engine = "idmac" /\ j = 1 THEN TRUE ELSE table[j].first
    <3>1. CASE engine = "adma2"
      BY <2>3, <2>5, <2>7, <3>1
    <3>2. CASE engine = "idmac"
      BY <2>3, <2>4, <2>5, <2>7, <3>2, ZenonT(40)
    <3> QED
      BY <2>6, <3>1, <3>2
  <2>9. Addresses(w) = Addresses(list)
    <3>1. Addresses(w) = Addresses(table)
      BY <1>2, <2>7, <2>8, MarkMovesNothing
    <3> QED
      BY <1>3, <2>1, <3>1 DEF Addresses
  <2>10. ASSUME NEW i \in 1 .. n
         PROVE  /\ w[i].length <= MaxLength
                /\ w[i].last = (i = n)
                /\ w[i].first = (engine = "idmac" /\ i = 1)
    <3>1. w[i] \in Pieces /\ ~table[i].first /\ ~table[i].last /\ table[i] \in Pieces
      BY <1>3, <1>4, <2>7, <2>8, TableTyped
    <3>2. w[i].length \in 1 .. MaxLength /\ table[i].first = FALSE /\ table[i].last = FALSE
      BY <3>1 DEF Pieces
    <3>3. w[i].length <= MaxLength
      BY <3>2, ListsAssumption
    <3>4. w[i].last = (i = n)
      BY <2>8, <3>2
    <3>5. w[i].first = (engine = "idmac" /\ i = 1)
      BY <2>8, <3>2
    <3> QED
      BY <3>3, <3>4, <3>5
  <2>11. DOMAIN w = 1 .. n
    BY <2>7, <2>8, TableTyped
  <2>12. DescTypeOK'
    BY <1>1, <1>2, <2>1, <2>7 DEF DescIInv, DescTypeOK
  <2>13. Cutting'
    BY <1>1, <1>2, <2>1 DEF Cutting
  <2>14. DescriptorsCover'
    BY <1>1, <2>7, <2>8, <2>9, <2>10, <2>11, ZenonT(40) DEF DescriptorsCover
  <2>15. AfterCut'
    BY <1>1, <2>1, <2>14 DEF AfterCut
  <2> QED
    BY <2>12, <2>13, <2>15 DEF DescIInv
<1> QED
  BY <1>5, <1>6

LEMMA DescriptorsStepHolds == DescIInv /\ [DescriptorsNext]_descVars => DescIInv'
<1> SUFFICES ASSUME DescIInv, [DescriptorsNext]_descVars PROVE DescIInv'
  OBVIOUS
<1>1. CASE UNCHANGED descVars
  BY <1>1, Zenon DEF descVars, DescIInv, DescTypeOK, Cutting, Cut, AfterCut, DescriptorsCover, Addresses
<1> QED
  BY <1>1, BuildTableHolds, AddDescriptorHolds, NextElementHolds DEF DescriptorsNext

\* For any list with elements that are not empty and any limit of a descriptor's
\* length, the finished table of either controller moves the addresses of the
\* list in its order, and ends where the last descriptor says.
THEOREM TableCovers == DescriptorsSpec => []DescriptorsCover
<1>1. DescIInv => DescriptorsCover
  <2> SUFFICES ASSUME DescIInv, engine # "off", element > Len(list) PROVE DescriptorsCover
    BY DEF DescriptorsCover
  <2> QED
    BY DEF DescIInv, AfterCut
<1> QED
  BY <1>1, DescriptorsInitHolds, DescriptorsStepHolds, PTL DEF DescriptorsSpec
=============================================================================
