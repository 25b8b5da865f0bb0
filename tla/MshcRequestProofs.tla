---------------------------- MODULE MshcRequestProofs ----------------------------
(***************************************************************************)
(* For any kinds of requests: sdport is told once of each thing it issues  *)
(* and of nothing else, a request reported successful is done, and an      *)
(* event the driver waits for is still to come.                            *)
(*                                                                         *)
(* The invariant has three parts.  Order says whose turn it is: who may    *)
(* complete the outstanding request, and that nobody may once it has been  *)
(* completed.  What is awaited says of each phase which events are and     *)
(* which status is to be reported; Order rests on it, as it leaves nothing *)
(* to the DPC when a transfer begins.  Both hold whatever happens.         *)
(* Progress says of a request that has not failed where each of its events *)
(* is: a response, a data end and a request for data are at any time in    *)
(* one place only, from the controller to the DPC that awaits them.  It is *)
(* given up when the DPC overtakes the thread that chains the chunks of a  *)
(* PIO transfer, and regained with the controller's reset.                 *)
(*                                                                         *)
(* The last two sections are about MshcBus, the voltage and the clock the  *)
(* card finds, for any rates and whatever fails, and about MshcTuning, the *)
(* phase its data are sampled at, for any number of phases.                *)
(***************************************************************************)
EXTENDS MshcRequest, MshcBus, MshcTuning, SequenceTheorems, WellFoundedInduction, TLAPS

BITS == {"CMD", "DTO", "TXDR", "RXDR", "RTO", "DRTO", "DCRC"}
ERRORS == {"CMD_TIMEOUT", "DATA_TIMEOUT", "DATA_CRC_ERROR"}
STATUSES == {"NOT_SET", "SUCCESS", "FAILED", "MORE_PROCESSING_REQUIRED"}
HOSTS == {"idle", "done", "waiting", "transfer", "failed", "reset_cmd", "reset_dat",
          "send_stop", "stop", "resetting", "send_tuning", "tuning", "tuning_gap",
          "start_tuning"}

TypeOK ==
  /\ outstanding \in Who \cup {"none"} /\ active \in Who
  /\ kind \in [Who -> Kinds \cup {Stop, Tune}]
  /\ required \in [Who -> SUBSET EVENTS] /\ status \in [Who -> STATUSES]
  /\ remaining \in Nat
  /\ currentEvents \subseteq EVENTS /\ currentErrors \subseteq ERRORS
  /\ rintsts \subseteq BITS /\ isr \subseteq BITS
  /\ sdpEvents \subseteq EVENTS /\ sdpErrors \subseteq ERRORS
  /\ localPending \in BOOLEAN /\ busyWork \in BOOLEAN /\ localDpc \in BOOLEAN
  /\ unmasked \in BOOLEAN /\ dataUnmasked \in BOOLEAN
  /\ cmd \in {"idle", "sent", "late"} /\ data \in {"none", "moving", "late", "over"}
  /\ left \in Nat /\ fifo \in Nat /\ busy \in BOOLEAN
  /\ host \in HOSTS /\ phase \in {"command", "transfer"}
  /\ step \in {"none", "start", "moved", "awaited", "chained"} /\ seen \subseteq EVENTS
  /\ told \in [Who -> 0..2] /\ erred \in BOOLEAN /\ dropped \subseteq ERRORS
  /\ missed \in BOOLEAN /\ overtaken \in BOOLEAN

-----------------------------------------------------------------------------
(* Order.                                                                  *)

\* A host that has a request issued and may be told of its end.
Issued == host = "waiting" \/ (host \in {"stop", "tuning"} /\ localPending)

OrderOK ==
  /\ outstanding \in {"none", active}
  /\ localPending =>
       host \in {"send_stop", "stop", "send_tuning", "tuning", "start_tuning"}
  /\ host \in {"waiting", "transfer", "failed"} => active = "sdp"
  /\ host \in {"stop", "resetting", "tuning", "tuning_gap", "start_tuning"} => active = "loc"
  /\ host \in {"tuning", "tuning_gap", "start_tuning"} => kind["loc"] = Tune
  /\ host = "send_stop" => localPending /\ outstanding = "none"
  /\ host = "start_tuning" => localPending
  /\ host = "send_tuning" => localPending
  /\ host \in {"transfer", "done", "tuning_gap", "start_tuning"} => outstanding = "none"
  /\ host = "tuning" /\ ~localPending /\ status["loc"] = "SUCCESS" => outstanding = "none"
  /\ step \in {"start", "moved"} \/ busyWork =>
       Issued /\ required[active] = {} /\ outstanding = active
  /\ step # "none" => host \in {"waiting", "transfer", "done", "failed", "tuning"}
  /\ Issued => outstanding = active
  /\ busyWork => step \notin {"start", "moved"}
  /\ seen # {} => step = "moved"
  /\ sdpErrors # {} => sdpEvents # {}
  /\ localDpc => /\ host \notin {"waiting", "transfer", "failed", "idle"}
                 /\ active = "loc" \/ host \in {"send_stop", "send_tuning"}
                 /\ localPending \/ required["loc"] = {} \/ outstanding = "none"
                 /\ host = "send_tuning" => outstanding = "none"
  /\ overtaken => host # "idle" /\ (host = "send_tuning" => outstanding = "none")
  /\ host = "waiting" => told["sdp"] = 0
  /\ told["sdp"] <= 1 /\ told["loc"] = 0

-----------------------------------------------------------------------------
(* Progress.                                                               *)

IsPioWrite(k) == k.data = "pio" /\ k.dir = "write"

\* The request that is on the bus, or between its two phases, has not failed.
Live ==
  \/ host \in {"waiting", "transfer", "tuning_gap", "start_tuning"}
  \/ host = "tuning" /\ (localPending \/ status["loc"] = "SUCCESS")

\* All of the request is done, or its command is and its data can be moved.
LocalDone == host = "tuning" /\ ~localPending /\ status["loc"] = "SUCCESS"
Finished ==
  \/ busyWork /\ (phase = "transfer" \/ ~IsData(OnBus))
  \/ LocalDone /\ phase = "transfer"
Ready ==
  \/ step = "start" \/ host \in {"transfer", "tuning_gap", "start_tuning"}
  \/ busyWork /\ phase = "command" /\ IsData(OnBus)
  \/ LocalDone /\ phase = "command"

Needs == required[active]
Raised == rintsts \cup isr
\* On its way to the DPC of the request on the bus, which may keep it.
Passing == IF active = "sdp" THEN sdpEvents ELSE {}
PassingErrors == IF active = "sdp" THEN sdpErrors ELSE {}
Handed == Passing \cup currentEvents
OnItsWay(e) == e \in Passing \/ (active = "loc" /\ localDpc /\ e \in currentEvents)

HasError(bits) == "RTO" \in bits \/ "DRTO" \in bits \/ "DCRC" \in bits
Stopped == data \in {"late", "over"}

\* An error is in somebody's hands, or was dropped between the phases.
ErrorsOK ==
  /\ erred => \/ dropped # {} \/ currentErrors # {} \/ PassingErrors # {}
              \/ HasError(Raised)
  /\ ("RTO" \in Raised \/ cmd = "late"
      \/ "CMD_TIMEOUT" \in PassingErrors \cup currentErrors) =>
       /\ erred /\ data \notin {"moving", "late"} /\ "RXDR" \notin Raised
       /\ "BUFFER_FULL" \notin Handed /\ (IsPioRead(OnBus) => fifo = 0)
  /\ "DRTO" \in Raised \/ "DATA_TIMEOUT" \in PassingErrors \cup currentErrors => Stopped

\* The response is in one place, from the controller to its DPC.
ResponseOK ==
  /\ cmd = "sent" =>
       /\ Raised = {} /\ Handed = {} /\ ~erred /\ "CARD_RESPONSE" \in Needs
       /\ data \notin {"moving", "late"} /\ phase = "command" /\ step = "none"
       /\ currentErrors = {} /\ PassingErrors = {}
       /\ IsPioRead(OnBus) => fifo = 0
  /\ cmd = "late" => "CARD_RESPONSE" \in Needs
  /\ "CMD" \in Raised => cmd = "idle" /\ "CARD_RESPONSE" \in Needs
                         /\ "CARD_RESPONSE" \notin Handed
  /\ "CMD" \in rintsts => "CMD" \notin isr
  /\ "CARD_RESPONSE" \in Handed => cmd = "idle"
  /\ "CARD_RESPONSE" \in Passing => "CARD_RESPONSE" \in Needs
  /\ "RTO" \in rintsts => cmd = "late" \/ "CMD" \in rintsts
  /\ "RTO" \in isr => cmd = "late" \/ "CMD" \in Raised
  /\ "CMD_TIMEOUT" \in PassingErrors =>
       cmd = "late" \/ "CMD" \in Raised \/ "CARD_RESPONSE" \in Passing
  /\ "CARD_RESPONSE" \in Needs => cmd # "idle" \/ "CMD" \in Raised \/ OnItsWay("CARD_RESPONSE")

\* So is the end of the data.
EndOK ==
  /\ data \in {"moving", "late"} => cmd = "idle" /\ IsData(OnBus)
  /\ data = "late" => erred
  /\ IsData(OnBus) /\ ~erred /\ cmd = "idle" =>
       data = "moving" \/ (data = "over" /\ left = 0)
  /\ "DTO" \in Raised => /\ data = "over" /\ "CARD_RW_END" \notin Handed \cup seen
                         /\ OnBus.data = "dma" => "CARD_RW_END" \in Needs
  /\ "DTO" \in rintsts => "DTO" \notin isr
  /\ "DTO" \in Raised \/ "CARD_RW_END" \in Handed \cup seen =>
       cmd = "idle" /\ data = "over" /\ IsData(OnBus)
  /\ "CARD_RW_END" \in Passing => /\ "CARD_RW_END" \notin currentEvents \cup seen
                                  /\ OnBus.data = "dma" => "CARD_RW_END" \in Needs
  /\ "DRTO" \in rintsts \/ "DCRC" \in rintsts =>
       data \in {"moving", "late"} \/ "DTO" \in rintsts
  /\ "DRTO" \in isr \/ "DCRC" \in isr => data \in {"moving", "late"} \/ "DTO" \in Raised
  /\ "DATA_TIMEOUT" \in PassingErrors \/ "DATA_CRC_ERROR" \in PassingErrors =>
       data \in {"moving", "late"} \/ "DTO" \in Raised \/ "CARD_RW_END" \in Passing
  /\ OnBus.data = "dma" =>
       /\ "CARD_RW_END" \notin Needs => data = "over" /\ cmd = "idle"
       /\ "CARD_RW_END" \in Needs /\ ~erred =>
            cmd # "idle" \/ data = "moving" \/ "DTO" \in Raised \/ "CARD_RW_END" \in Passing

\* The end of a PIO transfer's data is kept until it is asked for, or missed.
CaughtOK ==
  ~erred /\ ~missed =>
    /\ OnBus.data = "pio" /\ cmd = "idle" /\ data = "over" /\ ~Finished =>
         "DTO" \in Raised \/ "CARD_RW_END" \in Handed \cup seen
    /\ step = "moved" /\ "CARD_RW_END" \in currentEvents => OnItsWay("CARD_RW_END")
    /\ OnBus.data = "pio" /\ "CARD_RW_END" \in Needs /\ data = "over" =>
         "DTO" \in Raised \/ OnItsWay("CARD_RW_END")

\* A PIO read's request for data means a chunk in the FIFO, once.
ReadOK ==
  /\ remaining = left + fifo \/ (erred /\ Stopped /\ fifo = 0)
  /\ "BUFFER_FULL" \in Needs =>
       remaining > 0 /\ (step # "none" \/ dataUnmasked \/ "RXDR" \in isr \/ OnItsWay("BUFFER_FULL"))
  /\ step # "moved" /\ remaining > 0 /\ "BUFFER_FULL" \notin Needs =>
       fifo > 0 \/ (erred /\ Stopped)
  /\ "CARD_RESPONSE" \in Needs => "BUFFER_FULL" \in Needs
  /\ "RXDR" \in rintsts => fifo > 0
  /\ "RXDR" \in isr => /\ cmd = "idle" /\ "CMD" \notin rintsts
                       /\ (fifo > 0 /\ ~dataUnmasked) \/ Stopped \/ HasError(isr)
  /\ "BUFFER_FULL" \in Handed => cmd = "idle" /\ "CMD" \notin Raised
  /\ "BUFFER_FULL" \in Passing =>
       /\ (fifo > 0 /\ ~dataUnmasked) \/ Stopped \/ PassingErrors # {}
       /\ "RXDR" \in isr => Stopped \/ HasError(isr) \/ PassingErrors # {}
  /\ "BUFFER_FULL" \in currentEvents =>
       /\ (fifo > 0 /\ ~dataUnmasked) \/ Stopped \/ currentErrors # {}
       /\ "RXDR" \in isr => Stopped \/ HasError(isr) \/ currentErrors # {}
       /\ step \notin {"none", "start"} => Stopped \/ currentErrors # {}
  /\ "BUFFER_FULL" \notin Needs \/ step # "none" =>
       /\ ~dataUnmasked \/ Stopped
       /\ "RXDR" \in isr => Stopped \/ HasError(isr)
       /\ "BUFFER_FULL" \in Passing => Stopped \/ PassingErrors # {}
  /\ step \in {"awaited", "chained"} /\ "BUFFER_FULL" \notin Needs => Stopped

WriteOK ==
  /\ remaining + fifo = left
  /\ "BUFFER_EMPTY" \in Needs =>
       remaining > 0 /\ (step # "none" \/ dataUnmasked \/ "TXDR" \in isr \/ OnItsWay("BUFFER_EMPTY"))

DataOK ==
  /\ "RXDR" \in Raised \/ "BUFFER_FULL" \in Handed => IsPioRead(OnBus)
  /\ "TXDR" \in Raised \/ "BUFFER_EMPTY" \in Handed => IsPioWrite(OnBus)
  /\ "TXDR" \in rintsts => data \in {"moving", "late"} \/ "DTO" \in rintsts
  /\ OnBus.data = "dma" => fifo = 0
  /\ IsPioRead(OnBus) => ReadOK
  /\ IsPioWrite(OnBus) => WriteOK

\* What is awaited in each phase, and the status that is to be reported.
AwaitOK ==
  /\ phase = "command" =>
       /\ status[active] # "MORE_PROCESSING_REQUIRED" /\ step = "none"
       /\ Needs \subseteq RequiredFor(OnBus) /\ (OnBus.data = "pio" => remaining > 0)
  /\ phase = "transfer" => IsData(OnBus)
  /\ phase = "transfer" /\ step = "none" /\ Needs # {} =>
       /\ OnBus.data = "pio"
       /\ \/ Needs = {"CARD_RW_END"} /\ remaining = 0 /\ status[active] = "SUCCESS"
          \/ Needs = {BufferEvent(OnBus)} /\ remaining > 0
             /\ status[active] = "MORE_PROCESSING_REQUIRED"
  /\ step = "moved" => OnBus.data = "pio"
  /\ step \in {"awaited", "chained"} =>
       /\ OnBus.data = "pio" /\ remaining > 0 /\ Needs \subseteq {BufferEvent(OnBus)}
       /\ step = "chained" /\ Needs # {} => status[active] = "MORE_PROCESSING_REQUIRED"
  /\ Ready => IsData(OnBus) /\ Needs = {} /\ (OnBus.data = "pio" => remaining > 0)

\* A transfer begins with neither a command nor an error left over.
BeginOK ==
  /\ phase = "transfer" => cmd = "idle"
  /\ Ready /\ OnBus.data = "dma" => currentErrors = {}

\* The card is through with the request, and so is the driver.
Over == cmd = "idle" /\ data \in {"none", "over"} /\ "DTO" \notin Raised
Complete ==
  /\ Over /\ (IsData(OnBus) => remaining = 0)
  /\ erred => dropped # {}

Progress ==
  /\ ErrorsOK /\ ResponseOK /\ EndOK /\ CaughtOK /\ DataOK /\ BeginOK
  /\ Finished => Complete /\ Needs = {}

-----------------------------------------------------------------------------
\* Neither the controller nor anybody above it has anything left to do.
Clean ==
  /\ cmd = "idle" /\ data \in {"none", "over"} /\ rintsts = {}
  /\ IsPioRead(OnBus) => fifo = 0

DoneOK ==
  /\ dropped = {} =>
       ~erred /\ (IsData(OnBus) => data = "over" /\ left = 0 /\ remaining = 0 /\ fifo = 0)
  /\ OnBus.busy \/ OnBus.dir = "write" => ~busy

ProgressOK ==
  /\ host \in {"idle", "send_tuning", "done"} => Clean
  /\ host \in {"idle", "send_tuning"} => isr = {} /\ sdpEvents = {}
  /\ host = "done" => DoneOK
  /\ Live => Progress

TurnOK ==
  /\ Live => AwaitOK
  /\ ~overtaken => ProgressOK

IInv == TypeOK /\ OrderOK /\ TurnOK

-----------------------------------------------------------------------------
(* Events and errors of interrupt bits.                                    *)

LEMMA EventsOf ==
  ASSUME NEW bits, bits \subseteq BITS
  PROVE  /\ Events(bits) \subseteq EVENTS
         /\ Events(bits) = {} <=> bits = {}
         /\ "CARD_RESPONSE" \in Events(bits) <=> "CMD" \in bits
         /\ "CARD_RW_END" \in Events(bits) <=> "DTO" \in bits
         /\ "BUFFER_FULL" \in Events(bits) <=> "RXDR" \in bits
         /\ "BUFFER_EMPTY" \in Events(bits) <=> "TXDR" \in bits
<1>1. \A b \in bits : EventOf[b] \in EVENTS
  BY DEF EventOf, EVENTS, BITS
<1>2. \A b \in bits : /\ EventOf[b] = "CARD_RESPONSE" <=> b = "CMD"
                      /\ EventOf[b] = "CARD_RW_END" <=> b = "DTO"
                      /\ EventOf[b] = "BUFFER_FULL" <=> b = "RXDR"
                      /\ EventOf[b] = "BUFFER_EMPTY" <=> b = "TXDR"
  BY DEF EventOf, BITS
<1> HIDE DEF EVENTS, BITS
<1>3. Events(bits) \subseteq EVENTS
  BY <1>1 DEF Events
<1>4. Events(bits) = {} <=> bits = {}
  BY DEF Events
<1>5. /\ "CARD_RESPONSE" \in Events(bits) <=> "CMD" \in bits
      /\ "CARD_RW_END" \in Events(bits) <=> "DTO" \in bits
  BY <1>2 DEF Events
<1>6. /\ "BUFFER_FULL" \in Events(bits) <=> "RXDR" \in bits
      /\ "BUFFER_EMPTY" \in Events(bits) <=> "TXDR" \in bits
  BY <1>2 DEF Events
<1> QED
  BY <1>3, <1>4, <1>5, <1>6

LEMMA ErrorsOf ==
  ASSUME NEW bits, bits \subseteq BITS
  PROVE  /\ Errors(bits) \subseteq ERRORS
         /\ Errors(bits) # {} <=> HasError(bits)
         /\ "CMD_TIMEOUT" \in Errors(bits) <=> "RTO" \in bits
         /\ "DATA_TIMEOUT" \in Errors(bits) <=> "DRTO" \in bits
         /\ "DATA_CRC_ERROR" \in Errors(bits) <=> "DCRC" \in bits
<1>1. \A b \in INT_ERROR : /\ ErrorOf[b] \in ERRORS
                           /\ ErrorOf[b] = "CMD_TIMEOUT" <=> b = "RTO"
                           /\ ErrorOf[b] = "DATA_TIMEOUT" <=> b = "DRTO"
                           /\ ErrorOf[b] = "DATA_CRC_ERROR" <=> b = "DCRC"
  BY DEF ErrorOf, ERRORS, INT_ERROR
<1>2. {"RTO", "DRTO", "DCRC"} = INT_ERROR
  BY DEF INT_ERROR
<1>3. HasError(bits) <=> bits \cap INT_ERROR # {}
  BY <1>2 DEF HasError
<1>4. Errors(bits) \subseteq ERRORS
  BY <1>1 DEF Errors
<1>5. Errors(bits) # {} <=> bits \cap INT_ERROR # {}
  BY DEF Errors
<1>6. /\ "CMD_TIMEOUT" \in Errors(bits) <=> "RTO" \in bits
      /\ "DATA_TIMEOUT" \in Errors(bits) <=> "DRTO" \in bits
      /\ "DATA_CRC_ERROR" \in Errors(bits) <=> "DCRC" \in bits
  BY <1>1, <1>2 DEF Errors
<1> QED
  BY <1>3, <1>4, <1>5, <1>6

\* A request has data exactly when it has a direction and a length.
LEMMA KindOf ==
  ASSUME TypeOK, NEW w \in Who
  PROVE  /\ kind[w] \in Kind
         /\ kind[w].data = "none" <=> kind[w].chunks = 0
         /\ kind[w].data = "none" <=> kind[w].dir = "none"
<1>1. Stop \in Kind /\ Stop.data = "none" /\ Stop.chunks = 0 /\ Stop.dir = "none"
  BY DEF Stop, Kind
<1>2. Tune \in Kind /\ Tune.data = "pio" /\ Tune.chunks = 1 /\ Tune.dir = "read"
  BY DEF Tune, Kind
<1>3. kind[w] \in Kinds \cup {Stop, Tune}
  BY DEF TypeOK
<1> HIDE DEF TypeOK
<1>4. CASE kind[w] \in Kinds
  BY <1>4, KindsAssumption
<1>5. CASE kind[w] = Stop
  BY <1>5, <1>1
<1>6. CASE kind[w] = Tune
  BY <1>6, <1>2
<1> QED
  BY <1>3, <1>4, <1>5, <1>6

LEMMA RequiredEvents ==
  ASSUME NEW k
  PROVE  RequiredFor(k) \subseteq EVENTS /\ BufferEvent(k) \in EVENTS
BY DEF RequiredFor, BufferEvent, EVENTS

-----------------------------------------------------------------------------
(* Types.                                                                  *)

LEMMA InitTyped == Init => TypeOK
<1> SUFFICES ASSUME Init PROVE TypeOK
  OBVIOUS
<1>1. kind \in [Who -> Kinds \cup {Stop, Tune}]
  BY DEF Init
<1>2. /\ required \in [Who -> SUBSET EVENTS] /\ status \in [Who -> STATUSES]
      /\ told \in [Who -> 0..2]
  BY DEF Init, STATUSES
<1> QED
  BY <1>1, <1>2 DEF Init, TypeOK, Who, HOSTS

LEMMA HardwareTyped ==
  ASSUME TypeOK, Hardware
  PROVE  TypeOK'
<1>1. HwQuiet
  BY DEF Hardware, HwRespond, HwNoResponse, HwLateCommand, HwMove, HwDataRequest,
         HwCrcError, HwDataEnd, HwDataTimeout, HwLateData, HwIdle
<1>2. rintsts' \subseteq BITS
  BY DEF Hardware, HwRespond, HwNoResponse, HwLateCommand, HwMove, HwDataRequest,
         HwCrcError, HwDataEnd, HwDataTimeout, HwLateData, HwIdle, TypeOK, BITS, hwVars
<1>3. /\ cmd' \in {"idle", "sent", "late"} /\ data' \in {"none", "moving", "late", "over"}
      /\ erred' \in BOOLEAN
  BY DEF Hardware, HwRespond, HwNoResponse, HwLateCommand, HwMove, HwDataRequest,
         HwCrcError, HwDataEnd, HwDataTimeout, HwLateData, HwIdle, TypeOK, hwVars
<1>4. busy' \in BOOLEAN
  <2>1. OnBus.busy \in BOOLEAN
    BY KindOf DEF OnBus, TypeOK, Kind
  <2> QED
    BY <2>1 DEF Hardware, HwRespond, HwNoResponse, HwLateCommand, HwMove, HwDataRequest,
         HwCrcError, HwDataEnd, HwDataTimeout, HwLateData, HwIdle, TypeOK, hwVars
<1>5. left' \in Nat /\ fifo' \in Nat
  <2>1. left \in Nat /\ fifo \in Nat
    BY DEF TypeOK
  <2>2. CASE HwMove
    BY <2>1, <2>2 DEF HwMove
  <2>3. CASE ~HwMove
    BY <2>1, <2>3 DEF Hardware, HwRespond, HwNoResponse, HwLateCommand, HwDataRequest,
         HwCrcError, HwDataEnd, HwDataTimeout, HwLateData, HwIdle, hwVars
  <2> QED
    BY <2>2, <2>3
<1> QED
  BY <1>1, <1>2, <1>3, <1>4, <1>5
  DEF TypeOK, HwQuiet, reqVars, accVars, dpcVars, endVars, hostVars

LEMMA CompletionTyped ==
  ASSUME TypeOK, NEW w \in Who, NEW s \in STATUSES, Finish(w, s)
  PROVE  /\ status' \in [Who -> STATUSES] /\ outstanding' \in Who \cup {"none"}
         /\ localPending' \in BOOLEAN /\ told' \in [Who -> 0..2] /\ host' \in HOSTS
<1>1. PICK reported \in {s, "FAILED"} :
        /\ status' = [status EXCEPT ![w] = reported]
        /\ IF localPending THEN UNCHANGED <<told, host>> ELSE SdPortCompleteRequest(w, reported)
  BY DEF Finish
<1>2. reported \in STATUSES
  BY DEF STATUSES
<1>3. told' \in [Who -> 0..2]
  <2>1. told \in [Who -> 0..2]
    BY DEF TypeOK
  <2> QED
    BY <2>1, <1>1 DEF SdPortCompleteRequest
<1>4. host' \in HOSTS
  BY <1>1 DEF TypeOK, SdPortCompleteRequest, AfterCompletion, HOSTS
<1>5. status' \in [Who -> STATUSES]
  BY <1>1, <1>2 DEF TypeOK
<1> QED
  BY <1>3, <1>4, <1>5 DEF Finish, TypeOK

LEMMA CompleteTyped ==
  ASSUME TypeOK, NEW w \in Who, NEW s \in STATUSES, CompleteRequest(w, s)
  PROVE  /\ status' \in [Who -> STATUSES] /\ outstanding' \in Who \cup {"none"}
         /\ localPending' \in BOOLEAN /\ told' \in [Who -> 0..2] /\ host' \in HOSTS
         /\ busyWork' \in BOOLEAN
<1>1. CASE Finish(w, s) /\ UNCHANGED busyWork
  BY <1>1, CompletionTyped DEF TypeOK
<1>2. CASE ~(Finish(w, s) /\ UNCHANGED busyWork)
  BY <1>2 DEF CompleteRequest, TypeOK
<1> QED
  BY <1>1, <1>2

LEMMA DpcTyped ==
  ASSUME TypeOK, NEW w \in Who, NEW events \in SUBSET EVENTS, NEW errors \in SUBSET ERRORS,
         RequestDpc(w, events, errors)
  PROVE  /\ status' \in [Who -> STATUSES] /\ outstanding' \in Who \cup {"none"}
         /\ localPending' \in BOOLEAN /\ told' \in [Who -> 0..2] /\ host' \in HOSTS
         /\ busyWork' \in BOOLEAN
         /\ required' \in [Who -> SUBSET EVENTS]
         /\ currentEvents' \subseteq EVENTS /\ currentErrors' \subseteq ERRORS
         /\ dropped' \subseteq ERRORS /\ missed' \in BOOLEAN /\ overtaken' \in BOOLEAN
<1> DEFINE outcome == IF status[w] = "MORE_PROCESSING_REQUIRED" THEN status[w] ELSE "SUCCESS"
<1>1. outcome \in STATUSES /\ "FAILED" \in STATUSES
  BY DEF STATUSES
<1>2. \/ KeepRequest \/ CompleteRequest(w, "FAILED") \/ CompleteRequest(w, outcome)
  BY DEF RequestDpc
<1>3. KeepRequest =>
         /\ status' \in [Who -> STATUSES] /\ outstanding' \in Who \cup {"none"}
         /\ localPending' \in BOOLEAN /\ told' \in [Who -> 0..2] /\ host' \in HOSTS
         /\ busyWork' \in BOOLEAN
  BY DEF KeepRequest, endVars, TypeOK
<1>4. /\ required' \in [Who -> SUBSET EVENTS]
      /\ currentEvents' \subseteq EVENTS /\ currentErrors' \subseteq ERRORS
      /\ dropped' \subseteq ERRORS
  BY DEF RequestDpc, Save, Drop, accVars, TypeOK
<1>5. missed' \in BOOLEAN /\ overtaken' \in BOOLEAN
  BY Zenon DEF RequestDpc, Drop, Overtake, KeepRequest, TypeOK
<1> HIDE DEF outcome
<1> QED
  BY <1>1, <1>2, <1>3, <1>4, <1>5, CompleteTyped

LEMMA InterruptTyped ==
  ASSUME TypeOK, Interrupt
  PROVE  TypeOK'
<1>1. CASE IsrAcknowledge
  <2>1. isr' \subseteq BITS /\ rintsts' \subseteq BITS /\ dataUnmasked' \in BOOLEAN
    BY <1>1 DEF IsrAcknowledge, TypeOK
  <2> QED
    BY <1>1, <2>1
    DEF IsrAcknowledge, TypeOK, reqVars, accVars, dpcVars, hwVars, endVars, hostVars, errVars
<1>2. CASE IsrDeliver
  <2>1. Events(isr) \subseteq EVENTS /\ Errors(isr) \subseteq ERRORS
    BY EventsOf, ErrorsOf DEF TypeOK
  <2>2. /\ currentEvents' \subseteq EVENTS /\ currentErrors' \subseteq ERRORS
        /\ sdpEvents' \subseteq EVENTS /\ sdpErrors' \subseteq ERRORS
        /\ localDpc' \in BOOLEAN /\ dropped' \subseteq ERRORS
    BY <1>2, <2>1 DEF IsrDeliver, TypeOK, accVars, Drop
  <2>3. missed' \in BOOLEAN
    BY <1>2, Zenon DEF IsrDeliver, TypeOK, Drop
  <2> QED
    BY <1>2, <2>2, <2>3 DEF IsrDeliver, TypeOK, reqVars, hwVars, endVars, hostVars
<1>3. CASE SdportDpc
  <2>1. /\ "sdp" \in Who /\ sdpEvents \in SUBSET EVENTS /\ sdpErrors \in SUBSET ERRORS
    BY DEF TypeOK, Who
  <2>2. \/ RequestDpc("sdp", sdpEvents, sdpErrors)
        \/ UNCHANGED <<accVars, required>> /\ KeepRequest /\ Drop(sdpEvents, sdpErrors)
    BY <1>3 DEF SdportDpc
  <2>3. /\ status' \in [Who -> STATUSES] /\ outstanding' \in Who \cup {"none"}
        /\ localPending' \in BOOLEAN /\ told' \in [Who -> 0..2] /\ host' \in HOSTS
        /\ busyWork' \in BOOLEAN
        /\ required' \in [Who -> SUBSET EVENTS]
        /\ currentEvents' \subseteq EVENTS /\ currentErrors' \subseteq ERRORS
        /\ dropped' \subseteq ERRORS /\ missed' \in BOOLEAN /\ overtaken' \in BOOLEAN
    <3>1. CASE RequestDpc("sdp", sdpEvents, sdpErrors)
      BY <2>1, <3>1, DpcTyped
    <3>2. CASE UNCHANGED <<accVars, required>> /\ KeepRequest /\ Drop(sdpEvents, sdpErrors)
      BY <3>2, Zenon DEF KeepRequest, Drop, accVars, endVars, TypeOK
    <3> QED
      BY <2>2, <3>1, <3>2
  <2> QED
    BY <1>3, <2>3 DEF SdportDpc, TypeOK, intVars, hwVars
<1>4. CASE LocalRequestDpc
  <2>1. /\ status' \in [Who -> STATUSES] /\ outstanding' \in Who \cup {"none"}
        /\ localPending' \in BOOLEAN /\ told' \in [Who -> 0..2] /\ host' \in HOSTS
        /\ busyWork' \in BOOLEAN
        /\ required' \in [Who -> SUBSET EVENTS]
        /\ currentEvents' \subseteq EVENTS /\ currentErrors' \subseteq ERRORS
        /\ dropped' \subseteq ERRORS /\ missed' \in BOOLEAN /\ overtaken' \in BOOLEAN
    <3>1. CASE \E w \in Who : RequestDpc(w, currentEvents, currentErrors)
      BY <3>1, DpcTyped DEF TypeOK
    <3>2. CASE UNCHANGED <<accVars, required, dropped, missed>> /\ KeepRequest
      BY <3>2, Zenon DEF KeepRequest, accVars, endVars, TypeOK
    <3> QED
      BY <1>4, <3>1, <3>2 DEF LocalRequestDpc
  <2> QED
    BY <1>4, <2>1, ZenonT(40) DEF LocalRequestDpc, TypeOK, intVars, hwVars
<1>5. CASE BusyWorker
  <2>1. \E w \in Who : Finish(w, "SUCCESS") \/ Finish(w, "FAILED")
    BY <1>5 DEF BusyWorker
  <2>2. /\ status' \in [Who -> STATUSES] /\ outstanding' \in Who \cup {"none"}
        /\ localPending' \in BOOLEAN /\ told' \in [Who -> 0..2] /\ host' \in HOSTS
    BY <2>1, CompletionTyped DEF STATUSES
  <2>3. /\ busyWork' = FALSE
        /\ UNCHANGED <<kind, required, remaining, active, phase, step, seen>>
        /\ UNCHANGED <<currentEvents, currentErrors, rintsts, unmasked, dataUnmasked, isr>>
        /\ UNCHANGED <<sdpEvents, sdpErrors, localDpc, cmd, data, left, fifo, busy, erred, dropped>>
        /\ UNCHANGED <<missed, overtaken>>
    BY <1>5 DEF BusyWorker, accVars, intVars, dpcVars, hwVars, errVars
  <2>4. busyWork' \in BOOLEAN /\ missed' \in BOOLEAN /\ overtaken' \in BOOLEAN
    BY <2>3, Zenon DEF TypeOK
  <2> QED
    BY <2>2, <2>3, <2>4, SMTT(30) DEF TypeOK
<1> QED
  BY <1>1, <1>2, <1>3, <1>4, <1>5 DEF Interrupt

LEMMA TransferTyped ==
  ASSUME TypeOK, Transfer, remaining > 0 \/ step # "start" \/ OnBus.data # "pio"
  PROVE  TypeOK'
<1>1. CASE StartDmaTransfer
  <2>1. active \in Who /\ "SUCCESS" \in STATUSES
    BY DEF TypeOK, STATUSES
  <2>2. CompleteRequest(active, "SUCCESS")
    BY <1>1 DEF StartDmaTransfer
  <2> QED
    BY <1>1, <2>1, <2>2, CompleteTyped
    DEF StartDmaTransfer, TypeOK, accVars, intVars, dpcVars, hwVars, errVars
<1>2. CASE PioMove
  <2>1. remaining' \in Nat /\ fifo' \in Nat
    BY <1>2 DEF PioMove, TypeOK
  <2>2. /\ rintsts' \subseteq BITS /\ seen' \subseteq EVENTS /\ currentEvents' \subseteq EVENTS
        /\ step' = "moved"
    BY <1>2 DEF PioMove, TypeOK
  <2>3. UNCHANGED <<kind, required, status, currentErrors, unmasked, dataUnmasked, isr,
                    sdpEvents, sdpErrors, localDpc, cmd, data, left, busy, outstanding,
                    localPending, busyWork, told, host, active, phase, erred, dropped, missed,
                    overtaken>>
    BY <1>2 DEF PioMove, PioQuiet, dpcVars, endVars
  <2> QED
    BY <2>1, <2>2, <2>3 DEF TypeOK
<1>3. CASE PioMore \/ PioAgain \/ PioRearm \/ PioLast
  <2>1. active \in Who /\ "SUCCESS" \in STATUSES /\ "MORE_PROCESSING_REQUIRED" \in STATUSES
    BY DEF TypeOK, STATUSES
  <2>2. /\ status' \in [Who -> STATUSES] /\ outstanding' \in Who \cup {"none"}
        /\ localPending' \in BOOLEAN /\ told' \in [Who -> 0..2] /\ host' \in HOSTS
        /\ busyWork' \in BOOLEAN
    <3>1. CASE CompleteRequest(active, "SUCCESS")
      BY <2>1, <3>1, CompleteTyped
    <3>2. CASE ~CompleteRequest(active, "SUCCESS")
      BY <1>3, <2>1, <3>2 DEF PioMore, PioAgain, PioRearm, PioLast, endVars, TypeOK
    <3> QED
      BY <3>1, <3>2
  <2>3. /\ required' \in [Who -> SUBSET EVENTS] /\ dropped' \subseteq ERRORS
        /\ seen' \subseteq EVENTS /\ step' \in {"awaited", "chained", "none"}
    <3>1. BufferEvent(OnBus) \in EVENTS /\ "CARD_RW_END" \in EVENTS
      BY RequiredEvents DEF EVENTS
    <3>2. required' \in [Who -> SUBSET EVENTS]
      BY <1>3, <3>1 DEF PioMore, PioAgain, PioRearm, PioLast, Await, TypeOK
    <3> QED
      BY <1>3, <3>2 DEF PioMore, PioAgain, PioRearm, PioLast, PioStep, Drop, TypeOK
  <2>4. missed' \in BOOLEAN /\ overtaken' \in BOOLEAN /\ dataUnmasked' \in BOOLEAN
    BY <1>3, Zenon DEF PioMore, PioAgain, PioRearm, PioLast, Drop, Rearmed, TypeOK
  <2>5. UNCHANGED <<kind, remaining, currentEvents, currentErrors, rintsts, unmasked, isr,
                    sdpEvents, sdpErrors, localDpc, cmd, data, left, fifo, busy, active, phase,
                    erred>>
    BY <1>3 DEF PioMore, PioAgain, PioRearm, PioLast, PioStep, PioQuiet, dpcVars
  <2> QED
    BY <2>2, <2>3, <2>4, <2>5, ZenonT(60) DEF TypeOK
<1> QED
  BY <1>1, <1>2, <1>3 DEF Transfer

LEMMA SendTyped ==
  ASSUME TypeOK, NEW w \in Who, NEW k \in Kinds \cup {Stop, Tune}, NEW initial \in STATUSES,
         SendCommand(w, k, initial), told' \in [Who -> 0..2], host' \in HOSTS,
         localPending' \in BOOLEAN
  PROVE  TypeOK'
<1>1. RequiredFor(k) \subseteq EVENTS
  BY RequiredEvents
<1>2. k.chunks \in Nat
  BY KindsAssumption DEF Kind, Stop, Tune
<1>3. /\ kind' \in [Who -> Kinds \cup {Stop, Tune}] /\ status' \in [Who -> STATUSES]
      /\ required' \in [Who -> SUBSET EVENTS]
  BY <1>1 DEF SendCommand, TypeOK
<1>4. remaining' \in Nat /\ left' \in Nat /\ fifo' \in Nat
  BY <1>2 DEF SendCommand, BuildTransfer, TypeOK
<1>5. dataUnmasked' \in BOOLEAN /\ dropped' \subseteq ERRORS /\ currentEvents' \subseteq EVENTS
      /\ currentErrors' \subseteq ERRORS
  BY DEF SendCommand, TypeOK
<1> QED
  BY <1>3, <1>4, <1>5 DEF SendCommand, TypeOK, dpcVars

LEMMA StartTyped ==
  ASSUME TypeOK, NEW w \in Who, StartTransfer(w), told' \in [Who -> 0..2], host' \in HOSTS,
         localPending' \in BOOLEAN
  PROVE  TypeOK'
BY DEF StartTransfer, TypeOK, reqVars, accVars, intVars, dpcVars, hwVars, errVars

LEMMA HostTyped ==
  ASSUME TypeOK, Sdport \/ Reset \/ Local
  PROVE  TypeOK'
<1>1. host' \in HOSTS
  BY DEF Sdport, Reset, Local, IssueRequest, IssueTransfer, SdportTimeout, MaskEvents,
         ResetCmd, ResetDat, ResetFinish, LocalPend, LocalIssue, LocalWake, LocalTimeout,
         LocalEnd, HostGoto, HOSTS
<1>2. CASE IssueRequest
  <2>1. told' \in [Who -> 0..2] /\ localPending' \in BOOLEAN
    BY <1>2 DEF IssueRequest, TypeOK
  <2>2. PICK k \in Kinds : SendCommand("sdp", k, "NOT_SET")
    BY <1>2 DEF IssueRequest
  <2> QED
    BY <1>1, <2>1, <2>2, SendTyped DEF Who, STATUSES
<1>3. CASE IssueTransfer
  <2>1. told' \in [Who -> 0..2] /\ localPending' \in BOOLEAN /\ StartTransfer("sdp")
    BY <1>3 DEF IssueTransfer, TypeOK
  <2> QED
    BY <1>1, <2>1, StartTyped DEF Who
<1>4. CASE LocalIssue
  <2>1. told' \in [Who -> 0..2] /\ localPending' \in BOOLEAN
    BY <1>4 DEF LocalIssue, TypeOK
  <2>2. \/ SendCommand("loc", Stop, "SUCCESS") \/ SendCommand("loc", Tune, "SUCCESS")
        \/ StartTransfer("loc")
    BY <1>4 DEF LocalIssue
  <2> QED
    BY <1>1, <2>1, <2>2, SendTyped, StartTyped DEF Who, STATUSES
<1>5. CASE SdportTimeout
  <2>1. told' \in [Who -> 0..2]
    BY <1>5 DEF SdportTimeout, TypeOK, Who
  <2> QED
    BY <1>1, <1>5, <2>1
    DEF SdportTimeout, TypeOK, reqVars, accVars, intVars, dpcVars, hwVars, errVars
<1>6. CASE LocalTimeout
  <2>1. status' \in [Who -> STATUSES]
    BY <1>6 DEF LocalTimeout, TypeOK, Who, STATUSES
  <2>2. localPending' \in BOOLEAN
    BY <1>6 DEF LocalTimeout
  <2>3. UNCHANGED <<kind, required, remaining, currentEvents, currentErrors, rintsts, unmasked,
                    dataUnmasked, isr, sdpEvents, sdpErrors, localDpc, cmd, data, left, fifo,
                    busy, outstanding, busyWork, told, active, phase, step, seen, erred,
                    dropped, missed, overtaken>>
    BY <1>6 DEF LocalTimeout, accVars, intVars, dpcVars, hwVars, errVars
  <2> QED
    BY <1>1, <2>1, <2>2, <2>3 DEF TypeOK
<1>7. CASE ResetCmd \/ ResetFinish
  <2>1. /\ outstanding' \in Who \cup {"none"} /\ unmasked' \in BOOLEAN
        /\ rintsts' \subseteq BITS /\ cmd' \in {"idle", "sent", "late"}
        /\ data' \in {"none", "moving", "late", "over"}
        /\ left' \in Nat /\ fifo' \in Nat /\ busy' \in BOOLEAN /\ overtaken' \in BOOLEAN
    <3>1. HwReset \/ UNCHANGED <<hwVars, rintsts, overtaken>>
      BY <1>7 DEF ResetCmd, ResetFinish
    <3>2. /\ outstanding' \in {"none", outstanding}
          /\ unmasked' \in {TRUE, unmasked}
      BY <1>7 DEF ResetCmd, ResetFinish, endVars
    <3>3. CASE HwReset
      BY <3>2, <3>3 DEF HwReset, TypeOK
    <3>4. CASE UNCHANGED <<hwVars, rintsts, overtaken>>
      BY <3>2, <3>4 DEF hwVars, TypeOK
    <3> QED
      BY <3>1, <3>3, <3>4
  <2>2. UNCHANGED <<kind, required, status, remaining, currentEvents, currentErrors,
                    dataUnmasked, isr, sdpEvents, sdpErrors, localDpc, localPending, busyWork,
                    told, active, phase, step, seen, erred, dropped, missed>>
    BY <1>7 DEF ResetCmd, ResetFinish, reqVars, accVars, dpcVars, endVars
  <2> QED
    BY <1>1, <2>1, <2>2 DEF TypeOK
<1>8. CASE MaskEvents \/ ResetDat \/ LocalPend \/ LocalWake
  <2>1. /\ outstanding' \in Who \cup {"none"} /\ unmasked' \in BOOLEAN
        /\ localPending' \in BOOLEAN
    BY <1>8 DEF MaskEvents, ResetDat, LocalPend, LocalWake, TypeOK, endVars, intVars
  <2>2. UNCHANGED <<kind, required, status, remaining, currentEvents, currentErrors, rintsts,
                    dataUnmasked, isr, sdpEvents, sdpErrors, localDpc, cmd, data, left, fifo,
                    busy, busyWork, told, active, phase, step, seen, erred, dropped, missed,
                    overtaken>>
    BY <1>8 DEF MaskEvents, ResetDat, LocalPend, LocalWake, reqVars, accVars, intVars, dpcVars,
      hwVars, endVars, errVars
  <2> QED
    BY <1>1, <2>1, <2>2 DEF TypeOK
<1> QED
  BY <1>2, <1>3, <1>4, <1>5, <1>6, <1>7, <1>8 DEF Sdport, Reset, Local

LEMMA TypesKept ==
  ASSUME TypeOK, Live => AwaitOK, step = "start" => Issued /\ host # "stop", [Next]_vars
  PROVE  TypeOK'
<1>1. CASE Transfer
  <2>1. remaining > 0 \/ step # "start" \/ OnBus.data # "pio"
    BY DEF AwaitOK, Issued, Live, Ready, TypeOK, OnBus
  <2> QED
    BY <1>1, <2>1, TransferTyped
<1>2. CASE UNCHANGED vars
  BY <1>2 DEF vars, reqVars, accVars, intVars, dpcVars, hwVars, endVars, hostVars, errVars, TypeOK
<1> QED
  BY <1>1, <1>2, HardwareTyped, InterruptTyped, HostTyped DEF Next

-----------------------------------------------------------------------------
(* Order.                                                                  *)

\* What a completion does to the host it is for.
LEMMA FinishHost ==
  ASSUME TypeOK, OrderOK, Issued, NEW s \in STATUSES, Finish(active, s)
  PROVE  /\ \/ s \in Released /\ outstanding' = "none"
            \/ s \notin Released /\ outstanding' = active
         /\ status'[active] \in {s, "FAILED"} /\ localPending' = FALSE
         /\ \A v \in Who : v # active => status'[v] = status[v]
         /\ \/ /\ host = "waiting" /\ active = "sdp"
               /\ told'["sdp"] = 1 /\ told'["loc"] = 0
               /\ \/ host' = "failed"
                  \/ host' \in {"transfer", "done"} /\ s \in Released
                     /\ status'[active] = s
                     /\ (host' = "transfer" <=>
                           s = "MORE_PROCESSING_REQUIRED"
                             \/ (phase = "command" /\ IsData(OnBus)))
            \/ /\ host \in {"stop", "tuning"} /\ localPending /\ active = "loc"
               /\ UNCHANGED <<host, told>>
<1>1. PICK reported \in {s, "FAILED"} :
        /\ status' = [status EXCEPT ![active] = reported]
        /\ outstanding' = IF s \in Released THEN "none" ELSE outstanding
        /\ localPending' = FALSE
        /\ IF localPending THEN UNCHANGED <<told, host>>
           ELSE SdPortCompleteRequest(active, reported)
  BY DEF Finish
<1>2. outstanding = active
  BY DEF OrderOK
<1>3. status'[active] = reported /\ \A v \in Who : v # active => status'[v] = status[v]
  BY <1>1 DEF TypeOK
<1>4. CASE host = "waiting"
  <2>1. ~localPending /\ active = "sdp"
    BY <1>4 DEF OrderOK
  <2>2. SdPortCompleteRequest("sdp", reported)
    BY <1>1, <2>1
  <2>3. told["sdp"] = 0 /\ told["loc"] = 0 /\ told \in [Who -> 0..2]
    BY <1>4 DEF OrderOK, TypeOK
  <2>4. told'["sdp"] = 1 /\ told'["loc"] = 0
    BY <2>2, <2>3 DEF SdPortCompleteRequest, Who
  <2>5. host' = AfterCompletion(reported)
    BY <1>4, <2>2 DEF SdPortCompleteRequest
  <2> QED
    BY <1>1, <1>2, <1>3, <1>4, <2>1, <2>4, <2>5 DEF AfterCompletion, Released, OnBus
<1>5. CASE host # "waiting"
  BY <1>1, <1>2, <1>3, <1>5 DEF Issued, OrderOK
<1> QED
  BY <1>4, <1>5

LEMMA FinishOrder ==
  ASSUME TypeOK, OrderOK, Issued, NEW s \in STATUSES, Finish(active, s),
         ~busyWork', step' \in {"none", "awaited", "chained"}, host = "stop" => step' = "none",
         seen' = {}, required'[active] = {},
         UNCHANGED <<active, kind>>, sdpErrors' # {} => sdpEvents' # {}, localDpc' => localDpc
  PROVE  OrderOK'
<1>1. CASE host = "waiting"
  <2>1. /\ outstanding' \in {"none", active} /\ ~localPending' /\ active = "sdp"
        /\ host' \in {"failed", "transfer", "done"}
        /\ host' \in {"transfer", "done"} => outstanding' = "none"
        /\ told'["sdp"] = 1 /\ told'["loc"] = 0
    BY <1>1, FinishHost DEF Released
  <2>2. ~localDpc'
    BY <1>1 DEF OrderOK
  <2> QED
    BY <2>1, <2>2 DEF OrderOK, Issued
<1>2. CASE host # "waiting"
  <2>1. /\ outstanding' \in {"none", active} /\ ~localPending' /\ active = "loc"
        /\ host \in {"stop", "tuning"} /\ UNCHANGED <<host, told>>
        /\ status'["loc"] = "SUCCESS" => outstanding' = "none"
    BY <1>2, FinishHost DEF Released
  <2> QED
    BY <2>1 DEF OrderOK, Issued
<1> QED
  BY <1>1, <1>2

LEMMA CompleteOrder ==
  ASSUME TypeOK, OrderOK, Issued, NEW s \in STATUSES, CompleteRequest(active, s),
         ~busyWork, step' \in {"none", "awaited", "chained"}, host = "stop" => step' = "none",
         seen' = {}, required'[active] = {},
         UNCHANGED <<active, kind>>, sdpErrors' # {} => sdpEvents' # {}, localDpc' => localDpc
  PROVE  OrderOK'
<1>1. CASE Finish(active, s) /\ UNCHANGED busyWork
  BY <1>1, FinishOrder
<1>2. CASE /\ s = "SUCCESS" /\ status' = [status EXCEPT ![active] = s] /\ busyWork' = TRUE
           /\ UNCHANGED <<outstanding, localPending, told, host>>
  <2>1. \A v \in Who : v # active => status'[v] = status[v]
    BY <1>2 DEF TypeOK
  <2> QED
    BY <1>2, <2>1 DEF OrderOK, Issued, TypeOK
<1> QED
  BY <1>1, <1>2 DEF CompleteRequest

\* What the DPC of the request on the bus may do with it.
LEMMA DpcOutcome ==
  ASSUME TypeOK, OrderOK, NEW events \in SUBSET EVENTS, NEW errors \in SUBSET ERRORS,
         RequestDpc(active, events, errors), outstanding = active
  PROVE  \/ /\ events = {} \/ Needs = {}
            /\ UNCHANGED <<accVars, required>> /\ KeepRequest /\ Drop(events, errors)
         \/ /\ events # {} /\ Needs # {} /\ UNCHANGED <<dropped, missed>>
            /\ \/ /\ currentErrors \cup errors # {}
                  /\ ~MustWait(events, currentErrors \cup errors)
                  /\ required' = [required EXCEPT ![active] = {}]
                  /\ currentEvents' = {} /\ currentErrors' = {}
                  /\ CompleteRequest(active, "FAILED") /\ UNCHANGED overtaken
               \/ /\ currentErrors \cup errors # {} \/ Needs \ events # {}
                  /\ currentErrors \cup errors # {} =>
                       MustWait(events, currentErrors \cup errors)
                  /\ required' = [required EXCEPT ![active] = Needs \ events]
                  /\ Save(events, currentErrors \cup errors)
                  /\ KeepRequest
               \/ /\ currentErrors \cup errors = {} /\ Needs \ events = {}
                  /\ required' = [required EXCEPT ![active] = {}]
                  /\ Save(events, {})
                  /\ \E s \in {"SUCCESS", "MORE_PROCESSING_REQUIRED"} :
                       /\ s = "MORE_PROCESSING_REQUIRED" <=>
                            status[active] = "MORE_PROCESSING_REQUIRED"
                       /\ CompleteRequest(active, s) /\ Overtake(s)
<1> outstanding # "none"
  BY DEF TypeOK, Who
<1>1. CASE events = {} \/ Needs = {}
  BY <1>1 DEF RequestDpc, NothingAwaited, Needs, KeepRequest
<1>2. CASE events # {} /\ Needs # {}
  BY <1>2 DEF RequestDpc, NothingAwaited, Needs
<1> QED
  BY <1>1, <1>2

LEMMA DpcOrder ==
  ASSUME TypeOK, OrderOK, NEW events \in SUBSET EVENTS, NEW errors \in SUBSET ERRORS,
         RequestDpc(active, events, errors), Issued, UNCHANGED <<active, kind, step, seen>>,
         sdpErrors' # {} => sdpEvents' # {}, localDpc' => localDpc /\ ~localPending
  PROVE  OrderOK'
<1>1. outstanding = active /\ active \in Who
  BY DEF OrderOK, TypeOK
<1>2. CASE /\ events = {} \/ Needs = {}
           /\ UNCHANGED <<accVars, required>> /\ KeepRequest /\ Drop(events, errors)
  BY <1>2 DEF OrderOK, Issued, KeepRequest, endVars
<1>3. CASE events # {} /\ Needs # {}
  <2>1. /\ step \in {"none", "awaited", "chained"} /\ ~busyWork /\ seen = {}
        /\ host = "stop" => step = "none"
    BY <1>3 DEF OrderOK, Needs, TypeOK
  <2>2. CASE KeepRequest
    <3>1. required'["loc"] = required["loc"] \/ active = "loc"
      BY <1>1, DpcOutcome, <2>2 DEF TypeOK, Who
    <3> QED
      BY <3>1, <2>1, <2>2 DEF OrderOK, Issued, KeepRequest, endVars, TypeOK, Who
  <2>3. CASE /\ required' = [required EXCEPT ![active] = {}]
             /\ \E s \in STATUSES : CompleteRequest(active, s)
    <3>1. required'[active] = {}
      BY <2>3, <1>1 DEF TypeOK
    <3> QED
      BY <2>1, <2>3, <3>1, CompleteOrder
  <2> QED
    BY <1>1, <1>3, <2>2, <2>3, DpcOutcome DEF STATUSES
<1> QED
  BY <1>1, <1>2, <1>3, DpcOutcome

LEMMA HardwareOrder ==
  ASSUME OrderOK, HwQuiet
  PROVE  OrderOK'
BY DEF OrderOK, Issued, HwQuiet, reqVars, accVars, dpcVars, endVars, hostVars

LEMMA InterruptOrder ==
  ASSUME TypeOK, OrderOK, host = "send_tuning" /\ ~overtaken => isr = {}, Interrupt
  PROVE  OrderOK'
<1>1. CASE IsrAcknowledge
  BY <1>1 DEF IsrAcknowledge, OrderOK, Issued, reqVars, accVars, dpcVars, endVars, hostVars,
              errVars
<1>2. CASE IsrDeliver
  <2>1. Events(isr) # {}
    BY <1>2, EventsOf DEF IsrDeliver, TypeOK
  <2>2. UNCHANGED <<outstanding, kind, required, status, localPending, busyWork, told, host,
                    active, phase, step, seen, overtaken>>
    BY <1>2 DEF IsrDeliver, reqVars, endVars, hostVars
  <2>3. sdpErrors' # {} => sdpEvents' # {}
    BY <1>2, <2>1 DEF IsrDeliver, OrderOK
  <2>4. localDpc' => localDpc \/ localPending
    BY <1>2 DEF IsrDeliver
  <2>5. localPending =>
          /\ host \notin {"waiting", "transfer", "failed", "idle"}
          /\ active = "loc" \/ host \in {"send_stop", "send_tuning"}
    BY DEF OrderOK
  <2>6. host = "send_tuning" => outstanding = "none"
    BY <1>2 DEF IsrDeliver, OrderOK
  <2> QED
    BY <2>2, <2>3, <2>4, <2>5, <2>6 DEF OrderOK, Issued
<1>3. CASE SdportDpc
  <2>1. UNCHANGED <<active, kind, step, seen, localDpc>> /\ sdpErrors' = {}
    BY <1>3 DEF SdportDpc
  <2>2. CASE host = "waiting"
    <3>1. active = "sdp" /\ ~localPending
      BY <2>2 DEF OrderOK
    <3>2. RequestDpc(active, sdpEvents, sdpErrors)
      BY <1>3, <2>2, <3>1 DEF SdportDpc
    <3> QED
      BY <2>1, <2>2, <3>1, <3>2, DpcOrder DEF Issued, TypeOK
  <2>3. CASE host # "waiting"
    <3>1. UNCHANGED required /\ KeepRequest
      BY <1>3, <2>3 DEF SdportDpc, RequestDpc, KeepRequest, OrderOK
    <3> QED
      BY <2>1, <3>1 DEF OrderOK, Issued, KeepRequest, endVars
  <2> QED
    BY <2>2, <2>3
<1>4. CASE LocalRequestDpc
  <2>1. UNCHANGED <<active, kind, step, seen, sdpEvents, sdpErrors>> /\ ~localDpc'
    BY <1>4 DEF LocalRequestDpc
  <2>2. CASE UNCHANGED required /\ KeepRequest
    BY <2>1, <2>2 DEF OrderOK, Issued, KeepRequest, endVars
  <2>3. CASE outstanding # "none" /\ ~(UNCHANGED required /\ KeepRequest)
    <3>1. outstanding = active /\ RequestDpc(active, currentEvents, currentErrors)
      BY <1>4, <2>3 DEF LocalRequestDpc, OrderOK
    <3>2. localPending /\ active = "loc"
      BY <1>4, <2>3, <3>1
      DEF LocalRequestDpc, OrderOK, RequestDpc, NothingAwaited, KeepRequest
    <3>3. Issued
      BY <1>4, <2>3, <3>2 DEF OrderOK, Issued, LocalRequestDpc
    <3> QED
      BY <2>1, <3>1, <3>3, DpcOrder DEF TypeOK, OrderOK
  <2> QED
    BY <1>4, <2>2, <2>3 DEF LocalRequestDpc, Who
<1>5. CASE BusyWorker
  <2>1. /\ Issued /\ outstanding = active /\ required[active] = {} /\ seen = {}
        /\ step \in {"none", "awaited", "chained"} /\ (host = "stop" => step = "none")
    BY <1>5 DEF BusyWorker, OrderOK, TypeOK
  <2>2. \E s \in STATUSES : Finish(active, s)
    BY <1>5, <2>1 DEF BusyWorker, STATUSES
  <2>3. ~busyWork' /\ UNCHANGED <<active, kind, required, step, seen, sdpEvents, sdpErrors,
                                  localDpc>>
    BY <1>5 DEF BusyWorker, dpcVars
  <2> QED
    BY <2>1, <2>2, <2>3, FinishOrder DEF OrderOK
<1> QED
  BY <1>1, <1>2, <1>3, <1>4, <1>5 DEF Interrupt

LEMMA TransferOrder ==
  ASSUME TypeOK, OrderOK, Transfer
  PROVE  OrderOK'
<1>1. CASE StartDmaTransfer
  <2>1. /\ Issued /\ ~busyWork /\ outstanding = active /\ required[active] = {} /\ seen = {}
    BY <1>1 DEF StartDmaTransfer, OrderOK
  <2>2. /\ CompleteRequest(active, "SUCCESS") /\ step' = "none"
        /\ UNCHANGED <<active, kind, required, seen, sdpEvents, sdpErrors, localDpc>>
    BY <1>1 DEF StartDmaTransfer, dpcVars
  <2> QED
    BY <2>1, <2>2, CompleteOrder DEF OrderOK, STATUSES
<1>2. CASE PioMove
  BY <1>2 DEF PioMove, PioQuiet, OrderOK, Issued, dpcVars, endVars
<1>3. CASE PioMore
  <2>1. /\ Issued /\ ~busyWork /\ host # "stop" /\ outstanding = active
    BY <1>3 DEF PioMore, PioStep, OrderOK
  <2>2. /\ step' = "awaited" /\ seen' = {}
        /\ UNCHANGED <<active, kind, phase, status, sdpEvents, sdpErrors, localDpc, endVars, host,
                       overtaken>>
        /\ active # "loc" => required'["loc"] = required["loc"]
    BY <1>3 DEF PioMore, PioStep, PioQuiet, Await, dpcVars, TypeOK
  <2> QED
    BY <2>1, <2>2 DEF OrderOK, Issued, endVars
<1>4. CASE PioAgain
  <2>1. /\ step = "awaited" /\ step' = "chained"
        /\ UNCHANGED <<active, kind, required, phase, sdpEvents, sdpErrors, localDpc, endVars,
                       host, seen, overtaken>>
        /\ status'["loc"] \in {status["loc"], "MORE_PROCESSING_REQUIRED"}
    BY <1>4 DEF PioAgain, PioStep, PioQuiet, dpcVars, TypeOK, Who
  <2> QED
    BY <2>1 DEF OrderOK, Issued, endVars
<1>5. CASE PioRearm
  BY <1>5 DEF PioRearm, PioStep, PioQuiet, OrderOK, Issued, dpcVars, endVars
<1>6. CASE PioLast
  <2>1. /\ Issued /\ ~busyWork /\ outstanding = active /\ required[active] = {} /\ host # "stop"
    BY <1>6 DEF PioLast, PioStep, OrderOK
  <2>2. /\ step' = "none" /\ seen' = {}
        /\ UNCHANGED <<active, kind, phase, sdpEvents, sdpErrors, localDpc>>
    BY <1>6 DEF PioLast, PioStep, PioQuiet, dpcVars
  <2>3. CASE CompleteRequest(active, "SUCCESS") /\ UNCHANGED required
    BY <2>1, <2>2, <2>3, CompleteOrder DEF OrderOK, STATUSES
  <2>4. CASE Await("CARD_RW_END") /\ UNCHANGED <<endVars, host>>
    <3>1. active # "loc" => required'["loc"] = required["loc"]
      BY <2>4 DEF Await, TypeOK
    <3>2. active = "loc" => localPending
      BY <2>1 DEF OrderOK, Issued
    <3>3. host = "waiting" \/ localPending
      BY <2>1 DEF Issued
    <3> QED
      BY <2>1, <2>2, <2>4, <3>1, <3>2, <3>3 DEF OrderOK, Issued, endVars
  <2> QED
    BY <1>6, <2>3, <2>4 DEF PioLast
<1> QED
  BY <1>1, <1>2, <1>3, <1>4, <1>5, <1>6 DEF Transfer

\* Between a request and the next nobody has anything left to do with it, but
\* for a thread that the DPC has overtaken.
LEMMA Unissued ==
  ASSUME TypeOK, OrderOK, ~Issued
  PROVE  /\ ~busyWork /\ seen = {}
         /\ step # "none" => /\ step \in {"awaited", "chained"}
                            /\ host \in {"transfer", "done", "failed", "tuning"}
BY DEF OrderOK, TypeOK, Issued

LEMMA HostOrder ==
  ASSUME TypeOK, OrderOK, Live => AwaitOK, Sdport \/ Reset \/ Local
  PROVE  OrderOK'
<1>1. CASE IssueRequest
  <2>1. PICK k \in Kinds : SendCommand("sdp", k, "NOT_SET")
    BY <1>1 DEF IssueRequest
  <2>2. /\ host' = "waiting" /\ outstanding' = "sdp" /\ active' = "sdp"
        /\ ~localDpc' /\ ~busyWork' /\ step' = "none" /\ UNCHANGED seen /\ sdpErrors' = {}
        /\ told' = [w \in Who |-> 0] /\ UNCHANGED localPending
    BY <1>1, <2>1 DEF IssueRequest, SendCommand, Settled, HostGoto, OrderOK, dpcVars
  <2>3. ~localPending /\ seen = {}
    BY <1>1, Unissued DEF IssueRequest, HostGoto, OrderOK, Issued
  <2> QED
    BY <2>2, <2>3 DEF OrderOK, Issued, Who
<1>2. CASE IssueTransfer
  <2>1. host = "transfer" /\ active = "sdp" /\ ~localDpc /\ ~localPending
    BY <1>2 DEF IssueTransfer, HostGoto, OrderOK
  <2>2. step = "none" /\ ~busyWork /\ seen = {}
    BY <1>2, <2>1, Unissued DEF IssueTransfer, Issued
  <2>3. required["sdp"] = {}
    BY <2>1 DEF AwaitOK, Live, Ready, Needs
  <2>4. /\ host' = "waiting" /\ outstanding' = "sdp" /\ active' = "sdp" /\ step' = "start"
        /\ ~localDpc' /\ ~busyWork' /\ seen' = {} /\ UNCHANGED <<required, sdpErrors, sdpEvents>>
        /\ told' = [w \in Who |-> 0] /\ ~localPending'
    BY <1>2, <2>1, <2>2 DEF IssueTransfer, StartTransfer, HostGoto, reqVars, dpcVars
  <2> QED
    BY <2>3, <2>4 DEF OrderOK, Issued, Who
<1>3. CASE SdportTimeout
  <2>1. told'["sdp"] = 1 /\ told'["loc"] = 0
    BY <1>3 DEF SdportTimeout, TypeOK, OrderOK, Who
  <2> QED
    BY <1>3, <2>1
    DEF SdportTimeout, HostGoto, Settled, OrderOK, Issued, reqVars, dpcVars, errVars
<1>4. CASE MaskEvents
  BY <1>4, Unissued DEF MaskEvents, HostGoto, OrderOK, Issued, reqVars, dpcVars, endVars,
                          errVars
<1>5. CASE ResetCmd
  <2>1. ~localPending
    BY <1>5 DEF ResetCmd, HostGoto, OrderOK
  <2> QED
    BY <1>5, <2>1, Unissued
    DEF ResetCmd, HwReset, HostGoto, Settled, OrderOK, Issued, OnBus, reqVars, dpcVars
<1>6. CASE ResetDat
  BY <1>6, Unissued DEF ResetDat, HostGoto, OrderOK, Issued, reqVars, dpcVars, errVars
<1>7. CASE ResetFinish
  BY <1>7, Unissued DEF ResetFinish, HwReset, HostGoto, Settled, OrderOK, Issued, reqVars, dpcVars, endVars
<1>8. CASE LocalPend
  BY <1>8, Unissued DEF LocalPend, HostGoto, Settled, OrderOK, Issued, reqVars, dpcVars,
                          errVars
<1>9. CASE LocalIssue
  <2>1. ~Issued
    BY <1>9 DEF LocalIssue, HostGoto, Issued
  <2>2. step = "none" /\ ~busyWork /\ seen = {}
    BY <1>9, <2>1, Unissued DEF LocalIssue, HostGoto
  <2>3. CASE HostGoto({"send_stop"}, "stop") /\ SendCommand("loc", Stop, "SUCCESS")
    BY <1>9, <2>2, <2>3 DEF LocalIssue, HostGoto, SendCommand, OrderOK, Issued, dpcVars
  <2>4. CASE HostGoto({"send_tuning"}, "tuning") /\ SendCommand("loc", Tune, "SUCCESS")
    <3>1. kind'["loc"] = Tune
      BY <2>4 DEF SendCommand, TypeOK, Who
    <3> QED
      BY <1>9, <2>2, <2>4, <3>1 DEF LocalIssue, HostGoto, SendCommand, OrderOK, Issued, dpcVars
  <2>5. CASE HostGoto({"start_tuning"}, "tuning") /\ StartTransfer("loc")
    <3>1. required["loc"] = {}
      BY <2>5 DEF HostGoto, OrderOK, AwaitOK, Live, Ready, Needs
    <3> QED
      BY <1>9, <2>2, <2>5, <3>1
      DEF LocalIssue, HostGoto, StartTransfer, OrderOK, Issued, reqVars, dpcVars, errVars
  <2> QED
    BY <1>9, <2>3, <2>4, <2>5 DEF LocalIssue
<1>10. CASE LocalWake
  <2>1. ~Issued
    BY <1>10 DEF LocalWake, LocalEnd, HostGoto, Issued
  <2>2. step = "none" /\ ~busyWork /\ seen = {}
    BY <1>10, <2>1, Unissued DEF LocalWake
  <2>3. /\ host' \in {"resetting", "reset_cmd", "tuning_gap", "done"}
        /\ host' # "resetting" => host = "tuning"
        /\ host' \in {"tuning_gap", "done"} => status["loc"] = "SUCCESS" /\ host = "tuning"
        /\ ~localPending /\ active = "loc"
    BY <1>10 DEF LocalWake, LocalEnd, HostGoto, OrderOK
  <2>4. UNCHANGED <<outstanding, kind, required, status, localPending, busyWork, told, active,
                    step, seen, localDpc, sdpErrors, sdpEvents, overtaken>>
    BY <1>10 DEF LocalWake, reqVars, dpcVars, endVars, errVars
  <2> QED
    BY <2>2, <2>3, <2>4 DEF OrderOK, Issued
<1>11. CASE LocalTimeout
  <2>1. /\ host' \in {"resetting", "reset_cmd"} /\ active = "loc" /\ ~localPending'
        /\ host' = "resetting" => host = "stop"
        /\ ~localDpc /\ ~busyWork /\ step = "none"
    BY <1>11 DEF LocalTimeout, LocalEnd, HostGoto, OrderOK, Settled
  <2>2. UNCHANGED <<outstanding, kind, required, busyWork, told, active, step, seen, localDpc,
                    sdpErrors, sdpEvents, overtaken>>
    BY <1>11 DEF LocalTimeout, dpcVars, errVars
  <2> QED
    BY <2>1, <2>2 DEF OrderOK, Issued
<1> QED
  BY <1>1, <1>2, <1>3, <1>4, <1>5, <1>6, <1>7, <1>8, <1>9, <1>10, <1>11
  DEF Sdport, Reset, Local

LEMMA OrderKept ==
  ASSUME TypeOK, OrderOK, TurnOK, [Next]_vars
  PROVE  OrderOK'
<1>1. CASE Hardware
  <2>1. HwQuiet
    BY <1>1 DEF Hardware, HwRespond, HwNoResponse, HwLateCommand, HwMove, HwDataRequest,
         HwCrcError, HwDataEnd, HwDataTimeout, HwLateData, HwIdle
  <2> QED
    BY <2>1, HardwareOrder
<1>2. CASE UNCHANGED vars
  BY <1>2 DEF vars, reqVars, dpcVars, endVars, hostVars, errVars, OrderOK, Issued
<1>3. (host = "send_tuning" /\ ~overtaken => isr = {}) /\ (Live => AwaitOK)
  BY DEF TurnOK, ProgressOK
<1> QED
  BY <1>1, <1>2, <1>3, InterruptOrder, TransferOrder, HostOrder DEF Next

-----------------------------------------------------------------------------
(* What is awaited.                                                        *)

LEMMA AwaitFrame ==
  ASSUME UNCHANGED <<kind, required, status, remaining, localPending, busyWork, host, active,
                     phase, step>>
  PROVE  (Live => AwaitOK) <=> (Live => AwaitOK)'
BY DEF Live, LocalDone, Ready, Needs, OnBus, AwaitOK

\* A completion that leaves nothing awaited.
LEMMA AwaitCompleted ==
  ASSUME TypeOK, OrderOK, AwaitOK, Issued, NEW s \in {"SUCCESS", "MORE_PROCESSING_REQUIRED"},
         CompleteRequest(active, s) \/ Finish(active, s), Needs' = {},
         UNCHANGED <<kind, remaining, active, phase>>, step' \in {"none", "awaited", "chained"},
         step' # "none" => step' = step,
         s = "MORE_PROCESSING_REQUIRED" => phase = "transfer" /\ OnBus.data = "pio" /\ remaining > 0,
         host = "tuning" => IsData(OnBus), ~busyWork' \/ s = "SUCCESS"
  PROVE  Live' => AwaitOK'
<1>1. /\ UNCHANGED OnBus /\ active \in Who /\ s \in STATUSES
      /\ UNCHANGED BufferEvent(OnBus) /\ UNCHANGED RequiredFor(OnBus)
  BY DEF OnBus, TypeOK, STATUSES
<1>2. SUFFICES ASSUME Live'
               PROVE  /\ status'[active] = s
                      /\ Ready' => IsData(OnBus) /\ (OnBus.data = "pio" => remaining > 0)
  <2>1. ASSUME Live', status'[active] = s,
               Ready' => IsData(OnBus) /\ (OnBus.data = "pio" => remaining > 0)
        PROVE  AwaitOK'
    <3>1. CASE phase = "command"
      BY <1>1, <2>1, <3>1 DEF AwaitOK, TypeOK
    <3>2. CASE phase = "transfer"
      BY <1>1, <2>1, <3>2 DEF AwaitOK, TypeOK
    <3> QED
      BY <3>1, <3>2 DEF TypeOK
  <2> QED
    BY <2>1
<1>3. phase = "command" /\ OnBus.data = "pio" => remaining > 0
  BY DEF AwaitOK
<1>4. CASE Finish(active, s)
  <2>1. CASE host = "waiting"
    <3>1. \/ host' = "failed"
          \/ /\ host' \in {"transfer", "done"} /\ active = "sdp" /\ status'[active] = s
             /\ host' = "transfer" <=> s = "MORE_PROCESSING_REQUIRED"
                                         \/ (phase = "command" /\ IsData(OnBus))
      BY <1>1, <1>4, <2>1, FinishHost DEF OrderOK
    <3>2. /\ status'[active] = s /\ host' = "transfer" /\ IsData(OnBus)
      BY <1>2, <3>1 DEF Live, IsData
    <3> QED
      BY <1>3, <3>1, <3>2
  <2>2. CASE host # "waiting"
    <3>1. /\ host \in {"stop", "tuning"} /\ active = "loc" /\ ~localPending' /\ host' = host
          /\ status'[active] \in {s, "FAILED"}
      BY <1>1, <1>4, <2>2, FinishHost
    <3>2. status'[active] = "SUCCESS" /\ s = "SUCCESS" /\ IsData(OnBus)
      BY <1>2, <3>1 DEF Live
    <3>3. Ready' => phase = "command"
      BY <1>2, <3>1 DEF Ready, LocalDone, Live
    <3> QED
      BY <1>3, <3>2, <3>3
  <2> QED
    BY <2>1, <2>2
<1>5. CASE ~Finish(active, s)
  <2>1. /\ s = "SUCCESS" /\ status' = [status EXCEPT ![active] = s]
        /\ busyWork' = TRUE /\ UNCHANGED <<localPending, host>>
    BY <1>5 DEF CompleteRequest
  <2>2. status'[active] = "SUCCESS"
    BY <1>1, <2>1 DEF TypeOK
  <2>3. Ready' => IsData(OnBus) /\ phase = "command"
    BY <1>1, <2>1, <2>2 DEF Ready, LocalDone, Issued, OrderOK
  <2> QED
    BY <1>3, <2>1, <2>2, <2>3
<1> QED
  BY <1>4, <1>5

LEMMA DpcAwait ==
  ASSUME TypeOK, OrderOK, Live => AwaitOK, NEW events \in SUBSET EVENTS,
         NEW errors \in SUBSET ERRORS, RequestDpc(active, events, errors), Issued,
         UNCHANGED <<kind, remaining, active, phase, step>>
  PROVE  Live' => AwaitOK'
<1>1. outstanding = active /\ active \in Who /\ UNCHANGED OnBus
  BY DEF OrderOK, TypeOK, OnBus
<1>2. CASE UNCHANGED required /\ KeepRequest
  BY <1>2, AwaitFrame DEF KeepRequest, endVars
<1>3. CASE /\ Needs # {} /\ required' = [required EXCEPT ![active] = Needs \ events]
           /\ KeepRequest
  <2>1. Needs' = Needs \ events
    BY <1>1, <1>3 DEF Needs, TypeOK
  <2>2. (Live' <=> Live) /\ (Ready' <=> Ready) /\ UNCHANGED status
    BY <1>1, <1>3 DEF Live, Ready, LocalDone, KeepRequest, endVars
  <2>3. UNCHANGED BufferEvent(OnBus) /\ UNCHANGED RequiredFor(OnBus)
    BY <1>1
  <2> HIDE DEF Needs, Live, Ready
  <2>4. SUFFICES ASSUME Live PROVE AwaitOK'
    BY <2>2
  <2> QED
    BY <1>1, <2>1, <2>2, <2>3, <2>4 DEF AwaitOK
<1>4. CASE /\ required' = [required EXCEPT ![active] = {}]
           /\ CompleteRequest(active, "FAILED")
  <2>1. Finish(active, "FAILED") /\ UNCHANGED busyWork
    BY <1>4 DEF CompleteRequest
  <2>2. \/ host' = "failed"
        \/ host' \in {"stop", "tuning"} /\ ~localPending' /\ status'["loc"] = "FAILED"
    BY <2>1, FinishHost DEF STATUSES, Released
  <2> QED
    BY <2>2 DEF Live
<1>5. ASSUME Needs # {}, required' = [required EXCEPT ![active] = {}],
             NEW s \in {"SUCCESS", "MORE_PROCESSING_REQUIRED"}, CompleteRequest(active, s),
             s = "MORE_PROCESSING_REQUIRED" <=> status[active] = "MORE_PROCESSING_REQUIRED"
      PROVE  Live' => AwaitOK'
  <2>1. Needs' = {}
    BY <1>1, <1>5 DEF Needs, TypeOK
  <2>2. /\ step \in {"none", "awaited", "chained"} /\ ~busyWork /\ (host = "stop" => step = "none")
    BY <1>5 DEF OrderOK, TypeOK, Needs
  <2>3. CASE host = "stop"
    <3>1. host' = "stop"
      BY <1>1, <1>5, <2>3 DEF CompleteRequest, Finish, SdPortCompleteRequest
    <3> QED
      BY <3>1 DEF Live
  <2>4. CASE host # "stop"
    <3>1. Live /\ AwaitOK
      BY <2>4 DEF Live, Issued
    <3>2. s = "MORE_PROCESSING_REQUIRED" =>
            phase = "transfer" /\ OnBus.data = "pio" /\ remaining > 0
      BY <1>5, <2>2, <3>1 DEF AwaitOK, TypeOK
    <3>3. host = "tuning" => IsData(OnBus)
      BY DEF OrderOK, OnBus, IsData, Tune
    <3>4. ~busyWork' \/ s = "SUCCESS"
      BY <1>5, <2>2 DEF CompleteRequest
    <3> QED
      BY <1>5, <2>1, <2>2, <3>1, <3>2, <3>3, <3>4, AwaitCompleted
  <2> QED
    BY <2>3, <2>4
<1> QED
  BY <1>1, <1>2, <1>3, <1>4, <1>5, DpcOutcome

LEMMA InterruptAwait ==
  ASSUME TypeOK, OrderOK, Live => AwaitOK, Interrupt
  PROVE  Live' => AwaitOK'
<1>1. CASE IsrAcknowledge \/ IsrDeliver
  BY <1>1, AwaitFrame DEF IsrAcknowledge, IsrDeliver, reqVars, endVars, hostVars
<1>2. CASE SdportDpc
  <2>1. UNCHANGED <<kind, remaining, active, phase, step>>
    BY <1>2 DEF SdportDpc
  <2>2. CASE host = "waiting"
    <3>1. RequestDpc(active, sdpEvents, sdpErrors)
      BY <1>2, <2>2 DEF SdportDpc, OrderOK
    <3> QED
      BY <2>1, <2>2, <3>1, DpcAwait DEF Issued, TypeOK
  <2>3. CASE host # "waiting"
    <3>1. UNCHANGED required /\ KeepRequest
      BY <1>2, <2>3 DEF SdportDpc, RequestDpc, KeepRequest, OrderOK
    <3> QED
      BY <2>1, <3>1, AwaitFrame DEF KeepRequest, endVars
  <2> QED
    BY <2>2, <2>3
<1>3. CASE LocalRequestDpc
  <2>1. UNCHANGED <<kind, remaining, active, phase, step>>
    BY <1>3 DEF LocalRequestDpc
  <2>2. CASE UNCHANGED required /\ KeepRequest
    BY <2>1, <2>2, AwaitFrame DEF KeepRequest, endVars
  <2>3. CASE outstanding # "none" /\ ~(UNCHANGED required /\ KeepRequest)
    <3>1. outstanding = active /\ RequestDpc(active, currentEvents, currentErrors)
      BY <1>3, <2>3 DEF LocalRequestDpc, OrderOK
    <3>2. localPending /\ active = "loc"
      BY <1>3, <2>3, <3>1
      DEF LocalRequestDpc, OrderOK, RequestDpc, NothingAwaited, KeepRequest
    <3>3. Issued
      BY <1>3, <2>3, <3>2 DEF OrderOK, Issued, LocalRequestDpc
    <3> QED
      BY <2>1, <3>1, <3>3, DpcAwait DEF TypeOK
  <2> QED
    BY <1>3, <2>2, <2>3 DEF LocalRequestDpc, Who
<1>4. CASE BusyWorker
  <2>1. /\ Issued /\ outstanding = active /\ Needs = {} /\ ~busyWork'
        /\ step \in {"none", "awaited", "chained"}
    BY <1>4 DEF BusyWorker, OrderOK, TypeOK, Needs
  <2>2. UNCHANGED <<kind, required, remaining, active, phase, step>> /\ UNCHANGED Needs
    BY <1>4 DEF BusyWorker, Needs
  <2>3. Finish(active, "SUCCESS") \/ Finish(active, "FAILED")
    BY <1>4, <2>1 DEF BusyWorker
  <2>4. CASE Finish(active, "FAILED")
    <3>1. \/ host' = "failed"
          \/ host' \in {"stop", "tuning"} /\ ~localPending' /\ status'["loc"] = "FAILED"
      BY <2>1, <2>4, FinishHost DEF STATUSES, Released
    <3> QED
      BY <3>1 DEF Live
  <2>5. CASE Finish(active, "SUCCESS") /\ host # "stop"
    <3>1. AwaitOK
      BY <2>1, <2>5 DEF Live, Issued
    <3>2. host = "tuning" => IsData(OnBus)
      BY DEF OrderOK, OnBus, IsData, Tune
    <3> QED
      BY <2>1, <2>2, <2>5, <3>1, <3>2, AwaitCompleted
  <2>6. CASE Finish(active, "SUCCESS") /\ host = "stop"
    <3>1. host' = "stop"
      BY <2>6 DEF Finish, SdPortCompleteRequest
    <3> QED
      BY <3>1 DEF Live
  <2> QED
    BY <2>3, <2>4, <2>5, <2>6
<1> QED
  BY <1>1, <1>2, <1>3, <1>4 DEF Interrupt

LEMMA TransferAwait ==
  ASSUME TypeOK, OrderOK, Live => AwaitOK, Transfer
  PROVE  Live' => AwaitOK'
<1>1. UNCHANGED <<kind, active, phase>> /\ UNCHANGED OnBus
  BY DEF Transfer, StartDmaTransfer, PioMove, PioMore, PioAgain, PioRearm, PioLast, PioStep,
         PioQuiet, OnBus
<1>2. step \in {"start", "moved"} =>
        /\ Issued /\ host # "stop" /\ Live /\ AwaitOK /\ Needs = {} /\ ~busyWork
        /\ phase = "transfer" /\ active \in Who
        /\ host = "tuning" => IsData(OnBus)
  BY DEF OrderOK, Issued, Live, AwaitOK, TypeOK, Needs, OnBus, IsData, Tune
<1>3. CASE CompleteRequest(active, "SUCCESS") /\ step \in {"start", "moved"} /\ step' = "none"
           /\ UNCHANGED required
  <2>1. Needs' = {}
    BY <1>1, <1>2, <1>3 DEF Needs
  <2>2. \/ Finish(active, "SUCCESS") /\ ~busyWork'
        \/ UNCHANGED <<host, localPending>> /\ busyWork'
           /\ status' = [status EXCEPT ![active] = "SUCCESS"]
    BY <1>2, <1>3 DEF CompleteRequest
  <2>3. Live' => ~Ready'
    <3>1. CASE Finish(active, "SUCCESS")
      <4>1. \/ host' \in {"failed", "done"}
            \/ host' \in {"stop", "tuning"} /\ ~localPending'
        BY <1>2, <1>3, <3>1, FinishHost DEF STATUSES, TypeOK
      <4> QED
        BY <1>1, <1>2, <1>3, <4>1 DEF Ready, Live, LocalDone
    <3>2. CASE UNCHANGED <<host, localPending>>
      BY <1>1, <1>2, <1>3, <3>2 DEF Ready, LocalDone, Issued, OrderOK
    <3> QED
      BY <2>2, <3>1, <3>2
  <2> QED
    BY <1>1, <1>2, <1>3, <2>1, <2>3 DEF AwaitOK
<1>4. CASE PioMove
  <2>1. step = "start" /\ step' = "moved" /\ UNCHANGED <<required, status, endVars, host>>
        /\ OnBus.data = "pio"
    BY <1>4 DEF PioMove
  <2>2. ~Ready'
    BY <1>1, <1>2, <2>1 DEF Ready, LocalDone, Issued, OrderOK, endVars
  <2>3. UNCHANGED Needs
    BY <1>1, <2>1 DEF Needs
  <2> QED
    BY <1>1, <1>2, <2>1, <2>2, <2>3 DEF AwaitOK
<1>5. CASE PioMore
  <2>1. /\ step = "moved" /\ step' = "awaited" /\ UNCHANGED <<status, endVars, host, remaining>>
        /\ remaining > 0 /\ Await(BufferEvent(OnBus))
    BY <1>5 DEF PioMore, PioStep
  <2>2. ~Ready'
    BY <1>1, <1>2, <2>1 DEF Ready, LocalDone, Issued, OrderOK, endVars
  <2>3. Needs' = {BufferEvent(OnBus)} /\ UNCHANGED BufferEvent(OnBus)
    BY <1>1, <1>2, <2>1 DEF Needs, Await, TypeOK
  <2> QED
    BY <1>1, <1>2, <2>1, <2>2, <2>3 DEF AwaitOK
<1>6. CASE PioAgain
  <2>1. /\ step = "awaited" /\ step' = "chained"
        /\ UNCHANGED <<required, endVars, host, remaining>> /\ UNCHANGED Needs
        /\ status' = [status EXCEPT ![active] = "MORE_PROCESSING_REQUIRED"]
    BY <1>1, <1>6 DEF PioAgain, PioStep, Needs
  <2>2. status'[active] = "MORE_PROCESSING_REQUIRED" /\ (active = "sdp" => UNCHANGED status["loc"])
    BY <2>1 DEF TypeOK
  <2>3. (host = "tuning" => active = "loc") /\ active \in Who
    BY DEF OrderOK, TypeOK
  <2>4. Live' => Live /\ AwaitOK /\ (Ready' => Ready)
    BY <1>1, <2>1, <2>2, <2>3 DEF Live, Ready, LocalDone, Who, endVars
  <2>5. UNCHANGED BufferEvent(OnBus)
    BY <1>1
  <2> QED
    BY <1>1, <2>1, <2>2, <2>4, <2>5 DEF AwaitOK
<1>7. CASE PioRearm
  <2>1. /\ step = "chained" /\ step' = "none"
        /\ UNCHANGED <<required, endVars, host, remaining, status>> /\ UNCHANGED Needs
    BY <1>1, <1>7 DEF PioRearm, PioStep, Needs
  <2>2. Live' => Live /\ AwaitOK /\ (Ready' => Ready)
    BY <1>1, <2>1 DEF Live, Ready, LocalDone, endVars
  <2>3. UNCHANGED BufferEvent(OnBus)
    BY <1>1
  <2> QED
    BY <1>1, <2>1, <2>2, <2>3 DEF AwaitOK
<1>8. CASE PioLast
  <2>1. step = "moved" /\ step' = "none" /\ remaining = 0 /\ UNCHANGED remaining
    BY <1>8 DEF PioLast, PioStep
  <2>2. CASE CompleteRequest(active, "SUCCESS") /\ UNCHANGED required
    BY <1>3, <2>1, <2>2
  <2>3. CASE /\ Await("CARD_RW_END") /\ UNCHANGED <<endVars, host>>
             /\ status' = [status EXCEPT ![active] = "SUCCESS"]
    <3>1. Needs' = {"CARD_RW_END"} /\ status'[active] = "SUCCESS"
      BY <1>1, <1>2, <2>1, <2>3 DEF Needs, Await, TypeOK
    <3>2. ~Ready'
      BY <1>1, <1>2, <2>1, <2>3 DEF Ready, LocalDone, Issued, OrderOK, endVars
    <3> QED
      BY <1>1, <1>2, <2>1, <3>1, <3>2 DEF AwaitOK
  <2> QED
    BY <1>8, <2>2, <2>3 DEF PioLast
<1>9. CASE StartDmaTransfer
  BY <1>3, <1>9 DEF StartDmaTransfer
<1> QED
  BY <1>4, <1>5, <1>6, <1>7, <1>8, <1>9 DEF Transfer

LEMMA SendAwait ==
  ASSUME TypeOK, OrderOK, NEW w \in Who, NEW k \in Kinds \cup {Stop, Tune},
         NEW initial \in {"NOT_SET", "SUCCESS"}, SendCommand(w, k, initial), ~busyWork,
         step = "none", host' \in {"waiting", "stop", "tuning"}, host' = "tuning" => localPending'
  PROVE  AwaitOK'
<1>1. /\ active' = w /\ phase' = "command" /\ step' = "none" /\ ~busyWork'
      /\ kind' = [kind EXCEPT ![w] = k] /\ status' = [status EXCEPT ![w] = initial]
      /\ required' = [required EXCEPT ![w] = RequiredFor(k)]
  BY DEF SendCommand
<1>2. OnBus' = k /\ status'[active'] = initial /\ Needs' = RequiredFor(k)
  BY <1>1 DEF OnBus, Needs, TypeOK
<1>3. k.data = "pio" => remaining' > 0
  <2>1. k.data = "pio" => k.chunks \in Nat /\ k.chunks # 0
    BY KindsAssumption DEF Kind, Stop, Tune
  <2> QED
    BY <2>1 DEF SendCommand, BuildTransfer, IsData
<1>4. ~Ready'
  BY <1>1 DEF Ready, LocalDone
<1> QED
  BY <1>1, <1>2, <1>3, <1>4 DEF AwaitOK

LEMMA StartAwait ==
  ASSUME AwaitOK, Ready, ~busyWork, NEW w \in Who, active = w, StartTransfer(w),
         host' \in {"waiting", "tuning"}
  PROVE  AwaitOK'
<1>1. /\ active' = w /\ phase' = "transfer" /\ step' = "start"
      /\ UNCHANGED <<kind, required, remaining, status>>
  BY DEF StartTransfer, reqVars
<1>2. UNCHANGED <<OnBus, Needs>>
  BY <1>1 DEF OnBus, Needs
<1>3. IsData(OnBus) /\ Needs = {} /\ (OnBus.data = "pio" => remaining > 0)
  BY DEF AwaitOK
<1> QED
  BY <1>1, <1>2, <1>3 DEF AwaitOK

\* A transfer that is being started awaits no more than its next chunk.
LEMMA StepNeeds ==
  ASSUME OrderOK, AwaitOK, TypeOK, step # "none"
  PROVE  /\ Needs \subseteq {BufferEvent(OnBus)} /\ phase = "transfer" /\ OnBus.data # "none"
         /\ "CARD_RESPONSE" \notin Needs /\ "CARD_RW_END" \notin Needs
         /\ step \in {"start", "moved"} => Needs = {}
BY DEF OrderOK, AwaitOK, TypeOK, Needs, BufferEvent, IsData

LEMMA AwaitKept ==
  ASSUME TypeOK, OrderOK, Live => AwaitOK, [Next]_vars
  PROVE  Live' => AwaitOK'
<1>1. CASE Hardware \/ UNCHANGED vars
  <2>1. UNCHANGED <<kind, required, status, remaining, localPending, busyWork, host, active,
                    phase, step>>
    BY <1>1 DEF Hardware, HwRespond, HwNoResponse, HwLateCommand, HwMove, HwDataRequest,
         HwCrcError, HwDataEnd, HwDataTimeout, HwLateData, HwIdle, HwQuiet, vars, reqVars,
         endVars, hostVars
  <2> QED
    BY <2>1, AwaitFrame
<1>2. CASE IssueRequest
  <2>1. PICK k \in Kinds : SendCommand("sdp", k, "NOT_SET")
    BY <1>2 DEF IssueRequest
  <2>2. ~busyWork /\ step = "none" /\ host' = "waiting"
    BY <1>2 DEF IssueRequest, HostGoto, Settled
  <2> QED
    BY <2>1, <2>2, SendAwait DEF Who
<1>3. CASE IssueTransfer
  <2>1. /\ host = "transfer" /\ host' = "waiting" /\ StartTransfer("sdp") /\ active = "sdp"
        /\ ~busyWork
    BY <1>3, Unissued DEF IssueTransfer, HostGoto, OrderOK, Issued
  <2> QED
    BY <2>1, StartAwait DEF Live, Ready, Who
<1>4. CASE LocalIssue
  <2>1. ~busyWork /\ step = "none"
    BY <1>4, Unissued DEF LocalIssue, HostGoto, Issued, OrderOK
  <2>2. host' \in {"stop", "tuning"} /\ localPending'
    BY <1>4 DEF LocalIssue, HostGoto, OrderOK
  <2>3. CASE \E k \in {Stop, Tune} : SendCommand("loc", k, "SUCCESS")
    BY <2>1, <2>2, <2>3, SendAwait DEF Who
  <2>4. CASE HostGoto({"start_tuning"}, "tuning") /\ StartTransfer("loc")
    <3>1. active = "loc" /\ host = "start_tuning" /\ host' = "tuning"
      BY <2>4 DEF OrderOK, HostGoto
    <3> QED
      BY <2>1, <2>4, <3>1, StartAwait DEF Live, Ready, Who
  <2> QED
    BY <1>4, <2>3, <2>4 DEF LocalIssue
<1>5. CASE SdportTimeout \/ MaskEvents \/ Reset
  BY <1>5 DEF SdportTimeout, MaskEvents, Reset, ResetCmd, ResetDat, ResetFinish, HostGoto, Live
<1>6. CASE LocalPend
  <2>1. CASE host = "tuning_gap"
    <3>1. /\ UNCHANGED <<kind, required, remaining, status, active, phase, step>>
          /\ host' = "start_tuning"
      BY <1>6, <2>1 DEF LocalPend, HostGoto, reqVars
    <3>2. UNCHANGED <<OnBus, Needs>> /\ Ready /\ Live
      BY <2>1, <3>1 DEF OnBus, Needs, Ready, Live
    <3>3. UNCHANGED BufferEvent(OnBus) /\ UNCHANGED RequiredFor(OnBus)
      BY <3>2
    <3> QED
      BY <3>1, <3>2, <3>3 DEF AwaitOK
  <2>2. CASE host # "tuning_gap"
    BY <1>6, <2>2 DEF LocalPend, HostGoto, Live
  <2> QED
    BY <2>1, <2>2
<1>7. CASE LocalWake
  <2>1. Live' => /\ host = "tuning" /\ host' = "tuning_gap" /\ status["loc"] = "SUCCESS"
                 /\ phase = "command" /\ ~localPending
    BY <1>7 DEF LocalWake, LocalEnd, HostGoto, Live
  <2>2. /\ UNCHANGED <<kind, required, remaining, status, active, phase, step>>
        /\ UNCHANGED <<OnBus, Needs>>
    BY <1>7 DEF LocalWake, reqVars, OnBus, Needs
  <2>3. UNCHANGED BufferEvent(OnBus) /\ UNCHANGED RequiredFor(OnBus)
    BY <2>2
  <2>4. Live' => Live /\ Ready
    BY <2>1 DEF Live, Ready, LocalDone
  <2> QED
    BY <2>2, <2>3, <2>4 DEF AwaitOK
<1>8. CASE LocalTimeout
  BY <1>8 DEF LocalTimeout, LocalEnd, HostGoto, Live
<1> QED
  BY <1>1, <1>2, <1>3, <1>4, <1>5, <1>6, <1>7, <1>8, InterruptAwait, TransferAwait
  DEF Next, Sdport, Local

-----------------------------------------------------------------------------
(* Progress: the controller.                                               *)

LEMMA HwFrame ==
  ASSUME HwQuiet
  PROVE  /\ UNCHANGED <<kind, required, status, remaining, currentEvents, currentErrors, unmasked,
                         dataUnmasked, isr, sdpEvents, sdpErrors, localDpc, outstanding,
                         localPending, busyWork, told, host, active, phase, step, seen, dropped,
                         missed, overtaken>>
         /\ UNCHANGED <<OnBus, Needs, Passing, PassingErrors, Handed>>
         /\ (Live' <=> Live) /\ (Finished' <=> Finished) /\ (Ready' <=> Ready)
         /\ (OnItsWay("CARD_RESPONSE")' <=> OnItsWay("CARD_RESPONSE"))
         /\ (OnItsWay("BUFFER_FULL")' <=> OnItsWay("BUFFER_FULL"))
         /\ (OnItsWay("BUFFER_EMPTY")' <=> OnItsWay("BUFFER_EMPTY"))
         /\ (OnItsWay("CARD_RW_END")' <=> OnItsWay("CARD_RW_END"))
BY DEF HwQuiet, reqVars, accVars, dpcVars, endVars, hostVars, OnBus, Needs, Passing,
       PassingErrors, Handed, OnItsWay, Live, LocalDone, Finished, Ready

LEMMA HwRespondProgress ==
  ASSUME TypeOK, AwaitOK, Progress, HwRespond
  PROVE  Progress'
<1>1. /\ ErrorsOK /\ ResponseOK /\ EndOK /\ CaughtOK /\ DataOK /\ BeginOK
      /\ Finished => Complete /\ Needs = {}
  BY DEF Progress
<1>2. /\ cmd \in {"idle", "sent", "late"} /\ data \in {"none", "moving", "late", "over"}
      /\ left \in Nat /\ fifo \in Nat /\ remaining \in Nat
      /\ rintsts \subseteq BITS /\ isr \subseteq BITS /\ erred \in BOOLEAN
  BY DEF TypeOK
<1>3. HwQuiet
  BY DEF HwRespond
<1> USE <1>1, <1>2, <1>3, HwFrame
<1>4. ErrorsOK'
  BY DEF HwRespond, hwVars, ErrorsOK, ResponseOK, EndOK, DataOK, HasError, Stopped, Raised,
     IsPioRead
<1>5. ResponseOK'
  BY DEF HwRespond, hwVars, ErrorsOK, ResponseOK, EndOK, DataOK, HasError, Stopped, Raised,
     IsPioRead
<1>6. EndOK'
  BY DEF HwRespond, hwVars, ErrorsOK, ResponseOK, EndOK, DataOK, HasError, Stopped, Raised, IsData
<1>7. DataOK'
  <2>1. /\ cmd = "sent" /\ rintsts' = rintsts \cup {"CMD"}
        /\ UNCHANGED <<left, fifo, erred>> /\ Raised = {} /\ Handed = {} /\ ~erred
        /\ "CARD_RESPONSE" \in Needs /\ (IsPioRead(OnBus) => fifo = 0) /\ step = "none"
    BY DEF HwRespond, ResponseOK
  <2>2. "RXDR" \notin Raised' /\ "TXDR" \notin Raised' /\ isr = {}
    BY <2>1 DEF Raised
  <2>3. CASE IsPioRead(OnBus)
    <3>1. ReadOK
      BY <2>3 DEF DataOK
    <3>2. ReadOK'
      BY <2>1, <2>2, <3>1 DEF ReadOK, Handed, Raised
    <3> QED
      BY <2>1, <2>2, <2>3, <3>2 DEF DataOK, IsPioRead, IsPioWrite, Raised
  <2>4. CASE ~IsPioRead(OnBus)
    BY <2>1, <2>2, <2>4 DEF DataOK, WriteOK, IsPioWrite, Raised
  <2> QED
    BY <2>3, <2>4
<1>8. CaughtOK' /\ BeginOK'
  BY DEF HwRespond, hwVars, CaughtOK, BeginOK, ErrorsOK, ResponseOK, EndOK, Raised
<1>9. Finished' => Complete' /\ Needs' = {}
  BY DEF HwRespond, hwVars, Complete, Over, IsData, DataOK, ReadOK, WriteOK, ResponseOK, EndOK,
     Raised, IsPioRead, IsPioWrite
<1> QED
  BY <1>4, <1>5, <1>6, <1>7, <1>8, <1>9 DEF Progress

LEMMA HwNoResponseProgress ==
  ASSUME TypeOK, AwaitOK, Progress, HwNoResponse
  PROVE  Progress'
<1>1. /\ ErrorsOK /\ ResponseOK /\ EndOK /\ CaughtOK /\ DataOK /\ BeginOK
      /\ Finished => Complete /\ Needs = {}
  BY DEF Progress
<1>2. /\ cmd \in {"idle", "sent", "late"} /\ data \in {"none", "moving", "late", "over"}
      /\ left \in Nat /\ fifo \in Nat /\ remaining \in Nat
      /\ rintsts \subseteq BITS /\ isr \subseteq BITS /\ erred \in BOOLEAN
  BY DEF TypeOK
<1>3. HwQuiet
  BY DEF HwNoResponse
<1> USE <1>1, <1>2, <1>3, HwFrame
<1>4. ErrorsOK'
  BY DEF HwNoResponse, hwVars, ErrorsOK, ResponseOK, EndOK, DataOK, HasError, Stopped, Raised,
     IsPioRead
<1>5. ResponseOK'
  BY DEF HwNoResponse, hwVars, ErrorsOK, ResponseOK, EndOK, DataOK, HasError, Stopped, Raised,
     IsPioRead
<1>6. EndOK'
  BY DEF HwNoResponse, hwVars, ErrorsOK, ResponseOK, EndOK, DataOK, HasError, Stopped, Raised,
     IsData
<1>7. DataOK'
  BY DEF HwNoResponse, hwVars, ErrorsOK, ResponseOK, EndOK, DataOK, ReadOK, WriteOK, HasError,
     Stopped, Raised, IsPioRead, IsPioWrite
<1>8. CaughtOK' /\ BeginOK'
  BY DEF HwNoResponse, hwVars, CaughtOK, BeginOK, ErrorsOK, ResponseOK, EndOK, Raised
<1>9. Finished' => Complete' /\ Needs' = {}
  BY DEF HwNoResponse, hwVars, Complete, Over, IsData, DataOK, ReadOK, WriteOK, ResponseOK,
     EndOK, Raised, IsPioRead, IsPioWrite
<1> QED
  BY <1>4, <1>5, <1>6, <1>7, <1>8, <1>9 DEF Progress

LEMMA HwLateCommandProgress ==
  ASSUME TypeOK, AwaitOK, Progress, HwLateCommand
  PROVE  Progress'
<1>1. /\ ErrorsOK /\ ResponseOK /\ EndOK /\ CaughtOK /\ DataOK /\ BeginOK
      /\ Finished => Complete /\ Needs = {}
  BY DEF Progress
<1>2. /\ cmd \in {"idle", "sent", "late"} /\ data \in {"none", "moving", "late", "over"}
      /\ left \in Nat /\ fifo \in Nat /\ remaining \in Nat
      /\ rintsts \subseteq BITS /\ isr \subseteq BITS /\ erred \in BOOLEAN
  BY DEF TypeOK
<1>3. HwQuiet
  BY DEF HwLateCommand
<1> USE <1>1, <1>2, <1>3, HwFrame
<1>4. ErrorsOK'
  BY DEF HwLateCommand, hwVars, ErrorsOK, ResponseOK, EndOK, DataOK, HasError, Stopped, Raised,
     IsPioRead
<1>5. ResponseOK'
  BY DEF HwLateCommand, hwVars, ErrorsOK, ResponseOK, EndOK, DataOK, HasError, Stopped, Raised,
     IsPioRead
<1>6. EndOK'
  BY DEF HwLateCommand, hwVars, ErrorsOK, ResponseOK, EndOK, DataOK, HasError, Stopped, Raised,
     IsData
<1>7. DataOK'
  BY DEF HwLateCommand, hwVars, ErrorsOK, ResponseOK, EndOK, DataOK, ReadOK, WriteOK, HasError,
     Stopped, Raised, IsPioRead, IsPioWrite
<1>8. CaughtOK' /\ BeginOK'
  BY DEF HwLateCommand, hwVars, CaughtOK, BeginOK, ErrorsOK, ResponseOK, EndOK, Raised
<1>9. Finished' => Complete' /\ Needs' = {}
  BY DEF HwLateCommand, hwVars, Complete, Over, IsData, DataOK, ReadOK, WriteOK, ResponseOK,
     EndOK, Raised, IsPioRead, IsPioWrite
<1> QED
  BY <1>4, <1>5, <1>6, <1>7, <1>8, <1>9 DEF Progress

LEMMA HwMoveProgress ==
  ASSUME TypeOK, AwaitOK, Progress, HwMove
  PROVE  Progress'
<1>1. /\ ErrorsOK /\ ResponseOK /\ EndOK /\ CaughtOK /\ DataOK /\ BeginOK
      /\ Finished => Complete /\ Needs = {}
  BY DEF Progress
<1>2. /\ cmd \in {"idle", "sent", "late"} /\ data \in {"none", "moving", "late", "over"}
      /\ left \in Nat /\ fifo \in Nat /\ remaining \in Nat
      /\ rintsts \subseteq BITS /\ isr \subseteq BITS /\ erred \in BOOLEAN
  BY DEF TypeOK
<1>3. HwQuiet
  BY DEF HwMove
<1> USE <1>1, <1>2, <1>3, HwFrame
<1>4. ErrorsOK'
  BY DEF HwMove, hwVars, ErrorsOK, ResponseOK, EndOK, DataOK, HasError, Stopped, Raised, IsPioRead
<1>5. ResponseOK'
  BY DEF HwMove, hwVars, ErrorsOK, ResponseOK, EndOK, DataOK, HasError, Stopped, Raised, IsPioRead
<1>6. EndOK'
  BY DEF HwMove, hwVars, ErrorsOK, ResponseOK, EndOK, DataOK, HasError, Stopped, Raised, IsData
<1>7. DataOK'
  BY DEF HwMove, hwVars, ErrorsOK, ResponseOK, EndOK, DataOK, ReadOK, WriteOK, HasError, Stopped,
     Raised, IsPioRead, IsPioWrite
<1>8. CaughtOK' /\ BeginOK'
  BY DEF HwMove, hwVars, CaughtOK, BeginOK, ErrorsOK, ResponseOK, EndOK, Raised
<1>9. Finished' => Complete' /\ Needs' = {}
  BY DEF HwMove, hwVars, Complete, Over, IsData, DataOK, ReadOK, WriteOK, ResponseOK, EndOK,
     Raised, IsPioRead, IsPioWrite
<1> QED
  BY <1>4, <1>5, <1>6, <1>7, <1>8, <1>9 DEF Progress

LEMMA HwDataRequestProgress ==
  ASSUME TypeOK, AwaitOK, Progress, HwDataRequest
  PROVE  Progress'
<1>1. /\ ErrorsOK /\ ResponseOK /\ EndOK /\ CaughtOK /\ DataOK /\ BeginOK
      /\ Finished => Complete /\ Needs = {}
  BY DEF Progress
<1>2. /\ cmd \in {"idle", "sent", "late"} /\ data \in {"none", "moving", "late", "over"}
      /\ left \in Nat /\ fifo \in Nat /\ remaining \in Nat
      /\ rintsts \subseteq BITS /\ isr \subseteq BITS /\ erred \in BOOLEAN
  BY DEF TypeOK
<1>3. HwQuiet
  BY DEF HwDataRequest
<1> USE <1>1, <1>2, <1>3, HwFrame
<1>4. ErrorsOK'
  BY DEF HwDataRequest, hwVars, ErrorsOK, ResponseOK, EndOK, DataOK, HasError, Stopped, Raised,
     IsPioRead
<1>5. ResponseOK'
  BY DEF HwDataRequest, hwVars, ErrorsOK, ResponseOK, EndOK, DataOK, HasError, Stopped, Raised,
     IsPioRead
<1>6. EndOK'
  BY DEF HwDataRequest, hwVars, ErrorsOK, ResponseOK, EndOK, DataOK, HasError, Stopped, Raised,
     IsData
<1>7. DataOK'
  BY DEF HwDataRequest, hwVars, ErrorsOK, ResponseOK, EndOK, DataOK, ReadOK, WriteOK, HasError,
     Stopped, Raised, IsPioRead, IsPioWrite
<1>8. CaughtOK' /\ BeginOK'
  BY DEF HwDataRequest, hwVars, CaughtOK, BeginOK, ErrorsOK, ResponseOK, EndOK, Raised
<1>9. Finished' => Complete' /\ Needs' = {}
  BY DEF HwDataRequest, hwVars, Complete, Over, IsData, DataOK, ReadOK, WriteOK, ResponseOK,
     EndOK, Raised, IsPioRead, IsPioWrite
<1> QED
  BY <1>4, <1>5, <1>6, <1>7, <1>8, <1>9 DEF Progress

LEMMA HwDataEndProgress ==
  ASSUME TypeOK, AwaitOK, Progress, HwDataEnd
  PROVE  Progress'
<1>1. /\ ErrorsOK /\ ResponseOK /\ EndOK /\ CaughtOK /\ DataOK /\ BeginOK
      /\ Finished => Complete /\ Needs = {}
  BY DEF Progress
<1>2. /\ cmd \in {"idle", "sent", "late"} /\ data \in {"none", "moving", "late", "over"}
      /\ left \in Nat /\ fifo \in Nat /\ remaining \in Nat
      /\ rintsts \subseteq BITS /\ isr \subseteq BITS /\ erred \in BOOLEAN
  BY DEF TypeOK
<1>3. HwQuiet
  BY DEF HwDataEnd
<1> USE <1>1, <1>2, <1>3, HwFrame
<1>4. ErrorsOK'
  BY DEF HwDataEnd, hwVars, ErrorsOK, ResponseOK, EndOK, DataOK, HasError, Stopped, Raised,
     IsPioRead
<1>5. ResponseOK'
  BY DEF HwDataEnd, hwVars, ErrorsOK, ResponseOK, EndOK, DataOK, HasError, Stopped, Raised,
     IsPioRead
<1>6. EndOK'
  BY DEF HwDataEnd, hwVars, ErrorsOK, ResponseOK, EndOK, DataOK, HasError, Stopped, Raised, IsData
<1>7. DataOK'
  BY DEF HwDataEnd, hwVars, ErrorsOK, ResponseOK, EndOK, DataOK, ReadOK, WriteOK, HasError,
     Stopped, Raised, IsPioRead, IsPioWrite
<1>8. CaughtOK' /\ BeginOK'
  BY DEF HwDataEnd, hwVars, CaughtOK, BeginOK, ErrorsOK, ResponseOK, EndOK, Raised
<1>9. Finished' => Complete' /\ Needs' = {}
  BY DEF HwDataEnd, hwVars, Complete, Over, IsData, DataOK, ReadOK, WriteOK, ResponseOK, EndOK,
     Raised, IsPioRead, IsPioWrite
<1> QED
  BY <1>4, <1>5, <1>6, <1>7, <1>8, <1>9 DEF Progress

LEMMA HwCrcErrorProgress ==
  ASSUME TypeOK, AwaitOK, Progress, HwCrcError
  PROVE  Progress'
<1>1. /\ ErrorsOK /\ ResponseOK /\ EndOK /\ CaughtOK /\ DataOK /\ BeginOK
      /\ Finished => Complete /\ Needs = {}
  BY DEF Progress
<1>2. /\ cmd \in {"idle", "sent", "late"} /\ data \in {"none", "moving", "late", "over"}
      /\ left \in Nat /\ fifo \in Nat /\ remaining \in Nat
      /\ rintsts \subseteq BITS /\ isr \subseteq BITS /\ erred \in BOOLEAN
  BY DEF TypeOK
<1>3. HwQuiet
  BY DEF HwCrcError
<1> USE <1>1, <1>2, <1>3, HwFrame
<1>4. ErrorsOK'
  BY DEF HwCrcError, hwVars, ErrorsOK, ResponseOK, EndOK, DataOK, HasError, Stopped, Raised,
     IsPioRead
<1>5. ResponseOK'
  BY DEF HwCrcError, hwVars, ErrorsOK, ResponseOK, EndOK, DataOK, HasError, Stopped, Raised,
     IsPioRead
<1>6. EndOK'
  BY DEF HwCrcError, hwVars, ErrorsOK, ResponseOK, EndOK, DataOK, HasError, Stopped, Raised, IsData
<1>7. DataOK'
  BY DEF HwCrcError, hwVars, ErrorsOK, ResponseOK, EndOK, DataOK, ReadOK, WriteOK, HasError,
     Stopped, Raised, IsPioRead, IsPioWrite
<1>8. CaughtOK' /\ BeginOK'
  BY DEF HwCrcError, hwVars, CaughtOK, BeginOK, ErrorsOK, ResponseOK, EndOK, Raised
<1>9. Finished' => Complete' /\ Needs' = {}
  BY DEF HwCrcError, hwVars, Complete, Over, IsData, DataOK, ReadOK, WriteOK, ResponseOK, EndOK,
     Raised, IsPioRead, IsPioWrite
<1> QED
  BY <1>4, <1>5, <1>6, <1>7, <1>8, <1>9 DEF Progress

LEMMA HwDataTimeoutProgress ==
  ASSUME TypeOK, AwaitOK, Progress, HwDataTimeout
  PROVE  Progress'
<1>1. /\ ErrorsOK /\ ResponseOK /\ EndOK /\ CaughtOK /\ DataOK /\ BeginOK
      /\ Finished => Complete /\ Needs = {}
  BY DEF Progress
<1>2. /\ cmd \in {"idle", "sent", "late"} /\ data \in {"none", "moving", "late", "over"}
      /\ left \in Nat /\ fifo \in Nat /\ remaining \in Nat
      /\ rintsts \subseteq BITS /\ isr \subseteq BITS /\ erred \in BOOLEAN
  BY DEF TypeOK
<1>3. HwQuiet
  BY DEF HwDataTimeout
<1> USE <1>1, <1>2, <1>3, HwFrame
<1>4. ErrorsOK'
  BY DEF HwDataTimeout, hwVars, ErrorsOK, ResponseOK, EndOK, DataOK, HasError, Stopped, Raised,
     IsPioRead
<1>5. ResponseOK'
  BY DEF HwDataTimeout, hwVars, ErrorsOK, ResponseOK, EndOK, DataOK, HasError, Stopped, Raised,
     IsPioRead
<1>6. EndOK'
  BY DEF HwDataTimeout, hwVars, ErrorsOK, ResponseOK, EndOK, DataOK, HasError, Stopped, Raised,
     IsData
<1>7. DataOK'
  BY DEF HwDataTimeout, hwVars, ErrorsOK, ResponseOK, EndOK, DataOK, ReadOK, WriteOK, HasError,
     Stopped, Raised, IsPioRead, IsPioWrite
<1>8. CaughtOK' /\ BeginOK'
  BY DEF HwDataTimeout, hwVars, CaughtOK, BeginOK, ErrorsOK, ResponseOK, EndOK, Raised
<1>9. Finished' => Complete' /\ Needs' = {}
  BY DEF HwDataTimeout, hwVars, Complete, Over, IsData, DataOK, ReadOK, WriteOK, ResponseOK,
     EndOK, Raised, IsPioRead, IsPioWrite
<1> QED
  BY <1>4, <1>5, <1>6, <1>7, <1>8, <1>9 DEF Progress

LEMMA HwLateDataProgress ==
  ASSUME TypeOK, AwaitOK, Progress, HwLateData
  PROVE  Progress'
<1>1. /\ ErrorsOK /\ ResponseOK /\ EndOK /\ CaughtOK /\ DataOK /\ BeginOK
      /\ Finished => Complete /\ Needs = {}
  BY DEF Progress
<1>2. /\ cmd \in {"idle", "sent", "late"} /\ data \in {"none", "moving", "late", "over"}
      /\ left \in Nat /\ fifo \in Nat /\ remaining \in Nat
      /\ rintsts \subseteq BITS /\ isr \subseteq BITS /\ erred \in BOOLEAN
  BY DEF TypeOK
<1>3. HwQuiet
  BY DEF HwLateData
<1> USE <1>1, <1>2, <1>3, HwFrame
<1>4. ErrorsOK'
  BY DEF HwLateData, hwVars, ErrorsOK, ResponseOK, EndOK, DataOK, HasError, Stopped, Raised,
     IsPioRead
<1>5. ResponseOK'
  BY DEF HwLateData, hwVars, ErrorsOK, ResponseOK, EndOK, DataOK, HasError, Stopped, Raised,
     IsPioRead
<1>6. EndOK'
  BY DEF HwLateData, hwVars, ErrorsOK, ResponseOK, EndOK, DataOK, HasError, Stopped, Raised, IsData
<1>7. DataOK'
  BY DEF HwLateData, hwVars, ErrorsOK, ResponseOK, EndOK, DataOK, ReadOK, WriteOK, HasError,
     Stopped, Raised, IsPioRead, IsPioWrite
<1>8. CaughtOK' /\ BeginOK'
  BY DEF HwLateData, hwVars, CaughtOK, BeginOK, ErrorsOK, ResponseOK, EndOK, Raised
<1>9. Finished' => Complete' /\ Needs' = {}
  BY DEF HwLateData, hwVars, Complete, Over, IsData, DataOK, ReadOK, WriteOK, ResponseOK, EndOK,
     Raised, IsPioRead, IsPioWrite
<1> QED
  BY <1>4, <1>5, <1>6, <1>7, <1>8, <1>9 DEF Progress

LEMMA HwIdleProgress ==
  ASSUME TypeOK, AwaitOK, Progress, HwIdle
  PROVE  Progress'
<1>1. /\ ErrorsOK /\ ResponseOK /\ EndOK /\ CaughtOK /\ DataOK /\ BeginOK
      /\ Finished => Complete /\ Needs = {}
  BY DEF Progress
<1>2. /\ cmd \in {"idle", "sent", "late"} /\ data \in {"none", "moving", "late", "over"}
      /\ left \in Nat /\ fifo \in Nat /\ remaining \in Nat
      /\ rintsts \subseteq BITS /\ isr \subseteq BITS /\ erred \in BOOLEAN
  BY DEF TypeOK
<1>3. HwQuiet
  BY DEF HwIdle
<1> USE <1>1, <1>2, <1>3, HwFrame
<1>4. ErrorsOK'
  BY DEF HwIdle, hwVars, ErrorsOK, ResponseOK, EndOK, DataOK, HasError, Stopped, Raised, IsPioRead
<1>5. ResponseOK'
  BY DEF HwIdle, hwVars, ErrorsOK, ResponseOK, EndOK, DataOK, HasError, Stopped, Raised, IsPioRead
<1>6. EndOK'
  BY DEF HwIdle, hwVars, ErrorsOK, ResponseOK, EndOK, DataOK, HasError, Stopped, Raised, IsData
<1>7. DataOK'
  BY DEF HwIdle, hwVars, ErrorsOK, ResponseOK, EndOK, DataOK, ReadOK, WriteOK, HasError, Stopped,
     Raised, IsPioRead, IsPioWrite
<1>8. CaughtOK' /\ BeginOK'
  BY DEF HwIdle, hwVars, CaughtOK, BeginOK, ErrorsOK, ResponseOK, EndOK, Raised
<1>9. Finished' => Complete' /\ Needs' = {}
  BY DEF HwIdle, hwVars, Complete, Over, IsData, DataOK, ReadOK, WriteOK, ResponseOK, EndOK,
     Raised, IsPioRead, IsPioWrite
<1> QED
  BY <1>4, <1>5, <1>6, <1>7, <1>8, <1>9 DEF Progress

-----------------------------------------------------------------------------
(* Progress: the interrupt.                                                *)

LEMMA IsrAcknowledgeProgress ==
  ASSUME TypeOK, OrderOK, AwaitOK, Progress, IsrAcknowledge
  PROVE  Progress'
<1>1. /\ ErrorsOK /\ ResponseOK /\ EndOK /\ CaughtOK /\ DataOK /\ BeginOK
      /\ Finished => Complete /\ Needs = {}
  BY DEF Progress
<1>2. /\ cmd \in {"idle", "sent", "late"} /\ data \in {"none", "moving", "late", "over"}
      /\ left \in Nat /\ fifo \in Nat /\ remaining \in Nat
      /\ rintsts \subseteq BITS /\ dataUnmasked \in BOOLEAN
  BY DEF TypeOK
<1>3. /\ UNCHANGED <<kind, required, status, remaining, currentEvents, currentErrors, unmasked,
                     sdpEvents, sdpErrors, localDpc, outstanding, cmd, data, left, fifo, busy,
                     localPending, busyWork, told, host, active, phase, step, seen, erred, dropped,
                     missed, overtaken>>
      /\ isr = {} /\ Asserted /\ isr' = rintsts /\ rintsts' = {}
      /\ dataUnmasked' = (dataUnmasked /\ rintsts \cap DATA_REQUESTS = {})
  BY DEF IsrAcknowledge, reqVars, accVars, dpcVars, hwVars, endVars, hostVars, errVars
<1>4. /\ UNCHANGED <<OnBus, Needs, Passing, PassingErrors, Handed, Raised>>
      /\ (Finished' <=> Finished) /\ (Ready' <=> Ready)
      /\ (Stopped' <=> Stopped)
      /\ (OnItsWay("CARD_RESPONSE")' <=> OnItsWay("CARD_RESPONSE"))
      /\ (OnItsWay("BUFFER_FULL")' <=> OnItsWay("BUFFER_FULL"))
      /\ (OnItsWay("BUFFER_EMPTY")' <=> OnItsWay("BUFFER_EMPTY"))
      /\ (OnItsWay("CARD_RW_END")' <=> OnItsWay("CARD_RW_END"))
  BY <1>3 DEF OnBus, Needs, Passing, PassingErrors, Handed, OnItsWay, LocalDone, Finished, Ready,
       Raised, Stopped
<1> USE <1>1, <1>2, <1>3, <1>4
<1>5. ErrorsOK' /\ ResponseOK' /\ EndOK'
  <2>1. ErrorsOK'
    BY DEF ErrorsOK, IsPioRead
  <2>2. Raised = rintsts
    BY DEF Raised
  <2>3. ResponseOK'
    BY <2>2 DEF ResponseOK, IsPioRead
  <2>4. EndOK'
    BY <2>2 DEF EndOK
  <2> QED
    BY <2>1, <2>3, <2>4
<1>6. DataOK'
  <2>1. /\ "RXDR" \in rintsts => ~dataUnmasked'
        /\ "TXDR" \in rintsts => ~dataUnmasked'
        /\ dataUnmasked /\ ~dataUnmasked' => "RXDR" \in rintsts \/ "TXDR" \in rintsts
        /\ dataUnmasked' => dataUnmasked
    BY DEF DATA_REQUESTS
  <2>2. /\ "RXDR" \in Raised => IsPioRead(OnBus)
        /\ "TXDR" \in Raised => IsPioWrite(OnBus)
        /\ ~(IsPioRead(OnBus) /\ IsPioWrite(OnBus))
        /\ Raised = rintsts
    BY DEF DataOK, IsPioRead, IsPioWrite, Raised
  <2>3. CASE IsPioRead(OnBus)
    <3>1. ReadOK
      BY <2>3 DEF DataOK
    <3>2. "RXDR" \in rintsts => fifo > 0 /\ cmd = "idle" /\ ~dataUnmasked'
      BY <2>1, <2>2, <3>1 DEF ReadOK, ErrorsOK, ResponseOK
    <3>3. ~dataUnmasked => \E b \in rintsts : b \in {"CMD", "DTO", "RTO", "DRTO", "DCRC"}
      BY DEF Asserted, DATA_REQUESTS, BITS
    <3>4. "RXDR" \in rintsts /\ ~dataUnmasked =>
            "CMD" \in rintsts \/ Stopped \/ HasError(rintsts)
      BY <2>2, <3>3 DEF EndOK, Stopped, HasError
    <3>5. "CMD" \in rintsts => "BUFFER_FULL" \in Needs /\ "BUFFER_FULL" \notin Handed
      BY <2>2, <3>1 DEF ReadOK, ResponseOK
    <3>6. "BUFFER_FULL" \in Needs =>
            remaining > 0 /\ (step # "none" \/ dataUnmasked' \/ "RXDR" \in isr'
                               \/ OnItsWay("BUFFER_FULL")')
      BY <2>1, <2>2, <2>3, <3>1 DEF ReadOK
    <3>7. "BUFFER_FULL" \in Passing =>
            /\ (fifo > 0 /\ ~dataUnmasked') \/ Stopped \/ PassingErrors # {}
            /\ "RXDR" \in isr' => Stopped \/ HasError(isr') \/ PassingErrors # {}
      BY <2>1, <3>1, <3>4, <3>5 DEF ReadOK, Handed
    <3>8. "BUFFER_FULL" \in currentEvents =>
            /\ (fifo > 0 /\ ~dataUnmasked') \/ Stopped \/ currentErrors # {}
            /\ "RXDR" \in isr' => Stopped \/ HasError(isr') \/ currentErrors # {}
            /\ step = "moved" => Stopped \/ currentErrors # {}
      BY <2>1, <3>1, <3>4, <3>5 DEF ReadOK, Handed
    <3>9. "BUFFER_FULL" \notin Needs \/ step # "none" =>
            /\ ~dataUnmasked' \/ Stopped
            /\ "RXDR" \in isr' => Stopped \/ HasError(isr')
            /\ "BUFFER_FULL" \in Passing => Stopped \/ PassingErrors # {}
      <4>1. "CMD" \in rintsts => "CARD_RESPONSE" \in Needs
        BY <2>2 DEF ResponseOK
      <4> QED
        BY <2>1, <3>1, <3>4, <3>5, <4>1, StepNeeds DEF ReadOK
    <3> HIDE <1>4
    <3>10. ReadOK'
      BY <1>4, <3>1, <3>2, <3>6, <3>7, <3>8, <3>9 DEF ReadOK
    <3> QED
      BY <1>4, <2>2, <2>3, <3>10 DEF DataOK
  <2>4. CASE IsPioWrite(OnBus)
    <3>1. WriteOK'
      BY <2>1, <2>2, <2>4 DEF DataOK, WriteOK
    <3> QED
      BY <2>2, <2>4, <3>1 DEF DataOK
  <2> QED
    BY <2>2, <2>3, <2>4 DEF DataOK, IsPioRead, IsPioWrite
<1>7. CaughtOK' /\ BeginOK'
  BY DEF CaughtOK, BeginOK
<1>8. Finished' => Complete' /\ Needs' = {}
  BY DEF Complete, Over
<1> QED
  BY <1>5, <1>6, <1>7, <1>8 DEF Progress

\* What the ISR hands over to the DPC of the request on the bus.
LEMMA IsrDeliverHands ==
  ASSUME TypeOK, OrderOK, Live, IsrDeliver
  PROVE  /\ UNCHANGED <<kind, required, status, remaining, rintsts, unmasked, dataUnmasked, cmd,
                        data, left, fifo, busy, outstanding, localPending, busyWork, told, host,
                        active, phase, step, seen, erred>>
         /\ UNCHANGED <<OnBus, Needs>> /\ isr # {} /\ isr' = {} /\ Raised' = rintsts
         /\ (Finished' <=> Finished) /\ (Ready' <=> Ready) /\ (Stopped' <=> Stopped)
         /\ \/ /\ active = "sdp"
               /\ Passing' = Passing \cup Events(isr)
               /\ PassingErrors' = PassingErrors \cup Errors(isr)
               /\ UNCHANGED <<currentEvents, currentErrors, localDpc, dropped, missed>>
            \/ /\ active = "loc" /\ localPending
               /\ currentEvents' = currentEvents \cup Events(isr)
               /\ currentErrors' = currentErrors \cup Errors(isr)
               /\ localDpc' = TRUE
               /\ Passing = {} /\ PassingErrors = {} /\ Passing' = {} /\ PassingErrors' = {}
               /\ UNCHANGED <<dropped, missed>>
            \/ /\ active = "loc" /\ (Ready \/ Finished)
               /\ UNCHANGED <<currentEvents, currentErrors, localDpc>>
               /\ Drop(Events(isr), Errors(isr))
               /\ Passing = {} /\ PassingErrors = {} /\ Passing' = {} /\ PassingErrors' = {}
<1>1. /\ UNCHANGED <<kind, required, status, remaining, rintsts, unmasked, dataUnmasked, cmd,
                     data, left, fifo, busy, outstanding, localPending, busyWork, told, host,
                     active, phase, step, seen, erred>>
      /\ isr # {} /\ isr' = {}
  BY DEF IsrDeliver, reqVars, hwVars, endVars, hostVars
<1>2. UNCHANGED <<OnBus, Needs>> /\ Raised' = rintsts
  BY <1>1 DEF OnBus, Needs, Raised
<1>3. (Finished' <=> Finished) /\ (Ready' <=> Ready) /\ (Stopped' <=> Stopped)
  BY <1>1, <1>2 DEF LocalDone, Finished, Ready, Stopped
<1>4. CASE active = "sdp"
  <2>1. ~localPending
    BY <1>4 DEF Live, OrderOK
  <2> QED
    BY <1>1, <1>2, <1>3, <1>4, <2>1 DEF IsrDeliver, Passing, PassingErrors, accVars
<1>5. CASE active = "loc"
  <2>1. Passing = {} /\ PassingErrors = {} /\ Passing' = {} /\ PassingErrors' = {}
    BY <1>1, <1>5 DEF Passing, PassingErrors
  <2>2. ~localPending => Ready \/ Finished
    BY <1>5 DEF Live, OrderOK, Ready, Finished, LocalDone, TypeOK
  <2> QED
    BY <1>1, <1>2, <1>3, <1>5, <2>1, <2>2 DEF IsrDeliver, accVars
<1> QED
  BY <1>4, <1>5 DEF TypeOK, Who

LEMMA IsrDeliverProgress ==
  ASSUME TypeOK, OrderOK, Live, AwaitOK, Progress, IsrDeliver
  PROVE  Progress'
<1>1. /\ ErrorsOK /\ ResponseOK /\ EndOK /\ CaughtOK /\ DataOK /\ BeginOK
      /\ Finished => Complete /\ Needs = {}
  BY DEF Progress
<1>2. /\ UNCHANGED <<kind, required, status, remaining, rintsts, unmasked, dataUnmasked, cmd,
                     data, left, fifo, busy, outstanding, localPending, busyWork, told, host,
                     active, phase, step, seen, erred>>
      /\ UNCHANGED <<OnBus, Needs>> /\ isr # {} /\ isr' = {} /\ Raised' = rintsts
      /\ (Finished' <=> Finished) /\ (Ready' <=> Ready) /\ (Stopped' <=> Stopped)
  BY IsrDeliverHands
<1>3. /\ Events(isr) # {}
      /\ "CARD_RESPONSE" \in Events(isr) <=> "CMD" \in isr
      /\ "CARD_RW_END" \in Events(isr) <=> "DTO" \in isr
      /\ "BUFFER_FULL" \in Events(isr) <=> "RXDR" \in isr
      /\ "BUFFER_EMPTY" \in Events(isr) <=> "TXDR" \in isr
      /\ Errors(isr) # {} <=> HasError(isr)
      /\ "CMD_TIMEOUT" \in Errors(isr) <=> "RTO" \in isr
      /\ "DATA_TIMEOUT" \in Errors(isr) <=> "DRTO" \in isr
      /\ "DATA_CRC_ERROR" \in Errors(isr) <=> "DCRC" \in isr
  BY <1>2, EventsOf, ErrorsOf DEF TypeOK
<1>4. /\ HasError(Raised) <=> HasError(rintsts) \/ HasError(isr)
      /\ \A b : b \in Raised <=> b \in rintsts \/ b \in isr
  BY DEF Raised, HasError
<1>5. cmd # "sent"
  BY <1>1, <1>2 DEF ResponseOK, Raised
<1>6. step # "none" => "CARD_RESPONSE" \notin Needs
  BY StepNeeds
<1>7. active = "loc" => OnBus = Tune
  BY DEF OrderOK, Live, OnBus
<1>8. \/ /\ active = "sdp"
         /\ Passing' = Passing \cup Events(isr)
         /\ PassingErrors' = PassingErrors \cup Errors(isr)
         /\ UNCHANGED <<currentEvents, currentErrors, localDpc, dropped, missed>>
      \/ /\ active = "loc" /\ localPending
         /\ currentEvents' = currentEvents \cup Events(isr)
         /\ currentErrors' = currentErrors \cup Errors(isr)
         /\ localDpc' = TRUE
         /\ Passing = {} /\ PassingErrors = {} /\ Passing' = {} /\ PassingErrors' = {}
         /\ UNCHANGED <<dropped, missed>>
      \/ /\ active = "loc" /\ (Ready \/ Finished)
         /\ UNCHANGED <<currentEvents, currentErrors, localDpc>>
         /\ Drop(Events(isr), Errors(isr))
         /\ Passing = {} /\ PassingErrors = {} /\ Passing' = {} /\ PassingErrors' = {}
  BY IsrDeliverHands
<1>9. active = "loc" /\ (Ready \/ Finished) => Needs = {}
  BY <1>1 DEF AwaitOK
<1> USE <1>1, <1>2, <1>3, <1>4, <1>5, <1>6, <1>8, <1>9
<1>10. ErrorsOK'
  BY DEF ErrorsOK, Handed, Drop
<1>11. ResponseOK'
  BY DEF ResponseOK, Handed, OnItsWay, IsPioRead
<1>12. EndOK'
  BY <1>7 DEF EndOK, Handed, IsData, Tune
<1>13. DataOK'
  <2>1. CASE IsPioRead(OnBus)
    <3>1. ReadOK'
      BY <2>1 DEF DataOK, ReadOK, Handed, OnItsWay
    <3> QED
      BY <2>1, <3>1 DEF DataOK, Handed, IsPioRead, IsPioWrite
  <2>2. CASE IsPioWrite(OnBus)
    <3>1. WriteOK'
      BY <2>2 DEF DataOK, WriteOK, Handed, OnItsWay
    <3> QED
      BY <2>2, <3>1 DEF DataOK, Handed, IsPioRead, IsPioWrite
  <2> QED
    BY <2>1, <2>2 DEF DataOK, Handed, IsPioRead, IsPioWrite
<1>14. CaughtOK' /\ BeginOK'
  <2>1. CaughtOK'
    BY DEF CaughtOK, Handed, OnItsWay, Drop
  <2>2. BeginOK'
    BY <1>7 DEF BeginOK, Tune
  <2> QED
    BY <2>1, <2>2
<1>15. Finished' => Complete' /\ Needs' = {}
  BY DEF Complete, Over, Drop
<1> QED
  BY <1>10, <1>11, <1>12, <1>13, <1>14, <1>15 DEF Progress

-----------------------------------------------------------------------------
(* Progress: the two DPCs.                                                 *)

\* The DPC of the request on the bus takes all that was on its way to it.
DpcTakes(events, errors) ==
  /\ UNCHANGED <<kind, remaining, rintsts, unmasked, dataUnmasked, isr, cmd, data, left, fifo,
                 busy, active, phase, step, seen, erred>>
  /\ \/ /\ active = "sdp" /\ events = sdpEvents /\ errors = sdpErrors
        /\ sdpEvents' = {} /\ sdpErrors' = {} /\ UNCHANGED localDpc
     \/ /\ active = "loc" /\ events = currentEvents /\ errors = currentErrors
        /\ localDpc /\ ~localDpc' /\ UNCHANGED <<sdpEvents, sdpErrors>>

LEMMA DpcTaken ==
  ASSUME TypeOK, Progress, NEW events, NEW errors, DpcTakes(events, errors)
  PROVE  /\ UNCHANGED <<OnBus, Raised>> /\ (Stopped' <=> Stopped)
         /\ events \subseteq Handed /\ Passing \subseteq events
         /\ Passing' = {} /\ PassingErrors' = {}
         /\ PassingErrors \subseteq errors /\ errors \subseteq PassingErrors \cup currentErrors
         /\ \A e : OnItsWay(e) => e \in events
         /\ \A e : ~OnItsWay(e)'
         /\ IsPioRead(OnBus) /\ "BUFFER_FULL" \in events =>
              /\ (fifo > 0 /\ ~dataUnmasked) \/ Stopped \/ errors # {}
              /\ "RXDR" \in isr => Stopped \/ HasError(isr) \/ errors # {}
              /\ step \notin {"none", "start"} => Stopped \/ errors # {}
<1>1. UNCHANGED <<OnBus, Raised>> /\ (Stopped' <=> Stopped)
  BY DEF DpcTakes, OnBus, Raised, Stopped
<1>2. /\ events \subseteq Handed /\ Passing \subseteq events
      /\ Passing' = {} /\ PassingErrors' = {}
      /\ PassingErrors \subseteq errors /\ errors \subseteq PassingErrors \cup currentErrors
  BY DEF DpcTakes, Handed, Passing, PassingErrors
<1>3. /\ \A e : OnItsWay(e) => e \in events
      /\ \A e : ~OnItsWay(e)'
  BY DEF DpcTakes, OnItsWay, Passing
<1>4. IsPioRead(OnBus) /\ "BUFFER_FULL" \in events =>
        /\ (fifo > 0 /\ ~dataUnmasked) \/ Stopped \/ errors # {}
        /\ "RXDR" \in isr => Stopped \/ HasError(isr) \/ errors # {}
        /\ step \notin {"none", "start"} => Stopped \/ errors # {}
  BY DEF DpcTakes, Progress, DataOK, ReadOK, Passing, PassingErrors
<1> QED
  BY <1>1, <1>2, <1>3, <1>4

\* Nothing was awaited, or there was nothing new: only the errors are lost.
LEMMA DropProgress ==
  ASSUME TypeOK, AwaitOK, Progress, NEW events, NEW errors, DpcTakes(events, errors),
         events = {} \/ Needs = {},
         UNCHANGED <<currentEvents, currentErrors, required, status, host, localPending, busyWork>>,
         Drop(events, errors)
  PROVE  Progress'
<1>1. /\ ErrorsOK /\ ResponseOK /\ EndOK /\ CaughtOK /\ DataOK /\ BeginOK
      /\ Finished => Complete /\ Needs = {}
  BY DEF Progress
<1>2. /\ UNCHANGED <<kind, remaining, rintsts, unmasked, dataUnmasked, isr, cmd, data, left, fifo,
                     busy, active, phase, step, seen, erred>>
      /\ UNCHANGED Needs /\ (Finished' <=> Finished) /\ (Ready' <=> Ready)
  BY DpcTaken DEF DpcTakes, Needs, Finished, Ready, LocalDone
<1>3. /\ UNCHANGED <<OnBus, Raised>> /\ (Stopped' <=> Stopped)
      /\ Passing' = {} /\ PassingErrors' = {} /\ PassingErrors \subseteq errors
      /\ \A e : OnItsWay(e) => e \in events
      /\ Handed' \subseteq Handed /\ currentEvents' = currentEvents
      /\ Passing \subseteq events
      /\ Needs = {} \/ \A e : ~OnItsWay(e)
      /\ Needs = {} \/ Passing = {}
  BY DpcTaken DEF Handed
<1> USE <1>1, <1>2, <1>3
<1>4. ErrorsOK'
  BY DEF ErrorsOK, Drop
<1>5. ResponseOK'
  BY DEF ResponseOK, IsPioRead
<1>6. EndOK'
  BY DEF EndOK, IsData
<1>7. DataOK'
  BY DEF DataOK, ReadOK, WriteOK, IsPioRead, IsPioWrite
<1>8. CaughtOK' /\ BeginOK'
  <2>1. BeginOK'
    BY DEF BeginOK
  <2>2. "CARD_RW_END" \in events => missed'
    BY DEF Drop
  <2>3. "CARD_RW_END" \notin events /\ ~missed' => ~missed
    BY DEF Drop
  <2>4. CaughtOK'
    BY <2>2, <2>3 DEF CaughtOK, Handed
  <2> QED
    BY <2>1, <2>4
<1>9. Finished' => Complete' /\ Needs' = {}
  BY DEF Complete, Over, Drop
<1> QED
  BY <1>4, <1>5, <1>6, <1>7, <1>8, <1>9 DEF Progress

\* The request waits for the rest of its events, with its errors kept.
LEMMA KeepProgress ==
  ASSUME TypeOK, OrderOK, AwaitOK, Progress, NEW events, NEW errors,
         DpcTakes(events, errors), Needs # {},
         currentErrors \cup errors # {} \/ Needs \ events # {},
         currentErrors \cup errors # {} => MustWait(events, currentErrors \cup errors),
         required' = [required EXCEPT ![active] = Needs \ events],
         Save(events, currentErrors \cup errors),
         UNCHANGED <<status, host, localPending, busyWork, dropped, missed>>
  PROVE  Progress'
<1>1. ErrorsOK /\ ResponseOK /\ EndOK /\ CaughtOK /\ DataOK /\ BeginOK
  BY DEF Progress
<1>2. /\ UNCHANGED <<kind, remaining, rintsts, unmasked, dataUnmasked, isr, cmd, data, left, fifo,
                     busy, active, phase, step, seen, erred>>
  BY DEF DpcTakes
<1>3. Needs' = Needs \ events
  BY <1>2 DEF Needs, TypeOK
<1>4. /\ step \in {"none", "awaited", "chained"} /\ ~busyWork
      /\ step # "none" => "CARD_RESPONSE" \notin Needs
  BY StepNeeds DEF OrderOK, Needs, TypeOK
<1>5. ~Ready /\ ~Ready' /\ ~Finished /\ ~Finished'
  <2>1. ~Ready /\ ~Finished
    BY <1>1 DEF AwaitOK, Progress
  <2> QED
    BY <2>1, <1>2, DpcTaken DEF Ready, Finished, LocalDone
<1>6. /\ UNCHANGED <<OnBus, Raised>> /\ (Stopped' <=> Stopped)
      /\ events \subseteq Handed /\ Passing \subseteq events
      /\ Passing' = {} /\ PassingErrors' = {}
      /\ PassingErrors \subseteq errors /\ errors \subseteq PassingErrors \cup currentErrors
      /\ \A e : OnItsWay(e) => e \in events
      /\ IsPioRead(OnBus) /\ "BUFFER_FULL" \in events =>
           /\ (fifo > 0 /\ ~dataUnmasked) \/ Stopped \/ errors # {}
           /\ "RXDR" \in isr => Stopped \/ HasError(isr) \/ errors # {}
           /\ step \notin {"none", "start"} => Stopped \/ errors # {}
  BY DpcTaken
<1>7. currentEvents' = currentEvents \cup events /\ currentErrors' = currentErrors \cup errors
  BY DEF Save
<1>8. Handed' \subseteq Handed /\ currentEvents \subseteq Handed
  BY <1>6, <1>7 DEF Handed
<1>9. currentErrors' # {} => \/ "CMD_TIMEOUT" \in currentErrors'
                             \/ "DATA_TIMEOUT" \in currentErrors'
  BY <1>7 DEF MustWait
<1>10. /\ "CMD_TIMEOUT" \in currentErrors' <=> "CMD_TIMEOUT" \in PassingErrors \cup currentErrors
       /\ "DATA_TIMEOUT" \in currentErrors' <=> "DATA_TIMEOUT" \in PassingErrors \cup currentErrors
  BY <1>6, <1>7
<1> USE <1>1, <1>2, <1>3, <1>6, <1>7, <1>8, <1>10
<1>11. ErrorsOK'
  BY DEF ErrorsOK
<1>12. ResponseOK'
  BY <1>4 DEF ResponseOK, IsPioRead
<1>13. EndOK'
  BY DEF EndOK, IsData
<1>14. "BUFFER_FULL" \in Handed /\ currentErrors' # {} => Stopped
  BY <1>9 DEF ErrorsOK
<1>15. DataOK'
  <2>1. CASE IsPioRead(OnBus)
    <3>1. ReadOK
      BY <2>1 DEF DataOK
    <3>2. left \in Nat /\ fifo \in Nat /\ remaining \in Nat /\ erred \in BOOLEAN
      BY DEF TypeOK
    <3>3. IsData(OnBus)
      BY <2>1 DEF IsPioRead, IsData
    <3>4. remaining = left + fifo \/ (erred /\ Stopped /\ fifo = 0)
      BY <3>1 DEF ReadOK
    <3>5. remaining > 0 /\ Stopped /\ cmd = "idle" => fifo > 0 \/ erred
      BY <3>2, <3>3, <3>4 DEF EndOK, Stopped
    <3>6. "BUFFER_FULL" \in Handed => cmd = "idle" /\ "CMD" \notin Raised
      BY <3>1 DEF ReadOK
    <3>7. "BUFFER_FULL" \in events =>
            /\ (fifo > 0 /\ ~dataUnmasked) \/ Stopped
            /\ "RXDR" \in isr => Stopped \/ HasError(isr)
            /\ step \notin {"none", "start"} => Stopped
      BY <1>14, <2>1
    <3>8. "BUFFER_FULL" \in Needs' =>
            remaining > 0 /\ (step # "none" \/ dataUnmasked \/ "RXDR" \in isr)
      BY <3>1 DEF ReadOK
    <3>9. step # "moved" /\ remaining > 0 /\ "BUFFER_FULL" \notin Needs' =>
            fifo > 0 \/ (erred /\ Stopped)
      BY <3>1, <3>5, <3>6, <3>7 DEF ReadOK
    <3>10. "CARD_RESPONSE" \in Needs' => "BUFFER_FULL" \in Needs'
      BY <3>1, <3>6 DEF ReadOK, ResponseOK
    <3>11. "BUFFER_FULL" \in currentEvents' =>
             /\ (fifo > 0 /\ ~dataUnmasked) \/ Stopped \/ currentErrors' # {}
             /\ "RXDR" \in isr => Stopped \/ HasError(isr) \/ currentErrors' # {}
             /\ step \notin {"none", "start"} => Stopped \/ currentErrors' # {}
      BY <3>1, <3>7 DEF ReadOK
    <3>12. "BUFFER_FULL" \notin Needs' \/ step # "none" =>
             /\ ~dataUnmasked \/ Stopped
             /\ "RXDR" \in isr => Stopped \/ HasError(isr)
      BY <3>1, <3>7 DEF ReadOK
    <3>13. step \in {"awaited", "chained"} /\ "BUFFER_FULL" \notin Needs' => Stopped
      BY <3>1, <3>7 DEF ReadOK
    <3>14. ReadOK'
      BY <1>4, <3>1, <3>8, <3>9, <3>10, <3>11, <3>12, <3>13 DEF ReadOK
    <3> QED
      BY <2>1, <3>14 DEF DataOK, IsPioRead, IsPioWrite
  <2>2. CASE IsPioWrite(OnBus)
    <3>1. WriteOK'
      BY <2>2 DEF DataOK, WriteOK
    <3> QED
      BY <2>2, <3>1 DEF DataOK, IsPioRead, IsPioWrite
  <2> QED
    BY <2>1, <2>2 DEF DataOK, IsPioRead, IsPioWrite
<1>16. CaughtOK' /\ BeginOK'
  <2>1. BeginOK'
    BY <1>5 DEF BeginOK
  <2>2. "CARD_RW_END" \in Handed => "CARD_RW_END" \in Handed'
    BY DEF Handed
  <2>3. CaughtOK'
    BY <1>4, <1>5, <2>2 DEF CaughtOK
  <2> QED
    BY <2>1, <2>3
<1> QED
  BY <1>5, <1>11, <1>12, <1>13, <1>15, <1>16 DEF Progress

\* With the last event of a phase and no error, the phase is over.
LEMMA PhaseOver ==
  ASSUME TypeOK, OrderOK, AwaitOK, Progress, NEW events, NEW errors,
         DpcTakes(events, errors),
         step = "awaited" => status[active] = "MORE_PROCESSING_REQUIRED",
         Needs # {}, currentErrors \cup errors = {}, Needs \ events = {}
  PROVE  /\ cmd = "idle" /\ "CMD" \notin Raised /\ "RTO" \notin Raised
         /\ step \in {"none", "awaited", "chained"}
         /\ step # "none" => status[active] = "MORE_PROCESSING_REQUIRED"
         /\ phase = "command" => status[active] # "MORE_PROCESSING_REQUIRED"
         /\ status[active] = "MORE_PROCESSING_REQUIRED" \/ (phase = "command" /\ IsData(OnBus)) =>
              IsData(OnBus) /\ (OnBus.data = "pio" => remaining > 0)
         /\ status[active] = "MORE_PROCESSING_REQUIRED" \/ (phase = "command" /\ IsData(OnBus))
              \/ Complete
         /\ OnBus.data = "dma" => data = "over" /\ "DTO" \notin Raised /\ phase = "command"
<1>1. ErrorsOK /\ ResponseOK /\ EndOK /\ CaughtOK /\ DataOK /\ BeginOK
  BY DEF Progress
<1>2. /\ events \subseteq Handed /\ Needs \subseteq Handed /\ Handed # {}
      /\ currentErrors = {} /\ PassingErrors = {}
  BY DpcTaken
<1>3. /\ step \in {"none", "awaited", "chained"}
      /\ step # "none" => /\ status[active] = "MORE_PROCESSING_REQUIRED"
                         /\ OnBus.data = "pio" /\ remaining > 0 /\ phase = "transfer"
  BY DEF OrderOK, AwaitOK, Needs, TypeOK
<1>4. /\ cmd \in {"idle", "sent", "late"} /\ data \in {"none", "moving", "late", "over"}
      /\ phase \in {"command", "transfer"}
  BY DEF TypeOK
<1>5. cmd = "idle" /\ "CMD" \notin Raised
  BY <1>1, <1>2, <1>4 DEF ResponseOK
<1>6. "RTO" \notin Raised
  BY <1>1, <1>5 DEF ResponseOK, Raised
<1>7. OnBus.data = "dma" => data = "over" /\ "DTO" \notin Raised /\ phase = "command"
  BY <1>1, <1>2, <1>3, <1>4 DEF EndOK, AwaitOK
<1>8. phase = "command" => status[active] # "MORE_PROCESSING_REQUIRED"
  BY <1>1 DEF AwaitOK
<1>9. status[active] = "MORE_PROCESSING_REQUIRED" \/ (phase = "command" /\ IsData(OnBus)) =>
        IsData(OnBus) /\ (OnBus.data = "pio" => remaining > 0)
  BY <1>1, <1>3, <1>4 DEF AwaitOK
<1>10. ASSUME status[active] # "MORE_PROCESSING_REQUIRED", ~(phase = "command" /\ IsData(OnBus))
       PROVE  Complete
  <2>1. CASE IsData(OnBus)
    <3>1. phase = "transfer" /\ OnBus.data = "pio" /\ "CARD_RW_END" \in Needs /\ remaining = 0
      BY <1>1, <1>3, <1>4, <1>10, <2>1 DEF AwaitOK
    <3>2. data = "over" /\ "DTO" \notin Raised
      BY <1>1, <1>2, <3>1 DEF EndOK
    <3>3. ~HasError(Raised)
      BY <1>1, <1>6, <3>2 DEF HasError, Raised, EndOK
    <3> QED
      BY <1>1, <1>2, <1>5, <3>1, <3>2, <3>3 DEF Complete, Over, ErrorsOK
  <2>2. CASE ~IsData(OnBus)
    <3>1. data \in {"none", "over"} /\ "DTO" \notin Raised
      BY <1>1, <1>4, <2>2 DEF EndOK
    <3>2. ~HasError(Raised)
      BY <1>1, <1>6, <3>1 DEF HasError, Raised, EndOK
    <3> QED
      BY <1>1, <1>2, <1>5, <2>2, <3>1, <3>2 DEF Complete, Over, ErrorsOK, IsData
  <2> QED
    BY <2>1, <2>2
<1> QED
  BY <1>3, <1>5, <1>6, <1>7, <1>8, <1>9, <1>10

LEMMA AckProgress ==
  ASSUME TypeOK, OrderOK, AwaitOK, Progress, NEW events, NEW errors,
         DpcTakes(events, errors),
         step = "awaited" => status[active] = "MORE_PROCESSING_REQUIRED",
         Needs # {}, currentErrors \cup errors = {}, Needs \ events = {},
         required' = [required EXCEPT ![active] = {}], Save(events, {}),
         UNCHANGED <<dropped, missed>>,
         status'[active] = status[active] \/ phase # "command" \/ status'[active] = "SUCCESS",
         Ready' \/ Finished',
         Ready' => IsData(OnBus) /\ (OnBus.data = "pio" => remaining > 0),
         Finished' => Complete
  PROVE  Progress'
<1>1. ErrorsOK /\ ResponseOK /\ EndOK /\ CaughtOK /\ DataOK /\ BeginOK
  BY DEF Progress
<1>2. /\ UNCHANGED <<kind, remaining, rintsts, unmasked, dataUnmasked, isr, cmd, data, left, fifo,
                     busy, active, phase, step, seen, erred>>
  BY DEF DpcTakes
<1>3. Needs' = {}
  BY <1>2 DEF Needs, TypeOK
<1>4. /\ cmd = "idle" /\ "CMD" \notin Raised /\ "RTO" \notin Raised
      /\ step \in {"none", "awaited", "chained"}
      /\ phase = "command" => status[active] # "MORE_PROCESSING_REQUIRED"
      /\ OnBus.data = "dma" => data = "over" /\ "DTO" \notin Raised
  BY PhaseOver
<1>5. /\ UNCHANGED <<OnBus, Raised>> /\ (Stopped' <=> Stopped)
      /\ events \subseteq Handed /\ Passing \subseteq events
      /\ Passing' = {} /\ PassingErrors' = {}
      /\ PassingErrors = {} /\ errors = {} /\ currentErrors = {}
      /\ \A e : OnItsWay(e) => e \in events
      /\ IsPioRead(OnBus) /\ "BUFFER_FULL" \in events =>
           /\ (fifo > 0 /\ ~dataUnmasked) \/ Stopped
           /\ "RXDR" \in isr => Stopped \/ HasError(isr)
           /\ step \notin {"none", "start"} => Stopped
  BY DpcTaken
<1>6. currentEvents' = currentEvents \cup events /\ currentErrors' = {}
  BY DEF Save
<1>7. Handed' \subseteq Handed /\ currentEvents \subseteq Handed /\ Needs \subseteq events
  BY <1>5, <1>6 DEF Handed
<1> USE <1>1, <1>2, <1>3, <1>4, <1>5, <1>6, <1>7
<1>8. ErrorsOK'
  BY DEF ErrorsOK
<1>9. ResponseOK'
  BY DEF ResponseOK, IsPioRead, Raised
<1>10. EndOK'
  BY DEF EndOK, IsData
<1>11. DataOK'
  <2>1. CASE IsPioRead(OnBus)
    <3>1. ReadOK
      BY <2>1 DEF DataOK
    <3>2. left \in Nat /\ fifo \in Nat /\ remaining \in Nat /\ erred \in BOOLEAN
      BY DEF TypeOK
    <3>3. IsData(OnBus)
      BY <2>1 DEF IsPioRead, IsData
    <3>4. remaining = left + fifo \/ (erred /\ Stopped /\ fifo = 0)
      BY <3>1 DEF ReadOK
    <3>5. remaining > 0 /\ Stopped => fifo > 0 \/ erred
      BY <3>2, <3>3, <3>4 DEF EndOK, Stopped
    <3>6. step # "moved" /\ remaining > 0 => fifo > 0 \/ (erred /\ Stopped)
      BY <2>1, <3>1, <3>5 DEF ReadOK
    <3>7. ~dataUnmasked \/ Stopped
      BY <2>1, <3>1 DEF ReadOK
    <3>8. "RXDR" \in isr => Stopped \/ HasError(isr)
      BY <2>1, <3>1 DEF ReadOK
    <3>9. "BUFFER_FULL" \in currentEvents' =>
            /\ (fifo > 0 /\ ~dataUnmasked) \/ Stopped
            /\ step \notin {"none", "start"} => Stopped
      BY <2>1, <3>1 DEF ReadOK
    <3>10. step \in {"awaited", "chained"} => Stopped
      BY <2>1, <3>1, <3>9 DEF ReadOK
    <3>11. ReadOK'
      BY <3>1, <3>6, <3>7, <3>8, <3>9, <3>10 DEF ReadOK
    <3> QED
      BY <2>1, <3>11 DEF DataOK, IsPioRead, IsPioWrite
  <2>2. CASE IsPioWrite(OnBus)
    <3>1. WriteOK'
      BY <2>2 DEF DataOK, WriteOK
    <3> QED
      BY <2>2, <3>1 DEF DataOK, IsPioRead, IsPioWrite
  <2> QED
    BY <2>1, <2>2 DEF DataOK, IsPioRead, IsPioWrite
<1>12. CaughtOK' /\ BeginOK'
  <2>1. BeginOK'
    BY DEF BeginOK
  <2>2. ~Finished
    BY DEF Progress
  <2>3. "CARD_RW_END" \in Handed => "CARD_RW_END" \in Handed'
    BY DEF Handed
  <2>4. CaughtOK'
    BY <2>2, <2>3 DEF CaughtOK
  <2> QED
    BY <2>1, <2>4
<1>13. Finished' => Complete' /\ Needs' = {}
  BY DEF Complete, Over
<1> QED
  BY <1>8, <1>9, <1>10, <1>11, <1>12, <1>13 DEF Progress

\* A card that is through with a request leaves nothing for the next one.
LEMMA OverIsClean ==
  ASSUME TypeOK, Progress, Over, "CMD" \notin Raised, OnBus.data = "pio" => remaining = 0
  PROVE  /\ Clean
         /\ ~erred /\ IsData(OnBus) => data = "over" /\ left = 0 /\ fifo = 0
<1>1. ErrorsOK /\ ResponseOK /\ EndOK /\ DataOK
  BY DEF Progress
<1>2. /\ left \in Nat /\ fifo \in Nat /\ remaining \in Nat /\ erred \in BOOLEAN
      /\ rintsts \subseteq BITS
  BY DEF TypeOK
<1>3. IsPioRead(OnBus) => fifo = 0 /\ "RXDR" \notin rintsts
  BY <1>1, <1>2 DEF DataOK, ReadOK, IsPioRead
<1>4. IsPioWrite(OnBus) => fifo = left
  BY <1>1, <1>2 DEF DataOK, WriteOK, IsPioWrite
<1>5. "CMD" \notin rintsts /\ "RTO" \notin rintsts
  BY <1>1 DEF Over, Raised, ResponseOK
<1>6. "DTO" \notin rintsts /\ data \in {"none", "over"} /\ cmd = "idle"
  BY DEF Over, Raised
<1>7. "DRTO" \notin rintsts /\ "DCRC" \notin rintsts
  BY <1>1, <1>6 DEF EndOK
<1>8. "RXDR" \notin rintsts /\ "TXDR" \notin rintsts
  BY <1>1, <1>3, <1>6 DEF DataOK, Raised
<1>9. rintsts = {}
  BY <1>2, <1>5, <1>6, <1>7, <1>8 DEF BITS
<1>10. Clean
  BY <1>3, <1>6, <1>9 DEF Clean
<1>11. ASSUME ~erred, IsData(OnBus)
       PROVE  data = "over" /\ left = 0 /\ fifo = 0
  <2>1. data = "over" /\ left = 0
    BY <1>1, <1>6, <1>11 DEF EndOK
  <2>2. OnBus.data \in {"pio", "dma"} /\ (OnBus.data = "pio" => OnBus.dir \in {"read", "write"})
    BY <1>11, KindOf DEF OnBus, TypeOK, IsData, Kind
  <2> QED
    BY <1>1, <1>3, <1>4, <2>1, <2>2 DEF DataOK, IsPioRead, IsPioWrite
<1> QED
  BY <1>10, <1>11

\* What a completion with the last event leads to.
LEMMA EndedProgress ==
  ASSUME TypeOK, OrderOK, Live, Issued, AwaitOK, Progress, NEW events, NEW errors,
         DpcTakes(events, errors),
         step = "awaited" => status[active] = "MORE_PROCESSING_REQUIRED",
         Needs # {}, currentErrors \cup errors = {}, Needs \ events = {},
         required' = [required EXCEPT ![active] = {}], Save(events, {}),
         UNCHANGED <<dropped, missed>>,
         NEW s \in {"SUCCESS", "MORE_PROCESSING_REQUIRED"},
         s = "MORE_PROCESSING_REQUIRED" <=> status[active] = "MORE_PROCESSING_REQUIRED",
         CompleteRequest(active, s)
  PROVE  /\ Live' => Progress'
         /\ host' = "done" => Clean' /\ DoneOK'
         /\ host' \notin {"idle", "send_tuning"}
<1>1. /\ cmd = "idle" /\ "CMD" \notin Raised /\ step \in {"none", "awaited", "chained"}
      /\ phase = "command" => status[active] # "MORE_PROCESSING_REQUIRED"
      /\ s = "MORE_PROCESSING_REQUIRED" \/ (phase = "command" /\ IsData(OnBus)) =>
           IsData(OnBus) /\ (OnBus.data = "pio" => remaining > 0)
      /\ s = "MORE_PROCESSING_REQUIRED" \/ (phase = "command" /\ IsData(OnBus)) \/ Complete
      /\ OnBus.data = "dma" => phase = "command"
  BY PhaseOver
<1>2. /\ UNCHANGED <<kind, remaining, rintsts, unmasked, dataUnmasked, isr, cmd, data, left, fifo,
                     busy, active, phase, step, seen, erred, OnBus>>
  BY DpcTaken DEF DpcTakes
<1>3. required'[active] = {} /\ s \in STATUSES /\ ~busyWork /\ active \in Who
  BY DEF TypeOK, OrderOK, Needs, STATUSES
<1>4. phase = "command" \/ phase = "transfer"
  BY DEF TypeOK
<1>5. active = "loc" => OnBus = Tune /\ IsData(OnBus)
  BY DEF OrderOK, Live, OnBus, Tune, IsData
<1>6. CASE /\ s = "SUCCESS" /\ status' = [status EXCEPT ![active] = s] /\ busyWork' = TRUE
           /\ UNCHANGED <<outstanding, localPending, told, host>>
  <2>1. status'[active] = "SUCCESS"
    BY <1>3, <1>6 DEF TypeOK
  <2>2. host \notin {"transfer", "tuning_gap", "start_tuning"} /\ ~LocalDone'
    BY <1>6 DEF Issued, LocalDone, OrderOK
  <2>3. /\ Ready' <=> phase = "command" /\ IsData(OnBus)
        /\ Finished' <=> phase = "transfer" \/ ~IsData(OnBus)
    BY <1>1, <1>2, <1>6, <2>2 DEF Ready, Finished, IsData
  <2>4. Ready' => IsData(OnBus) /\ (OnBus.data = "pio" => remaining > 0)
    BY <1>1, <2>3
  <2>5. Finished' => Complete
    BY <1>1, <1>6, <2>3, <1>4
  <2>6. Ready' \/ Finished'
    BY <2>3, <1>4
  <2>7. Progress'
    BY <2>1, <2>4, <2>5, <2>6, AckProgress
  <2> QED
    BY <1>6, <2>7 DEF Issued
<1>7. CASE /\ ~(s = "SUCCESS" /\ required'[active] = {} /\ MayBeBusy(kind[active]) /\ busy)
           /\ Finish(active, s) /\ UNCHANGED busyWork
  <2>1. s \in Released
    BY DEF Released
  <2>2. outstanding' = "none" /\ status'[active] \in {s, "FAILED"} /\ ~localPending'
    BY <1>3, <1>7, <2>1, FinishHost
  <2>3. CASE host = "waiting"
    <3>1. /\ active = "sdp"
          /\ \/ host' = "failed"
             \/ /\ host' \in {"transfer", "done"} /\ status'[active] = s
                /\ (host' = "transfer" <=>
                      s = "MORE_PROCESSING_REQUIRED" \/ (phase = "command" /\ IsData(OnBus)))
      BY <1>3, <1>7, <2>1, <2>3, FinishHost
    <3>2. CASE host' = "failed"
      BY <3>2 DEF Live
    <3>3. CASE host' = "transfer"
      <4>1. s = "MORE_PROCESSING_REQUIRED" \/ (phase = "command" /\ IsData(OnBus))
        BY <3>1, <3>3
      <4>2. Ready' /\ ~Finished'
        BY <1>3, <1>7, <3>3 DEF Ready, Finished, LocalDone
      <4>3. status'[active] = status[active] \/ phase # "command" \/ status'[active] = "SUCCESS"
        BY <3>1, <3>3
      <4>4. Progress'
        BY <1>1, <4>1, <4>2, <4>3, AckProgress
      <4> QED
        BY <3>3, <4>4
    <3>4. CASE host' = "done"
      <4>1. Complete /\ s = "SUCCESS" /\ ~(phase = "command" /\ IsData(OnBus))
        BY <1>1, <3>1, <3>4
      <4>2. /\ Clean /\ (dropped = {} => ~erred)
            /\ ~erred /\ IsData(OnBus) => data = "over" /\ left = 0 /\ fifo = 0
            /\ IsData(OnBus) => remaining = 0
        BY <1>1, <4>1, OverIsClean DEF Complete, IsData
      <4>3. OnBus.busy \/ OnBus.dir = "write" => ~busy
        BY <1>3, <1>7, <4>1 DEF MayBeBusy, OnBus
      <4>4. Clean'
        BY <1>2, <4>2 DEF Clean, IsPioRead
      <4>5. DoneOK'
        BY <1>2, <4>2, <4>3 DEF DoneOK, IsData
      <4> QED
        BY <3>4, <4>4, <4>5 DEF Live
    <3> QED
      BY <3>1, <3>2, <3>3, <3>4
  <2>4. CASE host # "waiting"
    <3>1. host = "tuning" /\ active = "loc" /\ UNCHANGED host
      BY <1>3, <1>7, <2>4, FinishHost DEF Live
    <3>2. ASSUME Live'
          PROVE  Progress'
      <4>1. status'["loc"] = "SUCCESS" /\ s = "SUCCESS"
        BY <2>2, <3>1, <3>2 DEF Live
      <4>2. /\ Ready' <=> phase = "command"
            /\ Finished' <=> phase = "transfer"
        BY <1>1, <1>2, <1>3, <1>4, <1>7, <2>2, <3>1, <4>1 DEF Ready, Finished, LocalDone
      <4> QED
        BY <1>1, <1>4, <1>5, <3>1, <4>1, <4>2, AckProgress
    <3> QED
      BY <3>1, <3>2
  <2> QED
    BY <2>3, <2>4
<1> QED
  BY <1>6, <1>7 DEF CompleteRequest

LEMMA DpcProgress ==
  ASSUME TypeOK, OrderOK, Live, Issued, AwaitOK, Progress,
         NEW events \in SUBSET EVENTS, NEW errors \in SUBSET ERRORS,
         DpcTakes(events, errors), RequestDpc(active, events, errors), ~overtaken'
  PROVE  /\ Live' => Progress'
         /\ host' = "done" => Clean' /\ DoneOK'
         /\ host' \notin {"idle", "send_tuning"}
<1>1. outstanding = active /\ active \in Who
  BY DEF OrderOK, TypeOK
<1>2. host \notin {"done", "idle", "send_tuning"}
  BY DEF Live
<1>3. CASE /\ events = {} \/ Needs = {}
           /\ UNCHANGED <<accVars, required>> /\ KeepRequest /\ Drop(events, errors)
  <2>1. UNCHANGED <<currentEvents, currentErrors, required, status, host, localPending, busyWork>>
    BY <1>3 DEF accVars, endVars, KeepRequest
  <2> QED
    BY <1>2, <1>3, <2>1, DropProgress
<1>4. CASE /\ Needs # {} /\ CompleteRequest(active, "FAILED")
  <2>1. Finish(active, "FAILED")
    BY <1>4 DEF CompleteRequest
  <2>2. status'[active] = "FAILED" /\ ~localPending'
        /\ (host' = "failed" \/ (active = "loc" /\ UNCHANGED host /\ host # "waiting"))
    BY <2>1, FinishHost DEF STATUSES, Released
  <2>3. ~Live' /\ host' \notin {"done", "idle", "send_tuning"}
    BY <1>2, <2>2 DEF Live, Issued
  <2> QED
    BY <2>3
<1>5. CASE /\ Needs # {} /\ UNCHANGED <<dropped, missed>>
           /\ currentErrors \cup errors # {} \/ Needs \ events # {}
           /\ currentErrors \cup errors # {} => MustWait(events, currentErrors \cup errors)
           /\ required' = [required EXCEPT ![active] = Needs \ events]
           /\ Save(events, currentErrors \cup errors)
           /\ KeepRequest
  <2>1. UNCHANGED <<status, host, localPending, busyWork>>
    BY <1>5 DEF KeepRequest, endVars
  <2> QED
    BY <1>2, <1>5, <2>1, KeepProgress
<1>6. CASE /\ Needs # {} /\ UNCHANGED <<dropped, missed>>
           /\ currentErrors \cup errors = {} /\ Needs \ events = {}
           /\ required' = [required EXCEPT ![active] = {}]
           /\ Save(events, {})
           /\ \E s \in {"SUCCESS", "MORE_PROCESSING_REQUIRED"} :
                /\ s = "MORE_PROCESSING_REQUIRED" <=> status[active] = "MORE_PROCESSING_REQUIRED"
                /\ CompleteRequest(active, s) /\ Overtake(s)
  <2>1. step = "awaited" => status[active] = "MORE_PROCESSING_REQUIRED"
    BY <1>6 DEF Overtake
  <2> QED
    BY <1>6, <2>1, EndedProgress
<1> QED
  BY <1>1, <1>3, <1>4, <1>5, <1>6, DpcOutcome

-----------------------------------------------------------------------------
(* Progress: the work item and the transfers.                              *)

\* A request that is over is completed, and so is one whose data may move.
LEMMA SameProgress ==
  ASSUME Progress, Needs = {},
         UNCHANGED <<kind, required, remaining, currentEvents, currentErrors, rintsts,
                     dataUnmasked, isr, sdpEvents, sdpErrors, cmd, data, left, fifo, active, phase,
                     step, seen, erred, dropped, missed>>,
         step # "moved", Ready' => Ready, Finished' <=> Finished
  PROVE  Progress'
<1>1. /\ ErrorsOK /\ ResponseOK /\ EndOK /\ CaughtOK /\ DataOK /\ BeginOK
      /\ Finished => Complete
  BY DEF Progress
<1>2. /\ UNCHANGED <<OnBus, Needs, Passing, PassingErrors, Handed, Raised>>
      /\ (Stopped' <=> Stopped)
  BY DEF OnBus, Needs, Passing, PassingErrors, Handed, Raised, Stopped
<1> USE <1>1, <1>2
<1>3. ErrorsOK'
  BY DEF ErrorsOK, IsPioRead
<1>4. ResponseOK'
  BY DEF ResponseOK, IsPioRead
<1>5. EndOK'
  BY DEF EndOK, IsData
<1>6. DataOK'
  BY DEF DataOK, ReadOK, WriteOK, IsPioRead, IsPioWrite
<1>7. CaughtOK' /\ BeginOK'
  BY DEF CaughtOK, BeginOK
<1>8. Finished' => Complete' /\ Needs' = {}
  BY DEF Complete, Over, IsData
<1> QED
  BY <1>3, <1>4, <1>5, <1>6, <1>7, <1>8 DEF Progress

LEMMA BusyWorkerProgress ==
  ASSUME TypeOK, OrderOK, Live, AwaitOK, Progress, BusyWorker
  PROVE  /\ Live' => Progress'
         /\ host' = "done" => Clean' /\ DoneOK'
         /\ host' \notin {"idle", "send_tuning"}
<1>1. /\ Issued /\ outstanding = active /\ Needs = {} /\ active \in Who
      /\ step \in {"none", "awaited", "chained"}
  BY DEF BusyWorker, OrderOK, Needs, TypeOK
<1>2. /\ UNCHANGED <<kind, required, remaining, currentEvents, currentErrors, rintsts, unmasked,
                     dataUnmasked, isr, sdpEvents, sdpErrors, localDpc, cmd, data, left, fifo,
                     busy, active, phase, step, seen, erred, dropped, missed>>
      /\ busyWork /\ ~busyWork'
  BY DEF BusyWorker, accVars, intVars, dpcVars, hwVars, errVars
<1>3. UNCHANGED OnBus
  BY <1>2 DEF OnBus
<1>4. \E w \in Who : outstanding = w /\ (\/ ~busy /\ Finish(w, "SUCCESS")
                                         \/ busy /\ Finish(w, "FAILED"))
  BY DEF BusyWorker
<1>5. CASE Finish(active, "FAILED")
  <2>1. status'[active] = "FAILED" /\ ~localPending'
        /\ (host' = "failed" \/ (active = "loc" /\ UNCHANGED host /\ host # "waiting"))
    BY <1>1, <1>5, FinishHost DEF STATUSES, Released
  <2> QED
    BY <1>1, <2>1 DEF Live, Issued
<1>6. CASE ~busy /\ Finish(active, "SUCCESS")
  <2>1. /\ status'[active] \in {"SUCCESS", "FAILED"} /\ ~localPending'
        /\ \/ /\ host = "waiting" /\ active = "sdp"
              /\ \/ host' = "failed"
                 \/ host' \in {"transfer", "done"} /\ status'[active] = "SUCCESS"
                    /\ (host' = "transfer" <=> (phase = "command" /\ IsData(OnBus)))
           \/ host = "tuning" /\ active = "loc" /\ UNCHANGED host
    BY <1>1, <1>6, FinishHost DEF STATUSES, Released, Live
  <2>2. (Ready <=> phase = "command" /\ IsData(OnBus))
        /\ (Finished <=> phase = "transfer" \/ ~IsData(OnBus))
    BY <1>1, <1>2 DEF Ready, Finished, Issued, LocalDone, OrderOK
  <2>3. CASE host' = "failed"
    BY <2>3 DEF Live
  <2>4. CASE host' = "transfer"
    <3>1. Ready /\ ~Finished /\ ~Finished'
      BY <1>2, <2>1, <2>2, <2>4 DEF Finished, LocalDone
    <3> QED
      BY <1>1, <1>2, <2>4, <3>1, SameProgress
  <2>5. CASE host' = "done"
    <3>1. Finished
      BY <2>1, <2>2, <2>5 DEF TypeOK, Live
    <3>2. Complete
      BY <3>1 DEF Progress
    <3>3. "CMD" \notin Raised
      BY <1>1 DEF Progress, ResponseOK
    <3>4. /\ Clean /\ (dropped = {} => ~erred)
          /\ ~erred /\ IsData(OnBus) => data = "over" /\ left = 0 /\ fifo = 0
          /\ IsData(OnBus) => remaining = 0
      BY <3>2, <3>3, OverIsClean DEF Complete, IsData
    <3>5. Clean'
      BY <1>2, <1>3, <3>4 DEF Clean, IsPioRead
    <3>6. DoneOK'
      BY <1>2, <1>3, <1>6, <3>4 DEF DoneOK, IsData
    <3> QED
      BY <2>5, <3>5, <3>6 DEF Live
  <2>6. CASE host = "tuning" /\ active = "loc" /\ UNCHANGED host
    <3>1. OnBus = Tune /\ IsData(OnBus)
      BY <2>6 DEF OrderOK, OnBus, Tune, IsData
    <3>2. Live' => (Ready' => Ready) /\ (Finished' <=> Finished)
      BY <1>1, <1>2, <1>3, <2>1, <2>2, <2>6, <3>1 DEF Ready, Finished, LocalDone, IsData, Live
    <3> QED
      BY <1>1, <1>2, <2>1, <2>6, <3>2, SameProgress
  <2> QED
    BY <2>1, <2>3, <2>4, <2>5, <2>6
<1> QED
  BY <1>1, <1>4, <1>5, <1>6

\* The end of a transfer whose data end has been seen.
LEMMA LastProgress ==
  ASSUME TypeOK, OrderOK, Live, Issued, AwaitOK, Progress, CompleteRequest(active, "SUCCESS"),
         ~busyWork, phase = "transfer", IsData(OnBus), Over, remaining' = 0,
         OnBus.data = "pio" => remaining = 0,
         Needs = {}, erred => dropped' # {}, dropped \subseteq dropped', step' = "none",
         UNCHANGED <<kind, required, currentEvents, currentErrors, rintsts, unmasked,
                     dataUnmasked, isr, sdpEvents, sdpErrors, localDpc, cmd, data, left, fifo,
                     busy, active, phase, erred>>,
         seen' \subseteq seen
  PROVE  /\ Live' => Progress'
         /\ host' = "done" => Clean' /\ DoneOK'
         /\ host' \notin {"idle", "send_tuning"}
<1>1. ErrorsOK /\ ResponseOK /\ EndOK /\ CaughtOK /\ DataOK /\ BeginOK
  BY DEF Progress
<1>2. /\ UNCHANGED <<OnBus, Needs, Passing, PassingErrors, Handed, Raised>>
      /\ (Stopped' <=> Stopped) /\ (Over' <=> Over)
  BY DEF OnBus, Needs, Passing, PassingErrors, Handed, Raised, Stopped, Over
<1>3. "CMD" \notin Raised
  BY <1>1 DEF ResponseOK
<1>4. /\ Clean /\ (~erred => data = "over" /\ left = 0 /\ fifo = 0)
  BY <1>3, OverIsClean
<1>5. Complete'
  BY <1>2 DEF Complete, Over
<1>6. \/ host' = host /\ (busyWork' \/ host = "tuning")
      \/ host = "waiting" /\ (host' = "failed" \/ (host' = "done" /\ status'[active] = "SUCCESS"))
  <2>1. "SUCCESS" \in STATUSES /\ active \in Who
    BY DEF STATUSES, TypeOK
  <2>2. CASE busyWork' /\ UNCHANGED host
    BY <2>2
  <2>3. CASE Finish(active, "SUCCESS")
    <3>1. \/ /\ host = "waiting"
             /\ \/ host' = "failed"
                \/ host' \in {"transfer", "done"} /\ status'[active] = "SUCCESS"
                   /\ (host' = "transfer" <=> (phase = "command" /\ IsData(OnBus)))
          \/ host \in {"stop", "tuning"} /\ UNCHANGED host
      BY <2>1, <2>3, FinishHost
    <3> QED
      BY <3>1 DEF Live
  <2> QED
    BY <2>2, <2>3 DEF CompleteRequest
<1>7. host' = "done" => (OnBus.busy \/ OnBus.dir = "write" => ~busy)
  <2>1. host # "done"
    BY DEF Live
  <2> QED
    BY <2>1, <1>2 DEF CompleteRequest, MayBeBusy, OnBus, Needs
<1>8. ~Ready'
  BY <1>6, <1>2 DEF Ready, LocalDone, Live, Issued
<1> USE <1>1, <1>2
<1>9. ErrorsOK'
  BY DEF ErrorsOK, IsPioRead
<1>10. ResponseOK'
  BY DEF ResponseOK, IsPioRead, OnItsWay
<1>11. EndOK'
  BY DEF EndOK, IsData
<1>12. DataOK'
  <2>1. CASE IsPioRead(OnBus)
    <3>1. ReadOK /\ remaining = 0
      BY <2>1 DEF DataOK, IsPioRead
    <3>2. ReadOK'
      BY <3>1 DEF ReadOK, OnItsWay
    <3> QED
      BY <2>1, <3>2 DEF DataOK, IsPioRead, IsPioWrite
  <2>2. CASE IsPioWrite(OnBus)
    <3>1. WriteOK /\ remaining = 0
      BY <2>2 DEF DataOK, IsPioWrite
    <3>2. WriteOK'
      BY <3>1 DEF WriteOK
    <3> QED
      BY <2>2, <3>2 DEF DataOK, IsPioRead, IsPioWrite
  <2> QED
    BY <2>1, <2>2 DEF DataOK, IsPioRead, IsPioWrite
<1>13. BeginOK' /\ (Live' => CaughtOK')
  <2>1. BeginOK'
    BY <1>8 DEF BeginOK, Over
  <2>2. Live' => Finished'
    BY <1>6 DEF Live, Finished, LocalDone, Issued, CompleteRequest, Finish
  <2> QED
    BY <2>1, <2>2 DEF CaughtOK
<1>14. Live' => Progress'
  BY <1>5, <1>9, <1>10, <1>11, <1>12, <1>13 DEF Progress
<1>15. Clean'
  BY <1>4 DEF Clean, IsPioRead
<1>16. host' = "done" => DoneOK'
  <2>1. /\ dropped' = {} => ~erred'
        /\ ~erred' => data' = "over" /\ left' = 0 /\ remaining' = 0 /\ fifo' = 0
    BY <1>4
  <2> QED
    BY <1>7, <2>1 DEF DoneOK
<1>17. host' \notin {"idle", "send_tuning"}
  BY <1>6 DEF Live
<1> QED
  BY <1>14, <1>15, <1>16, <1>17

\* Once the end of the data has been seen, an error is in the driver's hands.
LEMMA ErrorInHand ==
  ASSUME TypeOK, Progress, Needs = {}, Over, IsData(OnBus), erred,
         OnBus.data = "dma" \/ "CARD_RW_END" \in seen
  PROVE  dropped # {} \/ currentErrors # {}
<1>1. ErrorsOK /\ ResponseOK /\ EndOK
  BY DEF Progress
<1>2. "CMD" \notin Raised /\ "CARD_RESPONSE" \notin Passing /\ "CARD_RW_END" \notin Passing
  BY <1>1 DEF ResponseOK, EndOK
<1>3. "RTO" \notin Raised /\ "CMD_TIMEOUT" \notin PassingErrors
  BY <1>1, <1>2 DEF ResponseOK, Over, Raised
<1>4. "DRTO" \notin Raised /\ "DCRC" \notin Raised
  BY <1>1 DEF EndOK, Over, Raised
<1>5. "DATA_TIMEOUT" \notin PassingErrors /\ "DATA_CRC_ERROR" \notin PassingErrors
  BY <1>1, <1>2 DEF EndOK, Over
<1>6. PassingErrors = {}
  BY <1>3, <1>5 DEF PassingErrors, TypeOK, ERRORS
<1> QED
  BY <1>1, <1>3, <1>4, <1>6 DEF ErrorsOK, HasError

LEMMA StartDmaProgress ==
  ASSUME TypeOK, OrderOK, Live, AwaitOK, Progress, StartDmaTransfer
  PROVE  /\ Live' => Progress'
         /\ host' = "done" => Clean' /\ DoneOK'
         /\ host' \notin {"idle", "send_tuning"}
<1>1. ErrorsOK /\ ResponseOK /\ EndOK /\ BeginOK
  BY DEF Progress
<1>2. /\ step = "start" /\ OnBus.data = "dma" /\ step' = "none" /\ remaining' = 0
      /\ CompleteRequest(active, "SUCCESS")
      /\ UNCHANGED <<kind, required, currentEvents, currentErrors, rintsts, unmasked,
                     dataUnmasked, isr, sdpEvents, sdpErrors, localDpc, cmd, data, left, fifo,
                     busy, active, phase, seen, erred, dropped>>
  BY DEF StartDmaTransfer, accVars, intVars, dpcVars, hwVars, errVars
<1>3. Ready /\ Issued /\ ~busyWork /\ Needs = {} /\ phase = "transfer"
  BY <1>1, <1>2 DEF Ready, OrderOK, Needs, AwaitOK, TypeOK
<1>4. IsData(OnBus) /\ currentErrors = {}
  BY <1>1, <1>2, <1>3 DEF AwaitOK, BeginOK
<1>5. Over
  BY <1>1, <1>2, <1>3 DEF EndOK, BeginOK, Over
<1>6. erred => dropped' # {}
  BY <1>2, <1>3, <1>4, <1>5, ErrorInHand
<1> QED
  BY <1>2, <1>3, <1>4, <1>5, <1>6, LastProgress

LEMMA PioMoveProgress ==
  ASSUME TypeOK, OrderOK, Live, AwaitOK, Progress, PioMove
  PROVE  /\ Progress' /\ UNCHANGED host
<1>1. ErrorsOK /\ ResponseOK /\ EndOK /\ CaughtOK /\ DataOK /\ BeginOK
  BY DEF Progress
<1>2. /\ UNCHANGED <<kind, required, status, currentErrors, unmasked, dataUnmasked, isr,
                     sdpEvents, sdpErrors, localDpc, cmd, data, left, busy, outstanding,
                     localPending, busyWork, told, host, active, phase, erred, dropped, missed>>
      /\ step = "start" /\ OnBus.data = "pio" /\ step' = "moved"
      /\ seen' = currentEvents /\ currentEvents' = {}
      /\ fifo' = (IF OnBus.dir = "write" THEN fifo + 1 ELSE IF fifo > 0 THEN fifo - 1 ELSE 0)
      /\ rintsts' = rintsts \ DATA_REQUESTS
      /\ remaining' = remaining - 1
  BY DEF PioMove, PioQuiet, dpcVars, endVars
<1>3. Ready /\ Issued /\ ~busyWork /\ Needs = {} /\ phase = "transfer" /\ seen = {}
  BY <1>1, <1>2 DEF Ready, OrderOK, Needs, AwaitOK, TypeOK
<1>4. /\ UNCHANGED <<OnBus, Needs, Passing, PassingErrors>>
      /\ Handed' = Passing /\ (Stopped' <=> Stopped)
  BY <1>2 DEF OnBus, Needs, Passing, PassingErrors, Handed, Stopped
<1>5. /\ "RXDR" \notin rintsts' /\ "TXDR" \notin rintsts'
      /\ \A b : b \notin DATA_REQUESTS => (b \in rintsts' <=> b \in rintsts)
      /\ \A b : b \notin DATA_REQUESTS => (b \in Raised' <=> b \in Raised)
      /\ \A b : b \in Raised' => b \in Raised
  BY <1>2 DEF DATA_REQUESTS, Raised
<1>6. /\ "CMD" \notin DATA_REQUESTS /\ "DTO" \notin DATA_REQUESTS /\ "RTO" \notin DATA_REQUESTS
      /\ "DRTO" \notin DATA_REQUESTS /\ "DCRC" \notin DATA_REQUESTS
  BY DEF DATA_REQUESTS
<1>7. ~Ready' /\ ~Finished'
  BY <1>2, <1>3 DEF Ready, Finished, LocalDone, Issued
<1>8. Handed = Passing \cup currentEvents
  BY DEF Handed
<1> USE <1>1, <1>2, <1>3, <1>4, <1>5, <1>6
<1>9. IsPioRead(OnBus) /\ fifo = 0 => fifo' = 0
  BY DEF IsPioRead
<1>10. ErrorsOK'
  BY <1>8, <1>9 DEF ErrorsOK, HasError
<1>11. ResponseOK'
  BY <1>8 DEF ResponseOK, IsPioRead
<1>12. EndOK'
  BY <1>8 DEF EndOK, IsData
<1>13. DataOK'
  <2>1. left \in Nat /\ fifo \in Nat /\ remaining \in Nat /\ erred \in BOOLEAN /\ remaining > 0
    BY DEF TypeOK, AwaitOK
  <2>2. CASE IsPioRead(OnBus)
    <3>1. ReadOK
      BY <2>2 DEF DataOK
    <3>2. fifo' = IF fifo > 0 THEN fifo - 1 ELSE 0
      BY <2>2 DEF IsPioRead
    <3>3. remaining = left + fifo \/ (erred /\ Stopped /\ fifo = 0)
      BY <3>1 DEF ReadOK
    <3>4. fifo > 0 \/ (erred /\ Stopped)
      BY <2>1, <3>1 DEF ReadOK
    <3>5. remaining' = left' + fifo' \/ (erred' /\ Stopped' /\ fifo' = 0)
      BY <2>1, <3>2, <3>3, <3>4
    <3>6. ReadOK'
      BY <3>1, <3>5, <1>8 DEF ReadOK
    <3> QED
      BY <2>2, <3>6, <1>8 DEF DataOK, IsPioRead, IsPioWrite
  <2>3. CASE IsPioWrite(OnBus)
    <3>1. WriteOK
      BY <2>3 DEF DataOK
    <3>2. fifo' = fifo + 1
      BY <2>3 DEF IsPioWrite
    <3>3. remaining' + fifo' = left'
      BY <2>1, <3>1, <3>2 DEF WriteOK
    <3>4. WriteOK'
      BY <3>3 DEF WriteOK
    <3> QED
      BY <2>3, <3>4, <1>8 DEF DataOK, IsPioRead, IsPioWrite
  <2> QED
    BY <2>2, <2>3, <1>8 DEF DataOK, IsPioRead, IsPioWrite
<1>14. CaughtOK' /\ BeginOK'
  <2>1. BeginOK'
    BY <1>7 DEF BeginOK
  <2>2. ~Finished
    BY <1>2, <1>3 DEF Finished, LocalDone, Issued, OrderOK
  <2>3. "CARD_RW_END" \in Handed => "CARD_RW_END" \in Handed' \cup seen'
    BY <1>2, <1>4, <1>8
  <2>4. CaughtOK'
    BY <1>2, <1>3, <1>4, <1>5, <1>6, <2>2, <2>3 DEF CaughtOK
  <2> QED
    BY <2>1, <2>4
<1> QED
  BY <1>7, <1>10, <1>11, <1>12, <1>13, <1>14 DEF Progress

\* Of a chunk of the transfer nothing changes but what is awaited and unmasked.
LEMMA ChunkFrame ==
  ASSUME TypeOK, Progress,
         UNCHANGED <<kind, remaining, currentEvents, currentErrors, rintsts, unmasked, isr,
                     sdpEvents, sdpErrors, localDpc, cmd, data, left, fifo, busy, localPending,
                     busyWork, host, active, phase, erred, dropped>>,
         "CARD_RESPONSE" \in Needs' <=> "CARD_RESPONSE" \in Needs,
         OnBus.data = "pio", step # "none", seen' \subseteq seen
  PROVE  /\ UNCHANGED <<OnBus, Passing, PassingErrors, Handed, Raised>>
         /\ (Stopped' <=> Stopped) /\ UNCHANGED BufferEvent(OnBus)
         /\ \A e : OnItsWay(e)' <=> OnItsWay(e)
         /\ ErrorsOK' /\ ResponseOK' /\ EndOK'
<1>1. ErrorsOK /\ ResponseOK /\ EndOK
  BY DEF Progress
<1>2. /\ UNCHANGED <<OnBus, Passing, PassingErrors, Handed, Raised>>
      /\ (Stopped' <=> Stopped)
  BY DEF OnBus, Passing, PassingErrors, Handed, Raised, Stopped
<1>3. \A e : OnItsWay(e)' <=> OnItsWay(e)
  BY <1>2 DEF OnItsWay
<1>4. UNCHANGED BufferEvent(OnBus)
  BY <1>2
<1>5. ErrorsOK'
  BY <1>1, <1>2 DEF ErrorsOK, IsPioRead
<1>6. ResponseOK'
  BY <1>1, <1>2, <1>3 DEF ResponseOK, IsPioRead
<1>7. EndOK'
  BY <1>1, <1>2 DEF EndOK, IsData
<1> QED
  BY <1>2, <1>3, <1>4, <1>5, <1>6, <1>7

LEMMA PioMoreProgress ==
  ASSUME TypeOK, OrderOK, Live, AwaitOK, Progress, PioMore
  PROVE  Progress' /\ UNCHANGED host
<1>1. /\ UNCHANGED <<kind, remaining, currentEvents, currentErrors, rintsts, unmasked,
                     dataUnmasked, isr, sdpEvents, sdpErrors, localDpc, cmd, data, left, fifo,
                     busy, localPending, busyWork, host, active, phase, status, erred>>
      /\ step = "moved" /\ step' = "awaited" /\ seen' = {} /\ remaining > 0
      /\ Await(BufferEvent(OnBus)) /\ Drop(seen, {})
  BY DEF PioMore, PioStep, PioQuiet, dpcVars, endVars
<1>2. /\ Issued /\ ~busyWork /\ Needs = {} /\ phase = "transfer" /\ active \in Who
      /\ OnBus.data = "pio"
  BY <1>1 DEF OrderOK, Needs, AwaitOK, TypeOK
<1>3. Needs' = {BufferEvent(OnBus)}
  BY <1>1, <1>2 DEF Await, Needs, TypeOK
<1>4. "CARD_RESPONSE" \notin Needs' /\ "CARD_RW_END" \notin Needs'
  BY <1>3 DEF BufferEvent
<1>5. /\ UNCHANGED dropped
      /\ ~missed' => ~missed /\ "CARD_RW_END" \notin seen
  BY <1>1 DEF Drop
<1>6. /\ UNCHANGED <<OnBus, Passing, PassingErrors, Handed, Raised>>
      /\ (Stopped' <=> Stopped) /\ UNCHANGED BufferEvent(OnBus)
      /\ \A e : OnItsWay(e)' <=> OnItsWay(e)
      /\ ErrorsOK' /\ ResponseOK' /\ EndOK'
  <2>1. "CARD_RESPONSE" \in Needs' <=> "CARD_RESPONSE" \in Needs
    BY <1>2, <1>4
  <2> QED
    BY <1>1, <1>2, <1>5, <2>1, ChunkFrame
<1>7. ~Ready' /\ ~Finished /\ ~Finished'
  BY <1>1, <1>2 DEF Ready, Finished, LocalDone, Issued, OrderOK
<1>8. CaughtOK /\ DataOK /\ BeginOK
  BY DEF Progress
<1>9. DataOK'
  <2>1. CASE IsPioRead(OnBus)
    <3>1. ReadOK /\ BufferEvent(OnBus) = "BUFFER_FULL"
      BY <1>8, <2>1 DEF DataOK, BufferEvent, IsPioRead
    <3>2. ReadOK'
      BY <1>1, <1>2, <1>3, <1>4, <1>6, <3>1 DEF ReadOK
    <3> QED
      BY <1>1, <1>2, <1>6, <1>8, <2>1, <3>2 DEF DataOK, IsPioRead, IsPioWrite
  <2>2. CASE IsPioWrite(OnBus)
    <3>1. WriteOK /\ BufferEvent(OnBus) = "BUFFER_EMPTY"
      BY <1>8, <2>2 DEF DataOK, BufferEvent, IsPioWrite
    <3>2. WriteOK'
      BY <1>1, <1>2, <1>3, <1>6, <3>1 DEF WriteOK
    <3> QED
      BY <1>1, <1>2, <1>6, <1>8, <2>2, <3>2 DEF DataOK, IsPioRead, IsPioWrite
  <2> QED
    BY <1>1, <1>2, <1>6, <1>8, <2>1, <2>2 DEF DataOK, IsPioRead, IsPioWrite
<1>10. CaughtOK'
  BY <1>1, <1>2, <1>4, <1>5, <1>6, <1>7, <1>8 DEF CaughtOK
<1>11. BeginOK'
  BY <1>1, <1>7, <1>8 DEF BeginOK
<1> QED
  BY <1>1, <1>6, <1>7, <1>9, <1>10, <1>11 DEF Progress

\* The DPC may have told sdport already that there is more to come.
LEMMA PioAgainProgress ==
  ASSUME TypeOK, OrderOK, Live, AwaitOK, Progress, PioAgain \/ PioRearm
  PROVE  (Live' => Progress') /\ UNCHANGED host
<1>1. /\ UNCHANGED <<kind, required, remaining, currentEvents, currentErrors, rintsts, unmasked,
                     isr, sdpEvents, sdpErrors, localDpc, cmd, data, left, fifo, busy,
                     localPending, busyWork, host, active, phase, erred, dropped, missed, seen>>
      /\ \/ step = "awaited" /\ step' = "chained" /\ UNCHANGED dataUnmasked
            /\ status' = [status EXCEPT ![active] = "MORE_PROCESSING_REQUIRED"]
         \/ step = "chained" /\ step' = "none" /\ dataUnmasked' = TRUE /\ UNCHANGED status
  BY DEF PioAgain, PioRearm, Rearmed, PioStep, PioQuiet, dpcVars, endVars
<1>2. /\ OnBus.data = "pio" /\ remaining > 0 /\ Needs \subseteq {BufferEvent(OnBus)}
      /\ phase = "transfer" /\ active \in Who /\ UNCHANGED Needs
  BY <1>1, StepNeeds DEF Needs, AwaitOK, TypeOK
<1>3. /\ UNCHANGED <<OnBus, Passing, PassingErrors, Handed, Raised>>
      /\ (Stopped' <=> Stopped) /\ UNCHANGED BufferEvent(OnBus)
      /\ \A e : OnItsWay(e)' <=> OnItsWay(e)
      /\ ErrorsOK' /\ ResponseOK' /\ EndOK'
  BY <1>1, <1>2, ChunkFrame
<1>4. CaughtOK /\ DataOK /\ BeginOK /\ (Finished => Complete /\ Needs = {})
  BY DEF Progress
<1>5. Live' => (Finished' <=> Finished)
  <2>1. active = "sdp" => UNCHANGED status["loc"]
    BY <1>1 DEF TypeOK, Who
  <2>2. active = "loc" /\ step = "awaited" => status'["loc"] # "SUCCESS"
    BY <1>1 DEF TypeOK
  <2>3. host = "tuning" => active = "loc"
    BY DEF OrderOK
  <2>4. IsData(OnBus)
    BY <1>2 DEF IsData
  <2> QED
    BY <1>1, <1>2, <1>3, <2>2, <2>3, <2>4 DEF Finished, LocalDone, Live
<1>6. DataOK'
  <2>1. CASE IsPioRead(OnBus)
    <3>1. ReadOK
      BY <1>4, <2>1 DEF DataOK
    <3>2. /\ step' = "none" /\ "BUFFER_FULL" \notin Needs => Stopped
      BY <1>1, <3>1 DEF ReadOK
    <3>3. ReadOK'
      BY <1>1, <1>2, <1>3, <3>1, <3>2 DEF ReadOK
    <3> QED
      BY <1>1, <1>2, <1>3, <1>4, <2>1, <3>3 DEF DataOK, IsPioRead, IsPioWrite
  <2>2. CASE IsPioWrite(OnBus)
    <3>1. WriteOK
      BY <1>4, <2>2 DEF DataOK
    <3>2. WriteOK'
      BY <1>1, <1>2, <1>3, <3>1 DEF WriteOK
    <3> QED
      BY <1>1, <1>2, <1>3, <1>4, <2>2, <3>2 DEF DataOK, IsPioRead, IsPioWrite
  <2> QED
    BY <1>1, <1>2, <1>3, <1>4, <2>1, <2>2 DEF DataOK, IsPioRead, IsPioWrite
<1>7. Live' => CaughtOK'
  BY <1>1, <1>2, <1>3, <1>4, <1>5 DEF CaughtOK
<1>8. BeginOK'
  BY <1>1, <1>2, <1>3, <1>4 DEF BeginOK
<1>9. Live' => (Finished' => Complete' /\ Needs' = {})
  BY <1>1, <1>2, <1>3, <1>4, <1>5 DEF Complete, Over, IsData
<1> QED
  BY <1>1, <1>3, <1>6, <1>7, <1>8, <1>9 DEF Progress

LEMMA PioLastProgress ==
  ASSUME TypeOK, OrderOK, Live, AwaitOK, Progress, PioLast
  PROVE  /\ Live' => Progress'
         /\ host' = "done" => Clean' /\ DoneOK'
         /\ host' \notin {"idle", "send_tuning"}
<1>1. ErrorsOK /\ ResponseOK /\ EndOK /\ CaughtOK /\ DataOK /\ BeginOK
  BY DEF Progress
<1>2. /\ UNCHANGED <<kind, remaining, currentEvents, currentErrors, rintsts, unmasked,
                     dataUnmasked, isr, sdpEvents, sdpErrors, localDpc, cmd, data, left, fifo,
                     busy, active, phase, erred>>
      /\ step = "moved" /\ step' = "none" /\ seen' = {} /\ remaining = 0
  BY DEF PioLast, PioStep, PioQuiet, dpcVars
<1>3. /\ Issued /\ ~busyWork /\ Needs = {} /\ phase = "transfer" /\ active \in Who
      /\ OnBus.data = "pio"
  BY <1>1, <1>2 DEF OrderOK, Needs, AwaitOK, TypeOK
<1>4. IsData(OnBus) /\ cmd = "idle" /\ host \in {"waiting", "tuning"}
      /\ (host = "tuning" => localPending)
  BY <1>1, <1>3 DEF BeginOK, Live, Issued, IsData
<1>5. CASE /\ "CARD_RW_END" \in seen /\ UNCHANGED required
           /\ Drop({}, currentErrors) /\ CompleteRequest(active, "SUCCESS")
  <2>1. Over
    BY <1>1, <1>5 DEF EndOK, Over
  <2>2. erred => dropped' # {}
    BY <1>3, <1>4, <1>5, <2>1, ErrorInHand DEF Drop
  <2>3. dropped \subseteq dropped' /\ seen' \subseteq seen
    BY <1>2, <1>5 DEF Drop
  <2> QED
    BY <1>2, <1>3, <1>4, <1>5, <2>1, <2>2, <2>3, LastProgress
<1>6. CASE /\ "CARD_RW_END" \notin seen /\ UNCHANGED <<dropped, missed>> /\ Await("CARD_RW_END")
           /\ UNCHANGED <<endVars, host>>
  <2>1. Needs' = {"CARD_RW_END"}
    BY <1>2, <1>3, <1>6 DEF Await, Needs, TypeOK
  <2>2. UNCHANGED <<localPending, busyWork, host, dropped, missed>>
    BY <1>6 DEF endVars
  <2>3. "CARD_RESPONSE" \in Needs' <=> "CARD_RESPONSE" \in Needs
    BY <1>3, <2>1
  <2>4. /\ UNCHANGED <<OnBus, Passing, PassingErrors, Handed, Raised>>
        /\ (Stopped' <=> Stopped)
        /\ \A e : OnItsWay(e)' <=> OnItsWay(e)
        /\ ErrorsOK' /\ ResponseOK' /\ EndOK'
    BY <1>2, <1>3, <2>2, <2>3, ChunkFrame
  <2>5. ~Ready' /\ ~Finished /\ ~Finished'
    BY <1>2, <1>3, <1>4, <2>2 DEF Ready, Finished, LocalDone
  <2>6. DataOK'
    <3>1. CASE IsPioRead(OnBus)
      <4>1. ReadOK
        BY <1>1, <3>1 DEF DataOK
      <4>2. ReadOK'
        BY <1>2, <1>3, <2>1, <2>4, <4>1 DEF ReadOK
      <4> QED
        BY <1>1, <1>2, <1>3, <2>4, <3>1, <4>2 DEF DataOK, IsPioRead, IsPioWrite
    <3>2. CASE IsPioWrite(OnBus)
      <4>1. WriteOK
        BY <1>1, <3>2 DEF DataOK
      <4>2. WriteOK'
        BY <1>2, <2>1, <2>4, <4>1 DEF WriteOK
      <4> QED
        BY <1>1, <1>2, <1>3, <2>4, <3>2, <4>2 DEF DataOK, IsPioRead, IsPioWrite
    <3> QED
      BY <1>1, <1>2, <1>3, <2>4, <3>1, <3>2 DEF DataOK, IsPioRead, IsPioWrite
  <2>7. CaughtOK'
    <3>1. "CARD_RW_END" \in Handed /\ ~erred /\ ~missed => OnItsWay("CARD_RW_END")
      BY <1>1, <1>2 DEF CaughtOK, Handed, OnItsWay
    <3> QED
      BY <1>1, <1>2, <1>3, <1>4, <1>6, <2>1, <2>2, <2>4, <2>5, <3>1 DEF CaughtOK
  <2>8. BeginOK'
    BY <1>1, <1>2, <2>5 DEF BeginOK
  <2>9. Progress'
    BY <2>4, <2>5, <2>6, <2>7, <2>8 DEF Progress
  <2> QED
    BY <1>4, <2>2, <2>9
<1> QED
  BY <1>5, <1>6 DEF PioLast

-----------------------------------------------------------------------------
(* Progress: a request is issued.                                          *)

LEMMA RequiredOf ==
  ASSUME NEW k
  PROVE  /\ "CARD_RESPONSE" \in RequiredFor(k)
         /\ "CARD_RW_END" \in RequiredFor(k) <=> k.data = "dma"
         /\ "BUFFER_FULL" \in RequiredFor(k) <=> k.data = "pio" /\ k.dir = "read"
         /\ "BUFFER_EMPTY" \in RequiredFor(k) <=> k.data = "pio" /\ k.dir # "read"
<1>1. CASE k.data = "dma"
  <2>1. RequiredFor(k) = {"CARD_RESPONSE"} \cup {"CARD_RW_END"}
    BY <1>1 DEF RequiredFor
  <2> QED
    BY <1>1, <2>1
<1>2. CASE k.data = "pio"
  <2>1. RequiredFor(k) = {"CARD_RESPONSE"} \cup {BufferEvent(k)}
    BY <1>2 DEF RequiredFor
  <2> QED
    BY <1>2, <2>1 DEF BufferEvent
<1>3. CASE k.data # "dma" /\ k.data # "pio"
  <2>1. RequiredFor(k) = {"CARD_RESPONSE"} \cup {}
    BY <1>3 DEF RequiredFor
  <2> QED
    BY <1>3, <2>1
<1> QED
  BY <1>1, <1>2, <1>3

LEMMA SendProgress ==
  ASSUME TypeOK, OrderOK, Clean, isr = {}, sdpEvents = {}, step = "none", ~busyWork,
         NEW w \in Who, NEW k \in Kinds \cup {Stop, Tune},
         NEW initial \in {"NOT_SET", "SUCCESS"}, SendCommand(w, k, initial),
         host' \in {"waiting", "tuning"}, host' = "tuning" => localPending'
  PROVE  Progress'
<1>1. /\ Needs' = RequiredFor(k) /\ OnBus' = k /\ status'[active'] = initial
      /\ remaining' = BuildTransfer(k) /\ currentEvents' = {} /\ currentErrors' = {}
      /\ dataUnmasked' = (dataUnmasked \/ k.data = "pio") /\ cmd' = "sent"
      /\ (IsData(k) => left' = k.chunks /\ fifo' = 0)
      /\ phase' = "command" /\ erred' = FALSE /\ dropped' = {} /\ ~missed'
      /\ UNCHANGED <<busyWork, data, busy, rintsts, unmasked, isr, sdpEvents, sdpErrors, localDpc,
                     step, seen>>
  BY DEF SendCommand, Needs, OnBus, TypeOK, dpcVars
<1>2. k.chunks \in Nat /\ (k.data # "none" => k.chunks > 0)
  <2>1. CASE k \in Kinds
    BY <2>1, KindsAssumption DEF Kind
  <2>2. CASE k = Stop \/ k = Tune
    BY <2>2 DEF Stop, Tune
  <2> QED
    BY <2>1, <2>2
<1>3. Raised' = {} /\ Handed' = {} /\ Passing' = {} /\ PassingErrors' = {} /\ seen' = {}
      /\ rintsts' = {} /\ isr' = {}
  BY <1>1 DEF Clean, Raised, Handed, Passing, PassingErrors, OrderOK
<1>4. ~Ready' /\ ~Finished'
  BY <1>1 DEF Ready, Finished, LocalDone
<1>5. data \in {"none", "over"}
  BY DEF Clean
<1> USE <1>1, <1>2, <1>3, <1>5
<1>6. IsData(k) => remaining' = k.chunks /\ left' = k.chunks /\ fifo' = 0 /\ k.chunks > 0
  BY DEF BuildTransfer, IsData
<1>7. ErrorsOK'
  BY <1>6 DEF ErrorsOK, HasError, IsPioRead
<1>8. ResponseOK'
  BY <1>6, RequiredOf DEF ResponseOK, IsPioRead, IsData
<1>9. EndOK'
  BY RequiredOf DEF EndOK, Raised
<1>10. DataOK'
  <2>1. IsData(k) => remaining' = left' + fifo' /\ remaining' + fifo' = left'
    BY <1>6
  <2>2. CASE IsPioRead(k)
    <3>1. ReadOK'
      BY <1>6, <2>1, <2>2, RequiredOf DEF ReadOK, IsPioRead, IsData
    <3> QED
      BY <2>1, <2>2, <3>1 DEF DataOK, IsPioRead, IsPioWrite
  <2>3. CASE IsPioWrite(k)
    <3>1. WriteOK'
      BY <1>6, <2>1, <2>3, RequiredOf DEF WriteOK, IsPioWrite, IsData
    <3> QED
      BY <2>1, <2>3, <3>1 DEF DataOK, IsPioRead, IsPioWrite
  <2> QED
    BY <1>6, <2>1, <2>2, <2>3 DEF DataOK, IsPioRead, IsPioWrite, IsData
<1>11. CaughtOK' /\ BeginOK'
  <2>1. BeginOK'
    BY <1>4 DEF BeginOK
  <2>2. CaughtOK'
    BY RequiredOf DEF CaughtOK
  <2> QED
    BY <2>1, <2>2
<1> QED
  BY <1>4, <1>7, <1>8, <1>9, <1>10, <1>11 DEF Progress

LEMMA StartProgress ==
  ASSUME TypeOK, OrderOK, AwaitOK, Progress, Live, NEW w \in Who, StartTransfer(w), w = active,
         step = "none",
         \/ host = "transfer" /\ host' = "waiting"
         \/ host = "start_tuning" /\ host' = "tuning" /\ UNCHANGED localPending
  PROVE  Progress'
<1>1. ErrorsOK /\ ResponseOK /\ EndOK /\ CaughtOK /\ DataOK /\ BeginOK
  BY DEF Progress
<1>2. Ready /\ Needs = {} /\ IsData(OnBus) /\ (OnBus.data = "pio" => remaining > 0)
      /\ (OnBus.data = "dma" => currentErrors = {})
  BY <1>1 DEF Ready, AwaitOK, BeginOK
<1>3. ~busyWork /\ seen = {} /\ cmd = "idle"
  BY <1>1, <1>2, Unissued DEF Issued, OrderOK, ResponseOK, TypeOK
<1>4. /\ UNCHANGED <<kind, required, status, remaining, currentEvents, currentErrors, rintsts,
                     unmasked, dataUnmasked, isr, sdpEvents, sdpErrors, localDpc, cmd, data, left,
                     fifo, busy, busyWork, active, seen, erred, dropped, missed>>
      /\ phase' = "transfer" /\ step' = "start"
  BY DEF StartTransfer, reqVars, accVars, intVars, dpcVars, hwVars, errVars
<1>5. /\ UNCHANGED <<OnBus, Needs, Passing, PassingErrors, Handed, Raised>>
      /\ (Stopped' <=> Stopped)
      /\ (OnItsWay("CARD_RESPONSE")' <=> OnItsWay("CARD_RESPONSE"))
      /\ (OnItsWay("BUFFER_FULL")' <=> OnItsWay("BUFFER_FULL"))
      /\ (OnItsWay("BUFFER_EMPTY")' <=> OnItsWay("BUFFER_EMPTY"))
      /\ (OnItsWay("CARD_RW_END")' <=> OnItsWay("CARD_RW_END"))
  BY <1>4 DEF OnBus, Needs, Passing, PassingErrors, Handed, OnItsWay, Raised, Stopped
<1>6. ~Finished' /\ ~Finished
  BY <1>3, <1>4 DEF Finished, LocalDone, OrderOK
<1> USE <1>1, <1>2, <1>3, <1>4, <1>5
<1>7. ErrorsOK'
  BY DEF ErrorsOK, IsPioRead
<1>8. ResponseOK'
  BY DEF ResponseOK, IsPioRead
<1>9. EndOK'
  BY DEF EndOK, IsData
<1>10. DataOK'
  BY DEF DataOK, ReadOK, WriteOK, IsPioRead, IsPioWrite
<1>11. CaughtOK' /\ BeginOK'
  <2>1. BeginOK'
    BY DEF BeginOK
  <2>2. CaughtOK'
    BY <1>6 DEF CaughtOK
  <2> QED
    BY <2>1, <2>2
<1> QED
  BY <1>6, <1>7, <1>8, <1>9, <1>10, <1>11 DEF Progress

-----------------------------------------------------------------------------
(* Progress: every step.                                                   *)

\* The controller does nothing to a request that is done, but to be busy no more.
LEMMA CleanHardware ==
  ASSUME Clean, Hardware
  PROVE  busy' = FALSE /\ UNCHANGED <<cmd, data, left, fifo, rintsts, erred>> /\ HwQuiet
<1>1. /\ ~HwRespond /\ ~HwNoResponse /\ ~HwLateCommand /\ ~HwMove /\ ~HwDataEnd
      /\ ~HwCrcError /\ ~HwDataTimeout /\ ~HwLateData
  BY DEF Clean, HwRespond, HwNoResponse, HwLateCommand, HwMove, HwDataEnd, HwCrcError,
         HwDataTimeout, HwLateData
<1>2. ~HwDataRequest
  BY DEF Clean, HwDataRequest, IsPioRead
<1> QED
  BY <1>1, <1>2 DEF Hardware, HwIdle

LEMMA HardwareProgress ==
  ASSUME TypeOK, OrderOK, Live => AwaitOK, ProgressOK, Hardware
  PROVE  ProgressOK'
<1>1. HwQuiet
  BY DEF Hardware, HwRespond, HwNoResponse, HwLateCommand, HwMove, HwDataRequest,
         HwCrcError, HwDataEnd, HwDataTimeout, HwLateData, HwIdle
<1>2. /\ UNCHANGED <<host, isr, sdpEvents, remaining, dropped, OnBus>>
      /\ (Live' <=> Live)
  BY <1>1, HwFrame
<1>3. Live => Progress'
  BY HwRespondProgress, HwNoResponseProgress, HwLateCommandProgress, HwMoveProgress,
     HwDataRequestProgress, HwDataEndProgress, HwCrcErrorProgress, HwDataTimeoutProgress,
     HwLateDataProgress, HwIdleProgress DEF Hardware, ProgressOK
<1>4. Clean => Clean' /\ (DoneOK => DoneOK')
  BY <1>2, CleanHardware DEF Clean, DoneOK, IsPioRead, IsData
<1> QED
  BY <1>2, <1>3, <1>4 DEF ProgressOK

\* Without a request that may still succeed, no host is told of a success.
LEMMA UnliveInterrupt ==
  ASSUME TypeOK, OrderOK, ~Live, Interrupt \/ Transfer
  PROVE  /\ UNCHANGED host /\ ~Live' /\ dropped \subseteq dropped'
         /\ UNCHANGED <<kind, remaining, cmd, data, left, fifo, busy, active, phase, erred>>
<1>1. step \in {"none", "awaited", "chained"}
  BY DEF Live, OrderOK, Issued, TypeOK
<1>2. CASE IsrAcknowledge \/ IsrDeliver
  <2>1. /\ UNCHANGED <<host, localPending, status, kind, remaining, cmd, data, left, fifo, busy,
                       active, phase, erred>>
        /\ dropped \subseteq dropped'
    BY <1>2 DEF IsrAcknowledge, IsrDeliver, reqVars, hwVars, endVars, hostVars, errVars, Drop
  <2> QED
    BY <2>1 DEF Live
<1>3. CASE SdportDpc
  <2>1. host \notin {"waiting", "transfer"} /\ (host = "done" => outstanding = "none")
    BY DEF Live, OrderOK
  <2>2. KeepRequest /\ dropped \subseteq dropped'
    BY <1>3, <2>1 DEF SdportDpc, RequestDpc, KeepRequest, Drop
  <2>3. /\ UNCHANGED <<kind, remaining, cmd, data, left, fifo, busy, active, phase, erred>>
    BY <1>3 DEF SdportDpc, hwVars
  <2> QED
    BY <2>2, <2>3 DEF KeepRequest, endVars, Live
<1>4. CASE LocalRequestDpc
  <2>1. /\ UNCHANGED <<kind, remaining, cmd, data, left, fifo, busy, active, phase, erred>>
    BY <1>4 DEF LocalRequestDpc, hwVars
  <2>2. CASE KeepRequest /\ dropped \subseteq dropped'
    BY <2>1, <2>2 DEF KeepRequest, endVars, Live
  <2>3. CASE ~KeepRequest
    <3>1. outstanding = active /\ RequestDpc(active, currentEvents, currentErrors)
      BY <1>4, <2>3 DEF LocalRequestDpc, OrderOK, Who
    <3>2. localPending
      BY <1>4, <2>3, <3>1
      DEF LocalRequestDpc, OrderOK, RequestDpc, NothingAwaited, KeepRequest, TypeOK, Who
    <3>3. host = "stop" /\ Issued
      BY <1>4, <3>1, <3>2 DEF OrderOK, Live, Issued, LocalRequestDpc, TypeOK, Who
    <3>4. /\ dropped' = dropped
          /\ \E s \in STATUSES : CompleteRequest(active, s)
      BY <2>3, <3>1, DpcOutcome DEF TypeOK, STATUSES, KeepRequest, endVars
    <3>5. UNCHANGED host
      BY <3>3, <3>4, FinishHost DEF CompleteRequest
    <3> QED
      BY <2>1, <3>3, <3>4, <3>5 DEF Live
  <2> QED
    BY <1>4, <2>2, <2>3 DEF LocalRequestDpc, RequestDpc, Drop, KeepRequest
<1>5. CASE BusyWorker
  <2>1. Issued /\ outstanding = active /\ host = "stop"
    BY <1>5 DEF BusyWorker, OrderOK, Live, Issued
  <2>2. \E s \in STATUSES : Finish(active, s)
    BY <1>5, <2>1 DEF BusyWorker, STATUSES
  <2>3. UNCHANGED host
    BY <2>1, <2>2, FinishHost
  <2>4. UNCHANGED <<kind, remaining, cmd, data, left, fifo, busy, active, phase, erred, dropped>>
    BY <1>5 DEF BusyWorker, hwVars, errVars
  <2> QED
    BY <2>1, <2>3, <2>4 DEF Live
<1>6. CASE Transfer
  <2>1. PioAgain \/ PioRearm
    BY <1>1, <1>6 DEF Transfer, StartDmaTransfer, PioMove, PioMore, PioLast, PioStep
  <2>2. /\ UNCHANGED <<host, localPending, kind, remaining, cmd, data, left, fifo, busy, active,
                       phase, erred, dropped>>
        /\ status' \in {status, [status EXCEPT ![active] = "MORE_PROCESSING_REQUIRED"]}
    BY <2>1 DEF PioAgain, PioRearm, PioStep, PioQuiet, endVars
  <2>3. status'["loc"] = "SUCCESS" => status["loc"] = "SUCCESS"
    BY <2>2 DEF TypeOK, Who
  <2> QED
    BY <2>2, <2>3 DEF Live
<1> QED
  BY <1>2, <1>3, <1>4, <1>5, <1>6 DEF Interrupt

LEMMA UnliveProgress ==
  ASSUME TypeOK, OrderOK, ProgressOK, ~Live, Interrupt \/ Transfer
  PROVE  ProgressOK'
<1>1. /\ UNCHANGED host /\ ~Live' /\ dropped \subseteq dropped'
      /\ UNCHANGED <<kind, remaining, cmd, data, left, fifo, busy, active, phase, erred>>
  BY UnliveInterrupt
<1>2. UNCHANGED OnBus
  BY <1>1 DEF OnBus
<1>3. Clean => rintsts' = {} /\ (isr = {} => isr' = {})
               /\ (isr = {} /\ sdpEvents = {} => sdpEvents' = {})
  BY DEF Clean, Interrupt, Transfer, IsrAcknowledge, Asserted, IsrDeliver, SdportDpc,
         LocalRequestDpc, BusyWorker, StartDmaTransfer, PioMove, PioMore, PioAgain, PioRearm,
         PioLast, PioStep, PioQuiet, intVars, dpcVars
<1>4. Clean => Clean' /\ (DoneOK => DoneOK')
  BY <1>1, <1>2, <1>3 DEF Clean, DoneOK, IsPioRead, IsData
<1> QED
  BY <1>1, <1>3, <1>4 DEF ProgressOK

\* What sdport's DPC holds while a local request is on the bus is nobody's.
LEMMA LostProgress ==
  ASSUME Progress, active = "loc", dropped \subseteq dropped', ~missed' => ~missed,
         UNCHANGED <<kind, required, status, remaining, currentEvents, currentErrors, rintsts,
                     dataUnmasked, isr, localDpc, cmd, data, left, fifo, active, phase, step,
                     seen, erred, host, localPending, busyWork>>
  PROVE  Progress'
<1>1. /\ ErrorsOK /\ ResponseOK /\ EndOK /\ CaughtOK /\ DataOK /\ BeginOK
      /\ Finished => Complete /\ Needs = {}
  BY DEF Progress
<1>2. /\ UNCHANGED <<OnBus, Needs, Passing, PassingErrors, Handed, Raised>>
      /\ (Stopped' <=> Stopped) /\ (Ready' <=> Ready) /\ (Finished' <=> Finished)
      /\ (OnItsWay("CARD_RESPONSE")' <=> OnItsWay("CARD_RESPONSE"))
      /\ (OnItsWay("BUFFER_FULL")' <=> OnItsWay("BUFFER_FULL"))
      /\ (OnItsWay("BUFFER_EMPTY")' <=> OnItsWay("BUFFER_EMPTY"))
      /\ (OnItsWay("CARD_RW_END")' <=> OnItsWay("CARD_RW_END"))
  BY DEF OnBus, Needs, Passing, PassingErrors, Handed, OnItsWay, Raised, Stopped, Ready,
         Finished, LocalDone, IsData
<1> USE <1>1, <1>2
<1>3. ErrorsOK'
  BY DEF ErrorsOK, IsPioRead
<1>4. ResponseOK'
  BY DEF ResponseOK, IsPioRead
<1>5. EndOK'
  BY DEF EndOK, IsData
<1>6. DataOK'
  BY DEF DataOK, ReadOK, WriteOK, IsPioRead, IsPioWrite
<1>7. CaughtOK' /\ BeginOK'
  BY DEF CaughtOK, BeginOK
<1>8. Finished' => Complete' /\ Needs' = {}
  BY DEF Complete, Over, IsData
<1> QED
  BY <1>3, <1>4, <1>5, <1>6, <1>7, <1>8 DEF Progress

LEMMA InterruptProgress ==
  ASSUME TypeOK, OrderOK, Live, AwaitOK, Progress, Interrupt \/ Transfer, ~overtaken'
  PROVE  /\ Live' => Progress'
         /\ host' = "done" => Clean' /\ DoneOK'
         /\ host' \notin {"idle", "send_tuning"}
<1>1. host \notin {"done", "idle", "send_tuning"}
  BY DEF Live
<1>2. CASE IsrAcknowledge
  <2>1. UNCHANGED host
    BY <1>2 DEF IsrAcknowledge, hostVars
  <2> QED
    BY <1>1, <1>2, <2>1, IsrAcknowledgeProgress
<1>3. CASE IsrDeliver
  <2>1. UNCHANGED host
    BY <1>3 DEF IsrDeliver, hostVars
  <2> QED
    BY <1>1, <1>3, <2>1, IsrDeliverProgress
<1>4. CASE SdportDpc
  <2>1. /\ UNCHANGED <<kind, remaining, rintsts, unmasked, dataUnmasked, isr, cmd, data, left,
                       fifo, busy, active, phase, step, seen, erred, localDpc>>
        /\ sdpEvents' = {} /\ sdpErrors' = {}
    BY <1>4 DEF SdportDpc, intVars, hwVars
  <2>2. CASE host = "waiting"
    <3>1. active = "sdp"
      BY <2>2 DEF OrderOK
    <3>2. DpcTakes(sdpEvents, sdpErrors) /\ RequestDpc(active, sdpEvents, sdpErrors)
      BY <1>4, <2>1, <2>2, <3>1 DEF DpcTakes, SdportDpc
    <3> QED
      BY <2>2, <3>2, DpcProgress DEF Issued, TypeOK
  <2>3. CASE host = "transfer"
    <3>1. active = "sdp" /\ Needs = {}
      BY <2>3 DEF OrderOK, AwaitOK, Ready
    <3>2. DpcTakes(sdpEvents, sdpErrors) /\ RequestDpc("sdp", sdpEvents, sdpErrors)
      BY <1>4, <2>1, <2>3, <3>1 DEF DpcTakes, SdportDpc
    <3>3. /\ UNCHANGED <<currentEvents, currentErrors, required, status, host, localPending,
                         busyWork>>
          /\ Drop(sdpEvents, sdpErrors)
      BY <3>1, <3>2 DEF RequestDpc, NothingAwaited, Needs, KeepRequest, accVars, endVars
    <3> QED
      BY <1>1, <3>1, <3>2, <3>3, DropProgress
  <2>4. CASE host \notin {"waiting", "transfer"}
    <3>1. active = "loc" /\ outstanding \in {"none", "loc"} /\ host # "done"
      BY <1>1, <2>4 DEF OrderOK, Live
    <3>2. /\ UNCHANGED <<currentEvents, currentErrors, required, status, host, localPending,
                         busyWork>>
          /\ dropped \subseteq dropped' /\ (~missed' => ~missed)
      BY <1>4, <2>4, <3>1 DEF SdportDpc, KeepRequest, accVars, endVars, Drop
    <3> QED
      BY <1>1, <2>1, <3>1, <3>2, LostProgress DEF hwVars
  <2> QED
    BY <2>2, <2>3, <2>4
<1>5. CASE LocalRequestDpc
  <2>1. /\ UNCHANGED <<kind, remaining, rintsts, unmasked, dataUnmasked, isr, cmd, data, left,
                       fifo, busy, active, phase, step, seen, erred, sdpEvents, sdpErrors>>
        /\ localDpc /\ ~localDpc'
    BY <1>5 DEF LocalRequestDpc, intVars, hwVars
  <2>2. active = "loc" /\ host \in {"tuning", "tuning_gap", "start_tuning"}
    BY <2>1, <1>1 DEF OrderOK, Live
  <2>3. CASE outstanding = "none"
    <3>1. UNCHANGED <<required, status, currentEvents, currentErrors, host, localPending,
                      busyWork, dropped, missed>>
      BY <1>5, <2>3 DEF LocalRequestDpc, KeepRequest, accVars, endVars, Who
    <3>2. Ready \/ Finished
      BY <2>2, <2>3, <3>1 DEF Ready, Finished, Live, LocalDone, OrderOK, TypeOK, Issued
    <3>3. Needs = {} /\ step # "moved"
      BY <2>3, <3>2 DEF Progress, AwaitOK, OrderOK, TypeOK, Who
    <3>4. (Ready' <=> Ready) /\ (Finished' <=> Finished)
      BY <2>1, <3>1 DEF Ready, Finished, LocalDone, OnBus, IsData
    <3> QED
      BY <1>1, <2>1, <3>1, <3>3, <3>4, SameProgress
  <2>4. CASE outstanding # "none"
    <3>1. outstanding = "loc" /\ RequestDpc(active, currentEvents, currentErrors)
      BY <1>5, <2>2, <2>4 DEF LocalRequestDpc, OrderOK, Who
    <3>2. DpcTakes(currentEvents, currentErrors)
      BY <2>1, <2>2 DEF DpcTakes
    <3>3. CASE Issued
      <4>1. currentEvents \in SUBSET EVENTS /\ currentErrors \in SUBSET ERRORS
        BY DEF TypeOK
      <4> QED
        BY <3>1, <3>2, <3>3, <4>1, DpcProgress
    <3>4. CASE ~Issued
      BY <1>1, <2>2, <3>1, <3>4 DEF OrderOK, Issued, Live
    <3> QED
      BY <3>3, <3>4
  <2> QED
    BY <2>3, <2>4
<1>6. CASE BusyWorker
  BY <1>6, BusyWorkerProgress
<1>7. CASE Transfer
  BY <1>1, <1>7, StartDmaProgress, PioMoveProgress, PioMoreProgress, PioAgainProgress,
     PioLastProgress DEF Transfer
<1> QED
  BY <1>2, <1>3, <1>4, <1>5, <1>6, <1>7 DEF Interrupt

-----------------------------------------------------------------------------
(* Progress: sdport, the reset and the local requests.                     *)

\* The reset leaves the controller with nothing to do, unless it has returned early.
LEMMA ResetProgress ==
  ASSUME TypeOK, OrderOK, MaskEvents \/ SdportTimeout \/ Reset
  PROVE  ProgressOK'
<1>1. CASE host' \notin {"idle", "done", "send_tuning"} \cup {"waiting", "transfer", "tuning"}
           /\ host' \notin {"tuning_gap", "start_tuning"}
  BY <1>1 DEF ProgressOK, Live
<1>2. CASE host' = "idle"
  <2>1. isr' = {} /\ sdpEvents' = {}
    BY <1>2 DEF MaskEvents, SdportTimeout, Reset, ResetCmd, ResetDat, ResetFinish, HostGoto,
           Settled, intVars, dpcVars
  <2>2. HwReset /\ UNCHANGED OnBus
    BY <1>2 DEF MaskEvents, SdportTimeout, Reset, ResetCmd, ResetDat, ResetFinish, HostGoto,
           OrderOK, OnBus, IsData, reqVars
  <2>3. Clean'
    BY <2>2 DEF HwReset, Clean
  <2> QED
    BY <1>2, <2>1, <2>3 DEF ProgressOK, Live
<1> QED
  BY <1>1, <1>2 DEF MaskEvents, SdportTimeout, Reset, ResetCmd, ResetDat, ResetFinish, HostGoto

LEMMA IssueProgress ==
  ASSUME TypeOK, OrderOK, Live => AwaitOK, ProgressOK,
         IssueRequest \/ IssueTransfer \/ LocalIssue
  PROVE  ProgressOK'
<1>1. CASE IssueRequest
  <2>1. /\ Clean /\ isr = {} /\ sdpEvents = {} /\ step = "none" /\ ~busyWork
        /\ host' = "waiting"
    BY <1>1 DEF IssueRequest, HostGoto, Settled, ProgressOK
  <2>2. PICK k \in Kinds : SendCommand("sdp", k, "NOT_SET")
    BY <1>1 DEF IssueRequest
  <2>3. Progress'
    <3>1. "sdp" \in Who /\ k \in Kinds \cup {Stop, Tune}
      BY DEF Who
    <3> QED
      BY <2>1, <2>2, <3>1, SendProgress
  <2> QED
    BY <2>1, <2>3 DEF ProgressOK
<1>2. CASE IssueTransfer
  <2>1. /\ host = "transfer" /\ host' = "waiting" /\ StartTransfer("sdp") /\ active = "sdp"
        /\ step = "none"
    BY <1>2 DEF IssueTransfer, HostGoto, OrderOK
  <2>2. Live /\ Progress
    BY <2>1 DEF Live, ProgressOK
  <2>3. Progress'
    BY <2>1, <2>2, StartProgress DEF Who
  <2> QED
    BY <2>1, <2>3 DEF ProgressOK
<1>3. CASE LocalIssue
  <2>1. UNCHANGED localPending
    BY <1>3 DEF LocalIssue
  <2>2. CASE host = "send_stop" /\ host' = "stop"
    BY <2>2 DEF ProgressOK, Live
  <2>3. CASE host = "send_tuning" /\ host' = "tuning" /\ SendCommand("loc", Tune, "SUCCESS")
    <3>1. /\ Clean /\ isr = {} /\ sdpEvents = {} /\ step = "none" /\ ~busyWork /\ localPending
      BY <2>3 DEF ProgressOK, OrderOK, Issued
    <3>2. "loc" \in Who /\ Tune \in Kinds \cup {Stop, Tune}
      BY DEF Who
    <3>3. Progress'
      BY <2>1, <2>3, <3>1, <3>2, SendProgress
    <3> QED
      BY <2>3, <3>3 DEF ProgressOK
  <2>4. CASE host = "start_tuning" /\ host' = "tuning" /\ StartTransfer("loc")
    <3>1. Live /\ Progress /\ active = "loc" /\ step = "none"
      BY <2>4 DEF Live, ProgressOK, OrderOK
    <3>2. Progress'
      BY <2>1, <2>4, <3>1, StartProgress DEF Who
    <3> QED
      BY <2>4, <3>2 DEF ProgressOK
  <2> QED
    BY <1>3, <2>2, <2>3, <2>4 DEF LocalIssue, HostGoto
<1> QED
  BY <1>1, <1>2, <1>3

\* A tuning command is gone on with when its first half is ready, and done when it is finished.
LEMMA LocalProgress ==
  ASSUME TypeOK, OrderOK, Live => AwaitOK, ProgressOK, LocalPend \/ LocalWake \/ LocalTimeout
  PROVE  ProgressOK'
<1>1. /\ UNCHANGED <<kind, required, remaining, currentEvents, currentErrors, rintsts, unmasked,
                     dataUnmasked, isr, sdpEvents, sdpErrors, localDpc, cmd, data, left, fifo,
                     busy, busyWork, outstanding, active, phase, step, seen, erred, dropped, missed>>
  BY DEF LocalPend, LocalWake, LocalTimeout, reqVars, accVars, intVars, dpcVars, hwVars, endVars,
         errVars
<1>2. UNCHANGED OnBus
  BY <1>1 DEF OnBus
<1>3. CASE LocalPend
  <2>1. CASE host \in {"idle", "done"} /\ host' = "send_tuning" /\ Settled
    BY <1>1, <1>2, <2>1 DEF ProgressOK, Clean, Live, Settled, IsPioRead
  <2>2. CASE host = "tuning_gap" /\ host' = "start_tuning"
    <3>1. Live /\ Progress /\ Ready
      BY <2>2 DEF Live, ProgressOK, Ready
    <3>2. Needs = {}
      BY <3>1 DEF AwaitOK
    <3>3. ~Finished' /\ ~Finished /\ step = "none"
      <4>1. step = "none" /\ ~busyWork
        BY <2>2 DEF OrderOK, Issued
      <4> QED
        BY <1>1, <1>3, <2>2, <4>1 DEF Finished, LocalDone, LocalPend, reqVars
    <3>4. Progress'
      BY <1>1, <3>1, <3>2, <3>3, SameProgress
    <3> QED
      BY <2>2, <3>4 DEF ProgressOK
  <2> QED
    BY <1>3, <2>1, <2>2 DEF LocalPend, HostGoto
<1>4. CASE LocalWake
  <2>1. CASE host' \in {"resetting", "reset_cmd"}
    BY <2>1 DEF ProgressOK, Live
  <2>2. CASE host = "tuning" /\ host' \in {"tuning_gap", "done"}
    <3>1. /\ LocalDone /\ Live /\ Progress /\ UNCHANGED status
          /\ host' = (IF phase = "command" THEN "tuning_gap" ELSE "done")
      BY <1>4, <2>2 DEF LocalWake, LocalEnd, HostGoto, LocalDone, Live, ProgressOK, reqVars
    <3>2. ~busyWork /\ step = "none"
      BY <1>4, <2>2, <3>1 DEF OrderOK, Issued, LocalDone, LocalWake
    <3>3. CASE phase = "command"
      <4>1. Ready /\ ~Finished' /\ ~Finished
        BY <1>1, <3>1, <3>2, <3>3 DEF Ready, Finished, LocalDone
      <4>2. Needs = {}
        BY <3>1, <4>1 DEF AwaitOK
      <4>3. Progress'
        BY <1>1, <3>1, <3>2, <4>1, <4>2, SameProgress
      <4> QED
        BY <3>1, <3>3, <4>3 DEF ProgressOK
    <3>4. CASE phase # "command"
      <4>1. Finished /\ Complete /\ Needs = {} /\ OnBus = Tune
        BY <2>2, <3>1, <3>4 DEF Finished, Progress, TypeOK, OrderOK, OnBus
      <4>2. Over /\ remaining = 0 /\ IsData(OnBus) /\ (erred => dropped # {})
        BY <4>1 DEF Complete, Tune, IsData
      <4>3. "CMD" \notin Raised
        BY <3>1, <4>1 DEF Progress, ResponseOK
      <4>4. Clean /\ (~erred => data = "over" /\ left = 0 /\ fifo = 0)
        BY <3>1, <4>2, <4>3, OverIsClean
      <4>5. Clean'
        BY <1>1, <1>2, <4>4 DEF Clean, IsPioRead
      <4>6. DoneOK'
        BY <1>1, <1>2, <4>1, <4>2, <4>4 DEF DoneOK, Tune
      <4> QED
        BY <3>1, <3>4, <4>5, <4>6 DEF ProgressOK, Live
    <3> QED
      BY <3>3, <3>4
  <2> QED
    BY <1>4, <2>1, <2>2 DEF LocalWake, LocalEnd, HostGoto
<1>5. CASE LocalTimeout
  <2>1. host' \in {"resetting", "reset_cmd"}
    BY <1>5 DEF LocalTimeout, LocalEnd, HostGoto
  <2> QED
    BY <2>1 DEF ProgressOK, Live
<1> QED
  BY <1>3, <1>4, <1>5

LEMMA StutterProgress ==
  ASSUME ProgressOK, UNCHANGED vars
  PROVE  ProgressOK'
<1>1. /\ UNCHANGED <<kind, required, status, remaining, currentEvents, currentErrors, rintsts,
                     dataUnmasked, isr, sdpEvents, sdpErrors, localDpc, cmd, data, left, fifo,
                     busy, active, phase, step, seen, erred, host, localPending, busyWork, dropped,
                     missed>>
  BY DEF vars, reqVars, accVars, intVars, dpcVars, hwVars, endVars, hostVars, errVars
<1> QED
  BY <1>1 DEF ProgressOK, Live, Progress, ErrorsOK, ResponseOK, EndOK, CaughtOK, DataOK, ReadOK,
         WriteOK, BeginOK, Complete, Over, Ready, Finished, LocalDone, OnBus, Needs, Passing, PassingErrors,
         Handed, OnItsWay, Raised, Stopped, Clean, DoneOK

\* The reset of the controller ends what the DPC has overtaken.
LEMMA OvertakenStays ==
  ASSUME [Next]_vars, overtaken, ~overtaken'
  PROVE  Reset
<1>1. ~Hardware
  BY DEF Hardware, HwRespond, HwNoResponse, HwLateCommand, HwMove, HwDataRequest,
         HwCrcError, HwDataEnd, HwDataTimeout, HwLateData, HwIdle, HwQuiet
<1>2. ~Interrupt
  BY DEF Interrupt, IsrAcknowledge, IsrDeliver, SdportDpc, LocalRequestDpc, BusyWorker, RequestDpc,
         KeepRequest, Overtake, errVars
<1>3. ~Transfer
  BY DEF Transfer, StartDmaTransfer, PioMove, PioMore, PioAgain, PioRearm, PioLast, errVars
<1>4. ~Sdport /\ ~Local
  BY DEF Sdport, Local, IssueRequest, IssueTransfer, SdportTimeout, MaskEvents, LocalPend, LocalIssue,
         LocalWake, LocalTimeout, SendCommand, StartTransfer, errVars
<1>5. ~UNCHANGED vars
  BY DEF vars, errVars
<1> QED
  BY <1>1, <1>2, <1>3, <1>4, <1>5 DEF Next

LEMMA ProgressKept ==
  ASSUME TypeOK, OrderOK, TurnOK, [Next]_vars, ~overtaken'
  PROVE  ProgressOK'
<1>1. CASE Reset
  BY <1>1, ResetProgress
<1>2. CASE ~Reset
  <2>1. ProgressOK /\ (Live => AwaitOK)
    BY <1>2, OvertakenStays DEF TurnOK
  <2>2. CASE Interrupt \/ Transfer
    <3>1. CASE Live
      <4>1. Progress /\ AwaitOK
        BY <2>1, <3>1 DEF ProgressOK
      <4> QED
        BY <2>2, <3>1, <4>1, InterruptProgress DEF ProgressOK
    <3>2. CASE ~Live
      BY <2>1, <2>2, <3>2, UnliveProgress
    <3> QED
      BY <3>1, <3>2
  <2>3. CASE Sdport
    BY <2>1, <2>3, IssueProgress, ResetProgress DEF Sdport
  <2>4. CASE Local
    BY <2>1, <2>4, IssueProgress, LocalProgress DEF Local
  <2> QED
    BY <1>2, <2>1, <2>2, <2>3, <2>4, HardwareProgress, StutterProgress DEF Next
<1> QED
  BY <1>1, <1>2

-----------------------------------------------------------------------------
(* The theorems.                                                           *)

LEMMA InitInvariant == Init => IInv
<1> SUFFICES ASSUME Init PROVE IInv
  OBVIOUS
<1>1. TypeOK
  BY InitTyped
<1>2. OrderOK
  BY DEF Init, OrderOK, Issued, Who
<1>3. TurnOK
  BY DEF Init, TurnOK, ProgressOK, Live, Clean, IsPioRead, OnBus, Stop, Who
<1> QED
  BY <1>1, <1>2, <1>3 DEF IInv

LEMMA InvariantKept == IInv /\ [Next]_vars => IInv'
<1> SUFFICES ASSUME TypeOK, OrderOK, TurnOK, [Next]_vars PROVE IInv'
  BY DEF IInv
<1>1. /\ Live => AwaitOK
      /\ step = "start" => Issued /\ host # "stop"
  BY DEF TurnOK, OrderOK
<1>2. TypeOK' /\ OrderOK'
  BY <1>1, TypesKept, OrderKept
<1>3. (Live => AwaitOK)' /\ (~overtaken' => ProgressOK')
  BY <1>1, AwaitKept, ProgressKept
<1> QED
  BY <1>2, <1>3 DEF IInv, TurnOK

(* However the controller, the interrupt, the DPCs and the hosts interleave, a
   DPC between any two writes of MshcStartPioTransfer included: the types, the
   turns and what is awaited hold throughout, and the whereabouts of the events
   until the DPC overtakes the thread that chains a chunk, and again once the
   controller is reset. *)
THEOREM Invariance == Spec => []IInv
<1> QED
  BY InitInvariant, InvariantKept, PTL DEF Spec

(* sdport is told at most once of what it has issued, and never of a local
   request: MshcCompleteRequest is reached once for each issue, by the DPC,
   the work item or the transfer. *)
THEOREM ToldOnce == Spec => []CompletedOnce
<1>1. IInv => CompletedOnce
  BY DEF IInv, OrderOK, CompletedOnce
<1> QED
  BY <1>1, Invariance, PTL

(* A request MshcCompleteRequest has reported successful is one the card has
   answered and moved all of the data of, with nothing left in the FIFO and
   the card not busy; but for a request an error of which came while nothing
   was awaited (dropped), and for a transfer completed between the write of
   RequiredEvents and that of Status (overtaken: ChunksAreChained is violated). *)
THEOREM SuccessEarned == Spec => []SuccessIsDone
<1>1. IInv => SuccessIsDone
  BY DEF IInv, TurnOK, ProgressOK, Clean, DoneOK, SuccessIsDone
<1> QED
  BY <1>1, Invariance, PTL

\* What is raised is what the ISR converts into events.
LEMMA RaisedComing ==
  ASSUME TypeOK, NEW e \in EVENTS \ {"ERROR"}
  PROVE  /\ e = "CARD_RESPONSE" /\ "CMD" \in Raised => Coming(e)
         /\ e = "CARD_RW_END" /\ "DTO" \in Raised => Coming(e)
         /\ e = "BUFFER_FULL" /\ "RXDR" \in isr => Coming(e)
         /\ e = "BUFFER_EMPTY" /\ "TXDR" \in isr => Coming(e)
<1>1. Raised = isr \cup rintsts
  BY DEF Raised
<1>2. "RXDR" \in isr => "BUFFER_FULL" \notin Events(DATA_REQUESTS \ isr)
  BY DEF Events, EventOf, DATA_REQUESTS
<1>3. "TXDR" \in isr => "BUFFER_EMPTY" \notin Events(DATA_REQUESTS \ isr)
  BY DEF Events, EventOf, DATA_REQUESTS
<1>4. "CARD_RESPONSE" \notin Events(DATA_REQUESTS \ isr)
      /\ "CARD_RW_END" \notin Events(DATA_REQUESTS \ isr)
  BY DEF Events, EventOf, DATA_REQUESTS
<1>5. /\ "CMD" \in Raised => "CARD_RESPONSE" \in Events(isr \cup rintsts)
      /\ "DTO" \in Raised => "CARD_RW_END" \in Events(isr \cup rintsts)
      /\ "RXDR" \in isr => "BUFFER_FULL" \in Events(isr \cup rintsts)
      /\ "TXDR" \in isr => "BUFFER_EMPTY" \in Events(isr \cup rintsts)
  BY <1>1 DEF Events, EventOf
<1> QED
  BY <1>2, <1>3, <1>4, <1>5 DEF Coming

LEMMA InvariantComing == IInv => AwaitedWillCome
<1> SUFFICES ASSUME TypeOK, OrderOK, Live => AwaitOK, ProgressOK, NEW e \in EVENTS,
                    Awaiting(e), dropped = {}, ~Failing, ~(e = "CARD_RW_END" /\ missed)
             PROVE  Coming(e)
  BY DEF IInv, TurnOK, AwaitedWillCome
<1>1. Live /\ Progress /\ e \in Needs /\ step = "none"
  BY DEF Awaiting, Live, ProgressOK, Needs
<1>2. ErrorsOK /\ ResponseOK /\ EndOK /\ CaughtOK /\ DataOK /\ BeginOK /\ AwaitOK
  BY <1>1 DEF Progress
<1>3. ~erred
  BY <1>2 DEF Failing, ErrorsOK, PassingErrors, HasError, Raised, INT_ERROR
<1>4. phase = "command" => e \in RequiredFor(OnBus)
  BY <1>1, <1>2 DEF AwaitOK
<1>5. phase = "transfer" => IsData(OnBus) /\ cmd = "idle" /\ OnBus.data = "pio"
                            /\ e \in {BufferEvent(OnBus), "CARD_RW_END"}
  BY <1>1, <1>2 DEF AwaitOK, BeginOK
<1>6. IsPioRead(OnBus) => OnBus.dir = "read" /\ OnBus.data = "pio"
  BY DEF IsPioRead
<1>7. OnBus.data = "pio" /\ OnBus.dir # "read" => IsPioWrite(OnBus)
  <2>1. OnBus \in Kinds \cup {Stop, Tune}
    BY DEF OnBus, TypeOK
  <2> QED
    BY <2>1, KindsAssumption DEF IsPioWrite, Kind, Stop, Tune
<1>8. CASE e = "CARD_RESPONSE"
  <2>1. cmd # "idle" => cmd \in {"sent", "late"}
    BY DEF TypeOK
  <2>2. cmd # "idle" \/ "CMD" \in Raised \/ OnItsWay("CARD_RESPONSE")
    BY <1>1, <1>2, <1>8 DEF ResponseOK
  <2>3. CASE "CMD" \in Raised
    BY <1>8, <2>3, RaisedComing
  <2> QED
    BY <1>8, <2>1, <2>2, <2>3 DEF Coming, OnItsWay, Passing
<1>9. CASE e = "CARD_RW_END" /\ OnBus.data = "pio"
  <2>1. cmd = "idle" /\ IsData(OnBus)
    BY <1>4, <1>5, <1>9, RequiredOf DEF TypeOK, IsData
  <2>2. data = "moving" \/ data = "over"
    BY <1>2, <1>3, <2>1 DEF EndOK
  <2>3. data = "over" => "DTO" \in Raised \/ OnItsWay("CARD_RW_END")
    BY <1>1, <1>2, <1>3, <1>9 DEF CaughtOK
  <2>4. CASE "DTO" \in Raised
    BY <1>9, <2>4, RaisedComing
  <2> QED
    BY <1>9, <2>2, <2>3, <2>4 DEF Coming, OnItsWay, Passing
<1>10. CASE e = "CARD_RW_END" /\ OnBus.data # "pio"
  <2>1. OnBus.data = "dma"
    BY <1>4, <1>5, <1>10, RequiredOf DEF TypeOK
  <2>2. cmd = "sent" \/ cmd = "late" \/ data = "moving" \/ "DTO" \in Raised
        \/ "CARD_RW_END" \in Passing
    BY <1>1, <1>2, <1>3, <1>10, <2>1 DEF EndOK, TypeOK
  <2>3. cmd # "late"
    BY <1>2, <1>3 DEF ErrorsOK
  <2>4. CASE "DTO" \in Raised
    BY <1>10, <2>4, RaisedComing
  <2> QED
    BY <1>10, <2>2, <2>3, <2>4 DEF Coming, Passing
<1>11. CASE e = "BUFFER_FULL"
  <2>1. IsPioRead(OnBus)
    BY <1>4, <1>5, <1>11, RequiredOf DEF BufferEvent, TypeOK, IsPioRead
  <2>2. ReadOK
    BY <1>2, <2>1 DEF DataOK
  <2>3. /\ dataUnmasked \/ "RXDR" \in isr \/ OnItsWay("BUFFER_FULL")
        /\ remaining > 0 /\ remaining = left + fifo
    BY <1>1, <1>3, <1>11, <2>2 DEF ReadOK
  <2>4. fifo > 0 \/ left > 0
    BY <2>3 DEF TypeOK
  <2>5. cmd = "idle" => data = "moving" \/ left = 0
    BY <1>2, <1>3, <2>1 DEF EndOK, IsData, IsPioRead
  <2>6. CASE "RXDR" \in isr
    BY <1>11, <2>6, RaisedComing
  <2>7. CASE dataUnmasked
    <3>1. e = BufferEvent(OnBus)
      BY <1>6, <1>11, <2>1 DEF BufferEvent
    <3>2. cmd \in {"sent", "late"} \/ data = "moving" \/ fifo > 0
      BY <2>4, <2>5 DEF TypeOK
    <3> QED
      BY <1>11, <2>7, <3>1, <3>2 DEF Coming
  <2> QED
    BY <1>11, <2>3, <2>6, <2>7 DEF Coming, OnItsWay, Passing
<1>12. CASE e = "BUFFER_EMPTY"
  <2>1. IsPioWrite(OnBus)
    BY <1>4, <1>5, <1>7, <1>12, RequiredOf DEF BufferEvent, TypeOK
  <2>2. WriteOK
    BY <1>2, <2>1 DEF DataOK
  <2>3. /\ dataUnmasked \/ "TXDR" \in isr \/ OnItsWay("BUFFER_EMPTY")
        /\ remaining > 0 /\ remaining + fifo = left
    BY <1>1, <1>12, <2>2 DEF WriteOK
  <2>4. left > 0
    BY <2>3 DEF TypeOK
  <2>5. cmd = "idle" => data = "moving" \/ left = 0
    BY <1>2, <1>3, <2>1 DEF EndOK, IsData, IsPioWrite
  <2>6. CASE "TXDR" \in isr
    BY <1>12, <2>6, RaisedComing
  <2>7. CASE dataUnmasked
    <3>1. e = BufferEvent(OnBus)
      BY <1>12, <2>1 DEF BufferEvent, IsPioWrite
    <3>2. cmd \in {"sent", "late"} \/ data = "moving"
      BY <2>4, <2>5 DEF TypeOK
    <3> QED
      BY <1>12, <2>7, <3>1, <3>2 DEF Coming
  <2> QED
    BY <1>12, <2>3, <2>6, <2>7 DEF Coming, OnItsWay, Passing
<1>13. e # "ERROR"
  BY <1>4, <1>5 DEF RequiredFor, BufferEvent, TypeOK
<1> QED
  BY <1>8, <1>9, <1>10, <1>11, <1>12, <1>13 DEF EVENTS

(* An event the driver waits for is still to be raised by the controller or on
   its way to the DPC that awaits it: no interrupt is left masked and no event
   is given to another request. That is said while no error is about or was
   dropped, unless the DPC has overtaken the thread that chains a chunk, and of
   the data end of a PIO transfer only if the driver has not thrown it away
   (missed): it does wait in vain for one that came while chunks were left or
   nothing was awaited, EarlyEndIsSaved. *)
THEOREM NothingAwaitedInVain == Spec => []AwaitedWillCome
<1> QED
  BY Invariance, InvariantComing, PTL

-----------------------------------------------------------------------------
(* MshcBus.  The invariant says how the supply, the signalling and the     *)
(* divider in the registers relate to what the controller and the card     *)
(* have taken over of them, and to what the slot extension records.        *)

CiuClock == [on : BOOLEAN, divider : Nat]

BusTypes ==
  [enable : BOOLEAN, divider : Nat, ciu : CiuClock, base : Nat \ {0}, voltReg18 : BOOLEAN,
   regulator18 : BOOLEAN, supply : BOOLEAN, masked : BOOLEAN, ddr : BOOLEAN, width : Nat]

CardTypes == [in : BOOLEAN, on : BOOLEAN, v18 : BOOLEAN, switching : BOOLEAN, rca : Nat]

ExtTypes == [khz : Nat, signaling18 : BOOLEAN, powerControl : BOOLEAN, rca : Nat]

BusTypeOK ==
  /\ firmware \in [{"supply", "signal", "clock"} -> BOOLEAN]
  /\ bus \in BusTypes /\ ext \in ExtTypes /\ card \in CardTypes
  /\ sdport \in {"off", "failed", "reset", "powered", "running"}
  /\ blind \in BOOLEAN /\ unstopped \in BOOLEAN

\* The driver knows of a card at 1.8 V, and has not switched its supply since.
VoltageOK ==
  /\ card.v18 /\ ~blind => ext.signaling18 /\ bus.voltReg18 /\ bus.regulator18
  /\ ext.powerControl => firmware.supply
  /\ card.v18 /\ firmware.supply => sdport \in {"running", "failed"}
  /\ sdport = "off" => ~card.v18 /\ ~ext.powerControl

\* While sdport may send commands, the CIU runs with the divider of the registers.
ClockOK ==
  /\ ClockNotTooFast
  /\ sdport = "running" => bus.ciu.on /\ bus.ciu.divider = bus.divider /\ ~unstopped

BusIInv == BusTypeOK /\ VoltageOK /\ ClockOK

\* The divider rounds up.
LEMMA DivCeilCovers ==
  ASSUME NEW n \in Nat, NEW d \in Nat \ {0}
  PROVE  DivCeil(n, d) \in Nat /\ n <= DivCeil(n, d) * d
<1> DEFINE u == n + d - 1
           q == u \div d
<1>1. u \in Nat /\ n = u - d + 1
  OBVIOUS
<1>2. q \in Int /\ u = d * q + (u % d) /\ u % d \in 0..(d - 1)
  BY <1>1
<1> HIDE DEF u, q
<1> DEFINE m == u % d
<1>3. m \in 0..(d - 1) /\ u = d * q + m
  BY <1>2
<1> HIDE DEF m
<1>4. ~(q < 0)
  <2>1. q < 0 => d * q + d <= 0
    BY <1>2
  <2> QED
    BY <1>1, <1>2, <1>3, <2>1
<1>5. q * d = d * q /\ d * q \in Int
  BY <1>2
<1> QED
  BY <1>1, <1>2, <1>3, <1>4, <1>5 DEF DivCeil, q, u

\* A clock of base kHz through the divider chosen for khz.
LEMMA DividerSlows ==
  ASSUME NEW base \in Nat \ {0}, NEW khz \in Nat \ {0}
  PROVE  LET d == Divider(base, khz) IN
         d \in Nat /\ IF d = 0 THEN base <= khz ELSE base <= 2 * d * khz
<1>1. CASE khz = base
  BY <1>1 DEF Divider
<1>2. CASE khz # base
  <2> DEFINE d == DivCeil(base, 2 * khz)
  <2>1. 2 * khz \in Nat \ {0} /\ Divider(base, khz) = d
    BY <1>2 DEF Divider
  <2>2. d \in Nat /\ base <= d * (2 * khz)
    BY <2>1, DivCeilCovers
  <2> HIDE DEF d
  <2>3. d * (2 * khz) = 2 * d * khz
    BY <2>2
  <2>4. d # 0
    <3>1. d = 0 => d * (2 * khz) = 0
      OBVIOUS
    <3> QED
      BY <2>2, <3>1
  <2> QED
    BY <2>1, <2>2, <2>3, <2>4
<1> QED
  BY <1>1, <1>2

LEMMA CappedTyped ==
  ASSUME NEW khz \in Khz
  PROVE  Capped(khz) \in Nat \ {0}
BY KhzAssumption DEF Capped

\* The registers that MshcSetClock leaves, whichever of its updates times out.
SetAsAsked(s, b, khz, n) ==
  /\ s \in BusTypes /\ s.voltReg18 = b.voltReg18 /\ s.regulator18 = b.regulator18
  /\ khz # 0 /\ n = 0 =>
       /\ s.ciu.on /\ s.ciu.divider = s.divider
       /\ IF s.divider = 0 THEN s.base <= khz ELSE s.base <= 2 * s.divider * khz
  /\ khz = 0 /\ n # 1 => ~s.ciu.on

LEMMA ClockIsSet ==
  ASSUME NEW b \in BusTypes, NEW khz \in Nat, NEW n \in 0..3,
         firmware \in [{"supply", "signal", "clock"} -> BOOLEAN]
  PROVE  SetAsAsked(ClockSet(b, khz, n), b, khz, n)
<1> DEFINE off == [b EXCEPT !.enable = FALSE, !.divider = 0]
           gated == Loaded(off, n # 1)
           based == Based(gated, khz)
           set == [based EXCEPT !.divider = Divider(based.base, khz)]
           divided == Loaded(set, n # 2)
           last == [divided EXCEPT !.enable = TRUE]
           s == ClockSet(b, khz, n)
<1>1. /\ gated \in BusTypes /\ gated.voltReg18 = b.voltReg18 /\ gated.regulator18 = b.regulator18
      /\ n # 1 => ~gated.ciu.on
  BY DEF Loaded, BusTypes, CiuClock
<1>2. CASE n = 1 \/ khz = 0
  BY <1>1, <1>2 DEF ClockSet, SetAsAsked
<1>3. CASE n # 1 /\ khz # 0
  <2> HIDE DEF gated
  <2>1. based \in BusTypes /\ based.voltReg18 = b.voltReg18 /\ based.regulator18 = b.regulator18
    BY <1>1, <1>3 DEF Based, RateSet, BusTypes
  <2> HIDE DEF based
  <2>2. /\ Divider(based.base, khz) \in Nat /\ based.base \in Nat \ {0}
        /\ IF Divider(based.base, khz) = 0 THEN based.base <= khz
           ELSE based.base <= 2 * Divider(based.base, khz) * khz
    BY <1>3, <2>1, DividerSlows DEF BusTypes
  <2>3. /\ set \in BusTypes /\ set.voltReg18 = b.voltReg18 /\ set.regulator18 = b.regulator18
        /\ set.base = based.base /\ set.divider = Divider(based.base, khz)
    BY <2>1, <2>2 DEF BusTypes
  <2> HIDE DEF set
  <2>4. /\ divided \in BusTypes /\ divided.voltReg18 = b.voltReg18 /\ divided.regulator18 = b.regulator18
        /\ divided.base = set.base /\ divided.divider = set.divider
    BY <2>3 DEF Loaded, BusTypes, CiuClock
  <2> HIDE DEF divided
  <2>5. /\ last \in BusTypes /\ last.voltReg18 = b.voltReg18 /\ last.regulator18 = b.regulator18
        /\ last.base = set.base /\ last.divider = set.divider /\ last.enable
    BY <2>4 DEF BusTypes
  <2> HIDE DEF last
  <2>6. CASE n = 2
    <3>1. s = divided
      BY <1>3, <2>6 DEF ClockSet, divided, set, based, gated
    <3> HIDE DEF s
    <3> QED
      BY <1>3, <2>3, <2>4, <2>6, <3>1 DEF s, SetAsAsked
  <2>7. CASE n # 2
    <3>1. s = Loaded(last, n # 3)
      BY <1>3, <2>7 DEF ClockSet, last, divided, set, based, gated
    <3> HIDE DEF s
    <3>2. /\ s \in BusTypes /\ s.voltReg18 = b.voltReg18 /\ s.regulator18 = b.regulator18
          /\ s.base = set.base /\ s.divider = set.divider
          /\ n # 3 => s.ciu.on /\ s.ciu.divider = s.divider
      BY <2>5, <3>1 DEF Loaded, BusTypes, CiuClock
    <3> QED
      BY <1>3, <2>2, <2>3, <3>2 DEF s, SetAsAsked
  <2> QED
    BY <2>6, <2>7
<1> QED
  BY <1>2, <1>3

LEMMA BusInitHolds == BusInit => BusIInv
<1> SUFFICES ASSUME BusInit PROVE BusIInv
  OBVIOUS
<1>1. firmware \in [{"supply", "signal", "clock"} -> BOOLEAN]
  BY DEF BusInit, Controls
<1>2. bus \in BusTypes /\ ~bus.ciu.on
  BY KhzAssumption DEF BusInit, BusTypes, CiuClock
<1>3. card \in CardTypes /\ ~card.v18
  BY DEF BusInit, CardTypes, NoCard
<1>4. ext \in ExtTypes /\ ~ext.powerControl
  BY DEF BusInit, ExtTypes
<1> QED
  BY <1>1, <1>2, <1>3, <1>4 DEF BusInit, BusIInv, BusTypeOK, VoltageOK, ClockOK, ClockNotTooFast

LEMMA SetClockHolds ==
  ASSUME BusIInv, SetClock
  PROVE  BusIInv'
<1>1. PICK n \in 0..3, khz \in Khz :
        /\ BusOperation(n = 0, "running")
        /\ bus' = ClockSet(bus, Capped(khz), n)
        /\ ext' = IF n = 0 THEN [ext EXCEPT !.khz = Capped(khz)] ELSE ext
        /\ unstopped' = (unstopped /\ n # 0)
        /\ UNCHANGED <<card, blind>> /\ sdport \in {"powered", "running"}
  BY DEF SetClock
<1> DEFINE c == Capped(khz)
<1>2. c \in Nat \ {0}
  BY CappedTyped
<1> HIDE DEF c
<1>3. UNCHANGED <<firmware, card, blind>> /\ sdport' = IF n = 0 THEN "running" ELSE "failed"
  BY <1>1 DEF BusOperation
<1>4. /\ bus' \in BusTypes /\ bus'.voltReg18 = bus.voltReg18 /\ bus'.regulator18 = bus.regulator18
      /\ n = 0 => /\ bus'.ciu.on /\ bus'.ciu.divider = bus'.divider
                  /\ IF bus'.divider = 0 THEN bus'.base <= c ELSE bus'.base <= 2 * bus'.divider * c
  <2>1. bus' = ClockSet(bus, c, n) /\ bus \in BusTypes /\ firmware \in [{"supply", "signal", "clock"} -> BOOLEAN]
    BY <1>1 DEF BusIInv, BusTypeOK, c
  <2>2. SetAsAsked(bus', bus, c, n)
    BY <1>2, <2>1, ClockIsSet
  <2> QED
    BY <1>2, <2>2 DEF SetAsAsked
<1>5. ext' \in ExtTypes /\ ext'.signaling18 = ext.signaling18 /\ ext'.powerControl = ext.powerControl
      /\ (n = 0 => ext'.khz = c)
  BY <1>1, <1>2 DEF BusIInv, BusTypeOK, ExtTypes, c
<1>6. BusTypeOK'
  BY <1>1, <1>3, <1>4, <1>5 DEF BusIInv, BusTypeOK
<1>7. VoltageOK'
  BY <1>1, <1>3, <1>4, <1>5 DEF BusIInv, VoltageOK
<1>8. ClockOK'
  BY <1>1, <1>3, <1>4, <1>5 DEF ClockOK, ClockNotTooFast
<1> QED
  BY <1>6, <1>7, <1>8 DEF BusIInv

LEMMA SetVoltageHolds ==
  ASSUME BusIInv, SetVoltage
  PROVE  BusIInv'
<1>1. PICK on \in BOOLEAN :
        /\ sdport \in (IF on THEN {"reset"} ELSE {"powered", "running"})
        /\ BusOperation(TRUE, IF on THEN "powered" ELSE "reset")
        /\ ext' = [ext EXCEPT !.powerControl = PowerControl(firmware.supply)]
        /\ bus' = EnableSet(bus, on)
        /\ card' = IF firmware.supply THEN Supplied(card, on) ELSE card
        /\ UNCHANGED <<failures, history>>
  BY DEF SetVoltage
<1>2. UNCHANGED <<firmware, blind, unstopped>> /\ sdport' = (IF on THEN "powered" ELSE "reset")
  BY <1>1 DEF BusOperation, history
<1>3. /\ bus' \in BusTypes /\ bus'.voltReg18 = bus.voltReg18 /\ bus'.regulator18 = bus.regulator18
      /\ bus'.ciu = bus.ciu /\ bus'.base = bus.base
  <2>1. CASE on
    BY <1>1, <2>1 DEF BusIInv, BusTypeOK, BusTypes, EnableSet
  <2>2. CASE ~on
    BY <1>1, <2>2 DEF BusIInv, BusTypeOK, BusTypes, EnableSet
  <2> QED
    BY <2>1, <2>2
<1>4. /\ ext' \in ExtTypes /\ ext'.signaling18 = ext.signaling18 /\ ext'.khz = ext.khz
      /\ ext'.powerControl = firmware.supply
  BY <1>1 DEF BusIInv, BusTypeOK, ExtTypes, PowerControl
<1>5. card' \in CardTypes /\ (card'.v18 => card.v18) /\ (firmware.supply /\ ~on => ~card'.v18)
  BY <1>1 DEF BusIInv, BusTypeOK, CardTypes, Supplied
<1>6. BusTypeOK'
  BY <1>2, <1>3, <1>4, <1>5 DEF BusIInv, BusTypeOK
<1>7. VoltageOK'
  BY <1>1, <1>2, <1>3, <1>4, <1>5 DEF BusIInv, VoltageOK
<1>8. ClockOK'
  BY <1>1, <1>2, <1>3, <1>4 DEF BusIInv, ClockOK, ClockNotTooFast
<1> QED
  BY <1>6, <1>7, <1>8 DEF BusIInv

\* Both regulators at 3.3 V, if there is a second one.
LEMMA At33Typed ==
  ASSUME NEW b \in BusTypes, firmware \in [{"supply", "signal", "clock"} -> BOOLEAN]
  PROVE  At33(b) \in BusTypes /\ At33(b).ciu = b.ciu /\ At33(b).base = b.base /\ At33(b).divider = b.divider
BY DEF At33, VoltageSet, BusTypes

LEMMA SetSignaling33Holds ==
  ASSUME BusIInv, SetSignaling33
  PROVE  BusIInv'
<1> DEFINE stay == StayAt18(bus, ext, card)
<1>1. /\ sdport = "powered" /\ sdport' \in {"powered", "failed"} /\ UNCHANGED <<firmware, card, unstopped>>
      /\ IF stay THEN UNCHANGED <<bus, ext>>
         ELSE bus' = At33(bus) /\ ext' = IF firmware.signal THEN [ext EXCEPT !.signaling18 = FALSE] ELSE ext
      /\ blind' = (blind \/ (card.v18 /\ ~CardAnswers(bus, card)))
  BY DEF SetSignaling33, BusOperation
<1>2. bus' \in BusTypes /\ bus'.ciu = bus.ciu /\ bus'.base = bus.base
  BY <1>1, At33Typed DEF BusIInv, BusTypeOK
<1>3. ext' \in ExtTypes /\ ext'.khz = ext.khz /\ ext'.powerControl = ext.powerControl
  BY <1>1 DEF BusIInv, BusTypeOK, ExtTypes
<1>4. card.v18 /\ ~blind' => stay
  BY <1>1 DEF BusIInv, BusTypeOK, VoltageOK, StayAt18
<1>5. BusTypeOK'
  BY <1>1, <1>2, <1>3 DEF BusIInv, BusTypeOK
<1>6. VoltageOK'
  BY <1>1, <1>3, <1>4 DEF BusIInv, BusTypeOK, VoltageOK
<1>7. ClockOK'
  BY <1>1, <1>2, <1>3 DEF BusIInv, ClockOK, ClockNotTooFast
<1> QED
  BY <1>5, <1>6, <1>7 DEF BusIInv

LEMMA SetSignaling18Holds ==
  ASSUME BusIInv, SetSignaling18
  PROVE  BusIInv'
<1> DEFINE NowStopped(n) == Loaded([bus EXCEPT !.enable = FALSE], n = 0)
           High(b) == VoltageSet([b EXCEPT !.voltReg18 = TRUE], TRUE)
<1>1. PICK follows \in BOOLEAN, stop, start \in {0, 1} :
        LET ok == firmware.signal /\ follows
            at18 == High(NowStopped(stop))
        IN /\ stop + start # 0 => ~follows
           /\ BusOperation(ok, "running")
           /\ bus' = IF firmware.signal THEN Loaded([at18 EXCEPT !.enable = TRUE], start = 0) ELSE at18
           /\ ext' = IF ok THEN [ext EXCEPT !.signaling18 = TRUE] ELSE ext
           /\ card' = [card EXCEPT !.switching = FALSE, !.v18 = ok]
           /\ UNCHANGED history /\ sdport = "running"
  BY ZenonT(40) DEF SetSignaling18
<1> DEFINE ok == firmware.signal /\ follows
           at18 == High(NowStopped(stop))
<1>2. /\ UNCHANGED <<firmware, blind, unstopped>> /\ sdport' = IF ok THEN "running" ELSE "failed"
      /\ ok => stop = 0 /\ start = 0
  BY <1>1 DEF BusOperation, history
<1>3. NowStopped(stop) \in BusTypes /\ NowStopped(stop).divider = bus.divider /\ NowStopped(stop).base = bus.base
  BY DEF BusIInv, BusTypeOK, BusTypes, CiuClock, Loaded
<1>4. /\ at18 \in BusTypes /\ at18.divider = bus.divider /\ at18.base = bus.base
      /\ firmware.signal => at18.voltReg18 /\ at18.regulator18
  <2> HIDE DEF NowStopped
  <2> QED
    BY <1>3 DEF VoltageSet, BusTypes, BusIInv, BusTypeOK
<1>5. /\ bus' \in BusTypes /\ bus'.base = bus.base
      /\ ok => /\ bus'.voltReg18 /\ bus'.regulator18
               /\ bus'.ciu.on /\ bus'.ciu.divider = bus'.divider /\ bus'.divider = bus.divider
  <2> HIDE DEF High, NowStopped
  <2> QED
    BY <1>1, <1>2, <1>4 DEF Loaded, BusTypes, CiuClock
<1>6. ext' \in ExtTypes /\ ext'.khz = ext.khz /\ ext'.powerControl = ext.powerControl /\ (ok => ext'.signaling18)
  BY <1>1 DEF BusIInv, BusTypeOK, ExtTypes
<1>7. card' \in CardTypes /\ card'.v18 = ok
  BY <1>1 DEF BusIInv, BusTypeOK, CardTypes
<1>8. BusTypeOK'
  BY <1>2, <1>5, <1>6, <1>7 DEF BusIInv, BusTypeOK
<1>9. VoltageOK'
  BY <1>2, <1>5, <1>6, <1>7 DEF BusIInv, VoltageOK
<1>10. ClockOK'
  BY <1>1, <1>2, <1>5, <1>6 DEF BusIInv, ClockOK, ClockNotTooFast
<1> QED
  BY <1>8, <1>9, <1>10 DEF BusIInv

LEMMA ResetAllHolds ==
  ASSUME BusIInv, ResetAll
  PROVE  BusIInv'
<1> DEFINE Synced(n) == Loaded(bus, n = 0)
           e == [ext EXCEPT !.powerControl = PowerControl(firmware.supply)]
           c == IF firmware.supply THEN Supplied(card, FALSE) ELSE card
           Level(b) == IF StayAt18(b, e, c) THEN EnableSet(b, FALSE) ELSE At33(EnableSet(b, FALSE))
<1>1. PICK sync, stop \in {0, 1} :
        /\ bus' = [ClockSet(Level(Synced(sync)), 0, stop) EXCEPT !.masked = TRUE, !.width = 1]
        /\ ext' = [e EXCEPT !.signaling18 = @ /\ (StayAt18(Synced(sync), e, c) \/ ~firmware.signal),
                            !.khz = IF stop = 1 THEN @ ELSE 0]
        /\ card' = [c EXCEPT !.switching = FALSE]
        /\ blind' = (blind \/ (c.v18 /\ ~CardAnswers(Synced(sync), c))) /\ unstopped' = (stop = 1)
        /\ sdport # "off" /\ sdport' = "reset" /\ UNCHANGED firmware
  BY ZenonT(40) DEF ResetAll
<1> DEFINE synced == Synced(sync)
           level == Level(synced)
           stay == StayAt18(synced, e, c)
           set == ClockSet(level, 0, stop)
<1>2. synced \in BusTypes /\ synced.voltReg18 = bus.voltReg18 /\ synced.regulator18 = bus.regulator18
  BY DEF BusIInv, BusTypeOK, BusTypes, CiuClock, Loaded
<1>3. e \in ExtTypes /\ e.signaling18 = ext.signaling18 /\ e.powerControl = firmware.supply /\ e.khz = ext.khz
  BY DEF BusIInv, BusTypeOK, ExtTypes, PowerControl
<1>4. c \in CardTypes /\ (c.v18 => card.v18) /\ (firmware.supply => ~c.v18)
  BY DEF BusIInv, BusTypeOK, CardTypes, Supplied
<1> HIDE DEF Synced, e, c
<1>5. /\ level \in BusTypes
      /\ stay => level.voltReg18 = bus.voltReg18 /\ level.regulator18 = bus.regulator18
  <2>1. EnableSet(synced, FALSE) \in BusTypes
        /\ EnableSet(synced, FALSE).voltReg18 = bus.voltReg18 /\ EnableSet(synced, FALSE).regulator18 = bus.regulator18
    BY <1>2 DEF EnableSet, BusTypes
  <2> QED
    BY <2>1, At33Typed DEF BusIInv, BusTypeOK
<1> HIDE DEF Level
<1>6. /\ set \in BusTypes /\ set.voltReg18 = level.voltReg18 /\ set.regulator18 = level.regulator18
      /\ stop = 0 => ~set.ciu.on
  <2> HIDE DEF level
  <2>1. level \in BusTypes /\ firmware \in [{"supply", "signal", "clock"} -> BOOLEAN] /\ stop \in 0..3
    BY <1>5 DEF BusIInv, BusTypeOK
  <2>2. SetAsAsked(set, level, 0, stop)
    BY <2>1, ClockIsSet
  <2>3. stop = 0 => stop # 1
    OBVIOUS
  <2> QED
    BY <2>2, <2>3 DEF SetAsAsked
<1> HIDE DEF set
<1>7. /\ bus' \in BusTypes /\ bus'.voltReg18 = level.voltReg18 /\ bus'.regulator18 = level.regulator18
      /\ stop = 0 => ~bus'.ciu.on
  BY <1>1, <1>6 DEF BusTypes, set
<1>8. /\ ext' \in ExtTypes /\ ext'.powerControl = firmware.supply
      /\ stay => ext'.signaling18 = ext.signaling18
  BY <1>1, <1>3 DEF ExtTypes, BusIInv, BusTypeOK
<1>9. card' \in CardTypes /\ card'.v18 = c.v18
  BY <1>1, <1>4 DEF CardTypes
<1>10. card'.v18 /\ ~blind' => card.v18 /\ ~blind /\ stay
  BY <1>1, <1>3, <1>4, <1>9 DEF BusIInv, BusTypeOK, VoltageOK, StayAt18
<1>11. BusTypeOK'
  BY <1>1, <1>7, <1>8, <1>9 DEF BusIInv, BusTypeOK
<1>12. VoltageOK'
  BY <1>1, <1>4, <1>5, <1>7, <1>8, <1>9, <1>10 DEF BusIInv, VoltageOK
<1>13. ClockOK'
  BY <1>1, <1>7 DEF ClockOK, ClockNotTooFast
<1> QED
  BY <1>11, <1>12, <1>13 DEF BusIInv

\* A step that leaves the clock and the voltages alone.
Untouched ==
  /\ bus' \in BusTypes /\ bus'.voltReg18 = bus.voltReg18 /\ bus'.regulator18 = bus.regulator18
  /\ bus'.ciu = bus.ciu /\ bus'.base = bus.base /\ bus'.divider = bus.divider
  /\ ext' \in ExtTypes /\ ext'.signaling18 = ext.signaling18 /\ ext'.powerControl = ext.powerControl
  /\ ext'.khz = ext.khz
  /\ card' \in CardTypes /\ (card'.v18 => card.v18)
  /\ UNCHANGED <<firmware, blind, unstopped>>
  /\ sdport' = sdport \/ (sdport # "off" /\ sdport' = "failed")

LEMMA UntouchedHolds ==
  ASSUME BusIInv, Untouched
  PROVE  BusIInv'
<1>1. BusTypeOK'
  BY DEF BusIInv, BusTypeOK, Untouched
<1>2. VoltageOK'
  BY DEF BusIInv, VoltageOK, Untouched
<1>3. ClockOK'
  BY DEF BusIInv, ClockOK, ClockNotTooFast, Untouched
<1> QED
  BY <1>1, <1>2, <1>3 DEF BusIInv

\* The operations on other registers, and what the card does.
LEMMA OthersHold ==
  ASSUME BusIInv,
         \/ ResetFails \/ SetBusWidth \/ SetBusSpeed \/ ToggleEvents
         \/ Identify \/ VoltageSwitch \/ GetResponse \/ Exchange
  PROVE  BusIInv'
<1> USE DEF BusIInv, BusTypeOK, history
<1>1. ASSUME ResetFails PROVE Untouched
  BY <1>1 DEF ResetFails, Untouched
<1>2. ASSUME SetBusWidth PROVE Untouched
  <2>1. bus' \in BusTypes /\ bus'.voltReg18 = bus.voltReg18 /\ bus'.regulator18 = bus.regulator18
        /\ bus'.ciu = bus.ciu /\ bus'.base = bus.base /\ bus'.divider = bus.divider
    BY <1>2 DEF SetBusWidth, BusTypes
  <2> QED
    BY <1>2, <2>1 DEF SetBusWidth, BusOperation, Untouched
<1>3. ASSUME SetBusSpeed PROVE Untouched
  <2>1. bus' \in BusTypes /\ bus'.voltReg18 = bus.voltReg18 /\ bus'.regulator18 = bus.regulator18
        /\ bus'.ciu = bus.ciu /\ bus'.base = bus.base /\ bus'.divider = bus.divider
    BY <1>3 DEF SetBusSpeed, BusTypes
  <2> QED
    BY <1>3, <2>1 DEF SetBusSpeed, BusOperation, Untouched
<1>4. ASSUME ToggleEvents PROVE Untouched
  <2>1. bus' \in BusTypes /\ bus'.voltReg18 = bus.voltReg18 /\ bus'.regulator18 = bus.regulator18
        /\ bus'.ciu = bus.ciu /\ bus'.base = bus.base /\ bus'.divider = bus.divider
    BY <1>4 DEF ToggleEvents, BusTypes
  <2> QED
    BY <1>4, <2>1 DEF ToggleEvents, BusOperation, Untouched
<1>5. ASSUME Identify PROVE Untouched
  <2>1. card' \in CardTypes /\ card'.v18 = card.v18
    BY <1>5 DEF Identify, CardTypes
  <2> QED
    BY <1>5, <2>1 DEF Identify, Untouched
<1>6. ASSUME VoltageSwitch PROVE Untouched
  <2>1. card' \in CardTypes /\ card'.v18 = card.v18
    BY <1>6 DEF VoltageSwitch, CardTypes
  <2> QED
    BY <1>6, <2>1 DEF VoltageSwitch, Untouched
<1>7. ASSUME GetResponse PROVE Untouched
  <2>1. PICK rca \in 1..2 : card' = [card EXCEPT !.rca = rca] /\ ext' = [ext EXCEPT !.rca = rca]
    BY <1>7 DEF GetResponse
  <2>2. card' \in CardTypes /\ card'.v18 = card.v18
    BY <2>1 DEF CardTypes
  <2>3. /\ ext' \in ExtTypes /\ ext'.signaling18 = ext.signaling18 /\ ext'.powerControl = ext.powerControl
        /\ ext'.khz = ext.khz
    BY <2>1 DEF ExtTypes
  <2> QED
    BY <1>7, <2>2, <2>3 DEF GetResponse, Untouched
<1>8. ASSUME Exchange PROVE Untouched
  <2>1. NoCard \in CardTypes /\ ~NoCard.v18
    BY DEF NoCard, CardTypes
  <2>2. card' \in CardTypes /\ ~card'.v18
    BY <1>8, <2>1 DEF Exchange, CardTypes, BusTypes
  <2> QED
    BY <1>8, <2>2 DEF Exchange, Untouched
<1> QED
  BY <1>1, <1>2, <1>3, <1>4, <1>5, <1>6, <1>7, <1>8, UntouchedHolds

LEMMA SlotInitializeHolds ==
  ASSUME BusIInv, SlotInitialize
  PROVE  BusIInv'
<1>1. PICK implemented \in SUBSET {"supply", "signal", "clock"} : firmware' = Controls(implemented)
  BY DEF SlotInitialize
<1>2. firmware' \in [{"supply", "signal", "clock"} -> BOOLEAN]
  BY <1>1 DEF Controls
<1>3. sdport = "off" /\ sdport' = "failed" /\ UNCHANGED <<bus, ext, card, blind, unstopped>>
  BY DEF SlotInitialize, history
<1> QED
  BY <1>2, <1>3 DEF BusIInv, BusTypeOK, VoltageOK, ClockOK, ClockNotTooFast

LEMMA BusStepHolds == BusIInv /\ [BusNext]_busVars => BusIInv'
<1> SUFFICES ASSUME BusIInv, [BusNext]_busVars PROVE BusIInv'
  OBVIOUS
<1>1. CASE UNCHANGED busVars
  <2>1. Untouched
    BY <1>1 DEF busVars, history, Untouched, BusIInv, BusTypeOK
  <2> QED
    BY <2>1, UntouchedHolds
<1> QED
  BY <1>1, SlotInitializeHolds, ResetAllHolds, SetClockHolds, SetVoltageHolds, SetSignaling33Holds,
     SetSignaling18Holds, OthersHold DEF BusNext

\* For any clock rates and any number of updates and resets that time out, a
\* card that has switched to 1.8 V and has its address is driven at 1.8 V by
\* both regulators, as long as every reset could ask the card for its status.
THEOREM CardAtItsVoltage == BusSpec => []VoltageMatchesCard
<1>1. BusIInv => VoltageMatchesCard
  BY DEF BusIInv, VoltageOK, VoltageMatchesCard
<1> QED
  BY <1>1, BusInitHolds, BusStepHolds, PTL DEF BusSpec

\* For any clock rates and whichever updates of the clock time out, the wire is
\* no faster than BusFrequencyKhz says, until the driver is told to start over
\* and as long as every reset could stop the clock.
THEOREM WireNotTooFast == BusSpec => []ClockNotTooFast
<1>1. BusIInv => ClockNotTooFast
  BY DEF BusIInv, ClockOK
<1> QED
  BY <1>1, BusInitHolds, BusStepHolds, PTL DEF BusSpec

-----------------------------------------------------------------------------
(* The tuning of the sampling clock.                                       *)

RANGE == [start : Phases, end : Phases]

\* The ranges are the runs of the phases that have passed so far: each phase
\* between two of them was skipped or failed.
RangesInv ==
  /\ ranges \in Seq(RANGE) /\ passed \subseteq Phases
  /\ \A k \in 1 .. Len(ranges) :
       /\ ranges[k].start <= ranges[k].end
       /\ \A p \in ranges[k].start .. ranges[k].end : p \in passed
  /\ \A j, k \in 1 .. Len(ranges) : j < k => ranges[j].end + 1 < ranges[k].start
  /\ \A p \in passed : \E k \in 1 .. Len(ranges) : ranges[k].start <= p /\ p <= ranges[k].end

ScanInv ==
  /\ index \in Int /\ index >= Off
  /\ \A p \in passed : p < index
  /\ index <= 0 => ranges = << >> /\ passed = {}

FlagsInv ==
  /\ previous \in BOOLEAN /\ first \in BOOLEAN
  /\ index <= 0 => previous = FALSE
  /\ index > 0 => (first <=> 0 \in passed)
  /\ index \in 1 .. NumPhases => (previous <=> index - 1 \in passed)
  /\ previous /\ index <= NumPhases => ranges # << >> /\ ranges[Len(ranges)].end = index - 1

\* Two ranges are at least one phase apart.
FitInv ==
  /\ 2 * Len(ranges) <= NumPhases + 1
  /\ index \in 0 .. NumPhases => 2 * Len(ranges) <= index + 1
  /\ index \in 0 .. NumPhases /\ ~previous => 2 * Len(ranges) <= index

TuningInv == RangesInv /\ ScanInv /\ FlagsInv /\ FitInv

LEMMA TuningInitInv == TuningInit => TuningInv
<1> SUFFICES ASSUME TuningInit PROVE TuningInv
  OBVIOUS
<1>1. index = -1 /\ ranges = << >> /\ passed = {} /\ previous = FALSE /\ first = FALSE
  BY DEF TuningInit, Off
<1>2. ranges \in Seq(RANGE) /\ Len(ranges) = 0
  BY <1>1
<1>3. RangesInv
  BY <1>1, <1>2 DEF RangesInv
<1>4. ScanInv
  BY <1>1 DEF ScanInv, Off
<1>5. FlagsInv
  BY <1>1 DEF FlagsInv
<1>6. FitInv
  BY <1>1, <1>2, PhasesAssumption DEF FitInv
<1> QED
  BY <1>3, <1>4, <1>5, <1>6 DEF TuningInv

\* The first phase after one that failed is further.
LEMMA SkippedIs ==
  ASSUME NEW i \in Phases
  PROVE  Skipped(i) \in 1 .. NumPhases /\ i < Skipped(i)
BY PhasesAssumption DEF Skipped, Phases

LEMMA FailedPhase ==
  ASSUME TuningInv, index \in Phases, ~previous', index' = Skipped(index), previous' \in BOOLEAN,
         first' = (IF index = 0 THEN FALSE ELSE first), UNCHANGED <<ranges, passed>>
  PROVE  TuningInv'
<1>1. index' \in 1 .. NumPhases /\ index < index' /\ index \in Nat /\ NumPhases \in Nat
  BY SkippedIs, PhasesAssumption DEF Phases
<1>2. RangesInv'
  BY DEF TuningInv, RangesInv
<1>3. \A p \in passed : p \in Int /\ p < index
  BY PhasesAssumption DEF TuningInv, RangesInv, ScanInv, Phases
<1>4. ScanInv'
  BY <1>1, <1>3, PhasesAssumption DEF ScanInv, Off
<1>5. index' - 1 \notin passed
  BY <1>1, <1>3
<1>6. first' \in BOOLEAN /\ (first' <=> 0 \in passed)
  <2>1. CASE index = 0
    <3>1. first' = FALSE /\ 0 \notin passed
      BY <2>1, <1>3
    <3> QED
      BY <3>1
  <2>2. CASE index # 0
    <3>1. index > 0 /\ first' = first
      BY <2>2, <1>1
    <3>2. first \in BOOLEAN /\ (first <=> 0 \in passed)
      BY <3>1 DEF TuningInv, FlagsInv
    <3>3. CASE first = TRUE
      BY <3>1, <3>2, <3>3
    <3>4. CASE first = FALSE
      BY <3>1, <3>2, <3>4
    <3> QED
      BY <3>2, <3>3, <3>4
  <2> QED
    BY <2>1, <2>2
<1>7. previous' = FALSE /\ ~(index' <= 0)
  BY <1>1
<1>8. FlagsInv'
  BY <1>5, <1>6, <1>7 DEF FlagsInv
<1>9. FitInv'
  <2>1. Len(ranges) \in Nat /\ 2 * Len(ranges) <= index + 1 /\ index + 1 <= index'
    BY <1>1 DEF TuningInv, RangesInv, FitInv
  <2> QED
    BY <2>1, <1>1 DEF TuningInv, FitInv
<1> QED
  BY <1>2, <1>4, <1>8, <1>9 DEF TuningInv

LEMMA PassedPhase ==
  ASSUME TuningInv, index \in Phases, previous' = TRUE, index' = index + 1,
         first' = (IF index = 0 THEN TRUE ELSE first), ranges' = Noted(index),
         passed' = passed \cup {index}
  PROVE  TuningInv'
<1> DEFINE n == Len(ranges)
<1>1. index \in Nat /\ index < NumPhases /\ NumPhases \in Nat /\ n \in Nat
  BY PhasesAssumption DEF Phases, TuningInv, RangesInv
<1>2. \A p \in passed : p \in Int /\ 0 <= p /\ p < index
  BY PhasesAssumption DEF TuningInv, RangesInv, ScanInv, Phases
<1>3. \A k \in 1 .. n : /\ ranges[k] \in RANGE
                        /\ ranges[k].start \in Int /\ ranges[k].end \in Int
                        /\ 0 <= ranges[k].start
                        /\ ranges[k].start <= ranges[k].end
                        /\ ranges[k].end < index
  <2> TAKE k \in 1 .. n
  <2>1. ranges[k] \in RANGE
    BY DEF TuningInv, RangesInv
  <2>2. ranges[k].start \in Phases /\ ranges[k].end \in Phases
    BY <2>1 DEF RANGE
  <2>3. ranges[k].start \in Int /\ ranges[k].end \in Int /\ 0 <= ranges[k].start
    BY <2>2, <1>1 DEF Phases
  <2>4. ranges[k].start <= ranges[k].end
    BY DEF TuningInv, RangesInv
  <2>5. ranges[k].end \in passed
    BY <2>3, <2>4 DEF TuningInv, RangesInv
  <2> QED
    BY <2>1, <2>3, <2>4, <2>5, <1>2
<1>4. first' \in BOOLEAN /\ (first' <=> 0 \in passed')
  <2>1. CASE index = 0
    <3>1. first' = TRUE /\ 0 \in passed'
      BY <2>1
    <3> QED
      BY <3>1
  <2>2. CASE index # 0
    <3>1. index > 0 /\ first' = first /\ (0 \in passed <=> 0 \in passed')
      BY <2>2, <1>1
    <3>2. first \in BOOLEAN /\ (first <=> 0 \in passed)
      BY <3>1 DEF TuningInv, FlagsInv
    <3>3. CASE first = TRUE
      BY <3>1, <3>2, <3>3
    <3>4. CASE first = FALSE
      BY <3>1, <3>2, <3>4
    <3> QED
      BY <3>2, <3>3, <3>4
  <2> QED
    BY <2>1, <2>2
<1>5. passed' \subseteq Phases /\ (\A p \in passed' : p < index')
  BY <1>1, <1>2 DEF TuningInv, RangesInv
<1>8. ScanInv'
  BY <1>1, <1>5 DEF ScanInv, Off
<1>9. ASSUME ranges' # << >>, ranges'[Len(ranges')].end = index' - 1
      PROVE  FlagsInv'
  <2>1. previous' = TRUE /\ ~(index' <= 0) /\ index' - 1 \in passed'
    BY <1>1
  <2> QED
    BY <2>1, <1>4, <1>9 DEF FlagsInv
<1>6. CASE previous
  <2>1. n >= 1 /\ n \in 1 .. n /\ ranges[n].end = index - 1 /\ ranges \in Seq(RANGE)
    BY <1>1, <1>6 DEF TuningInv, RangesInv, FlagsInv
  <2> DEFINE r == [ranges[n] EXCEPT !.end = index]
  <2>2. r \in RANGE /\ r.start = ranges[n].start /\ r.end = index
    BY <1>3, <2>1 DEF RANGE
  <2>3. ranges' = [ranges EXCEPT ![n] = r]
    BY <1>6 DEF Noted
  <2> HIDE DEF r
  <2>4. /\ ranges' \in Seq(RANGE) /\ Len(ranges') = n /\ ranges'[n] = r
        /\ \A k \in 1 .. n : k # n => ranges'[k] = ranges[k]
    BY <2>1, <2>2, <2>3
  <2>5. ASSUME NEW k \in 1 .. n
        PROVE  /\ ranges'[k].start <= ranges'[k].end
               /\ \A p \in ranges'[k].start .. ranges'[k].end : p \in passed'
    <3>1. CASE k = n
      <4>1. ranges'[k].start = ranges[n].start /\ ranges'[k].end = index
        BY <3>1, <2>2, <2>4
      <4>2. \A p \in ranges[n].start .. index : p = index \/ p \in ranges[n].start .. ranges[n].end
        BY <1>3, <2>1, <1>1
      <4>3. \A p \in ranges[n].start .. ranges[n].end : p \in passed
        BY <2>1 DEF TuningInv, RangesInv
      <4> QED
        BY <4>1, <4>2, <4>3, <1>3, <2>1, <1>1
    <3>2. CASE k # n
      <4>1. ranges'[k] = ranges[k]
        BY <3>2, <2>4
      <4> QED
        BY <4>1 DEF TuningInv, RangesInv
    <3> QED
      BY <3>1, <3>2
  <2>6. ASSUME NEW j \in 1 .. n, NEW k \in 1 .. n, j < k
        PROVE  ranges'[j].end + 1 < ranges'[k].start
    <3>1. j # n
      BY <1>1, <2>6
    <3>2. ranges'[j] = ranges[j] /\ ranges'[k].start = ranges[k].start
      BY <3>1, <2>2, <2>4
    <3>3. ranges[j].end + 1 < ranges[k].start
      BY <2>6 DEF TuningInv, RangesInv
    <3> QED
      BY <3>2, <3>3
  <2>7. ASSUME NEW p \in passed'
        PROVE  \E k \in 1 .. n : ranges'[k].start <= p /\ p <= ranges'[k].end
    <3>1. CASE p = index
      BY <3>1, <2>1, <2>2, <2>4, <1>1, <1>3
    <3>2. CASE p \in passed
      <4>1. PICK k \in 1 .. n : ranges[k].start <= p /\ p <= ranges[k].end
        BY <3>2 DEF TuningInv, RangesInv
      <4>2. CASE k = n
        BY <4>1, <4>2, <3>2, <2>1, <2>2, <2>4, <1>1, <1>2
      <4>3. CASE k # n
        BY <4>1, <4>3, <2>4
      <4> QED
        BY <4>2, <4>3
    <3> QED
      BY <3>1, <3>2
  <2>8. RangesInv'
    BY <2>4, <2>5, <2>6, <2>7, <1>5 DEF RangesInv
  <2>9. FlagsInv'
    <3>1. ranges' # << >> /\ ranges'[Len(ranges')].end = index' - 1
      BY <1>1, <2>1, <2>2, <2>4
    <3> QED
      BY <3>1, <1>9
  <2>10. FitInv'
    <3>1. 2 * n <= index + 1 /\ 2 * n <= NumPhases + 1 /\ Len(ranges') = n
      BY <1>1, <2>4 DEF TuningInv, FitInv
    <3> QED
      BY <3>1, <1>1 DEF FitInv
  <2> QED
    BY <1>8, <2>8, <2>9, <2>10 DEF TuningInv
<1>7. CASE ~previous
  <2> DEFINE r == [start |-> index, end |-> index]
  <2>1. r \in RANGE /\ r.start = index /\ r.end = index
    BY DEF RANGE
  <2>2. ranges' = Append(ranges, r) /\ ranges \in Seq(RANGE)
    BY <1>7 DEF Noted, TuningInv, RangesInv
  <2> HIDE DEF r
  <2>3. /\ ranges' \in Seq(RANGE) /\ Len(ranges') = n + 1 /\ ranges'[n + 1] = r
        /\ \A k \in 1 .. n : ranges'[k] = ranges[k]
    BY <2>1, <2>2
  <2>4. index - 1 \notin passed
    <3>1. CASE index = 0
      BY <3>1, <1>2
    <3>2. CASE index # 0
      BY <3>2, <1>1, <1>7 DEF TuningInv, FlagsInv
    <3> QED
      BY <3>1, <3>2
  <2>5. \A k \in 1 .. n : ranges[k].end + 1 < index
    <3> TAKE k \in 1 .. n
    <3>1. ranges[k].end \in passed
      BY <1>3 DEF TuningInv, RangesInv
    <3> QED
      BY <3>1, <1>3, <2>4, <1>1
  <2>6. ASSUME NEW k \in 1 .. n + 1
        PROVE  /\ ranges'[k].start <= ranges'[k].end
               /\ \A p \in ranges'[k].start .. ranges'[k].end : p \in passed'
    <3>1. CASE k = n + 1
      <4>1. ranges'[k].start = index /\ ranges'[k].end = index
        BY <3>1, <2>1, <2>3
      <4> QED
        BY <4>1, <1>1
    <3>2. CASE k \in 1 .. n
      <4>1. ranges'[k] = ranges[k]
        BY <3>2, <2>3
      <4> QED
        BY <4>1, <3>2 DEF TuningInv, RangesInv
    <3> QED
      BY <3>1, <3>2, <1>1
  <2>7. ASSUME NEW j \in 1 .. n + 1, NEW k \in 1 .. n + 1, j < k
        PROVE  ranges'[j].end + 1 < ranges'[k].start
    <3>1. j \in 1 .. n /\ ranges'[j] = ranges[j]
      BY <1>1, <2>3, <2>7
    <3>2. CASE k = n + 1
      BY <3>1, <3>2, <2>1, <2>3, <2>5
    <3>3. CASE k \in 1 .. n
      <4>1. ranges'[k] = ranges[k]
        BY <3>3, <2>3
      <4> QED
        BY <3>1, <4>1, <3>3, <2>7 DEF TuningInv, RangesInv
    <3> QED
      BY <3>2, <3>3, <1>1
  <2>8. ASSUME NEW p \in passed'
        PROVE  \E k \in 1 .. n + 1 : ranges'[k].start <= p /\ p <= ranges'[k].end
    <3>1. CASE p = index
      BY <3>1, <2>1, <2>3, <1>1
    <3>2. CASE p \in passed
      <4>1. PICK k \in 1 .. n : ranges[k].start <= p /\ p <= ranges[k].end
        BY <3>2 DEF TuningInv, RangesInv
      <4> QED
        BY <4>1, <2>3, <1>1
    <3> QED
      BY <3>1, <3>2
  <2>9. RangesInv'
    BY <2>3, <2>6, <2>7, <2>8, <1>5 DEF RangesInv
  <2>10. FlagsInv'
    <3>1. ranges' # << >> /\ ranges'[Len(ranges')].end = index' - 1
      BY <1>1, <2>1, <2>3
    <3> QED
      BY <3>1, <1>9
  <2>11. FitInv'
    <3>1. 2 * n <= index /\ Len(ranges') = n + 1
      BY <1>1, <1>7, <2>3 DEF TuningInv, FitInv
    <3> QED
      BY <3>1, <1>1 DEF FitInv
  <2> QED
    BY <1>8, <2>9, <2>10, <2>11 DEF TuningInv
<1> QED
  BY <1>6, <1>7 DEF TuningInv, FlagsInv

LEMMA TuningStep == TuningInv /\ [TuningNext]_tuningVars => TuningInv'
<1> SUFFICES ASSUME TuningInv, [TuningNext]_tuningVars PROVE TuningInv'
  OBVIOUS
<1>1. CASE StartTuning
  <2>1. /\ index' = 0 /\ ranges' = << >> /\ previous' = FALSE /\ first' = FALSE /\ passed' = {}
        /\ ranges' \in Seq(RANGE) /\ Len(ranges') = 0
    BY <1>1 DEF StartTuning
  <2>2. RangesInv'
    BY <2>1 DEF RangesInv
  <2>3. ScanInv'
    BY <2>1 DEF ScanInv, Off
  <2>4. FlagsInv'
    <3>1. ~(index' > 0) /\ ~(index' \in 1 .. NumPhases) /\ previous' = FALSE /\ first' = FALSE
      BY <2>1
    <3> QED
      BY <3>1 DEF FlagsInv
  <2>5. FitInv'
    BY <2>1, PhasesAssumption DEF FitInv
  <2> QED
    BY <2>2, <2>3, <2>4, <2>5 DEF TuningInv
<1>2. CASE TryPhase
  <2>1. PICK ok \in BOOLEAN :
          /\ previous' = ok
          /\ first' = IF index = 0 THEN ok ELSE first
          /\ IF ok
             THEN /\ ranges' = Noted(index) /\ index' = index + 1
                  /\ passed' = passed \cup {index}
             ELSE /\ index' = Skipped(index)
                  /\ UNCHANGED <<ranges, passed>>
    BY <1>2 DEF TryPhase
  <2>2. index \in Phases
    BY <1>2 DEF TryPhase
  <2>3. CASE ok = TRUE
    BY <2>1, <2>2, <2>3, PassedPhase
  <2>4. CASE ok = FALSE
    BY <2>1, <2>2, <2>4, FailedPhase
  <2> QED
    BY <2>3, <2>4
<1>3. CASE Choose
  <2>1. index = NumPhases /\ index' = NumPhases + 1 /\ UNCHANGED <<ranges, previous, first, passed>>
    BY <1>3 DEF Choose, Done
  <2>2. RangesInv'
    BY <2>1 DEF TuningInv, RangesInv
  <2>3. NumPhases \in Nat /\ NumPhases > 0 /\ (\A p \in passed : p \in Int)
    BY PhasesAssumption DEF TuningInv, RangesInv, Phases
  <2>4. ScanInv'
    BY <2>1, <2>3 DEF TuningInv, ScanInv, Off
  <2>5. FlagsInv'
    <3>1. ~(index' <= 0) /\ ~(index' <= NumPhases) /\ ~(index' \in 1 .. NumPhases) /\ index > 0
      BY <2>1, <2>3
    <3>2. /\ previous' \in BOOLEAN /\ first' \in BOOLEAN
          /\ (first' <=> 0 \in passed')
      BY <2>1, <3>1 DEF TuningInv, FlagsInv
    <3> QED
      BY <3>1, <3>2 DEF FlagsInv
  <2>6. FitInv'
    BY <2>1, <2>3 DEF TuningInv, FitInv
  <2> QED
    BY <2>2, <2>4, <2>5, <2>6 DEF TuningInv
<1>4. CASE UNCHANGED tuningVars
  BY <1>4 DEF tuningVars, TuningInv, RangesInv, ScanInv, FlagsInv, FitInv
<1> QED
  BY <1>1, <1>2, <1>3, <1>4 DEF TuningNext


-----------------------------------------------------------------------------
\* A set of natural numbers that is not empty has a least one.
LEMMA Least ==
  ASSUME NEW T \in SUBSET Nat, T # {}
  PROVE  \E m \in T : \A n \in T : m <= n
<1> DEFINE R == {q \in Nat \X Nat : q[1] < q[2]}
<1>1. R = OpToRel(<, Nat)
  BY DEF OpToRel
<1>2. IsWellFoundedOn(R, Nat)
  BY <1>1, NatLessThanWellFounded
<1> HIDE DEF R
<1>3. PICK m \in T : \A n \in T : ~ (<<n, m>> \in R)
  BY <1>2, WFMin
<1>4. \A n \in T : m <= n
  <2> TAKE n \in T
  <2>1. n \in Nat /\ m \in Nat
    OBVIOUS
  <2>2. ~(<<n, m>> \in R)
    BY <1>3
  <2>3. ~(n < m)
    BY <2>1, <2>2 DEF R
  <2> QED
    BY <2>1, <2>3
<1> QED
  BY <1>4

\* The choice of the first of the longest is defined.
LEMMA LongestIs ==
  ASSUME NEW rs \in Seq(RANGE), rs # << >>,
         \A j \in 1 .. Len(rs) : Length(rs[j]) \in 1 .. NumPhases
  PROVE  /\ Longest(rs) \in 1 .. Len(rs)
         /\ \A j \in 1 .. Len(rs) : Length(rs[j]) <= Length(rs[Longest(rs)])
<1> DEFINE n == Len(rs)
           L(j) == Length(rs[j])
           T == {NumPhases - L(j) : j \in 1 .. n}
<1>1. n \in Nat /\ n >= 1 /\ DOMAIN rs = 1 .. n /\ NumPhases \in Nat
  BY PhasesAssumption
<1>2. \A j \in 1 .. n : L(j) \in Int /\ 1 <= L(j) /\ L(j) <= NumPhases
  BY <1>1
<1> HIDE DEF n, L
<1>3. T \in SUBSET Nat /\ T # {}
  BY <1>1, <1>2
<1>4. PICK m \in T : \A t \in T : m <= t
  BY <1>3, Least
<1>5. PICK a \in 1 .. n : m = NumPhases - L(a)
  BY <1>4
<1>6. \A j \in 1 .. n : L(j) <= L(a)
  <2> TAKE j \in 1 .. n
  <2>1. NumPhases - L(j) \in T
    OBVIOUS
  <2>2. m <= NumPhases - L(j)
    BY <1>4, <2>1
  <2> QED
    BY <1>1, <1>2, <1>5, <2>2
<1> DEFINE U == {j \in 1 .. n : L(j) = L(a)}
<1>7. U \in SUBSET Nat /\ U # {}
  BY <1>1
<1>8. PICK i \in U : \A j \in U : i <= j
  BY <1>7, Least
<1> DEFINE Best(b) == \A j \in 1 .. n : L(j) <= L(b) /\ (L(j) = L(b) => b <= j)
<1>9. i \in 1 .. n /\ Best(i)
  BY <1>6, <1>8
<1>10. Longest(rs) = CHOOSE b \in 1 .. n : Best(b)
  BY <1>1 DEF Longest, L
<1> HIDE DEF Best
<1>11. Longest(rs) \in 1 .. n /\ Best(Longest(rs))
  BY <1>9, <1>10
<1> QED
  BY <1>11 DEF Best, L, n

\* Once around the circle.
LEMMA Around ==
  /\ \A q \in Int, r \in Phases : (NumPhases * q + r) % NumPhases = r
  /\ \A x \in Int : x % NumPhases \in Phases
BY PhasesAssumption DEF Phases

LEMMA Wrap ==
  /\ \A x \in 0 .. NumPhases - 1 : x % NumPhases = x
  /\ \A x \in NumPhases .. 2 * NumPhases - 1 : x % NumPhases = x - NumPhases
<1>1. NumPhases \in Nat
  BY PhasesAssumption
<1>2. ASSUME NEW x \in 0 .. NumPhases - 1 PROVE x % NumPhases = x
  <2>1. x \in Phases /\ x = NumPhases * 0 + x
    BY <1>1 DEF Phases
  <2> QED
    BY <2>1, Around
<1>3. ASSUME NEW x \in NumPhases .. 2 * NumPhases - 1 PROVE x % NumPhases = x - NumPhases
  <2>1. x - NumPhases \in Phases /\ x = NumPhases * 1 + (x - NumPhases)
    BY <1>1 DEF Phases
  <2> QED
    BY <2>1, Around
<1> QED
  BY <1>2, <1>3

\* A step along the circle, taken in two.
LEMMA TwoSteps ==
  ASSUME NEW a \in Nat, NEW b \in Nat, a < 2 * NumPhases, (a % NumPhases) + b < 2 * NumPhases, a + b < 2 * NumPhases
  PROVE  ((a % NumPhases) + b) % NumPhases = (a + b) % NumPhases
<1>1. NumPhases \in Nat /\ NumPhases > 0
  BY PhasesAssumption
<1>2. CASE a < NumPhases
  BY <1>1, <1>2, Wrap
<1>3. CASE a >= NumPhases
  <2>1. a % NumPhases = a - NumPhases
    BY <1>1, <1>3, Wrap
  <2>2. (a + b) % NumPhases = a + b - NumPhases
    BY <1>1, <1>3, Wrap
  <2>3. (a - NumPhases + b) % NumPhases = a + b - NumPhases
    BY <1>1, <1>3, Wrap
  <2> QED
    BY <2>1, <2>2, <2>3
<1> QED
  BY <1>1, <1>2, <1>3

\* A range that no phase that passed follows on the circle.
Arc(r) ==
  /\ r.start \in Phases /\ Length(r) \in 1 .. NumPhases
  /\ \A k \in 0 .. Length(r) - 1 : (r.start + k) % NumPhases \in passed
  /\ (r.start + Length(r)) % NumPhases \notin passed

\* What the merged ranges are.
Arcs(rs) ==
  /\ rs \in Seq(RANGE) /\ rs # << >>
  /\ \A j \in 1 .. Len(rs) : Arc(rs[j])
  /\ \A p \in passed : \E j \in 1 .. Len(rs) :
       \E k \in 0 .. Length(rs[j]) - 1 : p = (rs[j].start + k) % NumPhases

\* Arcs that cover what has passed hold its longest runs.
LEMMA LongestRun ==
  ASSUME NEW rs, Arcs(rs)
  PROVE  \E run \in Runs :
            /\ \A other \in Runs : other[2] <= run[2]
            /\ Middle(rs[Longest(rs)]) = (run[1] + run[2] \div 2) % NumPhases
<1>1. NumPhases \in Nat /\ NumPhases > 0
  BY PhasesAssumption
<1>2. PICK b : b = Longest(rs)
  OBVIOUS
<1>3. b \in 1 .. Len(rs) /\ \A j \in 1 .. Len(rs) : Length(rs[j]) <= Length(rs[b])
  BY <1>2, LongestIs DEF Arcs, Arc
<1>4. PICK s, l : s = rs[b].start /\ l = Length(rs[b])
  OBVIOUS
<1>5. s \in Phases /\ l \in 1 .. NumPhases /\ \A k \in 0 .. l - 1 : (s + k) % NumPhases \in passed
  BY <1>3, <1>4 DEF Arcs, Arc
<1>6. <<s, l>> \in Runs
  <2>1. Run(s, l) \subseteq passed
    BY <1>5 DEF Run
  <2> QED
    BY <1>5, <2>1 DEF Runs
<1>7. ASSUME NEW other \in Runs PROVE other[2] <= l
  <2>1. PICK t, n : t = other[1] /\ n = other[2]
    OBVIOUS
  <2>2. t \in Phases /\ n \in 1 .. NumPhases /\ Run(t, n) \subseteq passed
    BY <2>1 DEF Runs
  <2>3. \A k \in 0 .. n - 1 : (t + k) % NumPhases \in passed
    BY <2>2 DEF Run
  <2>4. t \in Int /\ 0 <= t /\ t < NumPhases /\ n \in Int /\ 1 <= n /\ n <= NumPhases
    BY <2>2, <1>1 DEF Phases
  <2>5. t \in passed
    <3>1. (t + 0) % NumPhases \in passed
      BY <2>3, <2>4
    <3>2. t + 0 = t /\ t \in 0 .. NumPhases - 1
      BY <2>4, <1>1
    <3>3. t % NumPhases = t
      BY <3>2, Wrap
    <3> QED
      BY <3>1, <3>2, <3>3
  <2>6. PICK j \in 1 .. Len(rs) : \E k \in 0 .. Length(rs[j]) - 1 : t = (rs[j].start + k) % NumPhases
    BY <2>5 DEF Arcs
  <2>7. PICK m, u : m = Length(rs[j]) /\ u = rs[j].start
    OBVIOUS
  <2>8. u \in Phases /\ m \in 1 .. NumPhases /\ (u + m) % NumPhases \notin passed /\ m <= l
    BY <2>7, <1>3, <1>4 DEF Arcs, Arc
  <2>9. PICK k \in 0 .. m - 1 : t = (u + k) % NumPhases
    BY <2>6, <2>7
  <2>10. u \in Int /\ 0 <= u /\ u < NumPhases /\ m \in Int /\ m <= NumPhases /\ k \in Int /\ 0 <= k /\ k < m
    BY <2>8, <1>1 DEF Phases
  <2>11. CASE n > m - k
    <3>1. PICK d : d = m - k
      OBVIOUS
    <3>2. d \in 0 .. n - 1 /\ d \in Nat /\ u + k \in Nat /\ u + k + d = u + m
      BY <3>1, <2>10, <2>11, <2>4
    <3>3. (t + d) % NumPhases \in passed
      BY <2>3, <3>2
    <3>4. (t + d) % NumPhases = (u + k + d) % NumPhases
      BY <2>4, <2>9, <2>10, <3>2, <1>1, TwoSteps
    <3> QED
      BY <3>2, <3>3, <3>4, <2>8
  <2>12. CASE ~(n > m - k)
    BY <2>12, <2>1, <2>4, <2>8, <2>10, <1>1, <1>5
  <2> QED
    BY <2>11, <2>12
<1>8. Middle(rs[Longest(rs)]) = (s + l \div 2) % NumPhases
  BY <1>2, <1>4 DEF Middle
<1> QED
  <2>1. <<s, l>>[1] = s /\ <<s, l>>[2] = l
    OBVIOUS
  <2> QED
    BY <1>6, <1>7, <1>8, <2>1


\* Away from the ends, a range ends before a phase that has not passed.
LEMMA RangeEnds ==
  ASSUME RangesInv, NEW k \in 1 .. Len(ranges), ranges[k].end + 1 < NumPhases
  PROVE  ranges[k].end + 1 \notin passed
<1>1. \A j \in 1 .. Len(ranges) : ranges[j].start \in Int /\ ranges[j].end \in Int
  <2> TAKE j \in 1 .. Len(ranges)
  <2>1. ranges[j] \in RANGE
    BY DEF RangesInv
  <2> QED
    BY <2>1, PhasesAssumption DEF RANGE, Phases
<1> SUFFICES ASSUME ranges[k].end + 1 \in passed PROVE FALSE
  OBVIOUS
<1>2. PICK j \in 1 .. Len(ranges) : ranges[j].start <= ranges[k].end + 1 /\ ranges[k].end + 1 <= ranges[j].end
  BY DEF RangesInv
<1>3. Len(ranges) \in Nat
  BY DEF RangesInv
<1>4. CASE j = k
  BY <1>1, <1>2, <1>4
<1>5. CASE j < k
  <2>1. ranges[j].end + 1 < ranges[k].start /\ ranges[k].start <= ranges[k].end
    BY <1>5 DEF RangesInv
  <2> QED
    BY <1>1, <1>2, <2>1
<1>6. CASE k < j
  <2>1. ranges[k].end + 1 < ranges[j].start
    BY <1>6 DEF RangesInv
  <2> QED
    BY <1>1, <1>2, <2>1
<1> QED
  BY <1>3, <1>4, <1>5, <1>6

\* A range, its phases and its length.
LEMMA RangeIs ==
  ASSUME RangesInv, NEW k \in 1 .. Len(ranges)
  PROVE  /\ ranges[k] \in RANGE
         /\ ranges[k].start \in Int /\ 0 <= ranges[k].start
         /\ ranges[k].end \in Int /\ ranges[k].end < NumPhases
         /\ ranges[k].start <= ranges[k].end
         /\ Length(ranges[k]) = ranges[k].end - ranges[k].start + 1
         /\ \A p \in Int : ranges[k].start <= p /\ p <= ranges[k].end => p \in passed /\ p % NumPhases = p
<1>1. ranges[k] \in RANGE /\ ranges[k].start <= ranges[k].end
  BY DEF RangesInv
<1>2. ranges[k].start \in Phases /\ ranges[k].end \in Phases
  BY <1>1 DEF RANGE
<1>3. /\ ranges[k].start \in Int /\ 0 <= ranges[k].start
      /\ ranges[k].end \in Int /\ ranges[k].end < NumPhases
  BY <1>2, PhasesAssumption DEF Phases
<1>4. Length(ranges[k]) = ranges[k].end - ranges[k].start + 1
  BY <1>1, <1>3 DEF Length
<1>5. ASSUME NEW p \in Int, ranges[k].start <= p, p <= ranges[k].end PROVE p \in passed /\ p % NumPhases = p
  <2>1. p \in ranges[k].start .. ranges[k].end /\ p \in 0 .. NumPhases - 1
    BY <1>3, <1>5, PhasesAssumption
  <2>2. p \in passed
    BY <2>1 DEF RangesInv
  <2> QED
    BY <2>1, <2>2, Wrap
<1> QED
  BY <1>1, <1>3, <1>4, <1>5

\* A range is an arc, but for one at the end with one at the start.
LEMMA RangeIsArc ==
  ASSUME RangesInv, NEW k \in 1 .. Len(ranges),
         ranges[k].end + 1 < NumPhases \/ 0 \notin passed
  PROVE  Arc(ranges[k])
<1>1. PICK s, e, l : s = ranges[k].start /\ e = ranges[k].end /\ l = Length(ranges[k])
  OBVIOUS
<1>2. NumPhases \in Nat /\ NumPhases > 0
  BY PhasesAssumption
<1>3. s \in Int /\ 0 <= s /\ e \in Int /\ e < NumPhases /\ s <= e /\ l = e - s + 1
  BY <1>1, RangeIs
<1>4. \A p \in Int : s <= p /\ p <= e => p \in passed /\ p % NumPhases = p
  BY <1>1, RangeIs
<1>5. s \in Phases /\ l \in 1 .. NumPhases
  BY <1>2, <1>3 DEF Phases
<1>6. \A i \in 0 .. l - 1 : (s + i) % NumPhases \in passed
  BY <1>3, <1>4
<1>7. s + l = e + 1
  BY <1>3
<1>8. (e + 1) % NumPhases \notin passed
  <2>1. CASE e + 1 < NumPhases
    <3>1. e + 1 \in 0 .. NumPhases - 1
      BY <2>1, <1>2, <1>3
    <3>2. (e + 1) % NumPhases = e + 1
      BY <3>1, Wrap
    <3> QED
      BY <3>2, <2>1, <1>1, RangeEnds
  <2>2. CASE ~(e + 1 < NumPhases)
    <3>1. e + 1 \in NumPhases .. 2 * NumPhases - 1 /\ e + 1 - NumPhases = 0
      BY <2>2, <1>2, <1>3
    <3>2. (e + 1) % NumPhases = e + 1 - NumPhases
      BY <3>1, <1>2, <1>3, Wrap
    <3> QED
      BY <3>1, <3>2, <2>2, <1>1
  <2> QED
    BY <2>1, <2>2
<1> QED
  BY <1>1, <1>5, <1>6, <1>7, <1>8 DEF Arc


Tried == TuningInv /\ index = NumPhases /\ ranges # << >>

\* What the ends say.
LEMMA EndsAre ==
  ASSUME Tried
  PROVE  /\ first <=> 0 \in passed
         /\ previous <=> NumPhases - 1 \in passed
         /\ Len(ranges) \in Nat /\ Len(ranges) >= 1
         /\ 0 \in passed => ranges[1].start = 0
         /\ previous => ranges[Len(ranges)].end = NumPhases - 1
<1>1. index = NumPhases /\ NumPhases \in Nat /\ NumPhases > 0 /\ index > 0 /\ index \in 1 .. NumPhases
  BY PhasesAssumption DEF Tried
<1>2. (first <=> 0 \in passed) /\ (previous <=> NumPhases - 1 \in passed)
  BY <1>1 DEF Tried, TuningInv, FlagsInv
<1>3. Len(ranges) \in Nat /\ Len(ranges) >= 1
  BY DEF Tried, TuningInv, RangesInv
<1>4. ASSUME 0 \in passed PROVE ranges[1].start = 0
  <2>1. PICK k \in 1 .. Len(ranges) : ranges[k].start <= 0 /\ 0 <= ranges[k].end
    BY <1>4 DEF Tried, TuningInv, RangesInv
  <2>2. ranges[k].start \in Int /\ 0 <= ranges[k].start
    BY RangeIs DEF Tried, TuningInv
  <2>3. CASE k = 1
    BY <2>1, <2>2, <2>3
  <2>4. CASE 1 < k
    <3>1. ranges[1].end + 1 < ranges[k].start
      BY <1>3, <2>4 DEF Tried, TuningInv, RangesInv
    <3>2. ranges[1].end \in Int /\ ranges[1].start \in Int /\ 0 <= ranges[1].start /\ ranges[1].start <= ranges[1].end
      BY <1>3, RangeIs DEF Tried, TuningInv
    <3> QED
      BY <3>1, <3>2, <2>1, <2>2
  <2> QED
    BY <2>3, <2>4
<1>5. ASSUME previous PROVE ranges[Len(ranges)].end = NumPhases - 1
  BY <1>1, <1>5 DEF Tried, TuningInv, FlagsInv
<1> QED
  BY <1>2, <1>3, <1>4, <1>5

LEMMA PlainArcs ==
  ASSUME Tried, ~(Len(ranges) > 1 /\ first /\ previous), ~AllGood(ranges)
  PROVE  Arcs(ranges)
<1>1. RangesInv
  BY DEF Tried, TuningInv
<1>2. ASSUME NEW k \in 1 .. Len(ranges) PROVE Arc(ranges[k])
  <2>1. ranges[k].end \in Int /\ ranges[k].end < NumPhases /\ NumPhases \in Nat
    BY <1>1, RangeIs, PhasesAssumption
  <2> SUFFICES ASSUME ranges[k].end + 1 >= NumPhases, 0 \in passed PROVE FALSE
    BY <1>1, <2>1, RangeIsArc
  <2>2. ranges[k].end = NumPhases - 1
    BY <2>1
  <2>3. NumPhases - 1 \in passed
    BY <1>1, <2>1, <2>2, RangeIs
  <2>4. first /\ previous /\ ranges[1].start = 0
    BY <2>3, EndsAre
  <2>5. ~(Len(ranges) > 1)
    BY <2>4, Zenon
  <2>6. Len(ranges) = 1
    BY <2>5, EndsAre
  <2>7. k = 1
    BY <2>6
  <2>8. ranges[1].start = 0 /\ ranges[1].end = NumPhases - 1
    BY <2>2, <2>4, <2>7, Zenon
  <2> QED
    BY <2>8, Zenon DEF AllGood
<1>3. ASSUME NEW p \in passed
      PROVE  \E j \in 1 .. Len(ranges) :
               \E k \in 0 .. Length(ranges[j]) - 1 : p = (ranges[j].start + k) % NumPhases
  <2>1. PICK j \in 1 .. Len(ranges) : ranges[j].start <= p /\ p <= ranges[j].end
    BY <1>1 DEF RangesInv
  <2>2. PICK s, e, l : s = ranges[j].start /\ e = ranges[j].end /\ l = Length(ranges[j])
    OBVIOUS
  <2>3. s \in Int /\ e \in Int /\ l = e - s + 1 /\ s <= p /\ p <= e
    BY <1>1, <2>1, <2>2, RangeIs
  <2>4. p \in Int
    BY <1>1, PhasesAssumption DEF RangesInv, Phases
  <2>5. p % NumPhases = p
    BY <1>1, <2>1, <2>4, RangeIs
  <2>6. p - s \in 0 .. l - 1 /\ s + (p - s) = p
    BY <2>3, <2>4
  <2> QED
    BY <2>2, <2>5, <2>6
<1> QED
  BY <1>1, <1>2, <1>3 DEF Arcs, Tried, RangesInv

\* The range across 0.
LEMMA WrappedArc ==
  ASSUME Tried, Len(ranges) > 1, first, previous,
         NEW r, r.start = ranges[Len(ranges)].start, r.end = ranges[1].end
  PROVE  /\ Arc(r)
         /\ Length(r) = r.end - r.start + 1 + NumPhases
         /\ ranges[1].start = 0 /\ ranges[Len(ranges)].end = NumPhases - 1
         /\ r.end + 1 < r.start
<1>1. RangesInv /\ 1 \in 1 .. Len(ranges) /\ Len(ranges) \in 1 .. Len(ranges)
  BY EndsAre DEF Tried, TuningInv
<1>2. PICK s, e : s = r.start /\ e = r.end
  OBVIOUS
<1>3. NumPhases \in Nat /\ NumPhases > 0
  BY PhasesAssumption
<1>4. ranges[1].start = 0 /\ ranges[Len(ranges)].end = NumPhases - 1
  BY EndsAre
<1>5. s \in Int /\ e \in Int /\ 0 <= e /\ s < NumPhases /\ e < NumPhases
  BY <1>1, <1>2, <1>3, <1>4, RangeIs
<1>6. e + 1 < s
  BY <1>1, <1>2 DEF RangesInv
<1>7. \A p \in Int : (0 <= p /\ p <= e) \/ (s <= p /\ p <= NumPhases - 1) => p \in passed /\ p % NumPhases = p
  BY <1>1, <1>2, <1>4, RangeIs
<1>8. Length(r) = e - s + 1 + NumPhases
  BY <1>2, <1>3, <1>5, <1>6 DEF Length
<1>9. PICK l : l = Length(r)
  OBVIOUS
<1>10. l \in 1 .. NumPhases /\ s \in Phases /\ s + l = NumPhases + e + 1
  BY <1>3, <1>5, <1>6, <1>8, <1>9 DEF Phases
<1>11. ASSUME NEW k \in 0 .. l - 1 PROVE (s + k) % NumPhases \in passed
  <2>1. CASE s + k < NumPhases
    <3>1. s + k \in Int /\ s <= s + k /\ s + k <= NumPhases - 1
      BY <2>1, <1>3, <1>5, <1>10
    <3> QED
      BY <3>1, <1>7
  <2>2. CASE ~(s + k < NumPhases)
    <3>1. s + k \in NumPhases .. 2 * NumPhases - 1 /\ s + k - NumPhases \in Int
          /\ 0 <= s + k - NumPhases /\ s + k - NumPhases <= e
      BY <2>2, <1>3, <1>5, <1>10
    <3>2. (s + k) % NumPhases = s + k - NumPhases
      BY <3>1, <1>3, <1>5, <1>10, Wrap
    <3> QED
      BY <3>1, <3>2, <1>7
  <2> QED
    BY <2>1, <2>2
<1>12. (s + l) % NumPhases \notin passed
  <2>1. s + l \in NumPhases .. 2 * NumPhases - 1 /\ s + l - NumPhases = e + 1
    BY <1>3, <1>5, <1>6, <1>10
  <2>2. (s + l) % NumPhases = s + l - NumPhases
    BY <2>1, <1>3, <1>5, <1>10, Wrap
  <2>3. ranges[1].end + 1 < NumPhases
    BY <1>2, <1>3, <1>5, <1>6
  <2>4. ranges[1].end + 1 \notin passed
    BY <1>1, <2>3, RangeEnds
  <2> QED
    BY <2>1, <2>2, <2>4, <1>2
<1> QED
  BY <1>2, <1>4, <1>6, <1>8, <1>9, <1>10, <1>11, <1>12 DEF Arc


\* The first range takes the start of the last.
LEMMA MergedIs ==
  ASSUME Tried, Len(ranges) > 1, first, previous
  PROVE  /\ Merged \in Seq(RANGE) /\ Len(Merged) = Len(ranges) - 1
         /\ Merged[1].start = ranges[Len(ranges)].start /\ Merged[1].end = ranges[1].end
         /\ \A j \in 1 .. Len(ranges) - 1 : j # 1 => Merged[j] = ranges[j]
<1>1. PICK n : n = Len(ranges)
  OBVIOUS
<1>2. n \in Nat /\ n > 1 /\ ranges \in Seq(RANGE)
  BY <1>1, EndsAre DEF Tried, TuningInv, RangesInv
<1>3. PICK c : c = SubSeq(ranges, 1, n - 1)
  OBVIOUS
<1>4. c \in Seq(RANGE) /\ Len(c) = n - 1 /\ \A j \in 1 .. n - 1 : c[j] = ranges[j]
  <2>1. 1 \in 1 .. Len(ranges) + 1 /\ n - 1 \in 1 - 1 .. Len(ranges) /\ 1 <= n - 1
    BY <1>1, <1>2
  <2>2. /\ c \in Seq(RANGE)
        /\ Len(c) = (n - 1) - 1 + 1
        /\ \A j \in 1 .. (n - 1) - 1 + 1 : c[j] = ranges[1 + j - 1]
    BY <1>2, <1>3, <2>1, SubSeqProperties
  <2> QED
    BY <1>2, <2>2
<1>5. PICK a : a = ranges[n].start
  OBVIOUS
<1>6. ranges[n] \in RANGE /\ ranges[1] \in RANGE
  BY <1>1, <1>2
<1>7. a \in Phases
  BY <1>5, <1>6 DEF RANGE
<1>8. PICK r : r = [c[1] EXCEPT !.start = a]
  OBVIOUS
<1>9. c[1] = ranges[1]
  BY <1>2, <1>4
<1>10. r \in RANGE /\ r.start = a /\ r.end = ranges[1].end
  BY <1>6, <1>7, <1>8, <1>9 DEF RANGE
<1>11. Merged = [c EXCEPT ![1] = r]
  BY <1>1, <1>2, <1>3, <1>5, <1>8 DEF Merged
<1>12. 1 \in 1 .. Len(c) /\ Len(c) = n - 1
  BY <1>2, <1>4
<1>13. /\ Merged \in Seq(RANGE) /\ Len(Merged) = n - 1 /\ Merged[1] = r
       /\ \A j \in 1 .. n - 1 : j # 1 => Merged[j] = c[j]
  BY <1>4, <1>10, <1>11, <1>12
<1> QED
  BY <1>1, <1>4, <1>5, <1>10, <1>13

LEMMA MergedArcs ==
  ASSUME Tried, Len(ranges) > 1, first, previous
  PROVE  Arcs(Merged)
<1>1. PICK M, n : M = Merged /\ n = Len(ranges)
  OBVIOUS
<1>2. /\ M \in Seq(RANGE) /\ Len(M) = n - 1
      /\ M[1].start = ranges[n].start /\ M[1].end = ranges[1].end
      /\ \A j \in 1 .. n - 1 : j # 1 => M[j] = ranges[j]
  BY <1>1, MergedIs
<1>3. RangesInv /\ n \in Nat /\ n > 1 /\ NumPhases \in Nat /\ NumPhases > 0
  BY <1>1, EndsAre, PhasesAssumption DEF Tried, TuningInv
<1>4. /\ Arc(M[1]) /\ Length(M[1]) = M[1].end - M[1].start + 1 + NumPhases
      /\ ranges[1].start = 0 /\ ranges[n].end = NumPhases - 1
      /\ M[1].end + 1 < M[1].start
  BY <1>1, <1>2, WrappedArc
<1>5. ASSUME NEW j \in 2 .. n - 1 PROVE Arc(M[j])
  <2>1. M[j] = ranges[j] /\ j \in 1 .. n /\ n \in 1 .. n /\ j < n
    BY <1>2, <1>3
  <2>2. ranges[j].end + 1 < ranges[n].start
    BY <1>1, <2>1, <1>3 DEF RangesInv
  <2>3. ranges[n].start < NumPhases /\ ranges[n].start \in Int /\ ranges[j].end \in Int
    <3>1. ranges[j].end \in Int
      BY <1>1, <1>3, <2>1, RangeIs
    <3>2. /\ ranges[n].start \in Int /\ ranges[n].end \in Int
          /\ ranges[n].start <= ranges[n].end /\ ranges[n].end < NumPhases
      BY <1>1, <1>3, <2>1, RangeIs
    <3> QED
      BY <3>1, <3>2, <1>3
  <2> QED
    BY <1>1, <1>3, <2>1, <2>2, <2>3, RangeIsArc
<1>6. \A j \in 1 .. Len(M) : Arc(M[j])
  <2> TAKE j \in 1 .. Len(M)
  <2>1. j = 1 \/ j \in 2 .. n - 1
    BY <1>2, <1>3
  <2> QED
    BY <2>1, <1>4, <1>5
<1>7. ASSUME NEW p \in passed
      PROVE  \E j \in 1 .. Len(M) :
               \E k \in 0 .. Length(M[j]) - 1 : p = (M[j].start + k) % NumPhases
  <2>1. p \in Int /\ 0 <= p /\ p < NumPhases
    BY <1>3 DEF RangesInv, Phases
  <2>2. PICK j \in 1 .. n : ranges[j].start <= p /\ p <= ranges[j].end
    BY <1>1, <1>3 DEF RangesInv
  <2>3. PICK s, e : s = M[1].start /\ e = M[1].end
    OBVIOUS
  <2>4. 1 \in 1 .. n /\ n \in 1 .. n /\ 1 \in 1 .. Len(M)
    BY <1>2, <1>3
  <2>5. s \in Int /\ e \in Int /\ e + 1 < s /\ Length(M[1]) = e - s + 1 + NumPhases /\ s < NumPhases /\ 0 <= e
    <3>1. ranges[1].end \in Int /\ ranges[1].start <= ranges[1].end
      BY <1>1, <1>3, <2>4, RangeIs
    <3>2. /\ ranges[n].start \in Int /\ ranges[n].end \in Int
          /\ ranges[n].start <= ranges[n].end /\ ranges[n].end < NumPhases
      BY <1>1, <1>3, <2>4, RangeIs
    <3> QED
      BY <3>1, <3>2, <2>3, <1>2, <1>3, <1>4
  <2>6. CASE j = 1
    <3>1. PICK k : k = NumPhases - s + p
      OBVIOUS
    <3>2. 0 <= p /\ p <= e
      BY <2>1, <2>2, <2>3, <2>6, <1>2, <1>4
    <3>3. k \in 0 .. (e - s + 1 + NumPhases) - 1 /\ s + k \in NumPhases .. 2 * NumPhases - 1 /\ s + k - NumPhases = p
      BY <3>1, <3>2, <2>1, <2>5, <1>3
    <3>4. (s + k) % NumPhases = s + k - NumPhases
      BY <3>1, <3>3, <2>1, <2>5, <1>3, Wrap
    <3> QED
      BY <3>3, <3>4, <2>3, <2>4, <2>5
  <2>7. CASE j = n
    <3>1. PICK k : k = p - s
      OBVIOUS
    <3>2. s <= p
      BY <2>2, <2>3, <2>7, <1>2
    <3>3. k \in 0 .. (e - s + 1 + NumPhases) - 1 /\ s + k = p /\ p \in 0 .. NumPhases - 1
      BY <3>1, <3>2, <2>1, <2>5, <1>3
    <3>4. p % NumPhases = p
      BY <3>3, Wrap
    <3> QED
      BY <3>3, <3>4, <2>3, <2>4, <2>5
  <2>8. CASE j # 1 /\ j # n
    <3>1. j \in 1 .. n - 1 /\ j \in 1 .. Len(M) /\ M[j] = ranges[j]
      BY <2>8, <1>2, <1>3
    <3>2. PICK t, f, l : t = M[j].start /\ f = M[j].end /\ l = Length(M[j])
      OBVIOUS
    <3>3. t \in Int /\ f \in Int /\ l = f - t + 1 /\ t <= p /\ p <= f
      BY <1>1, <1>3, <2>2, <3>1, <3>2, RangeIs
    <3>4. p \in 0 .. NumPhases - 1
      BY <2>1, <1>3
    <3>5. p % NumPhases = p
      BY <3>4, Wrap
    <3>6. p - t \in 0 .. l - 1 /\ t + (p - t) = p
      BY <3>3, <2>1
    <3> QED
      BY <3>1, <3>2, <3>5, <3>6
  <2> QED
    BY <2>6, <2>7, <2>8
<1>8. M # << >>
  BY <1>2, <1>3
<1> QED
  BY <1>1, <1>2, <1>6, <1>7, <1>8 DEF Arcs

LEMMA ChosenWell ==
  ASSUME TuningInv, index = NumPhases, passed # {}
  PROVE  LET c == Choice(Merged) IN
         \/ c = DefaultPhase /\ passed = Phases
         \/ \E run \in Runs :
              /\ \A other \in Runs : other[2] <= run[2]
              /\ c = (run[1] + run[2] \div 2) % NumPhases
<1>1. Tried
  <2>1. ranges # << >>
    BY DEF TuningInv, RangesInv
  <2> QED
    BY <2>1 DEF Tried
<1>2. RangesInv /\ Len(ranges) \in Nat /\ Len(ranges) >= 1 /\ NumPhases \in Nat /\ NumPhases > 0
  BY <1>1, EndsAre, PhasesAssumption DEF TuningInv
<1>3. CASE ~(Len(ranges) > 1 /\ first /\ previous)
  <2>1. Merged = ranges
    BY <1>3 DEF Merged
  <2>2. CASE AllGood(ranges)
    <3>1. ranges[1].start = 0 /\ ranges[1].end = NumPhases - 1 /\ 1 \in 1 .. Len(ranges)
      BY <2>2, <1>2 DEF AllGood
    <3>2. \A p \in 0 .. NumPhases - 1 : p \in passed
      BY <3>1, <1>2 DEF RangesInv
    <3>3. passed = Phases
      BY <3>2, <1>2 DEF RangesInv, Phases
    <3> QED
      BY <2>1, <2>2, <3>3 DEF Choice
  <2>3. CASE ~AllGood(ranges)
    <3>1. Arcs(ranges)
      BY <1>1, <1>3, <2>3, PlainArcs
    <3> QED
      BY <3>1, <2>1, <2>3, LongestRun DEF Choice
  <2> QED
    BY <2>2, <2>3
<1>4. CASE Len(ranges) > 1 /\ first /\ previous
  <2>1. Arcs(Merged)
    BY <1>1, <1>4, MergedArcs
  <2>2. ~AllGood(Merged)
    <3>1. Merged[1].start = ranges[Len(ranges)].start /\ Merged[1].end = ranges[1].end
      BY <1>1, <1>4, MergedIs
    <3>2. Merged[1].end + 1 < Merged[1].start
      BY <1>1, <1>4, <3>1, WrappedArc
    <3>3. Merged[1].end \in Int /\ 0 <= Merged[1].end
      <4>1. 1 \in 1 .. Len(ranges)
        BY <1>2
      <4>2. /\ ranges[1].start \in Int /\ 0 <= ranges[1].start
            /\ ranges[1].end \in Int /\ ranges[1].start <= ranges[1].end
        BY <4>1, <1>2, RangeIs
      <4> QED
        BY <4>2, <3>1
    <3> QED
      BY <3>2, <3>3 DEF AllGood
  <2> QED
    BY <2>1, <2>2, LongestRun DEF Choice
<1> QED
  BY <1>3, <1>4

(* For any number of phases and any distance that is skipped after one that
   failed, the clock is set to the middle of a longest run of the phases that
   passed, and the ranges fit their array. *)
THEOREM TuningTunedInLongestRun == TuningSpec => []TunedInLongestRun
<1>1. TuningInit => TuningInv
  BY TuningInitInv
<1>2. TuningInv /\ [TuningNext]_tuningVars => TuningInv'
  BY TuningStep
<1>3. TuningInv => TunedInLongestRun
  <2> SUFFICES ASSUME TuningInv PROVE TunedInLongestRun
    OBVIOUS
  <2>1. RangesFit
    BY PhasesAssumption DEF TuningInv, RangesInv, FitInv, RangesFit
  <2> QED
    BY <2>1, ChosenWell DEF TunedInLongestRun
<1> QED
  BY <1>1, <1>2, <1>3, PTL DEF TuningSpec
=============================================================================
