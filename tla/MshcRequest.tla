----------------------------- MODULE MshcRequest -----------------------------
(***************************************************************************)
(* The request engine of the dwcmshc driver (sd/dwcmshc/dwcmshc.cpp).      *)
(*                                                                         *)
(* sdport issues a command, is told when it has completed, and starts the  *)
(* transfer of a data command again and again until all of it has moved.   *)
(* The driver issues requests of its own with LocalRequestPending set: a   *)
(* STOP in the middle of a reset, a tuning command.  The ISR hands events  *)
(* to sdport's DPC, or to the driver's own when a local request is         *)
(* pending; a work item waits for a busy card.                             *)
(*                                                                         *)
(* A transfer is counted in chunks of FifoThreshold words.  Assumed of     *)
(* sdport: it issues one request or bus operation at a time; its DPC is    *)
(* given a request only until sdport has given up on it; an interrupt and  *)
(* its DPC take less time than a reset, a timeout or the issue of the next *)
(* request, and so does the wait for a busy card.                          *)
(***************************************************************************)
EXTENDS Integers, FiniteSets

CONSTANT Kinds    \* the requests sdport issues

Kind == [data : {"none", "pio", "dma"}, dir : {"none", "read", "write"},
         chunks : Nat, busy : BOOLEAN]    \* busy: the response is R1b or R5b

ASSUME KindsAssumption ==
  \A k \in Kinds : k \in Kind /\ (k.data = "none" <=> k.chunks = 0)
                              /\ (k.data = "none" <=> k.dir = "none")

\* MshcSendStopCommand and MshcSendTuningCommand.
Stop == [data |-> "none", dir |-> "none", chunks |-> 0, busy |-> TRUE]
Tune == [data |-> "pio", dir |-> "read", chunks |-> 1, busy |-> FALSE]

VARIABLES
  outstanding,   \* OutstandingRequest: whose it is, or "none"
  kind, required, status,  \* of sdport's request and of the local one; every
                           \* error is FAILED
  remaining,     \* CurrentTransferRemainingLength, in chunks
  currentEvents, currentErrors,
  localPending,  \* LocalRequestPending
  busyWork,      \* CompleteRequestBusyWorkItem is queued
  rintsts,       \* RINTSTS
  unmasked,      \* sdport has the interrupts unmasked
  dataUnmasked,  \* INTMASK has RXDR and TXDR
  isr,           \* the ISR's Rintsts between its two steps
  sdpEvents, sdpErrors,  \* what sdport's DPC has still to hand over
  localDpc,      \* LocalRequestDpc is queued
  cmd, data, left, fifo, busy,  \* the controller and the card
  host,          \* what sdport's thread is at
  active,        \* whose request that thread is at
  phase,         \* its command or its transfer
  step, seen,    \* where StartTransfer is; the local CurrentEvents
  told,          \* history: SdPortCompleteRequest calls since the issue
  erred, dropped, \* history: an error was raised for the command on the bus;
                 \* errors the driver was handed and did not act on
  missed,        \* history: so was the command's data end
  overtaken      \* history: the DPC has completed a transfer that was about to
                 \* ask for more; until the controller is reset

reqVars == <<kind, required, status, remaining>>
accVars == <<currentEvents, currentErrors>>
intVars == <<rintsts, unmasked, dataUnmasked, isr>>
dpcVars == <<sdpEvents, sdpErrors, localDpc>>
hwVars  == <<cmd, data, left, fifo, busy>>
endVars == <<outstanding, localPending, busyWork, told>>
hostVars == <<host, active, phase, step, seen>>
errVars == <<erred, dropped, missed, overtaken>>
vars == <<reqVars, accVars, intVars, dpcVars, hwVars, endVars, hostVars, errVars>>

Who == {"sdp", "loc"}
IsData(k) == k.data # "none"
IsPioRead(k) == k.data = "pio" /\ k.dir = "read"

Init ==
  /\ outstanding = "none" /\ kind = [w \in Who |-> Stop]
  /\ required = [w \in Who |-> {}] /\ status = [w \in Who |-> "SUCCESS"]
  /\ remaining = 0 /\ currentEvents = {} /\ currentErrors = {}
  /\ localPending = FALSE /\ busyWork = FALSE
  /\ rintsts = {} /\ unmasked = TRUE /\ dataUnmasked = FALSE /\ isr = {}
  /\ sdpEvents = {} /\ sdpErrors = {} /\ localDpc = FALSE
  /\ cmd = "idle" /\ data = "none" /\ left = 0 /\ fifo = 0
  /\ busy = FALSE
  /\ host = "idle" /\ active = "sdp" /\ phase = "command" /\ step = "none" /\ seen = {}
  /\ told = [w \in Who |-> 0]
  /\ erred = FALSE /\ dropped = {} /\ missed = FALSE /\ overtaken = FALSE

-----------------------------------------------------------------------------
(* MshcConvertIntStatusToStandardEvents.                                   *)

DATA_REQUESTS == {"RXDR", "TXDR"}
INT_ERROR == {"RTO", "DRTO", "DCRC"}

EventOf == [CMD |-> "CARD_RESPONSE", DTO |-> "CARD_RW_END", TXDR |-> "BUFFER_EMPTY",
            RXDR |-> "BUFFER_FULL", RTO |-> "ERROR", DRTO |-> "ERROR", DCRC |-> "ERROR"]
ErrorOf == [RTO |-> "CMD_TIMEOUT", DRTO |-> "DATA_TIMEOUT", DCRC |-> "DATA_CRC_ERROR"]

Events(bits) == {EventOf[b] : b \in bits}
Errors(bits) == {ErrorOf[b] : b \in bits \cap INT_ERROR}

-----------------------------------------------------------------------------
(* The controller and the card (external).  A request for data is raised   *)
(* again for as long as the FIFO calls for it.                             *)

OnBus == kind[active]

HwQuiet == UNCHANGED <<reqVars, accVars, unmasked, dataUnmasked, isr, dpcVars, endVars,
                       hostVars, dropped, missed, overtaken>>

HwRespond ==
  /\ cmd = "sent"
  /\ cmd' = "idle" /\ rintsts' = rintsts \cup {"CMD"}
  /\ busy' = OnBus.busy
  /\ data' = IF IsData(OnBus) THEN "moving" ELSE "none"
  /\ UNCHANGED <<left, fifo>> /\ UNCHANGED erred /\ HwQuiet

HwNoResponse ==
  /\ cmd = "sent"
  /\ \/ cmd' = "late" /\ rintsts' = rintsts \cup {"RTO"}
     \/ cmd' = "idle" /\ rintsts' = rintsts \cup {"RTO", "CMD"}
  /\ UNCHANGED <<data, left, fifo, busy>> /\ erred' = TRUE /\ HwQuiet

HwLateCommand ==
  /\ cmd = "late"
  /\ cmd' = "idle" /\ rintsts' = rintsts \cup {"CMD"}
  /\ UNCHANGED <<data, left, fifo, busy>> /\ UNCHANGED erred /\ HwQuiet

HwMove ==
  /\ data = "moving" /\ left > 0
  /\ \/ OnBus.data = "dma" /\ UNCHANGED fifo
     \/ IsPioRead(OnBus) /\ fifo < 2 /\ fifo' = fifo + 1
     \/ OnBus.data = "pio" /\ OnBus.dir = "write" /\ fifo > 0 /\ fifo' = fifo - 1
  /\ left' = left - 1
  /\ UNCHANGED <<cmd, data, busy, rintsts>> /\ UNCHANGED erred /\ HwQuiet

HwDataRequest ==
  /\ OnBus.data = "pio"
  /\ \/ OnBus.dir = "read" /\ fifo > 0 /\ rintsts' = rintsts \cup {"RXDR"}
     \/ OnBus.dir = "write" /\ data = "moving" /\ fifo = 0 /\ rintsts' = rintsts \cup {"TXDR"}
  /\ rintsts' # rintsts
  /\ UNCHANGED hwVars /\ UNCHANGED erred /\ HwQuiet

HwDataEnd ==
  /\ data = "moving" /\ left = 0
  /\ data' = "over" /\ busy' = (OnBus.dir = "write")
  /\ rintsts' = rintsts \cup {"DTO"}
  /\ UNCHANGED <<cmd, left, fifo>> /\ UNCHANGED erred /\ HwQuiet

HwCrcError ==
  /\ data = "moving" /\ "DCRC" \notin rintsts
  /\ rintsts' = rintsts \cup {"DCRC"}
  /\ UNCHANGED hwVars /\ erred' = TRUE /\ HwQuiet

HwDataTimeout ==
  /\ data = "moving" /\ left > 0
  /\ \/ data' = "late" /\ rintsts' = rintsts \cup {"DRTO"}
     \/ data' = "over" /\ rintsts' = rintsts \cup {"DRTO", "DTO"}
  /\ UNCHANGED <<cmd, left, fifo, busy>> /\ erred' = TRUE /\ HwQuiet

HwLateData ==
  /\ data = "late"
  /\ data' = "over" /\ rintsts' = rintsts \cup {"DTO"}
  /\ UNCHANGED <<cmd, left, fifo, busy>> /\ UNCHANGED erred /\ HwQuiet

HwIdle ==
  /\ busy /\ busy' = FALSE
  /\ UNCHANGED <<cmd, data, left, fifo, rintsts>> /\ UNCHANGED erred /\ HwQuiet

HwReset ==
  /\ cmd' = "idle" /\ data' = "none" /\ left' = 0 /\ fifo' = 0 /\ busy' = FALSE
  /\ rintsts' = {} /\ overtaken' = FALSE

-----------------------------------------------------------------------------
(* MshcCompleteRequest and its work item.                                  *)

\* What sdport does with a request it is told of.
AfterCompletion(s) ==
  IF s = "MORE_PROCESSING_REQUIRED" THEN "transfer"
  ELSE IF s # "SUCCESS" THEN "failed"
  ELSE IF phase = "command" /\ IsData(kind["sdp"]) THEN "transfer"
  ELSE "done"

SdPortCompleteRequest(w, s) ==
  /\ told' = [told EXCEPT ![w] = IF @ < 2 THEN @ + 1 ELSE 2]
  /\ host' = IF w = "sdp" /\ host = "waiting" THEN AfterCompletion(s) ELSE host

Released == {"SUCCESS", "MORE_PROCESSING_REQUIRED"}

\* The card detect pin may read removed at any time.
Finish(w, s) ==
  \E reported \in {s, "FAILED"} :
    /\ status' = [status EXCEPT ![w] = reported]
    /\ outstanding' = IF s \in Released THEN "none" ELSE outstanding
    /\ localPending' = FALSE
    /\ IF localPending THEN UNCHANGED <<told, host>> ELSE SdPortCompleteRequest(w, reported)

MayBeBusy_Response(k) == k.busy    \* slip: the end of a write is forgotten
MayBeBusy(k) == k.busy \/ k.dir = "write"

CompleteRequest(w, s) ==
  \/ /\ s = "SUCCESS" /\ required'[w] = {} /\ MayBeBusy(kind[w]) /\ busy
     /\ status' = [status EXCEPT ![w] = s]
     /\ busyWork' = TRUE
     /\ UNCHANGED <<outstanding, localPending, told, host>>
  \/ /\ ~(s = "SUCCESS" /\ required'[w] = {} /\ MayBeBusy(kind[w]) /\ busy)
     /\ Finish(w, s)
     /\ UNCHANGED busyWork

\* The outstanding request is read again, as the wait may have been long.
BusyWorker ==
  /\ busyWork /\ busyWork' = FALSE
  /\ \E w \in Who :
       /\ outstanding = w
       /\ \/ ~busy /\ Finish(w, "SUCCESS")
          \/ busy /\ Finish(w, "FAILED")
  /\ UNCHANGED <<kind, required, remaining, accVars, intVars, dpcVars, hwVars, active,
                 phase, step, seen, errVars>>

-----------------------------------------------------------------------------
Drop(events, errors) ==
  dropped' = dropped \cup errors /\ missed' = (missed \/ "CARD_RW_END" \in events)

(* MshcSlotInterrupt, in two steps: up to the write of RINTSTS and INTMASK, *)
(* and the choice of the DPC.                                              *)

Asserted ==
  unmasked /\ rintsts \ (IF dataUnmasked THEN {} ELSE DATA_REQUESTS) # {}

IsrAcknowledge ==
  /\ isr = {} /\ Asserted
  /\ isr' = rintsts /\ rintsts' = {}
  /\ dataUnmasked' = (dataUnmasked /\ rintsts \cap DATA_REQUESTS = {})
  /\ UNCHANGED <<reqVars, accVars, unmasked, dpcVars, hwVars, endVars, hostVars, errVars>>

IsrDeliver ==
  /\ isr # {} /\ isr' = {}
  /\ \/ /\ localPending
        /\ currentEvents' = currentEvents \cup Events(isr)
        /\ currentErrors' = currentErrors \cup Errors(isr)
        /\ localDpc' = TRUE
        /\ UNCHANGED <<sdpEvents, sdpErrors, dropped, missed>>
     \/ /\ ~localPending
        /\ IF active = "loc" THEN Drop(Events(isr), Errors(isr)) ELSE UNCHANGED <<dropped, missed>>
        /\ sdpEvents' = sdpEvents \cup Events(isr)
        /\ sdpErrors' = sdpErrors \cup Errors(isr)
        /\ UNCHANGED <<accVars, localDpc>>
  /\ UNCHANGED <<reqVars, rintsts, unmasked, dataUnmasked, hwVars, endVars, hostVars, erred,
                 overtaken>>

-----------------------------------------------------------------------------
(* MshcRequestDpc and its two callers.                                     *)

\* "This can occur when we're delaying request completion in a thread."
NothingAwaited_Always(w) == FALSE    \* slip: the workaround is missing
NothingAwaited(w) == required[w] = {}

\* "Wait for CMD/DTO interrupt after timeout before completing the request."
MustWait(events, errors) ==
  \/ "CMD_TIMEOUT" \in errors /\ "CARD_RESPONSE" \notin events
  \/ "DATA_TIMEOUT" \in errors /\ "CARD_RW_END" \notin events

KeepRequest == UNCHANGED <<status, endVars, host, overtaken>>

\* The status that says there is more to come is written after the event that
\* completes the request is awaited.
Overtake(outcome) == overtaken' = (overtaken \/ (step = "awaited" /\ outcome = "SUCCESS"))

\* The events and errors are saved even when there is no request.
Save(events, errors) ==
  currentEvents' = currentEvents \cup events /\ currentErrors' = errors

RequestDpc(w, events, errors) ==
  LET allErrors == currentErrors \cup errors
      awaited == required[w] \ events
      outcome == IF status[w] = "MORE_PROCESSING_REQUIRED" THEN status[w] ELSE "SUCCESS"
  IN
  \/ /\ events = {} \/ NothingAwaited(w)
     /\ UNCHANGED <<accVars, required>> /\ KeepRequest
     /\ Drop(events, errors)
  \/ /\ events # {} /\ ~NothingAwaited(w)
     /\ UNCHANGED <<dropped, missed>>
     /\ \/ /\ outstanding = "none"
           /\ Save(events, allErrors)
           /\ UNCHANGED required /\ KeepRequest
        \/ /\ outstanding # "none" /\ allErrors # {} /\ ~MustWait(events, allErrors)
           /\ required' = [required EXCEPT ![w] = {}]
           /\ currentEvents' = {} /\ currentErrors' = {}
           /\ CompleteRequest(w, "FAILED") /\ UNCHANGED overtaken
        \/ /\ outstanding # "none" /\ (allErrors # {} => MustWait(events, allErrors))
           /\ required' = [required EXCEPT ![w] = awaited]
           /\ Save(events, allErrors)
           /\ IF allErrors = {} /\ awaited = {}
              THEN CompleteRequest(w, outcome) /\ Overtake(outcome)
              ELSE KeepRequest

SdportDpc ==
  /\ sdpEvents # {}
  /\ sdpEvents' = {} /\ sdpErrors' = {}
  /\ IF host \in {"waiting", "transfer", "done"}
     THEN RequestDpc("sdp", sdpEvents, sdpErrors)
     ELSE UNCHANGED <<accVars, required>> /\ KeepRequest /\ Drop(sdpEvents, sdpErrors)
  /\ UNCHANGED <<kind, remaining, intVars, localDpc, hwVars, active, phase, step, seen, erred>>

LocalRequestDpc ==
  /\ localDpc /\ localDpc' = FALSE
  /\ \/ \E w \in Who : outstanding = w /\ RequestDpc(w, currentEvents, currentErrors)
     \/ outstanding = "none" /\ UNCHANGED <<accVars, required, dropped, missed>> /\ KeepRequest
  /\ UNCHANGED <<kind, remaining, intVars, sdpEvents, sdpErrors, hwVars, active, phase,
                 step, seen, erred>>

-----------------------------------------------------------------------------
(* MshcSendCommand and MshcStartTransfer.                                  *)

BufferEvent(k) == IF k.dir = "read" THEN "BUFFER_FULL" ELSE "BUFFER_EMPTY"

RequiredFor_NoEnd(k) ==    \* slip: DMA is taken to end with the command
  {"CARD_RESPONSE"} \cup (IF k.data = "pio" THEN {BufferEvent(k)} ELSE {})
RequiredFor(k) ==
  {"CARD_RESPONSE"} \cup (CASE k.data = "dma" -> {"CARD_RW_END"}
                            [] k.data = "pio" -> {BufferEvent(k)}
                            [] OTHER -> {})

\* MshcBuildTransfer: a PIO transfer shorter than the FIFO's threshold is one
\* chunk of its own.
BuildTransfer(k) == IF IsData(k) THEN k.chunks ELSE remaining

SendCommand(w, k, initial) ==
  /\ outstanding' = w
  /\ kind' = [kind EXCEPT ![w] = k] /\ status' = [status EXCEPT ![w] = initial]
  /\ remaining' = BuildTransfer(k)
  /\ currentEvents' = {} /\ currentErrors' = {}
  /\ required' = [required EXCEPT ![w] = RequiredFor(k)]
  /\ dataUnmasked' = (dataUnmasked \/ k.data = "pio")
  /\ cmd' = "sent"
  /\ IF IsData(k) THEN left' = k.chunks /\ fifo' = 0 ELSE UNCHANGED <<left, fifo>>
  /\ active' = w /\ phase' = "command"
  /\ erred' = FALSE /\ dropped' = {} /\ missed' = FALSE
  /\ UNCHANGED <<busyWork, data, busy, rintsts, unmasked, isr, dpcVars,
                 step, seen, overtaken>>

StartTransfer(w) ==
  /\ outstanding' = w
  /\ phase' = "transfer" /\ step' = "start"
  /\ UNCHANGED <<reqVars, accVars, intVars, dpcVars, hwVars, busyWork, active, seen, errVars>>

StartDmaTransfer ==
  /\ step = "start" /\ OnBus.data = "dma"
  /\ step' = "none"
  /\ remaining' = 0
  /\ UNCHANGED required
  /\ CompleteRequest(active, "SUCCESS")
  /\ UNCHANGED <<kind, accVars, intVars, dpcVars, hwVars, active, phase, seen, errVars>>

\* Nothing is awaited yet, so that the DPC keeps away: what is moved, and what
\* comes up to the write of RequiredEvents, might as well be one step.
PioQuiet == UNCHANGED <<kind, currentErrors, unmasked, isr, dpcVars, cmd, data, left, busy,
                        active, phase, erred>>

\* CurrentEvents is taken, a chunk is moved, the data requests are
\* acknowledged.
PioMove ==
  /\ step = "start" /\ OnBus.data = "pio"
  /\ step' = "moved"
  /\ seen' = currentEvents /\ currentEvents' = {}
  /\ fifo' = IF OnBus.dir = "write" THEN fifo + 1 ELSE IF fifo > 0 THEN fifo - 1 ELSE 0
  /\ rintsts' = rintsts \ DATA_REQUESTS
  /\ remaining' = remaining - 1
  /\ UNCHANGED <<required, status, dataUnmasked, endVars, host, dropped, missed, overtaken>>
  /\ PioQuiet

Await(event) == required' = [required EXCEPT ![active] = @ \cup {event}]

PioStep(from, to) ==
  /\ step = from /\ step' = to
  /\ UNCHANGED <<remaining, currentEvents, fifo, rintsts>> /\ PioQuiet

\* From here the DPC may complete the request at any time.
PioMore ==
  /\ remaining > 0
  /\ PioStep("moved", "awaited")
  /\ Await(BufferEvent(OnBus))
  /\ seen' = {} /\ Drop(seen, {})
  /\ UNCHANGED <<status, dataUnmasked, endVars, host, overtaken>>

PioAgain ==
  /\ PioStep("awaited", "chained")
  /\ status' = [status EXCEPT ![active] = "MORE_PROCESSING_REQUIRED"]
  /\ UNCHANGED <<required, dataUnmasked, seen, endVars, host, dropped, missed, overtaken>>

Rearmed_Never == dataUnmasked    \* slip: the interrupts stay masked
Rearmed == TRUE

PioRearm ==
  /\ PioStep("chained", "none")
  /\ dataUnmasked' = Rearmed
  /\ UNCHANGED <<required, status, seen, endVars, host, dropped, missed, overtaken>>

PioLast ==
  /\ remaining = 0
  /\ PioStep("moved", "none")
  /\ seen' = {}
  /\ \/ /\ "CARD_RW_END" \in seen
        /\ UNCHANGED required
        /\ Drop({}, currentErrors)
        /\ CompleteRequest(active, "SUCCESS")
     \/ /\ "CARD_RW_END" \notin seen
        /\ UNCHANGED <<dropped, missed>>
        /\ Await("CARD_RW_END")
        /\ status' = [status EXCEPT ![active] = "SUCCESS"]
        /\ UNCHANGED <<endVars, host>>
  /\ UNCHANGED <<dataUnmasked, overtaken>>

-----------------------------------------------------------------------------
(* sdport (external), through MshcSlotIssueRequest.                        *)

HostGoto(from, to) == host \in from /\ host' = to

\* Nothing of the last interrupt is left to do, nor is the work item.
Settled == isr = {} /\ sdpEvents = {} /\ ~localDpc /\ ~busyWork /\ step = "none"

IssueRequest ==
  /\ HostGoto({"idle", "done"}, "waiting")
  /\ Settled
  /\ told' = [w \in Who |-> 0]
  /\ \E k \in Kinds : SendCommand("sdp", k, "NOT_SET")
  /\ UNCHANGED localPending

IssueTransfer ==
  /\ HostGoto({"transfer"}, "waiting") /\ step = "none"
  /\ told' = [w \in Who |-> 0]
  /\ StartTransfer("sdp")
  /\ UNCHANGED localPending

SdportTimeout ==
  /\ HostGoto({"waiting"}, "failed")
  /\ Settled
  /\ told' = [told EXCEPT !["sdp"] = 1]
  /\ UNCHANGED <<reqVars, accVars, intVars, dpcVars, hwVars, outstanding, localPending,
                 busyWork, active, phase, step, seen, errVars>>

\* MshcSlotToggleEvents around SdResetTypeCmd.
MaskEvents ==
  /\ HostGoto({"failed"}, "reset_cmd") /\ step = "none"
  /\ unmasked' = FALSE
  /\ UNCHANGED <<reqVars, accVars, rintsts, dataUnmasked, isr, dpcVars, hwVars, endVars,
                 active, phase, step, seen, errVars>>

-----------------------------------------------------------------------------
(* MshcResetHost.                                                          *)

\* "Return early in case of a failed data transfer."
ResetCmd ==
  /\ HostGoto({"reset_cmd"}, IF IsData(OnBus) THEN "reset_dat" ELSE "idle")
  /\ Settled
  /\ outstanding' = "none"
  /\ unmasked' = TRUE
  /\ IF outstanding # "none" /\ IsData(kind[outstanding])
     THEN UNCHANGED <<hwVars, rintsts, overtaken>>
     ELSE HwReset
  /\ UNCHANGED <<reqVars, accVars, dataUnmasked, isr, dpcVars, localPending, busyWork, told,
                 active, phase, step, seen, erred, dropped, missed>>

ResetDat ==
  /\ HostGoto({"reset_dat"}, "send_stop")
  /\ outstanding' = "none"
  /\ localPending' = TRUE
  /\ UNCHANGED <<reqVars, accVars, intVars, dpcVars, hwVars, busyWork, told, active, phase, step, seen, errVars>>

ResetFinish ==
  /\ HostGoto({"resetting"}, "idle")
  /\ Settled
  /\ HwReset
  /\ UNCHANGED <<reqVars, accVars, unmasked, dataUnmasked, isr, dpcVars, endVars, active,
                 phase, step, seen, erred, dropped, missed>>

-----------------------------------------------------------------------------
(* MshcIssueRequestSynchronously, for the STOP of a reset and for the two   *)
(* parts of a tuning command.                                              *)

LocalPend ==
  /\ \/ HostGoto({"idle", "done"}, "send_tuning") /\ Settled
     \/ HostGoto({"tuning_gap"}, "start_tuning")
  /\ localPending' = TRUE
  /\ UNCHANGED <<reqVars, accVars, intVars, dpcVars, hwVars, outstanding, busyWork, told, active, phase, step, seen, errVars>>

LocalIssue ==
  /\ \/ HostGoto({"send_stop"}, "stop") /\ SendCommand("loc", Stop, "SUCCESS")
     \/ HostGoto({"send_tuning"}, "tuning") /\ SendCommand("loc", Tune, "SUCCESS")
     \/ HostGoto({"start_tuning"}, "tuning") /\ StartTransfer("loc")
  /\ UNCHANGED <<localPending, told>>

\* The end of a local request: the STOP's is not looked at.
LocalEnd(s) ==
  HostGoto({"stop", "tuning"},
           IF host = "stop" THEN "resetting"
           ELSE IF s # "SUCCESS" THEN "reset_cmd"
           ELSE IF phase = "command" THEN "tuning_gap"
           ELSE "done")

LocalWake ==
  /\ LocalEnd(status["loc"])
  /\ ~localPending /\ step = "none"
  /\ UNCHANGED <<reqVars, accVars, intVars, dpcVars, hwVars, endVars, active, phase, step, seen, errVars>>

LocalTimeout ==
  /\ LocalEnd("FAILED")
  /\ localPending /\ Settled
  /\ localPending' = FALSE
  /\ status' = [status EXCEPT !["loc"] = "FAILED"]
  /\ UNCHANGED <<kind, required, remaining, accVars, intVars, dpcVars, hwVars, outstanding,
                 busyWork, told, active, phase, step, seen, errVars>>

-----------------------------------------------------------------------------
Hardware == \/ HwRespond \/ HwNoResponse \/ HwLateCommand \/ HwMove \/ HwDataRequest
            \/ HwCrcError \/ HwDataEnd \/ HwDataTimeout \/ HwLateData \/ HwIdle
Interrupt == IsrAcknowledge \/ IsrDeliver \/ SdportDpc \/ LocalRequestDpc \/ BusyWorker
Transfer  == StartDmaTransfer \/ PioMove \/ PioMore \/ PioAgain \/ PioRearm \/ PioLast
Sdport    == IssueRequest \/ IssueTransfer \/ SdportTimeout \/ MaskEvents
Reset     == ResetCmd \/ ResetDat \/ ResetFinish
Local     == LocalPend \/ LocalIssue \/ LocalWake \/ LocalTimeout

Next == Hardware \/ Interrupt \/ Transfer \/ Sdport \/ Reset \/ Local

Spec == Init /\ [][Next]_vars

-----------------------------------------------------------------------------
EVENTS == {"CARD_RESPONSE", "CARD_RW_END", "BUFFER_EMPTY", "BUFFER_FULL", "ERROR"}

(* A request is reported successful only when the card has answered without
   an error, all of its data has moved both between card and controller and
   between controller and memory, and the card is no longer busy; unless an
   error came in between two phases of it, when nothing was awaited, or the DPC
   has overtaken the thread between the two writes of its wait for a chunk. *)
SuccessIsDone ==
  host = "done" /\ dropped = {} /\ ~overtaken =>
    /\ cmd = "idle" /\ ~erred
    /\ IsData(OnBus) => data = "over" /\ left = 0 /\ remaining = 0 /\ fifo = 0
    /\ OnBus.busy \/ OnBus.dir = "write" => ~busy

(* "If there are errors, we need to fail whatever outstanding request was on
   the bus.  Otherwise, the request succeeded": no request is reported
   successful while a chunk of it is left. *)
ChunksAreChained ==
  host = "done" /\ IsData(OnBus) => remaining = 0

(* sdport is told once of each thing it has issued, and never of a request
   the driver has issued itself. *)
CompletedOnce == told["sdp"] <= 1 /\ told["loc"] = 0

Failing == currentErrors # {} \/ sdpErrors # {} \/ (isr \cup rintsts) \cap INT_ERROR # {}

(* The event is still to be raised, or on its way to the DPC that awaits it. *)
Coming(e) ==
  \/ e \in Events(isr \cup rintsts) /\ (e \in Events(DATA_REQUESTS \ isr) => dataUnmasked)
  \/ active = "sdp" /\ e \in sdpEvents
  \/ active = "loc" /\ localDpc /\ e \in currentEvents
  \/ e # "CARD_RW_END" /\ cmd \in {"sent", "late"}
  \/ e = "CARD_RW_END" /\ (cmd = "sent" \/ data \in {"moving", "late"})
  \/ e = BufferEvent(OnBus) /\ dataUnmasked /\ (data = "moving" \/ fifo > 0)

Awaiting(e) ==
  /\ host = "waiting" \/ (host = "tuning" /\ localPending)
  /\ step = "none" /\ e \in required[active]

(* An awaited event is still to come, so that nothing but the card makes a
   request time out: interrupts are not left masked, and no event is taken by
   another request's DPC; unless it is the data end of a transfer and was
   missed, when it came while nothing was awaited or chunks were left, or the
   request's end was overtaken or errors were dropped. *)
AwaitedWillCome ==
  \A e \in EVENTS :
    Awaiting(e) /\ dropped = {} /\ ~Failing /\ ~overtaken /\ ~(e = "CARD_RW_END" /\ missed)
      => Coming(e)
=============================================================================
