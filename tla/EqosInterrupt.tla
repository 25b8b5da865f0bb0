---------------------------- MODULE EqosInterrupt ----------------------------
(***************************************************************************)
(* Interrupts, notifications and link state of the dwc_eqos driver         *)
(* (net/dwc_eqos/device.cpp).                                              *)
(*                                                                         *)
(* The ISR acknowledges the device, masks its interrupts and queues a DPC. *)
(* The DPC notifies the queues NetAdapterCx has armed, enqueues the link   *)
(* state work item and unmasks what is still wanted.  Meanwhile            *)
(* NetAdapterCx arms and disarms each queue from threads of its own, work  *)
(* items run on system threads and the power manager takes the device in   *)
(* and out of D0.  Each section under one lock is one action.              *)
(***************************************************************************)
EXTENDS Integers

CONSTANTS
  Queues,   \* the queues NetAdapterCx runs
  Dpcs,     \* processors that may run the DPC at the same time
  Workers,  \* system threads that may run the work item at the same time
  MaxLink   \* bound: changes of the physical link

ASSUME ConstantsAssumption ==
  /\ Queues \subseteq {"Rx", "Tx"}
  /\ MaxLink \in Nat

Sources == Queues \cup {"Link", "Abnormal"}

VARIABLES
  status,           \* bits pending in Dma_Ch[0].Status and Mac_Interrupt_Status
  enabled,          \* the interrupt enable registers
  wanted,           \* context->interruptsWanted
  interruptStatus,  \* context->interruptStatus
  armed,            \* context->rxQueue, txQueue are set
  dpcQueued,        \* the DPC is in the system queue
  dpc,              \* where the DPC is on each processor
  newInterruptStatus,  \* its local of that name
  nx,               \* where NetAdapterCx's thread of each queue is
  work,             \* the device has completed descriptors of the queue
  notified,         \* NetAdapterCx has been told so
  link,             \* version of the physical link state
  reported,         \* version last given to NetAdapterSetLinkState
  workQueued,       \* the link state work item is in the system queue
  worker,           \* where each run of it is
  seen,             \* the version of the link it has read (controlStatus)
  busy,             \* context->updateLinkStateBusy
  power             \* "off", "entering", "on" or "exiting"

dpcVars   == <<interruptStatus, dpcQueued, dpc, newInterruptStatus>>
queueVars == <<nx, work, notified>>
linkVars  == <<link, reported, workQueued, worker, seen, busy>>
vars == <<status, enabled, wanted, armed, dpcVars, queueVars, linkVars, power>>

-----------------------------------------------------------------------------
(* MakeMacInterruptEnable and MakeChannelInterruptEnable.                  *)
EnableFor_Raw(w) == w    \* slip: the driver's bits for the device's
EnableFor(w) ==
  (w \cap Queues) \cup (IF "State" \in w THEN {"Link", "Abnormal"} ELSE {})

Init ==
  /\ status = {} /\ enabled = {} /\ wanted = {}
  /\ interruptStatus = {} /\ dpcQueued = FALSE
  /\ dpc = [d \in Dpcs |-> "idle"] /\ newInterruptStatus = [d \in Dpcs |-> {}]
  /\ armed = [q \in Queues |-> FALSE]
  /\ nx = [q \in Queues |-> "stopped"]
  /\ work = [q \in Queues |-> FALSE]
  /\ notified = [q \in Queues |-> FALSE]
  /\ link = 0 /\ reported = 0 /\ workQueued = FALSE /\ busy = FALSE
  /\ worker = [w \in Workers |-> "idle"] /\ seen = [w \in Workers |-> 0]
  /\ power = "off"

-----------------------------------------------------------------------------
(* The device (external).                                                  *)

\* A descriptor with interrupt-on-completion is done.
HwComplete(q) ==
  /\ power = "on" /\ nx[q] # "stopped"
  /\ work' = [work EXCEPT ![q] = TRUE]
  /\ status' = status \cup {q}
  /\ UNCHANGED <<enabled, wanted, armed, dpcVars, nx, notified, linkVars, power>>

HwAbnormal ==
  /\ power = "on"
  /\ status' = status \cup {"Abnormal"}
  /\ UNCHANGED <<enabled, wanted, armed, dpcVars, queueVars, linkVars, power>>

HwLinkChange ==
  /\ link < MaxLink
  /\ link' = link + 1
  /\ status' = status \cup {"Link"}
  /\ UNCHANGED <<enabled, wanted, armed, dpcVars, queueVars, reported, workQueued,
                 worker, seen, busy, power>>

-----------------------------------------------------------------------------
(* DeviceInterruptIsr.  It may also be called for a device sharing the     *)
(* line; it reads the status registers whatever is enabled.                *)
Isr ==
  /\ power = "on" /\ status # {}
  /\ status' = {}
  /\ enabled' = {}
  /\ wanted' = wanted \ (status \cap Queues)
  /\ interruptStatus' = interruptStatus \cup status
  /\ dpcQueued' = TRUE
  /\ UNCHANGED <<armed, dpc, newInterruptStatus, queueVars, linkVars, power>>

IsrAsserted == status \cap enabled # {} /\ Isr

-----------------------------------------------------------------------------
(* DeviceInterruptDpc.                                                     *)

DpcGoto(d, place) == dpc' = [dpc EXCEPT ![d] = place]

DpcStart(d) ==
  /\ dpcQueued /\ dpc[d] = "idle"
  /\ dpcQueued' = FALSE
  /\ DpcGoto(d, "exchange")
  /\ UNCHANGED <<status, enabled, wanted, armed, interruptStatus, newInterruptStatus,
                 queueVars, linkVars, power>>

DpcExchange(d) ==
  /\ dpc[d] = "exchange"
  /\ interruptStatus' = {}
  /\ newInterruptStatus' = [newInterruptStatus EXCEPT ![d] = interruptStatus]
  /\ DpcGoto(d, IF interruptStatus = {} THEN "idle" ELSE "link")
  /\ UNCHANGED <<status, enabled, wanted, armed, dpcQueued, queueVars, linkVars, power>>

DpcLink(d) ==
  /\ dpc[d] = "link"
  /\ IF "Link" \in newInterruptStatus[d]
     THEN status' = status \ {"Link"} /\ workQueued' = TRUE
     ELSE UNCHANGED <<status, workQueued>>
  /\ DpcGoto(d, "notify")
  /\ UNCHANGED <<enabled, wanted, armed, interruptStatus, dpcQueued, newInterruptStatus,
                 queueVars, link, reported, worker, seen, busy, power>>

\* A queue that is told is no longer armed.
DropTold_All(told) == armed' = [q \in Queues |-> FALSE]    \* slip: every queue is dropped
DropTold(told) == armed' = [q \in Queues |-> armed[q] /\ q \notin told]

\* Under queueLock.
DpcNotify(d) ==
  /\ dpc[d] = "notify"
  /\ LET told == {q \in Queues : armed[q] /\ q \in newInterruptStatus[d]} IN
     /\ notified' = [q \in Queues |-> notified[q] \/ q \in told]
     /\ DropTold(told)
  /\ newInterruptStatus' = [newInterruptStatus EXCEPT ![d] = {}]
  /\ DpcGoto(d, "enable")
  /\ UNCHANGED <<status, enabled, wanted, interruptStatus, dpcQueued, nx, work,
                 linkVars, power>>

\* "Enable interrupts if disabled by ISR."
Unmask_Never == enabled' = enabled    \* slip: left to DeviceInterruptEnable
Unmask == enabled' = IF wanted # {} THEN EnableFor(wanted) ELSE enabled

\* Under the interrupt lock.
DpcEnable(d) ==
  /\ dpc[d] = "enable"
  /\ Unmask
  /\ DpcGoto(d, "exchange")
  /\ UNCHANGED <<status, wanted, armed, interruptStatus, dpcQueued, newInterruptStatus,
                 queueVars, linkVars, power>>

Dpc(d) ==
  DpcStart(d) \/ DpcExchange(d) \/ DpcLink(d) \/ DpcNotify(d) \/ DpcEnable(d)

-----------------------------------------------------------------------------
(***************************************************************************)
(* NetAdapterCx's thread of a queue (external) polls the queue; when a     *)
(* poll finds nothing it enables the notification, polls once more and     *)
(* only then waits.  It is in the middle of DeviceSetNotificationRxQueue   *)
(* or TxQueue (both are called SetNotification here) when it has set the   *)
(* queue and not yet called DeviceInterruptEnable or Disable.              *)
(***************************************************************************)
NxGoto(q, place) == nx' = [nx EXCEPT ![q] = place]

Poll(q) ==
  /\ nx[q] \in {"polling", "check"}
  /\ work' = [work EXCEPT ![q] = FALSE]
  /\ NxGoto(q, CASE nx[q] = "polling" -> IF work[q] THEN "polling" ELSE "arm"
                 [] nx[q] = "check"   -> IF work[q] THEN "disarm" ELSE "waiting")
  /\ UNCHANGED <<status, enabled, wanted, armed, dpcVars, notified, linkVars, power>>

Wake(q) ==
  /\ nx[q] = "waiting" /\ notified[q]
  /\ notified' = [notified EXCEPT ![q] = FALSE]
  /\ NxGoto(q, "polling")
  /\ UNCHANGED <<status, enabled, wanted, armed, dpcVars, work, linkVars, power>>

\* SetNotification up to the release of queueLock.
SetQueue(q) ==
  /\ nx[q] \in {"arm", "disarm", "stop"}
  /\ armed' = [armed EXCEPT ![q] = (nx[q] = "arm")]
  /\ NxGoto(q, CASE nx[q] = "arm"    -> "arming"
                 [] nx[q] = "disarm" -> "disarming"
                 [] nx[q] = "stop"   -> "stopping")
  /\ UNCHANGED <<status, enabled, wanted, dpcVars, work, notified, linkVars, power>>

InterruptSet_Old(w) ==    \* slip: oldWanted is written
  wanted' = w /\ enabled' = EnableFor(wanted)

\* Writes the registers only if the set changes.
InterruptSet(w) ==
  /\ wanted' = w
  /\ enabled' = IF w # wanted THEN EnableFor(w) ELSE enabled

DeviceInterruptEnable(q) ==
  /\ nx[q] = "arming"
  /\ InterruptSet(wanted \cup {q})
  /\ NxGoto(q, "check")
  /\ UNCHANGED <<status, armed, dpcVars, work, notified, linkVars, power>>

DeviceInterruptDisable(q) ==
  /\ nx[q] \in {"disarming", "stopping"}
  /\ InterruptSet(wanted \ {q})
  /\ NxGoto(q, IF nx[q] = "stopping" THEN "stopped" ELSE "polling")
  /\ work' = IF nx[q] = "stopping" THEN [work EXCEPT ![q] = FALSE] ELSE work
  /\ notified' = IF nx[q] = "stopping" THEN [notified EXCEPT ![q] = FALSE] ELSE notified
  /\ UNCHANGED <<status, armed, dpcVars, linkVars, power>>

\* NetAdapterCx starts and cancels the queue while the device is in D0.
StartQueue(q) ==
  /\ power = "on" /\ nx[q] = "stopped"
  /\ NxGoto(q, "polling")
  /\ UNCHANGED <<status, enabled, wanted, armed, dpcVars, work, notified, linkVars, power>>

StopQueue(q) ==
  /\ nx[q] \in {"polling", "waiting"}
  /\ NxGoto(q, "stop")
  /\ UNCHANGED <<status, enabled, wanted, armed, dpcVars, work, notified, linkVars, power>>

Nx(q) ==
  Poll(q) \/ Wake(q) \/ SetQueue(q) \/ DeviceInterruptEnable(q) \/ DeviceInterruptDisable(q)

-----------------------------------------------------------------------------
(* DeviceLinkStateWorkItem and UpdateLinkState.                            *)

WorkStart(w) ==
  /\ workQueued /\ worker[w] = "idle"
  /\ workQueued' = FALSE
  /\ worker' = [worker EXCEPT ![w] = "started"]
  /\ UNCHANGED <<status, enabled, wanted, armed, dpcVars, queueVars, link, seen, reported,
                 busy, power>>

\* A run that finds updateLinkStateBusy set does nothing.
MayUpdate_Always == TRUE    \* slip: the old value of the flag is ignored
MayUpdate == ~busy

WorkEnter(w) ==
  /\ worker[w] = "started"
  /\ busy' = TRUE
  /\ worker' = [worker EXCEPT ![w] = IF MayUpdate THEN "read" ELSE "idle"]
  /\ UNCHANGED <<status, enabled, wanted, armed, dpcVars, queueVars, link, seen, reported,
                 workQueued, power>>

\* Reading Mac_PhyIf_Control_Status clears the LinkStatus interrupt.
WorkRead(w) ==
  /\ worker[w] = "read"
  /\ worker' = [worker EXCEPT ![w] = "report"] /\ seen' = [seen EXCEPT ![w] = link]
  /\ status' = status \ {"Link"}
  /\ UNCHANGED <<enabled, wanted, armed, dpcVars, queueVars, link, reported,
                 workQueued, busy, power>>

\* After the ACPI call that sets the clock: NetAdapterSetLinkState.
WorkReport(w) ==
  /\ worker[w] = "report"
  /\ reported' = seen[w] /\ seen' = [seen EXCEPT ![w] = 0]
  /\ worker' = [worker EXCEPT ![w] = "release"]
  /\ UNCHANGED <<status, enabled, wanted, armed, dpcVars, queueVars, link,
                 workQueued, busy, power>>

WorkRelease(w) ==
  /\ worker[w] = "release"
  /\ busy' = FALSE
  /\ worker' = [worker EXCEPT ![w] = "idle"]
  /\ UNCHANGED <<status, enabled, wanted, armed, dpcVars, queueVars, link, seen, reported,
                 workQueued, power>>

Work(w) ==
  WorkStart(w) \/ WorkEnter(w) \/ WorkRead(w) \/ WorkReport(w) \/ WorkRelease(w)

-----------------------------------------------------------------------------
(* DeviceD0Entry and DeviceD0Exit.  The framework connects the interrupt   *)
(* after D0Entry; before D0Exit it disconnects it and waits for the DPC.   *)

D0EntryLink ==
  /\ power = "off"
  /\ reported' = link /\ status' = status \ {"Link"}
  /\ power' = "entering"
  /\ UNCHANGED <<enabled, wanted, armed, dpcVars, queueVars, link, workQueued,
                 worker, seen, busy>>

\* Writing ones to Dma_Ch[0].Status leaves the link status alone.
ClearPending_All == status' = {}    \* slip: the link status too, after it was handled
ClearPending == status' = status \cap {"Link"}

D0EntryUnmask ==
  /\ power = "entering"
  /\ ClearPending
  /\ wanted' = {"State"} /\ enabled' = EnableFor({"State"})
  /\ power' = "on"
  /\ UNCHANGED <<armed, dpcVars, queueVars, linkVars>>

MaskAll_Registers == enabled' = {} /\ UNCHANGED wanted    \* slip: only the registers
MaskAll == enabled' = {} /\ wanted' = {}

D0ExitMask ==
  /\ power = "on" /\ \A q \in Queues : nx[q] = "stopped"
  /\ ~dpcQueued /\ \A d \in Dpcs : dpc[d] = "idle"
  /\ MaskAll
  /\ power' = "exiting"
  /\ UNCHANGED <<status, armed, dpcVars, queueVars, linkVars>>

\* WdfWorkItemFlush waits until the work item neither runs nor is queued.
WorkFlushed == ~workQueued /\ \A w \in Workers : worker[w] = "idle"

D0ExitFlush ==
  /\ power = "exiting" /\ WorkFlushed
  /\ power' = "off"
  /\ UNCHANGED <<status, enabled, wanted, armed, dpcVars, queueVars, linkVars>>

-----------------------------------------------------------------------------
Next ==
  \/ \E q \in Queues : HwComplete(q)
  \/ HwAbnormal
  \/ HwLinkChange
  \/ Isr
  \/ \E d \in Dpcs : Dpc(d)
  \/ \E q \in Queues : Nx(q) \/ StartQueue(q) \/ StopQueue(q)
  \/ \E w \in Workers : Work(w)
  \/ D0EntryLink
  \/ D0EntryUnmask
  \/ D0ExitMask
  \/ D0ExitFlush

Spec == Init /\ [][Next]_vars

(***************************************************************************)
(* Fairness: the line being asserted leads to the ISR, a queued DPC or     *)
(* work item runs to its end, NetAdapterCx's threads keep running.         *)
(* Nothing is assumed of the wire, of the link or of the power manager.    *)
(***************************************************************************)
Fairness ==
  /\ WF_vars(IsrAsserted)
  /\ WF_vars(\E d \in Dpcs : DpcStart(d))
  /\ \A d \in Dpcs : WF_vars(Dpc(d))
  /\ \A q \in Queues : WF_vars(Nx(q))
  /\ WF_vars(\E w \in Workers : WorkStart(w))
  /\ \A w \in Workers : WF_vars(Work(w))
  /\ WF_vars(D0EntryUnmask)

-----------------------------------------------------------------------------
DpcPlaces == {"idle", "exchange", "link", "notify", "enable"}
NxPlaces  == {"stopped", "polling", "arm", "arming", "check", "waiting",
              "disarm", "disarming", "stop", "stopping"}
WorkPlaces == {"idle", "started", "read", "report", "release"}

TypeOK ==
  /\ status \subseteq Sources /\ enabled \subseteq Sources
  /\ wanted \subseteq Queues \cup {"State"}
  /\ interruptStatus \subseteq Sources /\ dpcQueued \in BOOLEAN
  /\ dpc \in [Dpcs -> DpcPlaces] /\ newInterruptStatus \in [Dpcs -> SUBSET Sources]
  /\ armed \in [Queues -> BOOLEAN]
  /\ nx \in [Queues -> NxPlaces]
  /\ work \in [Queues -> BOOLEAN] /\ notified \in [Queues -> BOOLEAN]
  /\ link \in Nat /\ reported \in Nat
  /\ workQueued \in BOOLEAN /\ busy \in BOOLEAN
  /\ worker \in [Workers -> WorkPlaces] /\ seen \in [Workers -> Nat]
  /\ power \in {"off", "entering", "on", "exiting"}

\* Some DPC has still to deliver source x to the queues.
Undelivered(x) ==
  x \in interruptStatus \/ \E d \in Dpcs : dpc[d] \in {"link", "notify"} /\ x \in newInterruptStatus[d]

(* No wake-up is lost: when NetAdapterCx waits on a queue that has completed
   descriptors, it has been notified, or the queue is armed and its interrupt
   is pending and wanted or on its way through ISR and DPC. *)
NoLostWakeup ==
  \A q \in Queues : nx[q] = "waiting" /\ ~notified[q] =>
    /\ armed[q]
    /\ q \in wanted \/ Undelivered(q)
    /\ work[q] => q \in status \/ Undelivered(q)

(* The registers never enable more than is wanted, and enable less only while
   a DPC is still to run to its unmasking step: the ISR's mask is always
   undone, though DeviceInterruptEnable and Disable write the same registers
   between ISR and DPC. *)
MaskUndone ==
  /\ enabled \subseteq EnableFor(wanted)
  /\ enabled # EnableFor(wanted) =>
       \/ interruptStatus # {} /\ (dpcQueued \/ \E d \in Dpcs : dpc[d] = "exchange")
       \/ \E d \in Dpcs : dpc[d] \in {"link", "notify", "enable"}

(* The assertions of DeviceD0Entry and DeviceD0Exit (device.cpp 693, 697, 726,
   728, 729): out of D0 nothing is armed, wanted or enabled and no update of
   the link state runs. *)
D0Quiet ==
  /\ power = "exiting" => \A q \in Queues : ~armed[q]
  /\ power \in {"off", "entering"} =>
       /\ wanted = {} /\ enabled = {} /\ ~busy
       /\ \A q \in Queues : ~armed[q]

(* NetAdapterCx is never given an older link state after a newer one, though
   several runs of the work item may overlap. *)
LinkNeverStale == [][reported' >= reported]_vars

(* Completed descriptors are picked up in the end. *)
WorkServed == \A q \in Queues : work[q] ~> ~work[q]

\* A run of the work item that is about to find updateLinkStateBusy set.
Overlap == busy /\ \E w \in Workers : worker[w] = "started"

(* A change of the link the MAC signals is reported in the end unless the link
   changes again, the device leaves D0, or a run of the work item overlaps
   another: it then returns, and the other may have read the link before this
   change, which is not reported before the next one. *)
LinkReported ==
  \A v \in 1..MaxLink :
    (link = v /\ "Link" \in status /\ power \in {"entering", "on"})
      ~> (reported = v \/ link # v \/ power \in {"exiting", "off"} \/ Overlap)

=============================================================================
