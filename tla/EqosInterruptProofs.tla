------------------------- MODULE EqosInterruptProofs -------------------------
(***************************************************************************)
(* Theorems about EqosInterrupt, for any number of queues, processors,     *)
(* work item threads and link changes.                                     *)
(*                                                                         *)
(* None of the properties is inductive by itself.  What they rest on is    *)
(* named below: PowerInv (what is at rest outside D0), ArmedInv and        *)
(* WakeInv (what a queue may count on while it is being armed), BusyInv    *)
(* (updateLinkStateBusy is a lock) and LinkInv (versions of the link).     *)
(*                                                                         *)
(* The last section is about EqosDevice: its address, receive filter and   *)
(* frame limits, for any controller, registry and list of resources.       *)
(***************************************************************************)
EXTENDS EqosInterrupt, EqosDevice, SequenceTheorems, TLAPS

\* Out of D0 the interrupt path and the queues are at rest; the work item may
\* still run until it has been flushed.
PowerInv ==
  power # "on" =>
    /\ wanted = {} /\ enabled = {} /\ ~dpcQueued
    /\ \A d \in Dpcs : dpc[d] = "idle"
    /\ \A q \in Queues : nx[q] = "stopped"
    /\ power # "exiting" =>
         ~workQueued /\ \A w \in Workers : worker[w] = "idle"

\* A stopped queue is disarmed; one being armed has been recorded or told.
ArmedInv ==
  \A q \in Queues :
    /\ nx[q] \in {"stopped", "stopping"} => ~armed[q]
    /\ nx[q] = "arming" => armed[q] \/ notified[q]

\* From DeviceInterruptEnable on, a queue that has not been told is armed and
\* its interrupt is wanted or on its way.
WakeInv ==
  \A q \in Queues : nx[q] \in {"check", "waiting"} /\ ~notified[q] =>
    armed[q] /\ (q \in wanted \/ Undelivered(q))

Updating == {"read", "report", "release"}

\* updateLinkStateBusy is a lock held by the one run that updates the link.
BusyInv ==
  /\ \A w \in Workers : worker[w] \in Updating => busy
  /\ busy => \E w \in Workers : worker[w] \in Updating
  /\ \A v, w \in Workers :
       worker[v] \in Updating /\ worker[w] \in Updating => v = w

\* The version about to be reported is not older than the one reported.
LinkInv ==
  /\ reported <= link
  /\ \A w \in Workers : worker[w] = "report" =>
       reported <= seen[w] /\ seen[w] <= link

IInv ==
  TypeOK /\ PowerInv /\ ArmedInv /\ WakeInv /\ NoLostWakeup /\ MaskUndone /\
  BusyInv /\ LinkInv

-----------------------------------------------------------------------------
\* What the registers may enable.
LEMMA EnableForType ==
  ASSUME NEW W \in SUBSET (Queues \cup {"State"})
  PROVE  EnableFor(W) \subseteq Sources
BY DEF EnableFor, Sources

\* The initial state is well typed.
LEMMA TypeInit == Init => TypeOK
<1> SUFFICES ASSUME Init PROVE TypeOK
  OBVIOUS
<1> USE DEF Init
<1>1. dpc \in [Dpcs -> DpcPlaces] /\ nx \in [Queues -> NxPlaces]
        /\ worker \in [Workers -> WorkPlaces]
  BY DEF DpcPlaces, NxPlaces, WorkPlaces
<1> QED
  BY <1>1 DEF TypeOK, Sources

\* Every step keeps the types.
LEMMA TypeStep == TypeOK /\ [Next]_vars => TypeOK'
<1> SUFFICES ASSUME TypeOK, [Next]_vars PROVE TypeOK'
  OBVIOUS
<1> USE DEF TypeOK
<1>1. ASSUME NEW q \in Queues, HwComplete(q) PROVE TypeOK'
  BY <1>1 DEF HwComplete, dpcVars, linkVars, NxPlaces, Sources
<1>2. CASE HwAbnormal
  BY <1>2 DEF HwAbnormal, dpcVars, queueVars, linkVars, Sources
<1>3. CASE HwLinkChange
  BY <1>3 DEF HwLinkChange, dpcVars, queueVars, Sources
<1>4. CASE Isr
  BY <1>4 DEF Isr, queueVars, linkVars, Sources
<1>5. ASSUME NEW d \in Dpcs, DpcStart(d) PROVE TypeOK'
  BY <1>5 DEF DpcStart, DpcGoto, queueVars, linkVars, DpcPlaces
<1>6. ASSUME NEW d \in Dpcs, DpcExchange(d) PROVE TypeOK'
  BY <1>6 DEF DpcExchange, DpcGoto, queueVars, linkVars, DpcPlaces
<1>7. ASSUME NEW d \in Dpcs, DpcLink(d) PROVE TypeOK'
  BY <1>7 DEF DpcLink, DpcGoto, queueVars, DpcPlaces
<1>8. ASSUME NEW d \in Dpcs, DpcNotify(d) PROVE TypeOK'
  BY <1>8 DEF DpcNotify, DpcGoto, DropTold, linkVars, DpcPlaces
<1>9. ASSUME NEW d \in Dpcs, DpcEnable(d) PROVE TypeOK'
  BY <1>9, EnableForType DEF DpcEnable, DpcGoto, Unmask, queueVars, linkVars,
    DpcPlaces
<1>10. ASSUME NEW q \in Queues, Poll(q) PROVE TypeOK'
  BY <1>10 DEF Poll, NxGoto, dpcVars, linkVars, NxPlaces
<1>11. ASSUME NEW q \in Queues, Wake(q) PROVE TypeOK'
  BY <1>11 DEF Wake, NxGoto, dpcVars, linkVars, NxPlaces
<1>12. ASSUME NEW q \in Queues, SetQueue(q) PROVE TypeOK'
  BY <1>12 DEF SetQueue, NxGoto, dpcVars, linkVars, NxPlaces
<1>13. ASSUME NEW q \in Queues, DeviceInterruptEnable(q) PROVE TypeOK'
  BY <1>13, EnableForType DEF DeviceInterruptEnable, NxGoto, InterruptSet,
    dpcVars, linkVars, NxPlaces
<1>14. ASSUME NEW q \in Queues, DeviceInterruptDisable(q) PROVE TypeOK'
  BY <1>14, EnableForType DEF DeviceInterruptDisable, NxGoto, InterruptSet,
    dpcVars, linkVars, NxPlaces
<1>15. ASSUME NEW q \in Queues, StartQueue(q) PROVE TypeOK'
  BY <1>15 DEF StartQueue, NxGoto, dpcVars, linkVars, NxPlaces
<1>16. ASSUME NEW q \in Queues, StopQueue(q) PROVE TypeOK'
  BY <1>16 DEF StopQueue, NxGoto, dpcVars, linkVars, NxPlaces
<1>17. ASSUME NEW w \in Workers, WorkStart(w) PROVE TypeOK'
  BY <1>17 DEF WorkStart, dpcVars, queueVars, WorkPlaces
<1>18. ASSUME NEW w \in Workers, WorkEnter(w) PROVE TypeOK'
  BY <1>18 DEF WorkEnter, MayUpdate, dpcVars, queueVars, WorkPlaces
<1>19. ASSUME NEW w \in Workers, WorkRead(w) PROVE TypeOK'
  BY <1>19 DEF WorkRead, dpcVars, queueVars, WorkPlaces
<1>20. ASSUME NEW w \in Workers, WorkReport(w) PROVE TypeOK'
  BY <1>20 DEF WorkReport, dpcVars, queueVars, WorkPlaces
<1>21. ASSUME NEW w \in Workers, WorkRelease(w) PROVE TypeOK'
  BY <1>21 DEF WorkRelease, dpcVars, queueVars, WorkPlaces
<1>22. CASE D0EntryLink
  BY <1>22 DEF D0EntryLink, dpcVars, queueVars
<1>23. CASE D0EntryUnmask
  BY <1>23, EnableForType DEF D0EntryUnmask, ClearPending, dpcVars,
    queueVars, linkVars
<1>24. CASE D0ExitMask
  BY <1>24 DEF D0ExitMask, MaskAll, dpcVars, queueVars, linkVars
<1>25. CASE D0ExitFlush
  BY <1>25 DEF D0ExitFlush, WorkFlushed, dpcVars, queueVars, linkVars
<1>26. CASE UNCHANGED vars
  BY <1>26 DEF vars, dpcVars, queueVars, linkVars
<1> QED
  BY <1>1, <1>2, <1>3, <1>4, <1>5, <1>6, <1>7, <1>8, <1>9, <1>10, <1>11,
    <1>12, <1>13, <1>14, <1>15, <1>16, <1>17, <1>18, <1>19, <1>20, <1>21,
    <1>22, <1>23, <1>24, <1>25, <1>26 DEF Next, Dpc, Nx, Work

\* Outside D0 everything stays at rest.
LEMMA PowerStep ==
  TypeOK /\ PowerInv /\ MaskUndone /\ [Next]_vars => PowerInv'
<1> SUFFICES ASSUME TypeOK, PowerInv, MaskUndone, [Next]_vars
             PROVE  PowerInv'
  OBVIOUS
<1> USE DEF TypeOK, PowerInv
<1>1. CASE UNCHANGED <<power, wanted, enabled, dpcQueued, dpc, nx,
  workQueued, worker>>
  BY <1>1
<1>2. CASE Isr
  BY <1>2 DEF Isr, queueVars, linkVars
<1>3. ASSUME NEW d \in Dpcs, DpcStart(d) PROVE PowerInv'
  BY <1>3 DEF DpcStart, DpcGoto, queueVars, linkVars
<1>4. ASSUME NEW d \in Dpcs, DpcExchange(d) PROVE PowerInv'
  BY <1>4 DEF DpcExchange, DpcGoto, queueVars, linkVars
<1>5. ASSUME NEW d \in Dpcs, DpcLink(d) PROVE PowerInv'
  BY <1>5 DEF DpcLink, DpcGoto, queueVars
<1>6. ASSUME NEW d \in Dpcs, DpcNotify(d) PROVE PowerInv'
  BY <1>6 DEF DpcNotify, DpcGoto, DropTold, linkVars
<1>7. ASSUME NEW d \in Dpcs, DpcEnable(d) PROVE PowerInv'
  BY <1>7 DEF DpcEnable, DpcGoto, Unmask, queueVars, linkVars
<1>8. ASSUME NEW q \in Queues, Poll(q) PROVE PowerInv'
  BY <1>8 DEF Poll, NxGoto, dpcVars, linkVars
<1>9. ASSUME NEW q \in Queues, Wake(q) PROVE PowerInv'
  BY <1>9 DEF Wake, NxGoto, dpcVars, linkVars
<1>10. ASSUME NEW q \in Queues, SetQueue(q) PROVE PowerInv'
  BY <1>10 DEF SetQueue, NxGoto, dpcVars, linkVars
<1>11. ASSUME NEW q \in Queues, DeviceInterruptEnable(q) PROVE PowerInv'
  BY <1>11 DEF DeviceInterruptEnable, NxGoto, InterruptSet, dpcVars, linkVars
<1>12. ASSUME NEW q \in Queues, DeviceInterruptDisable(q) PROVE PowerInv'
  BY <1>12 DEF DeviceInterruptDisable, NxGoto, InterruptSet, dpcVars,
    linkVars
<1>13. ASSUME NEW q \in Queues, StartQueue(q) PROVE PowerInv'
  BY <1>13 DEF StartQueue, NxGoto, dpcVars, linkVars
<1>14. ASSUME NEW q \in Queues, StopQueue(q) PROVE PowerInv'
  BY <1>14 DEF StopQueue, NxGoto, dpcVars, linkVars
<1>15. ASSUME NEW w \in Workers, WorkStart(w) PROVE PowerInv'
  BY <1>15 DEF WorkStart, dpcVars, queueVars
<1>16. ASSUME NEW w \in Workers, WorkEnter(w) PROVE PowerInv'
  BY <1>16 DEF WorkEnter, MayUpdate, dpcVars, queueVars
<1>17. ASSUME NEW w \in Workers, WorkRead(w) PROVE PowerInv'
  BY <1>17 DEF WorkRead, dpcVars, queueVars
<1>18. ASSUME NEW w \in Workers, WorkReport(w) PROVE PowerInv'
  BY <1>18 DEF WorkReport, dpcVars, queueVars
<1>19. ASSUME NEW w \in Workers, WorkRelease(w) PROVE PowerInv'
  BY <1>19 DEF WorkRelease, dpcVars, queueVars
<1>20. CASE D0EntryLink
  BY <1>20 DEF D0EntryLink, dpcVars, queueVars
<1>21. CASE D0EntryUnmask
  BY <1>21 DEF D0EntryUnmask, ClearPending, dpcVars, queueVars, linkVars
<1>22. CASE D0ExitMask
  BY <1>22 DEF D0ExitMask, MaskAll, dpcVars, queueVars, linkVars
<1>23. CASE D0ExitFlush
  BY <1>23 DEF D0ExitFlush, WorkFlushed, dpcVars, queueVars, linkVars
<1>24. QED
  BY <1>1, <1>2, <1>3, <1>4, <1>5, <1>6, <1>7, <1>8, <1>9, <1>10, <1>11,
    <1>12, <1>13, <1>14, <1>15, <1>16, <1>17, <1>18, <1>19, <1>20, <1>21,
    <1>22, <1>23 DEF Next, Dpc, Nx, Work, vars, dpcVars, queueVars, linkVars,
    HwComplete, HwAbnormal, HwLinkChange

\* A stopped queue stays disarmed.
LEMMA ArmedStep ==
  TypeOK /\ ArmedInv /\ [Next]_vars => ArmedInv'
<1> SUFFICES ASSUME TypeOK, ArmedInv, [Next]_vars
             PROVE  ArmedInv'
  OBVIOUS
<1> USE DEF TypeOK, ArmedInv
<1>1. CASE UNCHANGED <<armed, nx, notified>>
  BY <1>1
<1>2. ASSUME NEW d \in Dpcs, DpcNotify(d) PROVE ArmedInv'
  BY <1>2 DEF DpcNotify, DpcGoto, DropTold, linkVars
<1>3. ASSUME NEW q \in Queues, Poll(q) PROVE ArmedInv'
  BY <1>3 DEF Poll, NxGoto, dpcVars, linkVars
<1>4. ASSUME NEW q \in Queues, Wake(q) PROVE ArmedInv'
  BY <1>4 DEF Wake, NxGoto, dpcVars, linkVars
<1>5. ASSUME NEW q \in Queues, SetQueue(q) PROVE ArmedInv'
  BY <1>5 DEF SetQueue, NxGoto, dpcVars, linkVars
<1>6. ASSUME NEW q \in Queues, DeviceInterruptEnable(q) PROVE ArmedInv'
  BY <1>6 DEF DeviceInterruptEnable, NxGoto, InterruptSet, dpcVars, linkVars
<1>7. ASSUME NEW q \in Queues, DeviceInterruptDisable(q) PROVE ArmedInv'
  BY <1>7 DEF DeviceInterruptDisable, NxGoto, InterruptSet, dpcVars, linkVars
<1>8. ASSUME NEW q \in Queues, StartQueue(q) PROVE ArmedInv'
  BY <1>8 DEF StartQueue, NxGoto, dpcVars, linkVars
<1>9. ASSUME NEW q \in Queues, StopQueue(q) PROVE ArmedInv'
  BY <1>9 DEF StopQueue, NxGoto, dpcVars, linkVars
<1>10. QED
  BY <1>1, <1>2, <1>3, <1>4, <1>5, <1>6, <1>7, <1>8, <1>9 DEF Next, Dpc, Nx,
    Work, vars, dpcVars, queueVars, linkVars, HwComplete, HwAbnormal,
    HwLinkChange, Isr, DpcStart, DpcExchange, DpcLink, DpcEnable, WorkStart,
    WorkEnter, WorkRead, WorkReport, WorkRelease, D0EntryLink, D0EntryUnmask,
    D0ExitMask, D0ExitFlush, ClearPending, MaskAll, DpcGoto, Unmask

\* updateLinkStateBusy stays a lock.
LEMMA BusyStep ==
  TypeOK /\ BusyInv /\ [Next]_vars => BusyInv'
<1> SUFFICES ASSUME TypeOK, BusyInv, [Next]_vars
             PROVE  BusyInv'
  OBVIOUS
<1> USE DEF TypeOK, BusyInv, Updating, WorkPlaces
<1>1. CASE UNCHANGED <<worker, busy>>
  BY <1>1
<1>2. ASSUME NEW w \in Workers, WorkStart(w) PROVE BusyInv'
  BY <1>2 DEF WorkStart, dpcVars, queueVars
<1>3. ASSUME NEW w \in Workers, WorkEnter(w) PROVE BusyInv'
  BY <1>3 DEF WorkEnter, MayUpdate, dpcVars, queueVars
<1>4. ASSUME NEW w \in Workers, WorkRead(w) PROVE BusyInv'
  BY <1>4 DEF WorkRead, dpcVars, queueVars
<1>5. ASSUME NEW w \in Workers, WorkReport(w) PROVE BusyInv'
  BY <1>5 DEF WorkReport, dpcVars, queueVars
<1>6. ASSUME NEW w \in Workers, WorkRelease(w) PROVE BusyInv'
  BY <1>6 DEF WorkRelease, dpcVars, queueVars
<1>7. QED
  BY <1>1, <1>2, <1>3, <1>4, <1>5, <1>6 DEF Next, Dpc, Nx, Work, vars,
    dpcVars, queueVars, linkVars, HwComplete, HwAbnormal, HwLinkChange, Isr,
    DpcStart, DpcExchange, DpcLink, DpcNotify, DpcEnable, Poll, Wake,
    SetQueue, DeviceInterruptEnable, DeviceInterruptDisable, StartQueue,
    StopQueue, D0EntryLink, D0EntryUnmask, D0ExitMask, D0ExitFlush,
    ClearPending, MaskAll, DpcGoto, NxGoto, Unmask, InterruptSet

\* No run holds an older version than the reported one.
LEMMA LinkStep ==
  TypeOK /\ PowerInv /\ BusyInv /\ LinkInv /\ [Next]_vars => LinkInv'
<1> SUFFICES ASSUME TypeOK, PowerInv, BusyInv, LinkInv, [Next]_vars
             PROVE  LinkInv'
  OBVIOUS
<1> USE DEF TypeOK, LinkInv, PowerInv, BusyInv, Updating
<1>1. CASE UNCHANGED <<link, reported, worker, seen>>
  BY <1>1
<1>2. CASE HwLinkChange
  BY <1>2 DEF HwLinkChange, dpcVars, queueVars
<1>3. ASSUME NEW w \in Workers, WorkStart(w) PROVE LinkInv'
  BY <1>3 DEF WorkStart, dpcVars, queueVars
<1>4. ASSUME NEW w \in Workers, WorkEnter(w) PROVE LinkInv'
  BY <1>4 DEF WorkEnter, MayUpdate, dpcVars, queueVars
<1>5. ASSUME NEW w \in Workers, WorkRead(w) PROVE LinkInv'
  BY <1>5 DEF WorkRead, dpcVars, queueVars
<1>6. ASSUME NEW w \in Workers, WorkReport(w) PROVE LinkInv'
  BY <1>6 DEF WorkReport, dpcVars, queueVars
<1>7. ASSUME NEW w \in Workers, WorkRelease(w) PROVE LinkInv'
  BY <1>7 DEF WorkRelease, dpcVars, queueVars
<1>8. CASE D0EntryLink
  BY <1>8 DEF D0EntryLink, dpcVars, queueVars
<1>9. QED
  BY <1>1, <1>2, <1>3, <1>4, <1>5, <1>6, <1>7, <1>8 DEF Next, Dpc, Nx, Work,
    vars, dpcVars, queueVars, linkVars, HwComplete, HwAbnormal, Isr,
    DpcStart, DpcExchange, DpcLink, DpcNotify, DpcEnable, Poll, Wake,
    SetQueue, DeviceInterruptEnable, DeviceInterruptDisable, StartQueue,
    StopQueue, D0EntryUnmask, D0ExitMask, D0ExitFlush, ClearPending, MaskAll,
    DpcGoto, NxGoto, Unmask, InterruptSet

\* The mask of the ISR stays accounted for.
LEMMA MaskStep ==
  TypeOK /\ MaskUndone /\ [Next]_vars => MaskUndone'
<1> SUFFICES ASSUME TypeOK, MaskUndone, [Next]_vars
             PROVE  MaskUndone'
  OBVIOUS
<1> USE DEF TypeOK, MaskUndone
<1>1. CASE UNCHANGED <<enabled, wanted, interruptStatus, dpcQueued, dpc>>
  BY <1>1
<1>2. CASE Isr
  BY <1>2 DEF Isr, queueVars, linkVars
<1>3. ASSUME NEW d \in Dpcs, DpcStart(d) PROVE MaskUndone'
  BY <1>3 DEF DpcStart, DpcGoto, queueVars, linkVars
<1>4. ASSUME NEW d \in Dpcs, DpcExchange(d) PROVE MaskUndone'
  BY <1>4 DEF DpcExchange, DpcGoto, queueVars, linkVars
<1>5. ASSUME NEW d \in Dpcs, DpcLink(d) PROVE MaskUndone'
  BY <1>5 DEF DpcLink, DpcGoto, queueVars
<1>6. ASSUME NEW d \in Dpcs, DpcNotify(d) PROVE MaskUndone'
  BY <1>6 DEF DpcNotify, DpcGoto, DropTold, linkVars
<1>7. ASSUME NEW d \in Dpcs, DpcEnable(d) PROVE MaskUndone'
  <2>1. EnableFor(wanted) = enabled'
    <3>1. CASE wanted = {}
      BY <1>7, <3>1 DEF DpcEnable, Unmask, EnableFor
    <3>2. CASE wanted # {}
      BY <1>7, <3>2 DEF DpcEnable, Unmask
    <3> QED
      BY <3>1, <3>2
  <2> QED
    BY <1>7, <2>1 DEF DpcEnable
<1>8. ASSUME NEW q \in Queues, DeviceInterruptEnable(q) PROVE MaskUndone'
  BY <1>8 DEF DeviceInterruptEnable, NxGoto, InterruptSet, dpcVars, linkVars
<1>9. ASSUME NEW q \in Queues, DeviceInterruptDisable(q) PROVE MaskUndone'
  BY <1>9 DEF DeviceInterruptDisable, NxGoto, InterruptSet, dpcVars, linkVars
<1>10. CASE D0EntryUnmask
  BY <1>10 DEF D0EntryUnmask, ClearPending, dpcVars, queueVars, linkVars
<1>11. CASE D0ExitMask
  BY <1>11 DEF D0ExitMask, MaskAll, dpcVars, queueVars, linkVars, EnableFor
<1>12. QED
  BY <1>1, <1>2, <1>3, <1>4, <1>5, <1>6, <1>7, <1>8, <1>9, <1>10, <1>11 DEF
    Next, Dpc, Nx, Work, vars, dpcVars, queueVars, linkVars, HwComplete,
    HwAbnormal, HwLinkChange, Poll, Wake, SetQueue, StartQueue, StopQueue,
    WorkStart, WorkEnter, WorkRead, WorkReport, WorkRelease, D0EntryLink,
    D0ExitFlush, NxGoto

\* A queue being armed stays accounted for.
LEMMA WakeStep ==
  TypeOK /\ PowerInv /\ ArmedInv /\ WakeInv /\ [Next]_vars => WakeInv'
<1> SUFFICES ASSUME TypeOK, PowerInv, ArmedInv, WakeInv, [Next]_vars
             PROVE  WakeInv'
  OBVIOUS
<1> USE DEF TypeOK, WakeInv, Undelivered
<1>1. CASE UNCHANGED <<nx, notified, armed, wanted, interruptStatus, dpc,
  newInterruptStatus>>
  BY <1>1
<1>2. CASE Isr
  BY <1>2 DEF Isr, queueVars, linkVars
<1>3. ASSUME NEW d \in Dpcs, DpcStart(d) PROVE WakeInv'
  BY <1>3 DEF DpcStart, DpcGoto, queueVars, linkVars
<1>4. ASSUME NEW d \in Dpcs, DpcExchange(d) PROVE WakeInv'
  BY <1>4 DEF DpcExchange, DpcGoto, queueVars, linkVars
<1>5. ASSUME NEW d \in Dpcs, DpcLink(d) PROVE WakeInv'
  BY <1>5 DEF DpcLink, DpcGoto, queueVars
<1>6. ASSUME NEW d \in Dpcs, DpcNotify(d) PROVE WakeInv'
  BY <1>6 DEF DpcNotify, DpcGoto, DropTold, linkVars
<1>7. ASSUME NEW d \in Dpcs, DpcEnable(d) PROVE WakeInv'
  BY <1>7 DEF DpcEnable, DpcGoto, Unmask, queueVars, linkVars
<1>8. ASSUME NEW q \in Queues, Poll(q) PROVE WakeInv'
  BY <1>8 DEF Poll, NxGoto, dpcVars, linkVars
<1>9. ASSUME NEW q \in Queues, Wake(q) PROVE WakeInv'
  BY <1>9 DEF Wake, NxGoto, dpcVars, linkVars
<1>10. ASSUME NEW q \in Queues, SetQueue(q) PROVE WakeInv'
  BY <1>10 DEF SetQueue, NxGoto, dpcVars, linkVars
<1>11. ASSUME NEW q \in Queues, DeviceInterruptEnable(q) PROVE WakeInv'
  <2>1. ASSUME NEW r \in Queues, nx'[r] \in {"check", "waiting"}, ~notified'[r]
        PROVE  armed'[r] /\ (r \in wanted' \/ Undelivered(r)')
    <3>1. CASE r = q
      BY <1>11, <2>1, <3>1 DEF DeviceInterruptEnable, NxGoto, InterruptSet, ArmedInv
    <3>2. CASE r # q
      BY <1>11, <2>1, <3>2 DEF DeviceInterruptEnable, NxGoto, InterruptSet, dpcVars
    <3> QED
      BY <3>1, <3>2
  <2> QED
    BY <2>1
<1>12. ASSUME NEW q \in Queues, DeviceInterruptDisable(q) PROVE WakeInv'
  BY <1>12 DEF DeviceInterruptDisable, NxGoto, InterruptSet, dpcVars,
    linkVars
<1>13. ASSUME NEW q \in Queues, StartQueue(q) PROVE WakeInv'
  BY <1>13 DEF StartQueue, NxGoto, dpcVars, linkVars
<1>14. ASSUME NEW q \in Queues, StopQueue(q) PROVE WakeInv'
  BY <1>14 DEF StopQueue, NxGoto, dpcVars, linkVars
<1>15. CASE D0EntryUnmask
  BY <1>15 DEF D0EntryUnmask, ClearPending, dpcVars, queueVars, linkVars,
    PowerInv
<1>16. CASE D0ExitMask
  BY <1>16 DEF D0ExitMask, MaskAll, dpcVars, queueVars, linkVars
<1>17. QED
  BY <1>1, <1>2, <1>3, <1>4, <1>5, <1>6, <1>7, <1>8, <1>9, <1>10, <1>11,
    <1>12, <1>13, <1>14, <1>15, <1>16 DEF Next, Dpc, Nx, Work, vars, dpcVars,
    queueVars, linkVars, HwComplete, HwAbnormal, HwLinkChange, WorkStart,
    WorkEnter, WorkRead, WorkReport, WorkRelease, D0EntryLink, D0ExitFlush

\* A waiting queue with completed descriptors stays accounted for.
LEMMA LostStep ==
  TypeOK /\ PowerInv /\ WakeInv /\ NoLostWakeup /\ [Next]_vars => NoLostWakeup'
<1> SUFFICES ASSUME TypeOK, PowerInv, WakeInv, NoLostWakeup, [Next]_vars
             PROVE  NoLostWakeup'
  OBVIOUS
<1> USE DEF TypeOK, NoLostWakeup, WakeInv, Undelivered
<1>1. CASE UNCHANGED <<nx, notified, armed, wanted, interruptStatus, dpc,
  newInterruptStatus, work, status>>
  BY <1>1
<1>2. ASSUME NEW q \in Queues, HwComplete(q) PROVE NoLostWakeup'
  BY <1>2 DEF HwComplete, dpcVars, linkVars
<1>3. CASE HwAbnormal
  BY <1>3 DEF HwAbnormal, dpcVars, queueVars, linkVars
<1>4. CASE HwLinkChange
  BY <1>4 DEF HwLinkChange, dpcVars, queueVars
<1>5. CASE Isr
  BY <1>5 DEF Isr, queueVars, linkVars
<1>6. ASSUME NEW d \in Dpcs, DpcStart(d) PROVE NoLostWakeup'
  BY <1>6 DEF DpcStart, DpcGoto, queueVars, linkVars
<1>7. ASSUME NEW d \in Dpcs, DpcExchange(d) PROVE NoLostWakeup'
  BY <1>7 DEF DpcExchange, DpcGoto, queueVars, linkVars
<1>8. ASSUME NEW d \in Dpcs, DpcLink(d) PROVE NoLostWakeup'
  BY <1>8, ConstantsAssumption DEF DpcLink, DpcGoto, queueVars
<1>9. ASSUME NEW d \in Dpcs, DpcNotify(d) PROVE NoLostWakeup'
  BY <1>9 DEF DpcNotify, DpcGoto, DropTold, linkVars
<1>10. ASSUME NEW d \in Dpcs, DpcEnable(d) PROVE NoLostWakeup'
  BY <1>10 DEF DpcEnable, DpcGoto, Unmask, queueVars, linkVars
<1>11. ASSUME NEW q \in Queues, Poll(q) PROVE NoLostWakeup'
  BY <1>11 DEF Poll, NxGoto, dpcVars, linkVars
<1>12. ASSUME NEW q \in Queues, Wake(q) PROVE NoLostWakeup'
  BY <1>12 DEF Wake, NxGoto, dpcVars, linkVars
<1>13. ASSUME NEW q \in Queues, SetQueue(q) PROVE NoLostWakeup'
  BY <1>13 DEF SetQueue, NxGoto, dpcVars, linkVars
<1>14. ASSUME NEW q \in Queues, DeviceInterruptEnable(q) PROVE NoLostWakeup'
  BY <1>14 DEF DeviceInterruptEnable, NxGoto, InterruptSet, dpcVars, linkVars
<1>15. ASSUME NEW q \in Queues, DeviceInterruptDisable(q) PROVE NoLostWakeup'
  BY <1>15 DEF DeviceInterruptDisable, NxGoto, InterruptSet, dpcVars,
    linkVars
<1>16. ASSUME NEW q \in Queues, StartQueue(q) PROVE NoLostWakeup'
  BY <1>16 DEF StartQueue, NxGoto, dpcVars, linkVars
<1>17. ASSUME NEW q \in Queues, StopQueue(q) PROVE NoLostWakeup'
  BY <1>17 DEF StopQueue, NxGoto, dpcVars, linkVars
<1>18. ASSUME NEW w \in Workers, WorkRead(w) PROVE NoLostWakeup'
  BY <1>18, ConstantsAssumption DEF WorkRead, dpcVars, queueVars
<1>19. CASE D0EntryLink
  BY <1>19, ConstantsAssumption DEF D0EntryLink, dpcVars, queueVars, PowerInv
<1>20. CASE D0EntryUnmask
  BY <1>20 DEF D0EntryUnmask, ClearPending, dpcVars, queueVars, linkVars,
    PowerInv
<1>21. CASE D0ExitMask
  BY <1>21 DEF D0ExitMask, MaskAll, dpcVars, queueVars, linkVars
<1>22. QED
  BY <1>1, <1>2, <1>3, <1>4, <1>5, <1>6, <1>7, <1>8, <1>9, <1>10, <1>11,
    <1>12, <1>13, <1>14, <1>15, <1>16, <1>17, <1>18, <1>19, <1>20, <1>21 DEF
    Next, Dpc, Nx, Work, vars, dpcVars, queueVars, linkVars, WorkStart,
    WorkEnter, WorkReport, WorkRelease, D0ExitFlush

-----------------------------------------------------------------------------
\* The inductive invariant.
THEOREM Invariance == Spec => []IInv
<1>1. Init => IInv
  <2> SUFFICES ASSUME Init PROVE IInv
    OBVIOUS
  <2>1. TypeOK
    BY TypeInit
  <2>2. PowerInv /\ ArmedInv /\ WakeInv /\ NoLostWakeup /\ LinkInv
    BY DEF Init, PowerInv, ArmedInv, WakeInv, NoLostWakeup, LinkInv
  <2>3. MaskUndone /\ BusyInv
    BY DEF Init, MaskUndone, EnableFor, BusyInv, Updating
  <2> QED
    BY <2>1, <2>2, <2>3 DEF IInv
<1>2. IInv /\ [Next]_vars => IInv'
  BY TypeStep, PowerStep, ArmedStep, WakeStep, LostStep, MaskStep, BusyStep,
     LinkStep DEF IInv
<1> QED
  BY <1>1, <1>2, PTL DEF Spec

(* The types are kept for any number of processors, queues and workers
   (EqosNotify checks this on one instance). *)
THEOREM TypeCorrect == Spec => []TypeOK
<1>1. IInv => TypeOK
  BY DEF IInv
<1> QED
  BY <1>1, Invariance, PTL

(* No wake-up is lost between DeviceSetNotification*Queue, the ISR and any
   number of concurrent DPCs, with both queues sharing the interrupt. *)
THEOREM NoWakeupLost == Spec => []NoLostWakeup
<1>1. IInv => NoLostWakeup
  BY DEF IInv
<1> QED
  BY <1>1, Invariance, PTL

(* The ISR's mask is always undone: DeviceInterruptEnable and Disable never
   leave the registers masked with no DPC left to unmask them. *)
THEOREM MaskIsUndone == Spec => []MaskUndone
<1>1. IInv => MaskUndone
  BY DEF IInv
<1> QED
  BY <1>1, Invariance, PTL

(* The assertions of DeviceD0Entry and DeviceD0Exit hold. *)
THEOREM QuietOutOfD0 == Spec => []D0Quiet
<1>1. IInv => D0Quiet
  BY DEF IInv, PowerInv, ArmedInv, BusyInv, Updating, TypeOK, D0Quiet
<1> QED
  BY <1>1, Invariance, PTL

(* NetAdapterSetLinkState is never called with an older state after a newer
   one, however many runs of the work item overlap. *)
THEOREM LinkIsNeverStale == Spec => LinkNeverStale
<1>1. IInv /\ [Next]_vars => [reported' >= reported]_vars
  <2> SUFFICES ASSUME IInv, [Next]_vars PROVE reported' >= reported \/ UNCHANGED vars
    OBVIOUS
  <2> USE DEF IInv, TypeOK, LinkInv
  <2>1. CASE UNCHANGED reported
    BY <2>1
  <2>2. ASSUME NEW w \in Workers, WorkReport(w) PROVE reported' >= reported
    BY <2>2 DEF WorkReport
  <2>3. CASE D0EntryLink
    BY <2>3 DEF D0EntryLink
  <2> QED
    BY <2>1, <2>2, <2>3 DEF Next, Dpc, Nx, Work, vars, linkVars, HwComplete,
      HwAbnormal, HwLinkChange, Isr, DpcStart, DpcExchange, DpcLink,
      DpcNotify, DpcEnable, Poll, Wake, SetQueue, DeviceInterruptEnable,
      DeviceInterruptDisable, StartQueue, StopQueue, WorkStart, WorkEnter,
      WorkRead, WorkRelease, D0EntryUnmask, D0ExitMask, D0ExitFlush
<1> QED
  BY <1>1, Invariance, PTL DEF Spec, LinkNeverStale


-----------------------------------------------------------------------------
(* EqosDevice.  The invariant is one conjunct per property, each with the  *)
(* stages of a preparation at which it begins to hold.                     *)

Addresses == {"factory", "blank", "group", "registry", "cleared", "random"}

Powered   == {"prepared", "on"}
Addressed == {"features", "config", "dma", "reset", "start"} \cup Powered

RegistersOf(n) ==
  [mac0 : Addresses, slots : [1 .. n - 1 -> SUBSET Groups], filter : SUBSET {"promiscuous", "all"},
   rx : {registers.rx}, giant : Nat, watchdog : Nat, jabber : BOOLEAN]

Contexts ==
  [regs : BOOLEAN, interrupt : {"none", "created", "deleted"}, dma : BOOLEAN, permanent : Addresses,
   current : Addresses, configured : BOOLEAN, jumbo : Nat, flow : BOOLEAN]

Requests == [promiscuous : BOOLEAN, all : BOOLEAN, list : Seq(Groups)]

DeviceTypeOK ==
  /\ stage \in {"none", "off", "added", "resources", "address", "failed", "removing", "released"} \cup Addressed
  /\ chip \in [slots : Nat \ {0}, fifo : Nat, factory : {"factory", "blank", "group"}]
  /\ registers \in RegistersOf(chip.slots) /\ context \in Contexts /\ request \in Requests
  /\ lost \in BOOLEAN

\* Where the factory's address is: in the register until the device is reset
\* with another one, and in the context by then.
AddressOK ==
  /\ context.configured => context.current = "registry"
  /\ stage = "address" \/ stage \in Addressed => context.regs
  /\ stage \in {"none", "off", "added", "removing", "released"} => ~context.regs
  /\ stage = "none" => context.permanent = "blank"
  /\ ~lost =>
       /\ context.permanent \in {"blank", chip.factory}
       /\ stage \in {"start"} \cup Powered \/ (stage = "failed" /\ context.regs) \/ registers.mac0 = chip.factory
       /\ stage \in Addressed =>
            /\ context.permanent = chip.factory
            /\ context.current = IF context.configured THEN "registry" ELSE Usable(chip.factory)

Passes(g) == registers.filter # {} \/ \E i \in DOMAIN registers.slots : g \in registers.slots[i]
Asked(g)  == request.promiscuous \/ request.all \/ \E i \in DOMAIN request.list : request.list[i] = g

\* No filter outlives the device's reset, in the registers or out of them.
FilterOK ==
  /\ stage \notin Powered => request = NoFilter
  /\ stage \in {"start"} \cup Powered => \A g \in Groups : Passes(g) <=> Asked(g)

FrameOK ==
  /\ stage \in {"dma", "reset", "start"} \cup Powered => context.jumbo \in JumboPacketMin .. JumboPacketMax
  /\ LongestFramePasses

DeviceIInv == DeviceTypeOK /\ AddressOK /\ FilterOK /\ FrameOK

LEMMA NoFilterTyped == NoFilter \in Requests /\ DOMAIN NoFilter.list = {} /\ ~NoFilter.promiscuous /\ ~NoFilter.all
<1>1. << >> \in Seq(Groups)
  OBVIOUS
<1> QED
  BY <1>1 DEF NoFilter, Requests

\* The registers after a reset.
AsReset(r, n, address) ==
  /\ r.mac0 = address /\ r.filter = {} /\ r.slots = [i \in 1 .. n - 1 |-> {}]
  /\ r \in [mac0 : Addresses, slots : [1 .. n - 1 -> SUBSET Groups], filter : SUBSET {"promiscuous", "all"},
            rx : {r.rx}, giant : Nat, watchdog : Nat, jabber : BOOLEAN]

LEMMA ResetTyped ==
  ASSUME NEW n \in Nat \ {0}, NEW address \in Addresses
  PROVE  AsReset(ResetRegisters(n, address), n, address)
BY DEF AsReset, ResetRegisters

LEMMA ContextTyped == NewContext \in Contexts
BY DEF NewContext, Contexts, Addresses

LEMMA DeviceInitHolds == DeviceInit => DeviceIInv
<1> SUFFICES ASSUME DeviceInit PROVE DeviceIInv
  OBVIOUS
<1>1. AsReset(registers, 1, "factory")
  BY ResetTyped DEF DeviceInit, Addresses
<1>2. DeviceTypeOK
  <2>1. chip \in [slots : Nat \ {0}, fifo : Nat, factory : {"factory", "blank", "group"}] /\ chip.slots = 1
    BY DEF DeviceInit
  <2>2. registers \in RegistersOf(1)
    BY <1>1 DEF AsReset, RegistersOf
  <2> QED
    BY <2>1, <2>2, ContextTyped, NoFilterTyped DEF DeviceInit, DeviceTypeOK
<1> QED
  BY <1>1, <1>2 DEF DeviceInit, DeviceIInv, AddressOK, FilterOK, FrameOK, LongestFramePasses, AsReset, NewContext,
     Addressed, Powered

LEMMA PowerOnHolds ==
  ASSUME DeviceIInv, PowerOn
  PROVE  DeviceIInv'
<1>1. /\ chip' \in [slots : Nat \ {0}, fifo : Nat, factory : {"factory", "blank", "group"}]
      /\ registers' = ResetRegisters(chip'.slots, chip'.factory)
      /\ stage = "none" /\ stage' = "off" /\ UNCHANGED <<context, request, lost>>
  BY DeviceAssumption DEF PowerOn
<1>2. AsReset(registers', chip'.slots, chip'.factory)
  BY <1>1, ResetTyped DEF Addresses
<1>3. DeviceTypeOK'
  BY <1>1, <1>2 DEF DeviceIInv, DeviceTypeOK, AsReset, RegistersOf
<1>4. AddressOK'
  BY <1>1, <1>2 DEF DeviceIInv, AddressOK, AsReset, Addressed, Powered
<1> QED
  BY <1>1, <1>3, <1>4 DEF DeviceIInv, FilterOK, FrameOK, LongestFramePasses, Powered

LEMMA ReadConfigurationHolds ==
  ASSUME DeviceIInv, ReadConfiguration
  PROVE  DeviceIInv'
<1>1. CASE Fails
  BY <1>1 DEF ReadConfiguration, Fails, DeviceIInv, DeviceTypeOK, RegistersOf, AddressOK, FilterOK, FrameOK,
              LongestFramePasses, Passes, Asked, Addressed, Powered
<1>2. CASE ~Fails
  <2>1. PICK found \in BOOLEAN :
          /\ stage = "added" /\ stage' = "resources"
          /\ context' = [context EXCEPT !.configured = found, !.current = IF found THEN "registry" ELSE @]
          /\ UNCHANGED <<chip, registers, request, lost>>
    BY <1>2 DEF ReadConfiguration
  <2>2. /\ context' \in Contexts /\ context'.regs = context.regs /\ context'.permanent = context.permanent
        /\ context'.configured => context'.current = "registry"
    <3>1. CASE found = TRUE
      BY <2>1, <3>1 DEF DeviceIInv, DeviceTypeOK, Contexts, Addresses
    <3>2. CASE found = FALSE
      BY <2>1, <3>2 DEF DeviceIInv, DeviceTypeOK, Contexts, Addresses
    <3> QED
      BY <3>1, <3>2
  <2> QED
    BY <2>1, <2>2 DEF DeviceIInv, DeviceTypeOK, RegistersOf, AddressOK, FilterOK, FrameOK,
                      LongestFramePasses, Passes, Asked, Addressed, Powered
<1> QED
  BY <1>1, <1>2

\* A step of the preparation that only touches the context and the stage.
LEMMA ContextSteps ==
  ASSUME DeviceIInv, UNCHANGED <<chip, registers, request, lost>>, context' \in Contexts,
         stage' \in {"failed", "resources", "address", "config", "dma", "reset"},
         stage \in {"added", "resources", "features", "config", "dma"},
         stage' \in {"config", "dma", "reset"} => stage \in {"features", "config", "dma"},
         context'.permanent = context.permanent, context'.current = context.current,
         context'.configured = context.configured,
         context.regs => context'.regs,
         stage' = "address" => context'.regs,
         stage' \in {"dma", "reset"} => context'.jumbo \in JumboPacketMin .. JumboPacketMax
  PROVE  DeviceIInv'
<1>1. DeviceTypeOK'
  BY DEF DeviceIInv, DeviceTypeOK, RegistersOf, Addressed, Powered
<1>2. AddressOK'
  BY DEF DeviceIInv, AddressOK, Addressed, Powered
<1>3. FilterOK' /\ FrameOK'
  BY DEF DeviceIInv, FilterOK, FrameOK, LongestFramePasses, Powered
<1> QED
  BY <1>1, <1>2, <1>3 DEF DeviceIInv

LEMMA ResourcesHold ==
  ASSUME DeviceIInv, MapRegisters \/ CreateInterrupt \/ SkipResource \/ CheckResources
  PROVE  DeviceIInv'
<1> USE DEF DeviceIInv, DeviceTypeOK, Contexts
<1>1. ASSUME MapRegisters PROVE DeviceIInv'
  BY <1>1, ContextSteps DEF MapRegisters, Fails
<1>2. ASSUME CreateInterrupt PROVE DeviceIInv'
  BY <1>2, ContextSteps DEF CreateInterrupt, Fails
<1>3. ASSUME SkipResource PROVE DeviceIInv'
  BY <1>3, ContextSteps DEF SkipResource
<1>4. ASSUME CheckResources PROVE DeviceIInv'
  BY <1>4, ContextSteps DEF CheckResources
<1> QED
  BY <1>1, <1>2, <1>3, <1>4

LEMMA FeaturesHold ==
  ASSUME DeviceIInv, ReadFeatures \/ DeviceConfig \/ CreateDmaEnabler
  PROVE  DeviceIInv'
<1>1. ASSUME ReadFeatures PROVE DeviceIInv'
  BY <1>1, ContextSteps DEF ReadFeatures, Fails, DeviceIInv, DeviceTypeOK
<1>2. ASSUME DeviceConfig PROVE DeviceIInv'
  <2>1. PICK jumbo \in JumboPackets, flow \in 0 .. 5 :
          context' = [context EXCEPT
            !.jumbo = IF jumbo < JumboPacketMin THEN JumboPacketMin
                      ELSE IF jumbo > JumboPacketMax THEN JumboPacketMax ELSE jumbo,
            !.flow = RxFlowControl(flow)]
    BY <1>2 DEF DeviceConfig
  <2> DEFINE j == IF jumbo < JumboPacketMin THEN JumboPacketMin
                  ELSE IF jumbo > JumboPacketMax THEN JumboPacketMax ELSE jumbo
  <2>2. j \in JumboPacketMin .. JumboPacketMax /\ j \in Nat /\ RxFlowControl(flow) \in BOOLEAN
    BY DeviceAssumption DEF JumboPacketMin, JumboPacketMax, RxFlowControl
  <2> HIDE DEF j
  <2>3. context' = [context EXCEPT !.jumbo = j, !.flow = RxFlowControl(flow)]
    BY <2>1 DEF j
  <2>4. /\ context' \in Contexts /\ context'.permanent = context.permanent /\ context'.current = context.current
        /\ context'.configured = context.configured /\ context'.regs = context.regs /\ context'.jumbo = j
    BY <2>2, <2>3 DEF DeviceIInv, DeviceTypeOK, Contexts
  <2> QED
    BY <1>2, <2>2, <2>4, ContextSteps DEF DeviceConfig
<1>3. ASSUME CreateDmaEnabler PROVE DeviceIInv'
  <2>1. /\ context' \in Contexts /\ context'.permanent = context.permanent /\ context'.current = context.current
        /\ context'.configured = context.configured /\ context'.regs = context.regs /\ context'.jumbo = context.jumbo
    BY <1>3 DEF CreateDmaEnabler, Fails, DeviceIInv, DeviceTypeOK, Contexts
  <2> QED
    BY <1>3, <2>1, ContextSteps DEF CreateDmaEnabler, Fails, DeviceIInv, FrameOK
<1> QED
  BY <1>1, <1>2, <1>3

LEMMA SetUpMacAddressHolds ==
  ASSUME DeviceIInv, SetUpMacAddress
  PROVE  DeviceIInv'
<1>1. /\ stage = "address" /\ stage' = "features" /\ UNCHANGED <<chip, registers, request, lost>>
      /\ context' = [context EXCEPT !.permanent = registers.mac0,
                                    !.current = IF context.configured THEN @ ELSE Usable(registers.mac0)]
  BY DEF SetUpMacAddress
<1>2. registers.mac0 \in Addresses /\ Usable(registers.mac0) \in Addresses
  BY DEF DeviceIInv, DeviceTypeOK, RegistersOf, Usable, Addresses
<1>3. /\ context' \in Contexts /\ context'.permanent = registers.mac0
      /\ context'.current = IF context.configured THEN context.current ELSE Usable(registers.mac0)
      /\ context'.configured = context.configured /\ context'.regs = context.regs
  BY <1>1, <1>2 DEF DeviceIInv, DeviceTypeOK, Contexts
<1>4. DeviceTypeOK'
  BY <1>1, <1>3 DEF DeviceIInv, DeviceTypeOK, RegistersOf, Addressed
<1>5. AddressOK'
  BY <1>1, <1>3 DEF DeviceIInv, AddressOK, Addressed, Powered
<1> QED
  BY <1>1, <1>4, <1>5 DEF DeviceIInv, FilterOK, FrameOK, LongestFramePasses, Powered

LEMMA InitializeAdapterHolds ==
  ASSUME DeviceIInv, InitializeAdapter
  PROVE  DeviceIInv'
<1>1. CASE DeviceReset(context.current) /\ stage' = "start" /\ UNCHANGED lost
  <2>1. AsReset(registers', chip.slots, context.current)
    BY <1>1, ResetTyped DEF DeviceReset, DeviceIInv, DeviceTypeOK, Contexts
  <2>2. stage = "reset" /\ UNCHANGED <<chip, context, request>>
    BY DEF InitializeAdapter
  <2>3. DeviceTypeOK'
    BY <1>1, <2>1, <2>2 DEF DeviceIInv, DeviceTypeOK, RegistersOf, AsReset, Addressed
  <2>4. AddressOK'
    BY <1>1, <2>2 DEF DeviceIInv, AddressOK, Addressed, Powered
  <2>5. FilterOK'
    BY <1>1, <2>1, <2>2, NoFilterTyped DEF DeviceIInv, FilterOK, AsReset, Passes, Asked, Powered
  <2> QED
    BY <1>1, <2>2, <2>3, <2>4, <2>5 DEF DeviceIInv, FrameOK, LongestFramePasses, Powered
<1>2. CASE DeviceResetTimeout /\ stage' = "failed"
  <2>1. PICK left \in {registers.mac0, "blank"} : registers' = ResetRegisters(chip.slots, left)
    BY <1>2 DEF DeviceResetTimeout
  <2>2. AsReset(registers', chip.slots, left)
    BY <2>1, ResetTyped DEF DeviceIInv, DeviceTypeOK, RegistersOf, Addresses
  <2>3. stage = "reset" /\ UNCHANGED <<chip, context, request>> /\ lost'
    BY <1>2 DEF InitializeAdapter, DeviceResetTimeout
  <2>4. lost' \in BOOLEAN
    BY <1>2 DEF DeviceResetTimeout
  <2>5. DeviceTypeOK'
    BY <1>2, <2>2, <2>3, <2>4 DEF DeviceIInv, DeviceTypeOK, RegistersOf, AsReset
  <2> QED
    BY <1>2, <2>3, <2>5 DEF DeviceIInv, AddressOK, FilterOK, FrameOK, LongestFramePasses, Addressed, Powered
<1> QED
  BY <1>1, <1>2 DEF InitializeAdapter

LEMMA ReleaseHardwareHolds ==
  ASSUME DeviceIInv, ReleaseHardware
  PROVE  DeviceIInv'
<1>1. /\ stage \in {"failed", "prepared"} /\ stage' = (IF stage = "failed" THEN "removing" ELSE "released")
      /\ context' = [context EXCEPT !.regs = FALSE] /\ request' = NoFilter /\ UNCHANGED chip
  BY DEF ReleaseHardware
<1>2. /\ context' \in Contexts /\ ~context'.regs /\ context'.permanent = context.permanent
      /\ context'.current = context.current /\ context'.configured = context.configured
  BY <1>1 DEF DeviceIInv, DeviceTypeOK, Contexts
<1>3. /\ registers' \in RegistersOf(chip.slots)' /\ lost' \in BOOLEAN
      /\ ~lost' => ~lost /\ registers'.mac0 = chip.factory
  <2>1. CASE ~context.regs /\ UNCHANGED <<registers, lost>>
    BY <1>1, <2>1 DEF DeviceIInv, DeviceTypeOK, RegistersOf, AddressOK, Addressed
  <2>2. CASE context.regs /\ DeviceReset(Restored) /\ lost' = (lost \/ NoAddressRead)
    <3>1. AsReset(registers', chip.slots, context.permanent)
      BY <2>2, ResetTyped DEF DeviceReset, Restored, DeviceIInv, DeviceTypeOK, Contexts
    <3>2. registers' \in RegistersOf(chip.slots)' /\ registers'.mac0 = context.permanent
      BY <1>1, <3>1 DEF AsReset, RegistersOf
    <3>3. ~lost' => ~lost /\ context.permanent = chip.factory
      BY <2>2 DEF DeviceIInv, DeviceTypeOK, AddressOK, NoAddressRead, Blank
    <3>4. lost' \in BOOLEAN
      BY <2>2
    <3> QED
      BY <3>2, <3>3, <3>4
  <2>3. CASE context.regs /\ DeviceResetTimeout
    <3>1. PICK left \in {registers.mac0, "blank"} : registers' = ResetRegisters(chip.slots, left)
      BY <2>3 DEF DeviceResetTimeout
    <3>2. AsReset(registers', chip.slots, left)
      BY <3>1, ResetTyped DEF DeviceIInv, DeviceTypeOK, RegistersOf, Addresses
    <3>3. lost' = TRUE
      BY <2>3 DEF DeviceResetTimeout
    <3> QED
      BY <1>1, <3>2, <3>3 DEF AsReset, RegistersOf
  <2> QED
    BY <2>1, <2>2, <2>3 DEF ReleaseHardware
<1>4. DeviceTypeOK'
  BY <1>1, <1>2, <1>3, NoFilterTyped DEF DeviceIInv, DeviceTypeOK
<1>5. AddressOK'
  BY <1>1, <1>2, <1>3 DEF DeviceIInv, AddressOK, Addressed, Powered
<1> QED
  BY <1>1, <1>4, <1>5 DEF DeviceIInv, FilterOK, FrameOK, LongestFramePasses, Powered

\* The framework's steps, which leave the registers alone.
LEMMA FrameworkHolds ==
  ASSUME DeviceIInv, DeviceAdd \/ StartAdapter \/ Rebalance \/ RemoveDevice \/ D0Exit
  PROVE  DeviceIInv'
<1>1. ASSUME DeviceAdd \/ RemoveDevice PROVE DeviceIInv'
  <2>1. /\ stage \in {"off", "released", "removing"} /\ stage' \in {"added", "off"} /\ context' = NewContext
        /\ UNCHANGED <<chip, registers, request, lost>>
    BY <1>1 DEF DeviceAdd, RemoveDevice
  <2>2. NewContext.permanent = "blank" /\ ~NewContext.regs /\ ~NewContext.configured
    BY DEF NewContext
  <2>3. DeviceTypeOK'
    BY <2>1, ContextTyped DEF DeviceIInv, DeviceTypeOK, RegistersOf
  <2> QED
    BY <2>1, <2>2, <2>3 DEF DeviceIInv, AddressOK, FilterOK, FrameOK, LongestFramePasses, Addressed, Powered
<1>2. ASSUME StartAdapter PROVE DeviceIInv'
  BY <1>2 DEF StartAdapter, Fails, DeviceIInv, DeviceTypeOK, RegistersOf, AddressOK, FilterOK, FrameOK,
              LongestFramePasses, Passes, Asked, Addressed, Powered
<1>3. ASSUME Rebalance PROVE DeviceIInv'
  <2>1. PICK i \in {"none", "deleted"} :
          /\ stage = "released" /\ stage' = "added" /\ context' = [context EXCEPT !.interrupt = i]
          /\ UNCHANGED <<chip, registers, request, lost>>
    BY <1>3 DEF Rebalance
  <2>2. /\ context' \in Contexts /\ context'.regs = context.regs /\ context'.permanent = context.permanent
        /\ context'.configured = context.configured /\ context'.current = context.current
    BY <2>1 DEF DeviceIInv, DeviceTypeOK, Contexts
  <2> QED
    BY <2>1, <2>2 DEF DeviceIInv, DeviceTypeOK, RegistersOf, AddressOK, FilterOK, FrameOK, LongestFramePasses,
                      Addressed, Powered
<1>4. ASSUME D0Exit PROVE DeviceIInv'
  BY <1>4 DEF D0Exit, DeviceIInv, DeviceTypeOK, RegistersOf, AddressOK, FilterOK, FrameOK,
              LongestFramePasses, Passes, Asked, Addressed, Powered
<1> QED
  BY <1>1, <1>2, <1>3, <1>4

LEMMA WatchdogCovers ==
  ASSUME NEW jumbo \in JumboPacketMin .. JumboPacketMax
  PROVE  /\ jumbo > 2000 => Watchdog(jumbo) \in Nat /\ jumbo + 8 <= Watchdog(jumbo) * 1024 + 2048
         /\ jumbo + 8 <= RxBufferSize(jumbo)
BY DEF Watchdog, RxBufferSize, JumboPacketMin, JumboPacketMax

\* The registers r become in D0: j, g and w are the jabber timer, the giant packet
\* limit and the watchdog.
InD0(s, r, n, j, g, w) ==
  /\ s \in [mac0 : Addresses, slots : [1 .. n - 1 -> SUBSET Groups], filter : SUBSET {"promiscuous", "all"},
            rx : {s.rx}, giant : Nat, watchdog : Nat, jabber : BOOLEAN]
  /\ s.jabber = j /\ s.giant = g /\ s.watchdog = w
  /\ s.mac0 = r.mac0 /\ s.slots = r.slots /\ s.filter = r.filter

LEMMA D0EntryHolds ==
  ASSUME DeviceIInv, D0Entry
  PROVE  DeviceIInv'
<1> DEFINE jumbo == context.jumbo
           rx == [flow |-> context.flow /\ RxQueueSize >= 2048,
                  activate |-> Threshold(RxFlowControlActivate),
                  deactivate |-> Threshold(RxFlowControlDeactivate)]
           giant == IF jumbo > JumboPacketMin THEN jumbo + 4 ELSE 1518
           watchdog == IF jumbo > 2000 THEN Watchdog(jumbo) * 1024 + 2048 ELSE 2048
           jabber == jumbo <= 2000
<1>1. /\ stage = "prepared" /\ stage' = "on" /\ UNCHANGED <<chip, context, request, lost>>
      /\ registers' = [registers EXCEPT !.rx = rx, !.jabber = jabber, !.giant = giant, !.watchdog = watchdog]
  BY Zenon DEF D0Entry
<1>2. jumbo \in JumboPacketMin .. JumboPacketMax
  BY <1>1 DEF DeviceIInv, FrameOK, Powered
<1> HIDE DEF rx, jumbo
<1>3. /\ giant \in Nat /\ watchdog \in Nat /\ jumbo + 8 <= giant + 4 /\ jumbo + 8 <= watchdog
      /\ jumbo + 8 <= RxBufferSize(jumbo) /\ (jabber => jumbo + 8 <= 2048) /\ jabber \in BOOLEAN
  <2>1. /\ jumbo > 2000 => Watchdog(jumbo) \in Nat /\ jumbo + 8 <= Watchdog(jumbo) * 1024 + 2048
        /\ jumbo + 8 <= RxBufferSize(jumbo)
    BY <1>2, WatchdogCovers
  <2>2. jumbo \in Nat /\ JumboPacketMin = 1514 /\ jumbo >= 1514
    BY <1>2 DEF JumboPacketMin, JumboPacketMax
  <2>3. CASE jumbo > 2000
    <3>1. PICK k \in Nat : k = Watchdog(jumbo) /\ jumbo + 8 <= k * 1024 + 2048
      BY <2>1, <2>3
    <3> QED
      BY <2>1, <2>2, <2>3, <3>1
  <2>4. CASE ~(jumbo > 2000)
    BY <2>1, <2>2, <2>4
  <2> QED
    BY <2>3, <2>4
<1> HIDE DEF giant, watchdog, jabber
<1>4. InD0(registers', registers, chip.slots, jabber, giant, watchdog)
  <2>1. registers \in [mac0 : Addresses, slots : [1 .. chip.slots - 1 -> SUBSET Groups],
                       filter : SUBSET {"promiscuous", "all"}, rx : {registers.rx}, giant : Nat, watchdog : Nat,
                       jabber : BOOLEAN]
    BY DEF DeviceIInv, DeviceTypeOK, RegistersOf
  <2>2. PICK n : n = chip.slots
    OBVIOUS
  <2>3. PICK r : r = registers
    OBVIOUS
  <2>4. PICK x : x = rx
    OBVIOUS
  <2>5. PICK j \in BOOLEAN, g \in Nat, w \in Nat : j = jabber /\ g = giant /\ w = watchdog
    BY <1>3
  <2>6. r \in [mac0 : Addresses, slots : [1 .. n - 1 -> SUBSET Groups],
               filter : SUBSET {"promiscuous", "all"}, rx : {r.rx}, giant : Nat, watchdog : Nat,
               jabber : BOOLEAN]
    BY <2>1, <2>2, <2>3
  <2>7. PICK s : s = registers'
    OBVIOUS
  <2>8. s = [r EXCEPT !.rx = x, !.jabber = j, !.giant = g, !.watchdog = w]
    BY <1>1, <2>3, <2>4, <2>5, <2>7, Zenon
  <2>9. InD0(s, r, n, j, g, w)
    <3>1. s.jabber = j /\ s.giant = g /\ s.watchdog = w /\ s.rx = x
          /\ s.mac0 = r.mac0 /\ s.slots = r.slots /\ s.filter = r.filter
      BY <2>6, <2>8
    <3>2. s \in [mac0 : Addresses, slots : [1 .. n - 1 -> SUBSET Groups],
                 filter : SUBSET {"promiscuous", "all"}, rx : {x}, giant : Nat, watchdog : Nat,
                 jabber : BOOLEAN]
      BY <2>6, <2>8
    <3> QED
      BY <3>1, <3>2 DEF InD0
  <2> QED
    BY <2>2, <2>3, <2>5, <2>7, <2>9, Zenon
<1>5. DeviceTypeOK'
  BY <1>1, <1>4 DEF DeviceIInv, DeviceTypeOK, RegistersOf, InD0, Addressed, Powered
<1>6. AddressOK'
  BY <1>1, <1>4 DEF DeviceIInv, AddressOK, InD0, Addressed, Powered
<1>7. FilterOK'
  BY <1>1, <1>4 DEF DeviceIInv, FilterOK, InD0, Passes, Asked, Powered
<1>8. FrameOK'
  BY <1>1, <1>2, <1>3, <1>4 DEF FrameOK, LongestFramePasses, InD0, jumbo
<1> QED
  BY <1>5, <1>6, <1>7, <1>8 DEF DeviceIInv

LEMMA SetReceiveFilterHolds ==
  ASSUME DeviceIInv, SetReceiveFilter
  PROVE  DeviceIInv'
<1>1. PICK promiscuous, all, multicast \in BOOLEAN, n \in 0 .. MaximumMulticastAddresses :
      \E list \in [1 .. n -> Groups] :
        LET mcast == IF multicast THEN list ELSE <<>> IN
        /\ request' = [promiscuous |-> promiscuous, all |-> all, list |-> mcast]
        /\ registers' = IF promiscuous THEN [registers EXCEPT !.filter = {"promiscuous"}]
             ELSE [registers EXCEPT
               !.filter = IF all THEN {"all"} ELSE {},
               !.mac0 = context.current,
               !.slots = [i \in DOMAIN @ |-> IF i \notin SlotsWritten(Len(mcast)) THEN @[i]
                                             ELSE IF Len(mcast) > i - 1 THEN {mcast[i]} ELSE {}]]
  BY DEF SetReceiveFilter
<1>2. /\ stage = "on" /\ UNCHANGED <<stage, chip, context, lost>>
      /\ chip.slots \in Nat \ {0} /\ registers \in RegistersOf(chip.slots) /\ context.current \in Addresses
  BY DEF SetReceiveFilter, DeviceIInv, DeviceTypeOK, Contexts
<1>3. PICK list \in [1 .. n -> Groups] :
        LET mcast == IF multicast THEN list ELSE <<>> IN
        /\ request' = [promiscuous |-> promiscuous, all |-> all, list |-> mcast]
        /\ registers' = IF promiscuous THEN [registers EXCEPT !.filter = {"promiscuous"}]
             ELSE [registers EXCEPT
               !.filter = IF all THEN {"all"} ELSE {},
               !.mac0 = context.current,
               !.slots = [i \in DOMAIN @ |-> IF i \notin SlotsWritten(Len(mcast)) THEN @[i]
                                             ELSE IF Len(mcast) > i - 1 THEN {mcast[i]} ELSE {}]]
  BY <1>1
<1> DEFINE mcast == IF multicast THEN list ELSE <<>>
           m == Len(mcast)
           slots == [i \in 1 .. chip.slots - 1 |-> IF m > i - 1 THEN {mcast[i]} ELSE {}]
           filter == IF all THEN {"all"} ELSE {}
<1>4. mcast \in Seq(Groups) /\ m \in 0 .. chip.slots - 1 /\ DOMAIN mcast = 1 .. m
      /\ \A i \in 1 .. m : mcast[i] \in Groups
  <2>1. n \in Nat /\ n <= chip.slots - 1
    BY <1>2 DEF MaximumMulticastAddresses
  <2>2. list \in Seq(Groups) /\ Len(list) = n
    BY <2>1, SeqDef
  <2> QED
    BY <1>2, <2>1, <2>2
<1> HIDE DEF mcast
<1>5. request' = [promiscuous |-> promiscuous, all |-> all, list |-> mcast]
  BY <1>3 DEF mcast
<1>6. request' \in Requests /\ request'.promiscuous = promiscuous /\ request'.all = all /\ request'.list = mcast
  BY <1>4, <1>5 DEF Requests
<1>7. /\ registers' \in RegistersOf(chip.slots)' /\ registers'.giant = registers.giant
      /\ registers'.watchdog = registers.watchdog /\ registers'.jabber = registers.jabber
      /\ IF promiscuous THEN registers'.filter = {"promiscuous"}
         ELSE registers'.filter = filter /\ registers'.slots = slots
  <2>1. CASE promiscuous
    <3>1. registers' = [registers EXCEPT !.filter = {"promiscuous"}]
      BY <1>3, <2>1
    <3> QED
      BY <1>2, <2>1, <3>1 DEF RegistersOf
  <2>2. CASE ~promiscuous
    <3>1. registers.slots \in [1 .. chip.slots - 1 -> SUBSET Groups]
      BY <1>2 DEF RegistersOf
    <3>2. [i \in DOMAIN registers.slots |-> IF i \notin SlotsWritten(m) THEN registers.slots[i]
                                            ELSE IF m > i - 1 THEN {mcast[i]} ELSE {}] = slots
      BY <3>1 DEF SlotsWritten
    <3>3. registers' = [registers EXCEPT !.filter = filter, !.mac0 = context.current, !.slots = slots]
      BY <1>3, <2>2, <3>2 DEF mcast
    <3>4. slots \in [1 .. chip.slots - 1 -> SUBSET Groups] /\ filter \in SUBSET {"promiscuous", "all"}
      BY <1>2, <1>4
    <3> HIDE DEF slots, filter
    <3> QED
      BY <1>2, <2>2, <3>3, <3>4 DEF RegistersOf
  <2> QED
    BY <2>1, <2>2
<1>8. DeviceTypeOK'
  BY <1>2, <1>6, <1>7 DEF DeviceIInv, DeviceTypeOK
<1>9. AddressOK'
  BY <1>2 DEF DeviceIInv, AddressOK, Addressed, Powered
<1>10. ASSUME NEW g \in Groups PROVE (Passes(g) <=> Asked(g))'
  <2>1. CASE promiscuous
    BY <1>6, <1>7, <2>1 DEF Passes, Asked
  <2>2. CASE ~promiscuous /\ all
    BY <1>6, <1>7, <2>2 DEF Passes, Asked
  <2>3. CASE ~promiscuous /\ ~all
    <3>1. registers'.filter = {} /\ DOMAIN registers'.slots = 1 .. chip.slots - 1 /\ DOMAIN request'.list = 1 .. m
      BY <1>4, <1>6, <1>7, <2>3
    <3>2. ASSUME NEW i \in 1 .. chip.slots - 1
          PROVE  g \in registers'.slots[i] <=> (i \in 1 .. m /\ mcast[i] = g)
      <4>1. registers'.slots[i] = IF m > i - 1 THEN {mcast[i]} ELSE {}
        BY <1>7, <2>3
      <4>2. m > i - 1 <=> i \in 1 .. m
        <5> HIDE DEF m
        <5> QED
          BY <1>2, <1>4
      <4> QED
        BY <4>1, <4>2
    <3>3. Passes(g)' <=> \E i \in 1 .. m : mcast[i] = g
      <4>1. Passes(g)' <=> \E i \in 1 .. chip.slots - 1 : g \in registers'.slots[i]
        BY <3>1 DEF Passes
      <4>2. 1 .. m \subseteq 1 .. chip.slots - 1
        <5> HIDE DEF m
        <5> QED
          BY <1>2, <1>4
      <4> HIDE DEF m
      <4> QED
        BY <3>2, <4>1, <4>2
    <3>4. Asked(g)' <=> \E i \in 1 .. m : mcast[i] = g
      <4> HIDE DEF m
      <4> QED
        BY <1>6, <2>3, <3>1 DEF Asked
    <3> QED
      BY <3>3, <3>4
  <2> QED
    BY <2>1, <2>2, <2>3
<1>11. FilterOK'
  BY <1>2, <1>10 DEF FilterOK, Powered
<1>12. FrameOK'
  BY <1>2, <1>7 DEF DeviceIInv, FrameOK, LongestFramePasses, Powered
<1> QED
  BY <1>8, <1>9, <1>11, <1>12 DEF DeviceIInv

LEMMA DeviceStepHolds == DeviceIInv /\ [DeviceNext]_deviceVars => DeviceIInv'
<1> SUFFICES ASSUME DeviceIInv, [DeviceNext]_deviceVars PROVE DeviceIInv'
  OBVIOUS
<1>1. CASE UNCHANGED deviceVars
  BY <1>1 DEF deviceVars, DeviceIInv, DeviceTypeOK, RegistersOf, AddressOK, FilterOK, FrameOK, LongestFramePasses,
              NoAddressRead, Passes, Asked
<1> QED
  BY <1>1, PowerOnHolds, ReadConfigurationHolds, ResourcesHold, SetUpMacAddressHolds, FeaturesHold,
     InitializeAdapterHolds, ReleaseHardwareHolds, FrameworkHolds, D0EntryHolds, SetReceiveFilterHolds
     DEF DeviceNext

LEMMA DeviceInvariance == DeviceSpec => []DeviceIInv
BY DeviceInitHolds, DeviceStepHolds, PTL DEF DeviceSpec

\* Whichever steps of whichever preparations fail, the driver runs with the
\* address the controller left the factory with, or that of the registry.
THEOREM AddressSurvives == DeviceSpec => []PermanentAddressKept
<1>1. DeviceIInv => PermanentAddressKept
  BY DEF DeviceIInv, AddressOK, PermanentAddressKept, Addressed, Powered
<1> QED
  BY <1>1, DeviceInvariance, PTL

\* For any number of address slots and groups, in D0 the filter lets through
\* the groups last asked for and no others.
THEOREM FilterFollows == DeviceSpec => []FilterAsAsked
<1>1. DeviceIInv => FilterAsAsked
  <2> SUFFICES ASSUME DeviceIInv, stage = "on", NEW g \in Groups
               PROVE  (registers.filter # {} \/ \E i \in DOMAIN registers.slots : g \in registers.slots[i])
                      = (request.promiscuous \/ request.all \/ \E i \in DOMAIN request.list : request.list[i] = g)
    BY DEF FilterAsAsked
  <2>1. Passes(g) <=> Asked(g)
    BY DEF DeviceIInv, FilterOK, Powered
  <2> QED
    BY <2>1 DEF Passes, Asked
<1> QED
  BY <1>1, DeviceInvariance, PTL

\* For any size in the registry, the longest frame of the size that is used
\* passes every limit and fits a buffer.
THEOREM FramesPass == DeviceSpec => []LongestFramePasses
<1>1. DeviceIInv => LongestFramePasses
  BY DEF DeviceIInv, FrameOK
<1> QED
  BY <1>1, DeviceInvariance, PTL
=============================================================================
