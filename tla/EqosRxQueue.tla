----------------------------- MODULE EqosRxQueue -----------------------------
(***************************************************************************)
(* The receive queue of the dwc_eqos driver (net/dwc_eqos/rxqueue.cpp).    *)
(*                                                                         *)
(* NetAdapterCx lends the driver empty packets and buffers (fragments) in  *)
(* two rings.  RxQueueAdvance indicates the packets of the descriptors the *)
(* DMA engine has filled and puts new fragments into the EMPTY region.  It *)
(* reads the engine's current descriptor once, at the start; the engine    *)
(* runs on while the handler works with that copy, and closes a descriptor *)
(* (clears Own) after its pointer has moved past it.                       *)
(*                                                                         *)
(* Packets and fragments are numbered from 1 in the order posted; the      *)
(* numbering restarts with the queue, whose rings are then empty.          *)
(***************************************************************************)
EXTENDS Integers, Sequences

CONSTANTS
  DescCount,   \* descriptors in the ring (context->descCount)
  MaxPosted    \* bound: packets, and fragments, posted in one run of the queue

ASSUME DescCountAssumption == DescCount \in Nat \ {0, 1}
ASSUME MaxPostedAssumption == MaxPosted \in Nat

VARIABLES
  pkts,        \* the packets' FragmentIndex and Ignore
  pktBegin, pktEnd,              \* packetRing indexes
  fragBegin, fragNext, fragEnd,  \* fragmentRing indexes
  descBegin, descEnd,            \* context->descBegin, descEnd
  desc,        \* the descriptor ring, shared with the DMA engine
  phase,       \* "stopped", "running" (context->running) or "cancelled"
  pc,          \* where RxQueueAdvance is: "idle", "receive" or "fill"
  descIndex, descNext, pktIndex, fragIndex,  \* locals of RxQueueAdvance
  dma,         \* the DMA engine: Rx_Control.Start, its pointers, what it closes
  received     \* history: what the engine received, oldest first

pktVars  == <<pkts, pktBegin>>
fragVars == <<fragBegin, fragNext>>
posted   == <<pktEnd, fragEnd>>
ctxVars  == <<descBegin, descEnd>>
locals   == <<descIndex, descNext, pktIndex, fragIndex>>
vars == <<pktVars, fragVars, posted, ctxVars, desc, phase, pc, locals, dma, received>>

DescIndexes == 0..(DescCount - 1)
Masked(x) == x % DescCount
NextDesc(i) == Masked(i + 1)

\* What a received frame is to the driver: "bad" has ErrorSummary, is a
\* context descriptor or is not the whole frame.
Results == {"good", "bad"}

NoDesc == -1    \* the engine is not closing a descriptor

-----------------------------------------------------------------------------
Blank == [own |-> FALSE, frag |-> 0, result |-> "good"]
NoPackets == [k \in 1..MaxPosted |-> [frag |-> 0, ignore |-> FALSE]]

Init ==
  /\ pkts = NoPackets /\ pktBegin = 1 /\ pktEnd = 1
  /\ fragBegin = 1 /\ fragNext = 1 /\ fragEnd = 1
  /\ descBegin = 0 /\ descEnd = 0
  /\ desc = [i \in DescIndexes |-> Blank]
  /\ phase = "stopped" /\ pc = "idle"
  /\ descIndex = 0 /\ descNext = 0 /\ pktIndex = 1 /\ fragIndex = 1
  /\ dma = [on |-> FALSE, cur |-> 0, tail |-> 0, closing |-> NoDesc, stalled |-> FALSE]
  /\ received = << >>

(* NetAdapterCx (external): posts packets and fragments between callbacks, *)
(* fragments only while the queue runs.                                    *)
PostPacket ==
  /\ phase # "stopped" /\ pc = "idle" /\ pktEnd <= MaxPosted
  /\ pktEnd' = pktEnd + 1
  /\ UNCHANGED <<pktVars, fragVars, fragEnd, ctxVars, desc, phase, pc, locals,
                 dma, received>>

PostFragment ==
  /\ phase = "running" /\ pc = "idle" /\ fragEnd <= MaxPosted
  /\ fragEnd' = fragEnd + 1
  /\ UNCHANGED <<pktVars, fragVars, pktEnd, ctxVars, desc, phase, pc, locals,
                 dma, received>>

(* RxQueueStart.  Writing the list address makes the engine restart at     *)
(* descriptor 0; it has closed its last descriptor long before.            *)
RxQueueStart ==
  /\ phase = "stopped" /\ dma.closing = NoDesc
  /\ descBegin' = 0 /\ descEnd' = 0
  /\ dma' = [dma EXCEPT !.on = TRUE, !.cur = 0, !.tail = 0, !.stalled = FALSE]
  /\ phase' = "running"
  /\ pkts' = NoPackets /\ pktBegin' = 1 /\ pktEnd' = 1
  /\ fragBegin' = 1 /\ fragNext' = 1 /\ fragEnd' = 1 /\ received' = << >>
  /\ UNCHANGED <<desc, pc, locals>>

-----------------------------------------------------------------------------
(* RxQueueAdvance.                                                         *)

RxQueueAdvance ==
  /\ phase # "stopped" /\ pc = "idle"
  /\ pc' = "receive"
  /\ pktIndex' = pktBegin /\ fragIndex' = fragBegin
  /\ descNext' = dma.cur    \* GetDescNext
  /\ descIndex' = descBegin
  /\ UNCHANGED <<pktVars, fragVars, posted, ctxVars, desc, phase, dma, received>>

\* The handler returns; its locals are gone.
Return ==
  pc' = "idle" /\ descIndex' = 0 /\ descNext' = 0 /\ pktIndex' = 1 /\ fragIndex' = 1

\* A descriptor the engine has moved past may not be closed yet.
Closed_Assumed(i) == TRUE    \* slip: everything before descNext is taken as received
Closed(i) == ~desc[i].own

CanReceive ==
  /\ descIndex # descNext
  /\ pktIndex # pktEnd /\ fragIndex # fragEnd
  /\ Closed(descIndex)

\* One iteration: the packet gets the fragment, or is ignored.
ReceiveOne ==
  /\ pc = "receive" /\ CanReceive
  /\ pkts' = [pkts EXCEPT ![pktIndex] =
                [frag |-> fragIndex, ignore |-> desc[descIndex].result = "bad"]]
  /\ pktIndex' = pktIndex + 1 /\ fragIndex' = fragIndex + 1
  /\ descIndex' = NextDesc(descIndex)
  /\ UNCHANGED <<pktBegin, fragVars, posted, ctxVars, desc, phase, pc, descNext,
                 dma, received>>

\* The queue is cancelled and all that was received has been indicated.
Drained_RingEmpty == descIndex = descEnd    \* slip: pending descriptors are waited for
Drained == descIndex = descNext

\* New descriptors go behind the ones the engine has.
FillFrom_Received == descIndex    \* slip: the loop's index is kept, pending descriptors are overwritten
FillFrom == descEnd

\* The loop ends: descriptors, packets and fragments up to here are done.
\* A cancelled queue then returns the rest, ignored.
ReceiveDone ==
  /\ pc = "receive" /\ ~CanReceive
  /\ descBegin' = descIndex
  /\ IF phase = "cancelled" /\ Drained
     THEN /\ pkts' = [k \in 1..MaxPosted |->
                        IF k \in pktIndex..(pktEnd - 1)
                        THEN [pkts[k] EXCEPT !.ignore = TRUE] ELSE pkts[k]]
          /\ pktBegin' = pktEnd /\ fragBegin' = fragEnd
     ELSE /\ pktBegin' = pktIndex /\ fragBegin' = fragIndex
          /\ UNCHANGED pkts
  /\ IF phase = "running"
     THEN /\ pc' = "fill" /\ fragIndex' = fragNext /\ descIndex' = FillFrom
          /\ UNCHANGED <<descNext, pktIndex>>
     ELSE Return
  /\ UNCHANGED <<fragNext, posted, descEnd, desc, phase, dma, received>>

\* The EMPTY region ends one descriptor before the RECEIVED one.
DescFull == Masked(descBegin - 1)

CanFill == descIndex # DescFull /\ fragIndex # fragEnd

\* One iteration: a fragment is given to the engine.
FillOne ==
  /\ pc = "fill" /\ CanFill
  /\ desc' = [desc EXCEPT ![descIndex] = [Blank EXCEPT !.own = TRUE, !.frag = fragIndex]]
  /\ fragIndex' = fragIndex + 1
  /\ descIndex' = NextDesc(descIndex)
  /\ UNCHANGED <<pktVars, fragVars, posted, ctxVars, phase, pc, descNext, pktIndex,
                 dma, received>>

\* "The device may stall until we write to the tail pointer again": it is
\* written if descriptors are pending, even if none is new.
MustCommit_IfNew == descIndex # descEnd    \* slip: only for new descriptors
MustCommit == descIndex # descNext

SetDescEnd(i) == descEnd' = i /\ dma' = [dma EXCEPT !.tail = i, !.stalled = FALSE]

FillDone ==
  /\ pc = "fill" /\ ~CanFill
  /\ IF MustCommit
     THEN SetDescEnd(descIndex) /\ fragNext' = fragIndex
     ELSE UNCHANGED <<descEnd, dma, fragNext>>
  /\ Return
  /\ UNCHANGED <<pktVars, fragBegin, posted, descBegin, desc, phase, received>>

-----------------------------------------------------------------------------
RxQueueCancel ==
  /\ phase = "running" /\ pc = "idle"
  /\ phase' = "cancelled"
  /\ dma' = [dma EXCEPT !.on = FALSE]
  /\ UNCHANGED <<pktVars, fragVars, posted, ctxVars, desc, pc, locals, received>>

\* NetAdapterCx stops the queue when it has everything back.
RxQueueStop ==
  /\ phase = "cancelled" /\ pc = "idle" /\ pktBegin = pktEnd /\ fragBegin = fragEnd
  /\ phase' = "stopped"
  /\ UNCHANGED <<pktVars, fragVars, posted, ctxVars, desc, pc, locals, dma, received>>

-----------------------------------------------------------------------------
(***************************************************************************)
(* The DMA engine (external): takes the descriptors in order from cur up   *)
(* to tail, moves its pointer, then closes them.  Clearing Start with a    *)
(* flush keeps it from taking another.  It may stall.                      *)
(***************************************************************************)
DmaReceive ==
  /\ dma.on /\ ~dma.stalled /\ dma.closing = NoDesc
  /\ dma.cur # dma.tail /\ desc[dma.cur].own
  /\ dma' = [dma EXCEPT !.closing = dma.cur, !.cur = NextDesc(@)]
  /\ UNCHANGED <<pktVars, fragVars, posted, ctxVars, desc, phase, pc, locals, received>>

DmaClose(result) ==
  /\ dma.closing # NoDesc
  /\ desc' = [desc EXCEPT ![dma.closing].own = FALSE, ![dma.closing].result = result]
  /\ received' = Append(received, [frag |-> desc[dma.closing].frag,
                                   ignore |-> result = "bad"])
  /\ dma' = [dma EXCEPT !.closing = NoDesc]
  /\ UNCHANGED <<pktVars, fragVars, posted, ctxVars, phase, pc, locals>>

\* The engine suspends itself at the end of its descriptors or on an error.
DmaStall ==
  /\ dma.on /\ ~dma.stalled
  /\ dma' = [dma EXCEPT !.stalled = TRUE]
  /\ UNCHANGED <<pktVars, fragVars, posted, ctxVars, desc, phase, pc, locals, received>>

Driver == RxQueueAdvance \/ ReceiveOne \/ ReceiveDone \/ FillOne \/ FillDone

Next ==
  \/ PostPacket
  \/ PostFragment
  \/ RxQueueStart
  \/ RxQueueAdvance
  \/ ReceiveOne
  \/ ReceiveDone
  \/ FillOne
  \/ FillDone
  \/ RxQueueCancel
  \/ RxQueueStop
  \/ DmaReceive
  \/ \E result \in Results : DmaClose(result)
  \/ DmaStall

Spec == Init /\ [][Next]_vars

(***************************************************************************)
(* Fairness: NetAdapterCx polls the queue again and again and does not     *)
(* leave it without packets; a handler that is entered runs to its end;    *)
(* the engine closes what it has taken, and frames keep arriving: they are *)
(* taken if the engine is ready again and again, however often it stalls.  *)
(***************************************************************************)
FairSpec ==
  /\ Spec
  /\ WF_vars(Driver)
  /\ SF_vars(pktBegin = pktEnd /\ PostPacket)
  /\ SF_vars(DmaReceive)
  /\ WF_vars(\E result \in Results : DmaClose(result))

-----------------------------------------------------------------------------
(* No fragment goes back to NetAdapterCx while the engine may still write
   into it: it is to be used by a running engine, or is being closed. *)
NothingReturnedInUse ==
  \A i \in DescIndexes :
    \/ dma.on /\ Masked(i - dma.cur) < Masked(dma.tail - dma.cur)
    \/ i = dma.closing
    => desc[i].frag >= fragBegin

(* A fragment comes back in the end, filled or after the queue is cancelled,
   even if the engine stalls, the descriptor ring fills up or the packets run
   out for a while. *)
FragmentsReturn ==
  \A k \in 1..MaxPosted : (k < fragEnd) ~> (fragBegin > k)

(* A cancelled queue is drained. *)
CancelDrains == (phase = "cancelled") ~> (pktBegin = pktEnd /\ fragBegin = fragEnd)

-----------------------------------------------------------------------------
(* The queue implements NetRxQueue.                                        *)

Landed(p) == IF p.ignore THEN 0 ELSE p.frag

RxAbs == INSTANCE NetRxQueue WITH
  state     <- phase,
  packets   <- pktEnd - 1,
  fragments <- fragEnd - 1,
  frames    <- [k \in 1..Len(received) |-> Landed(received[k])],
  indicated <- [k \in 1..(pktBegin - 1) |-> Landed(pkts[k])],
  returned  <- fragBegin - 1

(* Frames, packets and fragments come back as NetRxQueue promises, whatever
   the engine is doing meanwhile: what has been indicated never changes, what
   has arrived is indicated before a cancelled queue gives back the rest, and
   nothing arrives after that. *)
ImplementsRxQueue == RxAbs!RxSpec

=============================================================================
