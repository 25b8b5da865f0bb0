----------------------------- MODULE EqosTxQueue -----------------------------
(***************************************************************************)
(* The transmit queue of the dwc_eqos driver (net/dwc_eqos/txqueue.cpp).   *)
(*                                                                         *)
(* NetAdapterCx hands packets to the driver in a packet ring, whose        *)
(* Begin/Next/End indexes delimit packets already queued to the device     *)
(* (old) and packets still to queue (new).  TxQueueAdvance reclaims the    *)
(* descriptors the DMA engine has released, returns their packets and      *)
(* fills the EMPTY region of the descriptor ring with more.  The DMA       *)
(* engine runs between any two iterations of the handler's loops, so every *)
(* loop iteration is an action and the handler's locals are variables.     *)
(*                                                                         *)
(* Packets are numbered from 1 in the order NetAdapterCx posts them; a     *)
(* packet ring index is a packet number, a fragment ring index a fragment  *)
(* number.  Descriptor indexes wrap as in the code.                        *)
(***************************************************************************)
EXTENDS Integers, SequencesExt

CONSTANTS
  DescCount,      \* descriptors in the ring (context->descCount)
  DescLengthMax,  \* longest buffer of one descriptor (QueueDescriptorLengthMax)
  VlanId,         \* the configured default VLAN (context->vlanId), 0 for none
  NoMss,          \* the impossible MSS 0xFFFF that TxQueueStart records
  Kinds,          \* the packets NetAdapterCx may post
  MaxPosted       \* bound: packets posted in a behaviour

NoVlan == -1    \* NetPacketTxIeee8021qActionFlagVlanRequired is clear
NoPacket == 0   \* the DMA engine is between packets

\* The code has a power of two, so that its mask is a remainder.
ASSUME DescCountAssumption == DescCount \in Nat \ {0, 1}

ASSUME BoundsAssumption ==
  /\ DescLengthMax \in Nat \ {0}
  /\ MaxPosted \in Nat
  /\ VlanId \in Nat
  /\ NoMss \in Nat

VARIABLES
  pkts,         \* every packet posted so far
  pktBegin,     \* packetRing->BeginIndex
  pktNext,      \* packetRing->NextIndex
  fragBegin,    \* fragmentRing->BeginIndex
  fragEnd,      \* fragmentRing->EndIndex
  base,         \* first packet number of the current run of the queue
  descBegin,    \* context->descBegin
  descEnd,      \* context->descEnd
  lastMss,      \* context->lastMss
  lastVlanTag,  \* context->lastVlanTag
  desc,         \* the descriptor ring, shared with the DMA engine
  phase,        \* where the queue is in its lifecycle
  pc,           \* where TxQueueAdvance is: "idle", "reclaim" or "fill"
  descIndex, pktIndex, pktFragIndex,  \* locals of TxQueueAdvance
  dma,          \* the DMA engine: Tx_Control.Start, its pointers and context
  wire          \* history: the frames sent, oldest first

ringVars == <<pkts, pktBegin, pktNext, fragBegin, fragEnd, base>>
ctxVars  == <<descBegin, descEnd, lastMss, lastVlanTag>>
locals   == <<descIndex, pktIndex, pktFragIndex>>
vars == <<ringVars, ctxVars, desc, phase, pc, locals, dma, wire>>

pktEnd == Len(pkts) + 1

-----------------------------------------------------------------------------
(* Ring arithmetic.                                                        *)

DescIndexes == 0..(DescCount - 1)

\* (x) & descMask, for the x that occur.
Masked(x) == x % DescCount

NextDesc(i) == Masked(i + 1)

\* EMPTY_DESC_REMAINING: -1 because the ring has a hole.
EmptyDescRemaining(i) == Masked(descBegin - 1 - i)

-----------------------------------------------------------------------------
(* What a packet needs.                                                    *)

CeilDiv(a, b) == (a + b - 1) \div b

FragmentCount(p) == Len(p.lens)

\* Priority and VLAN id make the tag; without an id the configured one is used.
VlanTag(p) == p.priority * 2^13 + (IF p.vlan = NoVlan THEN VlanId ELSE p.vlan)

IsGso(p) == p.mss # 0

\* The sums of the first numbers of a.
Sums(a) == LET sum[n \in 0..Len(a)] == IF n = 0 THEN 0 ELSE sum[n - 1] + a[n] IN sum

UserDescriptorsNeeded(p) ==
  IF IsGso(p)
  THEN Sums([i \in 1..FragmentCount(p) |-> CeilDiv(p.lens[i], DescLengthMax)])[FragmentCount(p)]
  ELSE FragmentCount(p)

ContextTagNeeded_Once(p, tag) == VlanTag(p) # 0 /\ tag = 0    \* slip: only the first tag
ContextTagNeeded(p, tag) == VlanTag(p) # 0 /\ VlanTag(p) # tag
ContextMssNeeded(p, mss) == IsGso(p) /\ p.mss # mss

ContextCount(p) ==
  IF ContextTagNeeded(p, lastVlanTag) \/ ContextMssNeeded(p, lastMss) THEN 1 ELSE 0

HeaderCount(p) == IF IsGso(p) THEN 1 ELSE 0

Fits_NoContext(p, i) ==    \* slip: the context descriptor is not counted
  UserDescriptorsNeeded(p) + HeaderCount(p) <= EmptyDescRemaining(i)
Fits(p, i) ==
  UserDescriptorsNeeded(p) + ContextCount(p) + HeaderCount(p) <= EmptyDescRemaining(i)

\* The longest case of every kind fits in an empty ring (txqueue.h derives
\* TxMaximumNumberOfFragments from this), headers end inside fragment 0, and
\* an MSS has 14 bits.
ASSUME KindsAssumption ==
  \A p \in Kinds :
    /\ p.ignore \in BOOLEAN
    /\ p.priority \in 0..7 /\ p.vlan \in {NoVlan} \cup 0..4095 /\ p.mss \in Nat \ {NoMss}
    /\ p.lens \in Seq(Nat \ {0}) /\ p.lens # << >>
    /\ p.header \in 0..p.lens[1]
    /\ Len(p.lens) > 1 \/ p.header < p.lens[1]
    /\ UserDescriptorsNeeded(p) <= DescCount - 3

-----------------------------------------------------------------------------
(* The descriptors of a packet.                                            *)

Blank == [own |-> FALSE, ctx |-> FALSE, first |-> FALSE, last |-> FALSE,
          gso |-> FALSE, insert |-> FALSE, tag |-> 0, tagValid |-> FALSE,
          mss |-> 0, mssValid |-> FALSE, pkt |-> NoPacket, frag |-> 0]

DescFor(k, frag) == [Blank EXCEPT !.own = TRUE, !.pkt = k, !.frag = frag]

ContextDescs(k, p) ==
  IF ContextCount(p) = 0 THEN << >>
  ELSE << [DescFor(k, p.frag) EXCEPT
             !.ctx = TRUE, !.tag = VlanTag(p), !.mss = p.mss,
             !.tagValid = ContextTagNeeded(p, lastVlanTag), !.mssValid = IsGso(p)] >>

HeaderDescs(k, p) ==
  IF ~IsGso(p) THEN << >>
  ELSE << [DescFor(k, p.frag) EXCEPT
             !.first = TRUE, !.gso = TRUE, !.insert = VlanTag(p) # 0] >>

\* Buffers of fragment i: the headers of fragment 1 are in the TSE descriptor.
BufferCount(p, i) ==
  IF ~IsGso(p) THEN 1
  ELSE CeilDiv(p.lens[i] - (IF i = 1 THEN p.header ELSE 0), DescLengthMax)

DataFragments(p) ==
  FlattenSeq([i \in 1..FragmentCount(p) |->
                [j \in 1..BufferCount(p, i) |-> p.frag + i - 1]])

DataDescs(k, p) ==
  LET frags == DataFragments(p) IN
  [j \in 1..Len(frags) |->
     [DescFor(k, frags[j]) EXCEPT
        !.first = ~IsGso(p) /\ j = 1, !.last = (j = Len(frags)),
        !.insert = VlanTag(p) # 0]]

PacketDescs(k, p) == ContextDescs(k, p) \o HeaderDescs(k, p) \o DataDescs(k, p)

\* The ring with the sequence d written from index i on.
WriteDescs(i, d) ==
  [n \in DescIndexes |->
     IF Masked(n - i) < Len(d) THEN d[Masked(n - i) + 1] ELSE desc[n]]

-----------------------------------------------------------------------------
(* Initial state: queue created (TxQueueCreate zeroes the descriptors),    *)
(* not yet started.                                                        *)

Init ==
  /\ pkts = << >> /\ pktBegin = 1 /\ pktNext = 1
  /\ fragBegin = 1 /\ fragEnd = 1 /\ base = 1
  /\ descBegin = 0 /\ descEnd = 0 /\ lastMss = 0 /\ lastVlanTag = 0
  /\ desc = [i \in DescIndexes |-> Blank]
  /\ phase = "stopped" /\ pc = "idle"
  /\ descIndex = 0 /\ pktIndex = 1 /\ pktFragIndex = 1
  /\ dma = [on |-> FALSE, cur |-> 0, tail |-> 0, tag |-> 0, mss |-> 0,
            pkt |-> NoPacket, frameTag |-> 0, frameMss |-> 0]
  /\ wire = << >>

(***************************************************************************)
(* NetAdapterCx (external).  It posts packets between callbacks while the  *)
(* queue runs, and starts the queue with empty rings.                      *)
(***************************************************************************)
Post(p) ==
  /\ phase = "running" /\ pc = "idle" /\ Len(pkts) < MaxPosted
  /\ pkts' = Append(pkts, [ignore |-> p.ignore, priority |-> p.priority,
                           vlan |-> p.vlan, mss |-> p.mss, lens |-> p.lens,
                           header |-> p.header, frag |-> fragEnd])
  /\ fragEnd' = fragEnd + FragmentCount(p)
  /\ UNCHANGED <<pktBegin, pktNext, fragBegin, base, ctxVars, desc, phase, pc,
                 locals, dma, wire>>

(* TxQueueStart, and SetDescEnd(0).  Writing the list address makes the    *)
(* engine restart at descriptor 0; its tag and MSS are left as they were.  *)
TxQueueStart ==
  /\ phase = "stopped"
  /\ lastMss' = NoMss /\ lastVlanTag' = 0 /\ descBegin' = 0 /\ descEnd' = 0
  /\ dma' = [dma EXCEPT !.on = TRUE, !.cur = 0, !.tail = 0]
  /\ pktNext' = pktEnd /\ base' = pktEnd
  /\ phase' = "running"
  /\ UNCHANGED <<pkts, pktBegin, fragBegin, fragEnd, desc, pc, locals, wire>>

-----------------------------------------------------------------------------
(* TxQueueAdvance.                                                         *)

\* First packet from k on that is not ignored, or pktNext (SkipIgnorePackets).
SkipIgnorePackets(k) ==
  CHOOSE j \in k..pktNext :
    /\ \A i \in k..(j - 1) : pkts[i].ignore
    /\ j = pktNext \/ ~pkts[j].ignore

SkipIgnoreFragment(k, frag) ==
  LET j == SkipIgnorePackets(k) IN IF j = pktNext THEN frag ELSE pkts[j].frag

\* The handler is entered: from NetAdapterCx's poll, or by TxQueueCancel once
\* the transmit FIFO is seen empty ("last chance for any packets").
Advance ==
  /\ pc = "idle"
  /\ pc' = "reclaim"
  /\ descIndex' = descBegin
  /\ pktIndex' = SkipIgnorePackets(pktBegin)
  /\ pktFragIndex' = SkipIgnoreFragment(pktBegin, fragBegin)
  /\ UNCHANGED <<ringVars, ctxVars, desc, dma, wire>>

TxQueueAdvance == phase = "running" /\ Advance /\ UNCHANGED phase

\* The Own bit tells who may use the descriptor.
HandedBack_Unchecked(i) == TRUE    \* slip: the Own bit is not looked at
HandedBack(i) == ~desc[i].own

\* One iteration over a descriptor the DMA engine has handed back.
ReclaimOne ==
  /\ pc = "reclaim" /\ descIndex # descEnd /\ HandedBack(descIndex)
  /\ descIndex' = NextDesc(descIndex)
  /\ IF ~desc[descIndex].ctx /\ desc[descIndex].last
     THEN LET frag == pkts[pktIndex].frag + FragmentCount(pkts[pktIndex]) IN
          /\ pktIndex' = SkipIgnorePackets(pktIndex + 1)
          /\ pktFragIndex' = SkipIgnoreFragment(pktIndex + 1, frag)
     ELSE UNCHANGED <<pktIndex, pktFragIndex>>
  /\ UNCHANGED <<ringVars, ctxVars, desc, phase, pc, dma, wire>>

\* The loop ends; packets and fragments go back to NetAdapterCx.
ReclaimDone ==
  /\ pc = "reclaim"
  /\ descIndex = descEnd \/ ~HandedBack(descIndex)
  /\ pktBegin' = pktIndex /\ fragBegin' = pktFragIndex /\ descBegin' = descIndex
  /\ pktIndex' = pktNext /\ descIndex' = descEnd
  /\ pc' = "fill"
  /\ UNCHANGED <<pkts, pktNext, fragEnd, base, descEnd, lastMss, lastVlanTag,
                 desc, phase, pktFragIndex, dma, wire>>

CanFill == EmptyDescRemaining(descIndex) # 0 /\ pktIndex # pktEnd

\* One iteration: an ignored packet takes no descriptor.
FillIgnored ==
  /\ pc = "fill" /\ CanFill /\ pkts[pktIndex].ignore
  /\ pktIndex' = pktIndex + 1
  /\ UNCHANGED <<ringVars, ctxVars, desc, phase, pc, descIndex, pktFragIndex,
                 dma, wire>>

\* One iteration: a packet that fits is written into the EMPTY region.
FillPacket ==
  /\ pc = "fill" /\ CanFill
  /\ LET p == pkts[pktIndex]
         d == PacketDescs(pktIndex, p) IN
     /\ ~p.ignore /\ Fits(p, descIndex)
     /\ desc' = WriteDescs(descIndex, d)
     /\ descIndex' = Masked(descIndex + Len(d))
     /\ lastMss' = IF IsGso(p) THEN p.mss ELSE lastMss
     /\ lastVlanTag' = IF ContextTagNeeded(p, lastVlanTag) THEN VlanTag(p) ELSE lastVlanTag
  /\ pktIndex' = pktIndex + 1
  /\ UNCHANGED <<ringVars, descBegin, descEnd, phase, pc, pktFragIndex, dma, wire>>

\* The tail pointer is the doorbell of the DMA engine.
SetDescEnd_NoDoorbell(i) == descEnd' = i /\ UNCHANGED dma    \* slip: register not written
SetDescEnd(i) == descEnd' = i /\ dma' = [dma EXCEPT !.tail = i]

Commit_SkipsRest(i, k) == SetDescEnd(i) /\ pktNext' = pktEnd    \* slip: EndIndex for NextIndex
Commit(i, k) == SetDescEnd(i) /\ pktNext' = k

\* The loop ends; the tail pointer and NextIndex move if anything was queued.
FillDone ==
  /\ pc = "fill"
  /\ \/ ~CanFill
     \/ CanFill /\ ~pkts[pktIndex].ignore /\ ~Fits(pkts[pktIndex], descIndex)
  /\ IF descIndex # descEnd
     THEN Commit(descIndex, pktIndex)
     ELSE UNCHANGED <<descEnd, dma, pktNext>>
  /\ pc' = "idle"
  /\ phase' = IF phase = "lastAdvance" THEN "flushed" ELSE phase
  /\ UNCHANGED <<pkts, pktBegin, fragBegin, fragEnd, base, descBegin, lastMss,
                 lastVlanTag, desc, locals, wire>>

-----------------------------------------------------------------------------
(* TxQueueCancel and TxQueueStop.                                          *)

\* mode 0: nothing is in the ring.
CancelEmpty ==
  /\ phase = "running" /\ pc = "idle" /\ pktBegin = pktEnd
  /\ dma' = [dma EXCEPT !.on = FALSE]
  /\ phase' = "cancelled"
  /\ UNCHANGED <<ringVars, ctxVars, desc, pc, locals, wire>>

CancelStart ==
  /\ phase = "running" /\ pc = "idle" /\ pktBegin # pktEnd
  /\ dma' = [dma EXCEPT !.on = FALSE]
  /\ phase' = "draining"
  /\ UNCHANGED <<ringVars, ctxVars, desc, pc, locals, wire>>

CancelDrained_NoWait ==    \* slip: Tx_Debug is not polled
  phase = "draining" /\ phase' = "lastAdvance" /\ Advance

\* mode 1: a poll of Tx_Debug shows no packet in progress.
CancelDrained ==
  /\ phase = "draining" /\ dma.pkt = NoPacket
  /\ phase' = "lastAdvance"
  /\ Advance

\* mode 2: every poll failed; FlushTxQueue drops the packet in progress, if
\* the last one has not just ended.
CancelTimeout ==
  /\ phase = "draining"
  /\ dma' = [dma EXCEPT !.pkt = NoPacket]
  /\ descBegin' = 0 /\ descEnd' = 0
  /\ phase' = "flushed"
  /\ UNCHANGED <<ringVars, lastMss, lastVlanTag, desc, pc, locals, wire>>

\* Discard the packets still in the ring.
CancelDiscard ==
  /\ phase = "flushed"
  /\ pktBegin' = pktEnd /\ fragBegin' = fragEnd
  /\ phase' = "cancelled"
  /\ UNCHANGED <<pkts, pktNext, fragEnd, base, ctxVars, desc, pc, locals, dma, wire>>

TxQueueStop ==
  /\ phase = "cancelled"
  /\ descBegin' = 0 /\ descEnd' = 0
  /\ phase' = "stopped"
  /\ UNCHANGED <<ringVars, lastMss, lastVlanTag, desc, pc, locals, dma, wire>>

-----------------------------------------------------------------------------
(***************************************************************************)
(* The DMA engine (external): descriptors in order from cur up to tail, as *)
(* long as it owns them.  Clearing Start lets the packet in progress end.  *)
(***************************************************************************)
DmaFetch ==
  LET d == desc[dma.cur] IN
  /\ dma.on \/ dma.pkt # NoPacket
  /\ dma.cur # dma.tail /\ d.own
  /\ desc' = [desc EXCEPT ![dma.cur].own = FALSE]
  /\ LET tag == IF d.insert THEN dma.tag ELSE 0
         mss == IF d.gso THEN dma.mss ELSE 0
         now == IF d.first
                THEN [dma EXCEPT !.pkt = d.pkt, !.frameTag = tag, !.frameMss = mss]
                ELSE IF d.ctx
                THEN [dma EXCEPT !.tag = IF d.tagValid THEN d.tag ELSE @,
                                 !.mss = IF d.mssValid THEN d.mss ELSE @]
                ELSE dma IN
     /\ dma' = [now EXCEPT !.cur = NextDesc(@),
                           !.pkt = IF d.last THEN NoPacket ELSE @]
     /\ wire' = IF d.last
                THEN Append(wire, [pkt |-> now.pkt, tag |-> now.frameTag,
                                   mss |-> now.frameMss])
                ELSE wire
  /\ UNCHANGED <<ringVars, ctxVars, phase, pc, locals>>

-----------------------------------------------------------------------------
Driver ==
  \/ TxQueueAdvance \/ ReclaimOne \/ ReclaimDone
  \/ FillIgnored \/ FillPacket \/ FillDone
  \/ CancelDrained \/ CancelTimeout \/ CancelDiscard

Next ==
  \/ \E p \in Kinds : Post(p)
  \/ TxQueueStart
  \/ TxQueueAdvance
  \/ ReclaimOne
  \/ ReclaimDone
  \/ FillIgnored
  \/ FillPacket
  \/ FillDone
  \/ CancelEmpty
  \/ CancelStart
  \/ CancelDrained
  \/ CancelTimeout
  \/ CancelDiscard
  \/ TxQueueStop
  \/ DmaFetch

Spec == Init /\ [][Next]_vars

(***************************************************************************)
(* Fairness: a handler that is entered runs to its end, NetAdapterCx polls *)
(* a running queue again and again, the DMA engine keeps fetching.  It is  *)
(* never assumed that a packet is posted or that the queue is cancelled.   *)
(***************************************************************************)
FairSpec == Spec /\ WF_vars(Driver) /\ WF_vars(DmaFetch)

-----------------------------------------------------------------------------
\* The descriptors the DMA engine may still fetch.
Fetchable ==
  IF dma.on \/ dma.pkt # NoPacket
  THEN {i \in DescIndexes : Masked(i - dma.cur) < Masked(dma.tail - dma.cur)}
  ELSE {}

(* The driver never writes a descriptor the DMA engine may fetch, whatever
   the engine does meanwhile: the EMPTY region and its hole are computed
   right across wrap-around. *)
NoOverwrite ==
  [][\A i \in Fetchable : desc'[i] # desc[i] => desc'[i] = [desc[i] EXCEPT !.own = FALSE]]_vars

(* Every frame leaves with its own packet's VLAN tag and MSS.  The driver
   only sends a context descriptor when its cached lastVlanTag or lastMss
   differ, so the cache has to track the engine's context over packets that
   did not fit, cancellation and restart. *)
WireFaithful ==
  \A i \in DOMAIN wire :
    LET p == pkts[wire[i].pkt] IN wire[i].tag = VlanTag(p) /\ wire[i].mss = p.mss

(* Frames leave in the order of posting; within one run of the queue no
   packet is skipped but the ignored ones, and none is sent twice. *)
SentInOrder ==
  /\ \A i, j \in DOMAIN wire : i < j => wire[i].pkt < wire[j].pkt
  /\ \A i \in DOMAIN wire : wire[i].pkt >= base =>
       \A k \in base..wire[i].pkt :
         ~pkts[k].ignore => \E j \in 1..i : wire[j].pkt = k

(* No packet or fragment goes back to NetAdapterCx while a descriptor that
   the engine may still fetch points at it: in normal running and on both
   paths of TxQueueCancel. *)
NothingReturnedInUse ==
  \A i \in Fetchable :
    desc[i].own => desc[i].pkt >= pktBegin /\ desc[i].frag >= fragBegin

(* Every real packet goes back to NetAdapterCx in the end: the ring does not
   stall when it fills up, wraps or meets ignored packets. *)
PacketsReturn ==
  \A k \in 1..MaxPosted :
    (k < pktEnd /\ ~pkts[k].ignore) ~> (pktBegin > k)

-----------------------------------------------------------------------------
(* The queue implements NetTxQueue.                                        *)

\* The tag and MSS the frame of a packet is to leave with.
Asked(p) == [ignore |-> p.ignore, tag |-> VlanTag(p), mss |-> p.mss]

\* TxQueueCancel is one call, whatever it is waiting for.
Stage == IF phase \in {"draining", "lastAdvance", "flushed"} THEN "cancelling" ELSE phase

TxAbs == INSTANCE NetTxQueue WITH
  Requests <- {Asked(p) : p \in Kinds},
  state    <- Stage,
  packets  <- [k \in 1..Len(pkts) |-> Asked(pkts[k])],
  sent     <- wire,
  returned <- pktBegin - 1

(* Frames leave and packets come back as NetTxQueue promises, whatever the
   engine is doing meanwhile: in order, none twice and none skipped, with the
   tag and MSS of their own packets, before their packets come back, and none
   once TxQueueCancel has given back the rest. *)
ImplementsTxQueue == TxAbs!TxSpec

=============================================================================
