-------------------------- MODULE EqosRxQueueProofs --------------------------
(***************************************************************************)
(* For a descriptor ring and packet rings of any size: the receive queue   *)
(* indicates every frame as the engine received it, and returns no         *)
(* fragment the engine may write into.                                     *)
(*                                                                         *)
(* The indexes of the descriptor ring wrap; the counts behind them do not. *)
(* In one run of the queue the fragment f, counted from 1, goes into the   *)
(* descriptor (f - 1) % DescCount, and the invariant orders the counts:    *)
(* indicated, closed, taken, given to the engine, less than a ring apart.  *)
(***************************************************************************)
EXTENDS EqosRxQueue, TLAPS

RxCount     == Len(received)
Taken       == RxCount + (IF dma.closing = NoDesc THEN 0 ELSE 1)
Given       == fragNext - 1
Filled      == IF pc = "fill" THEN fragIndex - 1 ELSE Given
Indicated   == fragBegin - 1

Frames == [frag : Nat, ignore : BOOLEAN]

TypeOK ==
  /\ pkts \in [1..MaxPosted -> Frames]
  /\ pktBegin \in Nat \ {0} /\ pktEnd \in 1..(MaxPosted + 1)
  /\ fragBegin \in Nat \ {0} /\ fragNext \in Nat \ {0} /\ fragEnd \in Nat \ {0}
  /\ descBegin \in DescIndexes /\ descEnd \in DescIndexes
  /\ desc \in [DescIndexes -> [own : BOOLEAN, frag : Nat, result : Results]]
  /\ phase \in {"stopped", "running", "cancelled"} /\ pc \in {"idle", "receive", "fill"}
  /\ descIndex \in DescIndexes /\ descNext \in DescIndexes
  /\ pktIndex \in Nat \ {0} /\ fragIndex \in Nat \ {0}
  /\ dma \in [on : BOOLEAN, cur : DescIndexes, tail : DescIndexes,
              closing : DescIndexes \cup {NoDesc}, stalled : BOOLEAN]
  /\ received \in Seq(Frames)

\* What the phases of the queue say of the handler and the engine.
PhaseOK ==
  /\ dma.on => phase = "running"
  /\ phase = "stopped" => pc = "idle" /\ dma.closing = NoDesc
  /\ pc = "fill" => phase = "running"
  /\ pktBegin <= pktEnd /\ fragBegin <= fragEnd /\ fragNext <= fragEnd

\* The engine's pointers are the counts of what it has taken and been given.
EngineOK ==
  /\ dma.closing # NoDesc => dma.closing = Masked(RxCount)
  /\ dma.cur = Masked(Taken)
  /\ dma.tail = Masked(Given) /\ descEnd = Masked(Given)
  /\ Taken <= Given

\* What the engine has left in the descriptor of the k-th fragment.
DescOK(k) ==
  /\ desc[Masked(k)].frag = k + 1
  /\ desc[Masked(k)].own <=> k >= RxCount
  /\ k < RxCount =>
       received[k + 1] = [frag |-> k + 1, ignore |-> desc[Masked(k)].result = "bad"]

\* The descriptors not yet indicated, less than a ring of them.
WindowOK ==
  /\ pktBegin = fragBegin /\ descBegin = Masked(Indicated)
  /\ Indicated <= RxCount
  /\ Given <= Filled /\ Filled < Indicated + DescCount
  /\ \A k \in Indicated..(Filled - 1) : DescOK(k)

\* Where RxQueueAdvance is, and the position of the engine it read at entry.
ReceiveOK ==
  pc = "receive" =>
    /\ pktIndex = fragIndex /\ descIndex = Masked(fragIndex - 1)
    /\ fragBegin <= fragIndex /\ fragIndex - 1 <= RxCount
    /\ pktIndex <= pktEnd
    /\ \E n \in (fragIndex - 1)..Taken : descNext = Masked(n) /\ (phase = "cancelled" => n = Taken)
    /\ \A k \in pktBegin..(pktIndex - 1) : pkts[k] = received[k]

FillOK ==
  pc = "fill" =>
    /\ descIndex = Masked(fragIndex - 1) /\ fragIndex <= fragEnd
    /\ \E n \in Indicated..Taken : descNext = Masked(n)

\* A cancelled queue has returned everything: nothing moves any more.
Returned ==
  /\ phase = "cancelled" /\ dma.closing = NoDesc
  /\ pktBegin > RxCount /\ fragBegin > RxCount
  /\ dma.cur = descBegin
  /\ pc = "receive" =>
       descIndex = descNext /\ descNext = descBegin /\ pktIndex = pktBegin /\ fragIndex = fragBegin

Serving == EngineOK /\ WindowOK /\ ReceiveOK /\ FillOK

QueueOK == Returned \/ Serving

(* Every frame the engine received is indicated once, in order and with its
   own result, before a cancelled queue returns what is left as ignored. *)
IndicatedAsReceived ==
  \A k \in 1..(pktBegin - 1) :
    IF k <= Len(received) THEN pkts[k] = received[k] ELSE pkts[k].ignore

IInv == TypeOK /\ PhaseOK /\ IndicatedAsReceived /\ (phase # "stopped" => QueueOK)

-----------------------------------------------------------------------------
(* Counting round the ring.                                                *)

LEMMA Division ==
  \A x \in Int : x \div DescCount \in Int /\ Masked(x) \in DescIndexes
                 /\ x = DescCount * (x \div DescCount) + Masked(x)
BY DescCountAssumption DEF Masked, DescIndexes

LEMMA Remainder ==
  \A q \in Int, r \in DescIndexes : Masked(DescCount * q + r) = r
BY DescCountAssumption DEF Masked, DescIndexes

LEMMA Multiples ==
  \A q, r \in Int : q < r => DescCount * q + DescCount <= DescCount * r
BY DescCountAssumption

\* The descriptor of the next fragment is the next one.
LEMMA MaskedNext ==
  \A x \in Int : NextDesc(Masked(x)) = Masked(x + 1)
<1> SUFFICES ASSUME NEW x \in Int PROVE NextDesc(Masked(x)) = Masked(x + 1)
  OBVIOUS
<1> DEFINE q == x \div DescCount
           r == Masked(x)
<1>1. q \in Int /\ r \in DescIndexes /\ x = DescCount * q + r
  BY Division
<1> HIDE DEF q, r
<1>2. CASE r + 1 < DescCount
  <2>1. x + 1 = DescCount * q + (r + 1) /\ x + 1 \in Int /\ r + 1 \in DescIndexes
    BY <1>1, <1>2, DescCountAssumption DEF DescIndexes
  <2>2. r + 1 = DescCount * 0 + (r + 1)
    BY <1>1, DescCountAssumption DEF DescIndexes
  <2>3. Masked(x + 1) = r + 1 /\ Masked(r + 1) = r + 1
    BY <1>1, <2>1, <2>2, Remainder
  <2> QED BY <2>3 DEF NextDesc, r
<1>3. CASE r + 1 = DescCount
  <2>1. x + 1 = DescCount * (q + 1) + 0 /\ q + 1 \in Int /\ 0 \in DescIndexes
    BY <1>1, <1>3, DescCountAssumption DEF DescIndexes
  <2>2. r + 1 = DescCount * 1 + 0
    BY <1>3, DescCountAssumption
  <2>3. Masked(x + 1) = 0 /\ Masked(r + 1) = 0
    BY <2>1, <2>2, Remainder
  <2> QED BY <2>3 DEF NextDesc, r
<1> QED BY <1>1, <1>2, <1>3, DescCountAssumption DEF DescIndexes

\* Less than a ring apart, two counts with the same descriptor are the same.
LEMMA MaskedSame ==
  \A x, y \in Int : x <= y /\ y < x + DescCount /\ Masked(x) = Masked(y) => x = y
<1> SUFFICES ASSUME NEW x \in Int, NEW y \in Int, x <= y, y < x + DescCount, Masked(x) = Masked(y)
             PROVE  x = y
  OBVIOUS
<1> DEFINE q == x \div DescCount
           r == y \div DescCount
           m == Masked(x)
<1>1. /\ q \in Int /\ r \in Int /\ m \in Int
      /\ x = DescCount * q + m /\ y = DescCount * r + m
  BY Division DEF DescIndexes
<1> HIDE DEF q, r, m
<1>2. ~(q < r) /\ ~(r < q)
  BY <1>1, Multiples, DescCountAssumption
<1> QED BY <1>1, <1>2

\* The distance between two descriptors is that of their counts.
LEMMA MaskedDistance ==
  \A x \in Int, d \in DescIndexes : Masked(Masked(x + d) - Masked(x)) = d
<1> SUFFICES ASSUME NEW x \in Int, NEW d \in DescIndexes
             PROVE  Masked(Masked(x + d) - Masked(x)) = d
  OBVIOUS
<1> DEFINE q == x \div DescCount
           r == (x + d) \div DescCount
           m == Masked(x)
           n == Masked(x + d)
<1>1. /\ q \in Int /\ r \in Int /\ m \in Int /\ n \in Int /\ d \in Int
      /\ x = DescCount * q + m /\ x + d = DescCount * r + n
  BY Division DEF DescIndexes
<1> HIDE DEF q, r, m, n
<1>2. n - m = DescCount * (q - r) + d /\ q - r \in Int
  BY <1>1, DescCountAssumption
<1>3. Masked(n - m) = d
  BY <1>2, Remainder
<1> QED BY <1>3 DEF m, n

\* A descriptor is found again at its distance from another one.
LEMMA MaskedFound ==
  \A x \in Int, i \in DescIndexes : i = Masked(x + Masked(i - Masked(x)))
<1> SUFFICES ASSUME NEW x \in Int, NEW i \in DescIndexes
             PROVE  i = Masked(x + Masked(i - Masked(x)))
  OBVIOUS
<1> DEFINE q == x \div DescCount
           m == Masked(x)
           r == (i - m) \div DescCount
           n == Masked(i - m)
<1>1. q \in Int /\ m \in Int /\ i \in Int /\ x = DescCount * q + m
  BY Division DEF DescIndexes
<1>2. r \in Int /\ n \in Int /\ i - m = DescCount * r + n
  <2> HIDE DEF m
  <2> QED BY <1>1, Division DEF DescIndexes
<1> HIDE DEF q, m, r, n
<1>3. x + n = DescCount * (q - r) + i /\ q - r \in Int
  BY <1>1, <1>2, DescCountAssumption
<1>4. Masked(x + n) = i
  BY <1>3, Remainder
<1> QED BY <1>4 DEF n, m

\* The descriptor before one is the last of the ring that starts there.
LEMMA MaskedBefore ==
  \A x \in Int : Masked(Masked(x) - 1) = Masked(x + DescCount - 1)
<1> SUFFICES ASSUME NEW x \in Int
             PROVE  Masked(Masked(x) - 1) = Masked(x + DescCount - 1)
  OBVIOUS
<1> DEFINE q == x \div DescCount
           m == Masked(x)
           r == (m - 1) \div DescCount
           n == Masked(m - 1)
<1>1. q \in Int /\ m \in Int /\ x = DescCount * q + m
  BY Division DEF DescIndexes
<1>2. r \in Int /\ n \in DescIndexes /\ m - 1 = DescCount * r + n
  <2> HIDE DEF m
  <2> QED BY <1>1, Division
<1> HIDE DEF q, m, r, n
<1>3. x + DescCount - 1 = DescCount * (q + r + 1) + n /\ q + r + 1 \in Int
  BY <1>1, <1>2, DescCountAssumption DEF DescIndexes
<1>4. Masked(x + DescCount - 1) = n
  BY <1>2, <1>3, Remainder
<1> QED BY <1>4 DEF n, m

LEMMA NextTyped == \A i \in DescIndexes : NextDesc(i) \in DescIndexes
BY Division, DescCountAssumption DEF NextDesc, DescIndexes

LEMMA MaskedZero == Masked(0) = 0 /\ 0 \in DescIndexes /\ NoDesc \notin DescIndexes
BY DescCountAssumption DEF Masked, DescIndexes, NoDesc

-----------------------------------------------------------------------------
(* Types.                                                                  *)

LEMMA TypeStep ==
  ASSUME TypeOK, [Next]_vars
  PROVE  TypeOK'
<1> USE DEF TypeOK, Frames, Results
<1>1. CASE PostPacket \/ PostFragment \/ RxQueueCancel \/ RxQueueStop \/ DmaStall
  <2>1. /\ UNCHANGED <<pkts, pktBegin, fragBegin, fragNext, descBegin, descEnd, desc, pc, descIndex, descNext,
                       pktIndex, fragIndex, received>>
        /\ phase' \in {"stopped", "running", "cancelled"}
    BY <1>1 DEF PostPacket, PostFragment, RxQueueCancel, RxQueueStop, DmaStall, pktVars, fragVars, posted, ctxVars, locals
  <2>2. pktEnd' \in 1..(MaxPosted + 1) /\ fragEnd' \in Nat \ {0}
    <3>1. CASE PostPacket
      BY <3>1, MaxPostedAssumption DEF PostPacket
    <3>2. CASE PostFragment
      BY <3>2 DEF PostFragment
    <3> QED BY <1>1, <3>1, <3>2 DEF RxQueueCancel, RxQueueStop, DmaStall, posted
  <2>3. dma' = dma \/ dma' = [dma EXCEPT !.on = FALSE] \/ dma' = [dma EXCEPT !.stalled = TRUE]
    BY <1>1 DEF PostPacket, PostFragment, RxQueueCancel, RxQueueStop, DmaStall
  <2>4. dma' \in [on : BOOLEAN, cur : DescIndexes, tail : DescIndexes,
                  closing : DescIndexes \cup {NoDesc}, stalled : BOOLEAN]
    BY <2>3
  <2> QED BY <2>1, <2>2, <2>4
<1>2. CASE RxQueueStart
  <2>1. dma' \in [on : BOOLEAN, cur : DescIndexes, tail : DescIndexes,
                  closing : DescIndexes \cup {NoDesc}, stalled : BOOLEAN]
    BY <1>2, MaskedZero DEF RxQueueStart
  <2>2. pkts' \in [1..MaxPosted -> Frames] /\ received' \in Seq(Frames)
    BY <1>2 DEF RxQueueStart, NoPackets
  <2>3. descBegin' \in DescIndexes /\ descEnd' \in DescIndexes /\ pktEnd' \in 1..(MaxPosted + 1)
    BY <1>2, MaskedZero, MaxPostedAssumption DEF RxQueueStart
  <2> QED BY <1>2, <2>1, <2>2, <2>3, SMTT(40) DEF RxQueueStart, locals
<1>3. CASE RxQueueAdvance
  BY <1>3 DEF RxQueueAdvance, pktVars, fragVars, posted, ctxVars
<1>4. CASE ReceiveOne
  <2>1. NextDesc(descIndex) \in DescIndexes
    BY NextTyped
  <2>2. pkts' \in [1..MaxPosted -> Frames]
    BY <1>4 DEF ReceiveOne
  <2> QED BY <1>4, <2>1, <2>2 DEF ReceiveOne, fragVars, posted, ctxVars
<1>5. CASE ReceiveDone
  <2>1. pkts' \in [1..MaxPosted -> Frames]
    <3> DEFINE left(k) == IF k \in pktIndex..(pktEnd - 1)
                          THEN [pkts[k] EXCEPT !.ignore = TRUE] ELSE pkts[k]
    <3>1. \A k \in 1..MaxPosted : left(k) \in Frames
      BY ZenonT(40)
    <3>2. pkts' = pkts \/ pkts' = [k \in 1..MaxPosted |-> left(k)]
      BY <1>5 DEF ReceiveDone
    <3> HIDE DEF left
    <3> QED BY <3>1, <3>2
  <2>2. pktBegin' \in Nat \ {0} /\ fragBegin' \in Nat \ {0}
    BY <1>5 DEF ReceiveDone
  <2>3. /\ pc' \in {"idle", "receive", "fill"} /\ descIndex' \in DescIndexes /\ descNext' \in DescIndexes
        /\ pktIndex' \in Nat \ {0} /\ fragIndex' \in Nat \ {0}
    BY <1>5, MaskedZero, SMTT(40) DEF ReceiveDone, Return, FillFrom
  <2> QED BY <1>5, <2>1, <2>2, <2>3 DEF ReceiveDone, posted
<1>6. CASE FillOne
  <2>1. NextDesc(descIndex) \in DescIndexes
    BY NextTyped
  <2>2. desc' \in [DescIndexes -> [own : BOOLEAN, frag : Nat, result : Results]]
    <3>1. [Blank EXCEPT !.own = TRUE, !.frag = fragIndex] \in [own : BOOLEAN, frag : Nat, result : Results]
      BY DEF Blank
    <3> QED BY <1>6, <3>1 DEF FillOne
  <2>3. UNCHANGED <<pkts, pktBegin, fragBegin, fragNext, pktEnd, fragEnd, descBegin, descEnd, phase, pc, descNext,
                    pktIndex, dma, received>> /\ fragIndex' \in Nat \ {0} /\ descIndex' \in DescIndexes
    BY <1>6, <2>1, SMTT(40) DEF FillOne, pktVars, fragVars, posted, ctxVars
  <2> QED BY <2>2, <2>3
<1>7. CASE FillDone
  <2>1. descEnd' \in DescIndexes /\ fragNext' \in Nat \ {0} /\ dma' \in [on : BOOLEAN, cur : DescIndexes, tail : DescIndexes,
              closing : DescIndexes \cup {NoDesc}, stalled : BOOLEAN]
    BY <1>7 DEF FillDone, SetDescEnd
  <2> QED BY <1>7, <2>1, MaskedZero DEF FillDone, Return, pktVars, posted
<1>8. CASE DmaReceive
  <2>1. NextDesc(dma.cur) \in DescIndexes
    BY NextTyped
  <2> QED BY <1>8, <2>1 DEF DmaReceive, pktVars, fragVars, posted, ctxVars, locals
<1>9. ASSUME NEW result \in Results, DmaClose(result)
      PROVE  TypeOK'
  <2>1. dma.closing \in DescIndexes
    BY <1>9 DEF DmaClose
  <2>2. desc' \in [DescIndexes -> [own : BOOLEAN, frag : Nat, result : Results]]
    BY <1>9, <2>1, ZenonT(40) DEF DmaClose
  <2>3. received' \in Seq(Frames)
    BY <1>9, <2>1 DEF DmaClose
  <2> QED BY <1>9, <2>2, <2>3 DEF DmaClose, pktVars, fragVars, posted, ctxVars, locals
<1>10. CASE UNCHANGED vars
  BY <1>10 DEF vars, pktVars, fragVars, posted, ctxVars, locals
<1> QED BY <1>1, <1>2, <1>3, <1>4, <1>5, <1>6, <1>7, <1>8, <1>9, <1>10 DEF Next

-----------------------------------------------------------------------------
(* What each step leaves of the invariant.                                 *)

Holds == PhaseOK /\ IndicatedAsReceived /\ (phase # "stopped" => QueueOK)

LEMMA Counts ==
  ASSUME TypeOK
  PROVE  /\ RxCount \in Nat /\ Taken \in Nat /\ Given \in Nat /\ Filled \in Nat /\ Indicated \in Nat
         /\ RxCount <= Taken /\ Taken <= RxCount + 1 /\ (dma.closing = NoDesc <=> Taken = RxCount)
BY DEF TypeOK, RxCount, Taken, Given, Filled, Indicated

\* Two fragments of the window have descriptors of their own.
LEMMA WindowApart ==
  ASSUME TypeOK, WindowOK, NEW k \in Indicated..Filled, NEW l \in Indicated..Filled, Masked(k) = Masked(l)
  PROVE  k = l
BY Counts, MaskedSame, DescCountAssumption DEF WindowOK

LEMMA PortHolds ==
  ASSUME IInv, PostPacket \/ PostFragment \/ RxQueueStart \/ RxQueueAdvance
  PROVE  Holds'
<1> USE DEF IInv
<1>1. CASE PostPacket \/ PostFragment
  <2>1. PhaseOK'
    BY <1>1 DEF PostPacket, PostFragment, PhaseOK, TypeOK, pktVars, fragVars
  <2>2. IndicatedAsReceived'
    BY <1>1 DEF PostPacket, PostFragment, IndicatedAsReceived, pktVars
  <2>3. /\ UNCHANGED <<pkts, pktBegin, fragBegin, fragNext, descBegin, descEnd, desc, phase, pc, descIndex, descNext,
                       pktIndex, fragIndex, dma, received>>
        /\ pc = "idle"
    BY <1>1 DEF PostPacket, PostFragment, pktVars, fragVars, ctxVars, locals
  <2>4. phase # "stopped" => QueueOK'
    BY <2>3 DEF QueueOK, Serving, Returned, EngineOK, WindowOK, ReceiveOK, FillOK, DescOK, RxCount, Taken, Given, Filled,
                Indicated
  <2> QED BY <2>1, <2>2, <2>3, <2>4 DEF Holds
<1>2. CASE RxQueueStart
  <2>1. /\ dma'.closing = NoDesc /\ dma'.cur = 0 /\ dma'.tail = 0 /\ dma'.on /\ Len(received') = 0
        /\ phase' = "running" /\ pc' = "idle" /\ pktBegin' = 1 /\ pktEnd' = 1
        /\ fragBegin' = 1 /\ fragNext' = 1 /\ fragEnd' = 1 /\ descBegin' = 0 /\ descEnd' = 0
    BY <1>2 DEF RxQueueStart, TypeOK, PhaseOK
  <2>2. EngineOK' /\ WindowOK'
    BY <2>1, MaskedZero, DescCountAssumption DEF EngineOK, WindowOK, RxCount, Taken, Given, Filled, Indicated
  <2> QED BY <2>1, <2>2 DEF Holds, PhaseOK, IndicatedAsReceived, QueueOK, Serving, ReceiveOK, FillOK
<1>3. CASE RxQueueAdvance
  <2>1. /\ pc = "idle" /\ pc' = "receive" /\ phase # "stopped"
        /\ pktIndex' = pktBegin /\ fragIndex' = fragBegin /\ descNext' = dma.cur /\ descIndex' = descBegin
        /\ UNCHANGED <<pkts, pktBegin, fragBegin, fragNext, pktEnd, fragEnd, descBegin, descEnd, desc, phase, dma, received>>
    BY <1>3 DEF RxQueueAdvance, pktVars, fragVars, posted, ctxVars
  <2>2. PhaseOK' /\ IndicatedAsReceived'
    BY <2>1 DEF PhaseOK, IndicatedAsReceived
  <2>3. CASE Returned
    BY <2>1, <2>2, <2>3 DEF Holds, QueueOK, Returned, RxCount
  <2>4. CASE Serving
    <3>1. /\ RxCount' = RxCount /\ Taken' = Taken /\ Given' = Given /\ Filled' = Filled /\ Indicated' = Indicated
      BY <2>1 DEF RxCount, Taken, Given, Filled, Indicated
    <3>2. EngineOK' /\ WindowOK' /\ FillOK'
      BY <2>1, <2>4, <3>1 DEF Serving, EngineOK, WindowOK, DescOK, FillOK
    <3>3. fragIndex' - 1 = Indicated /\ Taken \in Indicated..Taken
      BY <2>1, <2>4, Counts DEF Serving, WindowOK, Indicated
    <3>4. ReceiveOK'
      BY <2>1, <2>4, <3>1, <3>3, Counts DEF ReceiveOK, Serving, EngineOK, WindowOK, PhaseOK, TypeOK
    <3> QED BY <2>2, <3>2, <3>4 DEF Holds, QueueOK, Serving
  <2> QED BY <2>1, <2>3, <2>4 DEF QueueOK
<1> QED BY <1>1, <1>2, <1>3

\* A frame that is indicated is the next the engine has received.
LEMMA ReceiveOneHolds ==
  ASSUME IInv, ReceiveOne
  PROVE  Holds'
<1> USE DEF IInv
<1>1. /\ pc = "receive" /\ CanReceive /\ phase # "stopped"
      /\ pkts' = [pkts EXCEPT ![pktIndex] = [frag |-> fragIndex, ignore |-> desc[descIndex].result = "bad"]]
      /\ pktIndex' = pktIndex + 1 /\ fragIndex' = fragIndex + 1 /\ descIndex' = NextDesc(descIndex)
      /\ UNCHANGED <<pktBegin, fragBegin, fragNext, pktEnd, fragEnd, descBegin, descEnd, desc, phase, pc, descNext, dma,
                     received>>
  BY DEF ReceiveOne, PhaseOK, fragVars, posted, ctxVars
<1>2. Serving /\ ReceiveOK
  BY <1>1 DEF QueueOK, Returned, CanReceive, Serving
<1>3. PICK n \in (fragIndex - 1)..Taken : descNext = Masked(n) /\ (phase = "cancelled" => n = Taken)
  BY <1>1, <1>2 DEF ReceiveOK
<1> DEFINE i == fragIndex - 1
<1>4. /\ i \in Nat /\ Indicated <= i /\ i < n /\ i < Filled /\ descIndex = Masked(i)
  BY <1>1, <1>2, <1>3, Counts, SMTT(40) DEF CanReceive, ReceiveOK, TypeOK, Serving, WindowOK, EngineOK, Indicated
<1>5. DescOK(i)
  BY <1>2, <1>4, Counts DEF Serving, WindowOK
<1>6. i < RxCount /\ received[i + 1] = [frag |-> i + 1, ignore |-> desc[descIndex].result = "bad"]
  BY <1>1, <1>4, <1>5, Counts DEF CanReceive, Closed, DescOK
<1>7. pktIndex = fragIndex /\ pktIndex \in 1..MaxPosted /\ pktBegin <= pktIndex /\ pktIndex < pktEnd
  <2>1. pktIndex = fragIndex /\ pktIndex <= pktEnd /\ pktIndex # pktEnd /\ fragBegin <= fragIndex /\ pktBegin = fragBegin
    BY <1>1, <1>2 DEF CanReceive, ReceiveOK, Serving, WindowOK
  <2> QED BY <2>1, MaxPostedAssumption DEF TypeOK
<1>8. pkts'[pktIndex] = received[pktIndex]
  BY <1>1, <1>4, <1>6, <1>7 DEF TypeOK
<1>9. \A k \in pktBegin..(pktIndex' - 1) : pkts'[k] = received[k]
  <2> SUFFICES ASSUME NEW k \in pktBegin..(pktIndex' - 1), k # pktIndex PROVE pkts'[k] = received[k]
    BY <1>8
  <2>1. k \in pktBegin..(pktIndex - 1) /\ k \in 1..MaxPosted
    <3>1. pktBegin \in Nat \ {0} /\ k \in pktBegin..(pktIndex + 1 - 1)
      BY <1>1 DEF TypeOK
    <3> QED BY <1>7, <3>1, MaxPostedAssumption DEF TypeOK
  <2>2. pkts[k] = received[k]
    BY <1>1, <1>2, <2>1 DEF ReceiveOK
  <2> QED BY <1>1, <2>1, <2>2 DEF TypeOK
<1>10. IndicatedAsReceived'
  <2> SUFFICES ASSUME NEW k \in 1..(pktBegin - 1) PROVE pkts'[k] = pkts[k]
    BY <1>1 DEF IndicatedAsReceived
  <2> QED BY <1>1, <1>7 DEF TypeOK
<1>11. /\ RxCount' = RxCount /\ Taken' = Taken /\ Given' = Given /\ Filled' = Filled /\ Indicated' = Indicated
  BY <1>1 DEF RxCount, Taken, Given, Filled, Indicated
<1>12. EngineOK' /\ WindowOK' /\ FillOK'
  BY <1>1, <1>2, <1>11 DEF Serving, EngineOK, WindowOK, DescOK, FillOK
<1>13. ReceiveOK'
  <2>1. descIndex' = Masked(fragIndex' - 1)
    BY <1>1, <1>4, MaskedNext DEF TypeOK
  <2>2. n \in (fragIndex' - 1)..Taken' /\ (phase' = "cancelled" => n = Taken')
    <3>1. fragIndex' - 1 = i + 1 /\ i + 1 <= n /\ n \in Int
      BY <1>1, <1>3, <1>4, Counts DEF TypeOK
    <3> HIDE DEF i
    <3> QED BY <1>1, <1>3, <1>4, <1>11, <3>1, Counts
  <2>3. /\ pktIndex' = fragIndex' /\ fragBegin' <= fragIndex' /\ fragIndex' - 1 <= RxCount' /\ pktIndex' <= pktEnd'
    <3>1. fragIndex' - 1 = i + 1 /\ i + 1 <= RxCount /\ fragIndex' = fragIndex + 1
      BY <1>1, <1>4, <1>6, Counts, SMTT(40) DEF TypeOK
    <3>2. fragBegin <= fragIndex
      BY <1>1, <1>2 DEF ReceiveOK
    <3> HIDE DEF i
    <3>3. pktIndex' <= pktEnd'
      BY <1>1, <1>7, MaxPostedAssumption DEF TypeOK
    <3> QED BY <1>1, <1>7, <1>11, <3>1, <3>2, <3>3, Counts DEF TypeOK
  <2> QED BY <1>1, <1>3, <1>9, <2>1, <2>2, <2>3 DEF ReceiveOK
<1>14. PhaseOK'
  BY <1>1 DEF PhaseOK
<1> QED BY <1>10, <1>12, <1>13, <1>14 DEF Holds, QueueOK, Serving

\* What the loop of RxQueueAdvance has done when it ends.
LEMMA ReceivedSoFar ==
  ASSUME IInv, pc = "receive", phase # "stopped", Serving
  PROVE  /\ pktIndex = fragIndex /\ pktIndex <= pktEnd /\ fragIndex <= fragEnd /\ fragIndex - 1 <= RxCount
         /\ fragBegin <= fragIndex /\ descIndex = Masked(fragIndex - 1)
         /\ \A k \in 1..(pktIndex - 1) : pkts[k] = received[k]
<1> USE DEF IInv
<1>1. /\ pktIndex = fragIndex /\ pktIndex <= pktEnd /\ fragIndex - 1 <= RxCount /\ fragBegin <= fragIndex
      /\ descIndex = Masked(fragIndex - 1)
      /\ \A k \in pktBegin..(pktIndex - 1) : pkts[k] = received[k]
      /\ pktBegin = fragBegin /\ fragBegin - 1 <= RxCount
      /\ RxCount <= fragNext - 1 /\ fragNext <= fragEnd
  BY Counts DEF Serving, ReceiveOK, WindowOK, EngineOK, PhaseOK, Indicated, Given
<1>2. fragIndex <= fragEnd /\ RxCount \in Nat
  BY <1>1, Counts DEF TypeOK
<1>3. ASSUME NEW k \in 1..(pktIndex - 1)
      PROVE  pkts[k] = received[k]
  <2>1. CASE k < pktBegin
    BY <1>1, <1>2, <2>1 DEF IndicatedAsReceived, RxCount, TypeOK
  <2>2. CASE k >= pktBegin
    BY <1>1, <2>2 DEF TypeOK
  <2> QED BY <2>1, <2>2 DEF TypeOK
<1> QED BY <1>1, <1>2, <1>3

\* A cancelled queue that returns the rest has received all the engine took.
LEMMA AllReceived ==
  ASSUME IInv, pc = "receive", phase = "cancelled", Drained
  PROVE  /\ dma.closing = NoDesc /\ pktIndex > RxCount /\ fragIndex > RxCount /\ dma.cur = descIndex
         /\ pktIndex <= pktEnd /\ fragIndex <= fragEnd
         /\ \A k \in 1..(pktIndex - 1) : IF k <= RxCount THEN pkts[k] = received[k] ELSE pkts[k].ignore
<1> USE DEF IInv
<1>1. CASE Returned
  BY <1>1 DEF Returned, PhaseOK, IndicatedAsReceived, RxCount
<1>2. CASE Serving
  <2>1. /\ pktIndex = fragIndex /\ pktIndex <= pktEnd /\ fragIndex <= fragEnd /\ fragIndex - 1 <= RxCount
        /\ fragBegin <= fragIndex /\ descIndex = Masked(fragIndex - 1)
        /\ \A k \in 1..(pktIndex - 1) : pkts[k] = received[k]
    BY <1>2, ReceivedSoFar
  <2>2. PICK n \in (fragIndex - 1)..Taken : descNext = Masked(n) /\ n = Taken
    BY <1>2 DEF Serving, ReceiveOK
  <2>3. /\ fragIndex - 1 \in Int /\ Taken \in Int /\ fragIndex - 1 <= Taken
        /\ Taken < fragIndex - 1 + DescCount
    BY <1>2, <2>1, Counts, DescCountAssumption, SMTT(40) DEF Serving, EngineOK, WindowOK, TypeOK, Indicated
  <2>4. fragIndex - 1 = Taken
    BY <2>1, <2>2, <2>3, MaskedSame DEF Drained
  <2>5. Taken = RxCount /\ fragIndex = RxCount + 1
    BY <2>1, <2>4, Counts DEF TypeOK
  <2>6. dma.closing = NoDesc /\ dma.cur = descIndex
    BY <1>2, <2>1, <2>4, <2>5, Counts DEF Serving, EngineOK
  <2>7. RxCount \in Nat /\ fragIndex > RxCount /\ pktIndex > RxCount
    BY <2>1, <2>5, Counts
  <2>8. \A k \in 1..(pktIndex - 1) : k <= RxCount
    BY <2>1, <2>5, <2>7
  <2> QED BY <2>1, <2>6, <2>7, <2>8
<1> QED BY <1>1, <1>2 DEF QueueOK

\* What the loop has received is indicated; a cancelled queue that has nothing
\* more to receive returns the rest, which no frame belongs to.
LEMMA ReceiveDoneHolds ==
  ASSUME IInv, ReceiveDone
  PROVE  Holds'
<1> USE DEF IInv
<1>1. /\ pc = "receive" /\ phase # "stopped" /\ descBegin' = descIndex
      /\ UNCHANGED <<fragNext, pktEnd, fragEnd, descEnd, desc, phase, dma, received>>
  BY DEF ReceiveDone, PhaseOK, posted
<1>2. RxCount' = RxCount /\ Taken' = Taken /\ Given' = Given /\ RxCount \in Nat /\ Taken \in Nat
  BY <1>1, Counts DEF RxCount, Taken, Given
<1>3. ASSUME Serving
      PROVE  /\ pktIndex = fragIndex /\ pktIndex <= pktEnd /\ fragIndex <= fragEnd /\ fragIndex - 1 <= RxCount
             /\ fragBegin <= fragIndex /\ descIndex = Masked(fragIndex - 1)
             /\ \A k \in 1..(pktIndex - 1) : pkts[k] = received[k]
  BY <1>1, <1>3, ReceivedSoFar
<1>4. CASE phase = "cancelled" /\ Drained
  <2>1. /\ pktBegin' = pktEnd /\ fragBegin' = fragEnd /\ pc' = "idle"
        /\ pkts' = [k \in 1..MaxPosted |->
                      IF k \in pktIndex..(pktEnd - 1) THEN [pkts[k] EXCEPT !.ignore = TRUE] ELSE pkts[k]]
    BY <1>1, <1>4 DEF ReceiveDone, Return
  <2>2. /\ dma.closing = NoDesc /\ pktIndex > RxCount /\ fragIndex > RxCount /\ dma.cur = descIndex
        /\ pktIndex <= pktEnd /\ fragIndex <= fragEnd
        /\ \A k \in 1..(pktIndex - 1) : IF k <= RxCount THEN pkts[k] = received[k] ELSE pkts[k].ignore
    BY <1>1, <1>4, AllReceived
  <2>3. PhaseOK'
    BY <1>1, <2>1 DEF PhaseOK, TypeOK
  <2>4. Returned'
    BY <1>1, <1>2, <1>4, <2>1, <2>2, SMTT(40) DEF Returned, TypeOK
  <2>5. IndicatedAsReceived'
    <3> SUFFICES ASSUME NEW k \in 1..(pktEnd - 1)
                 PROVE  IF k <= RxCount THEN pkts'[k] = received[k] ELSE pkts'[k].ignore
      BY <1>1, <2>1 DEF IndicatedAsReceived, RxCount
    <3>1. k \in 1..MaxPosted
      BY MaxPostedAssumption DEF TypeOK
    <3>2. pkts[k] \in Frames /\ [pkts[k] EXCEPT !.ignore = TRUE].ignore = TRUE
      BY <3>1 DEF TypeOK, Frames
    <3>3. CASE k < pktIndex
      BY <2>1, <2>2, <3>1, <3>3 DEF TypeOK
    <3>4. CASE k >= pktIndex
      <4>1. k \in pktIndex..(pktEnd - 1) /\ ~(k <= RxCount)
        BY <1>2, <2>2, <3>4 DEF TypeOK
      <4>2. pkts'[k] = [pkts[k] EXCEPT !.ignore = TRUE]
        BY <2>1, <3>1, <4>1
      <4> QED BY <3>2, <4>1, <4>2
    <3> QED BY <3>3, <3>4 DEF TypeOK
  <2> QED BY <2>3, <2>4, <2>5 DEF Holds, QueueOK
<1>5. CASE ~(phase = "cancelled" /\ Drained)
  <2>1. Serving
    BY <1>1, <1>5 DEF QueueOK, Returned, Drained
  <2>2. /\ pktBegin' = pktIndex /\ fragBegin' = fragIndex /\ pkts' = pkts
        /\ IF phase = "running"
           THEN pc' = "fill" /\ fragIndex' = fragNext /\ descIndex' = descEnd /\ UNCHANGED <<descNext, pktIndex>>
           ELSE pc' = "idle"
    BY <1>5 DEF ReceiveDone, Return, FillFrom
  <2>3. PhaseOK'
    BY <1>1, <1>3, <2>1, <2>2 DEF PhaseOK
  <2>4. IndicatedAsReceived'
    BY <1>1, <1>2, <1>3, <2>1, <2>2 DEF IndicatedAsReceived, RxCount, TypeOK
  <2>5. Filled' = Given /\ Filled = Given /\ Indicated' = fragIndex - 1 /\ Indicated <= Indicated'
        /\ Indicated' <= RxCount /\ Indicated' \in Nat
    BY <1>1, <1>3, <2>1, <2>2 DEF Filled, Given, Indicated, TypeOK
  <2>6. EngineOK'
    BY <1>1, <1>2, <2>1, <2>2 DEF Serving, EngineOK
  <2>7. WindowOK'
    <3>1. \A j \in Int : DescOK(j) => DescOK(j)'
      BY <1>1, <1>2 DEF DescOK
    <3>2. \A j \in Indicated'..(Filled' - 1) : DescOK(j)'
      BY <2>1, <2>5, <3>1, Counts DEF Serving, WindowOK
    <3>3. Given' <= Filled' /\ Filled' < Indicated' + DescCount
      BY <1>2, <2>1, <2>5, Counts, DescCountAssumption DEF Serving, WindowOK
    <3> QED BY <1>1, <1>2, <1>3, <2>1, <2>2, <2>5, <3>2, <3>3 DEF WindowOK
  <2>8. ReceiveOK' /\ FillOK'
    <3>1. CASE phase = "running"
      <4>1. PICK n \in (fragIndex - 1)..Taken : descNext = Masked(n)
        BY <1>1, <2>1 DEF Serving, ReceiveOK
      <4>2. n \in Indicated'..Taken' /\ descNext' = Masked(n)
        BY <1>2, <2>2, <2>5, <3>1, <4>1
      <4>3. descIndex' = Masked(fragIndex' - 1) /\ fragIndex' <= fragEnd'
        BY <1>1, <2>1, <2>2, <3>1 DEF Serving, EngineOK, Given, PhaseOK
      <4> QED BY <2>2, <3>1, <4>2, <4>3 DEF ReceiveOK, FillOK
    <3>2. CASE phase # "running"
      BY <2>2, <3>2 DEF ReceiveOK, FillOK
    <3> QED BY <3>1, <3>2
  <2> QED BY <2>3, <2>4, <2>6, <2>7, <2>8 DEF Holds, QueueOK, Serving
<1> QED BY <1>4, <1>5

\* A fragment given to the engine gets a descriptor outside the window.
LEMMA FillOneHolds ==
  ASSUME IInv, FillOne
  PROVE  Holds'
<1> USE DEF IInv
<1>1. /\ pc = "fill" /\ phase = "running" /\ CanFill
      /\ desc' = [desc EXCEPT ![descIndex] = [Blank EXCEPT !.own = TRUE, !.frag = fragIndex]]
      /\ fragIndex' = fragIndex + 1 /\ descIndex' = NextDesc(descIndex)
      /\ UNCHANGED <<pkts, pktBegin, fragBegin, fragNext, pktEnd, fragEnd, descBegin, descEnd, phase, pc, descNext, pktIndex,
                     dma, received>>
  BY DEF FillOne, PhaseOK, pktVars, fragVars, posted, ctxVars
<1>2. Serving
  BY <1>1 DEF QueueOK, Returned
<1>3. /\ RxCount' = RxCount /\ Taken' = Taken /\ Given' = Given /\ Indicated' = Indicated
      /\ Filled = fragIndex - 1 /\ Filled' = Filled + 1 /\ fragIndex = Filled + 1 /\ fragIndex \in Nat
  <2>1. fragIndex \in Nat /\ fragNext \in Nat
    BY DEF TypeOK
  <2>2. Filled = fragIndex - 1 /\ Filled' = fragIndex + 1 - 1
    <3>1. pc = "fill" /\ pc' = "fill" /\ fragIndex' = fragIndex + 1
      BY <1>1
    <3> QED BY <1>1, <2>1, <3>1 DEF Filled, Given
  <2>3. Filled' = Filled + 1 /\ fragIndex = Filled + 1
    BY <2>1, <2>2
  <2> QED BY <1>1, <2>1, <2>2, <2>3 DEF RxCount, Taken, Given, Indicated
<1>4. descIndex = Masked(Filled) /\ descIndex \in DescIndexes /\ descIndex' = Masked(Filled + 1)
  <2>1. descIndex = Masked(Filled)
    BY <1>1, <1>2, <1>3 DEF Serving, FillOK
  <2>2. Filled \in Int /\ descIndex \in DescIndexes
    BY Counts DEF TypeOK
  <2> QED BY <1>1, <2>1, <2>2, MaskedNext
<1>5. Filled < Indicated + DescCount - 1
  <2>1. Masked(Filled) # Masked(Indicated + DescCount - 1)
    BY <1>1, <1>2, <1>4, Counts, MaskedBefore DEF CanFill, DescFull, Serving, WindowOK
  <2> QED BY <1>2, <2>1, Counts, DescCountAssumption DEF Serving, WindowOK
<1>6. WindowOK'
  <2>1. ASSUME NEW j \in Indicated..(Filled' - 1)
        PROVE  DescOK(j)'
    <3>1. j \in Indicated..Filled /\ Filled \in Indicated..Filled /\ j \in Nat /\ Masked(j) \in DescIndexes
      BY <1>2, <1>3, Counts, Division DEF Serving, WindowOK, EngineOK
    <3>2. CASE j = Filled
      <4>1. desc'[Masked(j)].own = TRUE /\ desc'[Masked(j)].frag = j + 1
        BY <1>1, <1>3, <1>4, <3>2 DEF TypeOK, Blank
      <4>2. RxCount <= j
        BY <1>2, <1>3, <3>2, Counts DEF Serving, EngineOK, WindowOK
      <4> QED BY <1>3, <4>1, <4>2, <3>1, Counts DEF DescOK
    <3>3. CASE j # Filled
      <4>1. Masked(j) # Masked(Filled)
        BY <1>2, <3>1, <3>3, WindowApart DEF Serving
      <4>2. desc'[Masked(j)] = desc[Masked(j)]
        BY <1>1, <1>4, <3>1, <4>1 DEF TypeOK
      <4>3. DescOK(j)
        BY <1>2, <3>1, <3>3, Counts DEF Serving, WindowOK
      <4> QED BY <1>1, <1>3, <4>2, <4>3 DEF DescOK
    <3> QED BY <3>2, <3>3
  <2>2. Given' <= Filled' /\ Filled' < Indicated' + DescCount
    BY <1>2, <1>3, <1>5, Counts, DescCountAssumption DEF Serving, WindowOK
  <2> QED BY <1>1, <1>2, <1>3, <2>1, <2>2 DEF Serving, WindowOK
<1>7. EngineOK'
  BY <1>1, <1>2, <1>3 DEF Serving, EngineOK
<1>8. FillOK' /\ ReceiveOK'
  <2>1. fragIndex' - 1 = Filled + 1 /\ fragIndex' <= fragEnd'
    <3>1. fragIndex <= fragEnd /\ fragIndex # fragEnd /\ fragEnd \in Nat
      BY <1>1, <1>2 DEF CanFill, Serving, FillOK, TypeOK
    <3> QED BY <1>1, <1>3, <3>1
  <2> QED BY <1>1, <1>2, <1>3, <1>4, <2>1 DEF Serving, FillOK, ReceiveOK
<1>9. PhaseOK' /\ IndicatedAsReceived'
  BY <1>1 DEF PhaseOK, IndicatedAsReceived
<1> QED BY <1>6, <1>7, <1>8, <1>9 DEF Holds, QueueOK, Serving

\* The tail pointer and fragNext move together, or nothing was filled.
LEMMA FillDoneHolds ==
  ASSUME IInv, FillDone
  PROVE  Holds'
<1> USE DEF IInv
<1>1. /\ pc = "fill" /\ pc' = "idle" /\ phase = "running"
      /\ UNCHANGED <<pkts, pktBegin, fragBegin, pktEnd, fragEnd, descBegin, desc, phase, received>>
  BY DEF FillDone, PhaseOK, Return, pktVars, posted
<1>2. Serving
  BY <1>1 DEF QueueOK, Returned
<1>3. /\ Filled = fragIndex - 1 /\ descIndex = Masked(Filled) /\ fragIndex <= fragEnd
      /\ Given <= Filled /\ Taken <= Given
  BY <1>1, <1>2 DEF Filled, Serving, FillOK, WindowOK, EngineOK
<1>4. /\ dma'.closing = dma.closing /\ dma'.cur = dma.cur /\ dma'.on = dma.on
      /\ fragNext' = fragIndex /\ descEnd' = descIndex /\ dma'.tail = descIndex
  <2>1. CASE MustCommit
    BY <2>1 DEF FillDone, SetDescEnd, TypeOK
  <2>2. CASE ~MustCommit
    <3>1. PICK n \in Indicated..Taken : descNext = Masked(n)
      BY <1>1, <1>2 DEF Serving, FillOK
    <3>2. n \in Int /\ Filled \in Int /\ n <= Filled /\ Filled < n + DescCount
      BY <1>2, <1>3, <3>1, Counts, DescCountAssumption DEF Serving, WindowOK
    <3>3. n = Filled
      BY <1>3, <2>2, <3>1, <3>2, MaskedSame DEF MustCommit
    <3>4. Given = Filled /\ fragNext = fragIndex
      BY <1>3, <3>1, <3>3, Counts DEF Given, TypeOK
    <3> QED BY <1>2, <1>3, <2>2, <3>4 DEF FillDone, Serving, EngineOK
  <2> QED BY <2>1, <2>2
<1>5. /\ RxCount' = RxCount /\ Taken' = Taken /\ Given' = Filled /\ Filled' = Filled /\ Indicated' = Indicated
  BY <1>1, <1>3, <1>4 DEF RxCount, Taken, Given, Filled, Indicated
<1>6. EngineOK'
  BY <1>2, <1>3, <1>4, <1>5, Counts DEF Serving, EngineOK
<1>7. WindowOK'
  <2>1. \A j \in Int : DescOK(j) => DescOK(j)'
    BY <1>1, <1>5 DEF DescOK
  <2> QED BY <1>1, <1>2, <1>5, <2>1, Counts DEF Serving, WindowOK
<1>8. PhaseOK' /\ IndicatedAsReceived' /\ ReceiveOK' /\ FillOK'
  BY <1>1, <1>3, <1>4 DEF PhaseOK, IndicatedAsReceived, ReceiveOK, FillOK
<1> QED BY <1>6, <1>7, <1>8 DEF Holds, QueueOK, Serving

LEMMA CancelHolds ==
  ASSUME IInv, RxQueueCancel \/ RxQueueStop \/ DmaStall
  PROVE  Holds'
<1> USE DEF IInv
<1>1. /\ UNCHANGED <<pkts, pktBegin, fragBegin, fragNext, pktEnd, fragEnd, descBegin, descEnd, desc, pc,
                     descIndex, descNext, pktIndex, fragIndex, received>>
      /\ dma'.cur = dma.cur /\ dma'.tail = dma.tail /\ dma'.closing = dma.closing
  BY DEF RxQueueCancel, RxQueueStop, DmaStall, TypeOK, pktVars, fragVars, posted, ctxVars, locals
<1>2. IndicatedAsReceived'
  BY <1>1 DEF IndicatedAsReceived
<1>3. ASSUME Serving, phase' = phase \/ pc = "idle"
      PROVE  Serving'
  <2>1. /\ RxCount' = RxCount /\ Taken' = Taken /\ Given' = Given /\ Filled' = Filled /\ Indicated' = Indicated
    BY <1>1 DEF RxCount, Taken, Given, Filled, Indicated
  <2> QED BY <1>1, <1>3, <2>1 DEF Serving, EngineOK, WindowOK, DescOK, ReceiveOK, FillOK
<1>4. CASE DmaStall
  <2>1. phase' = phase /\ dma'.on = dma.on /\ phase = "running"
    BY <1>4 DEF DmaStall, TypeOK, PhaseOK
  <2> QED BY <1>1, <1>2, <1>3, <2>1 DEF Holds, PhaseOK, QueueOK, Returned
<1>5. CASE RxQueueCancel
  <2>1. phase = "running" /\ phase' = "cancelled" /\ ~dma'.on /\ pc = "idle"
    BY <1>5 DEF RxQueueCancel, TypeOK
  <2> QED BY <1>1, <1>2, <1>3, <2>1 DEF Holds, PhaseOK, QueueOK, Returned
<1>6. CASE RxQueueStop
  <2>1. phase = "cancelled" /\ phase' = "stopped" /\ dma' = dma /\ pc = "idle" /\ fragBegin = fragEnd
    BY <1>6 DEF RxQueueStop
  <2>2. dma.closing = NoDesc
    <3>1. CASE Serving
      <4>1. Taken = RxCount
        BY <2>1, <3>1, Counts, SMTT(40) DEF Serving, EngineOK, WindowOK, PhaseOK, Given, Indicated, TypeOK
      <4> QED BY <4>1, Counts
    <3> QED BY <2>1, <3>1 DEF QueueOK, Returned
  <2> QED BY <1>1, <1>2, <2>1, <2>2 DEF Holds, PhaseOK
<1> QED BY <1>4, <1>5, <1>6

\* The engine takes a descriptor it has been given, and closes it.
LEMMA EngineHolds ==
  ASSUME IInv, DmaReceive \/ \E result \in Results : DmaClose(result)
  PROVE  Holds'
<1> USE DEF IInv
<1>1. /\ UNCHANGED <<pkts, pktBegin, fragBegin, fragNext, pktEnd, fragEnd, descBegin, descEnd, phase, pc,
                     descIndex, descNext, pktIndex, fragIndex>>
      /\ dma'.tail = dma.tail /\ dma'.on = dma.on
  BY DEF DmaReceive, DmaClose, TypeOK, pktVars, fragVars, posted, ctxVars, locals
<1>2. Serving /\ phase # "stopped"
  BY DEF DmaReceive, DmaClose, PhaseOK, QueueOK, Returned
<1>3. Given' = Given /\ Filled' = Filled /\ Indicated' = Indicated
  BY <1>1 DEF Given, Filled, Indicated
<1>4. CASE DmaReceive
  <2>1. /\ phase = "running" /\ dma.closing = NoDesc /\ dma.cur # dma.tail
        /\ dma'.closing = dma.cur /\ dma'.cur = NextDesc(dma.cur) /\ UNCHANGED <<desc, received>>
    BY <1>4 DEF DmaReceive, PhaseOK, TypeOK
  <2>2. RxCount' = RxCount /\ Taken = RxCount /\ Taken' = Taken + 1 /\ dma'.closing # NoDesc
    BY <2>1, MaskedZero, Counts DEF RxCount, Taken, TypeOK
  <2>3. dma'.closing = Masked(RxCount') /\ dma'.cur = Masked(Taken')
    BY <1>2, <2>1, <2>2, Counts, MaskedNext DEF Serving, EngineOK
  <2>4. Taken' <= Given'
    BY <1>2, <1>3, <2>1, <2>2, Counts DEF Serving, EngineOK
  <2>5. EngineOK'
    BY <1>1, <1>2, <1>3, <2>3, <2>4 DEF Serving, EngineOK
  <2>6. WindowOK'
    BY <1>1, <1>2, <1>3, <2>1, <2>2 DEF Serving, WindowOK, DescOK
  <2>7. ReceiveOK' /\ FillOK'
    BY <1>1, <1>2, <1>3, <2>1, <2>2, Counts, SMTT(40) DEF Serving, ReceiveOK, FillOK, TypeOK
  <2>8. PhaseOK' /\ IndicatedAsReceived'
    BY <1>1, <2>1 DEF PhaseOK, IndicatedAsReceived
  <2> QED BY <2>5, <2>6, <2>7, <2>8 DEF Holds, QueueOK, Serving
<1>5. ASSUME NEW result \in Results, DmaClose(result)
      PROVE  Holds'
  <2>1. /\ dma.closing # NoDesc /\ dma'.closing = NoDesc /\ dma'.cur = dma.cur
        /\ desc' = [desc EXCEPT ![dma.closing].own = FALSE, ![dma.closing].result = result]
        /\ received' = Append(received, [frag |-> desc[dma.closing].frag, ignore |-> result = "bad"])
    BY <1>5 DEF DmaClose, TypeOK
  <2>2. /\ RxCount' = RxCount + 1 /\ Taken = RxCount + 1 /\ Taken' = RxCount + 1 /\ RxCount \in Nat
        /\ \A j \in 1..RxCount : received'[j] = received[j]
        /\ received'[RxCount + 1] = [frag |-> desc[dma.closing].frag, ignore |-> result = "bad"]
    BY <2>1 DEF RxCount, Taken, TypeOK
  <2>3. dma.closing = Masked(RxCount) /\ RxCount \in Indicated..(Filled - 1) /\ DescOK(RxCount)
        /\ dma.closing \in DescIndexes
    BY <1>2, <2>1, <2>2, Counts, Division DEF Serving, EngineOK, WindowOK
  <2>4. ASSUME NEW j \in Indicated..(Filled - 1)
        PROVE  DescOK(j)'
    <3>1. Masked(j) \in DescIndexes /\ j \in Nat /\ DescOK(j)
      BY <1>2, Counts, Division DEF Serving, WindowOK
    <3>2. CASE j = RxCount
      <4>1. desc'[Masked(j)].frag = desc[Masked(j)].frag /\ ~desc'[Masked(j)].own /\ desc'[Masked(j)].result = result
        BY <2>1, <2>3, <3>1, <3>2 DEF TypeOK
      <4> QED BY <2>2, <2>3, <3>1, <3>2, <4>1 DEF DescOK
    <3>3. CASE j # RxCount
      <4>1. Masked(j) # dma.closing
        BY <1>2, <2>3, <3>3, Counts, WindowApart DEF Serving
      <4>2. desc'[Masked(j)] = desc[Masked(j)]
        BY <2>1, <2>3, <3>1, <4>1 DEF TypeOK
      <4> QED BY <2>2, <3>1, <3>3, <4>2 DEF DescOK
    <3> QED BY <3>2, <3>3
  <2>5. EngineOK'
    BY <1>1, <1>2, <1>3, <2>1, <2>2 DEF Serving, EngineOK
  <2>6. WindowOK'
    BY <1>1, <1>2, <1>3, <2>2, <2>4, Counts DEF Serving, WindowOK
  <2>7. ReceiveOK' /\ FillOK'
    <3>1. ReceiveOK'
      <4> SUFFICES ASSUME pc = "receive" PROVE ReceiveOK'
        BY <1>1 DEF ReceiveOK
      <4>1. /\ \A j \in pktBegin..(pktIndex - 1) : pkts[j] = received[j]
            /\ pktIndex - 1 <= RxCount /\ pktIndex = fragIndex
        BY <1>2 DEF Serving, ReceiveOK
      <4>2. \A j \in pktBegin..(pktIndex - 1) : pkts'[j] = received'[j]
        BY <1>1, <2>2, <4>1 DEF TypeOK
      <4>3. fragIndex - 1 <= RxCount'
        BY <2>2, <4>1 DEF TypeOK
      <4> QED BY <1>1, <1>2, <2>2, <4>2, <4>3 DEF Serving, ReceiveOK
    <3>2. FillOK'
      BY <1>1, <1>2, <1>3, <2>2 DEF Serving, FillOK
    <3> QED BY <3>1, <3>2
  <2>8. PhaseOK'
    BY <1>1, <1>2, <2>1 DEF PhaseOK
  <2>9. IndicatedAsReceived'
    <3>1. pktBegin - 1 <= RxCount
      BY <1>2 DEF Serving, WindowOK, Indicated
    <3> QED BY <1>1, <2>2, <3>1 DEF IndicatedAsReceived, TypeOK, RxCount
  <2> QED BY <2>5, <2>6, <2>7, <2>8, <2>9 DEF Holds, QueueOK, Serving
<1> QED BY <1>4, <1>5

-----------------------------------------------------------------------------
(* The invariant and what it says.                                         *)

LEMMA InvInit == Init => IInv
<1> SUFFICES ASSUME Init PROVE IInv
  OBVIOUS
<1>1. TypeOK
  <2>1. Blank \in [own : BOOLEAN, frag : Nat, result : Results]
    BY DEF Blank, Results
  <2>2. pkts \in [1..MaxPosted -> Frames]
    BY DEF Init, NoPackets, Frames
  <2>3. pktEnd \in 1..(MaxPosted + 1)
    BY MaxPostedAssumption DEF Init
  <2> QED BY <2>1, <2>2, <2>3, MaskedZero DEF Init, TypeOK
<1>2. PhaseOK /\ IndicatedAsReceived /\ phase = "stopped"
  BY DEF Init, PhaseOK, IndicatedAsReceived
<1> QED BY <1>1, <1>2 DEF IInv

LEMMA InvStep == IInv /\ [Next]_vars => IInv'
<1> SUFFICES ASSUME IInv, [Next]_vars PROVE IInv'
  OBVIOUS
<1>1. TypeOK'
  BY TypeStep DEF IInv
<1>2. Holds'
  <2>1. CASE UNCHANGED vars
    BY <2>1 DEF IInv, Holds, vars, pktVars, fragVars, posted, ctxVars, locals, PhaseOK, IndicatedAsReceived, QueueOK,
                Returned, Serving, EngineOK, WindowOK, ReceiveOK, FillOK, DescOK, RxCount, Taken, Given, Filled, Indicated
  <2> QED BY <2>1, PortHolds, ReceiveOneHolds, ReceiveDoneHolds, FillOneHolds, FillDoneHolds, CancelHolds, EngineHolds
          DEF Next
<1> QED BY <1>1, <1>2 DEF IInv, Holds

LEMMA Invariance == Spec => []IInv
BY InvInit, InvStep, PTL DEF Spec

\* For a ring of any size: every packet indicated has the next fragment the
\* engine received and its own result, and the packets behind are ignored,
\* whatever the engine closes, stalls at or is behind with meanwhile.
THEOREM FramesIndicated == Spec => []IndicatedAsReceived
BY Invariance, PTL DEF IInv

\* For a ring of any size: a fragment whose descriptor the engine is to use, or
\* is about to close, has not been returned to NetAdapterCx.
THEOREM FragmentsKept == Spec => []NothingReturnedInUse
<1>1. IInv => NothingReturnedInUse
  <2> SUFFICES ASSUME IInv, NEW i \in DescIndexes,
                      \/ dma.on /\ Masked(i - dma.cur) < Masked(dma.tail - dma.cur)
                      \/ i = dma.closing
               PROVE  desc[i].frag >= fragBegin
    BY DEF NothingReturnedInUse
  <2>1. TypeOK /\ Serving
    BY MaskedZero DEF IInv, PhaseOK, QueueOK, Returned
  <2>2. \E k \in Indicated..(Filled - 1) : i = Masked(k)
    <3>1. CASE i = dma.closing
      <4>1. RxCount \in Indicated..(Filled - 1) /\ i = Masked(RxCount)
        BY <2>1, <3>1, Counts, MaskedZero DEF Serving, EngineOK, WindowOK
      <4> QED BY <4>1
    <3>2. CASE dma.on /\ Masked(i - dma.cur) < Masked(dma.tail - dma.cur)
      <4> DEFINE d == Masked(i - dma.cur)
      <4>1. dma.cur = Masked(Taken) /\ dma.tail = Masked(Given) /\ Given - Taken \in DescIndexes
        BY <2>1, Counts, DescCountAssumption DEF Serving, EngineOK, WindowOK, DescIndexes
      <4>2. Masked(dma.tail - dma.cur) = Given - Taken
        <5>1. Taken + (Given - Taken) = Given
          BY <2>1, Counts
        <5> QED BY <2>1, <4>1, <5>1, Counts, MaskedDistance
      <4>3. d \in DescIndexes /\ i = Masked(Taken + d)
        <5>1. i - dma.cur \in Int
          BY <2>1 DEF TypeOK, DescIndexes
        <5> QED BY <2>1, <4>1, <5>1, Counts, Division, MaskedFound
      <4>4. Taken + d \in Indicated..(Filled - 1)
        <5>1. d < Given - Taken /\ d \in Nat
          BY <3>2, <4>2, <4>3 DEF DescIndexes
        <5> HIDE DEF d
        <5> QED BY <2>1, <5>1, Counts DEF Serving, EngineOK, WindowOK
      <4> QED BY <4>3, <4>4
    <3> QED BY <3>1, <3>2
  <2>3. PICK k \in Indicated..(Filled - 1) : i = Masked(k)
    BY <2>2
  <2>4. desc[i].frag = k + 1
    BY <2>1, <2>3 DEF Serving, WindowOK, DescOK
  <2> QED BY <2>1, <2>4, Counts DEF Indicated, TypeOK
<1> QED BY <1>1, Invariance, PTL

-----------------------------------------------------------------------------
(* The queue implements NetRxQueue.                                        *)

\* Packets not indicated yet are not seen by NetAdapterCx.
LEMMA Unseen ==
  ASSUME UNCHANGED <<phase, pktBegin, pktEnd, fragBegin, fragEnd, received>>,
         \A k \in 1..(pktBegin - 1) : pkts'[k] = pkts[k]
  PROVE  UNCHANGED RxAbs!rxVars
<1>1. UNCHANGED <<phase, pktEnd - 1, fragEnd - 1, fragBegin - 1>>
  OBVIOUS
<1>2. UNCHANGED [k \in 1..Len(received) |-> Landed(received[k])]
  BY DEF Landed
<1>3. UNCHANGED [k \in 1..(pktBegin - 1) |-> Landed(pkts[k])]
  BY DEF Landed
<1> QED BY <1>1, <1>2, <1>3 DEF RxAbs!rxVars

\* What NetAdapterCx does itself is what NetRxQueue says it does.
LEMMA PortImplements ==
  ASSUME IInv, PostPacket \/ PostFragment \/ RxQueueStart \/ RxQueueCancel \/ RxQueueStop
  PROVE  RxAbs!RxNext
<1> USE DEF IInv
<1>1. pktEnd \in Nat /\ fragEnd \in Nat /\ pktBegin \in Nat /\ fragBegin \in Nat
  BY DEF TypeOK
<1>2. ASSUME UNCHANGED <<pkts, pktBegin>>
      PROVE  UNCHANGED [k \in 1..(pktBegin - 1) |-> Landed(pkts[k])]
  BY <1>2 DEF Landed
<1>3. ASSUME UNCHANGED received
      PROVE  UNCHANGED [k \in 1..Len(received) |-> Landed(received[k])]
  BY <1>3 DEF Landed
<1>4. CASE PostPacket
  <2>1. /\ phase # "stopped" /\ (pktEnd - 1)' = (pktEnd - 1) + 1
        /\ UNCHANGED <<phase, fragEnd - 1, fragBegin - 1, pkts, pktBegin, received>>
    BY <1>1, <1>4 DEF PostPacket, pktVars, fragVars
  <2> QED BY <1>2, <1>3, <2>1 DEF RxAbs!RxNext, RxAbs!LendPacket
<1>5. CASE PostFragment
  <2>1. /\ phase = "running" /\ (fragEnd - 1)' = (fragEnd - 1) + 1
        /\ UNCHANGED <<phase, pktEnd - 1, fragBegin - 1, pkts, pktBegin, received>>
    BY <1>1, <1>5 DEF PostFragment, pktVars, fragVars
  <2> QED BY <1>2, <1>3, <2>1 DEF RxAbs!RxNext, RxAbs!LendFragment
<1>6. CASE RxQueueStart
  <2>1. /\ phase = "stopped" /\ phase' = "running" /\ (pktEnd - 1)' = 0 /\ (fragEnd - 1)' = 0
        /\ (fragBegin - 1)' = 0 /\ (pktBegin - 1)' = 0 /\ received' = << >>
    BY <1>6 DEF RxQueueStart
  <2>2. [k \in 1..Len(received) |-> Landed(received[k])]' = << >>
    BY <2>1
  <2>3. [k \in 1..(pktBegin - 1) |-> Landed(pkts[k])]' = << >>
    BY <2>1
  <2> QED BY <2>1, <2>2, <2>3 DEF RxAbs!RxNext, RxAbs!Start, RxAbs!Empty
<1>7. CASE RxQueueCancel
  <2>1. /\ phase = "running" /\ phase' = "cancelled"
        /\ UNCHANGED <<pktEnd - 1, fragEnd - 1, fragBegin - 1, pkts, pktBegin, received>>
    BY <1>7 DEF RxQueueCancel, pktVars, fragVars, posted
  <2> QED BY <1>2, <1>3, <2>1 DEF RxAbs!RxNext, RxAbs!Cancel
<1>8. CASE RxQueueStop
  <2>1. /\ phase = "cancelled" /\ phase' = "stopped" /\ pktBegin - 1 = pktEnd - 1 /\ fragBegin - 1 = fragEnd - 1
        /\ UNCHANGED <<pktEnd - 1, fragEnd - 1, fragBegin - 1, pkts, pktBegin, received>>
    BY <1>8 DEF RxQueueStop, pktVars, fragVars, posted
  <2>2. Len([k \in 1..(pktBegin - 1) |-> Landed(pkts[k])]) = pktBegin - 1
    BY <1>1 DEF TypeOK
  <2> QED BY <1>2, <1>3, <2>1, <2>2 DEF RxAbs!RxNext, RxAbs!Stop
<1> QED BY <1>4, <1>5, <1>6, <1>7, <1>8

\* Between two reads of the rings by NetAdapterCx nothing it sees changes.
LEMMA LocalImplements ==
  ASSUME IInv, RxQueueAdvance \/ ReceiveOne \/ FillOne \/ FillDone \/ DmaReceive \/ DmaStall
  PROVE  UNCHANGED RxAbs!rxVars
<1>1. UNCHANGED <<phase, pktBegin, pktEnd, fragBegin, fragEnd, received>>
  BY DEF RxQueueAdvance, ReceiveOne, FillOne, FillDone, DmaReceive, DmaStall, pktVars, fragVars, posted
<1>2. \A k \in 1..(pktBegin - 1) : pkts'[k] = pkts[k]
  <2>1. CASE ReceiveOne
    <3>1. Serving /\ pc = "receive" /\ phase # "stopped"
      BY <2>1 DEF ReceiveOne, IInv, PhaseOK, QueueOK, Returned, CanReceive
    <3>2. pktBegin <= pktIndex
      BY <3>1, ReceivedSoFar DEF Serving, WindowOK
    <3> QED BY <2>1, <3>2 DEF ReceiveOne, IInv, TypeOK
  <2>2. CASE ~ReceiveOne
    BY <2>2 DEF RxQueueAdvance, FillOne, FillDone, DmaReceive, DmaStall, pktVars
  <2> QED BY <2>1, <2>2
<1> QED BY <1>1, <1>2, Unseen

\* The packets of the loop are indicated, or all that are left given back.
LEMMA ReceiveDoneImplements ==
  ASSUME IInv, IInv', ReceiveDone
  PROVE  RxAbs!RxNext
<1> DEFINE F == [k \in 1..Len(received) |-> Landed(received[k])]
           I == [k \in 1..(pktBegin - 1) |-> Landed(pkts[k])]
<1>1. /\ pc = "receive" /\ phase # "stopped"
      /\ UNCHANGED <<pktEnd, fragEnd, phase, received>>
  BY DEF ReceiveDone, IInv, PhaseOK, posted
<1>2. /\ pktEnd \in Nat \ {0} /\ fragEnd \in Nat \ {0} /\ pktBegin \in Nat \ {0} /\ fragBegin \in Nat \ {0}
      /\ pktIndex \in Nat \ {0} /\ Len(received) \in Nat
  <2>1. pktEnd \in 1..(MaxPosted + 1) /\ received \in Seq(Frames)
    BY DEF IInv, TypeOK
  <2>2. pktEnd \in Nat \ {0}
    BY <2>1, MaxPostedAssumption
  <2> QED BY <2>1, <2>2 DEF IInv, TypeOK
<1>3. Len(F) = Len(received) /\ Len(I) = pktBegin - 1
  BY <1>2
<1>4. F' = F
  BY <1>1
<1>5. CASE phase = "cancelled" /\ Drained
  <2>1. pktBegin' = pktEnd /\ fragBegin' = fragEnd
    BY <1>5 DEF ReceiveDone
  <2>2. Len(received) <= pktEnd - 1
    BY <1>1, <1>2, <1>5, AllReceived DEF RxCount
  <2>3. \A k \in 1..(pktEnd - 1) :
          Landed(pkts'[k]) = IF k <= Len(received) THEN Landed(received[k]) ELSE 0
    BY <1>1, <2>1 DEF IInv, IndicatedAsReceived, Landed
  <2>4. I' = [k \in 1..(pktEnd - 1) |-> IF k <= Len(F) THEN F[k] ELSE 0]
    <3>1. I' = [k \in 1..(pktEnd - 1) |-> Landed(pkts'[k])]
      BY <2>1
    <3>2. \A k \in 1..(pktEnd - 1) : Landed(pkts'[k]) = IF k <= Len(F) THEN F[k] ELSE 0
      BY <1>2, <1>3, <2>3
    <3> HIDE DEF I, F
    <3> QED BY <3>1, <3>2
  <2> QED BY <1>1, <1>3, <1>4, <1>5, <2>1, <2>2, <2>4
          DEF RxAbs!RxNext, RxAbs!GiveBack, RxAbs!Nothing
<1>6. CASE ~(phase = "cancelled" /\ Drained)
  <2>1. Serving
    BY <1>1, <1>6 DEF IInv, QueueOK, Returned, Drained
  <2>2. pktBegin' = pktIndex /\ fragBegin' = fragIndex /\ pkts' = pkts
    BY <1>6 DEF ReceiveDone
  <2>3. /\ pktIndex = fragIndex /\ pktIndex <= pktEnd /\ fragIndex - 1 <= Len(received) /\ fragBegin <= fragIndex
        /\ \A k \in 1..(pktIndex - 1) : pkts[k] = received[k]
    BY <1>1, <2>1, ReceivedSoFar DEF RxCount
  <2>4. pktBegin = fragBegin
    BY <2>1 DEF Serving, WindowOK
  <2>5. /\ pktIndex - 1 \in (pktBegin - 1)..Len(received)
        /\ fragBegin - 1 <= pktIndex - 1 /\ pktIndex - 1 <= pktEnd - 1
    BY <1>2, <2>3, <2>4
  <2>6. I' = [k \in 1..(pktIndex - 1) |-> F[k]]
    <3>1. I' = [k \in 1..(pktIndex - 1) |-> Landed(pkts[k])]
      BY <2>2
    <3>2. \A k \in 1..(pktIndex - 1) : Landed(pkts[k]) = F[k]
      BY <1>2, <2>3
    <3> HIDE DEF I, F
    <3> QED BY <3>1, <3>2
  <2>7. (fragBegin - 1)' = pktIndex - 1
    BY <2>2, <2>3
  <2> QED BY <1>1, <1>3, <1>4, <2>5, <2>6, <2>7 DEF RxAbs!RxNext, RxAbs!Indicate
<1> QED BY <1>5, <1>6

\* The engine closes the descriptor of the next fragment, which NetAdapterCx
\* has lent and not got back.
LEMMA DmaCloseImplements ==
  ASSUME IInv, NEW result \in Results, DmaClose(result)
  PROVE  RxAbs!RxNext
<1> DEFINE F == [k \in 1..Len(received) |-> Landed(received[k])]
           p == [frag |-> desc[dma.closing].frag, ignore |-> result = "bad"]
<1>1. /\ dma.closing # NoDesc /\ received' = Append(received, p)
      /\ UNCHANGED <<pkts, pktBegin, fragBegin, fragNext, pktEnd, fragEnd, phase>>
  BY DEF DmaClose, pktVars, fragVars, posted
<1>2. Serving /\ phase # "stopped"
  BY <1>1 DEF IInv, PhaseOK, QueueOK, Returned
<1>3. /\ received \in Seq(Frames) /\ RxCount = Len(received) /\ RxCount \in Nat
      /\ fragBegin \in Nat /\ fragNext \in Nat /\ fragEnd \in Nat /\ fragNext <= fragEnd
  BY DEF IInv, TypeOK, PhaseOK, RxCount
<1>4. /\ dma.closing = Masked(RxCount) /\ RxCount \in Indicated..(Filled - 1) /\ DescOK(RxCount)
      /\ RxCount < Given
  BY <1>1, <1>2, Counts DEF IInv, Serving, EngineOK, WindowOK
<1>5. desc[dma.closing].frag = RxCount + 1
  BY <1>4 DEF DescOK
<1>6. fragBegin - 1 <= Len(received) /\ Len(received) < fragEnd - 1
  BY <1>3, <1>4 DEF Indicated, Given
<1>7. Landed(p) \in {Len(received) + 1, 0}
  BY <1>3, <1>5 DEF Landed
<1>8. Len(F) = Len(received)
  BY <1>3
<1>9. F' = Append(F, Landed(p))
  <2> DEFINE q == p
  <2> HIDE DEF q
  <2>1. received' = Append(received, q)
    BY <1>1 DEF q
  <2>2. q \in Frames
    BY <1>3, <1>5 DEF q, Frames
  <2>3. /\ Len(received') = Len(received) + 1 /\ received'[Len(received) + 1] = q
        /\ \A k \in 1..Len(received) : received'[k] = received[k]
    BY <1>3, <2>1, <2>2
  <2>4. F' = [k \in 1..(Len(received) + 1) |-> Landed(received'[k])]
    BY <2>3
  <2>5. Append(F, Landed(q)) = [k \in 1..(Len(F) + 1) |-> IF k = Len(F) + 1 THEN Landed(q) ELSE F[k]]
    OBVIOUS
  <2>6. \A k \in 1..(Len(received) + 1) :
          Landed(received'[k]) = IF k = Len(F) + 1 THEN Landed(q) ELSE F[k]
    BY <1>3, <1>8, <2>3
  <2>7. F' = Append(F, Landed(q))
    <3> HIDE DEF F
    <3> QED BY <1>8, <2>4, <2>5, <2>6
  <2> QED BY <2>7 DEF q
<1>10. UNCHANGED <<phase, pktEnd - 1, fragEnd - 1, fragBegin - 1>>
       /\ UNCHANGED [k \in 1..(pktBegin - 1) |-> Landed(pkts[k])]
  BY <1>1 DEF Landed
<1>11. RxAbs!Arrive
  <2> HIDE DEF F, p
  <2>1. Landed(p) \in {Len(F) + 1, 0} /\ F' = Append(F, Landed(p))
    BY <1>7, <1>8, <1>9
  <2> QED BY <1>2, <1>6, <1>8, <1>10, <2>1 DEF RxAbs!Arrive, RxAbs!Nothing, F
<1> QED BY <1>11 DEF RxAbs!RxNext

LEMMA InitImplements == Init => RxAbs!RxInit
<1> SUFFICES ASSUME Init PROVE RxAbs!RxInit
  OBVIOUS
<1>1. phase = "stopped" /\ pktEnd - 1 = 0 /\ fragEnd - 1 = 0 /\ fragBegin - 1 = 0 /\ pktBegin - 1 = 0
      /\ received = << >>
  BY DEF Init
<1>2. [k \in 1..Len(received) |-> Landed(received[k])] = << >>
  BY <1>1
<1>3. [k \in 1..(pktBegin - 1) |-> Landed(pkts[k])] = << >>
  BY <1>1
<1> QED BY <1>1, <1>2, <1>3 DEF RxAbs!RxInit, RxAbs!Empty

\* For a ring of any size the receive queue is a NetRxQueue: what has been
\* indicated never changes, what has arrived is indicated before a cancelled
\* queue gives back the rest, and nothing arrives after that, whatever the
\* engine does between the steps of RxQueueAdvance.
THEOREM RxImplements == Spec => ImplementsRxQueue
<1>1. IInv /\ IInv' /\ [Next]_vars => [RxAbs!RxNext]_RxAbs!rxVars
  <2> SUFFICES ASSUME IInv, IInv', [Next]_vars PROVE RxAbs!RxNext \/ UNCHANGED RxAbs!rxVars
    OBVIOUS
  <2>1. CASE UNCHANGED vars
    <3>1. /\ UNCHANGED <<phase, pktBegin, pktEnd, fragBegin, fragEnd, received>>
          /\ \A k \in 1..(pktBegin - 1) : pkts'[k] = pkts[k]
      BY <2>1 DEF vars, pktVars, fragVars, posted
    <3> QED BY <3>1, Unseen
  <2>2. CASE Next
    BY <2>2, PortImplements, LocalImplements, ReceiveDoneImplements, DmaCloseImplements DEF Next
  <2> QED BY <2>1, <2>2
<1> QED BY <1>1, Invariance, InitImplements, PTL DEF Spec, ImplementsRxQueue, RxAbs!RxSpec
=============================================================================
