------------------------- MODULE EqosTxQueueProofs -------------------------
(***************************************************************************)
(* For a descriptor ring of any size and packets with any fragments: the   *)
(* transmit queue sends every frame with the tag and MSS of its packet, in *)
(* order; writes no descriptor the engine still has to fetch; and returns  *)
(* no fragment the engine may read.                                        *)
(*                                                                         *)
(* The indexes of the ring wrap, so the invariant counts descriptors       *)
(* without end: in one run of the queue b <= s <= c <= g <= f, less than a *)
(* ring apart, count what was returned, reclaimed, fetched, given to the   *)
(* engine and written.  Of the descriptors from s to f it says whose they  *)
(* are and in which order; of the engine at c, that it knows every value   *)
(* a packet has no context descriptor for.  What a packet needs is a sum   *)
(* over its fragments: its bound is proved by induction in first-order     *)
(* form, over a set of numbers and the well-founded order of Nat.          *)
(***************************************************************************)
EXTENDS EqosTxQueue, SequenceTheorems, WellFoundedInduction, TLAPS

-----------------------------------------------------------------------------
(* Types.                                                                  *)

Packets == [ignore : BOOLEAN, priority : 0..7, vlan : {NoVlan} \cup 0..4095, mss : Nat \ {NoMss},
            lens : Seq(Nat \ {0}), header : Nat, frag : Nat \ {0}]

Tags == {VlanTag(p) : p \in Packets} \cup {0}

Descs == [own : BOOLEAN, ctx : BOOLEAN, first : BOOLEAN, last : BOOLEAN, gso : BOOLEAN,
          insert : BOOLEAN, tag : Tags, tagValid : BOOLEAN, mss : Nat, mssValid : BOOLEAN,
          pkt : Nat, frag : Nat]

TypeOK ==
  /\ pkts \in Seq(Packets)
  /\ pktBegin \in Nat \ {0} /\ pktNext \in Nat \ {0} /\ base \in Nat \ {0}
  /\ fragBegin \in Nat \ {0} /\ fragEnd \in Nat \ {0}
  /\ descBegin \in DescIndexes /\ descEnd \in DescIndexes
  /\ lastMss \in Nat /\ lastVlanTag \in Tags
  /\ desc \in [DescIndexes -> Descs]
  /\ phase \in {"stopped", "running", "draining", "lastAdvance", "flushed", "cancelled"}
  /\ pc \in {"idle", "reclaim", "fill"}
  /\ descIndex \in DescIndexes /\ pktIndex \in Nat \ {0} /\ pktFragIndex \in Nat \ {0}
  /\ dma \in [on : BOOLEAN, cur : DescIndexes, tail : DescIndexes, tag : Tags, mss : Nat,
              pkt : Nat, frameTag : Tags, frameMss : Nat]
  /\ wire \in Seq([pkt : Nat, tag : Tags, mss : Nat])

\* The packets posted, and their fragments one after another.
PacketsOK ==
  /\ \A k \in 1..Len(pkts) :
       /\ pkts[k].lens # << >> /\ pkts[k].header <= pkts[k].lens[1]
       /\ Len(pkts[k].lens) > 1 \/ pkts[k].header < pkts[k].lens[1]
       /\ pkts[k].frag + FragmentCount(pkts[k]) <= fragEnd
  /\ \A j, k \in 1..Len(pkts) : j < k => pkts[j].frag + FragmentCount(pkts[j]) <= pkts[k].frag

WireOK ==
  /\ WireFaithful /\ SentInOrder
  /\ \A i \in DOMAIN wire : wire[i].pkt \in 1..Len(pkts) /\ ~pkts[wire[i].pkt].ignore

\* The queue has packets and the engine descriptors of it.
Serving == phase \in {"running", "draining", "lastAdvance"}

PktFirst  == IF pc = "reclaim" THEN pktIndex ELSE pktBegin
FragFirst == IF pc = "reclaim" THEN pktFragIndex ELSE fragBegin
PktTop    == IF pc = "fill" THEN pktIndex ELSE pktNext

Skipped(i, j) == \A k \in i..(j - 1) : pkts[k].ignore

PhaseOK ==
  /\ dma.on <=> phase = "running"
  /\ phase \notin {"running", "draining"} => dma.pkt = NoPacket
  /\ pc # "idle" => phase \in {"running", "lastAdvance"}
  /\ phase = "lastAdvance" => pc # "idle"
  /\ phase \in {"stopped", "cancelled"} => pktBegin = pktEnd
  /\ fragBegin <= fragEnd

CursorsOK ==
  /\ base <= pktBegin /\ pktBegin <= PktFirst /\ PktFirst <= pktNext
  /\ pktNext <= PktTop /\ PktTop <= pktEnd
  /\ fragBegin <= FragFirst /\ FragFirst <= fragEnd
  /\ \A k \in PktFirst..Len(pkts) : FragFirst <= pkts[k].frag
  /\ pc = "reclaim" => pktIndex = pktNext \/ ~pkts[pktIndex].ignore

-----------------------------------------------------------------------------
(* The context the engine is given: a tag and an MSS.                      *)

Offloads == {"tag", "mss"}
Offload(o, p) == IF o = "tag" THEN VlanTag(p) ELSE p.mss
Unset(o)   == IF o = "tag" THEN 0 ELSE NoMss
Cached(o)  == IF o = "tag" THEN lastVlanTag ELSE lastMss
Context(o) == IF o = "tag" THEN dma.tag ELSE dma.mss
Valid(o, d) == IF o = "tag" THEN d.tagValid ELSE d.mssValid
Given(o, d) == IF o = "tag" THEN d.tag ELSE d.mss

Uses(o, k) == ~pkts[k].ignore /\ Offload(o, pkts[k]) # 0

\* Packet j is the last one before k to use the offload.
LastUse(o, k, j) == Uses(o, j) /\ \A i \in (j + 1)..(k - 1) : ~Uses(o, i)

\* The value that packet k finds the offload at.
Latest(o, k, v) ==
  \/ v = Unset(o) /\ \A j \in base..(k - 1) : ~Uses(o, j)
  \/ \E j \in base..(k - 1) : LastUse(o, k, j) /\ v = Offload(o, pkts[j])

\* The engine has that value, if a packet has set one.
Knows(o, k) ==
  \A j \in base..(k - 1) : LastUse(o, k, j) => Context(o) = Offload(o, pkts[j])

\* Packet k needs no new value.
Provided(o, k) == Offload(o, pkts[k]) = 0 \/ Latest(o, k, Offload(o, pkts[k]))

CacheOK == \A o \in Offloads : Latest(o, PktTop, Cached(o))

-----------------------------------------------------------------------------
(* The descriptors, counted without end: the k-th has the index Masked(k). *)
(* b is the first the driver has, s the first not yet reclaimed, c where   *)
(* the engine is, g the first it has not been given, f the first empty.    *)

Start == IF pc = "reclaim" THEN descIndex ELSE descBegin
End   == IF pc = "fill" THEN descIndex ELSE descEnd

PlaceOK(b, s, c, g, f) ==
  /\ b <= s /\ s <= c /\ c <= g /\ g <= f /\ f < b + DescCount
  /\ descBegin = Masked(b) /\ Start = Masked(s) /\ dma.cur = Masked(c)
  /\ descEnd = Masked(g) /\ dma.tail = descEnd /\ End = Masked(f)
  /\ pc # "reclaim" => s = b
  /\ pc # "fill" => f = g

At(k) == desc[Masked(k)]
Begins(k) == At(k).ctx \/ At(k).first

DescOK(k, c) ==
  LET d == At(k)
      p == pkts[d.pkt] IN
  /\ d.own <=> k >= c
  /\ d.pkt \in base..Len(pkts) /\ ~p.ignore
  /\ d.frag >= p.frag
  /\ d.ctx => ~d.first /\ ~d.last
  /\ d.ctx => \A o \in Offloads :
       IF Valid(o, d) THEN Given(o, d) = Offload(o, p) /\ Offload(o, p) # 0 ELSE Provided(o, d.pkt)
  /\ d.first => (d.insert <=> VlanTag(p) # 0) /\ (d.gso <=> p.mss # 0)

\* A packet's descriptors are together and in order: one of context, the first, others.
Follows(k) ==
  IF At(k).last
  THEN /\ Begins(k + 1) /\ Skipped(At(k).pkt + 1, At(k + 1).pkt)
       /\ ~At(k + 1).ctx => \A o \in Offloads : Provided(o, At(k + 1).pkt)
  ELSE /\ At(k + 1).pkt = At(k).pkt /\ ~At(k + 1).ctx
       /\ At(k + 1).first <=> At(k).ctx

Ordered(j, k) == At(j).pkt <= At(k).pkt /\ (At(j).last => At(j).pkt < At(k).pkt)

Listed(s, c, f) == \A k \in s..(f - 1) : DescOK(k, c)
Linked(s, f)    == \A k \in s..(f - 2) : Follows(k)
Sorted(s, f)    == \A j, k \in s..(f - 1) : j < k => Ordered(j, k)

\* The descriptors are of the packets between the cursors, all but ignored ones.
Spanned(s, f) ==
  /\ \A k \in s..(f - 1) : At(k).pkt \in PktFirst..(PktTop - 1)
  /\ s < f => /\ Skipped(PktFirst, At(s).pkt)
              /\ At(f - 1).last /\ Skipped(At(f - 1).pkt + 1, PktTop)
  /\ s = f => Skipped(PktFirst, PktTop)

\* Only whole packets are given to the engine; what is not given yet is not empty.
Whole(s, g, f) ==
  /\ s < g => At(g - 1).last
  /\ pc = "fill" /\ g = f => Skipped(pktNext, pktIndex)

ChainOK(s, c, g, f) ==
  Listed(s, c, f) /\ Linked(s, f) /\ Sorted(s, f) /\ Spanned(s, f) /\ Whole(s, g, f)

EngineOK(c, g, f) ==
  IF dma.pkt # NoPacket
  THEN /\ c < g /\ ~Begins(c) /\ At(c).pkt = dma.pkt
       /\ dma.frameTag = VlanTag(pkts[dma.pkt]) /\ dma.frameMss = pkts[dma.pkt].mss
       /\ \A o \in Offloads : Knows(o, dma.pkt + 1)
  ELSE IF c < f
  THEN /\ Begins(c)
       /\ \A o \in Offloads : Knows(o, IF At(c).ctx THEN At(c).pkt ELSE At(c).pkt + 1)
  ELSE \A o \in Offloads : Knows(o, PktTop)

\* The packet the engine is at.
Current(c, f) == IF dma.pkt # NoPacket THEN dma.pkt ELSE IF c < f THEN At(c).pkt ELSE PktTop

Sent(k) == \E i \in DOMAIN wire : wire[i].pkt = k

SentOK(n) ==
  /\ \A k \in base..(n - 1) : pkts[k].ignore \/ Sent(k)
  /\ \A i \in DOMAIN wire : wire[i].pkt < n

RingOK(b, s, c, g, f) ==
  PlaceOK(b, s, c, g, f) /\ ChainOK(s, c, g, f) /\ EngineOK(c, g, f) /\ SentOK(Current(c, f))

ServingOK ==
  CursorsOK /\ CacheOK /\ \E b, s, c, g, f \in Int : RingOK(b, s, c, g, f)

IInv == TypeOK /\ PacketsOK /\ WireOK /\ PhaseOK /\ (Serving => ServingOK)

-----------------------------------------------------------------------------
(* Counting round the ring.                                                *)

\* An integer is a number of whole rings and the index of a descriptor.
LEMMA Division ==
  \A x \in Int : x \div DescCount \in Int /\ Masked(x) \in DescIndexes
                 /\ x = DescCount * (x \div DescCount) + Masked(x)
BY DescCountAssumption DEF Masked, DescIndexes

\* That index is the only one.
LEMMA Remainder ==
  \A q \in Int, r \in DescIndexes : Masked(DescCount * q + r) = r
BY DescCountAssumption DEF Masked, DescIndexes

\* Whole rings are a ring apart.
LEMMA Multiples ==
  \A q, r \in Int : q < r => DescCount * q + DescCount <= DescCount * r
BY DescCountAssumption

\* The descriptor of the next fragment is the next one.
LEMMA MaskedNext ==
  \A x \in Int : NextDesc(Masked(x)) = Masked(x + 1)
<1> SUFFICES ASSUME NEW x \in Int PROVE NextDesc(Masked(x)) = Masked(x + 1)
  OBVIOUS
<1> DEFINE q == x \div DescCount
           r == Masked(x)
<1>1. q \in Int /\ r \in DescIndexes /\ x = DescCount * q + r
  BY Division
<1> HIDE DEF q, r
<1>2. CASE r + 1 < DescCount
  <2>1. x + 1 = DescCount * q + (r + 1) /\ x + 1 \in Int /\ r + 1 \in DescIndexes
    BY <1>1, <1>2, DescCountAssumption DEF DescIndexes
  <2>2. r + 1 = DescCount * 0 + (r + 1)
    BY <1>1, DescCountAssumption DEF DescIndexes
  <2>3. Masked(x + 1) = r + 1 /\ Masked(r + 1) = r + 1
    BY <1>1, <2>1, <2>2, Remainder
  <2> QED BY <2>3 DEF NextDesc, r
<1>3. CASE r + 1 = DescCount
  <2>1. x + 1 = DescCount * (q + 1) + 0 /\ q + 1 \in Int /\ 0 \in DescIndexes
    BY <1>1, <1>3, DescCountAssumption DEF DescIndexes
  <2>2. r + 1 = DescCount * 1 + 0
    BY <1>3, DescCountAssumption
  <2>3. Masked(x + 1) = 0 /\ Masked(r + 1) = 0
    BY <2>1, <2>2, Remainder
  <2> QED BY <2>3 DEF NextDesc, r
<1> QED BY <1>1, <1>2, <1>3, DescCountAssumption DEF DescIndexes

\* Less than a ring apart, two counts with the same descriptor are the same.
LEMMA MaskedSame ==
  \A x, y \in Int : x <= y /\ y < x + DescCount /\ Masked(x) = Masked(y) => x = y
<1> SUFFICES ASSUME NEW x \in Int, NEW y \in Int, x <= y, y < x + DescCount, Masked(x) = Masked(y)
             PROVE  x = y
  OBVIOUS
<1> DEFINE q == x \div DescCount
           r == y \div DescCount
           m == Masked(x)
<1>1. /\ q \in Int /\ r \in Int /\ m \in Int
      /\ x = DescCount * q + m /\ y = DescCount * r + m
  BY Division DEF DescIndexes
<1> HIDE DEF q, r, m
<1>2. ~(q < r) /\ ~(r < q)
  BY <1>1, Multiples, DescCountAssumption
<1> QED BY <1>1, <1>2

\* The distance between two descriptors is that of their counts.
LEMMA MaskedDistance ==
  \A x \in Int, d \in DescIndexes : Masked(Masked(x + d) - Masked(x)) = d
<1> SUFFICES ASSUME NEW x \in Int, NEW d \in DescIndexes
             PROVE  Masked(Masked(x + d) - Masked(x)) = d
  OBVIOUS
<1> DEFINE q == x \div DescCount
           r == (x + d) \div DescCount
           m == Masked(x)
           n == Masked(x + d)
<1>1. /\ q \in Int /\ r \in Int /\ m \in Int /\ n \in Int /\ d \in Int
      /\ x = DescCount * q + m /\ x + d = DescCount * r + n
  BY Division DEF DescIndexes
<1> HIDE DEF q, r, m, n
<1>2. n - m = DescCount * (q - r) + d /\ q - r \in Int
  BY <1>1, DescCountAssumption
<1>3. Masked(n - m) = d
  BY <1>2, Remainder
<1> QED BY <1>3 DEF m, n

\* A descriptor is found again at its distance from another one.
LEMMA MaskedFound ==
  \A x \in Int, i \in DescIndexes : i = Masked(x + Masked(i - Masked(x)))
<1> SUFFICES ASSUME NEW x \in Int, NEW i \in DescIndexes
             PROVE  i = Masked(x + Masked(i - Masked(x)))
  OBVIOUS
<1> DEFINE q == x \div DescCount
           m == Masked(x)
           r == (i - m) \div DescCount
           n == Masked(i - m)
<1>1. q \in Int /\ m \in Int /\ i \in Int /\ x = DescCount * q + m
  BY Division DEF DescIndexes
<1>2. r \in Int /\ n \in Int /\ i - m = DescCount * r + n
  <2> HIDE DEF m
  <2> QED BY <1>1, Division DEF DescIndexes
<1> HIDE DEF q, m, r, n
<1>3. x + n = DescCount * (q - r) + i /\ q - r \in Int
  BY <1>1, <1>2, DescCountAssumption
<1>4. Masked(x + n) = i
  BY <1>3, Remainder
<1> QED BY <1>4 DEF n, m

\* The EMPTY region is what the ring has beyond the descriptors in use and its hole.
LEMMA MaskedRoom ==
  \A x \in Int, d \in DescIndexes : Masked(Masked(x) - 1 - Masked(x + d)) = DescCount - 1 - d
<1> SUFFICES ASSUME NEW x \in Int, NEW d \in DescIndexes
             PROVE  Masked(Masked(x) - 1 - Masked(x + d)) = DescCount - 1 - d
  OBVIOUS
<1> DEFINE q == x \div DescCount
           r == (x + d) \div DescCount
           m == Masked(x)
           n == Masked(x + d)
<1>1. /\ q \in Int /\ r \in Int /\ m \in Int /\ n \in Int /\ d \in Int
      /\ x = DescCount * q + m /\ x + d = DescCount * r + n
  BY Division DEF DescIndexes
<1> HIDE DEF q, r, m, n
<1>2. m - 1 - n = DescCount * (r - q - 1) + (DescCount - 1 - d) /\ r - q - 1 \in Int
  BY <1>1, DescCountAssumption
<1>3. DescCount - 1 - d \in DescIndexes
  BY DescCountAssumption DEF DescIndexes
<1>4. Masked(m - 1 - n) = DescCount - 1 - d
  BY <1>2, <1>3, Remainder
<1> QED BY <1>4 DEF m, n

\* The descriptor after one of the ring is one of the ring.
LEMMA NextTyped == \A i \in DescIndexes : NextDesc(i) \in DescIndexes
BY Division, DescCountAssumption DEF NextDesc, DescIndexes

\* The first descriptor has the index 0.
LEMMA MaskedZero == Masked(0) = 0 /\ 0 \in DescIndexes
BY DescCountAssumption DEF Masked, DescIndexes

-----------------------------------------------------------------------------
(* Induction.                                                              *)

\* The order of the natural numbers is well-founded.
LEMMA NatOrder == IsWellFoundedOn({q \in Nat \X Nat : q[1] < q[2]}, Nat)
<1>1. {q \in Nat \X Nat : q[1] < q[2]} = OpToRel(<, Nat)
  BY DEF OpToRel
<1> QED
  BY <1>1, NatLessThanWellFounded

\* A set of natural numbers that is not empty has a least one.
LEMMA Least ==
  ASSUME NEW T \in SUBSET Nat, T # {}
  PROVE  \E m \in T : \A n \in T : m <= n
<1> DEFINE R == {q \in Nat \X Nat : q[1] < q[2]}
<1>1. IsWellFoundedOn(R, Nat)
  BY NatOrder
<1> HIDE DEF R
<1>2. PICK m \in T : \A n \in T : ~ (<<n, m>> \in R)
  BY <1>1, WFMin
<1>3. \A n \in T : m <= n
  <2> TAKE n \in T
  <2>1. n \in Nat /\ m \in Nat
    OBVIOUS
  <2>2. ~(<<n, m>> \in R)
    BY <1>2
  <2>3. ~(n < m)
    BY <2>1, <2>2 DEF R
  <2> QED
    BY <2>1, <2>3
<1> QED
  BY <1>3

\* Induction over the natural numbers, of a set instead of a predicate.
LEMMA Induct ==
  ASSUME NEW S \in SUBSET Nat, 0 \in S, \A n \in S : n + 1 \in S
  PROVE  S = Nat
<1>1. SUFFICES ASSUME Nat \ S # {} PROVE FALSE
  OBVIOUS
<1>2. PICK m \in Nat \ S : \A n \in Nat \ S : m <= n
  BY <1>1, Least
<1>3. m # 0 /\ m - 1 \in Nat /\ m - 1 \notin Nat \ S
  BY <1>2
<1> QED
  BY <1>2, <1>3

\* The recursive function Sums is what its definition says.
LEMMA SumsDefined ==
  ASSUME NEW a \in Seq(Nat)
  PROVE  /\ Sums(a) \in [0..Len(a) -> Nat] /\ Sums(a)[0] = 0
         /\ \A n \in 1..Len(a) : Sums(a)[n] = Sums(a)[n - 1] + a[n]
<1> DEFINE Is(s, m) == s = [n \in 0..m |-> IF n = 0 THEN 0 ELSE s[n - 1] + a[n]]
<1> DEFINE Good(s, m) == /\ s \in [0..m -> Nat] /\ s[0] = 0
                         /\ \A n \in 1..m : s[n] = s[n - 1] + a[n]
<1> DEFINE S == {m \in Nat : m <= Len(a) => \E s : Good(s, m)}
<1>1. 0 \in S
  <2>1. Good([n \in 0..0 |-> 0], 0)
    OBVIOUS
  <2> QED
    BY <2>1
<1>2. ASSUME NEW m \in S PROVE m + 1 \in S
  <2>0. m \in Nat /\ (m <= Len(a) => \E s : Good(s, m))
    OBVIOUS
  <2>9. m + 1 \in Nat
    BY <2>0
  <2>1. SUFFICES ASSUME m + 1 <= Len(a) PROVE \E s : Good(s, m + 1)
    BY <2>9
  <2>2. m \in Nat /\ Len(a) \in Nat /\ m <= Len(a)
    BY <2>1
  <2>3. PICK s : Good(s, m)
    BY <2>0, <2>2
  <2>4. a[m + 1] \in Nat
    BY <2>1, <2>2
  <2> DEFINE t == [n \in 0..m + 1 |-> IF n = m + 1 THEN s[m] + a[n] ELSE s[n]]
  <2>5. t \in [0..m + 1 -> Nat]
    BY <2>2, <2>3, <2>4
  <2>6. t[0] = 0
    BY <2>2, <2>3
  <2>7. ASSUME NEW n \in 1..m + 1 PROVE t[n] = t[n - 1] + a[n]
    BY <2>2, <2>3
  <2>8. Good(t, m + 1)
    BY <2>5, <2>6, <2>7
  <2> QED
    BY <2>8
<1>3. PICK s : Good(s, Len(a))
  <2>1. S = Nat
    BY <1>1, <1>2, Induct
  <2> QED
    BY <2>1, SMTT(40)
<1>4. Is(s, Len(a))
  BY <1>3
<1>5. Is(Sums(a), Len(a))
  BY <1>4 DEF Sums
<1>6. \A m \in 0..Len(a) : Sums(a)[m] = (IF m = 0 THEN 0 ELSE Sums(a)[m - 1] + a[m])
  BY <1>5
<1>7. Sums(a)[0] = 0 /\ \A m \in 1..Len(a) : Sums(a)[m] = Sums(a)[m - 1] + a[m]
  BY <1>6
<1>8. DOMAIN Sums(a) = 0..Len(a) /\ Sums(a) = [n \in 0..Len(a) |-> Sums(a)[n]]
  BY <1>5
<1> DEFINE V == {m \in Nat : m <= Len(a) => Sums(a)[m] \in Nat}
<1>9. V = Nat
  <2>1. 0 \in V
    BY <1>7
  <2>2. \A m \in V : m + 1 \in V
    <3>1. SUFFICES ASSUME NEW m \in V, m + 1 <= Len(a) PROVE Sums(a)[m + 1] \in Nat
      OBVIOUS
    <3>2. a[m + 1] \in Nat /\ Sums(a)[m] \in Nat
      BY <3>1
    <3>3. Sums(a)[m + 1] = Sums(a)[m] + a[m + 1]
      BY <3>1, <1>7
    <3> QED
      BY <3>2, <3>3
  <2> QED
    BY <2>1, <2>2, Induct
<1> QED
  BY <1>7, <1>8, <1>9

\* Induction over a range of integers.
LEMMA Climb ==
  ASSUME NEW k \in Int, NEW l \in Int, NEW S, k \in S, \A n \in k..(l - 1) : n \in S => n + 1 \in S
  PROVE  \A n \in k..l : n \in S
<1>1. SUFFICES ASSUME NEW n \in k..l, n \notin S PROVE FALSE
  OBVIOUS
<1> DEFINE T == {m \in Nat : k + m \in k..l /\ k + m \notin S}
<1>2. n - k \in T
  <2>1. n - k \in Nat /\ k + (n - k) = n
    OBVIOUS
  <2> QED
    BY <1>1, <2>1
<1>3. PICK m \in T : \A i \in T : m <= i
  BY <1>2, Least
<1>4. m \in Nat /\ m # 0 /\ k + m \in k..l /\ k + m \notin S /\ m - 1 \notin T
  BY <1>3
<1>5. m - 1 \in Nat /\ k + (m - 1) \in k..(l - 1) /\ k + (m - 1) + 1 = k + m
  BY <1>4
<1>6. k + (m - 1) \in S
  BY <1>4, <1>5
<1> QED
  BY <1>4, <1>5, <1>6

Joined(s, t) == s \o t

\* Joined sequences, without the arithmetic of their elements.
LEMMA JoinedProperties ==
  ASSUME NEW T, NEW s \in Seq(T), NEW t \in Seq(T)
  PROVE  Joined(s, t) \in Seq(T) /\ Len(Joined(s, t)) = Len(s) + Len(t)
BY DEF Joined

Piled(f, a, L, T) ==
  /\ f \in [1..L -> Seq(T)] /\ f[1] = a[1]
  /\ \A n \in 2..L : f[n] = Joined(f[n - 1], a[n])

\* Sequences piled one on the other, up to any length.
LEMMA Repeated ==
  ASSUME NEW T, NEW L \in Nat \ {0}, NEW a \in [1..L -> Seq(T)]
  PROVE  \E f : Piled(f, a, L, T)
<1> DEFINE Good(f, m) == /\ f \in [1..m -> Seq(T)] /\ f[1] = a[1]
                         /\ \A n \in 2..m : f[n] = Joined(f[n - 1], a[n])
           S == {m \in 1..L : \E f : Good(f, m)}
<1>1. 1 \in S
  <2>1. Good([i \in 1..1 |-> a[1]], 1)
    OBVIOUS
  <2> HIDE DEF Good
  <2> QED
    BY <2>1
<1>2. ASSUME NEW m \in 1..(L - 1), m \in S PROVE m + 1 \in S
  <2>2. PICK f : Good(f, m)
    <3> HIDE DEF Good
    <3> QED
      BY <1>2
  <2>3. a[m + 1] \in Seq(T) /\ f[m] \in Seq(T) /\ m + 1 \in 1..L
    BY <2>2
  <2> DEFINE c == Joined(f[m], a[m + 1])
             g == [n \in 1..m + 1 |-> IF n = m + 1 THEN c ELSE f[n]]
  <2>4. c \in Seq(T)
    BY <2>3, JoinedProperties
  <2>5. c = Joined(f[m], a[m + 1])
    OBVIOUS
  <2> HIDE DEF c
  <2>6. g \in [1..m + 1 -> Seq(T)]
    BY <2>2, <2>4
  <2>7. g[1] = a[1]
    BY <2>2
  <2>8. ASSUME NEW n \in 2..m + 1 PROVE g[n] = Joined(g[n - 1], a[n])
    <3>1. CASE n = m + 1
      <4>1. g[n] = c /\ g[n - 1] = f[m]
        BY <3>1
      <4> QED
        BY <3>1, <4>1, <2>5
    <3>2. CASE n \in 2..m
      <4>1. g[n] = f[n] /\ g[n - 1] = f[n - 1]
        BY <3>2
      <4>2. f[n] = Joined(f[n - 1], a[n])
        BY <3>2, <2>2
      <4> QED
        BY <4>1, <4>2
    <3> QED
      BY <3>1, <3>2
  <2>9. Good(g, m + 1)
    BY <2>6, <2>7, <2>8
  <2> HIDE DEF Good, g
  <2> QED
    BY <2>3, <2>9
<1>3. L \in S
  <2> HIDE DEF S
  <2>1. 1 \in Int /\ L \in Int
    OBVIOUS
  <2>2. \A n \in 1..(L - 1) : n \in S => n + 1 \in S
    BY <1>2
  <2>3. \A n \in 1..L : n \in S
    BY <1>1, <2>1, <2>2, Climb, Zenon
  <2> QED
    BY <2>3
<1>5. PICK f : Good(f, L)
  <2> HIDE DEF Good
  <2> QED
    BY <1>3
<1> QED
  BY <1>5 DEF Piled

\* FlattenSeq piles the sequences of a sequence.
LEMMA FlattenDefined ==
  ASSUME NEW T, NEW L \in Nat \ {0}, NEW a \in [1..L -> Seq(T)]
  PROVE  \E f : Piled(f, a, L, T) /\ FlattenSeq(a) = f[L]
<1>0. Len(a) = L
  OBVIOUS
<1> DEFINE Is(f) == f = [i \in 1..L |-> IF i = 1 THEN a[i] ELSE Joined(f[i - 1], a[i])]
<1>11. PICK f : Piled(f, a, L, T)
  BY Repeated
<1>1. f \in [1..L -> Seq(T)] /\ f[1] = a[1] /\ \A n \in 2..L : f[n] = Joined(f[n - 1], a[n])
  BY <1>11 DEF Piled
<1>2. Is(f)
  <2>1. ASSUME NEW i \in 1..L PROVE f[i] = (IF i = 1 THEN a[i] ELSE Joined(f[i - 1], a[i]))
    <3>1. i = 1 \/ i \in 2..L
      OBVIOUS
    <3> QED
      BY <1>1, <3>1
  <2> QED
    BY <1>1, <2>1
<1> DEFINE F == CHOOSE g : Is(g)
<1>3. FlattenSeq(a) = F[L]
  BY <1>0 DEF FlattenSeq, Joined
<1>4. Is(F)
  BY <1>2
<1> HIDE DEF F
<1>5. \A i \in 1..L : F[i] = (IF i = 1 THEN a[i] ELSE Joined(F[i - 1], a[i]))
  BY <1>4
<1> DEFINE S == {m \in 1..L : F[m] = f[m]}
<1>6. 1 \in S
  BY <1>1, <1>5
<1>7. ASSUME NEW m \in 1..(L - 1), m \in S PROVE m + 1 \in S
  <2>1. F[m] = f[m]
    BY <1>7
  <2>3. m + 1 \in 2..L /\ m + 1 # 1 /\ m + 1 - 1 = m /\ m + 1 \in 1..L
    OBVIOUS
  <2>4. F[m + 1] = Joined(F[m], a[m + 1])
    BY <2>3, <1>5
  <2>5. f[m + 1] = Joined(f[m], a[m + 1])
    BY <2>3, <1>1
  <2> QED
    BY <2>1, <2>3, <2>4, <2>5
<1>8. L \in S
  <2> HIDE DEF S
  <2>1. 1 \in Int /\ L \in Int
    OBVIOUS
  <2>2. \A n \in 1..(L - 1) : n \in S => n + 1 \in S
    BY <1>7
  <2>3. \A n \in 1..L : n \in S
    BY <1>6, <2>1, <2>2, Climb, Zenon
  <2> QED
    BY <2>3
<1>10. F[L] = f[L]
  BY <1>8
<1> QED
  BY <1>11, <1>3, <1>10

\* It is no longer than the bounds of those sequences together.
LEMMA FlattenBounded ==
  ASSUME NEW T, NEW L \in Nat \ {0}, NEW a \in [1..L -> Seq(T)],
         NEW b \in [1..L -> Nat], \A i \in 1..L : Len(a[i]) <= b[i],
         NEW j \in 1..L, a[j] # << >>
  PROVE  FlattenSeq(a) \in Seq(T) /\ Len(FlattenSeq(a)) \in 1..Sums(b)[L] /\ Sums(b)[L] \in Nat
<1>11. PICK f : Piled(f, a, L, T) /\ FlattenSeq(a) = f[L]
  BY FlattenDefined
<1>1. /\ f \in [1..L -> Seq(T)] /\ f[1] = a[1]
      /\ \A n \in 2..L : f[n] = Joined(f[n - 1], a[n])
  BY <1>11 DEF Piled
<1>0. b \in Seq(Nat) /\ Len(b) = L
  OBVIOUS
<1> DEFINE s == Sums(b)
<1>3. /\ s \in [0..L -> Nat] /\ s[0] = 0 /\ \A n \in 1..L : s[n] = s[n - 1] + b[n]
  BY <1>0, SumsDefined
<1> HIDE DEF s
<1> DEFINE S == {m \in 1..L : Len(f[m]) <= s[m] /\ (j <= m => Len(f[m]) >= 1)}
<1>4. 1 \in S
  <2>1. s[1] = b[1] /\ f[1] = a[1] /\ a[1] \in Seq(T) /\ Len(a[1]) <= b[1]
    BY <1>1, <1>3
  <2>2. j <= 1 => j = 1
    OBVIOUS
  <2> QED
    BY <2>1, <2>2
<1>5. ASSUME NEW m \in 1..(L - 1), m \in S PROVE m + 1 \in S
  <2>2. Len(f[m]) <= s[m] /\ (j <= m => Len(f[m]) >= 1)
    BY <1>5
  <2>3. m + 1 \in 2..L /\ m + 1 \in 1..L /\ m \in 1..L /\ m \in 0..L /\ m + 1 - 1 = m
    OBVIOUS
  <2>4. f[m + 1] = Joined(f[m], a[m + 1])
    BY <2>3, <1>1
  <2>5. s[m + 1] = s[m] + b[m + 1]
    BY <2>3, <1>3
  <2>6. a[m + 1] \in Seq(T) /\ f[m] \in Seq(T) /\ b[m + 1] \in Nat /\ s[m] \in Nat
    BY <2>3, <1>1, <1>3
  <2>7. Len(a[m + 1]) <= b[m + 1]
    BY <2>3
  <2>8. Len(f[m + 1]) = Len(f[m]) + Len(a[m + 1])
    BY <2>4, <2>6, JoinedProperties
  <2>12. Len(f[m]) \in Nat /\ Len(a[m + 1]) \in Nat
    BY <2>6, SMTT(40)
  <2>9. j = m + 1 => Len(a[m + 1]) >= 1
    BY <2>6
  <2> DEFINE x == Len(f[m])
             y == Len(a[m + 1])
             z == Len(f[m + 1])
  <2>13. x \in Nat /\ y \in Nat /\ z = x + y /\ x <= s[m] /\ y <= b[m + 1]
         /\ (j <= m => x >= 1) /\ (j = m + 1 => y >= 1)
    BY <2>2, <2>7, <2>8, <2>9, <2>12
  <2> HIDE DEF x, y, z
  <2>10. j <= m + 1 => z >= 1
    BY <2>13
  <2>11. z <= s[m + 1]
    <3> DEFINE u == s[m]
               v == b[m + 1]
               w == s[m + 1]
    <3>1. u \in Nat /\ v \in Nat /\ w = u + v /\ x <= u /\ y <= v
      BY <2>5, <2>6, <2>13
    <3> HIDE DEF u, v, w
    <3>2. z <= w
      BY <3>1, <2>13
    <3> QED
      BY <3>2 DEF w
  <2> QED
    BY <2>3, <2>10, <2>11 DEF z
<1>6. L \in S
  <2> HIDE DEF S
  <2>1. 1 \in Int /\ L \in Int
    OBVIOUS
  <2>2. \A n \in 1..(L - 1) : n \in S => n + 1 \in S
    BY <1>5
  <2>3. \A n \in 1..L : n \in S
    BY <1>4, <2>1, <2>2, Climb, Zenon
  <2> QED
    BY <2>3
<1>8. Len(f[L]) <= s[L] /\ Len(f[L]) >= 1 /\ f[L] \in Seq(T) /\ s[L] \in Nat
  BY <1>1, <1>3, <1>6
<1> QED
  BY <1>11, <1>8 DEF s
\* Division rounded up keeps the order, and is 0 only of 0.
LEMMA CeilDivProperties ==
  ASSUME NEW x \in Nat, NEW y \in Nat, x <= y, NEW b \in Nat \ {0}
  PROVE  /\ CeilDiv(x, b) \in Nat /\ CeilDiv(y, b) \in Nat
         /\ CeilDiv(x, b) <= CeilDiv(y, b)
         /\ x > 0 => CeilDiv(x, b) > 0
<1> DEFINE u == x + b - 1
           v == y + b - 1
           q == u \div b
           r == v \div b
<1>1. u \in Nat /\ v \in Nat /\ u <= v /\ (x > 0 => u >= b)
  OBVIOUS
<1>2. /\ q \in Int /\ r \in Int
      /\ u = b * q + (u % b) /\ v = b * r + (v % b) /\ u % b \in 0..(b - 1) /\ v % b \in 0..(b - 1)
  BY <1>1
<1> HIDE DEF u, v, q, r
<1> DEFINE m == u % b
           n == v % b
<1>3. m \in 0..(b - 1) /\ n \in 0..(b - 1) /\ u = b * q + m /\ v = b * r + n
  BY <1>2
<1> HIDE DEF m, n
<1>4. \A k, l \in Int : k < l => b * k + b <= b * l
  OBVIOUS
<1>5. ~(r < q)
  BY <1>1, <1>2, <1>3, <1>4
<1>6. ~(q < 0) /\ ~(r < 0)
  <2>1. b * 0 = 0
    OBVIOUS
  <2> QED
    BY <1>1, <1>2, <1>3, <1>4, <2>1
<1>7. x > 0 => q # 0
  <2>1. b * 0 = 0
    OBVIOUS
  <2> QED
    BY <1>1, <1>2, <1>3, <2>1
<1> QED
  BY <1>2, <1>5, <1>6, <1>7 DEF CeilDiv, q, r, u, v

-----------------------------------------------------------------------------
(* What a packet needs.                                                    *)

\* A sum of ones is a count.
LEMMA SumOfOnes ==
  ASSUME NEW L \in Nat
  PROVE  Sums([i \in 1..L |-> 1])[L] = L
<1> DEFINE b == [i \in 1..L |-> 1]
           s == Sums(b)
           S == {m \in 0..L : s[m] = m}
<1>1. b \in Seq(Nat) /\ Len(b) = L /\ \A i \in 1..L : b[i] = 1
  OBVIOUS
<1> HIDE DEF b
<1>2. s[0] = 0 /\ \A n \in 1..L : s[n] = s[n - 1] + b[n]
  BY <1>1, SumsDefined
<1> HIDE DEF s
<1>3. 0 \in S
  BY <1>2
<1>4. ASSUME NEW n \in 0..(L - 1), n \in S PROVE n + 1 \in S
  BY <1>1, <1>2, <1>4
<1>5. \A n \in 0..L : n \in S
  <2>1. 0 \in Int /\ L \in Int
    OBVIOUS
  <2>2. \A n \in 0..(L - 1) : n \in S => n + 1 \in S
    BY <1>4
  <2> HIDE DEF S
  <2> QED
    BY <1>3, <2>1, <2>2, Climb, Zenon
<1>6. s[L] = L
  BY <1>5
<1> QED
  BY <1>6 DEF s, b

\* A packet that the driver may queue: its headers end inside a fragment.
Queueable(p) ==
  /\ p \in Packets /\ p.lens # << >> /\ p.header <= p.lens[1]
  /\ Len(p.lens) > 1 \/ p.header < p.lens[1]

FragsOf(p) == {f \in Nat : f >= p.frag}

\* A packet's fragments are cut into no more data descriptors than
\* UserDescriptorsNeeded says, and into at least one.
LEMMA DataFragmentsBounded ==
  ASSUME NEW p, Queueable(p)
  PROVE  /\ DataFragments(p) \in Seq(FragsOf(p)) /\ Len(DataFragments(p)) \in 1..UserDescriptorsNeeded(p)
         /\ UserDescriptorsNeeded(p) \in Nat
<1> DEFINE L == FragmentCount(p)
           n(i) == BufferCount(p, i)
           a == [i \in 1..L |-> [j \in 1..n(i) |-> p.frag + i - 1]]
<1>1. L \in Nat \ {0} /\ p.frag \in Nat /\ p.mss \in Nat /\ p.header \in Nat
      /\ \A i \in 1..L : p.lens[i] \in Nat \ {0}
  BY DEF Queueable, Packets, FragmentCount
<1>2. p.header <= p.lens[1] /\ (L > 1 \/ p.header < p.lens[1])
  BY DEF Queueable, FragmentCount
<1>3. DataFragments(p) = FlattenSeq(a)
  BY DEF DataFragments
<1> HIDE DEF L
<1>4. ASSUME \A i \in 1..L : n(i) \in Nat
      PROVE  /\ a \in [1..L -> Seq(FragsOf(p))]
             /\ \A i \in 1..L : Len(a[i]) = n(i) /\ (n(i) # 0 => a[i] # << >>)
  <2> SUFFICES ASSUME NEW i \in 1..L
               PROVE  /\ [j \in 1..n(i) |-> p.frag + i - 1] \in Seq(FragsOf(p))
                      /\ Len([j \in 1..n(i) |-> p.frag + i - 1]) = n(i)
                      /\ n(i) # 0 => [j \in 1..n(i) |-> p.frag + i - 1] # << >>
    OBVIOUS
  <2>1. n(i) \in Nat /\ p.frag + i - 1 \in FragsOf(p)
    BY <1>1, <1>4 DEF FragsOf
  <2> HIDE DEF n
  <2>2. [j \in 1..n(i) |-> p.frag + i - 1] \in [1..n(i) -> FragsOf(p)]
    BY <2>1
  <2> QED
    BY <2>1, <2>2
<1>5. CASE ~IsGso(p)
  <2> DEFINE b == [i \in 1..L |-> 1]
  <2>1. \A i \in 1..L : n(i) = 1
    BY <1>5 DEF BufferCount
  <2>2. a \in [1..L -> Seq(FragsOf(p))] /\ \A i \in 1..L : Len(a[i]) = 1 /\ a[i] # << >>
    BY <1>4, <2>1
  <2> HIDE DEF a
  <2>3. b \in [1..L -> Nat] /\ (\A i \in 1..L : Len(a[i]) <= b[i]) /\ 1 \in 1..L /\ a[1] # << >>
    <3>1. \A i \in 1..L : b[i] = 1 /\ b[i] \in Nat
      OBVIOUS
    <3>2. b \in [1..L -> Nat]
      OBVIOUS
    <3> HIDE DEF b
    <3>3. ASSUME NEW i \in 1..L PROVE Len(a[i]) <= b[i]
      <4>1. Len(a[i]) = 1
        BY <2>2
      <4>2. b[i] = 1
        BY <3>1
      <4> QED
        BY <4>1, <4>2
    <3> QED
      BY <1>1, <2>2, <3>2, <3>3
  <2>4. Sums(b)[L] = L
    BY <1>1, SumOfOnes
  <2> HIDE DEF b
  <2>5. FlattenSeq(a) \in Seq(FragsOf(p)) /\ Len(FlattenSeq(a)) \in 1..Sums(b)[L] /\ Sums(b)[L] \in Nat
    BY <1>1, <2>2, <2>3, FlattenBounded, ZenonT(40)
  <2> QED
    BY <1>3, <1>5, <2>4, <2>5 DEF UserDescriptorsNeeded, L
<1>6. CASE IsGso(p)
  <2> DEFINE c(i) == CeilDiv(p.lens[i], DescLengthMax)
             b == [i \in 1..L |-> c(i)]
             h(i) == IF i = 1 THEN p.header ELSE 0
  <2>1. ASSUME NEW i \in 1..L
        PROVE  c(i) \in Nat /\ n(i) \in Nat /\ n(i) <= c(i) /\ (p.lens[i] > h(i) => n(i) # 0)
    <3> DEFINE x == p.lens[i] - h(i)
               y == p.lens[i]
    <3>1. x \in Nat /\ y \in Nat /\ x <= y /\ (y > h(i) => x > 0) /\ DescLengthMax \in Nat \ {0}
      BY <1>1, <1>2, BoundsAssumption
    <3>2. n(i) = CeilDiv(x, DescLengthMax)
      BY <1>6 DEF BufferCount
    <3> HIDE DEF x, n
    <3>3. /\ CeilDiv(x, DescLengthMax) \in Nat /\ CeilDiv(y, DescLengthMax) \in Nat
          /\ CeilDiv(x, DescLengthMax) <= CeilDiv(y, DescLengthMax)
          /\ x > 0 => CeilDiv(x, DescLengthMax) > 0
      BY <3>1, CeilDivProperties
    <3> QED
      BY <3>1, <3>2, <3>3
  <2>2. PICK j \in 1..L : p.lens[j] > h(j)
    <3>1. CASE L > 1
      <4>1. 2 \in 1..L /\ p.lens[2] > h(2)
        BY <1>1, <3>1
      <4> QED
        BY <4>1
    <3>2. CASE p.header < p.lens[1]
      <4>1. 1 \in 1..L /\ p.lens[1] > h(1)
        BY <1>1, <3>2
      <4> QED
        BY <4>1
    <3> QED
      BY <1>2, <3>1, <3>2
  <2> HIDE DEF n, c, h
  <2>3. /\ a \in [1..L -> Seq(FragsOf(p))]
        /\ \A i \in 1..L : Len(a[i]) = n(i) /\ (n(i) # 0 => a[i] # << >>)
    BY <1>4, <2>1
  <2> HIDE DEF a
  <2>4. b \in [1..L -> Nat] /\ (\A i \in 1..L : Len(a[i]) <= b[i]) /\ a[j] # << >>
    <3>1. \A i \in 1..L : b[i] = c(i)
      OBVIOUS
    <3>2. b \in [1..L -> Nat]
      BY <2>1
    <3>3. a[j] # << >>
      BY <2>1, <2>2, <2>3
    <3> HIDE DEF b
    <3> QED
      BY <2>1, <2>3, <3>1, <3>2, <3>3
  <2>5. UserDescriptorsNeeded(p) = Sums(b)[L]
    BY <1>6 DEF UserDescriptorsNeeded, L, c
  <2> HIDE DEF b
  <2>6. FlattenSeq(a) \in Seq(FragsOf(p)) /\ Len(FlattenSeq(a)) \in 1..Sums(b)[L] /\ Sums(b)[L] \in Nat
    BY <1>1, <2>2, <2>3, <2>4, FlattenBounded
  <2> QED
    BY <1>3, <2>5, <2>6
<1> QED
  BY <1>5, <1>6

-----------------------------------------------------------------------------
(* The descriptors of a packet.                                            *)

\* What the driver's cache spares a packet.
Spared(o, p) == Offload(o, p) = 0 \/ Offload(o, p) = Cached(o)

\* The descriptors of a packet, as the engine is to find them.
MemberOK(d, n, j, k, p) ==
  /\ d[j].own /\ d[j].pkt = k /\ d[j].frag >= p.frag
  /\ d[j].last <=> j = n
  /\ d[j].ctx => /\ j = 1 /\ ~d[j].first /\ ~d[j].last
                 /\ \A o \in Offloads :
                      IF Valid(o, d[j]) THEN Given(o, d[j]) = Offload(o, p) /\ Offload(o, p) # 0
                                        ELSE Spared(o, p)
  /\ d[j].first => (d[j].insert <=> VlanTag(p) # 0) /\ (d[j].gso <=> p.mss # 0)

ShapeOK(d, n, k, p) ==
  /\ \A j \in 1..n : d[j] \in Descs /\ MemberOK(d, n, j, k, p)
  /\ (d[1].ctx \/ d[1].first) /\ (~d[1].ctx => \A o \in Offloads : Spared(o, p))
  /\ \A j \in 1..(n - 1) : d[j + 1].first <=> d[j].ctx

\* The data descriptors of a packet.
LEMMA DataDescsOK ==
  ASSUME NEW p, Queueable(p), NEW k \in Nat, NEW j \in 1..Len(DataFragments(p))
  PROVE  LET d == DataDescs(k, p)[j] IN
         /\ d \in Descs /\ d.own /\ d.pkt = k /\ d.frag >= p.frag /\ ~d.ctx
         /\ d.last <=> j = Len(DataFragments(p))
         /\ d.first <=> ~IsGso(p) /\ j = 1
         /\ d.insert <=> VlanTag(p) # 0
         /\ ~d.gso
<1>1. DataFragments(p)[j] \in Nat /\ DataFragments(p)[j] >= p.frag
  <2>1. DataFragments(p)[j] \in FragsOf(p)
    BY DataFragmentsBounded
  <2> QED
    BY <2>1 DEF FragsOf
<1> DEFINE f == DataFragments(p)[j]
           n == Len(DataFragments(p))
           t == VlanTag(p)
<1>2. DataDescs(k, p)[j] = [DescFor(k, f) EXCEPT !.first = ~IsGso(p) /\ j = 1, !.last = (j = n), !.insert = t # 0]
  BY DEF DataDescs
<1>3. f \in Nat /\ f >= p.frag /\ 0 \in Tags
  BY <1>1 DEF Tags
<1> HIDE DEF f, n, t
<1> DEFINE d == [own |-> TRUE, ctx |-> FALSE, first |-> (~IsGso(p) /\ j = 1), last |-> (j = n),
          gso |-> FALSE, insert |-> (t # 0), tag |-> 0, tagValid |-> FALSE,
          mss |-> 0, mssValid |-> FALSE, pkt |-> k, frag |-> f]
<1>4. DataDescs(k, p)[j] = d
  BY <1>2, ZenonT(40) DEF DescFor, Blank
<1>5. /\ d \in Descs /\ d.own /\ d.pkt = k /\ d.frag >= p.frag /\ ~d.ctx
      /\ d.last <=> j = n
      /\ d.first <=> ~IsGso(p) /\ j = 1
      /\ d.insert <=> t # 0
      /\ ~d.gso
  BY <1>3 DEF Descs, IsGso
<1> HIDE DEF d
<1> QED
  BY <1>4, <1>5 DEF n, t

\* A sequence with one element put before it.
LEMMA AfterOne ==
  ASSUME NEW T, NEW s \in Seq(T), NEW t \in Seq(T), Len(s) = 1
  PROVE  /\ s \o t \in Seq(T) /\ Len(s \o t) = Len(t) + 1 /\ (s \o t)[1] = s[1]
         /\ \A j \in 1..Len(t) : (s \o t)[j + 1] = t[j]
<1> DEFINE u == s \o t
<1>1. /\ u \in Seq(T) /\ Len(u) = Len(s) + Len(t)
      /\ \A i \in 1..(Len(s) + Len(t)) : u[i] = IF i <= Len(s) THEN s[i] ELSE t[i - Len(s)]
  BY ConcatProperties
<1>2. Len(t) \in Nat
  OBVIOUS
<1> HIDE DEF u
<1>3. ASSUME NEW j \in 1..Len(t) PROVE u[j + 1] = t[j]
  BY <1>1
<1> QED
  BY <1>1, <1>2, <1>3 DEF u

\* A sequence with nothing put before it.
LEMMA AfterNone ==
  ASSUME NEW T, NEW t \in Seq(T)
  PROVE  << >> \o t = t
OBVIOUS

\* The descriptor of a segmented packet's headers.
LEMMA HeaderDescOK ==
  ASSUME NEW p, Queueable(p), NEW k \in Nat, IsGso(p)
  PROVE  /\ Len(HeaderDescs(k, p)) = 1
         /\ LET d == HeaderDescs(k, p)[1] IN
            /\ d \in Descs /\ d.own /\ d.pkt = k /\ d.frag >= p.frag /\ ~d.ctx
            /\ ~d.last /\ d.first /\ d.gso
            /\ d.insert <=> VlanTag(p) # 0
<1> DEFINE t == VlanTag(p)
           f == p.frag
           d == [DescFor(k, f) EXCEPT !.first = TRUE, !.gso = TRUE, !.insert = t # 0]
<1>1. HeaderDescs(k, p) = << d >>
  BY Zenon DEF HeaderDescs
<1>2. f \in Nat /\ 0 \in Tags
  BY DEF Queueable, Packets, Tags
<1> HIDE DEF t, f
<1>4. d.own /\ d.pkt = k /\ d.frag >= f /\ ~d.ctx
  BY <1>2 DEF DescFor, Blank
<1>5. ~d.last /\ d.first /\ d.gso /\ (d.insert <=> t # 0)
  BY <1>2 DEF DescFor, Blank
<1>6. d \in Descs
  BY <1>2 DEF Descs, DescFor, Blank
<1>3. /\ d \in Descs /\ d.own /\ d.pkt = k /\ d.frag >= f /\ ~d.ctx
      /\ ~d.last /\ d.first /\ d.gso
      /\ d.insert <=> t # 0
  <2> HIDE DEF d
  <2> QED
    BY <1>4, <1>5, <1>6
<1> HIDE DEF d
<1> QED
  BY <1>1, <1>3 DEF t, f

\* The context descriptor: it sets the offloads that the cache does not spare.
LEMMA ContextDescOK ==
  ASSUME NEW p, Queueable(p), NEW k \in Nat, ContextCount(p) # 0
  PROVE  /\ Len(ContextDescs(k, p)) = 1
         /\ LET d == ContextDescs(k, p)[1] IN
            /\ d \in Descs /\ d.own /\ d.pkt = k /\ d.frag >= p.frag /\ d.ctx
            /\ ~d.last /\ ~d.first
            /\ \A o \in Offloads :
                 IF Valid(o, d) THEN Given(o, d) = Offload(o, p) /\ Offload(o, p) # 0
                                ELSE Spared(o, p)
<1> DEFINE t == VlanTag(p)
           f == p.frag
           m == p.mss
           g == IsGso(p)
           v == ContextTagNeeded(p, lastVlanTag)
           d == [DescFor(k, f) EXCEPT !.ctx = TRUE, !.tag = t, !.mss = m, !.tagValid = v, !.mssValid = g]
<1>1. ContextDescs(k, p) = << d >>
  BY Zenon DEF ContextDescs
<1>2. f \in Nat /\ t \in Tags /\ m \in Nat
  BY DEF Queueable, Packets, Tags
<1>3. /\ v \in BOOLEAN /\ (v <=> t # 0 /\ t # lastVlanTag)
      /\ g \in BOOLEAN /\ (g <=> m # 0)
  BY DEF ContextTagNeeded, IsGso
<1> HIDE DEF t, v, f, m, g
<1>6. d.own /\ d.pkt = k /\ d.frag >= f /\ d.ctx
  BY <1>2, <1>3 DEF DescFor, Blank
<1>7. ~d.last /\ ~d.first /\ d.tag = t /\ (d.tagValid <=> v)
  BY <1>2, <1>3 DEF DescFor, Blank
<1>8. d.mss = m /\ (d.mssValid <=> m # 0)
  BY <1>2, <1>3 DEF DescFor, Blank
<1>9. d \in Descs
  BY <1>2, <1>3 DEF Descs, DescFor, Blank
<1>4. /\ d \in Descs /\ d.own /\ d.pkt = k /\ d.frag >= f /\ d.ctx
      /\ ~d.last /\ ~d.first
      /\ d.tag = t /\ (d.tagValid <=> v) /\ d.mss = m /\ (d.mssValid <=> m # 0)
  <2> HIDE DEF d
  <2> QED
    BY <1>6, <1>7, <1>8, <1>9
<1> HIDE DEF d
<1>5. ASSUME NEW o \in Offloads
      PROVE  IF Valid(o, d) THEN Given(o, d) = Offload(o, p) /\ Offload(o, p) # 0 ELSE Spared(o, p)
  <2>1. CASE o = "tag"
    BY <1>3, <1>4, <2>1 DEF Valid, Given, Offload, Spared, Cached, t
  <2>2. CASE o = "mss"
    BY <1>4, <2>2 DEF Valid, Given, Offload, Spared, Cached, m
  <2> QED
    BY <2>1, <2>2 DEF Offloads
<1> QED
  BY <1>1, <1>4, <1>5 DEF f

\* The descriptors that the driver writes for a packet.
LEMMA PacketShape ==
  ASSUME NEW p, Queueable(p), NEW k \in Nat, lastMss \in Nat
  PROVE  LET d == PacketDescs(k, p)
             n == Len(d) IN
         /\ n \in 1..(UserDescriptorsNeeded(p) + ContextCount(p) + HeaderCount(p))
         /\ ShapeOK(d, n, k, p)
<1> DEFINE C == ContextDescs(k, p)
           H == HeaderDescs(k, p)
           D == DataDescs(k, p)
           m == Len(DataFragments(p))
           c == ContextCount(p)
           h == HeaderCount(p)
           d == PacketDescs(k, p)
           n == Len(d)
<1>1. /\ D \in Seq(Descs) /\ Len(D) = m /\ m \in Nat \ {0} /\ m <= UserDescriptorsNeeded(p)
      /\ UserDescriptorsNeeded(p) \in Nat
  <2>1. /\ DataFragments(p) \in Seq(FragsOf(p)) /\ Len(DataFragments(p)) \in 1..UserDescriptorsNeeded(p)
        /\ UserDescriptorsNeeded(p) \in Nat
    BY DataFragmentsBounded
  <2>2. m \in Nat \ {0} /\ m <= UserDescriptorsNeeded(p)
    BY <2>1
  <2>3. DOMAIN D = 1..m /\ D = [j \in 1..m |-> D[j]]
    BY DEF DataDescs
  <2>4. \A j \in 1..m : D[j] \in Descs
    BY DataDescsOK
  <2> HIDE DEF D, m
  <2>5. D \in [1..m -> Descs]
    BY <2>3, <2>4
  <2> QED
    BY <2>1, <2>2, <2>5
<1>2. ASSUME NEW j \in 1..m
      PROVE  /\ D[j] \in Descs /\ D[j].own /\ D[j].pkt = k /\ D[j].frag >= p.frag /\ ~D[j].ctx
             /\ D[j].last <=> j = m
             /\ D[j].first <=> h = 0 /\ j = 1
             /\ D[j].insert <=> VlanTag(p) # 0
             /\ ~D[j].gso /\ (h = 0 <=> p.mss = 0)
  <2>1. h = 0 <=> ~IsGso(p)
    BY DEF HeaderCount
  <2> HIDE DEF D, m, h
  <2> QED
    BY <2>1, DataDescsOK DEF D, m, IsGso
<1>3. /\ h \in {0, 1}
      /\ h = 0 => H = << >>
      /\ h = 1 => /\ H \in Seq(Descs) /\ Len(H) = 1
                  /\ H[1] \in Descs /\ H[1].own /\ H[1].pkt = k /\ H[1].frag >= p.frag /\ ~H[1].ctx
                  /\ ~H[1].last /\ H[1].first /\ H[1].gso /\ p.mss # 0
                  /\ H[1].insert <=> VlanTag(p) # 0
  <2>1. CASE IsGso(p)
    <3>1. h = 1 /\ p.mss # 0
      BY <2>1 DEF HeaderCount, IsGso
    <3>2. \E x : H = << x >>
      BY <2>1, Zenon DEF HeaderDescs
    <3>3. /\ Len(H) = 1
          /\ H[1] \in Descs /\ H[1].own /\ H[1].pkt = k /\ H[1].frag >= p.frag /\ ~H[1].ctx
          /\ ~H[1].last /\ H[1].first /\ H[1].gso
          /\ H[1].insert <=> VlanTag(p) # 0
      BY <2>1, HeaderDescOK
    <3> HIDE DEF H, h
    <3>4. H \in Seq(Descs)
      BY <3>2, <3>3
    <3> QED
      BY <3>1, <3>3, <3>4
  <2>2. CASE ~IsGso(p)
    BY <2>2 DEF HeaderCount, HeaderDescs
  <2> QED
    BY <2>1, <2>2
<1>4. /\ c \in {0, 1}
      /\ c = 0 => C = << >> /\ \A o \in Offloads : Spared(o, p)
      /\ c = 1 => /\ C \in Seq(Descs) /\ Len(C) = 1
                  /\ C[1] \in Descs /\ C[1].own /\ C[1].pkt = k /\ C[1].frag >= p.frag /\ C[1].ctx
                  /\ ~C[1].last /\ ~C[1].first
                  /\ \A o \in Offloads :
                       IF Valid(o, C[1]) THEN Given(o, C[1]) = Offload(o, p) /\ Offload(o, p) # 0
                                         ELSE Spared(o, p)
  <2>1. CASE c # 0
    <3>1. c = 1
      BY <2>1 DEF ContextCount
    <3>2. \E x : C = << x >>
      BY <2>1, Zenon DEF ContextDescs
    <3>3. /\ Len(C) = 1
          /\ C[1] \in Descs /\ C[1].own /\ C[1].pkt = k /\ C[1].frag >= p.frag /\ C[1].ctx
          /\ ~C[1].last /\ ~C[1].first
          /\ \A o \in Offloads :
               IF Valid(o, C[1]) THEN Given(o, C[1]) = Offload(o, p) /\ Offload(o, p) # 0
                                 ELSE Spared(o, p)
      BY <2>1, ContextDescOK
    <3> HIDE DEF C, c
    <3>4. C \in Seq(Descs)
      BY <3>2, <3>3
    <3> QED
      BY <3>1, <3>3, <3>4
  <2>2. CASE c = 0
    <3>1. C = << >>
      BY <2>2 DEF ContextDescs
    <3>2. ~ContextTagNeeded(p, lastVlanTag) /\ ~ContextMssNeeded(p, lastMss)
      BY <2>2 DEF ContextCount
    <3>3. Spared("tag", p) /\ Spared("mss", p)
      BY <3>2 DEF Spared, Offload, Cached, ContextTagNeeded, ContextMssNeeded, IsGso
    <3> QED
      BY <2>2, <3>1, <3>3 DEF Offloads
  <2> QED
    BY <2>1, <2>2
<1>5. d = C \o H \o D
  BY DEF PacketDescs
<1> HIDE DEF C, H, D, m, c, h, d
<1> DEFINE e == H \o D
           q == h + m
<1>6. e \in Seq(Descs) /\ Len(e) = q /\ q \in Nat \ {0}
  <2>1. CASE h = 0
    <3>1. e = D
      BY <2>1, <1>1, <1>3, AfterNone
    <3> HIDE DEF e
    <3> QED
      BY <2>1, <3>1, <1>1
  <2>2. CASE h = 1
    <3>1. e \in Seq(Descs) /\ Len(e) = m + 1
      BY <2>2, <1>1, <1>3, AfterOne
    <3> HIDE DEF e
    <3> QED
      BY <2>2, <3>1, <1>1
  <2> QED
    BY <2>1, <2>2, <1>3
<1>7. ASSUME NEW j \in 1..q
      PROVE  /\ e[j] \in Descs /\ e[j].own /\ e[j].pkt = k /\ e[j].frag >= p.frag /\ ~e[j].ctx
             /\ e[j].last <=> j = q
             /\ e[j].first <=> j = 1
             /\ e[j].first => (e[j].insert <=> VlanTag(p) # 0) /\ (e[j].gso <=> p.mss # 0)
  <2>1. CASE h = 0
    <3>2. e = D
      BY <2>1, <1>1, <1>3, AfterNone
    <3>3. q = m
      BY <2>1, <1>1
    <3> HIDE DEF e, q
    <3> QED
      BY <2>1, <3>2, <3>3, <1>2
  <2>2. CASE h = 1 /\ j = 1
    <3>1. e[1] = H[1]
      BY <2>2, <1>1, <1>3, AfterOne
    <3>2. q > 1
      BY <2>2, <1>1
    <3> HIDE DEF e, q
    <3> QED
      BY <2>2, <3>1, <3>2, <1>3
  <2>3. CASE h = 1 /\ j # 1
    <3>1. j - 1 \in 1..m
      BY <2>3, <1>1
    <3>4. \A i \in 1..m : e[i + 1] = D[i]
      BY <2>3, <1>1, <1>3, AfterOne
    <3>5. j - 1 + 1 = j
      BY <3>1
    <3>2. e[j] = D[j - 1]
      BY <3>1, <3>4, <3>5
    <3>3. j = q <=> j - 1 = m
      BY <2>3, <1>1
    <3> HIDE DEF e, q
    <3> QED
      BY <2>3, <3>1, <3>2, <3>3, <1>2
  <2> QED
    BY <2>1, <2>2, <2>3, <1>3
<1>8. d = C \o e
  <2>1. CASE c = 0
    BY <2>1, <1>1, <1>3, <1>4, <1>5
  <2>2. CASE c = 1
    BY <2>2, <1>1, <1>3, <1>4, <1>5
  <2> QED
    BY <2>1, <2>2, <1>4
<1>9. q \in 1..(UserDescriptorsNeeded(p) + h)
  BY <1>1, <1>3
<1> HIDE DEF e, q
<1>10. CASE c = 0
  <2>1. d = e /\ n = q
    <3>1. d = e
      BY <1>4, <1>6, <1>8, <1>10, AfterNone
    <3> QED
      BY <3>1, <1>6
  <2>2. n \in 1..(UserDescriptorsNeeded(p) + c + h)
    BY <1>1, <1>3, <1>9, <1>10, <2>1
  <2>3. \A j \in 1..q : d[j] \in Descs /\ MemberOK(d, q, j, k, p)
    BY <1>7, <2>1 DEF MemberOK
  <2>4. (d[1].ctx \/ d[1].first) /\ (~d[1].ctx => \A o \in Offloads : Spared(o, p))
    BY <1>4, <1>6, <1>7, <1>10, <2>1
  <2>5. ASSUME NEW j \in 1..(q - 1) PROVE d[j + 1].first <=> d[j].ctx
    <3>1. j \in 1..q /\ j + 1 \in 1..q /\ j + 1 # 1
      BY <1>6
    <3> QED
      BY <3>1, <1>7, <2>1
  <2> QED
    BY <2>1, <2>2, <2>3, <2>4, <2>5 DEF ShapeOK, d, c, h
<1>11. CASE c = 1
  <2>1. n = q + 1 /\ d[1] = C[1] /\ \A j \in 1..q : d[j + 1] = e[j]
    <3>1. Len(C \o e) = Len(e) + 1 /\ (C \o e)[1] = C[1] /\ \A j \in 1..Len(e) : (C \o e)[j + 1] = e[j]
      BY <1>4, <1>6, <1>11, AfterOne
    <3> QED
      BY <3>1, <1>6, <1>8
  <2>2. n \in 1..(UserDescriptorsNeeded(p) + c + h)
    BY <1>1, <1>3, <1>9, <1>11, <2>1
  <2> HIDE DEF n
  <2>3. ASSUME NEW j \in 1..n PROVE d[j] \in Descs /\ MemberOK(d, n, j, k, p)
    <3>1. CASE j = 1
      <4>1. 1 # n
        BY <1>6, <2>1
      <4> QED
        BY <3>1, <4>1, <2>1, <1>4, <1>11 DEF MemberOK
    <3>2. CASE j # 1
      <4>1. j - 1 \in 1..q /\ j - 1 + 1 = j /\ (j = n <=> j - 1 = q)
        BY <3>2, <1>6, <2>1
      <4>2. d[j] = e[j - 1]
        BY <4>1, <2>1
      <4> QED
        BY <3>2, <4>1, <4>2, <1>7 DEF MemberOK
    <3> QED
      BY <3>1, <3>2
  <2>4. d[1].ctx
    BY <2>1, <1>4, <1>11
  <2>5. ASSUME NEW j \in 1..(n - 1) PROVE d[j + 1].first <=> d[j].ctx
    <3>1. j \in 1..q /\ d[j + 1] = e[j]
      BY <1>6, <2>1
    <3>2. CASE j = 1
      BY <3>1, <3>2, <1>7, <2>4
    <3>3. CASE j # 1
      <4>1. j - 1 \in 1..q /\ j - 1 + 1 = j
        BY <3>1, <3>3, <1>6
      <4>2. d[j] = e[j - 1]
        BY <4>1, <2>1
      <4> QED
        BY <3>1, <3>3, <4>1, <4>2, <1>7
    <3> QED
      BY <3>2, <3>3
  <2> QED
    BY <2>2, <2>3, <2>4, <2>5 DEF ShapeOK, d, c, h, n
<1> QED
  BY <1>4, <1>10, <1>11

-----------------------------------------------------------------------------
(* Which offload a packet finds.                                           *)

Unused(o, i, j) == \A k \in i..(j - 1) : ~Uses(o, k)

\* Packets that are ignored use no offload.
LEMMA SkippedUnused ==
  ASSUME NEW i \in Int, NEW j \in Int, Skipped(i, j), NEW o
  PROVE  Unused(o, i, j)
BY DEF Skipped, Unused, Uses

\* At most one packet is the last to have used an offload.
LEMMA LastUseUnique ==
  ASSUME base \in Int, NEW o, NEW k \in Int, NEW i \in base..(k - 1), NEW j \in base..(k - 1),
         LastUse(o, k, i), LastUse(o, k, j)
  PROVE  i = j
<1>1. ASSUME i < j PROVE FALSE
  BY <1>1 DEF LastUse
<1>2. ASSUME j < i PROVE FALSE
  BY <1>2 DEF LastUse
<1> QED
  BY <1>1, <1>2

\* The packets from k to m do not use it: the last use before both is the same,
LEMMA LastUseSame ==
  ASSUME base \in Int, NEW o, NEW k \in Int, NEW m \in Int, k <= m, Unused(o, k, m)
  PROVE  \A j \in Int : j \in base..(k - 1) /\ LastUse(o, k, j) <=> j \in base..(m - 1) /\ LastUse(o, m, j)
<1> SUFFICES ASSUME NEW j \in Int
             PROVE  j \in base..(k - 1) /\ LastUse(o, k, j) <=> j \in base..(m - 1) /\ LastUse(o, m, j)
  OBVIOUS
<1>1. ASSUME j \in base..(k - 1), LastUse(o, k, j)
      PROVE  j \in base..(m - 1) /\ LastUse(o, m, j)
  BY <1>1 DEF LastUse, Unused
<1>2. ASSUME j \in base..(m - 1), LastUse(o, m, j)
      PROVE  j \in base..(k - 1) /\ LastUse(o, k, j)
  BY <1>2 DEF LastUse, Unused
<1> QED
  BY <1>1, <1>2

\* so is the value they find,
LEMMA LatestSame ==
  ASSUME base \in Int, NEW o, NEW k \in Int, NEW m \in Int, k <= m, Unused(o, k, m), NEW v
  PROVE  Latest(o, k, v) <=> Latest(o, m, v)
<1>1. (\A j \in base..(k - 1) : ~Uses(o, j)) <=> (\A j \in base..(m - 1) : ~Uses(o, j))
  BY DEF Unused
<1>2. \A j \in Int : j \in base..(k - 1) /\ LastUse(o, k, j) <=> j \in base..(m - 1) /\ LastUse(o, m, j)
  BY LastUseSame
<1>3. (\E j \in base..(k - 1) : LastUse(o, k, j) /\ v = Offload(o, pkts[j]))
        <=> (\E j \in base..(m - 1) : LastUse(o, m, j) /\ v = Offload(o, pkts[j]))
  BY <1>2
<1> QED
  BY <1>1, <1>3 DEF Latest

\* and what the engine knows of it.
LEMMA KnowsSame ==
  ASSUME base \in Int, NEW o, NEW k \in Int, NEW m \in Int, k <= m, Unused(o, k, m)
  PROVE  Knows(o, k) <=> Knows(o, m)
<1>2. \A j \in Int : j \in base..(k - 1) /\ LastUse(o, k, j) <=> j \in base..(m - 1) /\ LastUse(o, m, j)
  BY LastUseSame
<1> QED
  BY <1>2 DEF Knows

\* A packet finds an offload at one value.
LEMMA LatestUnique ==
  ASSUME base \in Int, NEW o, NEW k \in Int, NEW v, NEW w, Latest(o, k, v), Latest(o, k, w)
  PROVE  v = w
<1>1. ASSUME \A j \in base..(k - 1) : ~Uses(o, j) PROVE v = Unset(o) /\ w = Unset(o)
  BY <1>1 DEF Latest, LastUse
<1>2. ASSUME NEW i \in base..(k - 1), Uses(o, i) PROVE v = w
  <2>1. PICK x \in base..(k - 1) : LastUse(o, k, x) /\ v = Offload(o, pkts[x])
    BY <1>2 DEF Latest
  <2>2. PICK y \in base..(k - 1) : LastUse(o, k, y) /\ w = Offload(o, pkts[y])
    BY <1>2 DEF Latest
  <2>3. x = y
    BY <2>1, <2>2, LastUseUnique
  <2> QED
    BY <2>1, <2>2, <2>3
<1> QED
  BY <1>1, <1>2

\* After a packet that uses an offload, its value is the latest.
LEMMA UseIsLatest ==
  ASSUME base \in Int, NEW o, NEW k \in Int, base <= k, Uses(o, k)
  PROVE  Latest(o, k + 1, Offload(o, pkts[k]))
<1>1. k \in base..(k + 1 - 1) /\ LastUse(o, k + 1, k)
  BY DEF LastUse
<1> QED
  BY <1>1 DEF Latest

\* After it the engine, if it has that value, knows the offload.
LEMMA UseIsKnown ==
  ASSUME base \in Int, NEW o, NEW k \in Int, base <= k, Uses(o, k), Context(o) = Offload(o, pkts[k])
  PROVE  Knows(o, k + 1)
<1>1. k \in base..(k + 1 - 1) /\ LastUse(o, k + 1, k) /\ k + 1 \in Int
  BY DEF LastUse
<1>2. \A j \in base..(k + 1 - 1) : LastUse(o, k + 1, j) => j = k
  BY <1>1, LastUseUnique
<1> QED
  BY <1>2 DEF Knows

\* What the engine knows is the latest value, once one is set.
LEMMA KnownIsLatest ==
  ASSUME NEW o, NEW k \in Int, Knows(o, k), NEW v, Latest(o, k, v), v # Unset(o)
  PROVE  Context(o) = v
BY DEF Knows, Latest

\* A value that a packet uses is not that of an unset cache.
LEMMA OffloadSet ==
  ASSUME NEW o \in Offloads, NEW p \in Packets, Offload(o, p) # 0
  PROVE  Offload(o, p) # Unset(o)
BY DEF Offloads, Offload, Unset, Packets

\* One packet that does not use the offload.
LEMMA UnusedOne ==
  ASSUME NEW o, NEW k \in Int, ~Uses(o, k)
  PROVE  Unused(o, k, k + 1) /\ k <= k + 1 /\ k + 1 \in Int
BY DEF Unused

\* A packet that needs no new value leaves the engine's as it is.
LEMMA KnowsNext ==
  ASSUME base \in Int, NEW o \in Offloads, NEW k \in Int, base <= k, pkts[k] \in Packets,
         Knows(o, k), Provided(o, k)
  PROVE  Knows(o, k + 1)
<1>1. CASE Uses(o, k)
  <2>1. Offload(o, pkts[k]) # 0
    BY <1>1 DEF Uses
  <2>2. Latest(o, k, Offload(o, pkts[k])) /\ Offload(o, pkts[k]) # Unset(o)
    BY <2>1, OffloadSet DEF Provided
  <2>3. Context(o) = Offload(o, pkts[k])
    BY <2>2, KnownIsLatest
  <2> QED
    BY <1>1, <2>3, UseIsKnown
<1>2. CASE ~Uses(o, k)
  BY <1>2, UnusedOne, KnowsSame
<1> QED
  BY <1>1, <1>2

\* The value a packet provides is the one a packet of the same finds.
LEMMA LatestNext ==
  ASSUME base \in Int, NEW o \in Offloads, NEW k \in Int, base <= k, NEW v, Latest(o, k, v)
  PROVE  IF Uses(o, k) THEN Latest(o, k + 1, Offload(o, pkts[k])) ELSE Latest(o, k + 1, v)
BY UnusedOne, LatestSame, UseIsLatest

-----------------------------------------------------------------------------
(* Packets and descriptors that a step keeps.                              *)

\* The loop that skips ignored packets skips these only, and stops at the first other.
LEMMA SkipProperties ==
  ASSUME NEW k \in Int, pktNext \in Int, k <= pktNext
  PROVE  /\ SkipIgnorePackets(k) \in k..pktNext /\ Skipped(k, SkipIgnorePackets(k))
         /\ SkipIgnorePackets(k) = pktNext \/ ~pkts[SkipIgnorePackets(k)].ignore
<1> DEFINE T == {m \in Nat : k + m \in k..pktNext /\ (k + m = pktNext \/ ~pkts[k + m].ignore)}
<1>1. pktNext - k \in T
  <2>1. pktNext - k \in Nat /\ k + (pktNext - k) = pktNext
    OBVIOUS
  <2> QED
    BY <2>1
<1>2. PICK m \in T : \A i \in T : m <= i
  BY <1>1, Least
<1> DEFINE j == k + m
<1>3. j \in k..pktNext /\ (j = pktNext \/ ~pkts[j].ignore) /\ m \in Nat
  BY <1>2
<1>4. ASSUME NEW i \in k..(j - 1) PROVE pkts[i].ignore
  <2>1. i - k \in Nat /\ k + (i - k) = i /\ i - k < m /\ i \in k..pktNext
    BY <1>3
  <2>2. i - k \notin T
    BY <1>2, <2>1
  <2> QED
    BY <2>1, <2>2
<1> HIDE DEF j, T
<1> DEFINE R(n) == /\ \A i \in k..(n - 1) : pkts[i].ignore
                   /\ n = pktNext \/ ~pkts[n].ignore
<1>5. \E n \in k..pktNext : R(n)
  BY <1>3, <1>4
<1>6. SkipIgnorePackets(k) = CHOOSE n \in k..pktNext : R(n)
  BY DEF SkipIgnorePackets
<1>7. SkipIgnorePackets(k) \in k..pktNext /\ R(SkipIgnorePackets(k))
  BY <1>5, <1>6
<1> QED
  BY <1>7 DEF Skipped

\* What a step leaves of the packets and of the descriptors from s to f.
PktsKept == base' = base /\ Len(pkts) <= Len(pkts') /\ \A k \in 1..Len(pkts) : pkts'[k] = pkts[k]

DescsKept(s, f) == \A k \in s..(f - 1) : At(k)' = At(k)

\* A descriptor that is the same but for the Own bit.
Alike(k) ==
  LET d == At(k)
      e == At(k)' IN
  /\ e.ctx = d.ctx /\ e.first = d.first /\ e.last = d.last /\ e.gso = d.gso /\ e.insert = d.insert
  /\ e.tag = d.tag /\ e.tagValid = d.tagValid /\ e.mss = d.mss /\ e.mssValid = d.mssValid
  /\ e.pkt = d.pkt /\ e.frag = d.frag

DescsAlike(s, f) == \A k \in s..(f - 1) : Alike(k)

\* What packets use,
LEMMA UsesFrame ==
  ASSUME PktsKept, NEW o \in Offloads, NEW k \in 1..Len(pkts)
  PROVE  (Uses(o, k)' <=> Uses(o, k)) /\ Offload(o, pkts[k])' = Offload(o, pkts[k])
<1>1. pkts'[k] = pkts[k]
  BY DEF PktsKept
<1> QED
  BY <1>1 DEF Uses, Offload

\* which used an offload last,
LEMMA LastUseFrame ==
  ASSUME PktsKept, base \in Nat \ {0}, pkts \in Seq(Packets), NEW o \in Offloads, NEW k \in Int, k <= Len(pkts) + 1,
         NEW j \in base..(k - 1)
  PROVE  /\ LastUse(o, k, j)' <=> LastUse(o, k, j)
         /\ Offload(o, pkts[j])' = Offload(o, pkts[j])
<1>1. Len(pkts) \in Nat
  OBVIOUS
<1>2. \A i \in base..(k - 1) : (Uses(o, i)' <=> Uses(o, i)) /\ Offload(o, pkts[i])' = Offload(o, pkts[i])
  BY <1>1, UsesFrame
<1> QED
  BY <1>1, <1>2 DEF LastUse

\* at what value the next finds it,
LEMMA LatestFrame ==
  ASSUME PktsKept, base \in Nat \ {0}, pkts \in Seq(Packets), NEW o \in Offloads, NEW k \in Int, k <= Len(pkts) + 1,
         NEW v
  PROVE  Latest(o, k, v)' <=> Latest(o, k, v)
<1>1. base' = base /\ Len(pkts) \in Nat
  BY DEF PktsKept
<1>2. \A i \in base..(k - 1) : (Uses(o, i)' <=> Uses(o, i))
  BY <1>1, UsesFrame
<1>3. \A j \in base..(k - 1) : /\ LastUse(o, k, j)' <=> LastUse(o, k, j)
                               /\ Offload(o, pkts[j])' = Offload(o, pkts[j])
  BY LastUseFrame
<1> QED
  BY <1>1, <1>2, <1>3 DEF Latest, Unset

\* whether the engine knows it,
LEMMA KnowsFrame ==
  ASSUME PktsKept, base \in Nat \ {0}, pkts \in Seq(Packets), NEW o \in Offloads, NEW k \in Int, k <= Len(pkts) + 1,
         Context(o)' = Context(o)
  PROVE  Knows(o, k)' <=> Knows(o, k)
<1>1. base' = base
  BY DEF PktsKept
<1>3. \A j \in base..(k - 1) : /\ LastUse(o, k, j)' <=> LastUse(o, k, j)
                               /\ Offload(o, pkts[j])' = Offload(o, pkts[j])
  BY LastUseFrame
<1> QED
  BY <1>1, <1>3 DEF Knows

\* whether a packet is provided with it,
LEMMA ProvidedFrame ==
  ASSUME PktsKept, base \in Nat \ {0}, pkts \in Seq(Packets), NEW o \in Offloads, NEW k \in 1..Len(pkts)
  PROVE  Provided(o, k)' <=> Provided(o, k)
<1>1. Offload(o, pkts[k])' = Offload(o, pkts[k]) /\ k \in Int /\ k <= Len(pkts) + 1
  BY UsesFrame
<1>2. \A v : Latest(o, k, v)' <=> Latest(o, k, v)
  BY <1>1, LatestFrame
<1> QED
  BY <1>1, <1>2 DEF Provided

\* and which are ignored stays as it is while packets are kept.
LEMMA SkippedFrame ==
  ASSUME PktsKept, NEW i \in Nat \ {0}, NEW j \in Int, j <= Len(pkts) + 1, pkts \in Seq(Packets)
  PROVE  Skipped(i, j)' <=> Skipped(i, j)
<1>1. \A k \in i..(j - 1) : pkts'[k] = pkts[k]
  BY DEF PktsKept
<1> QED
  BY <1>1 DEF Skipped

\* A descriptor stays right when only its Own bit changes, with the engine's place.
LEMMA DescFrame ==
  ASSUME PktsKept, base \in Nat \ {0}, pkts \in Seq(Packets), NEW k \in Int, NEW c \in Int, NEW e \in Int,
         Alike(k), At(k)'.own <=> k >= e, DescOK(k, c)
  PROVE  DescOK(k, e)'
<1> DEFINE d == At(k)
           h == At(k)'
           n == d.pkt
           p == pkts[n]
<1>1. /\ n \in base..Len(pkts) /\ n \in 1..Len(pkts) /\ base' = base /\ Len(pkts) <= Len(pkts') /\ Len(pkts) \in Nat
      /\ pkts'[n] = pkts[n]
  BY DEF DescOK, PktsKept
<1>2. Len(pkts') \in Int
  BY <1>1 DEF PktsKept
<1>3. \A o \in Offloads : Provided(o, n)' <=> Provided(o, n)
  <2> SUFFICES ASSUME NEW m \in 1..Len(pkts), NEW o \in Offloads PROVE Provided(o, m)' <=> Provided(o, m)
    BY <1>1 DEF Alike
  <2> QED
    BY ProvidedFrame
<1>4. /\ ~p.ignore /\ d.frag >= p.frag
      /\ d.ctx => ~d.first /\ ~d.last
      /\ d.ctx => \A o \in Offloads :
           IF Valid(o, d) THEN Given(o, d) = Offload(o, p) /\ Offload(o, p) # 0 ELSE Provided(o, n)
      /\ d.first => (d.insert <=> VlanTag(p) # 0) /\ (d.gso <=> p.mss # 0)
  BY DEF DescOK
<1>5. /\ h.ctx = d.ctx /\ h.first = d.first /\ h.last = d.last /\ h.gso = d.gso /\ h.insert = d.insert
      /\ h.tag = d.tag /\ h.tagValid = d.tagValid /\ h.mss = d.mss /\ h.mssValid = d.mssValid
      /\ h.pkt = n /\ h.frag = d.frag /\ (h.own <=> k >= e) /\ n' = n
  BY DEF Alike
<1>6. pkts'[h.pkt] = p
  BY <1>1, <1>5
<1>7. \A o \in Offloads : (Valid(o, h) <=> Valid(o, d)) /\ Given(o, h) = Given(o, d)
  BY <1>5 DEF Valid, Given
<1>8. h = At(k)'
  OBVIOUS
<1> HIDE DEF d, h, n, p
<1>9. /\ h.own <=> k >= e
      /\ h.pkt \in base'..Len(pkts') /\ ~pkts'[h.pkt].ignore
      /\ h.frag >= pkts'[h.pkt].frag
      /\ h.ctx => ~h.first /\ ~h.last
  BY <1>1, <1>2, <1>4, <1>5, <1>6
<1>10. h.ctx => \A o \in Offloads :
         IF Valid(o, h) THEN Given(o, h) = Offload(o, pkts'[h.pkt]) /\ Offload(o, pkts'[h.pkt]) # 0
         ELSE Provided(o, At(k).pkt)'
  <2>1. \A o \in Offloads : Provided(o, At(k).pkt)' <=> Provided(o, n)
    BY <1>3, <1>5, <1>8
  <2> QED
    BY <1>4, <1>5, <1>6, <1>7, <2>1
<1>11. h.first => (h.insert <=> VlanTag(pkts'[h.pkt]) # 0) /\ (h.gso <=> pkts'[h.pkt].mss # 0)
  BY <1>4, <1>5, <1>6
<1> QED
  BY <1>8, <1>9, <1>10, <1>11 DEF DescOK, Valid, Given, Offload

\* So does the order of two.
LEMMA FollowsFrame ==
  ASSUME PktsKept, base \in Nat \ {0}, pkts \in Seq(Packets), NEW k \in Int, NEW c \in Int,
         Alike(k), Alike(k + 1), DescOK(k, c), DescOK(k + 1, c), Follows(k)
  PROVE  Follows(k)'
<1> DEFINE d == At(k)
           e == At(k + 1)
           n == d.pkt
           m == e.pkt
<1>1. n \in 1..Len(pkts) /\ m \in 1..Len(pkts)
  BY DEF DescOK
<1>2. n' = n /\ m' = m
  BY DEF Alike
<1>3. \A o \in Offloads : Provided(o, m)' <=> Provided(o, m)
  <2> SUFFICES ASSUME NEW i \in 1..Len(pkts), NEW o \in Offloads PROVE Provided(o, i)' <=> Provided(o, i)
    BY <1>1, <1>2
  <2> QED
    BY ProvidedFrame
<1>4. Skipped(n + 1, m)' <=> Skipped(n + 1, m)
  <2> SUFFICES ASSUME NEW i \in 1..Len(pkts), NEW j \in 1..Len(pkts) PROVE Skipped(i + 1, j)' <=> Skipped(i + 1, j)
    BY <1>1, <1>2
  <2>1. i + 1 \in Nat \ {0} /\ j \in Int /\ j <= Len(pkts) + 1
    OBVIOUS
  <2> QED
    BY <2>1, SkippedFrame
<1>5. IF d.last
      THEN /\ e.ctx \/ e.first
           /\ Skipped(n + 1, m)
           /\ ~e.ctx => \A o \in Offloads : Provided(o, m)
      ELSE /\ m = n /\ ~e.ctx
           /\ e.first <=> d.ctx
  BY DEF Follows, Begins
<1>6. d'.last = d.last /\ d'.ctx = d.ctx /\ e'.ctx = e.ctx /\ e'.first = e.first
  BY DEF Alike
<1>7. At(k)' = d' /\ At(k + 1)' = e' /\ At(k)'.pkt = n' /\ At(k + 1)'.pkt = m'
  OBVIOUS
<1> HIDE DEF d, e, n, m
<1>8. IF d'.last
      THEN /\ e'.ctx \/ e'.first
           /\ Skipped(n + 1, m)'
           /\ ~e'.ctx => \A o \in Offloads : Provided(o, m)'
      ELSE /\ m' = n' /\ ~e'.ctx
           /\ e'.first <=> d'.ctx
  BY <1>2, <1>3, <1>4, <1>5, <1>6
<1> QED
  BY <1>8 DEF Follows, Begins, d, e, n, m

\* Descriptors and packets that stay as they are but for the Own bit stay in order.
LEMMA BodyAlike ==
  ASSUME PktsKept, base \in Nat \ {0}, pkts \in Seq(Packets),
         NEW s \in Int, NEW c \in Int, NEW e \in Int, NEW f \in Int, NEW r \in Int, s <= r,
         Listed(s, c, f), Linked(s, f), Sorted(s, f), DescsAlike(r, f),
         \A k \in r..(f - 1) : At(k)'.own <=> k >= e
  PROVE  Listed(r, e, f)' /\ Linked(r, f)' /\ Sorted(r, f)'
<1>1. ASSUME NEW k \in r..(f - 1) PROVE DescOK(k, c) /\ DescOK(k, e)'
  <2>1. DescOK(k, c) /\ Alike(k) /\ k \in Int
    BY DEF Listed, DescsAlike
  <2>2. At(k)'.own <=> k >= e
    OBVIOUS
  <2> QED
    BY <2>1, <2>2, DescFrame
<1>2. ASSUME NEW k \in r..(f - 2) PROVE Follows(k)'
  <2>1. k \in r..(f - 1) /\ k + 1 \in r..(f - 1) /\ k \in s..(f - 2) /\ k + 1 \in Int
    OBVIOUS
  <2>2. DescOK(k, c) /\ DescOK(k + 1, c)
    BY <1>1, <2>1
  <2>3. Follows(k)
    BY <2>1 DEF Linked
  <2>4. Alike(k) /\ Alike(k + 1)
    BY <2>1 DEF DescsAlike
  <2> QED
    BY <2>2, <2>3, <2>4, FollowsFrame
<1>3. ASSUME NEW j \in r..(f - 1), NEW k \in r..(f - 1), j < k PROVE Ordered(j, k)'
  <2>1. Ordered(j, k) /\ Alike(j) /\ Alike(k)
    BY <1>3 DEF Sorted, DescsAlike
  <2> QED
    BY <2>1 DEF Ordered, Alike
<1> QED
  BY <1>1, <1>2, <1>3 DEF Listed, Linked, Sorted

\* The same of descriptors that stay as they are.
LEMMA BodyFrame ==
  ASSUME PktsKept, base \in Nat \ {0}, pkts \in Seq(Packets),
         NEW s \in Int, NEW c \in Int, NEW f \in Int, NEW r \in Int, s <= r,
         Listed(s, c, f), Linked(s, f), Sorted(s, f), DescsKept(r, f)
  PROVE  Listed(r, c, f)' /\ Linked(r, f)' /\ Sorted(r, f)'
<1>1. DescsAlike(r, f)
  BY DEF DescsKept, DescsAlike, Alike
<1>2. \A k \in r..(f - 1) : At(k)'.own <=> k >= c
  BY DEF DescsKept, Listed, DescOK
<1> QED
  BY <1>1, <1>2, BodyAlike

\* What the engine knows and the wire has seen.
EngineKept ==
  /\ wire' = wire /\ dma'.pkt = dma.pkt /\ dma'.tag = dma.tag /\ dma'.mss = dma.mss
  /\ dma'.frameTag = dma.frameTag /\ dma'.frameMss = dma.frameMss

CacheKept == lastMss' = lastMss /\ lastVlanTag' = lastVlanTag

\* The cursors, as the actions find them.
LEMMA ViewTypes ==
  ASSUME TypeOK, CursorsOK
  PROVE  /\ PktFirst \in Nat \ {0} /\ PktTop \in Nat \ {0} /\ FragFirst \in Nat \ {0}
         /\ base \in Nat \ {0} /\ pkts \in Seq(Packets) /\ Len(pkts) \in Nat
         /\ base <= PktFirst /\ PktFirst <= PktTop /\ PktTop <= Len(pkts) + 1
         /\ wire \in Seq([pkt : Nat, tag : Tags, mss : Nat])
         /\ pktNext \in Nat \ {0} /\ pktBegin \in Nat \ {0} /\ pktEnd = Len(pkts) + 1
<1>1. /\ pktIndex \in Nat \ {0} /\ pktFragIndex \in Nat \ {0} /\ fragBegin \in Nat \ {0} /\ base \in Nat \ {0}
      /\ pktNext \in Nat \ {0} /\ pktBegin \in Nat \ {0} /\ pkts \in Seq(Packets)
      /\ wire \in Seq([pkt : Nat, tag : Tags, mss : Nat])
  BY DEF TypeOK
<1>2. PktFirst \in Nat \ {0} /\ PktTop \in Nat \ {0} /\ FragFirst \in Nat \ {0} /\ Len(pkts) \in Nat
  BY <1>1 DEF PktFirst, PktTop, FragFirst
<1> QED
  BY <1>1, <1>2 DEF CursorsOK, pktEnd

\* A step that leaves the cache and the packets queued leaves the cache right.
LEMMA CacheFrame ==
  ASSUME TypeOK, CursorsOK, CacheOK, PktsKept, CacheKept, PktTop' = PktTop
  PROVE  CacheOK'
<1> SUFFICES ASSUME NEW o \in Offloads PROVE Latest(o, PktTop, Cached(o))'
  BY DEF CacheOK
<1>1. Cached(o)' = Cached(o)
  BY DEF Cached, CacheKept
<1> DEFINE t == PktTop
           v == Cached(o)
<1>2. t \in Int /\ t <= Len(pkts) + 1 /\ base \in Nat \ {0} /\ pkts \in Seq(Packets)
  BY ViewTypes
<1>3. Latest(o, t, v)
  BY DEF CacheOK
<1>4. ASSUME NEW k \in Int, NEW w, k = t, w = v PROVE Latest(o, k, w)'
  BY <1>2, <1>3, <1>4, LatestFrame
<1> QED
  BY <1>1, <1>2, <1>4

\* A step that sends nothing leaves what was sent right.
LEMMA SentFrame ==
  ASSUME TypeOK, CursorsOK, PktsKept, wire' = wire, NEW n \in Int, n <= Len(pkts) + 1, SentOK(n)
  PROVE  SentOK(n)'
<1>1. \A k \in base..(n - 1) : pkts'[k] = pkts[k]
  BY ViewTypes DEF PktsKept
<1>2. base' = base
  BY DEF PktsKept
<1> QED
  BY <1>1, <1>2 DEF SentOK, Sent

\* The packet that the engine is at is one of those queued.
LEMMA CurrentBound ==
  ASSUME TypeOK, CursorsOK, NEW s \in Int, NEW c \in Int, NEW g \in Int, NEW f \in Int, s <= c, c <= g, g <= f,
         Spanned(s, f), EngineOK(c, g, f)
  PROVE  /\ Current(c, f) \in PktFirst..PktTop
         /\ c < f => At(c).pkt \in PktFirst..(PktTop - 1)
         /\ dma.pkt # NoPacket => c < f /\ dma.pkt = At(c).pkt
<1>1. c < f => At(c).pkt \in PktFirst..(PktTop - 1)
  BY DEF Spanned
<1>2. dma.pkt # NoPacket => c < f /\ dma.pkt = At(c).pkt
  BY DEF EngineOK
<1> QED
  BY <1>1, <1>2, ViewTypes DEF Current

\* A step that leaves the engine alone, whatever more it is given.
LEMMA EngineFrame ==
  ASSUME TypeOK, CursorsOK, PktsKept, EngineKept,
         NEW s \in Int, NEW c \in Int, NEW g \in Int, NEW f \in Int, c < f \/ PktTop' = PktTop, NEW h \in Int, s <= c, c <= g, g <= h, h <= f,
         Spanned(s, f), EngineOK(c, g, f), DescsKept(c, f)
  PROVE  EngineOK(c, h, f)' /\ Current(c, f)' = Current(c, f)
<1>1. \A o \in Offloads : Context(o)' = Context(o)
  BY DEF EngineKept, Context
<1>2. ASSUME NEW o \in Offloads, NEW k \in Int, k <= Len(pkts) + 1
      PROVE  Knows(o, k)' <=> Knows(o, k)
  BY <1>1, <1>2, ViewTypes, KnowsFrame
<1>3. dma'.pkt = dma.pkt /\ dma'.frameTag = dma.frameTag /\ dma'.frameMss = dma.frameMss
  BY DEF EngineKept
<1>4. CASE c < f
  <2> DEFINE d == At(c)
             n == d.pkt
  <2>1. d' = d /\ n' = n
    BY <1>4 DEF DescsKept
  <2>2. n \in 1..Len(pkts) /\ pkts'[n] = pkts[n]
    <3>1. n \in PktFirst..(PktTop - 1)
      BY <1>4, CurrentBound
    <3> HIDE DEF n, d
    <3>2. n \in 1..Len(pkts)
      BY <3>1, ViewTypes
    <3> QED
      BY <3>2 DEF PktsKept
  <2>3. \A o \in Offloads : (Knows(o, n)' <=> Knows(o, n)) /\ (Knows(o, n + 1)' <=> Knows(o, n + 1))
    <3> HIDE DEF n, d
    <3> SUFFICES ASSUME NEW o \in Offloads, NEW k \in 1..Len(pkts)
                 PROVE  (Knows(o, k)' <=> Knows(o, k)) /\ (Knows(o, k + 1)' <=> Knows(o, k + 1))
      BY <2>1, <2>2
    <3>1. Len(pkts) \in Nat
      BY ViewTypes
    <3>2. k \in Int /\ k <= Len(pkts) + 1 /\ k + 1 \in Int /\ k + 1 <= Len(pkts) + 1
      BY <3>1
    <3> QED
      BY <1>2, <3>2
  <2>4. CASE dma.pkt # NoPacket
    <3>1. /\ c < h /\ ~(d.ctx \/ d.first) /\ n = dma.pkt
          /\ dma.frameTag = VlanTag(pkts[n]) /\ dma.frameMss = pkts[n].mss
          /\ \A o \in Offloads : Knows(o, n + 1)
      BY <2>4 DEF EngineOK, Begins
    <3>2. \A o \in Offloads : Knows(o, dma.pkt + 1)'
      <4>1. dma'.pkt = n
        BY <1>3, <3>1
      <4> HIDE DEF n, d
      <4> QED
        BY <2>1, <2>3, <3>1, <4>1
    <3>3. /\ ~Begins(c)' /\ At(c)'.pkt = dma'.pkt
          /\ dma'.frameTag = VlanTag(pkts'[dma'.pkt]) /\ dma'.frameMss = pkts'[dma'.pkt].mss
      BY <1>3, <2>1, <2>2, <3>1 DEF Begins
    <3>4. EngineOK(c, h, f)'
      BY <1>3, <2>4, <3>1, <3>2, <3>3 DEF EngineOK
    <3> QED
      BY <1>3, <2>4, <3>4 DEF Current
  <2>5. CASE dma.pkt = NoPacket
    <3>1. /\ d.ctx \/ d.first
          /\ \A o \in Offloads : Knows(o, IF d.ctx THEN n ELSE n + 1)
      BY <1>4, <2>5 DEF EngineOK, Begins
    <3>2. \A o \in Offloads : Knows(o, IF At(c).ctx THEN At(c).pkt ELSE At(c).pkt + 1)'
      <4>1. CASE d.ctx
        BY <2>1, <2>3, <3>1, <4>1
      <4>2. CASE ~d.ctx
        BY <2>1, <2>3, <3>1, <4>2
      <4> QED
        BY <4>1, <4>2
    <3>3. Begins(c)'
      BY <2>1, <3>1 DEF Begins
    <3>4. EngineOK(c, h, f)'
      BY <1>3, <1>4, <2>5, <3>2, <3>3 DEF EngineOK
    <3> QED
      BY <1>3, <1>4, <2>1, <2>5, <3>4 DEF Current
  <2> QED
    BY <2>4, <2>5
<1>5. CASE ~(c < f)
  <2>1. dma.pkt = NoPacket /\ \A o \in Offloads : Knows(o, PktTop)
    BY <1>5 DEF EngineOK
  <2> DEFINE t == PktTop
  <2>2. t \in Int /\ t <= Len(pkts) + 1 /\ t' = t
    BY <1>5, ViewTypes
  <2>3. \A o \in Offloads : Knows(o, PktTop)'
    <3> SUFFICES ASSUME NEW o \in Offloads, NEW k \in Int, k = t PROVE Knows(o, k)'
      BY <2>2
    <3> QED
      BY <1>2, <2>1, <2>2
  <2> QED
    BY <1>3, <1>5, <2>1, <2>3 DEF EngineOK, Current
<1> QED
  BY <1>4, <1>5

\* The descriptors stay those of the packets queued when only Own bits change,
LEMMA SpannedAlike ==
  ASSUME TypeOK, CursorsOK, PktsKept, PktFirst' = PktFirst, PktTop' = PktTop,
         NEW s \in Int, NEW f \in Int, s <= f, Spanned(s, f), DescsAlike(s, f)
  PROVE  Spanned(s, f)'
<1> DEFINE i == PktFirst
           t == PktTop
<1>1. i \in Nat \ {0} /\ t \in Nat \ {0} /\ i <= t /\ t <= Len(pkts) + 1 /\ Len(pkts) \in Nat /\ pkts \in Seq(Packets) /\ i' = i /\ t' = t
  BY ViewTypes
<1>2. \A k \in s..(f - 1) : At(k).pkt \in i..(t - 1) /\ At(k)'.last = At(k).last /\ At(k)'.pkt = At(k).pkt
  BY DEF Spanned, DescsAlike, Alike
<1>3. ASSUME NEW a \in Nat \ {0}, NEW b \in Int, b <= Len(pkts) + 1
      PROVE  Skipped(a, b)' <=> Skipped(a, b)
  BY <1>1, <1>3, SkippedFrame
<1>4. CASE s < f
  <2>1. s \in s..(f - 1) /\ f - 1 \in s..(f - 1)
    BY <1>4
  <2> DEFINE m == At(s).pkt
             n == At(f - 1).pkt
  <2>2. Skipped(i, m) /\ At(f - 1).last /\ Skipped(n + 1, t)
    BY <1>4 DEF Spanned
  <2>3. m \in i..(t - 1) /\ n \in i..(t - 1) /\ m' = m /\ n' = n /\ At(f - 1)'.last
    BY <1>2, <2>1, <2>2
  <2> HIDE DEF i, t, m, n
  <2>4. Skipped(i, m)' /\ Skipped(n + 1, t)'
    <3>1. m \in Int /\ m <= Len(pkts) + 1 /\ n + 1 \in Nat \ {0} /\ t \in Int
      BY <1>1, <2>3
    <3>2. ASSUME NEW a \in Nat \ {0}, NEW b \in Int, b <= Len(pkts) + 1, Skipped(a, b) PROVE Skipped(a, b)'
      BY <1>3, <3>2
    <3> QED
      BY <1>1, <2>2, <2>3, <3>1, <3>2
  <2> QED
    BY <1>1, <1>2, <1>4, <2>3, <2>4 DEF Spanned, i, t, m, n
<1>5. CASE s = f
  <2>1. Skipped(i, t)
    BY <1>5 DEF Spanned
  <2> HIDE DEF i, t
  <2>2. Skipped(i, t)'
    <3>2. ASSUME NEW a \in Nat \ {0}, NEW b \in Int, b <= Len(pkts) + 1, Skipped(a, b) PROVE Skipped(a, b)'
      BY <1>3, <3>2
    <3> QED
      BY <1>1, <2>1, <3>2
  <2> QED
    BY <1>1, <1>2, <1>5, <2>2 DEF Spanned, i, t
<1> QED
  BY <1>4, <1>5

\* and when nothing of them changes.
LEMMA SpannedFrame ==
  ASSUME TypeOK, CursorsOK, PktsKept, PktFirst' = PktFirst, PktTop' = PktTop,
         NEW s \in Int, NEW f \in Int, s <= f, Spanned(s, f), DescsKept(s, f)
  PROVE  Spanned(s, f)'
<1>1. DescsAlike(s, f)
  BY DEF DescsKept, DescsAlike, Alike
<1> QED
  BY <1>1, SpannedAlike

\* A step that leaves the engine, the cache and the packets queued as they are.
LEMMA Quiet ==
  ASSUME TypeOK, CursorsOK, CacheOK, PktsKept, EngineKept, CacheKept, desc' = desc, PktTop' = PktTop,
         NEW b \in Int, NEW s \in Int, NEW c \in Int, NEW g \in Int, NEW f \in Int, RingOK(b, s, c, g, f),
         NEW r \in Int, s <= r, r <= c, NEW h \in Int, g <= h, h <= f
  PROVE  /\ CacheOK' /\ Listed(r, c, f)' /\ Linked(r, f)' /\ Sorted(r, f)'
         /\ EngineOK(c, h, f)' /\ SentOK(Current(c, f))'
<1>1. /\ Listed(s, c, f) /\ Linked(s, f) /\ Sorted(s, f) /\ Spanned(s, f) /\ EngineOK(c, g, f) /\ SentOK(Current(c, f))
      /\ s <= c /\ c <= g /\ g <= f
  BY DEF RingOK, ChainOK, PlaceOK
<1>2. DescsKept(r, f) /\ DescsKept(c, f)
  BY DEF DescsKept, At
<1>3. Listed(r, c, f)' /\ Linked(r, f)' /\ Sorted(r, f)'
  BY <1>1, <1>2, ViewTypes, BodyFrame
<1>4. EngineOK(c, h, f)' /\ Current(c, f)' = Current(c, f)
  BY <1>1, <1>2, EngineFrame
<1>5. SentOK(Current(c, f))'
  <2> DEFINE n == Current(c, f)
  <2>1. n \in PktFirst..PktTop
    BY <1>1, CurrentBound
  <2>3. n' = n
    BY <1>4
  <2>4. SentOK(n)
    BY <1>1
  <2> HIDE DEF n
  <2>2. n \in Int /\ n <= Len(pkts) + 1
    BY <2>1, ViewTypes
  <2>5. ASSUME NEW k \in Int, k = n PROVE SentOK(k)'
    BY <2>2, <2>4, <2>5, SentFrame DEF EngineKept
  <2>6. SentOK(n)'
    BY <2>2, <2>3, <2>5
  <2> QED
    BY <2>6 DEF n
<1> QED
  BY <1>3, <1>4, <1>5, CacheFrame

\* A step that sends nothing leaves the wire right.
LEMMA WireFrame ==
  ASSUME TypeOK, WireOK, PktsKept, wire' = wire
  PROVE  WireOK'
<1>1. pkts \in Seq(Packets) /\ wire \in Seq([pkt : Nat, tag : Tags, mss : Nat]) /\ base \in Nat \ {0} /\ base' = base
  BY DEF TypeOK, PktsKept
<1>2. \A k \in 1..Len(pkts) : pkts'[k] = pkts[k] /\ k \in 1..Len(pkts')
  BY <1>1 DEF PktsKept
<1>3. \A i \in DOMAIN wire : wire[i].pkt \in 1..Len(pkts) /\ ~pkts[wire[i].pkt].ignore
  BY DEF WireOK
<1>4. WireFaithful'
  BY <1>2, <1>3 DEF WireFaithful, WireOK
<1>5. SentInOrder'
  <2>1. ASSUME NEW i \in DOMAIN wire, wire[i].pkt >= base, NEW k \in base..wire[i].pkt, ~pkts'[k].ignore
        PROVE  \E j \in 1..i : wire[j].pkt = k
    <3>1. k \in 1..Len(pkts)
      BY <1>1, <1>3
    <3> QED
      BY <1>2, <2>1, <3>1 DEF SentInOrder, WireOK
  <2> QED
    BY <1>1, <2>1 DEF SentInOrder, WireOK
<1>6. \A i \in DOMAIN wire' : wire'[i].pkt \in 1..Len(pkts') /\ ~pkts'[wire'[i].pkt].ignore
  BY <1>2, <1>3
<1> QED
  BY <1>4, <1>5, <1>6 DEF WireOK

-----------------------------------------------------------------------------
(* One lemma for each action.                                              *)

\* The parts of the invariant of a queue that serves.
LEMMA Assembled ==
  ASSUME NEW b \in Int, NEW s \in Int, NEW c \in Int, NEW g \in Int, NEW f \in Int,
         CursorsOK', CacheOK', PlaceOK(b, s, c, g, f)',
         Listed(s, c, f)', Linked(s, f)', Sorted(s, f)', Spanned(s, f)', Whole(s, g, f)',
         EngineOK(c, g, f)', SentOK(Current(c, f))'
  PROVE  ServingOK'
<1>1. RingOK(b, s, c, g, f)'
  BY DEF RingOK, ChainOK
<1> QED
  BY <1>1 DEF ServingOK

\* A queue that serves has the five counts.
LEMMA Ring ==
  ASSUME IInv, Serving
  PROVE  \E b, s, c, g, f \in Int : RingOK(b, s, c, g, f)
BY DEF IInv, ServingOK

\* The fields of a packet that the proofs count with.
LEMMA PacketTyped ==
  ASSUME NEW p \in Packets
  PROVE  p.frag \in Nat \ {0} /\ FragmentCount(p) \in Nat /\ p.mss \in Nat /\ p.ignore \in BOOLEAN
BY DEF Packets, FragmentCount

\* NetAdapterCx adds a packet to the ring of packets.
LEMMA PostHolds ==
  ASSUME IInv, NEW p \in Kinds, Post(p)
  PROVE  IInv'
<1> USE DEF IInv
<1> DEFINE new == [ignore |-> p.ignore, priority |-> p.priority, vlan |-> p.vlan, mss |-> p.mss,
                   lens |-> p.lens, header |-> p.header, frag |-> fragEnd]
           n == FragmentCount(p)
<1>1. /\ phase = "running" /\ pc = "idle" /\ pkts' = Append(pkts, new) /\ fragEnd' = fragEnd + n
      /\ UNCHANGED <<pktBegin, pktNext, fragBegin, base, descBegin, descEnd, lastMss, lastVlanTag, desc, phase, pc,
                     descIndex, pktIndex, pktFragIndex, dma, wire>>
  BY DEF Post, ctxVars, locals
<1>2. /\ new \in Packets /\ n \in Nat \ {0} /\ new.frag = fragEnd /\ FragmentCount(new) = n
      /\ new.lens # << >> /\ new.header <= new.lens[1]
      /\ Len(new.lens) > 1 \/ new.header < new.lens[1]
  <2>1. /\ p.ignore \in BOOLEAN /\ p.priority \in 0..7 /\ p.vlan \in {NoVlan} \cup 0..4095 /\ p.mss \in Nat \ {NoMss}
        /\ p.lens \in Seq(Nat \ {0}) /\ p.lens # << >> /\ p.header \in 0..p.lens[1]
        /\ Len(p.lens) > 1 \/ p.header < p.lens[1]
    <3>1. p.priority \in 0..7 /\ p.vlan \in {NoVlan} \cup 0..4095 /\ p.mss \in Nat \ {NoMss} /\ p.ignore \in BOOLEAN
      BY KindsAssumption, SMTT(40)
    <3>2. /\ p.lens \in Seq(Nat \ {0}) /\ p.lens # << >> /\ p.header \in 0..p.lens[1]
          /\ Len(p.lens) > 1 \/ p.header < p.lens[1]
      BY KindsAssumption
    <3> QED
      BY <3>1, <3>2, SMTT(40)
  <2>2. fragEnd \in Nat \ {0}
    BY DEF TypeOK
  <2>3. p.header \in Nat /\ p.header <= p.lens[1]
    BY <2>1
  <2>4. new \in Packets
    BY <2>1, <2>2, <2>3, SMTT(40) DEF Packets
  <2>5. n \in Nat \ {0}
    BY <2>1 DEF FragmentCount
  <2> QED
    BY <2>1, <2>3, <2>4, <2>5 DEF FragmentCount
<1> HIDE DEF new, n
<1>3. pkts \in Seq(Packets) /\ fragEnd \in Nat \ {0} /\ base \in Nat \ {0} /\ Len(pkts) \in Nat
  BY DEF TypeOK
<1>4. /\ pkts' \in Seq(Packets) /\ Len(pkts') = Len(pkts) + 1 /\ pkts'[Len(pkts) + 1] = new
      /\ \A k \in 1..Len(pkts) : pkts'[k] = pkts[k]
  BY <1>1, <1>2, <1>3
<1>5. PktsKept
  BY <1>1, <1>3, <1>4 DEF PktsKept
<1>6. TypeOK'
  <2>1. fragEnd' \in Nat \ {0}
    BY <1>1, <1>2, <1>3
  <2> QED
    BY <1>1, <1>4, <2>1 DEF TypeOK
<1>7. PacketsOK'
  <2>1. ASSUME NEW k \in 1..Len(pkts')
        PROVE  /\ pkts'[k].lens # << >> /\ pkts'[k].header <= pkts'[k].lens[1]
               /\ Len(pkts'[k].lens) > 1 \/ pkts'[k].header < pkts'[k].lens[1]
               /\ pkts'[k].frag + FragmentCount(pkts'[k]) <= fragEnd'
    <3>1. CASE k = Len(pkts) + 1
      BY <3>1, <1>1, <1>2, <1>3, <1>4
    <3>2. CASE k \in 1..Len(pkts)
      <4>1. pkts'[k] = pkts[k] /\ pkts[k].frag + FragmentCount(pkts[k]) <= fragEnd
        BY <3>2, <1>4 DEF PacketsOK
      <4>2. pkts[k].frag + FragmentCount(pkts[k]) \in Int
        <5>1. pkts[k] \in Packets
          BY <3>2, <1>3
        <5> QED
          BY <5>1, PacketTyped
      <4>3. pkts[k].frag + FragmentCount(pkts[k]) <= fragEnd'
        BY <4>1, <4>2, <1>1, <1>2, <1>3
      <4> QED
        BY <3>2, <4>1, <4>3 DEF PacketsOK
    <3> QED
      BY <3>1, <3>2, <1>3, <1>4
  <2>2. ASSUME NEW j \in 1..Len(pkts'), NEW k \in 1..Len(pkts'), j < k
        PROVE  pkts'[j].frag + FragmentCount(pkts'[j]) <= pkts'[k].frag
    <3>1. j \in 1..Len(pkts) /\ pkts'[j] = pkts[j]
      BY <2>2, <1>3, <1>4
    <3>2. CASE k = Len(pkts) + 1
      BY <3>1, <3>2, <1>2, <1>4 DEF PacketsOK
    <3>3. CASE k \in 1..Len(pkts)
      BY <3>1, <3>3, <2>2, <1>4 DEF PacketsOK
    <3> QED
      BY <3>2, <3>3, <1>3, <1>4
  <2> QED
    BY <2>1, <2>2 DEF PacketsOK
<1>8. WireOK'
  BY <1>1, <1>5, WireFrame
<1>9. PhaseOK'
  <2>1. fragBegin' <= fragEnd'
    BY <1>1, <1>2, <1>3 DEF PhaseOK, TypeOK
  <2> QED
    BY <1>1, <2>1 DEF PhaseOK
<1>10. Serving /\ Serving'
  BY <1>1 DEF Serving
<1>11. /\ PktFirst' = PktFirst /\ FragFirst' = FragFirst /\ PktTop' = PktTop /\ Start' = Start /\ End' = End
  BY <1>1 DEF PktFirst, FragFirst, PktTop, Start, End
<1>12. CursorsOK /\ CacheOK
  BY <1>10 DEF ServingOK
<1>13. CursorsOK'
  <2>1. \A k \in PktFirst'..Len(pkts') : FragFirst' <= pkts'[k].frag
    BY <1>2, <1>3, <1>4, <1>11, <1>12, ViewTypes, SMTT(40) DEF CursorsOK
  <2>2. FragFirst' <= fragEnd' /\ FragFirst' \in Int
    BY <1>1, <1>2, <1>3, <1>11, <1>12, ViewTypes DEF CursorsOK
  <2>3. PktTop' <= pktEnd'
    BY <1>4, <1>11, <1>12, ViewTypes DEF CursorsOK, pktEnd
  <2> QED
    BY <1>1, <1>11, <1>12, <2>1, <2>2, <2>3 DEF CursorsOK
<1>14. PICK b, s, c, g, f \in Int : RingOK(b, s, c, g, f)
  BY <1>10, Ring
<1>15. PlaceOK(b, s, c, g, f) /\ Spanned(s, f) /\ Whole(s, g, f) /\ s <= c /\ c <= g /\ g <= f
  BY <1>14 DEF RingOK, ChainOK, PlaceOK
<1>16. PlaceOK(b, s, c, g, f)'
  BY <1>1, <1>11, <1>15 DEF PlaceOK
<1>17. /\ CacheOK' /\ Listed(s, c, f)' /\ Linked(s, f)' /\ Sorted(s, f)'
       /\ EngineOK(c, g, f)' /\ SentOK(Current(c, f))'
  <2>1. EngineKept /\ CacheKept
    BY <1>1 DEF EngineKept, CacheKept
  <2> QED
    BY <1>1, <1>5, <1>11, <1>12, <1>14, <1>15, <2>1, Quiet
<1>18. Spanned(s, f)'
  BY <1>1, <1>5, <1>11, <1>12, <1>15, SpannedFrame DEF DescsKept, At
<1>19. Whole(s, g, f)'
  BY <1>1, <1>15 DEF Whole, At
<1>20. ServingOK'
  BY <1>13, <1>16, <1>17, <1>18, <1>19, Assembled
<1> QED
  BY <1>6, <1>7, <1>8, <1>9, <1>20

\* A step that leaves the packet rings alone keeps what is said of them.
LEMMA SameRings ==
  ASSUME IInv, UNCHANGED <<pkts, fragEnd, base>>
  PROVE  PktsKept /\ PacketsOK' /\ (wire' = wire => WireOK')
<1>1. PktsKept
  BY DEF PktsKept, IInv, TypeOK
<1>2. PacketsOK'
  BY DEF IInv, PacketsOK
<1> QED
  BY <1>1, <1>2, WireFrame DEF IInv

\* TxQueueCancel stops the engine.
LEMMA CancelStartHolds ==
  ASSUME IInv, CancelStart
  PROVE  IInv'
<1> USE DEF IInv
<1>1. /\ phase = "running" /\ pc = "idle" /\ phase' = "draining"
      /\ dma' = [dma EXCEPT !.on = FALSE]
      /\ UNCHANGED <<pkts, pktBegin, pktNext, fragBegin, fragEnd, base, descBegin, descEnd, lastMss, lastVlanTag,
                     desc, pc, descIndex, pktIndex, pktFragIndex, wire>>
  BY DEF CancelStart, ringVars, ctxVars, locals
<1>2. /\ dma' \in [on : BOOLEAN, cur : DescIndexes, tail : DescIndexes, tag : Tags, mss : Nat,
                   pkt : Nat, frameTag : Tags, frameMss : Nat]
      /\ dma'.on = FALSE /\ dma'.cur = dma.cur /\ dma'.tail = dma.tail /\ EngineKept
  BY <1>1 DEF TypeOK, EngineKept
<1>3. TypeOK'
  BY <1>1, <1>2 DEF TypeOK
<1>4. PktsKept /\ PacketsOK' /\ WireOK'
  BY <1>1, SameRings
<1>5. PhaseOK'
  BY <1>1, <1>2 DEF PhaseOK, pktEnd
<1>6. Serving /\ CursorsOK /\ CacheOK
  BY <1>1 DEF Serving, ServingOK
<1>7. PktFirst' = PktFirst /\ FragFirst' = FragFirst /\ PktTop' = PktTop /\ Start' = Start /\ End' = End
  BY <1>1 DEF PktFirst, FragFirst, PktTop, Start, End
<1>8. CursorsOK'
  BY <1>1, <1>6, <1>7 DEF CursorsOK, pktEnd
<1>9. PICK b, s, c, g, f \in Int : RingOK(b, s, c, g, f)
  BY <1>6, Ring
<1>10. PlaceOK(b, s, c, g, f) /\ Spanned(s, f) /\ Whole(s, g, f) /\ s <= c /\ c <= g /\ g <= f
  BY <1>9 DEF RingOK, ChainOK, PlaceOK
<1>11. PlaceOK(b, s, c, g, f)'
  BY <1>1, <1>2, <1>7, <1>10 DEF PlaceOK
<1>12. /\ CacheOK' /\ Listed(s, c, f)' /\ Linked(s, f)' /\ Sorted(s, f)'
       /\ EngineOK(c, g, f)' /\ SentOK(Current(c, f))'
  <2>1. CacheKept
    BY <1>1 DEF CacheKept
  <2> QED
    BY <1>1, <1>2, <1>4, <1>6, <1>7, <1>9, <1>10, <2>1, Quiet
<1>13. Spanned(s, f)'
  BY <1>1, <1>4, <1>6, <1>7, <1>10, SpannedFrame DEF DescsKept, At
<1>14. Whole(s, g, f)'
  BY <1>1, <1>10 DEF Whole, At
<1>15. ServingOK'
  BY <1>8, <1>11, <1>12, <1>13, <1>14, Assembled
<1> QED
  BY <1>3, <1>4, <1>5, <1>15

\* The packet of a descriptor that is not ignored is not skipped.
LEMMA NotSkipped ==
  ASSUME NEW i \in Int, NEW j \in Int, Skipped(i, j), NEW k \in Int, i <= k, ~pkts[k].ignore
  PROVE  j <= k
BY DEF Skipped

\* What remains of skipped packets is skipped.
LEMMA SkippedPart ==
  ASSUME NEW i \in Int, NEW j \in Int, Skipped(i, j), NEW k \in Int, i <= k
  PROVE  Skipped(k, j)
BY DEF Skipped

\* The first packet has moved on to m, over ignored ones.
LEMMA SpannedAfterSkip ==
  ASSUME TypeOK, CursorsOK, UNCHANGED <<pkts, desc>>, PktTop' = PktTop,
         NEW s \in Int, NEW f \in Int, NEW r \in Int, s <= r, r <= f, NEW c, Listed(s, c, f), Spanned(s, f),
         NEW i \in Int, NEW m \in Int, PktFirst <= i, i <= m, Skipped(i, m), PktFirst' = m,
         \A k \in r..(f - 1) : i <= At(k).pkt,
         r < f => Skipped(i, At(r).pkt),
         r = f => Skipped(i, PktTop)
  PROVE  Spanned(r, f)'
<1> DEFINE t == PktTop
<1>1. t \in Int /\ t' = t
  BY ViewTypes
<1>2. ASSUME NEW k \in r..(f - 1) PROVE At(k)' = At(k) /\ At(k).pkt \in m..(t - 1)
  <2>1. DescOK(k, c) /\ At(k).pkt \in PktFirst..(t - 1)
    BY DEF Listed, Spanned
  <2>2. At(k).pkt \in Int /\ ~pkts[At(k).pkt].ignore /\ i <= At(k).pkt
    BY <2>1 DEF DescOK
  <2>3. m <= At(k).pkt
    BY <2>2, NotSkipped
  <2> QED
    BY <1>1, <2>1, <2>2, <2>3 DEF At
<1>3. \A a, b \in Int : Skipped(a, b)' <=> Skipped(a, b)
  BY DEF Skipped
<1>4. CASE r < f
  <2> DEFINE n == At(r).pkt
             e == At(f - 1).pkt
  <2>1. n \in Int /\ n' = n /\ e \in Int /\ e' = e /\ At(f - 1)'.last = At(f - 1).last
    BY <1>2, <1>4
  <2>2. Skipped(i, n) /\ At(f - 1).last /\ Skipped(e + 1, t)
    BY <1>4 DEF Spanned
  <2> HIDE DEF n, e, t
  <2>3. Skipped(m, n)'
    BY <1>3, <2>1, <2>2, SkippedPart
  <2>4. Skipped(e + 1, t)'
    BY <1>1, <1>3, <2>1, <2>2
  <2> QED
    BY <1>1, <1>2, <1>4, <2>1, <2>2, <2>3, <2>4 DEF Spanned, n, e, t
<1>5. CASE r = f
  <2> HIDE DEF t
  <2>1. Skipped(i, t)
    BY <1>5 DEF t
  <2>2. Skipped(m, t)'
    BY <1>1, <1>3, <2>1, SkippedPart
  <2> QED
    BY <1>1, <1>2, <1>5, <2>2 DEF Spanned, t
<1> QED
  BY <1>4, <1>5

\* Where the fragments begin that go with the packets from j on.
LEMMA SkipFragment ==
  ASSUME TypeOK, NEW k \in Nat \ {0}, k <= pktNext, pktNext <= pktEnd, NEW frag \in Nat \ {0}, frag <= fragEnd,
         PacketsOK, \A i \in k..Len(pkts) : frag <= pkts[i].frag
  PROVE  /\ SkipIgnoreFragment(k, frag) \in Nat \ {0}
         /\ frag <= SkipIgnoreFragment(k, frag) /\ SkipIgnoreFragment(k, frag) <= fragEnd
         /\ \A i \in SkipIgnorePackets(k)..Len(pkts) : SkipIgnoreFragment(k, frag) <= pkts[i].frag
<1> DEFINE j == SkipIgnorePackets(k)
           e == SkipIgnoreFragment(k, frag)
<1>1. pktNext \in Nat /\ Len(pkts) \in Nat /\ pktEnd = Len(pkts) + 1 /\ fragEnd \in Nat /\ pkts \in Seq(Packets)
  BY DEF TypeOK, pktEnd
<1>2. j \in k..pktNext
  BY <1>1, SkipProperties
<1>3. e = IF j = pktNext THEN frag ELSE pkts[j].frag
  BY DEF SkipIgnoreFragment
<1> HIDE DEF j, e
<1>4. \A i \in 1..Len(pkts) : /\ pkts[i].frag \in Nat \ {0} /\ FragmentCount(pkts[i]) \in Nat
                              /\ pkts[i].frag + FragmentCount(pkts[i]) <= fragEnd
  <2> SUFFICES ASSUME NEW i \in 1..Len(pkts)
               PROVE  /\ pkts[i].frag \in Nat \ {0} /\ FragmentCount(pkts[i]) \in Nat
                      /\ pkts[i].frag + FragmentCount(pkts[i]) <= fragEnd
    OBVIOUS
  <2>1. pkts[i] \in Packets
    BY <1>1
  <2> QED
    BY <2>1, PacketTyped DEF PacketsOK
<1>5. CASE j = pktNext
  <2>1. e = frag
    BY <1>3, <1>5
  <2>2. \A i \in j..Len(pkts) : frag <= pkts[i].frag
    BY <1>1, <1>2
  <2> QED
    BY <2>1, <2>2 DEF j, e
<1>6. CASE j # pktNext
  <2>1. e = pkts[j].frag /\ j \in 1..Len(pkts) /\ j \in k..Len(pkts)
    BY <1>1, <1>2, <1>3, <1>6
  <2>2. e \in Nat \ {0} /\ frag <= e /\ e <= fragEnd
    <3>1. FragmentCount(pkts[j]) \in Nat /\ pkts[j].frag + FragmentCount(pkts[j]) <= fragEnd /\ pkts[j].frag \in Nat \ {0}
      BY <1>4, <2>1
    <3>2. frag <= pkts[j].frag
      BY <2>1
    <3> QED
      BY <1>1, <2>1, <3>1, <3>2
  <2>3. ASSUME NEW i \in j..Len(pkts) PROVE e <= pkts[i].frag
    <3>1. CASE i = j
      BY <2>1, <2>2, <3>1
    <3>2. CASE i # j
      <4>1. i \in 1..Len(pkts) /\ j < i
        BY <1>1, <2>1, <3>2
      <4>2. pkts[j].frag + FragmentCount(pkts[j]) <= pkts[i].frag
        BY <2>1, <4>1 DEF PacketsOK
      <4>3. FragmentCount(pkts[j]) \in Nat /\ pkts[j].frag \in Nat /\ pkts[i].frag \in Nat
        BY <1>4, <2>1, <4>1
      <4> QED
        BY <2>1, <4>2, <4>3
    <3> QED
      BY <3>1, <3>2
  <2> QED
    BY <2>2, <2>3 DEF j, e
<1> QED
  BY <1>5, <1>6

\* TxQueueAdvance begins: the cursors are read.
LEMMA AdvanceHolds ==
  ASSUME IInv, Advance,
         \/ phase = "running" /\ phase' = phase
         \/ phase = "draining" /\ dma.pkt = NoPacket /\ phase' = "lastAdvance"
  PROVE  IInv'
<1> USE DEF IInv
<1> DEFINE m == SkipIgnorePackets(pktBegin)
           e == SkipIgnoreFragment(pktBegin, fragBegin)
<1>1. /\ pc = "idle" /\ pc' = "reclaim" /\ descIndex' = descBegin /\ pktIndex' = m /\ pktFragIndex' = e
      /\ UNCHANGED <<pkts, pktBegin, pktNext, fragBegin, fragEnd, base, descBegin, descEnd, lastMss, lastVlanTag,
                     desc, dma, wire>>
  BY DEF Advance, ringVars, ctxVars
<1>2. Serving /\ Serving' /\ CursorsOK /\ CacheOK
  BY DEF Serving, ServingOK
<1>3. /\ PktFirst = pktBegin /\ FragFirst = fragBegin /\ PktTop = pktNext /\ Start = descBegin /\ End = descEnd
      /\ PktFirst' = m /\ FragFirst' = e /\ PktTop' = pktNext /\ Start' = descBegin /\ End' = descEnd
  BY <1>1 DEF PktFirst, FragFirst, PktTop, Start, End
<1>4. /\ pktBegin \in Nat \ {0} /\ pktNext \in Nat \ {0} /\ pktBegin <= pktNext /\ pktNext <= pktEnd
      /\ fragBegin \in Nat \ {0} /\ fragBegin <= fragEnd /\ \A k \in pktBegin..Len(pkts) : fragBegin <= pkts[k].frag
  BY <1>2, <1>3 DEF CursorsOK, TypeOK
<1>5. /\ m \in pktBegin..pktNext /\ Skipped(pktBegin, m) /\ (m = pktNext \/ ~pkts[m].ignore)
  BY <1>4, SkipProperties
<1>6. /\ e \in Nat \ {0} /\ fragBegin <= e /\ e <= fragEnd /\ \A k \in m..Len(pkts) : e <= pkts[k].frag
  BY <1>4, SkipFragment
<1> HIDE DEF m, e
<1>7. TypeOK'
  <2>1. m \in Nat \ {0}
    BY <1>4, <1>5
  <2> QED
    BY <1>1, <1>6, <2>1 DEF TypeOK
<1>8. PktsKept /\ PacketsOK' /\ WireOK'
  BY <1>1, SameRings
<1>9. PhaseOK'
  BY <1>1 DEF PhaseOK, pktEnd
<1>10. CursorsOK'
  <2>1. base' <= pktBegin' /\ pktBegin' <= PktFirst' /\ PktFirst' <= pktNext' /\ pktNext' <= PktTop' /\ PktTop' <= pktEnd'
    BY <1>1, <1>2, <1>3, <1>4, <1>5 DEF CursorsOK, pktEnd
  <2>2. fragBegin' <= FragFirst' /\ FragFirst' <= fragEnd' /\ \A k \in PktFirst'..Len(pkts') : FragFirst' <= pkts'[k].frag
    BY <1>1, <1>3, <1>6
  <2>3. pc' = "reclaim" => pktIndex' = pktNext' \/ ~pkts'[pktIndex'].ignore
    BY <1>1, <1>5
  <2> QED
    BY <2>1, <2>2, <2>3 DEF CursorsOK
<1>11. PICK b, s, c, g, f \in Int : RingOK(b, s, c, g, f)
  BY <1>2, Ring
<1>12. /\ PlaceOK(b, s, c, g, f) /\ Listed(s, c, f) /\ Spanned(s, f) /\ Whole(s, g, f) /\ s <= c /\ c <= g /\ g <= f
  BY <1>11 DEF RingOK, ChainOK, PlaceOK
<1>13. PlaceOK(b, s, c, g, f)'
  <2>1. f = g
    BY <1>1, <1>12 DEF PlaceOK
  <2> QED
    BY <1>1, <1>3, <1>12, <2>1 DEF PlaceOK
<1>14. /\ CacheOK' /\ Listed(s, c, f)' /\ Linked(s, f)' /\ Sorted(s, f)'
       /\ EngineOK(c, g, f)' /\ SentOK(Current(c, f))'
  <2>1. CacheKept /\ EngineKept
    BY <1>1 DEF CacheKept, EngineKept
  <2> QED
    BY <1>1, <1>2, <1>3, <1>8, <1>11, <1>12, <2>1, Quiet
<1>15. Spanned(s, f)'
  <2>1. /\ \A k \in s..(f - 1) : PktFirst <= At(k).pkt
        /\ s < f => Skipped(PktFirst, At(s).pkt)
        /\ s = f => Skipped(PktFirst, PktTop)
    <3>1. \A k \in s..(f - 1) : At(k).pkt \in PktFirst..(PktTop - 1)
      BY <1>12 DEF Spanned
    <3> QED
      BY <1>12, <3>1 DEF Spanned
  <2> DEFINE i == PktFirst
  <2>2. i \in Int /\ i = pktBegin /\ PktFirst <= i
    BY <1>3, <1>4
  <2>3. s <= s /\ s <= f /\ m \in Int /\ i <= m /\ Skipped(i, m) /\ PktFirst' = m /\ PktTop' = PktTop
    BY <1>3, <1>4, <1>5, <1>12, <2>2
  <2> HIDE DEF i
  <2>4. \A k \in s..(f - 1) : i <= At(k).pkt
    BY <2>1 DEF i
  <2>5. (s < f => Skipped(i, At(s).pkt)) /\ (s = f => Skipped(i, PktTop))
    BY <2>1 DEF i
  <2> QED
    BY <1>1, <1>2, <1>12, <2>2, <2>3, <2>4, <2>5, SpannedAfterSkip
<1>16. Whole(s, g, f)'
  BY <1>1, <1>12 DEF Whole, At
<1>17. ServingOK'
  BY <1>10, <1>13, <1>14, <1>15, <1>16, Assembled
<1> QED
  BY <1>7, <1>8, <1>9, <1>17

\* One descriptor of the ring is looked at and its packet, if done, passed.
LEMMA ReclaimOneHolds ==
  ASSUME IInv, ReclaimOne
  PROVE  IInv'
<1> USE DEF IInv
<1>1. /\ pc = "reclaim" /\ descIndex # descEnd /\ ~desc[descIndex].own /\ descIndex' = NextDesc(descIndex)
      /\ UNCHANGED <<pkts, pktBegin, pktNext, fragBegin, fragEnd, base, descBegin, descEnd, lastMss, lastVlanTag,
                     desc, phase, pc, dma, wire>>
  BY DEF ReclaimOne, ringVars, ctxVars, HandedBack
<1>2. Serving /\ Serving' /\ CursorsOK /\ CacheOK
  BY <1>1 DEF Serving, ServingOK, PhaseOK
<1>3. /\ PktFirst = pktIndex /\ FragFirst = pktFragIndex /\ PktTop = pktNext /\ Start = descIndex /\ End = descEnd
      /\ PktFirst' = pktIndex' /\ FragFirst' = pktFragIndex' /\ PktTop' = pktNext /\ Start' = descIndex' /\ End' = descEnd
  BY <1>1 DEF PktFirst, FragFirst, PktTop, Start, End
<1>4. /\ pktIndex \in Nat \ {0} /\ pktNext \in Nat \ {0} /\ pktIndex <= pktNext /\ pktNext <= pktEnd
      /\ pktFragIndex \in Nat \ {0} /\ fragBegin \in Nat \ {0} /\ fragEnd \in Nat \ {0}
      /\ fragBegin <= pktFragIndex /\ pktFragIndex <= fragEnd
      /\ \A k \in pktIndex..Len(pkts) : pktFragIndex <= pkts[k].frag
      /\ pktIndex = pktNext \/ ~pkts[pktIndex].ignore
      /\ base <= pktBegin /\ pktBegin <= pktIndex /\ pktBegin \in Nat \ {0} /\ base \in Nat \ {0}
      /\ pktEnd = Len(pkts) + 1 /\ Len(pkts) \in Nat /\ pkts \in Seq(Packets)
  BY <1>1, <1>2, <1>3 DEF CursorsOK, TypeOK, pktEnd
<1>5. PICK b, s, c, g, f \in Int : RingOK(b, s, c, g, f)
  BY <1>2, Ring
<1>6. /\ PlaceOK(b, s, c, g, f) /\ Listed(s, c, f) /\ Linked(s, f) /\ Sorted(s, f) /\ Spanned(s, f) /\ Whole(s, g, f)
      /\ b <= s /\ s <= c /\ c <= g /\ g = f /\ descIndex = Masked(s) /\ descEnd = Masked(g)
  BY <1>1, <1>3, <1>5 DEF RingOK, ChainOK, PlaceOK
<1>7. s < f /\ s < c
  <2>1. s # g
    BY <1>1, <1>6
  <2>2. s < f /\ s \in s..(f - 1)
    BY <1>6, <2>1
  <2>3. At(s).own <=> s >= c
    BY <1>6, <2>2 DEF Listed, DescOK
  <2> QED
    BY <1>1, <1>6, <2>2, <2>3 DEF At
<1> DEFINE q == At(s).pkt
<1>8. /\ q = pktIndex /\ pktIndex < pktNext /\ pktIndex \in 1..Len(pkts)
      /\ s \in s..(f - 1) /\ (At(s).ctx => ~At(s).last)
  <2>1. q \in PktFirst..(PktTop - 1) /\ Skipped(PktFirst, q) /\ (At(s).ctx => ~At(s).last) /\ s \in s..(f - 1)
    BY <1>6, <1>7 DEF Spanned, Listed, DescOK
  <2> HIDE DEF q
  <2>2. q \in pktIndex..(pktNext - 1) /\ Skipped(pktIndex, q)
    BY <1>3, <2>1
  <2>3. pktIndex < pktNext /\ ~pkts[pktIndex].ignore
    BY <1>4, <2>2
  <2>4. q <= pktIndex
    BY <1>4, <2>2, <2>3, NotSkipped
  <2> QED
    BY <1>4, <2>1, <2>2, <2>3, <2>4 DEF q
<1> HIDE DEF q
<1> DEFINE m == pktIndex'
           e == pktFragIndex'
<1>9. /\ m \in pktIndex..pktNext /\ (m = pktNext \/ ~pkts[m].ignore)
      /\ e \in Nat \ {0} /\ pktFragIndex <= e /\ e <= fragEnd
      /\ \A k \in m..Len(pkts) : e <= pkts[k].frag
      /\ Spanned(s + 1, f)'
  <2>1. CASE At(s).last
    <3> DEFINE i == pktIndex + 1
               h == pkts[pktIndex].frag + FragmentCount(pkts[pktIndex])
    <3>1. m = SkipIgnorePackets(i) /\ e = SkipIgnoreFragment(i, h)
      BY <1>6, <1>8, <2>1 DEF ReclaimOne, At
    <3>2. /\ h \in Nat \ {0} /\ h <= fragEnd /\ pktFragIndex <= h /\ pkts[pktIndex].frag \in Nat
          /\ \A k \in i..Len(pkts) : h <= pkts[k].frag
      <4>1. pkts[pktIndex] \in Packets
        BY <1>4, <1>8
      <4>2. pkts[pktIndex].frag \in Nat \ {0} /\ FragmentCount(pkts[pktIndex]) \in Nat /\ pktFragIndex <= pkts[pktIndex].frag
        BY <1>4, <1>8, <4>1, PacketTyped
      <4>3. h \in Nat \ {0} /\ pktFragIndex <= h
        BY <1>4, <4>2, SMTT(40)
      <4>4. h <= fragEnd
        BY <1>8 DEF PacketsOK
      <4>5. ASSUME NEW k \in i..Len(pkts) PROVE h <= pkts[k].frag
        <5>1. k \in 1..Len(pkts) /\ pktIndex < k
          BY <1>4
        <5> QED
          BY <1>8, <5>1 DEF PacketsOK
      <4> QED
        BY <4>2, <4>3, <4>4, <4>5
    <3>3. i \in Nat \ {0} /\ i <= pktNext /\ pktIndex <= i /\ pktNext \in Int /\ i \in Int
      BY <1>4, <1>8
    <3> HIDE DEF i, h
    <3>4. /\ m \in i..pktNext /\ Skipped(i, m) /\ (m = pktNext \/ ~pkts[m].ignore)
      BY <3>1, <3>3, SkipProperties
    <3>5. e \in Nat \ {0} /\ h <= e /\ e <= fragEnd /\ \A k \in m..Len(pkts) : e <= pkts[k].frag
      BY <1>4, <3>1, <3>2, <3>3, SkipFragment
    <3>6. m \in pktIndex..pktNext /\ pktFragIndex <= e /\ m \in Int /\ i <= m
      BY <1>4, <3>2, <3>3, <3>4, <3>5
    <3>7. Spanned(s + 1, f)'
      <4>1. \A k \in s + 1..(f - 1) : i <= At(k).pkt
        <5> SUFFICES ASSUME NEW k \in s + 1..(f - 1) PROVE i <= At(k).pkt
          OBVIOUS
        <5>1. k \in s..(f - 1) /\ s < k
          BY <1>7
        <5>2. q < At(k).pkt /\ At(k).pkt \in Int
          BY <1>6, <1>8, <2>1, <5>1 DEF Sorted, Ordered, q, Listed, DescOK
        <5> QED
          BY <1>4, <1>8, <5>2 DEF i
      <4>2. s + 1 < f => Skipped(i, At(s + 1).pkt)
        <5> HAVE s + 1 < f
        <5>1. s \in s..(f - 2)
          OBVIOUS
        <5>2. Skipped(q + 1, At(s + 1).pkt)
          BY <1>6, <2>1, <5>1 DEF Linked, Follows, q
        <5> QED
          BY <1>8, <5>2 DEF i
      <4>3. s + 1 = f => Skipped(i, PktTop)
        <5> HAVE s + 1 = f
        <5>1. f - 1 = s
          OBVIOUS
        <5>2. Skipped(q + 1, PktTop)
          BY <1>6, <1>7, <5>1 DEF Spanned, q
        <5> QED
          BY <1>8, <5>2 DEF i
      <4>4. s <= s + 1 /\ s + 1 <= f /\ s + 1 \in Int /\ PktFirst <= i /\ PktFirst' = m /\ PktTop' = PktTop
        BY <1>3, <1>7, <3>3
      <4> HIDE DEF m
      <4> QED
        BY <1>1, <1>2, <1>6, <3>3, <3>4, <3>6, <4>1, <4>2, <4>3, <4>4, SpannedAfterSkip
    <3> QED
      BY <3>4, <3>5, <3>6, <3>7
  <2>2. CASE ~At(s).last
    <3>1. m = pktIndex /\ e = pktFragIndex
      BY <1>6, <2>2 DEF ReclaimOne, At
    <3>2. At(f - 1).last
      BY <1>6, <1>7 DEF Spanned
    <3>3. s + 1 < f /\ s \in s..(f - 2)
      <4>1. s # f - 1
        BY <2>2, <3>2
      <4> QED
        BY <1>7, <4>1
    <3>4. At(s + 1).pkt = q
      BY <1>6, <2>2, <3>3 DEF Linked, Follows, q
    <3>5. Spanned(s + 1, f)'
      <4> DEFINE i == PktFirst
      <4>1. i \in Int /\ i = pktIndex /\ PktFirst <= i /\ m \in Int /\ i <= m
        BY <1>3, <1>4, <3>1
      <4>2. \A k \in s + 1..(f - 1) : i <= At(k).pkt
        <5>1. \A k \in s..(f - 1) : At(k).pkt \in i..(PktTop - 1)
          BY <1>6 DEF Spanned
        <5> QED
          BY <1>7, <5>1
      <4>3. Skipped(i, At(s + 1).pkt)
        BY <1>6, <1>7, <3>4 DEF Spanned, q
      <4>4. s <= s + 1 /\ s + 1 <= f /\ s + 1 \in Int /\ PktFirst' = m /\ PktTop' = PktTop /\ Skipped(i, m)
        BY <1>3, <1>4, <1>7, <3>1 DEF Skipped
      <4> HIDE DEF i, m
      <4> QED
        BY <1>1, <1>2, <1>6, <3>3, <4>1, <4>2, <4>3, <4>4, SpannedAfterSkip
    <3> QED
      BY <1>4, <3>1, <3>5
  <2> QED
    BY <2>1, <2>2
<1>10. TypeOK'
  <2>1. m \in Nat \ {0} /\ e \in Nat \ {0}
    BY <1>4, <1>9
  <2>2. descIndex' \in DescIndexes
    BY <1>1, NextTyped DEF TypeOK
  <2> QED
    BY <1>1, <2>1, <2>2 DEF TypeOK
<1>11. PktsKept /\ PacketsOK' /\ WireOK'
  BY <1>1, SameRings
<1>12. PhaseOK'
  BY <1>1 DEF PhaseOK, pktEnd
<1>13. CursorsOK'
  <2>1. base' <= pktBegin' /\ pktBegin' <= PktFirst' /\ PktFirst' <= pktNext' /\ pktNext' <= PktTop' /\ PktTop' <= pktEnd'
    BY <1>1, <1>3, <1>4, <1>9 DEF pktEnd
  <2>2. fragBegin' <= FragFirst' /\ FragFirst' <= fragEnd' /\ \A k \in PktFirst'..Len(pkts') : FragFirst' <= pkts'[k].frag
    BY <1>1, <1>3, <1>4, <1>9
  <2>3. pc' = "reclaim" => pktIndex' = pktNext' \/ ~pkts'[pktIndex'].ignore
    BY <1>1, <1>9
  <2> QED
    BY <2>1, <2>2, <2>3 DEF CursorsOK
<1> DEFINE r == s + 1
<1>14. r \in Int /\ s <= r /\ r <= c /\ b <= r /\ r <= f
  BY <1>6, <1>7
<1>15. PlaceOK(b, r, c, g, f)'
  <2>1. descIndex' = Masked(r)
    BY <1>1, <1>6, MaskedNext
  <2> HIDE DEF r
  <2> QED
    BY <1>1, <1>3, <1>6, <1>14, <2>1 DEF PlaceOK
<1>16. /\ CacheOK' /\ Listed(r, c, f)' /\ Linked(r, f)' /\ Sorted(r, f)'
       /\ EngineOK(c, g, f)' /\ SentOK(Current(c, f))'
  <2>1. CacheKept /\ EngineKept
    BY <1>1 DEF CacheKept, EngineKept
  <2>2. g <= g /\ g <= f /\ PktTop' = PktTop
    BY <1>3, <1>6
  <2> HIDE DEF r
  <2> QED
    BY <1>1, <1>2, <1>5, <1>11, <1>14, <2>1, <2>2, Quiet
<1>17. Whole(r, g, f)'
  <2>1. r < g => At(g - 1).last
    BY <1>6, <1>7 DEF Whole
  <2> HIDE DEF r
  <2>2. (r < g => At(g - 1)'.last) /\ pc' # "fill"
    BY <1>1, <2>1 DEF At
  <2> QED
    BY <2>2 DEF Whole
<1>18. ServingOK'
  <2>1. Spanned(r, f)'
    BY <1>9
  <2> HIDE DEF r
  <2> QED
    BY <1>13, <1>14, <1>15, <1>16, <1>17, <2>1, Assembled
<1> QED
  BY <1>10, <1>11, <1>12, <1>18

\* The packets and descriptors passed are returned.
LEMMA ReclaimDoneHolds ==
  ASSUME IInv, ReclaimDone
  PROVE  IInv'
<1> USE DEF IInv
<1>1. /\ pc = "reclaim" /\ pc' = "fill" /\ pktBegin' = pktIndex /\ fragBegin' = pktFragIndex /\ descBegin' = descIndex
      /\ pktIndex' = pktNext /\ descIndex' = descEnd
      /\ UNCHANGED <<pkts, pktNext, fragEnd, base, descEnd, lastMss, lastVlanTag, desc, phase, pktFragIndex, dma, wire>>
  BY DEF ReclaimDone
<1>2. Serving /\ Serving' /\ CursorsOK /\ CacheOK
  BY <1>1 DEF Serving, ServingOK, PhaseOK
<1>3. /\ PktFirst = pktIndex /\ FragFirst = pktFragIndex /\ PktTop = pktNext /\ Start = descIndex /\ End = descEnd
      /\ PktFirst' = PktFirst /\ FragFirst' = FragFirst /\ PktTop' = PktTop /\ Start' = Start /\ End' = End
  BY <1>1 DEF PktFirst, FragFirst, PktTop, Start, End
<1>4. TypeOK'
  BY <1>1 DEF TypeOK
<1>5. PktsKept /\ PacketsOK' /\ WireOK'
  BY <1>1, SameRings
<1>6. PhaseOK'
  BY <1>1, <1>2, <1>3 DEF PhaseOK, CursorsOK, Serving
<1>7. CursorsOK'
  <2>1. pktNext <= pktEnd /\ fragBegin' <= FragFirst' /\ pktBegin' <= PktFirst' /\ base' <= pktBegin'
    BY <1>1, <1>2, <1>3 DEF CursorsOK, TypeOK
  <2> QED
    BY <1>1, <1>2, <1>3, <2>1 DEF CursorsOK, pktEnd
<1>8. PICK b, s, c, g, f \in Int : RingOK(b, s, c, g, f)
  BY <1>2, Ring
<1>9. /\ PlaceOK(b, s, c, g, f) /\ Spanned(s, f) /\ Whole(s, g, f) /\ s <= c /\ c <= g /\ g <= f
  BY <1>8 DEF RingOK, ChainOK, PlaceOK
<1>10. PlaceOK(s, s, c, g, f)'
  <2>1. f < s + DescCount
    BY <1>9, DescCountAssumption DEF PlaceOK
  <2> QED
    BY <1>1, <1>3, <1>9, <2>1 DEF PlaceOK
<1>11. /\ CacheOK' /\ Listed(s, c, f)' /\ Linked(s, f)' /\ Sorted(s, f)'
       /\ EngineOK(c, g, f)' /\ SentOK(Current(c, f))'
  <2>1. CacheKept /\ EngineKept
    BY <1>1 DEF CacheKept, EngineKept
  <2> QED
    BY <1>1, <1>2, <1>3, <1>5, <1>8, <1>9, <2>1, Quiet
<1>12. Spanned(s, f)'
  BY <1>1, <1>2, <1>3, <1>5, <1>9, SpannedFrame DEF DescsKept, At
<1>13. Whole(s, g, f)'
  <2>1. Skipped(pktNext', pktIndex')
    BY <1>1 DEF Skipped, TypeOK
  <2> QED
    BY <1>1, <1>9, <2>1 DEF Whole, At, Skipped
<1>14. ServingOK'
  BY <1>7, <1>10, <1>11, <1>12, <1>13, Assembled
<1> QED
  BY <1>4, <1>5, <1>6, <1>14

\* The end of the packets queued moves over ignored ones, either way.
LEMMA TopMoves ==
  ASSUME TypeOK, WireOK, CursorsOK, CacheOK, UNCHANGED <<pkts, base, desc, dma, wire, lastMss, lastVlanTag>>,
         PktFirst' = PktFirst,
         NEW u \in Nat \ {0}, PktTop' = u, PktFirst <= u, u <= Len(pkts) + 1, Skipped(PktTop, u), Skipped(u, PktTop),
         NEW b \in Int, NEW s \in Int, NEW c \in Int, NEW g \in Int, NEW f \in Int, RingOK(b, s, c, g, f)
  PROVE  /\ CacheOK' /\ Listed(s, c, f)' /\ Linked(s, f)' /\ Sorted(s, f)' /\ Spanned(s, f)'
         /\ EngineOK(c, g, f)' /\ SentOK(Current(c, f))'
<1> DEFINE t == PktTop
           i == PktFirst
<1>1. /\ Listed(s, c, f) /\ Linked(s, f) /\ Sorted(s, f) /\ Spanned(s, f) /\ EngineOK(c, g, f) /\ SentOK(Current(c, f))
      /\ s <= c /\ c <= g /\ g <= f
  BY DEF RingOK, ChainOK, PlaceOK
<1>2. /\ t \in Nat \ {0} /\ i \in Nat \ {0} /\ base \in Nat \ {0} /\ base <= i /\ i <= t /\ t <= Len(pkts) + 1
      /\ Len(pkts) \in Nat /\ pkts \in Seq(Packets) /\ i' = i /\ t' = u
  BY ViewTypes
<1>3. PktsKept /\ EngineKept /\ DescsKept(s, f) /\ DescsKept(c, f)
  BY <1>2 DEF PktsKept, EngineKept, DescsKept, At
<1>4. \A o \in Offloads : (\A v : Latest(o, t, v) <=> Latest(o, u, v)) /\ (Knows(o, t) <=> Knows(o, u))
  <2> SUFFICES ASSUME NEW o \in Offloads, NEW v PROVE (Latest(o, t, v) <=> Latest(o, u, v)) /\ (Knows(o, t) <=> Knows(o, u))
    OBVIOUS
  <2>1. Unused(o, t, u) /\ Unused(o, u, t)
    BY <1>2, SkippedUnused
  <2> HIDE DEF t
  <2>2. CASE t <= u
    BY <1>2, <2>1, <2>2, LatestSame, KnowsSame
  <2>3. CASE u <= t
    BY <1>2, <2>1, <2>3, LatestSame, KnowsSame
  <2> QED
    BY <1>2, <2>2, <2>3
<1>5. CacheOK'
  <2> SUFFICES ASSUME NEW o \in Offloads PROVE Latest(o, PktTop, Cached(o))'
    BY DEF CacheOK
  <2> DEFINE v == Cached(o)
  <2>1. Latest(o, u, v) /\ v' = v
    BY <1>4 DEF CacheOK, Cached
  <2> HIDE DEF t
  <2>2. ASSUME NEW k \in Int, NEW w, k = u, w = v PROVE Latest(o, k, w)'
    BY <1>2, <1>3, <2>1, <2>2, LatestFrame
  <2>3. PktTop' = u
    OBVIOUS
  <2> QED
    BY <2>1, <2>2, <2>3
<1>6. Listed(s, c, f)' /\ Linked(s, f)' /\ Sorted(s, f)'
  <2> HIDE DEF t, i
  <2> QED
    BY <1>1, <1>2, <1>3, BodyFrame
<1>7. \A a, e \in Int : Skipped(a, e)' <=> Skipped(a, e)
  BY DEF Skipped
<1>8. ASSUME NEW k \in s..(f - 1)
      PROVE  At(k)' = At(k) /\ At(k).pkt \in Int /\ At(k).pkt \in i..(u - 1)
  <2>1. At(k)' = At(k) /\ At(k).pkt \in i..(t - 1) /\ ~pkts[At(k).pkt].ignore
    BY <1>1, <1>3 DEF DescsKept, Spanned, Listed, DescOK
  <2>2. ASSUME u <= At(k).pkt PROVE FALSE
    BY <1>2, <2>1, <2>2 DEF Skipped
  <2> QED
    BY <1>2, <2>1, <2>2
<1>9. ASSUME NEW a \in Int, Skipped(a, t) PROVE Skipped(a, u)
  BY <1>2, <1>9 DEF Skipped
<1>10. Spanned(s, f)'
  <2>1. CASE s < f
    <3> DEFINE m == At(s).pkt
               n == At(f - 1).pkt
    <3>1. m \in Int /\ m' = m /\ n \in Int /\ n' = n /\ At(f - 1)'.last = At(f - 1).last
      BY <1>8, <2>1
    <3>2. Skipped(i, m) /\ At(f - 1).last /\ Skipped(n + 1, t)
      BY <1>1, <2>1 DEF Spanned
    <3> HIDE DEF i, t, m, n
    <3>3. Skipped(i, m)' /\ Skipped(n + 1, u)'
      BY <1>2, <1>7, <1>9, <3>1, <3>2
    <3> QED
      BY <1>2, <1>8, <2>1, <3>1, <3>2, <3>3 DEF Spanned, i, t, m, n
  <2>2. CASE s = f
    <3>1. Skipped(i, t)
      BY <1>1, <2>2 DEF Spanned
    <3> HIDE DEF i, t
    <3>2. Skipped(i, u)'
      BY <1>2, <1>7, <1>9, <3>1
    <3> QED
      BY <1>2, <1>8, <2>2, <3>2 DEF Spanned, i, t
  <2> QED
    BY <1>1, <2>1, <2>2
<1>11. CASE c < f
  <2>1. EngineOK(c, g, f)' /\ Current(c, f)' = Current(c, f)
    BY <1>1, <1>3, <1>11, EngineFrame
  <2> DEFINE n == Current(c, f)
  <2>2. n \in i..t
    BY <1>1, CurrentBound
  <2>3. SentOK(n) /\ n' = n
    BY <1>1, <2>1
  <2> HIDE DEF n, i, t
  <2>4. n \in Int /\ n <= Len(pkts) + 1
    BY <1>2, <2>2
  <2>5. ASSUME NEW k \in Int, k = n PROVE SentOK(k)'
    BY <1>3, <2>3, <2>4, <2>5, SentFrame
  <2>6. SentOK(n)'
    BY <2>3, <2>4, <2>5
  <2> QED
    BY <1>5, <1>6, <1>10, <2>1, <2>6 DEF n
<1>12. CASE c = f
  <2>1. dma.pkt = NoPacket /\ dma'.pkt = NoPacket /\ \A o \in Offloads : Knows(o, t)
    BY <1>1, <1>12 DEF EngineOK
  <2>2. \A o \in Offloads : Knows(o, PktTop)'
    <3> SUFFICES ASSUME NEW o \in Offloads, NEW k \in Int, k = u PROVE Knows(o, k)'
      OBVIOUS
    <3>1. Knows(o, k) /\ Context(o)' = Context(o)
      BY <1>4, <2>1 DEF Context
    <3> HIDE DEF t, i
    <3> QED
      BY <1>2, <1>3, <3>1, KnowsFrame
  <2>3. EngineOK(c, g, f)' /\ Current(c, f)' = u /\ Current(c, f) = t
    BY <1>12, <2>1, <2>2 DEF EngineOK, Current
  <2>4. SentOK(u)'
    <3>1. SentOK(t)
      BY <1>1, <2>3
    <3>2. \A k \in base..(u - 1) : pkts[k].ignore \/ Sent(k)
      BY <1>2, <3>1 DEF SentOK, Skipped
    <3>3. ASSUME NEW j \in DOMAIN wire PROVE wire[j].pkt < u
      <4>1. wire[j].pkt \in 1..Len(pkts) /\ ~pkts[wire[j].pkt].ignore /\ wire[j].pkt < t
        BY <3>1 DEF SentOK, WireOK
      <4>2. Skipped(u, t)
        OBVIOUS
      <4> DEFINE x == wire[j].pkt
      <4> HIDE DEF t, x
      <4>3. t <= x \/ x < u
        <5>1. x \in Int /\ ~pkts[x].ignore
          BY <4>1 DEF x
        <5> QED
          BY <1>2, <4>2, <5>1, NotSkipped
      <4> QED
        BY <1>2, <4>1, <4>3 DEF x
    <3> QED
      BY <3>2, <3>3 DEF SentOK, Sent
  <2>5. SentOK(Current(c, f))'
    BY <2>3, <2>4
  <2> QED
    BY <1>5, <1>6, <1>10, <2>3, <2>5
<1> QED
  BY <1>1, <1>11, <1>12

\* An ignored packet is passed over.
LEMMA FillIgnoredHolds ==
  ASSUME IInv, FillIgnored
  PROVE  IInv'
<1> USE DEF IInv
<1>1. /\ pc = "fill" /\ pktIndex # pktEnd /\ pkts[pktIndex].ignore /\ pktIndex' = pktIndex + 1
      /\ UNCHANGED <<pkts, pktBegin, pktNext, fragBegin, fragEnd, base, descBegin, descEnd, lastMss, lastVlanTag, desc,
                     phase, pc, descIndex, pktFragIndex, dma, wire>>
  BY DEF FillIgnored, CanFill, ringVars, ctxVars
<1>2. Serving /\ Serving' /\ CursorsOK /\ CacheOK
  BY <1>1 DEF Serving, ServingOK, PhaseOK
<1> DEFINE u == pktIndex + 1
<1>3. /\ PktTop = pktIndex /\ PktTop' = u /\ PktFirst' = PktFirst /\ FragFirst' = FragFirst /\ Start' = Start /\ End' = End
  BY <1>1 DEF PktFirst, FragFirst, PktTop, Start, End
<1>4. /\ pktIndex \in Nat \ {0} /\ pktIndex < pktEnd /\ pktEnd = Len(pkts) + 1 /\ Len(pkts) \in Nat
      /\ pktNext \in Nat /\ pktNext <= pktIndex /\ PktFirst \in Nat /\ PktFirst <= pktIndex /\ pktBegin \in Nat \ {0}
  BY <1>1, <1>2, <1>3, ViewTypes DEF CursorsOK, TypeOK
<1>5. u \in Nat \ {0} /\ u <= Len(pkts) + 1 /\ PktFirst <= u /\ Skipped(PktTop, u) /\ Skipped(u, PktTop)
  BY <1>1, <1>3, <1>4 DEF Skipped
<1>6. TypeOK'
  BY <1>1, <1>5 DEF TypeOK
<1>7. PktsKept /\ PacketsOK' /\ WireOK'
  BY <1>1, SameRings
<1>8. PhaseOK'
  BY <1>1 DEF PhaseOK, pktEnd
<1>9. CursorsOK'
  <2>1. pktNext' <= PktTop' /\ PktTop' <= pktEnd'
    BY <1>1, <1>3, <1>4 DEF pktEnd
  <2> QED
    BY <1>1, <1>2, <1>3, <2>1 DEF CursorsOK
<1>10. PICK b, s, c, g, f \in Int : RingOK(b, s, c, g, f)
  BY <1>2, Ring
<1>11. PlaceOK(b, s, c, g, f) /\ Whole(s, g, f)
  BY <1>10 DEF RingOK, ChainOK
<1>12. PlaceOK(b, s, c, g, f)'
  BY <1>1, <1>3, <1>11 DEF PlaceOK
<1>13. /\ CacheOK' /\ Listed(s, c, f)' /\ Linked(s, f)' /\ Sorted(s, f)' /\ Spanned(s, f)'
       /\ EngineOK(c, g, f)' /\ SentOK(Current(c, f))'
  <2> HIDE DEF u
  <2> QED
    BY <1>1, <1>2, <1>3, <1>5, <1>10, TopMoves
<1>14. Whole(s, g, f)'
  <2>1. g = f => Skipped(pktNext, u)
    BY <1>1, <1>3, <1>4, <1>11 DEF Whole, Skipped
  <2>2. s < g => At(g - 1).last
    BY <1>11 DEF Whole
  <2> QED
    BY <1>1, <2>1, <2>2 DEF Whole, At, Skipped
<1>15. ServingOK'
  BY <1>9, <1>12, <1>13, <1>14, Assembled
<1> QED
  BY <1>6, <1>7, <1>8, <1>15

\* The cursor is stored and the tail pointer moved.
LEMMA FillDoneHolds ==
  ASSUME IInv, FillDone
  PROVE  IInv'
<1> USE DEF IInv
<1>1. /\ pc = "fill" /\ pc' = "idle" /\ phase' = IF phase = "lastAdvance" THEN "flushed" ELSE phase
      /\ UNCHANGED <<pkts, pktBegin, fragBegin, fragEnd, base, descBegin, lastMss, lastVlanTag, desc, descIndex, pktIndex,
                     pktFragIndex, wire>>
  BY DEF FillDone, locals
<1>2. /\ descIndex # descEnd => descEnd' = descIndex /\ dma' = [dma EXCEPT !.tail = descIndex] /\ pktNext' = pktIndex
      /\ descIndex = descEnd => UNCHANGED <<descEnd, dma, pktNext>>
  BY DEF FillDone, Commit, SetDescEnd
<1>3. Serving /\ CursorsOK /\ CacheOK /\ phase \in {"running", "lastAdvance"}
  BY <1>1 DEF Serving, ServingOK, PhaseOK
<1>4. /\ PktTop = pktIndex /\ PktTop' = pktNext' /\ PktFirst = pktBegin /\ PktFirst' = PktFirst
      /\ FragFirst' = FragFirst /\ Start' = Start /\ Start = descBegin /\ End = descIndex /\ End' = descEnd'
  BY <1>1 DEF PktFirst, FragFirst, PktTop, Start, End
<1>5. /\ pktIndex \in Nat \ {0} /\ pktNext \in Nat \ {0} /\ pktBegin \in Nat \ {0} /\ pktNext <= pktIndex
      /\ pktBegin <= pktNext /\ pktIndex <= pktEnd
  BY <1>1, <1>3, <1>4 DEF CursorsOK, TypeOK
<1>6. /\ dma' \in [on : BOOLEAN, cur : DescIndexes, tail : DescIndexes, tag : Tags, mss : Nat,
                   pkt : Nat, frameTag : Tags, frameMss : Nat]
      /\ dma'.on = dma.on /\ dma'.cur = dma.cur /\ EngineKept
      /\ descIndex # descEnd => dma'.tail = descIndex
      /\ descIndex = descEnd => dma'.tail = dma.tail
  BY <1>1, <1>2 DEF TypeOK, EngineKept
<1>7. TypeOK'
  <2>1. descEnd' \in DescIndexes /\ pktNext' \in Nat \ {0}
    BY <1>2, <1>5 DEF TypeOK
  <2> QED
    BY <1>1, <1>6, <2>1 DEF TypeOK
<1>8. PktsKept /\ PacketsOK' /\ WireOK'
  BY <1>1, SameRings
<1>9. PhaseOK'
  BY <1>1, <1>3, <1>6 DEF PhaseOK, pktEnd, EngineKept
<1>10. CursorsOK'
  <2>1. PktFirst' <= pktNext' /\ pktNext' <= PktTop' /\ PktTop' <= pktEnd'
    BY <1>1, <1>2, <1>4, <1>5 DEF pktEnd
  <2> QED
    BY <1>1, <1>3, <1>4, <2>1 DEF CursorsOK
<1>11. PICK b, s, c, g, f \in Int : RingOK(b, s, c, g, f)
  BY <1>3, Ring
<1>12. /\ PlaceOK(b, s, c, g, f) /\ Spanned(s, f) /\ Whole(s, g, f) /\ s <= c /\ c <= g /\ g <= f
       /\ s = b /\ f < b + DescCount /\ descIndex = Masked(f) /\ descEnd = Masked(g)
  BY <1>1, <1>4, <1>11 DEF RingOK, ChainOK, PlaceOK
\* What was written is given to the engine.
<1>13. CASE descIndex # descEnd
  <2>1. PlaceOK(b, s, c, f, f)'
    BY <1>1, <1>2, <1>4, <1>6, <1>12, <1>13 DEF PlaceOK
  <2>2. /\ CacheOK' /\ Listed(s, c, f)' /\ Linked(s, f)' /\ Sorted(s, f)'
        /\ EngineOK(c, f, f)' /\ SentOK(Current(c, f))'
    <3>1. CacheKept /\ PktTop' = PktTop /\ g <= f /\ f <= f
      BY <1>1, <1>2, <1>4, <1>12, <1>13 DEF CacheKept
    <3> QED
      BY <1>1, <1>3, <1>6, <1>8, <1>11, <1>12, <3>1, Quiet
  <2>3. Spanned(s, f)'
    BY <1>1, <1>2, <1>3, <1>4, <1>8, <1>12, <1>13, SpannedFrame DEF DescsKept, At
  <2>4. Whole(s, f, f)'
    BY <1>1, <1>12 DEF Spanned, Whole, At
  <2>5. ServingOK'
    BY <1>10, <2>1, <2>2, <2>3, <2>4, Assembled
  <2> QED
    BY <1>7, <1>8, <1>9, <2>5
\* Nothing was written: what was passed are ignored packets.
<1>14. CASE descIndex = descEnd
  <2>1. f = g
    <3>1. g <= f /\ f < g + DescCount
      BY <1>12, DescCountAssumption DEF PlaceOK
    <3> QED
      BY <1>12, <1>14, <3>1, MaskedSame
  <2>2. Skipped(pktNext, pktIndex)
    BY <1>1, <1>12, <2>1 DEF Whole
  <2> DEFINE u == pktNext
  <2>3. /\ u \in Nat \ {0} /\ u <= Len(pkts) + 1 /\ PktFirst <= u /\ Skipped(PktTop, u) /\ Skipped(u, PktTop)
        /\ PktTop' = u
    <3>1. Skipped(pktIndex, pktNext)
      BY <1>5 DEF Skipped
    <3>2. pktNext <= Len(pkts) + 1
      BY <1>5 DEF pktEnd, TypeOK
    <3> QED
      BY <1>2, <1>4, <1>5, <1>14, <2>2, <3>1, <3>2
  <2>4. PlaceOK(b, s, c, g, f)'
    BY <1>1, <1>2, <1>4, <1>6, <1>12, <1>14, <2>1 DEF PlaceOK
  <2>5. /\ CacheOK' /\ Listed(s, c, f)' /\ Linked(s, f)' /\ Sorted(s, f)' /\ Spanned(s, f)'
        /\ EngineOK(c, g, f)' /\ SentOK(Current(c, f))'
    <3> HIDE DEF u
    <3>1. UNCHANGED <<pkts, base, desc, dma, wire, lastMss, lastVlanTag>> /\ PktFirst' = PktFirst
      BY <1>1, <1>2, <1>4, <1>14
    <3> QED
      BY <1>3, <1>11, <2>3, <3>1, TopMoves
  <2>6. Whole(s, g, f)'
    BY <1>1, <1>12 DEF Whole, At
  <2>7. ServingOK'
    BY <1>10, <2>4, <2>5, <2>6, Assembled
  <2> QED
    BY <1>7, <1>8, <1>9, <2>7
<1> QED
  BY <1>13, <1>14

\* Once round the ring is the same descriptor again.
LEMMA MaskedAround ==
  \A x \in Int : Masked(x + DescCount) = Masked(x)
<1> SUFFICES ASSUME NEW x \in Int PROVE Masked(x + DescCount) = Masked(x)
  OBVIOUS
<1> DEFINE q == x \div DescCount
           m == Masked(x)
<1>1. q \in Int /\ m \in DescIndexes /\ x = DescCount * q + m
  BY Division
<1> HIDE DEF q, m
<1>2. x + DescCount = DescCount * (q + 1) + m /\ q + 1 \in Int
  BY <1>1, DescCountAssumption DEF DescIndexes
<1>3. Masked(DescCount * (q + 1) + m) = m
  BY <1>1, <1>2, Remainder
<1> QED
  BY <1>2, <1>3 DEF m

\* n descriptors on.
LEMMA MaskedPlus ==
  \A x, n \in Int : Masked(Masked(x) + n) = Masked(x + n)
<1> SUFFICES ASSUME NEW x \in Int, NEW n \in Int PROVE Masked(Masked(x) + n) = Masked(x + n)
  OBVIOUS
<1> DEFINE q == x \div DescCount
           m == Masked(x)
           y == m + n
           e == y \div DescCount
           r == Masked(y)
<1>1. q \in Int /\ m \in DescIndexes /\ x = DescCount * q + m
  BY Division
<1>2. y \in Int
  BY <1>1, DescCountAssumption DEF DescIndexes
<1>3. e \in Int /\ r \in DescIndexes /\ y = DescCount * e + r
  BY <1>2, Division
<1>4. y = m + n
  OBVIOUS
<1> HIDE DEF q, m, y, e, r
<1>5. x + n = DescCount * q + y
  BY <1>1, <1>4, DescCountAssumption DEF DescIndexes
<1>6. q + e \in Int /\ DescCount * (q + e) = DescCount * q + DescCount * e
  BY <1>1, <1>3, DescCountAssumption
<1>7. x + n = DescCount * (q + e) + r
  BY <1>1, <1>3, <1>5, <1>6, DescCountAssumption DEF DescIndexes
<1>8. Masked(DescCount * (q + e) + r) = r
  BY <1>3, <1>6, Remainder
<1> QED
  BY <1>7, <1>8 DEF r, y, m

\* The n descriptors d now begin at the f-th.
LaidOut(f, d, n) == \A j \in 1..n : At(f + j - 1)' = d[j]

\* The descriptors written, and those left alone.
LEMMA Written ==
  ASSUME NEW b \in Int, NEW f \in Int, b <= f, desc \in [DescIndexes -> Descs],
         NEW d, NEW n \in Nat, Len(d) = n, f - b + n < DescCount, \A j \in 1..n : d[j] \in Descs,
         desc' = WriteDescs(Masked(f), d)
  PROVE  /\ desc' \in [DescIndexes -> Descs]
         /\ \A x \in b..(f - 1) : At(x)' = At(x)
         /\ LaidOut(f, d, n)
<1>1. desc' = [i \in DescIndexes |-> IF Masked(i - Masked(f)) < n THEN d[Masked(i - Masked(f)) + 1] ELSE desc[i]]
  BY DEF WriteDescs
<1>2. Masked(f) \in Int /\ \A x \in Int : Masked(x) \in DescIndexes /\ Masked(x) \in Nat
  <2>1. \A x \in Int : Masked(x) \in DescIndexes
    BY Division
  <2>2. \A i \in DescIndexes : i \in Nat /\ i \in Int
    BY DescCountAssumption DEF DescIndexes
  <2> QED
    BY <2>1, <2>2
<1>3. ASSUME NEW i \in DescIndexes PROVE desc'[i] \in Descs
  <2>1. i - Masked(f) \in Int
    BY <1>2, DescCountAssumption DEF DescIndexes
  <2> DEFINE e == Masked(i - Masked(f))
  <2>2. e \in Nat
    BY <1>2, <2>1
  <2>3. desc'[i] = IF e < n THEN d[e + 1] ELSE desc[i]
    BY <1>1
  <2> HIDE DEF e
  <2> QED
    BY <2>2, <2>3
<1>4. ASSUME NEW x \in b..(f - 1) PROVE At(x)' = At(x)
  <2> DEFINE e == DescCount - (f - x)
  <2>1. e \in DescIndexes /\ x \in Int /\ f + e = x + DescCount /\ ~(e < n)
    BY DescCountAssumption DEF DescIndexes
  <2>2. Masked(f + e) = Masked(x)
    BY <2>1, MaskedAround
  <2>3. Masked(Masked(f + e) - Masked(f)) = e
    BY <2>1, MaskedDistance
  <2> HIDE DEF e
  <2>4. Masked(x) \in DescIndexes /\ Masked(Masked(x) - Masked(f)) = e
    BY <1>2, <2>1, <2>2, <2>3
  <2>5. desc'[Masked(x)] = desc[Masked(x)]
    BY <1>1, <2>1, <2>4
  <2> QED
    BY <2>5 DEF At
<1>5. ASSUME NEW j \in 1..n PROVE At(f + j - 1)' = d[j]
  <2> DEFINE e == j - 1
  <2>1. e \in DescIndexes /\ f + e = f + j - 1 /\ e < n /\ e + 1 = j /\ f + e \in Int
    BY DescCountAssumption DEF DescIndexes
  <2> HIDE DEF e
  <2>2. Masked(Masked(f + e) - Masked(f)) = e
    BY <2>1, MaskedDistance
  <2>3. Masked(f + e) \in DescIndexes
    BY <1>2, <2>1
  <2>4. desc'[Masked(f + e)] = d[e + 1]
    BY <1>1, <2>1, <2>2, <2>3
  <2> QED
    BY <2>1, <2>4 DEF At
<1> QED
  BY <1>1, <1>3, <1>4, <1>5 DEF LaidOut

\* A packet that may be queued is one with a shape.
LEMMA PacketQueueable ==
  ASSUME TypeOK, PacketsOK, NEW k \in 1..Len(pkts)
  PROVE  Queueable(pkts[k])
BY DEF TypeOK, PacketsOK, Queueable

\* What the driver's cache spares is what the engine will have.
LEMMA SparedIsProvided ==
  ASSUME NEW o \in Offloads, NEW k \in Int, Latest(o, k, Cached(o)), Spared(o, pkts[k])
  PROVE  Provided(o, k)
BY DEF Spared, Provided

\* A step that writes the descriptors of packet k, the top one, after the others.
LEMMA Extended ==
  ASSUME TypeOK, CursorsOK, CacheOK, PktsKept, pkts' = pkts, EngineKept,
         NEW k \in 1..Len(pkts), PktTop = k, ~pkts[k].ignore, PktFirst' = PktFirst, PktTop' = k + 1,
         NEW b \in Int, NEW s \in Int, NEW c \in Int, NEW g \in Int, NEW f \in Int, RingOK(b, s, c, g, f),
         DescsKept(s, f), NEW n \in Nat \ {0}, NEW d, ShapeOK(d, n, k, pkts[k]),
         LaidOut(f, d, n)
  PROVE  /\ Listed(s, c, f + n)' /\ Linked(s, f + n)' /\ Sorted(s, f + n)' /\ Spanned(s, f + n)'
         /\ EngineOK(c, g, f + n)' /\ SentOK(Current(c, f + n))'
<1> DEFINE p == pkts[k]
           t == f + n
<1>1. /\ Listed(s, c, f) /\ Linked(s, f) /\ Sorted(s, f) /\ Spanned(s, f) /\ EngineOK(c, g, f) /\ SentOK(Current(c, f))
      /\ s <= c /\ c <= g /\ g <= f
  BY DEF RingOK, ChainOK, PlaceOK
<1>2. /\ PktFirst \in Nat \ {0} /\ base \in Nat \ {0} /\ base <= PktFirst /\ PktFirst <= k /\ base' = base
      /\ Len(pkts) \in Nat /\ pkts \in Seq(Packets) /\ k \in Int /\ p \in Packets
  BY ViewTypes DEF PktsKept
<1>3. \A o \in Offloads : /\ Spared(o, p) => Provided(o, k)
                          /\ Provided(o, k)' <=> Provided(o, k)
  BY <1>2, SparedIsProvided, ProvidedFrame DEF CacheOK
<1>4. Listed(s, c, f)' /\ Linked(s, f)' /\ Sorted(s, f)'
  <2>1. s <= s /\ \A x \in s..(f - 1) : x >= c <=> x >= c
    OBVIOUS
  <2> HIDE DEF p, t
  <2> QED
    BY <1>1, <1>2, <2>1, BodyFrame
<1>5. ASSUME NEW x \in s..(f - 1)
      PROVE  At(x)' = At(x) /\ At(x).pkt \in PktFirst..(k - 1) /\ At(x)'.pkt \in PktFirst..(k - 1)
  BY <1>1 DEF Spanned, DescsKept
<1>6. ASSUME NEW x \in f..(t - 1)
      PROVE  x - f + 1 \in 1..n /\ At(x)' = d[x - f + 1] /\ d[x - f + 1] \in Descs /\ MemberOK(d, n, x - f + 1, k, p)
  <2>1. x - f + 1 \in 1..n /\ f + (x - f + 1) - 1 = x
    OBVIOUS
  <2>2. At(f + (x - f + 1) - 1)' = d[x - f + 1]
    BY <2>1 DEF LaidOut
  <2> QED
    BY <2>1, <2>2 DEF ShapeOK
<1>7. \A x \in s..(t - 1) : x \in s..(f - 1) \/ x \in f..(t - 1)
  BY <1>1
<1> HIDE DEF p
<1>8. Listed(s, c, t)'
  <2> SUFFICES ASSUME NEW x \in s..(t - 1) PROVE DescOK(x, c)'
    BY DEF Listed
  <2>1. CASE x \in s..(f - 1)
    BY <1>4, <2>1 DEF Listed
  <2>2. CASE x \in f..(t - 1)
    <3> DEFINE j == x - f + 1
               e == d[j]
    <3>1. j \in 1..n /\ At(x)' = e /\ MemberOK(d, n, j, k, p)
      BY <1>6, <2>2
    <3> HIDE DEF j
    <3>2. /\ e.own /\ e.pkt = k /\ e.frag >= p.frag
          /\ e.ctx => ~e.first /\ ~e.last
          /\ e.ctx => \A o \in Offloads :
               IF Valid(o, e) THEN Given(o, e) = Offload(o, p) /\ Offload(o, p) # 0 ELSE Provided(o, k)
          /\ e.first => (e.insert <=> VlanTag(p) # 0) /\ (e.gso <=> p.mss # 0)
      BY <1>3, <3>1 DEF MemberOK
    <3> HIDE DEF e
    <3>3. /\ At(x)'.own <=> x >= c
          /\ At(x)'.pkt \in base'..Len(pkts') /\ ~pkts'[At(x)'.pkt].ignore
          /\ At(x)'.frag >= pkts'[At(x)'.pkt].frag
          /\ At(x)'.ctx => ~At(x)'.first /\ ~At(x)'.last
          /\ At(x)'.first => (At(x)'.insert <=> VlanTag(pkts'[At(x)'.pkt]) # 0) /\ (At(x)'.gso <=> pkts'[At(x)'.pkt].mss # 0)
      BY <1>1, <1>2, <2>2, <3>1, <3>2 DEF p
    <3>4. At(x)'.ctx => \A o \in Offloads :
            IF Valid(o, At(x)') THEN Given(o, At(x)') = Offload(o, pkts'[At(x)'.pkt]) /\ Offload(o, pkts'[At(x)'.pkt]) # 0
            ELSE Provided(o, At(x).pkt)'
      <4>1. \A o \in Offloads : Provided(o, At(x).pkt)' <=> Provided(o, k)
        <5> SUFFICES ASSUME NEW o \in Offloads, NEW i \in Int, i = k PROVE Provided(o, i)' <=> Provided(o, k)
          BY <3>1, <3>2
        <5> QED
          BY <1>3
      <4> QED
        BY <3>1, <3>2, <4>1 DEF p
    <3> QED
      BY <3>3, <3>4 DEF DescOK, Valid, Given, Offload
  <2> QED
    BY <1>7, <2>1, <2>2
<1>9. d[1].ctx \/ d[1].first
  BY DEF ShapeOK
<1>10. ~d[1].ctx => \A o \in Offloads : Provided(o, k)
  BY <1>3 DEF ShapeOK, p
<1>11. At(f)' = d[1] /\ d[1].pkt = k /\ f \in f..(t - 1)
  <2>1. f \in f..(t - 1) /\ f - f + 1 = 1
    OBVIOUS
  <2> QED
    BY <1>6, <2>1 DEF MemberOK
<1>12. \A a, e \in Int : Skipped(a, e)' <=> Skipped(a, e)
  BY DEF Skipped
<1>13. Linked(s, t)'
  <2> SUFFICES ASSUME NEW x \in s..(t - 2) PROVE Follows(x)'
    BY DEF Linked
  <2>1. CASE x \in s..(f - 2)
    BY <1>4, <2>1 DEF Linked
  <2>2. CASE x = f - 1
    <3>1. s < f /\ x \in s..(f - 1) /\ x + 1 = f
      BY <2>2
    <3> DEFINE m == At(x).pkt
    <3>2. At(x).last /\ Skipped(m + 1, k) /\ At(x)' = At(x) /\ m \in Int /\ m' = m
      BY <1>1, <1>5, <2>2, <3>1 DEF Spanned
    <3> HIDE DEF m
    <3>3. Skipped(m + 1, k)' /\ At(f)'.pkt = k
      <4>1. m + 1 \in Int /\ k \in Int
        BY <1>2, <3>2
      <4>2. Skipped(m + 1, k)'
        BY <1>12, <3>2, <4>1
      <4> QED
        BY <1>11, <4>2
    <3>4. ~At(f)'.ctx => \A o \in Offloads : Provided(o, At(f).pkt)'
      <4> SUFFICES ASSUME ~At(f)'.ctx, NEW o \in Offloads, NEW i \in Int, i = k PROVE Provided(o, i)'
        BY <1>2, <3>3
      <4> QED
        BY <1>3, <1>10, <1>11
    <3>5. Skipped(At(x).pkt + 1, At(x + 1).pkt)'
      <4> SUFFICES ASSUME NEW i \in Int, i = k PROVE Skipped(m + 1, i)'
        BY <1>2, <3>1, <3>2, <3>3 DEF m
      <4> QED
        BY <3>3
    <3>6. Begins(x + 1)' /\ At(x)'.last
      BY <1>9, <1>11, <3>1, <3>2 DEF Begins
    <3>7. ~At(x + 1)'.ctx => \A o \in Offloads : Provided(o, At(x + 1).pkt)'
      BY <3>1, <3>4
    <3> QED
      BY <3>5, <3>6, <3>7 DEF Follows
  <2>3. CASE x \in f..(t - 2)
    <3> DEFINE j == x - f + 1
    <3>1. x \in f..(t - 1) /\ x + 1 \in f..(t - 1) /\ x + 1 - f + 1 = j + 1 /\ j \in 1..(n - 1)
      BY <2>3
    <3>2. At(x)' = d[j] /\ MemberOK(d, n, j, k, p) /\ At(x + 1)' = d[j + 1] /\ MemberOK(d, n, j + 1, k, p)
      <4>1. At(x)' = d[j] /\ MemberOK(d, n, j, k, p)
        BY <1>6, <3>1
      <4>2. At(x + 1)' = d[x + 1 - f + 1] /\ MemberOK(d, n, x + 1 - f + 1, k, p)
        BY <1>6, <3>1
      <4> QED
        BY <3>1, <4>1, <4>2
    <3> HIDE DEF j
    <3>3. /\ ~d[j].last /\ d[j].pkt = k /\ d[j + 1].pkt = k /\ ~d[j + 1].ctx
          /\ d[j + 1].first <=> d[j].ctx
      <4>1. j # n /\ j + 1 # 1
        BY <3>1
      <4>2. ~d[j].last /\ d[j].pkt = k /\ d[j + 1].pkt = k /\ ~d[j + 1].ctx
        BY <3>2, <4>1 DEF MemberOK
      <4>3. d[j + 1].first <=> d[j].ctx
        BY <3>1 DEF ShapeOK
      <4> QED
        BY <4>2, <4>3
    <3> QED
      BY <3>2, <3>3 DEF Follows
  <2>4. x \in s..(f - 2) \/ x = f - 1 \/ x \in f..(t - 2)
    BY <1>1
  <2> QED
    BY <2>1, <2>2, <2>3, <2>4
<1>14. Sorted(s, t)'
  <2> SUFFICES ASSUME NEW x \in s..(t - 1), NEW y \in s..(t - 1), x < y PROVE Ordered(x, y)'
    BY DEF Sorted
  <2>1. CASE y \in s..(f - 1)
    <3>1. x \in s..(f - 1)
      BY <2>1
    <3> QED
      BY <1>4, <2>1, <3>1 DEF Sorted
  <2>2. CASE y \in f..(t - 1)
    <3>1. At(y)'.pkt = k
      BY <1>6, <2>2 DEF MemberOK
    <3>2. CASE x \in s..(f - 1)
      <4>1. At(x)'.pkt \in PktFirst..(k - 1)
        BY <1>5, <3>2
      <4>2. At(x)'.pkt < k /\ At(x)'.pkt <= k
        BY <1>2, <4>1
      <4> QED
        BY <3>1, <4>2 DEF Ordered
    <3>3. CASE x \in f..(t - 1)
      <4>1. At(x)'.pkt = k /\ ~At(x)'.last
        <5>1. x - f + 1 # n
          BY <2>2
        <5> QED
          BY <1>6, <3>3, <5>1 DEF MemberOK
      <4> QED
        BY <1>2, <3>1, <4>1 DEF Ordered
    <3> QED
      BY <1>7, <3>2, <3>3
  <2> QED
    BY <1>7, <2>1, <2>2
<1>15. Spanned(s, t)'
  <2>1. ASSUME NEW x \in s..(t - 1) PROVE At(x)'.pkt \in PktFirst'..(PktTop' - 1)
    <3>1. CASE x \in s..(f - 1)
      BY <1>2, <1>5, <3>1
    <3>2. CASE x \in f..(t - 1)
      <4>1. At(x)'.pkt = k
        BY <1>6, <3>2 DEF MemberOK
      <4> QED
        BY <1>2, <4>1
    <3> QED
      BY <1>7, <3>1, <3>2
  <2>2. s < t /\ t - 1 \in f..(t - 1) /\ (t - 1) - f + 1 = n
    BY <1>1
  <2>3. At(t - 1)'.last /\ At(t - 1)'.pkt = k
    BY <1>6, <2>2 DEF MemberOK
  <2>4. Skipped(PktFirst, At(s).pkt)'
    <3> DEFINE i == PktFirst
    <3>1. CASE s < f
      <4> DEFINE m == At(s).pkt
      <4>1. Skipped(i, m) /\ m \in Int /\ m' = m /\ i' = i /\ i \in Int
        <5>1. s \in s..(f - 1)
          BY <3>1
        <5> QED
          BY <1>1, <1>2, <1>5, <3>1, <5>1 DEF Spanned
      <4> HIDE DEF m, i
      <4>2. Skipped(i, m)'
        BY <1>12, <4>1
      <4> QED
        BY <4>2 DEF m, i
    <3>2. CASE s = f
      <4>1. Skipped(i, k) /\ i \in Int /\ i' = i
        BY <1>1, <1>2, <3>2 DEF Spanned
      <4> HIDE DEF i
      <4>2. Skipped(i, k)'
        BY <1>2, <1>12, <4>1
      <4>3. At(s)'.pkt = k
        BY <1>11, <3>2
      <4> SUFFICES ASSUME NEW x \in Int, x = k PROVE Skipped(i, x)'
        BY <1>2, <4>3 DEF i
      <4> QED
        BY <4>2
    <3> QED
      BY <1>1, <3>1, <3>2
  <2>5. Skipped(At(t - 1).pkt + 1, PktTop)'
    BY <1>2, <2>3 DEF Skipped
  <2> HIDE DEF t
  <2> QED
    BY <1>1, <2>1, <2>2, <2>3, <2>4, <2>5, SMTT(40) DEF Spanned
<1>16. EngineOK(c, g, t)' /\ SentOK(Current(c, t))'
  <2>1. CASE c < f
    <3>0. DescsKept(c, f) /\ g <= g /\ c < t
      BY <1>1, <2>1 DEF DescsKept
    <3>1. EngineOK(c, g, f)' /\ Current(c, f)' = Current(c, f)
      BY <1>1, <2>1, <3>0, EngineFrame
    <3> DEFINE h == Current(c, f)
    <3>2. h \in PktFirst..PktTop
      BY <1>1, CurrentBound
    <3>3. SentOK(h) /\ h' = h
      BY <1>1, <3>1
    <3> HIDE DEF h
    <3>4. h \in Int /\ h <= Len(pkts) + 1
      BY <1>2, <3>2
    <3>5. ASSUME NEW x \in Int, x = h PROVE SentOK(x)'
      BY <3>3, <3>4, <3>5, SentFrame DEF EngineKept
    <3>6. SentOK(h)'
      BY <3>3, <3>4, <3>5
    <3>7. EngineOK(c, g, t)'
      BY <2>1, <3>0, <3>1 DEF EngineOK
    <3>8. Current(c, t)' = Current(c, f)'
      BY <2>1, <3>0 DEF Current
    <3>9. SentOK(Current(c, t))'
      <4> DEFINE r == Current(c, t)
      <4>1. r' = h'
        BY <3>8 DEF h
      <4> HIDE DEF r
      <4> SUFFICES ASSUME NEW x \in Int, x = h PROVE SentOK(x)'
        BY <3>3, <3>4, <4>1 DEF r
      <4> QED
        BY <3>5
    <3> QED
      BY <3>7, <3>9
  <2>2. CASE c = f
    <3>1. dma.pkt = NoPacket /\ dma'.pkt = NoPacket /\ (\A o \in Offloads : Knows(o, k)) /\ SentOK(k)
      <4>1. dma.pkt = NoPacket /\ \A o \in Offloads : Knows(o, PktTop)
        BY <1>1, <2>2 DEF EngineOK
      <4>2. Current(c, f) = k
        BY <2>2, <4>1 DEF Current
      <4> QED
        BY <1>1, <4>1, <4>2 DEF EngineKept
    <3>2. c < t /\ At(c)' = d[1] /\ At(c)'.pkt = k
      BY <1>11, <2>2
    <3>3. \A o \in Offloads : Knows(o, IF At(c).ctx THEN At(c).pkt ELSE At(c).pkt + 1)'
      <4> SUFFICES ASSUME NEW o \in Offloads, NEW x \in Int, x = IF d[1].ctx THEN k ELSE k + 1 PROVE Knows(o, x)'
        BY <1>2, <3>2
      <4>1. Knows(o, x)
        BY <1>2, <1>10, <3>1, KnowsNext DEF p
      <4>2. x <= Len(pkts) + 1 /\ Context(o)' = Context(o)
        BY <1>2 DEF Context, EngineKept
      <4> QED
        BY <1>2, <4>1, <4>2, KnowsFrame
    <3>4. Begins(c)'
      BY <1>9, <3>2 DEF Begins
    <3>5. EngineOK(c, g, t)'
      BY <3>1, <3>2, <3>3, <3>4 DEF EngineOK
    <3>6. Current(c, t)' = k
      BY <3>1, <3>2 DEF Current
    <3>7. SentOK(Current(c, t))'
      <4> SUFFICES ASSUME NEW x \in Int, x = k PROVE SentOK(x)'
        BY <1>2, <3>6
      <4>1. x <= Len(pkts) + 1 /\ SentOK(x)
        BY <1>2, <3>1
      <4> QED
        BY <4>1, SentFrame DEF EngineKept
    <3> QED
      BY <3>5, <3>7
  <2> QED
    BY <1>1, <2>1, <2>2
<1> QED
  BY <1>8, <1>13, <1>14, <1>15, <1>16

\* The packet queued: its descriptors go into the EMPTY region, and leave a hole.
LEMMA FillPacketWrites ==
  ASSUME IInv, FillPacket,
         NEW b \in Int, NEW s \in Int, NEW c \in Int, NEW g \in Int, NEW f \in Int, RingOK(b, s, c, g, f)
  PROVE  LET p == pkts[pktIndex]
             d == PacketDescs(pktIndex, p) IN
         /\ pktIndex \in 1..Len(pkts) /\ p \in Packets /\ desc' \in [DescIndexes -> Descs] /\ DescsKept(b, f)
         /\ \E n \in Nat \ {0} :
              /\ n = Len(d) /\ n <= DescCount - 1 - (f - b) /\ ShapeOK(d, n, pktIndex, p) /\ LaidOut(f, d, n)
<1> USE DEF IInv
<1> DEFINE k == pktIndex
           p == pkts[k]
           d == PacketDescs(k, p)
           l == Len(d)
<1>1. /\ pc = "fill" /\ k # pktEnd /\ ~p.ignore /\ Fits(p, descIndex)
      /\ desc' = WriteDescs(descIndex, d) /\ descIndex' = Masked(descIndex + l) /\ pktIndex' = k + 1
      /\ lastMss' = (IF IsGso(p) THEN p.mss ELSE lastMss)
      /\ lastVlanTag' = (IF ContextTagNeeded(p, lastVlanTag) THEN VlanTag(p) ELSE lastVlanTag)
      /\ UNCHANGED <<pkts, pktBegin, pktNext, fragBegin, fragEnd, base, descBegin, descEnd, phase, pc, pktFragIndex,
                     dma, wire>>
  BY DEF FillPacket, CanFill, ringVars
<1>2. Serving /\ Serving' /\ CursorsOK /\ CacheOK
  BY <1>1 DEF Serving, ServingOK, PhaseOK
<1>3. /\ PktTop = k /\ PktFirst' = PktFirst /\ FragFirst' = FragFirst /\ Start' = Start
      /\ End = descIndex /\ End' = descIndex'
  BY <1>1 DEF PktFirst, FragFirst, PktTop, Start, End
<1>4. /\ k \in 1..Len(pkts) /\ pktEnd = Len(pkts) + 1 /\ Len(pkts) \in Nat /\ pkts \in Seq(Packets)
      /\ pktNext \in Nat /\ pktNext <= k /\ PktFirst \in Nat /\ PktFirst <= k /\ pktBegin \in Nat \ {0}
      /\ lastMss \in Nat /\ lastVlanTag \in Tags /\ base \in Nat \ {0} /\ base <= k
      /\ desc \in [DescIndexes -> Descs]
  <2>1. /\ pktEnd = Len(pkts) + 1 /\ Len(pkts) \in Nat /\ pkts \in Seq(Packets) /\ k \in Nat \ {0} /\ k <= pktEnd
        /\ pktNext \in Nat /\ pktNext <= k /\ PktFirst \in Nat /\ PktFirst <= k /\ pktBegin \in Nat \ {0}
        /\ base \in Nat \ {0} /\ base <= k
    <3> HIDE DEF k
    <3> QED
      BY <1>2, <1>3, ViewTypes, SMTT(40) DEF CursorsOK
  <2>2. lastMss \in Nat /\ lastVlanTag \in Tags /\ desc \in [DescIndexes -> Descs]
    BY DEF TypeOK
  <2> HIDE DEF k, p, d, l
  <2>3. k \in 1..Len(pkts)
    BY <1>1, <2>1
  <2> QED
    BY <2>1, <2>2, <2>3
<1>5. Queueable(p) /\ p \in Packets /\ k \in Nat /\ k \in Int
  BY <1>4, PacketQueueable
<1>6. l \in 1..(UserDescriptorsNeeded(p) + ContextCount(p) + HeaderCount(p)) /\ ShapeOK(d, l, k, p)
  BY <1>4, <1>5, PacketShape
<1>7. UserDescriptorsNeeded(p) + ContextCount(p) + HeaderCount(p) \in Nat
  <2>1. UserDescriptorsNeeded(p) \in Nat
    BY <1>5, DataFragmentsBounded
  <2> QED
    BY <2>1 DEF ContextCount, HeaderCount
<1>9. /\ PlaceOK(b, s, c, g, f) /\ Whole(s, g, f) /\ Spanned(s, f)
      /\ b = s /\ s <= c /\ c <= g /\ g <= f /\ f < b + DescCount /\ descBegin = Masked(b) /\ descIndex = Masked(f)
  BY <1>1, <1>3 DEF RingOK, ChainOK, PlaceOK
<1>23. l <= DescCount - 1 - (f - b) /\ l \in Nat \ {0}
  <2> DEFINE e == f - b
  <2>1. e \in DescIndexes /\ b + e = f
    BY <1>9, DescCountAssumption DEF DescIndexes
  <2> HIDE DEF e
  <2>2. EmptyDescRemaining(descIndex) = DescCount - 1 - e
    BY <1>9, <2>1, MaskedRoom DEF EmptyDescRemaining
  <2>3. l <= EmptyDescRemaining(descIndex)
    <3>1. UserDescriptorsNeeded(p) + ContextCount(p) + HeaderCount(p) <= DescCount - 1 - e
      BY <1>1, <2>2 DEF Fits
    <3> DEFINE m == UserDescriptorsNeeded(p) + ContextCount(p) + HeaderCount(p)
    <3> HIDE DEF m, l
    <3>2. m \in Nat /\ l \in 1..m /\ m <= DescCount - 1 - e
      BY <1>6, <1>7, <3>1 DEF m, l
    <3> QED
      BY <2>1, <2>2, <3>2, DescCountAssumption DEF DescIndexes
  <2> HIDE DEF l
  <2>4. l \in Nat \ {0}
    BY <1>6, <1>7 DEF l
  <2> QED
    BY <2>2, <2>3, <2>4 DEF e
<1> HIDE DEF d, l
<1>24. PICK n \in Nat \ {0} : n = l
  BY <1>23
<1>10. n <= DescCount - 1 - (f - b) /\ n \in Nat \ {0}
  BY <1>23, <1>24
<1>11. \A j \in 1..n : d[j] \in Descs
  BY <1>6, <1>24 DEF ShapeOK
<1>12. /\ desc' \in [DescIndexes -> Descs]
       /\ DescsKept(b, f) /\ LaidOut(f, d, n)
  <2>1. f - b + n < DescCount /\ b <= f /\ desc' = WriteDescs(Masked(f), d) /\ Len(d) = n /\ n \in Nat
    BY <1>1, <1>9, <1>10, <1>24, DescCountAssumption DEF l
  <2> HIDE DEF k, p
  <2> QED
    BY <1>4, <1>10, <1>11, <2>1, Written DEF DescsKept
<1>13. ShapeOK(d, n, k, p)
  BY <1>6, <1>24
<1>14. n = Len(d)
  BY <1>24 DEF l
<1>15. k = pktIndex /\ p = pkts[pktIndex] /\ d = PacketDescs(pktIndex, pkts[pktIndex])
  BY DEF d
<1> HIDE DEF k, p
<1> QED
  BY <1>4, <1>5, <1>10, <1>12, <1>13, <1>14, <1>15

\* A packet's descriptors are written.
LEMMA FillPacketHolds ==
  ASSUME IInv, FillPacket
  PROVE  IInv'
<1> USE DEF IInv
<1> DEFINE k == pktIndex
           p == pkts[k]
           d == PacketDescs(k, p)
           u == k + 1
<1>1. /\ pc = "fill" /\ k # pktEnd /\ ~p.ignore
      /\ descIndex' = Masked(descIndex + Len(d)) /\ pktIndex' = u
      /\ lastMss' = (IF IsGso(p) THEN p.mss ELSE lastMss)
      /\ lastVlanTag' = (IF ContextTagNeeded(p, lastVlanTag) THEN VlanTag(p) ELSE lastVlanTag)
      /\ UNCHANGED <<pkts, pktBegin, pktNext, fragBegin, fragEnd, base, descBegin, descEnd, phase, pc, pktFragIndex,
                     dma, wire>>
  BY DEF FillPacket, CanFill, ringVars
<1>2. Serving /\ Serving' /\ CursorsOK /\ CacheOK
  BY <1>1 DEF Serving, ServingOK, PhaseOK
<1>3. /\ PktTop = k /\ PktTop' = u /\ PktFirst' = PktFirst /\ FragFirst' = FragFirst /\ Start' = Start
      /\ End = descIndex /\ End' = descIndex'
  BY <1>1 DEF PktFirst, FragFirst, PktTop, Start, End
<1>4. /\ pktEnd = Len(pkts) + 1 /\ Len(pkts) \in Nat /\ pkts \in Seq(Packets)
      /\ pktNext \in Nat /\ pktNext <= k /\ PktFirst \in Nat /\ PktFirst <= k /\ pktBegin \in Nat \ {0}
      /\ lastMss \in Nat /\ lastVlanTag \in Tags /\ base \in Nat \ {0} /\ base <= k
  <2>1. lastMss \in Nat /\ lastVlanTag \in Tags
    BY DEF TypeOK
  <2> HIDE DEF k, p, d, u
  <2> QED
    BY <1>2, <1>3, <2>1, ViewTypes DEF CursorsOK
<1>8. PICK b, s, c, g, f \in Int : RingOK(b, s, c, g, f)
  BY <1>2, Ring
<1>9. /\ PlaceOK(b, s, c, g, f) /\ Whole(s, g, f) /\ Spanned(s, f)
      /\ b = s /\ s <= c /\ c <= g /\ g <= f /\ f < b + DescCount /\ descBegin = Masked(b) /\ descIndex = Masked(f)
  BY <1>1, <1>3, <1>8 DEF RingOK, ChainOK, PlaceOK
<1>12. k \in 1..Len(pkts) /\ p \in Packets /\ desc' \in [DescIndexes -> Descs] /\ DescsKept(b, f)
  BY <1>8, FillPacketWrites
<1>10. PICK n \in Nat \ {0} :
         n = Len(d) /\ n <= DescCount - 1 - (f - b) /\ ShapeOK(d, n, k, p) /\ LaidOut(f, d, n)
  BY <1>8, FillPacketWrites
<1>5. k \in Int /\ descIndex' = Masked(Masked(f) + n)
  BY <1>1, <1>9, <1>10, <1>12
<1> HIDE DEF d
<1>13. \A o \in Offloads : Cached(o)' = IF Uses(o, k) THEN Offload(o, p) ELSE Cached(o)
  <2>1. Uses("mss", k) <=> IsGso(p)
    BY <1>1 DEF Uses, Offload, IsGso
  <2>2. Uses("tag", k) <=> VlanTag(p) # 0
    BY <1>1 DEF Uses, Offload
  <2>3. lastVlanTag' = IF VlanTag(p) # 0 THEN VlanTag(p) ELSE lastVlanTag
    BY <1>1 DEF ContextTagNeeded
  <2>4. Cached("mss")' = IF Uses("mss", k) THEN Offload("mss", p) ELSE Cached("mss")
    BY <1>1, <2>1 DEF Cached, Offload
  <2>5. Cached("tag")' = IF Uses("tag", k) THEN Offload("tag", p) ELSE Cached("tag")
    BY <2>2, <2>3 DEF Cached, Offload
  <2> QED
    BY <2>4, <2>5 DEF Offloads
<1> HIDE DEF k, p
<1>14. TypeOK'
  <2>1. lastMss' \in Nat /\ lastVlanTag' \in Tags /\ u \in Nat \ {0}
    <3>1. p.mss \in Nat /\ VlanTag(p) \in Tags
      BY <1>12, PacketTyped DEF Tags
    <3>2. u \in Nat \ {0}
      BY <1>12
    <3> QED
      BY <1>1, <1>4, <3>1, <3>2
  <2>2. descIndex' \in DescIndexes
    <3>1. Masked(f + n) \in DescIndexes
      BY <1>10, Division
    <3>2. Masked(Masked(f) + n) = Masked(f + n)
      BY <1>10, MaskedPlus
    <3> QED
      BY <1>5, <3>1, <3>2
  <2> HIDE DEF u
  <2> QED
    BY <1>1, <1>12, <2>1, <2>2 DEF TypeOK
<1>15. PktsKept /\ PacketsOK' /\ WireOK'
  BY <1>1, SameRings
<1>16. PhaseOK'
  BY <1>1 DEF PhaseOK, pktEnd
<1>17. CursorsOK'
  <2>1. pktNext' <= PktTop' /\ PktTop' <= pktEnd'
    BY <1>1, <1>3, <1>4, <1>12 DEF pktEnd
  <2> QED
    BY <1>1, <1>2, <1>3, <2>1 DEF CursorsOK
<1>18. CacheOK'
  <2> SUFFICES ASSUME NEW o \in Offloads PROVE Latest(o, PktTop, Cached(o))'
    BY DEF CacheOK
  <2> DEFINE v == IF Uses(o, k) THEN Offload(o, p) ELSE Cached(o)
  <2>1. Latest(o, k, Cached(o))
    BY <1>2, <1>3 DEF CacheOK
  <2>2. IF Uses(o, k) THEN Latest(o, u, Offload(o, p)) ELSE Latest(o, u, Cached(o))
    BY <1>4, <1>5, <1>12, <2>1, LatestNext DEF p, k
  <2>3. Latest(o, u, v)
    BY <2>2
  <2>4. ASSUME NEW x \in Int, NEW w, x = u, w = v PROVE Latest(o, x, w)'
    <3>1. x <= Len(pkts) + 1 /\ Latest(o, x, w)
      BY <1>4, <1>12, <2>3, <2>4
    <3> QED
      BY <1>4, <1>15, <3>1, LatestFrame
  <2>5. Cached(o)' = v /\ PktTop' = u /\ u \in Int
    BY <1>3, <1>5, <1>13
  <2> HIDE DEF u, v
  <2> QED
    BY <2>4, <2>5
<1>19. PlaceOK(b, s, c, g, f + n)'
  <2>1. descIndex' = Masked(f + n)
    BY <1>5, <1>10, MaskedPlus
  <2>2. f + n < b + DescCount /\ g <= f + n /\ f + n \in Int
    BY <1>9, <1>10, DescCountAssumption
  <2> DEFINE t == f + n
  <2> HIDE DEF t
  <2>3. descIndex' = Masked(t) /\ t < b + DescCount /\ g <= t
    BY <2>1, <2>2 DEF t
  <2>4. PlaceOK(b, s, c, g, t)'
    BY <1>1, <1>3, <1>9, <2>3 DEF PlaceOK
  <2> QED
    BY <2>4 DEF t
<1>20. /\ Listed(s, c, f + n)' /\ Linked(s, f + n)' /\ Sorted(s, f + n)' /\ Spanned(s, f + n)'
       /\ EngineOK(c, g, f + n)' /\ SentOK(Current(c, f + n))'
  <2>1. EngineKept /\ DescsKept(s, f) /\ PktTop = k /\ ~pkts[k].ignore /\ PktTop' = k + 1 /\ ShapeOK(d, n, k, pkts[k])
    BY <1>1, <1>3, <1>9, <1>10, <1>12 DEF EngineKept, p
  <2> QED
    BY <1>1, <1>2, <1>3, <1>4, <1>8, <1>10, <1>12, <1>15, <2>1, Extended
<1>21. Whole(s, g, f + n)'
  <2>1. s < g => At(g - 1)'.last
    <3> HAVE s < g
    <3>1. At(g - 1).last /\ g - 1 \in b..(f - 1)
      BY <1>9 DEF Whole
    <3> QED
      BY <1>12, <3>1 DEF DescsKept
  <2>2. g # f + n
    BY <1>9, <1>10
  <2> DEFINE t == f + n
  <2> HIDE DEF t
  <2>3. g # t
    BY <2>2 DEF t
  <2>4. Whole(s, g, t)'
    BY <2>1, <2>3 DEF Whole
  <2> QED
    BY <2>4 DEF t
<1>22. ServingOK'
  <2> DEFINE t == f + n
  <2>1. t \in Int
    BY <1>10
  <2>2. PICK x \in Int : x = t
    BY <2>1
  <2>3. /\ PlaceOK(b, s, c, g, x)' /\ Listed(s, c, x)' /\ Linked(s, x)' /\ Sorted(s, x)' /\ Spanned(s, x)'
        /\ EngineOK(c, g, x)' /\ SentOK(Current(c, x))' /\ Whole(s, g, x)'
    BY <1>19, <1>20, <1>21, <2>2
  <2> HIDE DEF t
  <2> QED
    BY <1>17, <1>18, <2>3, Assembled
<1> QED
  BY <1>14, <1>15, <1>16, <1>22

-----------------------------------------------------------------------------
(* The engine.                                                             *)

\* The engine moves on from a frame's last descriptor: what it knows is what the next packet needs.
LEMMA FrameEnds ==
  ASSUME base \in Nat \ {0}, NEW c \in Int, NEW f \in Int, Follows(c), At(c).last, c + 1 < f,
         pkts \in Seq(Packets), At(c).pkt \in base..Len(pkts), At(c + 1).pkt \in base..Len(pkts),
         Ordered(c, c + 1), NEW o \in Offloads, Knows(o, At(c).pkt + 1)
  PROVE  Knows(o, IF At(c + 1).ctx THEN At(c + 1).pkt ELSE At(c + 1).pkt + 1)
<1> DEFINE n == At(c).pkt
           m == At(c + 1).pkt
<1>1. n \in Int /\ m \in Int /\ n < m /\ base <= m /\ pkts[m] \in Packets
  BY DEF Ordered
<1>2. Skipped(n + 1, m) /\ (~At(c + 1).ctx => Provided(o, m))
  BY DEF Follows
<1>3. Knows(o, n + 1)
  OBVIOUS
<1> HIDE DEF n, m
<1>4. Knows(o, m)
  BY <1>1, <1>2, <1>3, SkippedUnused, KnowsSame
<1>5. ~At(c + 1).ctx => Knows(o, m + 1)
  BY <1>1, <1>2, <1>4, KnowsNext
<1> QED
  BY <1>4, <1>5 DEF m

\* The frame of packet n leaves, all packets before it having been seen to.
LEMMA WireGrows ==
  ASSUME TypeOK, WireOK, UNCHANGED <<pkts, base>>, NEW n \in base..Len(pkts), ~pkts[n].ignore, SentOK(n),
         NEW w \in [pkt : Nat, tag : Tags, mss : Nat], w.pkt = n, w.tag = VlanTag(pkts[n]), w.mss = pkts[n].mss,
         wire' = Append(wire, w)
  PROVE  WireOK' /\ (\A k \in base..n : pkts[k].ignore \/ Sent(k)') /\ \A i \in DOMAIN wire' : wire'[i].pkt <= n
<1>1. /\ wire \in Seq([pkt : Nat, tag : Tags, mss : Nat]) /\ Len(wire) \in Nat /\ base \in Nat \ {0}
      /\ Len(pkts) \in Nat
  BY DEF TypeOK
<1> DEFINE l == Len(wire)
<1>2. /\ DOMAIN wire = 1..l /\ DOMAIN wire' = 1..(l + 1) /\ wire'[l + 1] = w /\ l \in Nat
      /\ \A i \in 1..l : wire'[i] = wire[i]
  BY <1>1
<1> HIDE DEF l
<1>3. \A i \in 1..l : /\ wire[i].pkt \in 1..Len(pkts) /\ ~pkts[wire[i].pkt].ignore
                      /\ wire[i].pkt < n
  BY <1>2 DEF WireOK, SentOK
<1>4. \A i \in 1..(l + 1) : i \in 1..l \/ i = l + 1
  BY <1>2
<1>5. n \in 1..Len(pkts) /\ n \in Int
  BY <1>1
<1>6. WireFaithful'
  <2> SUFFICES ASSUME NEW i \in 1..(l + 1)
               PROVE  wire'[i].tag = VlanTag(pkts[wire'[i].pkt]) /\ wire'[i].mss = pkts[wire'[i].pkt].mss
    BY <1>2 DEF WireFaithful
  <2>1. CASE i \in 1..l
    BY <1>2, <2>1 DEF WireOK, WireFaithful
  <2>2. CASE i = l + 1
    BY <1>2, <2>2
  <2> QED
    BY <1>4, <2>1, <2>2
<1>7. \A k \in base..n : ~pkts[k].ignore => \E j \in 1..(l + 1) : wire'[j].pkt = k
  <2> SUFFICES ASSUME NEW k \in base..n, ~pkts[k].ignore PROVE \E j \in 1..(l + 1) : wire'[j].pkt = k
    OBVIOUS
  <2>1. CASE k = n
    <3>1. l + 1 \in 1..(l + 1)
      BY <1>2
    <3> QED
      BY <1>2, <2>1, <3>1
  <2>2. CASE k # n
    <3>1. k \in base..(n - 1)
      BY <1>1, <1>5, <2>2
    <3>2. PICK j \in 1..l : wire[j].pkt = k
      BY <1>2, <3>1 DEF SentOK, Sent
    <3>3. j \in 1..(l + 1) /\ wire'[j].pkt = k
      BY <1>2, <3>2
    <3> QED
      BY <3>3
  <2> QED
    BY <2>1, <2>2
<1>8. SentInOrder'
  <2>1. ASSUME NEW i \in 1..(l + 1), NEW j \in 1..(l + 1), i < j PROVE wire'[i].pkt < wire'[j].pkt
    <3>1. i \in 1..l
      BY <1>2, <2>1
    <3>2. CASE j \in 1..l
      BY <1>2, <2>1, <3>1, <3>2 DEF WireOK, SentInOrder
    <3>3. CASE j = l + 1
      BY <1>2, <1>3, <3>1, <3>3
    <3> QED
      BY <1>4, <3>2, <3>3
  <2>2. ASSUME NEW i \in 1..(l + 1), wire'[i].pkt >= base, NEW k \in base..wire'[i].pkt, ~pkts[k].ignore
        PROVE  \E j \in 1..i : wire'[j].pkt = k
    <3>1. CASE i \in 1..l
      <4>1. wire[i].pkt >= base /\ k \in base..wire[i].pkt
        BY <1>2, <2>2, <3>1
      <4>2. PICK j \in 1..i : wire[j].pkt = k
        BY <1>2, <2>2, <3>1, <4>1 DEF WireOK, SentInOrder
      <4>3. j \in 1..l
        BY <1>2, <3>1
      <4> QED
        BY <1>2, <4>2, <4>3
    <3>2. CASE i = l + 1
      BY <1>2, <1>7, <2>2, <3>2
    <3> QED
      BY <1>4, <3>1, <3>2
  <2> QED
    BY <1>2, <2>1, <2>2 DEF SentInOrder
<1>9. \A i \in 1..(l + 1) : wire'[i].pkt \in 1..Len(pkts) /\ ~pkts[wire'[i].pkt].ignore /\ wire'[i].pkt <= n
  <2> SUFFICES ASSUME NEW i \in 1..(l + 1)
               PROVE  wire'[i].pkt \in 1..Len(pkts) /\ ~pkts[wire'[i].pkt].ignore /\ wire'[i].pkt <= n
    OBVIOUS
  <2>1. CASE i \in 1..l
    BY <1>2, <1>3, <1>5, <2>1
  <2>2. CASE i = l + 1
    BY <1>2, <1>5, <2>2
  <2> QED
    BY <1>4, <2>1, <2>2
<1> QED
  BY <1>2, <1>6, <1>7, <1>8, <1>9 DEF WireOK, Sent

\* The engine knows what a packet that it has been given the value of uses.
LEMMA KnowsAfterUse ==
  ASSUME UNCHANGED <<pkts, base>>, base \in Int, NEW o, NEW k \in Int, base <= k, Uses(o, k),
         Context(o)' = Offload(o, pkts[k])
  PROVE  Knows(o, k + 1)'
<1>1. k \in base..(k + 1 - 1) /\ LastUse(o, k + 1, k) /\ k + 1 \in Int
  BY DEF LastUse
<1>2. \A j \in base..(k + 1 - 1) : LastUse(o, k + 1, j) => j = k
  BY <1>1, LastUseUnique
<1>3. \A j : (LastUse(o, k + 1, j)' <=> LastUse(o, k + 1, j)) /\ Offload(o, pkts[j])' = Offload(o, pkts[j])
  BY DEF LastUse, Uses, Offload
<1> QED
  BY <1>1, <1>2, <1>3 DEF Knows

\* A packet that uses what the engine knows uses what it has.
LEMMA KnownUse ==
  ASSUME base \in Int, NEW o, NEW k \in Int, base <= k, Uses(o, k), Knows(o, k + 1)
  PROVE  Context(o) = Offload(o, pkts[k])
BY DEF Knows, LastUse

\* A packet sent and ignored ones after it: all before the next are seen to.
LEMMA SentAfter ==
  ASSUME UNCHANGED <<pkts, base>>, NEW n \in Int, NEW m \in Int, n < m, base \in Int, Skipped(n + 1, m),
         \A k \in base..n : pkts[k].ignore \/ Sent(k)',
         wire' \in Seq([pkt : Nat, tag : Tags, mss : Nat]), \A i \in DOMAIN wire' : wire'[i].pkt <= n
  PROVE  SentOK(m)'
<1>1. \A k \in base..(m - 1) : pkts[k].ignore \/ Sent(k)'
  <2> SUFFICES ASSUME NEW k \in base..(m - 1) PROVE pkts[k].ignore \/ Sent(k)'
    OBVIOUS
  <2>1. CASE k <= n
    BY <2>1
  <2>2. CASE k > n
    BY <2>2 DEF Skipped
  <2> QED
    BY <2>1, <2>2
<1>2. \A i \in DOMAIN wire' : wire'[i].pkt < m
  <2> SUFFICES ASSUME NEW i \in DOMAIN wire' PROVE wire'[i].pkt < m
    OBVIOUS
  <2> DEFINE T == [pkt : Nat, tag : Tags, mss : Nat]
             w == wire'
  <2>1. w \in Seq(T) /\ i \in DOMAIN w
    OBVIOUS
  <2>2. \A x \in T : x.pkt \in Nat
    OBVIOUS
  <2> HIDE DEF T, w
  <2>3. w[i] \in T
    BY <2>1
  <2>4. w[i].pkt \in Nat
    BY <2>2, <2>3
  <2> QED
    BY <2>4 DEF w
<1> QED
  BY <1>1, <1>2 DEF SentOK

DmaTypes == [on : BOOLEAN, cur : DescIndexes, tail : DescIndexes, tag : Tags, mss : Nat,
             pkt : Nat, frameTag : Tags, frameMss : Nat]

\* What a fetch does to the engine and the wire.
LEMMA FetchEffect ==
  ASSUME TypeOK, DmaFetch, NEW d \in Descs, d = desc[dma.cur]
  PROVE  /\ dma' \in DmaTypes
         /\ dma'.on = dma.on /\ dma'.cur = NextDesc(dma.cur) /\ dma'.tail = dma.tail
         /\ dma'.pkt = IF d.last THEN NoPacket ELSE IF d.first THEN d.pkt ELSE dma.pkt
         /\ dma'.tag = IF ~d.first /\ d.ctx /\ d.tagValid THEN d.tag ELSE dma.tag
         /\ dma'.mss = IF ~d.first /\ d.ctx /\ d.mssValid THEN d.mss ELSE dma.mss
         /\ dma'.frameTag = IF d.first THEN IF d.insert THEN dma.tag ELSE 0 ELSE dma.frameTag
         /\ dma'.frameMss = IF d.first THEN IF d.gso THEN dma.mss ELSE 0 ELSE dma.frameMss
         /\ ~d.last => wire' = wire
         /\ d.last => \E w \in [pkt : Nat, tag : Tags, mss : Nat] :
                        /\ w.pkt = (IF d.first THEN d.pkt ELSE dma.pkt)
                        /\ w.tag = dma'.frameTag /\ w.mss = dma'.frameMss /\ wire' = Append(wire, w)
<1> DEFINE tag == IF d.insert THEN dma.tag ELSE 0
           mss == IF d.gso THEN dma.mss ELSE 0
           A == [dma EXCEPT !.pkt = d.pkt, !.frameTag = tag, !.frameMss = mss]
           B == [dma EXCEPT !.tag = IF d.tagValid THEN d.tag ELSE @, !.mss = IF d.mssValid THEN d.mss ELSE @]
           now == IF d.first THEN A ELSE IF d.ctx THEN B ELSE dma
           w == [pkt |-> now.pkt, tag |-> now.frameTag, mss |-> now.frameMss]
<1>1. /\ dma' = [now EXCEPT !.cur = NextDesc(@), !.pkt = IF d.last THEN NoPacket ELSE @]
      /\ wire' = IF d.last THEN Append(wire, w) ELSE wire
  BY DEF DmaFetch
<1>2. dma \in DmaTypes
  BY DEF TypeOK, DmaTypes
<1>3. tag \in Tags /\ mss \in Nat /\ 0 \in Tags
  BY <1>2 DEF DmaTypes, Tags
<1>4. d.pkt \in Nat /\ d.tag \in Tags /\ d.mss \in Nat
  BY DEF Descs
<1> HIDE DEF tag, mss
<1>5. /\ A \in DmaTypes /\ A.on = dma.on /\ A.cur = dma.cur /\ A.tail = dma.tail /\ A.pkt = d.pkt
      /\ A.tag = dma.tag /\ A.mss = dma.mss /\ A.frameTag = tag /\ A.frameMss = mss
  BY <1>2, <1>3, <1>4 DEF DmaTypes
<1>6. /\ B \in DmaTypes /\ B.on = dma.on /\ B.cur = dma.cur /\ B.tail = dma.tail /\ B.pkt = dma.pkt
      /\ B.frameTag = dma.frameTag /\ B.frameMss = dma.frameMss
      /\ B.tag = (IF d.tagValid THEN d.tag ELSE dma.tag) /\ B.mss = (IF d.mssValid THEN d.mss ELSE dma.mss)
  BY <1>2, <1>3, <1>4 DEF DmaTypes
<1> HIDE DEF A, B
<1>7. /\ now \in DmaTypes /\ now.on = dma.on /\ now.cur = dma.cur /\ now.tail = dma.tail
      /\ now.pkt = (IF d.first THEN d.pkt ELSE dma.pkt)
      /\ now.tag = (IF ~d.first /\ d.ctx /\ d.tagValid THEN d.tag ELSE dma.tag)
      /\ now.mss = (IF ~d.first /\ d.ctx /\ d.mssValid THEN d.mss ELSE dma.mss)
      /\ now.frameTag = (IF d.first THEN tag ELSE dma.frameTag)
      /\ now.frameMss = (IF d.first THEN mss ELSE dma.frameMss)
  BY <1>2, <1>5, <1>6
<1> HIDE DEF now
<1>8. NextDesc(now.cur) \in DescIndexes
  BY <1>7, NextTyped DEF DmaTypes
<1>9. dma' \in DmaTypes
  BY <1>1, <1>7, <1>8 DEF DmaTypes, NoPacket
<1>10. /\ dma'.on = now.on /\ dma'.cur = NextDesc(now.cur) /\ dma'.tail = now.tail
       /\ dma'.pkt = (IF d.last THEN NoPacket ELSE now.pkt)
       /\ dma'.tag = now.tag /\ dma'.mss = now.mss /\ dma'.frameTag = now.frameTag /\ dma'.frameMss = now.frameMss
  BY <1>1, <1>7 DEF DmaTypes
<1>11. w \in [pkt : Nat, tag : Tags, mss : Nat] /\ w.pkt = now.pkt /\ w.tag = now.frameTag /\ w.mss = now.frameMss
  BY <1>7 DEF DmaTypes
<1> HIDE DEF w
<1>12. d.last => wire' = Append(wire, w)
  BY <1>1
<1>13. ~d.last => wire' = wire
  BY <1>1
<1> QED
  BY <1>7, <1>9, <1>10, <1>11, <1>12, <1>13 DEF tag, mss

\* A fetch leaves the descriptors alike, and takes the Own bit off the c-th.
LEMMA FetchDescs ==
  ASSUME TypeOK, DmaFetch, NEW b \in Int, NEW c \in Int, NEW f \in Int, b <= c, c < f, f < b + DescCount,
         dma.cur = Masked(c)
  PROVE  /\ desc' \in [DescIndexes -> Descs] /\ ~At(c)'.own
         /\ \A k \in b..(f - 1) : Alike(k) /\ (k # c => At(k)'.own = At(k).own)
<1>1. desc \in [DescIndexes -> Descs] /\ Masked(c) \in DescIndexes /\ desc' = [desc EXCEPT ![Masked(c)].own = FALSE]
  BY Division DEF TypeOK, DmaFetch
<1>2. desc' \in [DescIndexes -> Descs]
  <2>1. \A x \in Descs : [x EXCEPT !.own = FALSE] \in Descs
    BY DEF Descs
  <2> QED
    BY <1>1, <2>1
<1>3. At(c)' = [At(c) EXCEPT !.own = FALSE] /\ At(c) \in Descs
  BY <1>1 DEF At
<1>4. ~At(c)'.own /\ Alike(c)
  BY <1>3 DEF Alike, Descs
<1>5. ASSUME NEW k \in b..(f - 1), k # c PROVE At(k)' = At(k)
  <2>1. Masked(k) # Masked(c)
    BY <1>5, MaskedSame, DescCountAssumption
  <2>2. Masked(k) \in DescIndexes
    BY Division
  <2> QED
    BY <1>1, <2>1, <2>2 DEF At
<1>6. ASSUME NEW k \in b..(f - 1) PROVE Alike(k) /\ (k # c => At(k)'.own = At(k).own)
  <2>1. CASE k = c
    BY <1>4, <2>1
  <2>2. CASE k # c
    BY <1>5, <2>2 DEF Alike
  <2> QED
    BY <2>1, <2>2
<1> QED
  BY <1>2, <1>4, <1>6

\* The engine fetches a descriptor.
LEMMA DmaFetchHolds ==
  ASSUME IInv, DmaFetch
  PROVE  IInv'
<1> USE DEF IInv
<1>1. /\ (dma.on \/ dma.pkt # NoPacket) /\ dma.cur # dma.tail /\ desc[dma.cur].own
      /\ UNCHANGED <<pkts, pktBegin, pktNext, fragBegin, fragEnd, base, descBegin, descEnd, lastMss, lastVlanTag,
                     phase, pc, descIndex, pktIndex, pktFragIndex>>
  BY DEF DmaFetch, ringVars, ctxVars, locals
<1>2. Serving /\ Serving' /\ CursorsOK /\ CacheOK /\ phase \in {"running", "draining"}
  BY <1>1 DEF Serving, ServingOK, PhaseOK
<1>3. /\ PktTop' = PktTop /\ PktFirst' = PktFirst /\ FragFirst' = FragFirst /\ Start' = Start /\ End' = End
  BY <1>1 DEF PktFirst, FragFirst, PktTop, Start, End
<1>4. PICK b, s, c, g, f \in Int : RingOK(b, s, c, g, f)
  BY <1>2, Ring
<1>5. /\ PlaceOK(b, s, c, g, f) /\ Listed(s, c, f) /\ Linked(s, f) /\ Sorted(s, f) /\ Spanned(s, f) /\ Whole(s, g, f)
      /\ EngineOK(c, g, f) /\ SentOK(Current(c, f))
      /\ b <= s /\ s <= c /\ c <= g /\ g <= f /\ f < b + DescCount
      /\ dma.cur = Masked(c) /\ dma.tail = Masked(g)
  BY <1>4 DEF RingOK, ChainOK, PlaceOK
<1>6. c < g /\ c < f /\ s < f /\ c \in s..(f - 1) /\ b <= c
  BY <1>1, <1>5
<1> DEFINE d == At(c)
           n == d.pkt
           p == pkts[n]
<1>7. d = desc[dma.cur] /\ d \in Descs
  BY <1>5, Division DEF At, TypeOK
<1>8. /\ dma' \in DmaTypes
      /\ dma'.on = dma.on /\ dma'.cur = NextDesc(dma.cur) /\ dma'.tail = dma.tail
      /\ dma'.pkt = IF d.last THEN NoPacket ELSE IF d.first THEN d.pkt ELSE dma.pkt
      /\ dma'.tag = IF ~d.first /\ d.ctx /\ d.tagValid THEN d.tag ELSE dma.tag
      /\ dma'.mss = IF ~d.first /\ d.ctx /\ d.mssValid THEN d.mss ELSE dma.mss
      /\ dma'.frameTag = IF d.first THEN IF d.insert THEN dma.tag ELSE 0 ELSE dma.frameTag
      /\ dma'.frameMss = IF d.first THEN IF d.gso THEN dma.mss ELSE 0 ELSE dma.frameMss
      /\ ~d.last => wire' = wire
      /\ d.last => \E w \in [pkt : Nat, tag : Tags, mss : Nat] :
                     /\ w.pkt = (IF d.first THEN d.pkt ELSE dma.pkt)
                     /\ w.tag = dma'.frameTag /\ w.mss = dma'.frameMss /\ wire' = Append(wire, w)
  <2> HIDE DEF d, n, p
  <2> QED
    BY <1>7, FetchEffect
<1>9. /\ desc' \in [DescIndexes -> Descs] /\ ~At(c)'.own
      /\ \A k \in b..(f - 1) : Alike(k) /\ (k # c => At(k)'.own = At(k).own)
  BY <1>5, <1>6, FetchDescs
<1>10. /\ base \in Nat \ {0} /\ pkts \in Seq(Packets) /\ Len(pkts) \in Nat /\ PktFirst \in Nat \ {0} /\ PktTop \in Nat \ {0}
       /\ base <= PktFirst /\ PktTop <= Len(pkts) + 1 /\ wire \in Seq([pkt : Nat, tag : Tags, mss : Nat])
  BY <1>2, ViewTypes
<1>11. PktsKept /\ PacketsOK' /\ (wire' = wire => WireOK')
  BY <1>1, SameRings
<1>12. DescsAlike(s, f) /\ \A k \in s..(f - 1) : At(k)'.own <=> k >= c + 1
  <2>1. \A k \in s..(f - 1) : k \in b..(f - 1) /\ (At(k).own <=> k >= c)
    BY <1>5 DEF Listed, DescOK
  <2> QED
    BY <1>6, <1>9, <2>1 DEF DescsAlike
<1>13. Listed(s, c + 1, f)' /\ Linked(s, f)' /\ Sorted(s, f)'
  <2>1. c + 1 \in Int /\ s <= s
    OBVIOUS
  <2> QED
    BY <1>5, <1>10, <1>11, <1>12, <2>1, BodyAlike
<1>14. Spanned(s, f)'
  BY <1>2, <1>3, <1>5, <1>11, <1>12, <1>6, SpannedAlike
<1>15. Whole(s, g, f)'
  <2>1. s < g => g - 1 \in b..(f - 1) /\ At(g - 1)'.last
    BY <1>5, <1>9 DEF Whole, Alike
  <2>2. pc' = "fill" /\ g = f => Skipped(pktNext, pktIndex)'
    BY <1>1, <1>5 DEF Whole, Skipped
  <2> QED
    BY <2>1, <2>2 DEF Whole
<1>16. TypeOK'
  <2>1. wire' \in Seq([pkt : Nat, tag : Tags, mss : Nat])
    <3>1. CASE d.last
      <4>1. PICK w \in [pkt : Nat, tag : Tags, mss : Nat] : wire' = Append(wire, w)
        BY <1>8, <3>1
      <4> QED
        BY <1>10, <4>1
    <3>2. CASE ~d.last
      BY <1>8, <1>10, <3>2
    <3> QED
      BY <3>1, <3>2
  <2> HIDE DEF d
  <2> QED
    BY <1>1, <1>8, <1>9, <2>1 DEF TypeOK, DmaTypes
<1>17. PhaseOK'
  BY <1>1, <1>2, <1>8 DEF PhaseOK, pktEnd
<1>18. CursorsOK'
  BY <1>1, <1>2, <1>3 DEF CursorsOK, pktEnd
<1>19. CacheOK'
  BY <1>1, <1>2, <1>3, <1>11, CacheFrame DEF CacheKept
<1>20. PlaceOK(b, s, c + 1, g, f)'
  <2> DEFINE e == c + 1
  <2>1. e \in Int /\ dma'.cur = Masked(e) /\ s <= e /\ e <= g
    BY <1>5, <1>6, <1>8, MaskedNext
  <2> HIDE DEF e
  <2>2. PlaceOK(b, s, e, g, f)'
    BY <1>1, <1>3, <1>5, <1>8, <2>1 DEF PlaceOK
  <2> QED
    BY <2>2 DEF e
\* The descriptor fetched and its packet.
<1>21. /\ n \in base..Len(pkts) /\ n \in 1..Len(pkts) /\ p \in Packets /\ ~p.ignore /\ n \in PktFirst..(PktTop - 1)
       /\ d.ctx => ~d.first /\ ~d.last
       /\ d.ctx => \A o \in Offloads :
            IF Valid(o, d) THEN Given(o, d) = Offload(o, p) /\ Offload(o, p) # 0 ELSE Provided(o, n)
       /\ d.first => (d.insert <=> VlanTag(p) # 0) /\ (d.gso <=> p.mss # 0)
  <2>1. DescOK(c, c) /\ n \in PktFirst..(PktTop - 1)
    BY <1>5, <1>6 DEF Listed, Spanned
  <2>2. n \in base..Len(pkts) /\ n \in 1..Len(pkts)
    BY <1>10, <2>1 DEF DescOK
  <2>3. p \in Packets
    BY <1>10, <2>2
  <2> QED
    BY <2>1, <2>2, <2>3 DEF DescOK
<1>22. Current(c, f) = n /\ SentOK(n) /\ (dma.pkt # NoPacket => dma.pkt = n)
  BY <1>5, <1>6 DEF Current, EngineOK
<1>23. ~d.last => c + 1 < g /\ c + 1 < f /\ Follows(c) /\ c + 1 \in s..(f - 1)
  <2> HAVE ~d.last
  <2>1. At(g - 1).last
    BY <1>5, <1>6 DEF Whole
  <2>2. c # g - 1
    BY <2>1
  <2>3. c + 1 < g /\ c + 1 < f /\ c \in s..(f - 2) /\ c + 1 \in s..(f - 1)
    BY <1>5, <1>6, <2>2
  <2> QED
    BY <1>5, <2>3 DEF Linked
<1>24. c + 1 < f => /\ c + 1 \in s..(f - 1) /\ Alike(c + 1) /\ Follows(c) /\ Ordered(c, c + 1)
                    /\ At(c + 1).pkt \in base..Len(pkts)
  <2> HAVE c + 1 < f
  <2>1. c \in s..(f - 2) /\ c + 1 \in s..(f - 1) /\ c + 1 \in b..(f - 1) /\ c < c + 1
    BY <1>5, <1>6
  <2> QED
    BY <1>5, <1>6, <1>9, <2>1 DEF Linked, Sorted, Listed, DescOK
<1> HIDE DEF d, n, p
<1>25. WireOK' /\ EngineOK(c + 1, g, f)' /\ SentOK(Current(c + 1, f))'
  <2> DEFINE e == c + 1
             m == At(e).pkt
  <2>1. /\ n \in Int /\ n <= Len(pkts) + 1 /\ n + 1 \in Int /\ n + 1 <= Len(pkts) + 1 /\ base <= n /\ base \in Int
        /\ PktTop \in Int /\ n + 1 <= PktTop /\ PktTop <= Len(pkts) + 1 /\ n # NoPacket /\ pkts[n] = p /\ base' = base
        /\ pkts' = pkts /\ e \in Int
    BY <1>1, <1>10, <1>21 DEF NoPacket, p
  <2>2. ASSUME NEW o \in Offloads, NEW k \in Int, k <= Len(pkts) + 1, Knows(o, k), Context(o)' = Context(o)
        PROVE  Knows(o, k)'
    BY <1>10, <1>11, <2>2, KnowsFrame
  <2>3. e < f => At(e)'.ctx = At(e).ctx /\ At(e)'.first = At(e).first /\ At(e)'.pkt = m /\ m' = m /\ (Begins(e)' <=> Begins(e))
    BY <1>24 DEF Alike, Begins
  <2> HIDE DEF e
  <2>5. CASE d.ctx
    <3>1. /\ ~d.first /\ ~d.last /\ wire' = wire /\ dma.pkt = NoPacket /\ \A o \in Offloads : Knows(o, n)
      <4>1. Begins(c)
        BY <2>5 DEF Begins, d
      <4>2. dma.pkt = NoPacket /\ \A o \in Offloads : Knows(o, n)
        BY <1>5, <1>6, <2>5, <4>1 DEF EngineOK, d, n
      <4> QED
        BY <1>8, <1>21, <2>5, <4>2
    <3>2. /\ dma'.pkt = NoPacket /\ dma'.tag = (IF d.tagValid THEN d.tag ELSE dma.tag)
          /\ dma'.mss = (IF d.mssValid THEN d.mss ELSE dma.mss)
      BY <1>8, <2>5, <3>1
    <3>3. e < f /\ ~At(e)'.ctx /\ m = n /\ At(e)'.first /\ Begins(e)'
      <4>1. e < f /\ ~At(e).ctx /\ m = n /\ At(e).first
        BY <1>23, <2>5, <3>1 DEF Follows, d, n, e
      <4> QED
        BY <2>3, <4>1 DEF Begins
    <3>4. ASSUME NEW o \in Offloads, NEW x \in Int, x = n PROVE Knows(o, x + 1)'
      <4>1. CASE Valid(o, d)
        <5>1. Given(o, d) = Offload(o, p) /\ Offload(o, p) # 0
          BY <1>21, <2>5, <4>1
        <5>2. Context(o)' = Offload(o, pkts[x])
          BY <2>1, <3>2, <3>4, <4>1, <5>1 DEF Context, Valid, Given
        <5>3. Uses(o, x) /\ base <= x
          BY <1>21, <2>1, <3>4, <5>1 DEF Uses
        <5> QED
          BY <1>1, <2>1, <5>2, <5>3, KnowsAfterUse
      <4>2. CASE ~Valid(o, d)
        <5>1. Provided(o, n) /\ Knows(o, n)
          BY <1>21, <2>5, <3>1, <4>2
        <5>2. Context(o)' = Context(o)
          BY <3>2, <4>2 DEF Context, Valid
        <5>3. Knows(o, x + 1) /\ x + 1 \in Int /\ x + 1 <= Len(pkts) + 1
          BY <1>21, <2>1, <3>4, <5>1, KnowsNext
        <5> QED
          BY <2>1, <2>2, <5>2, <5>3
      <4> QED
        BY <4>1, <4>2
    <3>5. \A o \in Offloads : Knows(o, IF At(e).ctx THEN At(e).pkt ELSE At(e).pkt + 1)'
      <4> SUFFICES ASSUME NEW o \in Offloads, NEW x \in Int, x = n PROVE Knows(o, x + 1)'
        BY <2>1, <2>3, <3>3
      <4> QED
        BY <3>4
    <3>6. EngineOK(e, g, f)'
      BY <3>2, <3>3, <3>5 DEF EngineOK
    <3>7. SentOK(Current(e, f))'
      <4>1. Current(e, f)' = n
        BY <2>3, <3>2, <3>3 DEF Current
      <4> SUFFICES ASSUME NEW x \in Int, x = n PROVE SentOK(x)'
        BY <2>1, <4>1
      <4> QED
        BY <1>2, <1>11, <1>22, <2>1, <3>1, SentFrame
    <3> QED
      BY <1>11, <3>1, <3>6, <3>7 DEF e
  <2>6. CASE ~d.ctx
    <3>1. /\ (IF d.first THEN d.pkt ELSE dma.pkt) = n /\ dma'.frameTag = VlanTag(p) /\ dma'.frameMss = p.mss
          /\ \A o \in Offloads : Knows(o, n + 1)
      <4>1. CASE d.first
        <5>1. /\ d.pkt = n /\ (d.insert <=> VlanTag(p) # 0) /\ (d.gso <=> p.mss # 0)
              /\ dma'.frameTag = (IF d.insert THEN dma.tag ELSE 0) /\ dma'.frameMss = (IF d.gso THEN dma.mss ELSE 0)
          BY <1>8, <1>21, <4>1 DEF n
        <5>2. Begins(c)
          BY <4>1 DEF Begins, d
        <5>3. \A o \in Offloads : Knows(o, n + 1)
          BY <1>5, <1>6, <2>6, <5>2 DEF EngineOK, d, n
        <5>4. \A o \in Offloads : Offload(o, p) # 0 => Context(o) = Offload(o, p)
          <6> SUFFICES ASSUME NEW o \in Offloads, Offload(o, p) # 0 PROVE Context(o) = Offload(o, pkts[n])
            BY <2>1
          <6>1. Uses(o, n)
            BY <1>21, <2>1 DEF Uses
          <6> QED
            BY <2>1, <5>3, <6>1, KnownUse
        <5>5. VlanTag(p) # 0 => dma.tag = VlanTag(p)
          BY <5>4 DEF Offloads, Offload, Context
        <5>6. p.mss # 0 => dma.mss = p.mss
          <6>1. "mss" \in Offloads /\ Offload("mss", p) = p.mss /\ Context("mss") = dma.mss
            BY DEF Offloads, Offload, Context
          <6> QED
            BY <5>4, <6>1
        <5> QED
          BY <4>1, <5>1, <5>3, <5>5, <5>6
      <4>2. CASE ~d.first
        <5>1. ~Begins(c)
          BY <2>6, <4>2 DEF Begins, d
        <5>2. /\ dma.pkt # NoPacket /\ dma.pkt = n /\ dma.frameTag = VlanTag(pkts[n]) /\ dma.frameMss = pkts[n].mss
              /\ \A o \in Offloads : Knows(o, n + 1)
          BY <1>5, <1>6, <5>1 DEF EngineOK, d, n
        <5> QED
          BY <1>8, <2>1, <4>2, <5>2
      <4> QED
        BY <4>1, <4>2
    <3>2. dma'.tag = dma.tag /\ dma'.mss = dma.mss /\ dma'.pkt = IF d.last THEN NoPacket ELSE n
      BY <1>8, <2>6, <3>1
    <3>3. \A o \in Offloads : Context(o)' = Context(o)
      BY <3>2 DEF Context
    <3>4. CASE ~d.last
      <4>1. dma'.pkt = n /\ wire' = wire
        BY <1>8, <3>2, <3>4
      <4>2. e < g /\ e < f /\ m = n /\ ~Begins(e)
        BY <1>23, <2>6, <3>4 DEF Follows, Begins, d, n, e
      <4>3. \A o \in Offloads : Knows(o, dma.pkt + 1)'
        <5> SUFFICES ASSUME NEW o \in Offloads, NEW x \in Int, x = n + 1 PROVE Knows(o, x)'
          BY <2>1, <4>1
        <5> QED
          BY <2>1, <2>2, <3>1, <3>3
      <4>4. /\ ~Begins(e)' /\ At(e)'.pkt = dma'.pkt
            /\ dma'.frameTag = VlanTag(pkts'[dma'.pkt]) /\ dma'.frameMss = pkts'[dma'.pkt].mss
        BY <2>1, <2>3, <3>1, <4>1, <4>2
      <4>5. EngineOK(e, g, f)'
        BY <2>1, <4>1, <4>2, <4>3, <4>4 DEF EngineOK
      <4>6. SentOK(Current(e, f))'
        <5>1. Current(e, f)' = n
          BY <2>1, <4>1 DEF Current
        <5> SUFFICES ASSUME NEW x \in Int, x = n PROVE SentOK(x)'
          BY <2>1, <5>1
        <5> QED
          BY <1>2, <1>11, <1>22, <2>1, <4>1, SentFrame
      <4> QED
        BY <1>11, <4>1, <4>5, <4>6 DEF e
    <3>5. CASE d.last
      <4>1. dma'.pkt = NoPacket
        BY <3>2, <3>5
      <4>2. PICK w \in [pkt : Nat, tag : Tags, mss : Nat] :
              w.pkt = n /\ w.tag = VlanTag(pkts[n]) /\ w.mss = pkts[n].mss /\ wire' = Append(wire, w)
        BY <1>8, <2>1, <3>1, <3>5
      <4>3. WireOK' /\ (\A k \in base..n : pkts[k].ignore \/ Sent(k)') /\ \A i \in DOMAIN wire' : wire'[i].pkt <= n
        BY <1>1, <1>21, <1>22, <2>1, <4>2, WireGrows
      <4>4. wire' \in Seq([pkt : Nat, tag : Tags, mss : Nat])
        BY <1>16 DEF TypeOK
      <4>5. CASE e < f
        <5>1. Follows(c) /\ Ordered(c, e) /\ m \in base..Len(pkts) /\ At(c).last /\ At(c).pkt = n
          BY <1>24, <3>5, <4>5 DEF e, d, n
        <5>2. n < m /\ Skipped(n + 1, m) /\ Begins(e) /\ m \in Int /\ m <= Len(pkts)
          BY <1>10, <5>1 DEF Ordered, Follows, e
        <5> DEFINE y == IF At(e).ctx THEN m ELSE m + 1
        <5>3. \A o \in Offloads : Knows(o, y)
          <6> SUFFICES ASSUME NEW o \in Offloads PROVE Knows(o, y)
            OBVIOUS
          <6>1. Knows(o, At(c).pkt + 1) /\ At(c).pkt \in base..Len(pkts)
            BY <1>21, <3>1, <5>1
          <6> QED
            BY <1>10, <4>5, <5>1, <6>1, FrameEnds DEF e
        <5>4. \A o \in Offloads : Knows(o, IF At(e).ctx THEN At(e).pkt ELSE At(e).pkt + 1)'
          <6>1. y \in Int /\ y <= Len(pkts) + 1
            BY <1>10, <5>2
          <6>2. y' = y
            BY <2>3, <4>5
          <6> SUFFICES ASSUME NEW o \in Offloads, NEW x \in Int, x = y PROVE Knows(o, x)'
            BY <6>1, <6>2
          <6> HIDE DEF y
          <6> QED
            BY <2>2, <3>3, <5>3, <6>1
        <5>5. EngineOK(e, g, f)'
          BY <2>3, <4>1, <4>5, <5>2, <5>4 DEF EngineOK
        <5>6. SentOK(Current(e, f))'
          <6>1. Current(e, f)' = m
            BY <2>3, <4>1, <4>5 DEF Current
          <6> HIDE DEF m
          <6> SUFFICES ASSUME NEW x \in Int, x = m PROVE SentOK(x)'
            BY <5>2, <6>1
          <6> QED
            BY <1>1, <2>1, <4>3, <4>4, <5>2, SentAfter
        <5> QED
          BY <4>3, <5>5, <5>6 DEF e
      <4>6. CASE ~(e < f)
        <5>1. e = f /\ c = f - 1
          BY <1>6, <4>6 DEF e
        <5>2. Skipped(n + 1, PktTop)
          BY <1>5, <1>6, <5>1 DEF Spanned, d, n
        <5> DEFINE t == PktTop
        <5>3. t \in Int /\ t' = t /\ n < t /\ n + 1 <= t /\ t <= Len(pkts) + 1 /\ Skipped(n + 1, t)
          BY <1>3, <2>1, <5>2
        <5> HIDE DEF t
        <5>4. \A o \in Offloads : Knows(o, t)
          <6> SUFFICES ASSUME NEW o \in Offloads PROVE Knows(o, t)
            OBVIOUS
          <6> QED
            BY <2>1, <3>1, <5>3, SkippedUnused, KnowsSame
        <5>5. \A o \in Offloads : Knows(o, t)'
          <6> SUFFICES ASSUME NEW o \in Offloads, NEW x \in Int, x = t PROVE Knows(o, x)'
            BY <5>3
          <6> QED
            BY <2>2, <3>3, <5>3, <5>4
        <5>6. EngineOK(e, g, f)'
          BY <4>1, <4>6, <5>5 DEF EngineOK, t
        <5>7. SentOK(Current(e, f))'
          <6>1. Current(e, f)' = t
            BY <4>1, <4>6, <5>3 DEF Current, t
          <6> SUFFICES ASSUME NEW x \in Int, x = t PROVE SentOK(x)'
            BY <5>3, <6>1
          <6> QED
            BY <1>1, <2>1, <4>3, <4>4, <5>3, SentAfter
        <5> QED
          BY <4>3, <5>6, <5>7 DEF e
      <4> QED
        BY <4>5, <4>6
    <3> QED
      BY <3>4, <3>5
  <2> QED
    BY <2>5, <2>6
<1>26. ServingOK'
  <2> DEFINE e == c + 1
  <2>1. PICK x \in Int : x = e
    OBVIOUS
  <2>2. /\ PlaceOK(b, s, x, g, f)' /\ Listed(s, x, f)' /\ EngineOK(x, g, f)' /\ SentOK(Current(x, f))'
    BY <1>13, <1>20, <1>25, <2>1
  <2> HIDE DEF e
  <2> QED
    BY <1>13, <1>14, <1>15, <1>18, <1>19, <2>2, Assembled
<1> QED
  BY <1>11, <1>16, <1>17, <1>25, <1>26

-----------------------------------------------------------------------------
(* Cancelling, stopping and starting.                                      *)

\* With all its packets returned the queue has none in progress.
LEMMA CancelEmptyHolds ==
  ASSUME IInv, CancelEmpty
  PROVE  IInv'
<1> USE DEF IInv
<1>1. /\ phase = "running" /\ pc = "idle" /\ pktBegin = pktEnd /\ phase' = "cancelled" /\ dma' = [dma EXCEPT !.on = FALSE]
      /\ UNCHANGED <<pkts, pktBegin, pktNext, fragBegin, fragEnd, base, descBegin, descEnd, lastMss, lastVlanTag, desc, pc,
                     descIndex, pktIndex, pktFragIndex, wire>>
  BY DEF CancelEmpty, ringVars, ctxVars, locals
<1>2. dma \in DmaTypes
  BY DEF TypeOK, DmaTypes
<1>3. dma' \in DmaTypes /\ dma'.on = FALSE /\ dma'.pkt = dma.pkt
  BY <1>1, <1>2 DEF DmaTypes
<1>4. TypeOK'
  BY <1>1, <1>3 DEF TypeOK, DmaTypes
<1>5. PacketsOK' /\ WireOK'
  BY <1>1, SameRings
<1>6. dma.pkt = NoPacket
  <2>1. Serving /\ CursorsOK
    BY <1>1 DEF Serving, ServingOK
  <2>2. PICK b, s, c, g, f \in Int : RingOK(b, s, c, g, f)
    BY <2>1, Ring
  <2>3. dma.pkt # NoPacket => At(c).pkt \in PktFirst..(PktTop - 1)
    BY <2>1, <2>2, CurrentBound DEF RingOK, ChainOK, PlaceOK
  <2>4. PktFirst = pktEnd /\ PktTop <= pktEnd /\ PktTop \in Int /\ pktEnd \in Int
    BY <1>1, <2>1, ViewTypes DEF PktFirst, CursorsOK
  <2> QED
    BY <2>3, <2>4
<1>7. PhaseOK'
  BY <1>1, <1>3, <1>6 DEF PhaseOK, pktEnd
<1>8. ~Serving'
  BY <1>1 DEF Serving
<1> QED
  BY <1>4, <1>5, <1>7, <1>8

\* The engine does not end in time: TxQueueCancel goes on all the same.
LEMMA CancelTimeoutHolds ==
  ASSUME IInv, CancelTimeout
  PROVE  IInv'
<1> USE DEF IInv
<1>1. /\ phase = "draining" /\ phase' = "flushed" /\ dma' = [dma EXCEPT !.pkt = NoPacket] /\ descBegin' = 0 /\ descEnd' = 0
      /\ UNCHANGED <<pkts, pktBegin, pktNext, fragBegin, fragEnd, base, lastMss, lastVlanTag, desc, pc,
                     descIndex, pktIndex, pktFragIndex, wire>>
  BY DEF CancelTimeout, ringVars, locals
<1>2. dma \in DmaTypes
  BY DEF TypeOK, DmaTypes
<1>3. dma' \in DmaTypes /\ dma'.on = dma.on /\ dma'.pkt = NoPacket
  BY <1>1, <1>2 DEF DmaTypes, NoPacket
<1>4. TypeOK'
  BY <1>1, <1>3, MaskedZero DEF TypeOK, DmaTypes
<1>5. PacketsOK' /\ WireOK'
  BY <1>1, SameRings
<1>6. PhaseOK'
  BY <1>1, <1>3 DEF PhaseOK, pktEnd
<1>7. ~Serving'
  BY <1>1 DEF Serving
<1> QED
  BY <1>4, <1>5, <1>6, <1>7

\* The cancelled packets are returned with their fragments.
LEMMA CancelDiscardHolds ==
  ASSUME IInv, CancelDiscard
  PROVE  IInv'
<1> USE DEF IInv
<1>1. /\ phase = "flushed" /\ phase' = "cancelled" /\ pktBegin' = pktEnd /\ fragBegin' = fragEnd
      /\ UNCHANGED <<pkts, pktNext, fragEnd, base, descBegin, descEnd, lastMss, lastVlanTag, desc, pc,
                     descIndex, pktIndex, pktFragIndex, dma, wire>>
  BY DEF CancelDiscard, ctxVars, locals
<1>2. pktEnd \in Nat \ {0} /\ pktEnd' = pktEnd /\ fragEnd \in Nat \ {0}
  <2>1. Len(pkts) \in Nat
    BY DEF TypeOK
  <2> QED
    BY <1>1, <2>1 DEF pktEnd, TypeOK
<1>3. TypeOK'
  BY <1>1, <1>2 DEF TypeOK
<1>4. PacketsOK' /\ WireOK'
  BY <1>1, SameRings
<1>5. PhaseOK'
  BY <1>1, <1>2 DEF PhaseOK
<1>6. ~Serving'
  BY <1>1 DEF Serving
<1> QED
  BY <1>3, <1>4, <1>5, <1>6

\* TxQueueStop stops the engine.
LEMMA TxQueueStopHolds ==
  ASSUME IInv, TxQueueStop
  PROVE  IInv'
<1> USE DEF IInv
<1>1. /\ phase = "cancelled" /\ phase' = "stopped" /\ descBegin' = 0 /\ descEnd' = 0
      /\ UNCHANGED <<pkts, pktBegin, pktNext, fragBegin, fragEnd, base, lastMss, lastVlanTag, desc, pc,
                     descIndex, pktIndex, pktFragIndex, dma, wire>>
  BY DEF TxQueueStop, ringVars, locals
<1>2. TypeOK'
  BY <1>1, MaskedZero DEF TypeOK
<1>3. PacketsOK' /\ WireOK'
  BY <1>1, SameRings
<1>4. PhaseOK'
  BY <1>1 DEF PhaseOK, pktEnd
<1>5. ~Serving'
  BY <1>1 DEF Serving
<1> QED
  BY <1>2, <1>3, <1>4, <1>5

\* A queue that starts has nothing queued; what it counts begins anew.
LEMMA TxQueueStartHolds ==
  ASSUME IInv, TxQueueStart
  PROVE  IInv'
<1> USE DEF IInv
<1>1. /\ phase = "stopped" /\ phase' = "running" /\ lastMss' = NoMss /\ lastVlanTag' = 0 /\ descBegin' = 0 /\ descEnd' = 0
      /\ dma' = [dma EXCEPT !.on = TRUE, !.cur = 0, !.tail = 0] /\ pktNext' = pktEnd /\ base' = pktEnd
      /\ UNCHANGED <<pkts, pktBegin, fragBegin, fragEnd, desc, pc, descIndex, pktIndex, pktFragIndex, wire>>
  BY DEF TxQueueStart, locals
<1>2. dma \in DmaTypes /\ 0 \in DescIndexes /\ Masked(0) = 0
  BY MaskedZero DEF TypeOK, DmaTypes
<1>3. dma' \in DmaTypes /\ dma'.on = TRUE /\ dma'.cur = 0 /\ dma'.tail = 0 /\ dma'.pkt = dma.pkt
  BY <1>1, <1>2 DEF DmaTypes
<1>4. /\ pktEnd \in Nat \ {0} /\ pktEnd' = pktEnd /\ pktEnd = Len(pkts) + 1 /\ Len(pkts) \in Nat /\ pktBegin = pktEnd
      /\ dma.pkt = NoPacket /\ pc = "idle" /\ fragBegin <= fragEnd /\ fragBegin \in Nat
  <2>1. Len(pkts) \in Nat /\ fragBegin \in Nat
    BY DEF TypeOK
  <2> QED
    BY <1>1, <2>1 DEF pktEnd, PhaseOK
<1>5. TypeOK'
  <2>1. NoMss \in Nat /\ 0 \in Tags
    BY BoundsAssumption DEF Tags
  <2> QED
    BY <1>1, <1>2, <1>3, <1>4, <2>1 DEF TypeOK, DmaTypes
<1>6. PacketsOK'
  BY <1>1 DEF PacketsOK
<1>7. \A i \in DOMAIN wire : wire[i].pkt \in 1..Len(pkts) /\ ~pkts[wire[i].pkt].ignore /\ wire[i].pkt < pktEnd
  BY <1>4 DEF WireOK
<1>8. WireOK'
  <2>1. WireFaithful'
    BY <1>1 DEF WireOK, WireFaithful
  <2>2. SentInOrder'
    <3>1. \A i \in DOMAIN wire : ~(wire[i].pkt >= pktEnd)
      BY <1>4, <1>7
    <3> QED
      BY <1>1, <3>1 DEF WireOK, SentInOrder
  <2> QED
    BY <1>1, <1>7, <2>1, <2>2 DEF WireOK
<1>9. PhaseOK'
  BY <1>1, <1>3, <1>4 DEF PhaseOK
<1>10. /\ PktFirst' = pktEnd /\ FragFirst' = fragBegin /\ PktTop' = pktEnd /\ Start' = 0 /\ End' = 0
  BY <1>1, <1>4 DEF PktFirst, FragFirst, PktTop, Start, End
<1>11. CursorsOK'
  BY <1>1, <1>4, <1>10 DEF CursorsOK
<1>12. CacheOK' /\ \A o \in Offloads : Knows(o, PktTop)'
  <2>1. \A o \in Offloads : Cached(o)' = Unset(o)
    BY <1>1 DEF Cached, Unset, Offloads
  <2>2. base'..(PktTop' - 1) = {}
    BY <1>1, <1>4, <1>10
  <2> QED
    BY <2>1, <2>2 DEF CacheOK, Latest, Knows, Unset
<1>13. PlaceOK(0, 0, 0, 0, 0)'
  BY <1>1, <1>2, <1>3, <1>4, <1>10, DescCountAssumption DEF PlaceOK
<1>14. Listed(0, 0, 0)' /\ Linked(0, 0)' /\ Sorted(0, 0)' /\ Spanned(0, 0)' /\ Whole(0, 0, 0)'
  <2>1. 0..(0 - 1) = {} /\ 0..(0 - 2) = {}
    OBVIOUS
  <2>2. Skipped(PktFirst, PktTop)'
    BY <1>4, <1>10 DEF Skipped
  <2> QED
    BY <1>1, <1>4, <2>1, <2>2 DEF Listed, Linked, Sorted, Spanned, Whole
<1>15. EngineOK(0, 0, 0)' /\ SentOK(Current(0, 0))'
  <2>1. EngineOK(0, 0, 0)' /\ Current(0, 0)' = pktEnd
    BY <1>3, <1>4, <1>10, <1>12 DEF EngineOK, Current
  <2>2. base'..(pktEnd - 1) = {}
    BY <1>1, <1>4
  <2> SUFFICES ASSUME NEW x \in Int, x = pktEnd PROVE SentOK(x)'
    BY <1>4, <2>1
  <2> QED
    BY <1>1, <1>7, <2>2 DEF SentOK
<1>16. ServingOK'
  <2>1. 0 \in Int
    OBVIOUS
  <2> QED
    BY <1>11, <1>12, <1>13, <1>14, <1>15, <2>1, Assembled
<1> QED
  BY <1>5, <1>6, <1>8, <1>9, <1>16

\* The queue when it is created.
LEMMA InitHolds == Init => IInv
<1> SUFFICES ASSUME Init PROVE IInv
  OBVIOUS
<1>1. Blank \in Descs /\ 0 \in Tags /\ 0 \in DescIndexes
  BY MaskedZero DEF Blank, Descs, Tags, NoPacket
<1>2. /\ pkts = << >> /\ pkts \in Seq(Packets) /\ Len(pkts) = 0 /\ wire = << >>
      /\ wire \in Seq([pkt : Nat, tag : Tags, mss : Nat]) /\ DOMAIN wire = {}
  BY DEF Init
<1>3. dma \in DmaTypes
  BY <1>1 DEF Init, DmaTypes, NoPacket
<1>4. TypeOK
  <2>1. desc \in [DescIndexes -> Descs]
    BY <1>1 DEF Init
  <2> QED
    BY <1>1, <1>2, <1>3, <2>1 DEF Init, TypeOK, DmaTypes
<1>5. PacketsOK
  BY <1>2 DEF PacketsOK
<1>6. WireOK
  BY <1>2 DEF WireOK, WireFaithful, SentInOrder
<1>7. PhaseOK
  BY <1>2 DEF Init, PhaseOK, pktEnd, NoPacket
<1>8. ~Serving
  BY DEF Init, Serving
<1> QED
  BY <1>4, <1>5, <1>6, <1>7, <1>8 DEF IInv

-----------------------------------------------------------------------------
(* The theorems.                                                           *)

\* A step of another part.
LEMMA StutterHolds ==
  ASSUME IInv, UNCHANGED vars
  PROVE  IInv'
<1> USE DEF IInv
<1>1. UNCHANGED <<pkts, pktBegin, pktNext, fragBegin, fragEnd, base, descBegin, descEnd, lastMss, lastVlanTag, desc,
                  phase, pc, descIndex, pktIndex, pktFragIndex, dma, wire>>
  BY DEF vars, ringVars, ctxVars, locals
<1>2. TypeOK'
  BY <1>1 DEF TypeOK
<1>3. PktsKept /\ PacketsOK' /\ WireOK'
  BY <1>1, SameRings
<1>4. PhaseOK'
  BY <1>1 DEF PhaseOK, pktEnd
<1>5. Serving' <=> Serving
  BY <1>1 DEF Serving
<1>6. ASSUME Serving PROVE ServingOK'
  <2>1. /\ PktTop' = PktTop /\ PktFirst' = PktFirst /\ FragFirst' = FragFirst /\ Start' = Start /\ End' = End
    BY <1>1 DEF PktFirst, FragFirst, PktTop, Start, End
  <2>2. CursorsOK /\ CacheOK
    BY <1>6 DEF ServingOK
  <2>3. CursorsOK'
    BY <1>1, <2>1, <2>2 DEF CursorsOK, pktEnd
  <2>4. PICK b, s, c, g, f \in Int : RingOK(b, s, c, g, f)
    BY <1>6, Ring
  <2>5. PlaceOK(b, s, c, g, f) /\ Spanned(s, f) /\ Whole(s, g, f) /\ s <= c /\ c <= g /\ g <= f
    BY <2>4 DEF RingOK, ChainOK, PlaceOK
  <2>6. PlaceOK(b, s, c, g, f)'
    BY <1>1, <2>1, <2>5 DEF PlaceOK
  <2>7. /\ CacheOK' /\ Listed(s, c, f)' /\ Linked(s, f)' /\ Sorted(s, f)'
        /\ EngineOK(c, g, f)' /\ SentOK(Current(c, f))'
    <3>1. CacheKept /\ EngineKept
      BY <1>1 DEF CacheKept, EngineKept
    <3> QED
      BY <1>1, <1>3, <2>1, <2>2, <2>4, <2>5, <3>1, Quiet
  <2>8. Spanned(s, f)'
    BY <1>1, <1>3, <2>1, <2>2, <2>5, SpannedFrame DEF DescsKept, At
  <2>9. Whole(s, g, f)'
    BY <1>1, <2>5 DEF Whole, At, Skipped
  <2> QED
    BY <2>3, <2>6, <2>7, <2>8, <2>9, Assembled
<1> QED
  BY <1>2, <1>3, <1>4, <1>5, <1>6

\* Every step keeps the invariant.
LEMMA StepHolds == IInv /\ [Next]_vars => IInv'
<1> SUFFICES ASSUME IInv, [Next]_vars PROVE IInv'
  OBVIOUS
<1>1. ASSUME NEW p \in Kinds, Post(p) PROVE IInv'
  BY <1>1, PostHolds
<1>2. CASE TxQueueStart
  BY <1>2, TxQueueStartHolds
<1>3. CASE TxQueueAdvance
  BY <1>3, AdvanceHolds DEF TxQueueAdvance
<1>4. CASE ReclaimOne
  BY <1>4, ReclaimOneHolds
<1>5. CASE ReclaimDone
  BY <1>5, ReclaimDoneHolds
<1>6. CASE FillIgnored
  BY <1>6, FillIgnoredHolds
<1>7. CASE FillPacket
  BY <1>7, FillPacketHolds
<1>8. CASE FillDone
  BY <1>8, FillDoneHolds
<1>9. CASE CancelEmpty
  BY <1>9, CancelEmptyHolds
<1>10. CASE CancelStart
  BY <1>10, CancelStartHolds
<1>11. CASE CancelDrained
  BY <1>11, AdvanceHolds DEF CancelDrained
<1>12. CASE CancelTimeout
  BY <1>12, CancelTimeoutHolds
<1>13. CASE CancelDiscard
  BY <1>13, CancelDiscardHolds
<1>14. CASE TxQueueStop
  BY <1>14, TxQueueStopHolds
<1>15. CASE DmaFetch
  BY <1>15, DmaFetchHolds
<1>16. CASE UNCHANGED vars
  BY <1>16, StutterHolds
<1> QED
  BY <1>1, <1>2, <1>3, <1>4, <1>5, <1>6, <1>7, <1>8, <1>9, <1>10, <1>11, <1>12, <1>13, <1>14, <1>15, <1>16 DEF Next

\* In every state the rings, the cache and the engine agree as IInv says: each
\* packet between the cursors has its descriptors, whole and in order, and the
\* context they leave the engine with is the one lastMss and lastVlanTag say.
THEOREM Invariance == Spec => []IInv
BY InitHolds, StepHolds, PTL DEF Spec

\* Every frame on the wire carries the VLAN tag and the MSS of its packet, however
\* the context descriptors that earlier packets needed were spared.
THEOREM EveryFrameFaithful == Spec => []WireFaithful
<1>1. IInv => WireFaithful
  BY DEF IInv, WireOK
<1> QED
  BY <1>1, Invariance, PTL

\* Frames leave in the order of their packets, each at most once.
THEOREM EveryFrameInOrder == Spec => []SentInOrder
<1>1. IInv => SentInOrder
  BY DEF IInv, WireOK
<1> QED
  BY <1>1, Invariance, PTL

\* What the engine may fetch has a count between where it is and the tail.
LEMMA FetchableCount ==
  ASSUME IInv, NEW i \in Fetchable
  PROVE  Serving /\ \E b, s, c, g, f \in Int : RingOK(b, s, c, g, f) /\ \E k \in c..(g - 1) : i = Masked(k)
<1>1. Serving
  BY DEF IInv, Fetchable, PhaseOK, Serving
<1>2. PICK b, s, c, g, f \in Int : RingOK(b, s, c, g, f)
  BY <1>1, Ring
<1>3. /\ b <= s /\ s <= c /\ c <= g /\ g <= f /\ f < b + DescCount /\ dma.cur = Masked(c) /\ dma.tail = Masked(g)
  BY <1>2 DEF RingOK, PlaceOK
<1>4. i \in DescIndexes /\ Masked(i - dma.cur) < Masked(dma.tail - dma.cur)
  BY DEF Fetchable
<1> DEFINE l == g - c
           e == Masked(i - Masked(c))
<1>5. l \in DescIndexes /\ c + l = g
  BY <1>3, DescCountAssumption DEF DescIndexes
<1> HIDE DEF l
<1>6. Masked(Masked(g) - Masked(c)) = l
  BY <1>5, MaskedDistance
<1>7. i = Masked(c + e)
  BY <1>4, MaskedFound
<1>8. e \in DescIndexes /\ e < l
  <2>1. Masked(c) \in DescIndexes
    BY Division
  <2>2. i - Masked(c) \in Int
    BY <1>4, <2>1, DescCountAssumption DEF DescIndexes
  <2> QED
    BY <1>3, <1>4, <1>6, <2>2, Division
<1> HIDE DEF e
<1>9. c + e \in c..(g - 1)
  BY <1>5, <1>8, DescCountAssumption DEF DescIndexes
<1> QED
  BY <1>1, <1>2, <1>7, <1>9

\* Whatever the engine may fetch next is of a fragment that has not been returned.
THEOREM FetchedIsHeld == Spec => []NothingReturnedInUse
<1>1. IInv => NothingReturnedInUse
  <2> SUFFICES ASSUME IInv, NEW i \in Fetchable, desc[i].own
               PROVE  desc[i].pkt >= pktBegin /\ desc[i].frag >= fragBegin
    BY DEF NothingReturnedInUse
  <2>1. Serving /\ \E b, s, c, g, f \in Int : RingOK(b, s, c, g, f) /\ \E k \in c..(g - 1) : i = Masked(k)
    BY FetchableCount
  <2>2. PICK b, s, c, g, f \in Int : RingOK(b, s, c, g, f) /\ \E k \in c..(g - 1) : i = Masked(k)
    BY <2>1
  <2>3. PICK k \in c..(g - 1) : i = Masked(k)
    BY <2>2
  <2>4. Listed(s, c, f) /\ Spanned(s, f) /\ s <= c /\ g <= f
    BY <2>2 DEF RingOK, ChainOK, PlaceOK
  <2>5. k \in s..(f - 1) /\ At(k) = desc[i]
    BY <2>3, <2>4 DEF At
  <2> DEFINE n == desc[i].pkt
  <2>6. n \in PktFirst..(PktTop - 1) /\ n \in base..Len(pkts) /\ desc[i].frag >= pkts[n].frag
    BY <2>4, <2>5 DEF Listed, Spanned, DescOK
  <2>7. TypeOK /\ CursorsOK
    BY <2>1 DEF IInv, ServingOK
  <2> HIDE DEF n
  <2>8. n >= PktFirst /\ n \in PktFirst..Len(pkts) /\ n \in 1..Len(pkts) /\ PktFirst >= pktBegin /\ pktBegin \in Nat
        /\ PktFirst \in Nat
    BY <2>6, <2>7, ViewTypes DEF CursorsOK
  <2>9. n >= pktBegin
    BY <2>6, <2>8
  <2>10. pkts[n].frag >= FragFirst /\ FragFirst >= fragBegin
    BY <2>7, <2>8 DEF CursorsOK
  <2>11. desc[i].frag \in Int /\ pkts[n].frag \in Int /\ FragFirst \in Int /\ fragBegin \in Int
    <3>1. desc[i] \in Descs /\ pkts[n] \in Packets /\ FragFirst \in Int /\ fragBegin \in Int
      BY <2>7, <2>8, ViewTypes DEF TypeOK, Fetchable
    <3> QED
      BY <3>1, PacketTyped DEF Descs
  <2> QED
    BY <2>6, <2>9, <2>10, <2>11 DEF n
<1> QED
  BY <1>1, Invariance, PTL

\* TxQueueAdvance never writes into a descriptor that the engine has still to fetch.
THEOREM NeverOverwritten == Spec => NoOverwrite
<1> DEFINE Kept == \A i \in Fetchable : desc'[i] # desc[i] => desc'[i] = [desc[i] EXCEPT !.own = FALSE]
<1>1. ASSUME IInv, FillPacket, NEW i \in Fetchable PROVE desc'[i] = desc[i]
  <2>1. PICK b, s, c, g, f \in Int : RingOK(b, s, c, g, f) /\ \E k \in c..(g - 1) : i = Masked(k)
    BY <1>1, FetchableCount
  <2>2. PICK k \in c..(g - 1) : i = Masked(k)
    BY <2>1
  <2>3. k \in b..(f - 1)
    BY <2>1, <2>2 DEF RingOK, PlaceOK
  <2>4. DescsKept(b, f)
    BY <1>1, <2>1, FillPacketWrites
  <2> QED
    BY <2>2, <2>3, <2>4 DEF DescsKept, At
<1>2. ASSUME IInv, DmaFetch, NEW i \in Fetchable PROVE desc'[i] # desc[i] => desc'[i] = [desc[i] EXCEPT !.own = FALSE]
  <2>1. desc' = [desc EXCEPT ![dma.cur].own = FALSE] /\ i \in DescIndexes /\ desc \in [DescIndexes -> Descs]
    BY <1>2 DEF DmaFetch, IInv, TypeOK, Fetchable
  <2> QED
    BY <2>1
<1>3. IInv /\ [Next]_vars => [Kept]_vars
  <2> SUFFICES ASSUME IInv, Next, desc' # desc PROVE Kept
    OBVIOUS
  <2>1. FillPacket \/ DmaFetch
    BY DEF Next, Post, TxQueueStart, TxQueueAdvance, Advance, ReclaimOne, ReclaimDone, FillIgnored, FillDone,
           CancelEmpty, CancelStart, CancelDrained, CancelTimeout, CancelDiscard, TxQueueStop
  <2> QED
    BY <1>1, <1>2, <2>1
<1> QED
  BY <1>3, Invariance, PTL DEF Spec, NoOverwrite

\* A packet that the loop of TxQueueAdvance has reclaimed was sent or ignored.
LEMMA ReclaimedWasSent ==
  ASSUME IInv, ReclaimDone
  PROVE  \A k \in pktBegin..(pktBegin' - 1) : pkts[k].ignore \/ Sent(k)
<1> SUFFICES ASSUME NEW k \in pktBegin..(pktBegin' - 1) PROVE pkts[k].ignore \/ Sent(k)
  OBVIOUS
<1>1. pktBegin' = PktFirst /\ Serving /\ TypeOK
  BY DEF ReclaimDone, PktFirst, IInv, PhaseOK, Serving
<1>2. CursorsOK
  BY <1>1 DEF IInv, ServingOK
<1>3. PICK b, s, c, g, f \in Int : RingOK(b, s, c, g, f)
  BY <1>1, Ring
<1> DEFINE n == Current(c, f)
<1>4. n \in PktFirst..PktTop /\ SentOK(n)
  BY <1>1, <1>2, <1>3, CurrentBound DEF RingOK, ChainOK, PlaceOK
<1> HIDE DEF n
<1>5. k \in base..(n - 1)
  BY <1>1, <1>2, <1>4, ViewTypes DEF CursorsOK
<1> QED
  BY <1>4, <1>5 DEF SentOK

(* A packet returned while the queue runs was sent.  Only TxQueueCancel
   returns packets unsent. *)
ReturnedOnlyIfSent ==
  [][phase # "flushed" =>
       \A k \in pktBegin..(pktBegin' - 1) :
         pkts[k].ignore \/ \E i \in DOMAIN wire : wire[i].pkt = k]_vars

\* Outside a cancel a packet is returned to NetAdapterCx only after its frame has
\* left, or when it was to be ignored.
THEOREM ReturnedWasSent == Spec => ReturnedOnlyIfSent
<1> DEFINE Kept == phase # "flushed" =>
                     \A k \in pktBegin..(pktBegin' - 1) : pkts[k].ignore \/ \E i \in DOMAIN wire : wire[i].pkt = k
<1>1. ASSUME IInv, ReclaimDone PROVE Kept
  BY <1>1, ReclaimedWasSent DEF Sent
<1>2. ASSUME IInv, pktBegin' = pktBegin PROVE Kept
  <2>1. pktBegin \in Nat
    BY <1>2 DEF IInv, TypeOK
  <2>2. pktBegin..(pktBegin' - 1) = {}
    BY <1>2, <2>1
  <2> QED
    BY <2>2
<1>3. IInv /\ [Next]_vars => [Kept]_vars
  <2> SUFFICES ASSUME IInv, Next, phase # "flushed" PROVE Kept
    OBVIOUS
  <2>1. ReclaimDone \/ pktBegin' = pktBegin
    BY DEF Next, Post, TxQueueStart, TxQueueAdvance, Advance, ReclaimOne, FillIgnored, FillPacket, FillDone,
           CancelEmpty, CancelStart, CancelDrained, CancelTimeout, CancelDiscard, TxQueueStop, DmaFetch, ringVars
  <2> QED
    BY <1>1, <1>2, <2>1
<1> QED
  BY <1>3, Invariance, PTL DEF Spec, ReturnedOnlyIfSent

-----------------------------------------------------------------------------
(* The queue implements NetTxQueue.                                        *)

Posted == [k \in 1..Len(pkts) |-> Asked(pkts[k])]

\* What is posted is what NetAdapterCx asked for.
LEMMA PostedFields ==
  ASSUME TypeOK
  PROVE  /\ Len(Posted) = Len(pkts) /\ Len(pkts) \in Nat
         /\ \A k \in 1..Len(pkts) : /\ Posted[k].ignore = pkts[k].ignore
                                    /\ Posted[k].tag = VlanTag(pkts[k]) /\ Posted[k].mss = pkts[k].mss
<1>1. Len(pkts) \in Nat
  BY DEF TypeOK
<1> QED BY <1>1 DEF Posted, Asked

\* Packets that were sent or are ignored are done.
LEMMA SentIsDone ==
  ASSUME TypeOK, NEW j \in Nat \ {0}, NEW k \in Int, k <= Len(pkts), \A i \in j..k : pkts[i].ignore \/ Sent(i)
  PROVE  TxAbs!Done(j, k)
<1>1. DOMAIN wire = 1..Len(wire)
  BY DEF TypeOK
<1>2. \A i \in j..k : Posted[i].ignore \/ Sent(i)
  BY PostedFields
<1> QED BY <1>1, <1>2 DEF TxAbs!Done, TxAbs!WasSent, Sent, Posted

\* Steps of the handler and of the engine that NetAdapterCx does not see.
LEMMA UnseenTx ==
  ASSUME UNCHANGED <<pkts, pktBegin, wire>>, Stage' = Stage
  PROVE  UNCHANGED TxAbs!txVars
<1>1. UNCHANGED [k \in 1..Len(pkts) |-> Asked(pkts[k])]
  BY DEF Asked, VlanTag
<1> QED BY <1>1 DEF TxAbs!txVars

\* Reclaiming and filling change nothing of it, nor does waiting for the engine.
LEMMA InnerImplements ==
  ASSUME \/ TxQueueAdvance \/ ReclaimOne \/ FillIgnored \/ FillPacket \/ FillDone
         \/ CancelDrained \/ CancelTimeout \/ UNCHANGED vars
  PROVE  UNCHANGED TxAbs!txVars
<1>1. UNCHANGED <<pkts, pktBegin, wire>>
  BY DEF TxQueueAdvance, Advance, ReclaimOne, FillIgnored, FillPacket, FillDone, CancelDrained, CancelTimeout, vars,
         ringVars
<1>2. Stage' = Stage
  BY DEF Stage, TxQueueAdvance, ReclaimOne, FillIgnored, FillPacket, FillDone, CancelDrained, CancelTimeout, vars
<1> QED BY <1>1, <1>2, UnseenTx

\* What NetAdapterCx does, and what the end of a cancel gives back.
LEMMA CallImplements ==
  ASSUME IInv, TxQueueStart \/ CancelEmpty \/ CancelStart \/ CancelDiscard \/ TxQueueStop
  PROVE  TxAbs!TxNext
<1>1. pkts' = pkts /\ wire' = wire
  BY DEF TxQueueStart, CancelEmpty, CancelStart, CancelDiscard, TxQueueStop, ringVars
<1>2. UNCHANGED [k \in 1..Len(pkts) |-> Asked(pkts[k])]
  BY <1>1 DEF Asked, VlanTag
<1>3. pktBegin \in Nat \ {0} /\ Len(pkts) \in Nat /\ Len([k \in 1..Len(pkts) |-> Asked(pkts[k])]) = Len(pkts)
  BY DEF IInv, TypeOK
<1>4. CASE TxQueueStart
  <2>1. Stage = "stopped" /\ Stage' = "running" /\ pktBegin' = pktBegin
    BY <1>4 DEF TxQueueStart, Stage
  <2> QED BY <1>1, <1>2, <2>1 DEF TxAbs!TxNext, TxAbs!Start
<1>5. CASE CancelEmpty \/ CancelStart
  <2>1. /\ Stage = "running" /\ pktBegin' = pktBegin
        /\ Stage' = IF pktBegin - 1 = Len(pkts) THEN "cancelled" ELSE "cancelling"
    BY <1>3, <1>5 DEF CancelEmpty, CancelStart, Stage, ringVars, pktEnd
  <2> QED BY <1>1, <1>2, <1>3, <2>1 DEF TxAbs!TxNext, TxAbs!Cancel
<1>6. CASE CancelDiscard
  <2>1. Stage = "cancelling" /\ Stage' = "cancelled" /\ (pktBegin - 1)' = Len(pkts)
    BY <1>3, <1>6 DEF CancelDiscard, Stage, pktEnd
  <2> QED BY <1>1, <1>2, <1>3, <2>1 DEF TxAbs!TxNext, TxAbs!Discard
<1>7. CASE TxQueueStop
  <2>1. Stage = "cancelled" /\ Stage' = "stopped" /\ pktBegin' = pktBegin
    BY <1>7 DEF TxQueueStop, Stage, ringVars
  <2> QED BY <1>1, <1>2, <2>1 DEF TxAbs!TxNext, TxAbs!Stop
<1> QED BY <1>4, <1>5, <1>6, <1>7

\* A packet posted asks for the tag and MSS of its kind.
LEMMA PostImplements ==
  ASSUME IInv, NEW p \in Kinds, Post(p)
  PROVE  TxAbs!TxNext
<1> DEFINE q == [ignore |-> p.ignore, priority |-> p.priority, vlan |-> p.vlan, mss |-> p.mss, lens |-> p.lens,
                 header |-> p.header, frag |-> fragEnd]
           P == [k \in 1..Len(pkts) |-> Asked(pkts[k])]
<1>1. /\ phase = "running" /\ pkts' = Append(pkts, q)
      /\ UNCHANGED <<phase, pktBegin, wire>>
  BY DEF Post
<1>2. Asked(q) = Asked(p)
  BY DEF Asked, VlanTag
<1>3. pkts \in Seq(Packets) /\ Len(pkts) \in Nat /\ Len(P) = Len(pkts)
  BY DEF IInv, TypeOK
<1>4. P' = Append(P, Asked(p))
  <2> DEFINE r == q
  <2> HIDE DEF r
  <2>1. pkts' = Append(pkts, r) /\ Asked(r) = Asked(p)
    BY <1>1, <1>2 DEF r
  <2>2. /\ Len(pkts') = Len(pkts) + 1 /\ pkts'[Len(pkts) + 1] = r
        /\ \A k \in 1..Len(pkts) : pkts'[k] = pkts[k]
    BY <1>3, <2>1
  <2>3. P' = [k \in 1..(Len(pkts) + 1) |-> Asked(pkts'[k])]
    BY <2>2 DEF Asked, VlanTag
  <2>4. Append(P, Asked(p)) = [k \in 1..(Len(P) + 1) |-> IF k = Len(P) + 1 THEN Asked(p) ELSE P[k]]
    OBVIOUS
  <2>5. \A k \in 1..(Len(pkts) + 1) : Asked(pkts'[k]) = IF k = Len(P) + 1 THEN Asked(p) ELSE P[k]
    BY <1>3, <2>1, <2>2
  <2> HIDE DEF P
  <2> QED BY <1>3, <2>3, <2>4, <2>5
<1>5. Stage = "running" /\ Stage' = Stage
  BY <1>1 DEF Stage
<1> HIDE DEF P, q
<1>6. TxAbs!Post
  BY <1>1, <1>4, <1>5 DEF TxAbs!Post, P
<1> QED BY <1>6 DEF TxAbs!TxNext

\* What the loop has reclaimed comes back, if there is anything.
LEMMA ReclaimImplements ==
  ASSUME IInv, ReclaimDone
  PROVE  TxAbs!TxNext \/ UNCHANGED TxAbs!txVars
<1>1. /\ UNCHANGED <<pkts, wire, phase>> /\ phase \in {"running", "lastAdvance"} /\ pktBegin' = pktIndex
      /\ TypeOK /\ CursorsOK /\ PktFirst = pktIndex
  BY DEF ReclaimDone, IInv, PhaseOK, Serving, ServingOK, PktFirst
<1>2. Stage' = Stage /\ Stage \in {"running", "cancelling"}
  BY <1>1 DEF Stage
<1>3. UNCHANGED [k \in 1..Len(pkts) |-> Asked(pkts[k])]
  BY <1>1 DEF Asked, VlanTag
<1>4. /\ pktBegin \in Nat \ {0} /\ pktIndex \in Nat \ {0} /\ pktBegin <= pktIndex /\ pktIndex - 1 <= Len(pkts)
      /\ Len([k \in 1..Len(pkts) |-> Asked(pkts[k])]) = Len(pkts) /\ Len(pkts) \in Nat
  <2>1. pktBegin \in Nat \ {0} /\ pktIndex \in Nat \ {0} /\ Len(pkts) \in Nat /\ pktNext \in Nat
        /\ PktTop \in Nat
    BY <1>1 DEF TypeOK, PktTop
  <2>2. pktBegin <= pktIndex /\ pktIndex <= pktNext /\ pktNext <= PktTop /\ PktTop <= Len(pkts) + 1
    BY <1>1 DEF CursorsOK, pktEnd
  <2> QED BY <2>1, <2>2
<1>5. CASE pktIndex = pktBegin
  BY <1>1, <1>2, <1>5, UnseenTx
<1>6. CASE pktIndex # pktBegin
  <2>1. TxAbs!Done(pktBegin, pktIndex - 1)
    <3>1. \A k \in pktBegin..(pktIndex - 1) : pkts[k].ignore \/ Sent(k)
      BY <1>1, ReclaimedWasSent
    <3>2. pktIndex - 1 \in Int
      BY <1>4
    <3> QED BY <1>1, <1>4, <3>1, <3>2, SentIsDone
  <2>2. pktBegin - 1 + 1 = pktBegin /\ (pktBegin - 1)' = pktIndex - 1 /\ pktIndex - 1 \in pktBegin..Len(pkts)
    BY <1>1, <1>4, <1>6
  <2>3. TxAbs!Return
    BY <1>1, <1>2, <1>3, <1>4, <2>1, <2>2 DEF TxAbs!Return
  <2> QED BY <2>3 DEF TxAbs!TxNext
<1> QED BY <1>5, <1>6

\* A frame that leaves is that of the packet the engine is at, all before it
\* having been seen to.
LEMMA FetchSends ==
  ASSUME IInv, IInv', DmaFetch, desc[dma.cur].last
  PROVE  \E n \in pktBegin..Len(pkts) :
           /\ ~pkts[n].ignore /\ SentOK(n) /\ base <= pktBegin
           /\ wire' = Append(wire, [pkt |-> n, tag |-> VlanTag(pkts[n]), mss |-> pkts[n].mss])
<1> USE DEF IInv
<1>1. /\ (dma.on \/ dma.pkt # NoPacket) /\ dma.cur # dma.tail /\ pkts' = pkts
  BY DEF DmaFetch, ringVars
<1>2. Serving /\ CursorsOK
  BY <1>1 DEF Serving, ServingOK, PhaseOK
<1>3. PICK b, s, c, g, f \in Int : RingOK(b, s, c, g, f)
  BY <1>2, Ring
<1>4. /\ Listed(s, c, f) /\ Spanned(s, f) /\ EngineOK(c, g, f) /\ SentOK(Current(c, f))
      /\ s <= c /\ c <= g /\ g <= f /\ dma.cur = Masked(c) /\ dma.tail = Masked(g)
  BY <1>3 DEF RingOK, ChainOK, PlaceOK
<1>5. c < g /\ c < f /\ c \in s..(f - 1)
  BY <1>1, <1>4
<1> DEFINE d == At(c)
           n == d.pkt
<1>6. d = desc[dma.cur] /\ d \in Descs
  BY <1>4, Division DEF At, TypeOK
<1>7. /\ n \in PktFirst..(PktTop - 1) /\ ~pkts[n].ignore /\ ~d.ctx
  BY <1>4, <1>5, <1>6 DEF Listed, DescOK, Spanned
<1>8. /\ Current(c, f) = n /\ SentOK(n) /\ (dma.pkt # NoPacket => dma.pkt = n)
      /\ (dma.pkt = NoPacket => d.first)
  BY <1>4, <1>5, <1>7 DEF Current, EngineOK, Begins
<1>9. base <= pktBegin /\ n \in pktBegin..Len(pkts)
  <2>1. /\ PktFirst \in Nat \ {0} /\ PktTop \in Nat \ {0} /\ PktTop <= Len(pkts) + 1
        /\ Len(pkts) \in Nat /\ pktBegin \in Nat
    BY <1>2, ViewTypes DEF TypeOK
  <2>2. base <= pktBegin /\ pktBegin <= PktFirst
    BY <1>2 DEF CursorsOK
  <2> HIDE DEF d, n
  <2> QED BY <1>7, <2>1, <2>2
<1>10. PICK w \in [pkt : Nat, tag : Tags, mss : Nat] : w.pkt = n /\ wire' = Append(wire, w)
  <2>1. PICK w \in [pkt : Nat, tag : Tags, mss : Nat] :
           w.pkt = (IF d.first THEN d.pkt ELSE dma.pkt) /\ wire' = Append(wire, w)
    <3> HIDE DEF d, n
    <3> QED BY <1>6, FetchEffect
  <2>2. w.pkt = n
    BY <1>8, <2>1
  <2> QED BY <2>1, <2>2
<1> HIDE DEF d, n
<1>11. w.tag = VlanTag(pkts[n]) /\ w.mss = pkts[n].mss
  <2>1. wire \in Seq([pkt : Nat, tag : Tags, mss : Nat])
    BY DEF TypeOK
  <2>2. Len(wire) + 1 \in DOMAIN wire' /\ wire'[Len(wire) + 1] = w
    BY <1>10, <2>1
  <2> QED BY <1>1, <1>10, <2>2 DEF WireOK, WireFaithful
<1>12. w = [pkt |-> n, tag |-> VlanTag(pkts[n]), mss |-> pkts[n].mss]
  BY <1>10, <1>11
<1> QED BY <1>7, <1>8, <1>9, <1>10, <1>12

\* The engine's fetches send a frame or are not seen.
LEMMA FetchImplements ==
  ASSUME IInv, IInv', DmaFetch
  PROVE  TxAbs!TxNext \/ UNCHANGED TxAbs!txVars
<1> DEFINE P == [k \in 1..Len(pkts) |-> Asked(pkts[k])]
<1>1. UNCHANGED <<pkts, pktBegin, phase>> /\ (dma.on \/ dma.pkt # NoPacket)
  BY DEF DmaFetch, ringVars
<1>2. Stage' = Stage /\ Stage \in {"running", "cancelling"}
  BY <1>1 DEF Stage, IInv, PhaseOK
<1>3. TypeOK /\ P' = P
  BY <1>1 DEF IInv, Asked, VlanTag
<1>4. CASE ~desc[dma.cur].last
  <2>1. wire' = wire
    BY <1>4 DEF DmaFetch
  <2> QED BY <1>1, <1>2, <2>1, UnseenTx
<1>5. CASE desc[dma.cur].last
  <2>1. PICK n \in pktBegin..Len(pkts) :
           /\ ~pkts[n].ignore /\ SentOK(n) /\ base <= pktBegin
           /\ wire' = Append(wire, [pkt |-> n, tag |-> VlanTag(pkts[n]), mss |-> pkts[n].mss])
    BY <1>5, FetchSends
  <2>2. /\ pktBegin \in Nat \ {0} /\ n \in Nat /\ n \in 1..Len(pkts) /\ base \in Nat /\ Len(pkts) \in Nat
        /\ DOMAIN wire = 1..Len(wire)
    BY <1>3, <2>1 DEF TypeOK
  <2>3. TxAbs!Done(pktBegin, n - 1)
    <3>1. \A k \in pktBegin..(n - 1) : pkts[k].ignore \/ Sent(k)
      BY <2>1, <2>2 DEF SentOK
    <3>2. n - 1 \in Int /\ n - 1 <= Len(pkts)
      BY <2>2
    <3> QED BY <1>3, <2>2, <3>1, <3>2, SentIsDone
  <2>4. ~TxAbs!WasSent(n)
    BY <2>1, <2>2 DEF TxAbs!WasSent, SentOK
  <2>5. P[n].ignore = pkts[n].ignore /\ P[n].tag = VlanTag(pkts[n]) /\ P[n].mss = pkts[n].mss /\ Len(P) = Len(pkts)
    BY <1>3, <2>2, PostedFields DEF Posted
  <2>6. pktBegin - 1 + 1 = pktBegin /\ UNCHANGED (pktBegin - 1)
    BY <1>1, <2>2
  <2> HIDE DEF P
  <2>7. TxAbs!Send
    BY <1>2, <1>3, <2>1, <2>3, <2>4, <2>5, <2>6 DEF TxAbs!Send, P
  <2> QED BY <2>7 DEF TxAbs!TxNext
<1> QED BY <1>4, <1>5

\* A queue that was never started has nothing of NetAdapterCx's.
LEMMA InitImplements == Init => TxAbs!TxInit
<1> SUFFICES ASSUME Init PROVE TxAbs!TxInit
  OBVIOUS
<1>1. Stage = "stopped" /\ pkts = << >> /\ wire = << >> /\ pktBegin - 1 = 0
  BY DEF Init, Stage
<1>2. [k \in 1..Len(pkts) |-> Asked(pkts[k])] = << >>
  BY <1>1
<1> QED BY <1>1, <1>2 DEF TxAbs!TxInit

\* For a ring of any size and any packets the transmit queue is a NetTxQueue:
\* frames leave in order, once, with the tag and MSS of their own packets,
\* before these come back, and none leaves after a cancel has given back the
\* rest, whatever the engine does between the steps of TxQueueAdvance.
THEOREM TxImplements == Spec => ImplementsTxQueue
<1>1. IInv /\ IInv' /\ [Next]_vars => [TxAbs!TxNext]_TxAbs!txVars
  <2> SUFFICES ASSUME IInv, IInv', [Next]_vars PROVE TxAbs!TxNext \/ UNCHANGED TxAbs!txVars
    OBVIOUS
  <2>1. CASE UNCHANGED vars
    BY <2>1, InnerImplements
  <2>2. CASE Next
    BY <2>2, InnerImplements, CallImplements, PostImplements, ReclaimImplements, FetchImplements DEF Next
  <2> QED BY <2>1, <2>2
<1> QED BY <1>1, Invariance, InitImplements, PTL DEF Spec, ImplementsTxQueue, TxAbs!TxSpec
=============================================================================
