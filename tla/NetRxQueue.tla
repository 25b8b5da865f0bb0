----------------------------- MODULE NetRxQueue -----------------------------
(***************************************************************************)
(* What a receive queue promises NetAdapterCx.                             *)
(*                                                                         *)
(* NetAdapterCx lends packets and fragments, numbered from 1 in every run  *)
(* of the queue.  The frames that arrive fill the fragments in their       *)
(* order, and packets are indicated with them, in that order too: a packet *)
(* with the fragment of its frame, or to be ignored.  Once cancelled the   *)
(* queue gives back what is left, after all that has arrived.              *)
(***************************************************************************)
EXTENDS Integers, Sequences

VARIABLES
  state,        \* "stopped", "running" or "cancelled"
  packets,      \* how many packets have been lent
  fragments,    \* how many fragments
  frames,       \* the fragment of each frame that has arrived, or Nothing
  indicated,    \* the fragment of each packet indicated, or Nothing
  returned      \* how many fragments have been given back

rxVars == <<state, packets, fragments, frames, indicated, returned>>

Nothing == 0    \* a frame in error, a packet to be ignored

-----------------------------------------------------------------------------
Empty ==
  /\ packets = 0 /\ fragments = 0 /\ frames = << >>
  /\ indicated = << >> /\ returned = 0

RxInit == state = "stopped" /\ Empty

Start == state = "stopped" /\ state' = "running" /\ Empty'

LendPacket ==
  /\ state # "stopped"
  /\ packets' = packets + 1
  /\ UNCHANGED <<state, fragments, frames, indicated, returned>>

LendFragment ==
  /\ state = "running"
  /\ fragments' = fragments + 1
  /\ UNCHANGED <<state, packets, frames, indicated, returned>>

\* A frame arrives in the next fragment, which has not been given back.
Arrive ==
  /\ state # "stopped"
  /\ returned <= Len(frames) /\ Len(frames) < fragments
  /\ \E f \in {Len(frames) + 1, Nothing} : frames' = Append(frames, f)
  /\ UNCHANGED <<state, packets, fragments, indicated, returned>>

\* Packets are indicated as they arrived, with their fragments given back.
Indicate ==
  /\ state # "stopped"
  /\ \E n \in Len(indicated)..Len(frames) :
       /\ returned <= n /\ n <= packets
       /\ indicated' = [k \in 1..n |-> frames[k]] /\ returned' = n
  /\ UNCHANGED <<state, packets, fragments, frames>>

Cancel ==
  /\ state = "running" /\ state' = "cancelled"
  /\ UNCHANGED <<packets, fragments, frames, indicated, returned>>

\* Nothing that has arrived is lost, nothing arrives in what is given back.
GiveBack ==
  /\ state = "cancelled" /\ Len(frames) <= packets
  /\ indicated' = [k \in 1..packets |-> IF k <= Len(frames) THEN frames[k] ELSE Nothing]
  /\ returned' = fragments
  /\ UNCHANGED <<state, packets, fragments, frames>>

Stop ==
  /\ state = "cancelled" /\ Len(indicated) = packets /\ returned = fragments
  /\ state' = "stopped"
  /\ UNCHANGED <<packets, fragments, frames, indicated, returned>>

RxNext ==
  \/ Start
  \/ LendPacket
  \/ LendFragment
  \/ Arrive
  \/ Indicate
  \/ Cancel
  \/ GiveBack
  \/ Stop

RxSpec == RxInit /\ [][RxNext]_rxVars
=============================================================================
