----------------------------- MODULE NetTxQueue -----------------------------
(***************************************************************************)
(* What a transmit queue promises NetAdapterCx.                            *)
(*                                                                         *)
(* NetAdapterCx posts packets, numbered from 1; each says whether it is to *)
(* be ignored, and the VLAN tag and MSS of its frame.  Frames leave in the *)
(* order of posting, each with what its own packet asks for, and a packet  *)
(* comes back when it has been sent or was to be ignored.  A cancelled     *)
(* queue may give back what it has not sent, and sends nothing after that. *)
(***************************************************************************)
EXTENDS Integers, Sequences

CONSTANT Requests    \* the packets there are: [ignore, tag, mss]

VARIABLES
  state,      \* "stopped", "running", "cancelling" or "cancelled"
  packets,    \* the packets posted
  sent,       \* the frames that have left: [pkt, tag, mss]
  returned    \* how many packets have been given back

txVars == <<state, packets, sent, returned>>

-----------------------------------------------------------------------------
TxInit == state = "stopped" /\ packets = << >> /\ sent = << >> /\ returned = 0

WasSent(k) == \E i \in 1..Len(sent) : sent[i].pkt = k

\* Nothing is left to do for the packets from j to k.
Done(j, k) == \A i \in j..k : packets[i].ignore \/ WasSent(i)

Start ==
  /\ state = "stopped" /\ state' = "running"
  /\ UNCHANGED <<packets, sent, returned>>

Post ==
  /\ state = "running"
  /\ \E p \in Requests : packets' = Append(packets, p)
  /\ UNCHANGED <<state, sent, returned>>

\* The frame of the next packet leaves, as long as NetAdapterCx has not got it back.
Send ==
  /\ state \in {"running", "cancelling"}
  /\ \E k \in (returned + 1)..Len(packets) :
       /\ ~packets[k].ignore /\ ~WasSent(k) /\ Done(returned + 1, k - 1)
       /\ sent' = Append(sent, [pkt |-> k, tag |-> packets[k].tag, mss |-> packets[k].mss])
  /\ UNCHANGED <<state, packets, returned>>

Return ==
  /\ state \in {"running", "cancelling"}
  /\ \E n \in (returned + 1)..Len(packets) : Done(returned + 1, n) /\ returned' = n
  /\ UNCHANGED <<state, packets, sent>>

Cancel ==
  /\ state = "running"
  /\ state' = IF returned = Len(packets) THEN "cancelled" ELSE "cancelling"
  /\ UNCHANGED <<packets, sent, returned>>

\* What could not be sent in time is given back.
Discard ==
  /\ state = "cancelling" /\ state' = "cancelled"
  /\ returned' = Len(packets)
  /\ UNCHANGED <<packets, sent>>

Stop ==
  /\ state = "cancelled" /\ state' = "stopped"
  /\ UNCHANGED <<packets, sent, returned>>

TxNext ==
  \/ Start
  \/ Post
  \/ Send
  \/ Return
  \/ Cancel
  \/ Discard
  \/ Stop

TxSpec == TxInit /\ [][TxNext]_txVars
=============================================================================
