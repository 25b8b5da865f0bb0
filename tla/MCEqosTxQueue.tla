---------------------------- MODULE MCEqosTxQueue ----------------------------
(***************************************************************************)
(* Instances of EqosTxQueue for TLC: descriptors of two units, a ring of   *)
(* eight, and one packet of each kind the fill loop tells apart.           *)
(***************************************************************************)
EXTENDS EqosTxQueue

Plain == [ignore |-> FALSE, priority |-> 0, vlan |-> NoVlan, mss |-> 0,
          lens |-> <<1>>, header |-> 0]

\* Two fragments, one context descriptor when the tag changes.
Tagged == [Plain EXCEPT !.vlan = 5, !.lens = <<1, 2>>]

\* Segmentation: fragment 1 holds only the headers.  Tagged for its priority
\* alone: the VLAN id is the configured one.
GsoPriority == [Plain EXCEPT !.mss = 1, !.priority = 1, !.lens = <<1, 3>>, !.header = 1]

\* Segmentation with another MSS and no tag, headers and payload together.
GsoUntagged == [Plain EXCEPT !.mss = 2, !.lens = <<4>>, !.header = 1]

Ignored == [Plain EXCEPT !.ignore = TRUE]

AllKinds == {Plain, Tagged, GsoPriority, GsoUntagged, Ignored}
=============================================================================
