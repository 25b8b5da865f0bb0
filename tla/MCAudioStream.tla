---------------------------- MODULE MCAudioStream ----------------------------
(* The two streams of a codec on two channels of the controller. *)
EXTENDS AudioStream

Channels == [d \in {"render", "capture"} |-> IF d = "render" THEN 0 ELSE 1]
=============================================================================
