---------------------------- MODULE MCMshcRequest ----------------------------
(* A command with busy signalling, a PIO transfer of two chunks each way, and *)
(* a DMA transfer.                                                            *)
EXTENDS MshcRequest

Command(b) == [data |-> "none", dir |-> "none", chunks |-> 0, busy |-> b]
Pio(d) == [data |-> "pio", dir |-> d, chunks |-> 2, busy |-> FALSE]
Dma(d) == [data |-> "dma", dir |-> d, chunks |-> 1, busy |-> FALSE]

AllKinds == {Command(TRUE), Pio("read"), Pio("write"), Dma("read")}

(* States are told apart by what is still read of them.  Nobody reads what a  *)
(* request of sdport's awaited once sdport has given up on it and the driver  *)
(* has let go of it, nor, until the next command, which errors were raised    *)
(* for one that has failed.                                                   *)
GivenUp == host \notin {"waiting", "transfer", "done"}
OfSdport == IF GivenUp /\ outstanding # "sdp" THEN <<>> ELSE <<required["sdp"], status["sdp"]>>
OfCommand ==
  IF host \in {"failed", "reset_cmd", "reset_dat", "send_stop", "stop", "resetting", "idle"}
  THEN <<>> ELSE <<erred, dropped, missed>>

StillRead == <<OfSdport, required["loc"], status["loc"], kind, remaining, accVars, intVars,
               dpcVars, hwVars, endVars, hostVars, OfCommand, overtaken>>
=============================================================================
