-------------------------------- MODULE Rk3xI2C --------------------------------
(***************************************************************************)
(* The transfer engine of the rk3xi2c driver (i2c/rk3xi2c/rockchipi2c.c).  *)
(*                                                                         *)
(* One thread at a time (waitLock) sets a message up, starts the           *)
(* controller and waits for an event, for a tenth of a second.  The ISR    *)
(* drives the message from there; its DPC sets the event.  The thread does *)
(* not hold the interrupt lock, neither when it sets a message up nor when *)
(* it gives up, so each of its register writes is an action of its own.    *)
(***************************************************************************)
EXTENDS Integers, Sequences

CONSTANTS
  Chunk,     \* bytes in the controller's buffers; 32 in the hardware
  Requests,  \* the requests clients make: sequences of messages [dir, len]
  MaxTimeouts  \* bound: messages that time out

Message == [dir : {"write", "read"}, len : Nat]

ASSUME ConstantsAssumption ==
  /\ Chunk \in Nat /\ Chunk > 1
  /\ MaxTimeouts \in Nat
  /\ \A r \in Requests : r \in Seq(Message) /\ r # <<>>

VARIABLES
  state,      \* the ISR's state
  mode,       \* "write" (MOD_TX) or "read" (MOD_REGISTER_TX)
  length,     \* currentDescriptor.TransferLength; 0 with no chain
  processed, isLastMsg, transactionStatus,
  con,        \* the bits START and STOP of REG_CON
  ien, ipd,   \* REG_IEN, REG_IPD
  txBuffer, rxBuffer,  \* the controller's buffers
  count,      \* REG_MRXCNT
  todo,       \* what the controller has been told and has not done
  line,       \* "free" or, after a START, "held"
  wire,       \* bytes acknowledged since that START
  stored,     \* bytes stored into the client's buffer for this message
  isr, isrIpd,      \* where the ISR is, and its local ipd
  dpcQueued, waitEvent,
  thread,     \* where the thread in i2c_xfer is
  messages, current,  \* its request and the message it is at
  status,     \* the status of the last message
  left,       \* history: what was left over when this message began
  timeouts    \* history: how many messages have timed out

msgVars == <<mode, length, isLastMsg>>
buffers == <<txBuffer, rxBuffer>>
hwVars  == <<buffers, count, todo, line, wire>>
isrVars == <<isr, isrIpd>>
thrVars == <<thread, messages, current, status, left, timeouts>>
vars == <<state, processed, transactionStatus, con, ien, ipd, stored, msgVars, hwVars,
          isrVars, dpcQueued, waitEvent, thrVars>>

Address == -1
Junk == -2          \* whatever the local `byte` or the receive buffer held

Msg == messages[current]
Lesser(a, b) == IF a < b THEN a ELSE b

Init ==
  /\ state = "IDLE" /\ mode = "write" /\ length = 0 /\ processed = 0
  /\ isLastMsg = FALSE /\ transactionStatus = "SUCCESS"
  /\ con = {} /\ ien = {} /\ ipd = {}
  /\ txBuffer = <<>> /\ rxBuffer = [i \in 1..Chunk |-> Junk] /\ count = 0
  /\ todo = {} /\ line = "free" /\ wire = <<>> /\ stored = <<>>
  /\ isr = "idle" /\ isrIpd = {} /\ dpcQueued = FALSE /\ waitEvent = FALSE
  /\ thread = "idle" /\ messages \in Requests /\ current = 1 /\ status = "SUCCESS"
  /\ left = {} /\ timeouts = 0

-----------------------------------------------------------------------------
(* The controller and the addressed device (external).  A buffer or a count *)
(* it has used is forgotten.                                               *)

HwStart ==
  /\ "START" \in todo
  /\ todo' = todo \ {"START"}
  /\ ipd' = ipd \cup {"START"}
  /\ line' = "held" /\ wire' = <<>>
  /\ rxBuffer' = [i \in 1..Chunk |-> Junk]
  /\ UNCHANGED <<state, processed, transactionStatus, con, ien, stored, msgVars, txBuffer,
                 count, isrVars, dpcQueued, waitEvent, thrVars>>

HwWorks(job) == job \in todo /\ "START" \notin todo /\ todo' = todo \ {job}

HwSend ==
  /\ HwWorks("send")
  /\ wire' = wire \o txBuffer /\ txBuffer' = <<>>
  /\ ipd' = ipd \cup {"MBTF"}
  /\ UNCHANGED <<state, processed, transactionStatus, con, ien, stored, msgVars, rxBuffer,
                 count, line, isrVars, dpcQueued, waitEvent, thrVars>>

\* The device sends bytes 0, 1, 2...; the controller also raises START.
HwReceive ==
  /\ HwWorks("receive")
  /\ rxBuffer' = [i \in 1..Chunk |-> IF i <= count THEN Len(wire) + i - 1 ELSE rxBuffer[i]]
  /\ wire' = wire \o SubSeq(rxBuffer', 1, count) /\ count' = 0
  /\ ipd' = ipd \cup {"MBRF", "START"}
  /\ UNCHANGED <<state, processed, transactionStatus, con, ien, stored, msgVars, txBuffer,
                 line, isrVars, dpcQueued, waitEvent, thrVars>>

\* The device does not acknowledge its address or a byte sent to it.
HwNak ==
  /\ \/ HwWorks("send")
     \/ HwWorks("receive") /\ wire = <<>>
  /\ ipd' = ipd \cup {"NAKRCV"}
  /\ txBuffer' = <<>> /\ count' = 0
  /\ UNCHANGED <<state, processed, transactionStatus, con, ien, stored, msgVars, rxBuffer,
                 line, wire, isrVars, dpcQueued, waitEvent, thrVars>>

HwStop ==
  /\ "STOP" \in todo
  /\ todo' = {} /\ txBuffer' = <<>> /\ count' = 0
  /\ ipd' = ipd \cup {"STOP"}
  /\ line' = "free"
  /\ UNCHANGED <<state, processed, transactionStatus, con, ien, stored, msgVars, rxBuffer,
                 wire, isrVars, dpcQueued, waitEvent, thrVars>>

\* What a write of REG_CON tells the controller; without EN it forgets all.
WriteCon(bits) ==
  /\ con' = bits
  /\ todo' = (todo \ {"START", "STOP"}) \cup (bits \ con) \cup (bits \cap todo)
ResetCon == con' = {} /\ todo' = {}

-----------------------------------------------------------------------------
(* The ISR's helpers.                                                      *)

\* rk3x_i2c_stop.
Stop_NoDpc(error, last) ==    \* slip: only a STOP condition is signalled
  /\ processed' = 0 /\ length' = 0
  /\ transactionStatus' = error
  /\ IF last
     THEN ien' = {"STOP"} /\ state' = "STOP" /\ WriteCon(con \cup {"STOP"})
     ELSE ien' = ien /\ state' = "IDLE" /\ ResetCon
  /\ UNCHANGED dpcQueued
Stop(error, last) ==
  /\ processed' = 0 /\ length' = 0
  /\ transactionStatus' = error
  /\ IF last
     THEN /\ ien' = {"STOP"} /\ state' = "STOP"
          /\ WriteCon(con \cup {"STOP"})
          /\ UNCHANGED dpcQueued
     ELSE /\ state' = "IDLE"
          /\ ResetCon
          /\ dpcQueued' = TRUE
          /\ UNCHANGED ien

\* rk3x_i2c_prepare_read.
PrepareRead(len, done) == count' = Lesser(len - done, Chunk)

\* rk3x_i2c_fill_transmit_buf: the address goes in front of the first bytes.
\* A byte that cannot be fetched is replaced by whatever there is.
Room == IF processed = 0 THEN Chunk - 1 ELSE Chunk

Fetched_Ignored(ok) == transactionStatus    \* slip: the failure is not recorded
Fetched(ok) == IF ok THEN transactionStatus ELSE "FAILED"

FillTransmitBuf(ok) ==
  LET n == Lesser(length - processed, Room)
      data == [i \in 1..n |-> IF ok THEN processed + i - 1 ELSE Junk]
  IN /\ txBuffer' = (IF processed = 0 THEN <<Address>> ELSE <<>>) \o data
     /\ processed' = processed + n
     /\ transactionStatus' = IF n = 0 THEN transactionStatus ELSE Fetched(ok)

\* rk3x_i2c_handle_start/write/stop are given something else.
Unexpected ==
  /\ Stop("DEVICE_ERROR", isLastMsg)
  /\ ipd' = {}
  /\ UNCHANGED <<mode, isLastMsg, buffers, count, line, wire, stored>>

-----------------------------------------------------------------------------
(* rk3x_i2c_irq, in up to three steps: read IPD and the state; deal with a *)
(* NAK; dispatch on the state.                                             *)

IrqEnter ==
  /\ isr = "idle" /\ ipd \cap ien # {}
  /\ IF state = "IDLE"
     THEN ipd' = {} /\ UNCHANGED isrVars
     ELSE /\ isrIpd' = ipd
          /\ isr' = IF "NAKRCV" \in ipd THEN "nak" ELSE "dispatch"
          /\ UNCHANGED ipd
  /\ UNCHANGED <<state, processed, transactionStatus, con, ien, stored, msgVars, hwVars,
                 dpcQueued, waitEvent, thrVars>>

IrqNak ==
  /\ isr = "nak"
  /\ ipd' = ipd \ {"NAKRCV"}
  /\ Stop("INVALID_TRANSACTION", isLastMsg)
  /\ isrIpd' = isrIpd \ {"NAKRCV"}
  /\ isr' = IF isrIpd' = {} THEN "idle" ELSE "dispatch"
  /\ UNCHANGED <<mode, isLastMsg, stored, buffers, count, line, wire, waitEvent, thrVars>>

HandleStart(ok) ==
  /\ state = "START"
  /\ \/ "START" \notin isrIpd /\ Unexpected
     \/ /\ "START" \in isrIpd
        /\ ipd' = ipd \ {"START"}
        /\ con' = con \ {"START"}
        /\ \/ /\ mode = "write"
              /\ ien' = {"MBTF", "NAKRCV"} /\ state' = "WRITE"
              /\ FillTransmitBuf(ok)
              /\ todo' = (todo \ {"START"}) \cup {"send"}
              /\ UNCHANGED count
           \/ /\ mode = "read"
              /\ ien' = {"MBRF", "NAKRCV"} /\ state' = "READ"
              /\ PrepareRead(length, processed)
              /\ todo' = (todo \ {"START"}) \cup {"receive"}
              /\ UNCHANGED <<txBuffer, processed, transactionStatus>>
        /\ UNCHANGED <<msgVars, rxBuffer, line, wire, stored, dpcQueued>>

Finished == processed >= length

HandleWrite(ok) ==
  /\ state = "WRITE"
  /\ \/ "MBTF" \notin isrIpd /\ Unexpected
     \/ /\ "MBTF" \in isrIpd
        /\ ipd' = ipd \ {"MBTF"}
        /\ \/ /\ Finished
              /\ isLastMsg' = TRUE
              /\ Stop(transactionStatus, TRUE)
              /\ UNCHANGED <<mode, txBuffer>>
           \/ /\ ~Finished
              /\ FillTransmitBuf(ok)
              /\ todo' = todo \cup {"send"}
              /\ UNCHANGED <<state, con, ien, msgVars, dpcQueued>>
        /\ UNCHANGED <<count, rxBuffer, line, wire, stored>>

\* "Read also produces a spurious START flag, clear it too."
ReadAck == {"MBRF", "START"}

\* MdlChainSetByte fails if the chain is shorter or cannot be mapped.
Stored(ok, len) == IF ok THEN stored \o SubSeq(rxBuffer, 1, len) ELSE stored

\* The first byte that cannot be stored ends the chunk.
HandleRead(ok) ==
  LET len == Lesser(length - processed, Chunk)
      got == IF ok THEN len ELSE Lesser(len, 1)
  IN
  /\ state = "READ"
  /\ \/ /\ "MBRF" \notin isrIpd
        /\ UNCHANGED <<state, processed, transactionStatus, con, ien, ipd, msgVars,
                       hwVars, stored, dpcQueued>>
     \/ /\ "MBRF" \in isrIpd
        /\ ipd' = ipd \ ReadAck
        /\ stored' = Stored(ok, len)
        /\ \/ /\ processed + got >= length
              /\ isLastMsg' = TRUE
              /\ Stop(Fetched(ok), TRUE)
              /\ UNCHANGED <<mode, count>>
           \/ /\ processed + got < length
              /\ processed' = processed + got
              /\ transactionStatus' = Fetched(ok)
              /\ PrepareRead(length, processed + got)
              /\ todo' = todo \cup {"receive"}
              /\ UNCHANGED <<state, con, ien, msgVars, dpcQueued>>
        /\ UNCHANGED <<buffers, line, wire>>

HandleStop ==
  /\ state = "STOP"
  /\ \/ "STOP" \notin isrIpd /\ Unexpected
     \/ /\ "STOP" \in isrIpd
        /\ ipd' = ipd \ {"STOP"}
        /\ WriteCon(con \ {"STOP"})
        /\ state' = "IDLE"
        /\ dpcQueued' = TRUE
        /\ UNCHANGED <<processed, transactionStatus, ien, msgVars, buffers, count, line,
                       wire, stored>>

HandleIdle ==
  /\ state = "IDLE"
  /\ UNCHANGED <<state, processed, transactionStatus, con, ien, ipd, msgVars, hwVars,
                 stored, dpcQueued>>

IrqDispatch ==
  /\ isr = "dispatch"
  /\ \/ \E ok \in BOOLEAN : HandleStart(ok) \/ HandleWrite(ok) \/ HandleRead(ok)
     \/ HandleStop
     \/ HandleIdle
  /\ isr' = "idle" /\ isrIpd' = {}
  /\ UNCHANGED <<waitEvent, thrVars>>

\* rk3x_i2c_dpc.
Dpc ==
  /\ dpcQueued
  /\ dpcQueued' = FALSE /\ waitEvent' = TRUE
  /\ UNCHANGED <<state, processed, transactionStatus, con, ien, ipd, stored, msgVars,
                 hwVars, isrVars, thrVars>>

-----------------------------------------------------------------------------
(* i2c_xfer and i2c_xfer_single.                                           *)

ThreadGoto(from, to) == thread = from /\ thread' = to

Leftovers ==
  {x \in {"bits", "controller", "isr", "dpc"} :
     CASE x = "bits" -> ipd # {}
       [] x = "controller" -> todo # {}
       [] x = "isr" -> isr # "idle"
       [] x = "dpc" -> dpcQueued}

ClearEvent ==
  /\ ThreadGoto("idle", "setup")
  /\ waitEvent' = FALSE
  /\ left' = Leftovers
  /\ stored' = <<>>
  /\ UNCHANGED <<state, processed, transactionStatus, con, ien, ipd, msgVars, hwVars,
                 isrVars, dpcQueued, messages, current, status, timeouts>>

Setup ==
  /\ ThreadGoto("setup", "enable")
  /\ mode' = Msg.dir /\ length' = Msg.len /\ isLastMsg' = FALSE
  /\ state' = "START" /\ processed' = 0 /\ transactionStatus' = "SUCCESS"
  /\ UNCHANGED <<con, ien, ipd, stored, hwVars, isrVars, dpcQueued, waitEvent,
                 messages, current, status, left, timeouts>>

\* rk3x_i2c_start up to its write of REG_IEN, and from there.
StartEnable ==
  /\ ThreadGoto("enable", "start")
  /\ ien' = {"START"}
  /\ UNCHANGED <<state, processed, transactionStatus, con, ipd, stored, msgVars, hwVars,
                 isrVars, dpcQueued, waitEvent, messages, current, status, left, timeouts>>

Start ==
  /\ ThreadGoto("start", "waiting")
  /\ WriteCon({"START"})
  /\ UNCHANGED <<state, processed, transactionStatus, ien, ipd, stored, msgVars, buffers,
                 count, line, wire, isrVars, dpcQueued, waitEvent, messages, current, status,
                 left, timeouts>>

Wake ==
  /\ ThreadGoto("waiting", "returned")
  /\ waitEvent
  /\ status' = transactionStatus
  /\ UNCHANGED <<state, processed, transactionStatus, con, ien, ipd, stored, msgVars,
                 hwVars, isrVars, dpcQueued, waitEvent, messages, current, left, timeouts>>

Timeout ==
  /\ ThreadGoto("waiting", "mask")
  /\ ~waitEvent
  /\ timeouts < MaxTimeouts /\ timeouts' = timeouts + 1
  /\ UNCHANGED <<state, processed, transactionStatus, con, ien, ipd, stored, msgVars,
                 hwVars, isrVars, dpcQueued, waitEvent, messages, current, status, left>>

\* "Force a STOP condition without interrupt."
TimeoutMask ==
  /\ ThreadGoto("mask", "force")
  /\ ien' = {}
  /\ UNCHANGED <<state, processed, transactionStatus, con, ipd, stored, msgVars, hwVars,
                 isrVars, dpcQueued, waitEvent, messages, current, status, left, timeouts>>

TimeoutForce ==
  /\ ThreadGoto("force", "giveup")
  /\ WriteCon({"STOP"})
  /\ UNCHANGED <<state, processed, transactionStatus, ien, ipd, stored, msgVars, buffers,
                 count, line, wire, isrVars, dpcQueued, waitEvent, messages, current, status,
                 left, timeouts>>

TimeoutGiveUp ==
  /\ ThreadGoto("giveup", "returned")
  /\ state' = "IDLE"
  /\ status' = "TIMEOUT"
  /\ UNCHANGED <<processed, transactionStatus, con, ien, ipd, stored, msgVars, hwVars,
                 isrVars, dpcQueued, waitEvent, messages, current, left, timeouts>>

\* The next message of the request or, if there is none or this one failed,
\* the next request.
NextMessage ==
  /\ ThreadGoto("returned", "idle")
  /\ IF status = "SUCCESS" /\ current < Len(messages)
     THEN current' = current + 1 /\ UNCHANGED messages
     ELSE current' = 1 /\ messages' \in Requests
  /\ UNCHANGED <<state, processed, transactionStatus, con, ien, ipd, stored, msgVars,
                 hwVars, isrVars, dpcQueued, waitEvent, status, left, timeouts>>

-----------------------------------------------------------------------------
Hardware == HwStart \/ HwSend \/ HwReceive \/ HwNak \/ HwStop
Irq      == IrqEnter \/ IrqNak \/ IrqDispatch
Thread   == ClearEvent \/ Setup \/ StartEnable \/ Start \/ Wake \/ NextMessage
GiveUp   == Timeout \/ TimeoutMask \/ TimeoutForce \/ TimeoutGiveUp

Next == Hardware \/ Irq \/ Dpc \/ Thread \/ GiveUp

Spec == Init /\ [][Next]_vars

-----------------------------------------------------------------------------
Payload(n) == [i \in 1..n |-> i - 1]

\* The device has seen every byte of the message, once and in order, and the
\* transfer has been ended with a STOP.
Transferred ==
  /\ line = "free"
  /\ wire = IF Msg.dir = "write" THEN <<Address>> \o Payload(Msg.len) ELSE Payload(Msg.len)
  /\ Msg.dir = "read" => stored = wire

(* A message that starts with nothing left over and is reported successful
   has been transferred, whatever the address, the fetches of its bytes, the
   ISR and the timer do. *)
SuccessIsComplete ==
  thread = "returned" /\ status = "SUCCESS" /\ left = {} => Transferred

(* The thread is never left waiting for a message the ISR is done with. *)
EndIsSignalled ==
  thread = "waiting" /\ state = "IDLE" => dpcQueued \/ waitEvent

(* "Signal rk3x_i2c_xfer that we are finished" (rockchipi2c.c 262): a message
   reported successful is finished.  What a timed-out message leaves pending
   in IPD is taken for the answer to the next one, even when the ISR, the DPC
   and the controller were all at rest in between. *)
SignalledIsFinished ==
  thread = "returned" /\ status = "SUCCESS" /\ left \subseteq {"bits"} => Transferred

=============================================================================
