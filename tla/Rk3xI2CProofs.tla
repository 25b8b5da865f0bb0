---------------------------- MODULE Rk3xI2CProofs ----------------------------
(***************************************************************************)
(* For buffers and messages of any length and any number of timeouts: the  *)
(* end of a message is always signalled, and a message that starts with    *)
(* nothing left over is reported successful only when all of it has been   *)
(* transferred.                                                            *)
(*                                                                         *)
(* The invariant is the protocol of one message: what the controller has   *)
(* been told, which interrupt is pending and how far the ISR is are known  *)
(* at every stage of it.  Only a failed message leaves the stages, and     *)
(* then transactionStatus stays what it is until the next one.             *)
(*                                                                         *)
(* For every base clock from MinClockKhz up and every speed: the timings   *)
(* of SCL meet the specification of the bus, and their fields fit.         *)
(***************************************************************************)
EXTENDS Rk3xI2C, Rk3xClocks, SequenceTheorems, TLAPS

Bits == {"START", "STOP", "MBTF", "MBRF", "NAKRCV"}

TypeOK ==
  /\ state \in {"IDLE", "START", "WRITE", "READ", "STOP"}
  /\ mode \in {"write", "read"} /\ isLastMsg \in BOOLEAN
  /\ length \in Nat /\ processed \in 0..length /\ count \in 0..Chunk
  /\ con \subseteq {"START", "STOP"} /\ ien \subseteq Bits
  /\ ipd \subseteq Bits /\ isrIpd \subseteq Bits
  /\ todo \subseteq {"START", "STOP", "send", "receive"} /\ line \in {"free", "held"}
  /\ isr \in {"idle", "nak", "dispatch"}
  /\ dpcQueued \in BOOLEAN /\ waitEvent \in BOOLEAN
  /\ thread \in {"idle", "setup", "enable", "start", "waiting", "returned", "mask",
                 "force", "giveup"}
  /\ messages \in Requests /\ current \in 1..Len(messages)

-----------------------------------------------------------------------------
(* The ISR ends a message with the event, or with a STOP that ends in it.  *)

Signalled ==
  thread \in {"enable", "start", "waiting"} /\ state = "IDLE" => dpcQueued \/ waitEvent

-----------------------------------------------------------------------------
(* The stages of a message that started with nothing left over.            *)

AtRest == todo = {} /\ ipd = {} /\ isr = "idle" /\ ~dpcQueued

\* The controller has raised these bits and the ISR is not through with them.
Raised(bits) ==
  /\ todo = {} /\ ipd = bits
  /\ isr = "idle" \/ (isr = "dispatch" /\ isrIpd = bits)

Refused ==
  /\ todo = {} /\ ipd = {"NAKRCV"}
  /\ isr = "idle" \/ (isr = "nak" /\ isrIpd = {"NAKRCV"})

Told(job) == todo = {job} /\ ipd = {} /\ isr = "idle"

Sent(n) == <<Address>> \o Payload(n)

Full == /\ wire = IF Msg.dir = "write" THEN Sent(Msg.len) ELSE Payload(Msg.len)
        /\ Msg.dir = "read" => stored = wire

Begun == length = Msg.len /\ mode = Msg.dir

ToStart ==
  /\ Begun /\ state = "START" /\ processed = 0 /\ stored = <<>>
  /\ thread # "enable" => ien = {"START"}
  /\ AtRest \/ (thread = "waiting" /\ Told("START"))

Started ==
  /\ Begun /\ state = "START" /\ processed = 0 /\ stored = <<>>
  /\ ien = {"START"} /\ Raised({"START"})
  /\ wire = <<>>

Sending ==
  /\ Begun /\ mode = "write" /\ state = "WRITE"
  /\ processed > 0 \/ length = 0
  /\ ien = {"MBTF", "NAKRCV"}
  /\ \/ Told("send") /\ wire \o txBuffer = Sent(processed)
     \/ Raised({"MBTF"}) /\ wire = Sent(processed)
     \/ Refused

Receiving ==
  LET len == Lesser(length - processed, Chunk) IN
  /\ Begun /\ mode = "read" /\ state = "READ"
  /\ ien = {"MBRF", "NAKRCV"}
  /\ stored = Payload(processed)
  /\ \/ Told("receive") /\ count = len /\ wire = Payload(processed)
     \/ Raised({"MBRF", "START"}) /\ wire = Payload(processed + len)
                                  /\ SubSeq(rxBuffer, 1, len) = [i \in 1..len |-> processed + i - 1]
     \/ Refused

Stopping ==
  /\ state = "STOP" /\ ien = {"STOP"} /\ Full
  /\ \/ todo \subseteq {"STOP"} /\ ipd = {} /\ isr = "idle"
     \/ line = "free" /\ Raised({"STOP"})

Ended == state = "IDLE" /\ todo = {} /\ ipd = {} /\ isr = "idle" /\ line = "free" /\ Full

Underway == Started \/ Sending \/ Receiving \/ Stopping

\* The message of a thread that has set it up and not been woken.
InProgress ==
  \/ transactionStatus # "SUCCESS"
  \/ ToStart /\ ~waitEvent /\ ~dpcQueued
  \/ thread = "waiting" /\ Underway /\ ~waitEvent /\ ~dpcQueued
  \/ thread = "waiting" /\ Ended

StageOK ==
  left = {} =>
    /\ thread = "setup" => AtRest /\ ~waitEvent /\ stored = <<>>
    /\ thread \in {"enable", "start", "waiting"} => InProgress
    /\ thread = "returned" /\ status = "SUCCESS" => Ended

IInv == TypeOK /\ Signalled /\ StageOK

-----------------------------------------------------------------------------
(* Types.                                                                  *)

\* The message the thread is at, and its fields.
LEMMA MessageTyped ==
  ASSUME TypeOK
  PROVE  Msg.len \in Nat /\ Msg.dir \in {"write", "read"}
<1>1. messages \in Seq(Message) /\ current \in 1..Len(messages)
  BY ConstantsAssumption DEF TypeOK
<1>2. messages[current] \in Message
  BY <1>1
<1> QED
  BY <1>2 DEF Message, Msg

LEMMA LesserOf ==
  ASSUME NEW a \in Nat, NEW b \in Nat
  PROVE  /\ Lesser(a, b) \in Nat /\ Lesser(a, b) <= a /\ Lesser(a, b) <= b
         /\ a > 0 /\ b > 0 => Lesser(a, b) > 0
         /\ Lesser(a, b) = a \/ Lesser(a, b) = b
BY DEF Lesser

\* What a stop leaves, with and without a STOP condition.
LEMMA StopTyped ==
  ASSUME TypeOK, NEW error, NEW last \in BOOLEAN, Stop(error, last)
  PROVE  /\ state' \in {"IDLE", "STOP"} /\ length' = 0 /\ processed' = 0
         /\ con' \subseteq {"START", "STOP"} /\ ien' \subseteq Bits
         /\ todo' \subseteq {"START", "STOP", "send", "receive"}
         /\ dpcQueued' \in BOOLEAN
         /\ transactionStatus' = error
         /\ state' = "IDLE" => dpcQueued'
BY DEF Stop, TypeOK, WriteCon, ResetCon, Bits

LEMMA LastTyped ==
  ASSUME TypeOK, NEW error, Stop(error, TRUE)
  PROVE  /\ state' = "STOP" /\ length' = 0 /\ processed' = 0
         /\ con' \subseteq {"START", "STOP"} /\ ien' = {"STOP"} /\ ien' \subseteq Bits
         /\ todo' \subseteq {"START", "STOP", "send", "receive"}
         /\ UNCHANGED dpcQueued
         /\ transactionStatus' = error
         /\ todo = {} => todo' \subseteq {"STOP"}
BY DEF Stop, TypeOK, WriteCon, Bits

LEMMA FillTyped ==
  ASSUME TypeOK, NEW ok \in BOOLEAN, FillTransmitBuf(ok)
  PROVE  processed' \in 0..length
<1>1. length - processed \in Nat /\ processed \in Nat /\ length \in Nat
  BY DEF TypeOK
<1>2. Room \in Nat
  BY ConstantsAssumption DEF Room
<1>3. Lesser(length - processed, Room) \in 0..(length - processed)
  BY <1>1, <1>2, LesserOf
<1>4. processed' = processed + Lesser(length - processed, Room)
  BY DEF FillTransmitBuf
<1> QED
  BY <1>1, <1>3, <1>4

LEMMA InitTyped ==
  Init => TypeOK
<1> SUFFICES ASSUME Init PROVE TypeOK
  OBVIOUS
<1>1. Len(messages) \in Nat /\ Len(messages) >= 1
  BY ConstantsAssumption DEF Init
<1>2. /\ messages \in Requests /\ current = 1 /\ length = 0 /\ processed = 0 /\ count = 0
      /\ Chunk \in Nat
  BY ConstantsAssumption DEF Init
<1>3. /\ state = "IDLE" /\ mode = "write" /\ isLastMsg = FALSE /\ line = "free"
      /\ con = {} /\ ien = {} /\ ipd = {} /\ isrIpd = {} /\ todo = {}
      /\ isr = "idle" /\ thread = "idle" /\ dpcQueued = FALSE /\ waitEvent = FALSE
  BY DEF Init
<1>4. current \in 1..Len(messages) /\ processed \in 0..length /\ count \in 0..Chunk
  BY <1>1, <1>2
<1> QED
  BY <1>2, <1>3, <1>4 DEF TypeOK

LEMMA HardwareTyped ==
  ASSUME TypeOK, Hardware
  PROVE  TypeOK'
<1>1. Chunk \in Nat
  BY ConstantsAssumption
<1>2. CASE HwStart
  BY <1>1, <1>2 DEF HwStart, TypeOK, Bits, msgVars, isrVars, thrVars
<1>3. CASE HwSend
  BY <1>1, <1>3 DEF HwSend, HwWorks, TypeOK, Bits, msgVars, isrVars, thrVars
<1>4. CASE HwReceive
  BY <1>1, <1>4 DEF HwReceive, HwWorks, TypeOK, Bits, msgVars, isrVars, thrVars
<1>5. CASE HwNak
  <2>1. todo' \subseteq todo /\ count' = 0 /\ ipd' = ipd \cup {"NAKRCV"}
    BY <1>5 DEF HwNak, HwWorks
  <2>2. UNCHANGED <<state, mode, isLastMsg, length, processed, con, ien, isrIpd, line, isr,
                    dpcQueued, waitEvent, thread, messages, current>>
    BY <1>5 DEF HwNak, msgVars, isrVars, thrVars
  <2> QED
    BY <1>1, <2>1, <2>2 DEF TypeOK, Bits
<1>6. CASE HwStop
  BY <1>1, <1>6 DEF HwStop, TypeOK, Bits, msgVars, isrVars, thrVars
<1> QED
  BY <1>2, <1>3, <1>4, <1>5, <1>6 DEF Hardware

\* Of the ISR's steps the type follows from what each leaves.
LEMMA IrqTyped ==
  ASSUME TypeOK, Irq
  PROVE  TypeOK'
<1>1. Chunk \in Nat
  BY ConstantsAssumption
<1>2. CASE IrqEnter
  <2>1. UNCHANGED <<state, mode, isLastMsg, length, processed, count, con, ien, todo, line,
                    dpcQueued, waitEvent, thread, messages, current>>
    BY <1>2 DEF IrqEnter, msgVars, hwVars, buffers, thrVars
  <2>2. ipd' \subseteq Bits /\ isrIpd' \subseteq Bits /\ isr' \in {"idle", "nak", "dispatch"}
    BY <1>2 DEF IrqEnter, TypeOK, isrVars
  <2> QED
    BY <2>1, <2>2 DEF TypeOK
<1>3. CASE IrqNak
  <2>1. Stop("INVALID_TRANSACTION", isLastMsg) /\ isLastMsg \in BOOLEAN
    BY <1>3 DEF IrqNak, TypeOK
  <2>2. UNCHANGED <<mode, isLastMsg, count, line, waitEvent, thread, messages, current>>
    BY <1>3 DEF IrqNak, buffers, thrVars
  <2>3. ipd' \subseteq Bits /\ isrIpd' \subseteq Bits /\ isr' \in {"idle", "nak", "dispatch"}
    BY <1>3 DEF IrqNak, TypeOK
  <2> QED
    BY <2>1, <2>2, <2>3, StopTyped DEF TypeOK
<1>4. ASSUME IrqDispatch PROVE TypeOK'
  <2>1. /\ UNCHANGED <<waitEvent, thread, messages, current>>
        /\ isr' = "idle" /\ isrIpd' = {}
    BY <1>4 DEF IrqDispatch, thrVars
  <2>2. ASSUME Unexpected PROVE TypeOK'
    <3>1. Stop("DEVICE_ERROR", isLastMsg) /\ isLastMsg \in BOOLEAN
      BY <2>2 DEF Unexpected, TypeOK
    <3>2. ipd' = {} /\ UNCHANGED <<mode, isLastMsg, count, line>>
      BY <2>2 DEF Unexpected, buffers
    <3> QED
      BY <2>1, <3>1, <3>2, StopTyped DEF TypeOK
  <2>3. ASSUME NEW ok \in BOOLEAN, HandleStart(ok) PROVE TypeOK'
    <3>1. CASE Unexpected
      BY <2>2, <3>1
    <3>2. CASE ~Unexpected
      <4>1. /\ state' \in {"WRITE", "READ"}
            /\ ipd' \subseteq Bits /\ con' \subseteq {"START", "STOP"} /\ ien' \subseteq Bits
            /\ todo' \subseteq {"START", "STOP", "send", "receive"}
        BY <2>3, <3>2 DEF HandleStart, TypeOK, Bits
      <4>2. UNCHANGED <<mode, length, isLastMsg, line, dpcQueued>>
        BY <2>3, <3>2 DEF HandleStart, msgVars
      <4>3. CASE mode = "write"
        <5>1. FillTransmitBuf(ok) /\ UNCHANGED count
          BY <2>3, <3>2, <4>3 DEF HandleStart
        <5> QED
          BY <2>1, <4>1, <4>2, <5>1, FillTyped DEF TypeOK
      <4>4. CASE mode # "write"
        <5>1. count' = Lesser(length - processed, Chunk) /\ UNCHANGED processed
          BY <2>3, <3>2, <4>4 DEF HandleStart, PrepareRead
        <5>2. length - processed \in Nat
          BY DEF TypeOK
        <5>3. count' \in 0..Chunk
          BY <1>1, <5>1, <5>2, LesserOf
        <5> QED
          BY <2>1, <4>1, <4>2, <5>1, <5>3 DEF TypeOK
      <4> QED
        BY <4>3, <4>4
    <3> QED
      BY <3>1, <3>2
  <2>4. ASSUME NEW ok \in BOOLEAN, HandleWrite(ok) PROVE TypeOK'
    <3>1. CASE Unexpected
      BY <2>2, <3>1
    <3>2. CASE ~Unexpected
      <4>1. ipd' \subseteq Bits /\ UNCHANGED <<count, mode, line>>
        BY <2>4, <3>2 DEF HandleWrite, TypeOK, msgVars
      <4>2. CASE Finished
        <5>1. Stop(transactionStatus, TRUE) /\ isLastMsg' = TRUE
          BY <2>4, <3>2, <4>2 DEF HandleWrite
        <5>2. /\ state' = "STOP" /\ length' = 0 /\ processed' = 0
              /\ con' \subseteq {"START", "STOP"} /\ ien' \subseteq Bits
              /\ todo' \subseteq {"START", "STOP", "send", "receive"}
              /\ UNCHANGED dpcQueued
          BY <5>1, LastTyped
        <5> QED
          BY <2>1, <4>1, <5>1, <5>2 DEF TypeOK
      <4>3. CASE ~Finished
        <5>1. /\ FillTransmitBuf(ok) /\ todo' = todo \cup {"send"}
              /\ UNCHANGED <<state, con, ien, length, isLastMsg, dpcQueued>>
          BY <2>4, <3>2, <4>3 DEF HandleWrite, msgVars
        <5>2. todo' \subseteq {"START", "STOP", "send", "receive"}
          BY <5>1 DEF TypeOK
        <5>3. processed' \in 0..length'
          BY <5>1, FillTyped
        <5> QED
          BY <2>1, <4>1, <5>1, <5>2, <5>3 DEF TypeOK
      <4> QED
        BY <4>2, <4>3
    <3> QED
      BY <3>1, <3>2
  <2>5. ASSUME NEW ok \in BOOLEAN, HandleRead(ok) PROVE TypeOK'
    <3> DEFINE len == Lesser(length - processed, Chunk)
               got == IF ok THEN len ELSE Lesser(len, 1)
    <3>1. length - processed \in Nat /\ processed \in Nat /\ length \in Nat
      BY DEF TypeOK
    <3>2. len \in Nat /\ len <= length - processed /\ got \in 0..len
      <4>1. len \in Nat /\ len <= length - processed
        BY <1>1, <3>1, LesserOf
      <4>2. Lesser(len, 1) \in 0..len
        BY <4>1, LesserOf
      <4> HIDE DEF len
      <4> QED
        BY <4>1, <4>2
    <3>3. CASE "MBRF" \notin isrIpd
      BY <2>1, <2>5, <3>3 DEF HandleRead, TypeOK, msgVars, hwVars
    <3>4. CASE "MBRF" \in isrIpd
      <4>1. ipd' \subseteq Bits /\ UNCHANGED <<mode, line>>
        BY <2>5, <3>4 DEF HandleRead, TypeOK, msgVars
      <4>2. CASE processed + got >= length
        <5>1. ~(processed + got < length)
          BY <3>1, <3>2, <4>2
        <5>2. Stop(Fetched(ok), TRUE) /\ isLastMsg' = TRUE /\ UNCHANGED count
          BY <2>5, <5>1, <3>4, <4>2 DEF HandleRead
        <5>3. /\ state' = "STOP" /\ length' = 0 /\ processed' = 0
              /\ con' \subseteq {"START", "STOP"} /\ ien' \subseteq Bits
              /\ todo' \subseteq {"START", "STOP", "send", "receive"}
              /\ UNCHANGED dpcQueued
          BY <5>2, LastTyped
        <5> QED
          BY <2>1, <4>1, <5>2, <5>3 DEF TypeOK
      <4>3. CASE processed + got < length
        <5>1. /\ processed' = processed + got
              /\ count' = Lesser(length - (processed + got), Chunk)
              /\ todo' = todo \cup {"receive"}
              /\ UNCHANGED <<state, con, ien, length, isLastMsg, dpcQueued>>
          <6>1. ~(processed + got >= length)
            BY <3>1, <3>2, <4>3
          <6> QED
            BY <2>5, <3>4, <6>1 DEF HandleRead, PrepareRead, msgVars
        <5>2. processed + got \in 0..length /\ length - (processed + got) \in Nat
          BY <3>1, <3>2
        <5>3. count' \in 0..Chunk
          BY <1>1, <5>1, <5>2, LesserOf
        <5> HIDE DEF got
        <5>4. todo' \subseteq {"START", "STOP", "send", "receive"}
          BY <5>1 DEF TypeOK
        <5> QED
          BY <2>1, <4>1, <5>1, <5>2, <5>3, <5>4 DEF TypeOK
      <4>4. processed + got >= length \/ processed + got < length
        BY <3>1, <3>2
      <4> QED
        BY <4>2, <4>3, <4>4
    <3> QED
      BY <3>3, <3>4
  <2>6. ASSUME HandleStop PROVE TypeOK'
    <3>1. CASE Unexpected
      BY <2>2, <3>1
    <3>2. CASE ~Unexpected
      BY <2>1, <2>6, <3>2 DEF HandleStop, TypeOK, Bits, WriteCon, msgVars
    <3> QED
      BY <3>1, <3>2
  <2>7. ASSUME HandleIdle PROVE TypeOK'
    BY <2>1, <2>7 DEF HandleIdle, TypeOK, msgVars, hwVars
  <2> QED
    BY <1>4, <2>3, <2>4, <2>5, <2>6, <2>7 DEF IrqDispatch
<1> QED
  BY <1>2, <1>3, <1>4 DEF Irq

LEMMA ThreadTyped ==
  ASSUME TypeOK, Dpc \/ Thread \/ GiveUp
  PROVE  TypeOK'
<1>1. CASE Dpc
  BY <1>1 DEF Dpc, TypeOK, msgVars, hwVars, isrVars, thrVars
<1>2. CASE ClearEvent
  BY <1>2 DEF ClearEvent, ThreadGoto, TypeOK, msgVars, hwVars, isrVars
<1>3. CASE Setup
  <2>1. UNCHANGED <<count, con, ien, ipd, isrIpd, todo, line, isr, dpcQueued, waitEvent,
                    messages, current>>
    BY <1>3 DEF Setup, hwVars, isrVars
  <2>2. /\ thread' = "enable" /\ state' = "START" /\ isLastMsg' = FALSE
        /\ mode' = Msg.dir /\ length' = Msg.len /\ processed' = 0
    BY <1>3 DEF Setup, ThreadGoto
  <2>3. mode' \in {"write", "read"} /\ length' \in Nat /\ processed' \in 0..length'
    BY <2>2, MessageTyped
  <2> QED
    BY <2>1, <2>2, <2>3 DEF TypeOK
<1>4. CASE StartEnable
  BY <1>4 DEF StartEnable, ThreadGoto, TypeOK, msgVars, hwVars, isrVars, Bits
<1>5. CASE Start
  BY <1>5 DEF Start, WriteCon, ThreadGoto, TypeOK, msgVars, isrVars
<1>6. CASE Wake
  BY <1>6 DEF Wake, ThreadGoto, TypeOK, msgVars, hwVars, isrVars
<1>7. CASE NextMessage
  <2>1. UNCHANGED <<state, mode, isLastMsg, length, processed, count, con, ien, ipd, isrIpd,
                    todo, line, isr, dpcQueued, waitEvent>> /\ thread' = "idle"
    BY <1>7 DEF NextMessage, ThreadGoto, msgVars, hwVars, isrVars
  <2>2. \A r \in Requests : Len(r) \in Nat /\ Len(r) >= 1
    BY ConstantsAssumption
  <2>3. messages' \in Requests /\ current' \in 1..Len(messages')
    <3>1. CASE status = "SUCCESS" /\ current < Len(messages)
      BY <1>7, <2>2, <3>1 DEF NextMessage, TypeOK
    <3>2. CASE ~(status = "SUCCESS" /\ current < Len(messages))
      BY <1>7, <2>2, <3>2 DEF NextMessage
    <3> QED
      BY <3>1, <3>2
  <2> QED
    BY <2>1, <2>3 DEF TypeOK
<1>8. CASE Timeout
  BY <1>8 DEF Timeout, ThreadGoto, TypeOK, msgVars, hwVars, isrVars
<1>9. CASE TimeoutMask
  BY <1>9 DEF TimeoutMask, ThreadGoto, TypeOK, msgVars, hwVars, isrVars
<1>10. CASE TimeoutForce
  BY <1>10 DEF TimeoutForce, WriteCon, ThreadGoto, TypeOK, msgVars, isrVars
<1>11. CASE TimeoutGiveUp
  BY <1>11 DEF TimeoutGiveUp, ThreadGoto, TypeOK, msgVars, hwVars, isrVars
<1> QED
  BY <1>1, <1>2, <1>3, <1>4, <1>5, <1>6, <1>7, <1>8, <1>9, <1>10, <1>11 DEF Thread, GiveUp

LEMMA TypeKept ==
  ASSUME TypeOK, [Next]_vars
  PROVE  TypeOK'
<1>1. CASE UNCHANGED vars
  BY <1>1 DEF vars, TypeOK, msgVars, hwVars, isrVars, thrVars
<1> QED
  BY <1>1, HardwareTyped, IrqTyped, ThreadTyped DEF Next

-----------------------------------------------------------------------------
(* The bytes of a message.                                                 *)

\* n bytes and the next k are n + k bytes.
LEMMA BytesGrow ==
  ASSUME NEW n \in Nat, NEW k \in Nat
  PROVE  Payload(n) \o [i \in 1..k |-> n + i - 1] = Payload(n + k)
<1> DEFINE a == Payload(n)
           b == [i \in 1..k |-> n + i - 1]
           c == Payload(n + k)
<1>1. a \in Seq(Int) /\ Len(a) = n /\ \A i \in 1..n : a[i] = i - 1
  BY DEF Payload
<1>2. b \in Seq(Int) /\ Len(b) = k /\ \A i \in 1..k : b[i] = n + i - 1
  OBVIOUS
<1>3. c \in Seq(Int) /\ Len(c) = n + k /\ \A i \in 1..(n + k) : c[i] = i - 1
  BY DEF Payload
<1> HIDE DEF a, b, c
<1>4. /\ a \o b \in Seq(Int) /\ Len(a \o b) = n + k
      /\ \A i \in 1..(n + k) : (a \o b)[i] = IF i <= n THEN a[i] ELSE b[i - n]
  BY <1>1, <1>2, ConcatProperties
<1>5. \A i \in 1..(n + k) : (a \o b)[i] = c[i]
  BY <1>1, <1>2, <1>3, <1>4
<1>6. a \o b = c
  BY <1>3, <1>4, <1>5, SeqEqual
<1> QED
  BY <1>6 DEF a, b, c

LEMMA SentGrow ==
  ASSUME NEW n \in Nat, NEW k \in Nat
  PROVE  Sent(n) \o [i \in 1..k |-> n + i - 1] = Sent(n + k)
<1>1. <<Address>> \in Seq(Int) /\ Payload(n) \in Seq(Int)
  BY DEF Payload, Address
<1>2. [i \in 1..k |-> n + i - 1] \in Seq(Int)
  OBVIOUS
<1>3. Sent(n) \o [i \in 1..k |-> n + i - 1]
        = <<Address>> \o (Payload(n) \o [i \in 1..k |-> n + i - 1])
  BY <1>1, <1>2, ConcatAssociative DEF Sent
<1> QED
  BY <1>3, BytesGrow DEF Sent

LEMMA NothingRead ==
  Payload(0) = <<>>
BY DEF Payload

\* What a fill that fetches its bytes leaves on its way.
LEMMA FilledNext ==
  ASSUME TypeOK, NEW ok \in BOOLEAN, FillTransmitBuf(ok),
         ok \/ processed = length,
         processed = 0 => wire = <<>>, processed # 0 => wire = Sent(processed)
  PROVE  wire \o txBuffer' = Sent(processed')
<1> DEFINE n == Lesser(length - processed, Room)
           data == [i \in 1..n |-> IF ok THEN processed + i - 1 ELSE Junk]
           next == [i \in 1..n |-> processed + i - 1]
<1>1. length - processed \in Nat /\ processed \in Nat /\ length \in Nat
  BY DEF TypeOK
<1>2. Room \in Nat
  BY ConstantsAssumption DEF Room
<1>3. n \in Nat /\ n <= length - processed
  BY <1>1, <1>2, LesserOf
<1>4. /\ processed' = processed + n
      /\ txBuffer' = (IF processed = 0 THEN <<Address>> ELSE <<>>) \o data
  BY DEF FillTransmitBuf
<1> HIDE DEF n
<1>5. data = next
  <2>1. CASE ok
    BY <2>1
  <2>2. CASE ~ok
    <3>1. n = 0
      BY <1>1, <1>3, <2>2
    <3> QED
      BY <3>1
  <2> QED
    BY <2>1, <2>2
<1>6. next \in Seq(Int) /\ <<Address>> \o next \in Seq(Int)
  <2>1. next \in Seq(Int) /\ <<Address>> \in Seq(Int)
    BY <1>1, <1>3 DEF Address
  <2> QED
    BY <2>1, ConcatProperties
<1>7. CASE processed = 0
  <2>1. wire \o txBuffer' = <<Address>> \o next
    BY <1>4, <1>5, <1>6, <1>7, ConcatEmptySeq
  <2>2. next = Payload(n)
    BY <1>3, <1>7 DEF Payload
  <2>3. processed' = n
    BY <1>3, <1>4, <1>7
  <2> QED
    BY <2>1, <2>2, <2>3 DEF Sent
<1>8. CASE processed # 0
  <2>1. txBuffer' = next
    BY <1>4, <1>5, <1>6, <1>8, ConcatEmptySeq
  <2> QED
    BY <1>1, <1>3, <1>4, <1>8, <2>1, SentGrow
<1> QED
  BY <1>7, <1>8

LEMMA PrefixOf ==
  ASSUME NEW k \in Nat, NEW s, \A i \in 1..k : s[i] \in Int
  PROVE  SubSeq(s, 1, k) = [i \in 1..k |-> s[i]]
OBVIOUS

\* What the controller has received is what follows what it had.
LEMMA ReceivedNext ==
  ASSUME NEW n \in Nat, NEW k \in Nat, NEW rx, k <= Chunk,
         rx = [i \in 1..Chunk |-> IF i <= k THEN n + i - 1 ELSE rxBuffer[i]]
  PROVE  /\ SubSeq(rx, 1, k) = [i \in 1..k |-> n + i - 1]
         /\ Payload(n) \o SubSeq(rx, 1, k) = Payload(n + k)
<1>1. \A i \in 1..k : rx[i] = n + i - 1
  BY ConstantsAssumption
<1>2. \A i \in 1..k : rx[i] \in Int
  BY ONLY <1>1, n \in Nat, k \in Nat
<1>3. SubSeq(rx, 1, k) = [i \in 1..k |-> rx[i]]
  BY ONLY <1>2, k \in Nat, PrefixOf
<1>4. [i \in 1..k |-> rx[i]] = [i \in 1..k |-> n + i - 1]
  BY <1>1
<1>5. SubSeq(rx, 1, k) = [i \in 1..k |-> n + i - 1]
  BY <1>3, <1>4
<1> QED
  BY <1>5, BytesGrow


\* A fill that is not recorded as failed has fetched its bytes, and goes on.
LEMMA FillOutcome ==
  ASSUME TypeOK, NEW ok \in BOOLEAN, FillTransmitBuf(ok), transactionStatus' = "SUCCESS"
  PROVE  /\ ok \/ processed = length
         /\ processed' > 0 \/ length = 0
<1> DEFINE n == Lesser(length - processed, Room)
<1>1. length - processed \in Nat /\ processed \in Nat /\ length \in Nat
  BY DEF TypeOK
<1>2. Room \in Nat /\ Room > 0
  BY ConstantsAssumption DEF Room
<1>3. n \in Nat /\ (length - processed > 0 => n > 0)
  BY <1>1, <1>2, LesserOf
<1>4. /\ processed' = processed + n
      /\ transactionStatus' = IF n = 0 THEN transactionStatus ELSE Fetched(ok)
  BY DEF FillTransmitBuf
<1> HIDE DEF n
<1>5. ok \/ n = 0
  BY <1>4 DEF Fetched
<1> QED
  BY <1>1, <1>3, <1>4, <1>5

-----------------------------------------------------------------------------
(* The end of a message is signalled.                                      *)

LEMMA UnexpectedSignals ==
  ASSUME TypeOK, Unexpected
  PROVE  state' = "IDLE" => dpcQueued'
BY StopTyped DEF Unexpected, TypeOK

LEMMA DispatchSignals ==
  ASSUME TypeOK, Signalled, IrqDispatch
  PROVE  Signalled'
<1>1. UNCHANGED <<waitEvent, thread>>
  BY DEF IrqDispatch, thrVars
<1>2. CASE UNCHANGED <<state, dpcQueued>>
  BY <1>1, <1>2 DEF Signalled
<1>3. (state' = "IDLE" => dpcQueued') \/ UNCHANGED <<state, dpcQueued>>
  <2>1. ASSUME NEW ok \in BOOLEAN, HandleStart(ok) PROVE state' = "IDLE" => dpcQueued'
    BY <2>1, UnexpectedSignals DEF HandleStart
  <2>2. ASSUME NEW ok \in BOOLEAN, HandleWrite(ok)
        PROVE  (state' = "IDLE" => dpcQueued') \/ UNCHANGED <<state, dpcQueued>>
    BY <2>2, UnexpectedSignals DEF HandleWrite, Stop
  <2>3. ASSUME NEW ok \in BOOLEAN, HandleRead(ok)
        PROVE  (state' = "IDLE" => dpcQueued') \/ UNCHANGED <<state, dpcQueued>>
    BY <2>3 DEF HandleRead, Stop
  <2>4. ASSUME HandleStop PROVE state' = "IDLE" => dpcQueued'
    BY <2>4, UnexpectedSignals DEF HandleStop
  <2>5. ASSUME HandleIdle PROVE UNCHANGED <<state, dpcQueued>>
    BY <2>5 DEF HandleIdle
  <2> QED
    BY <2>1, <2>2, <2>3, <2>4, <2>5 DEF IrqDispatch
<1> QED
  BY <1>1, <1>2, <1>3 DEF Signalled

LEMMA SignalKept ==
  ASSUME TypeOK, Signalled, [Next]_vars
  PROVE  Signalled'
<1>1. CASE Hardware
  <2>1. UNCHANGED <<thread, state, dpcQueued, waitEvent>>
    BY <1>1 DEF Hardware, HwStart, HwSend, HwReceive, HwNak, HwStop, thrVars
  <2> QED
    BY <2>1 DEF Signalled
<1>2. CASE IrqEnter
  BY <1>2 DEF IrqEnter, Signalled, thrVars
<1>3. CASE IrqNak
  <2>1. Stop("INVALID_TRANSACTION", isLastMsg) /\ isLastMsg \in BOOLEAN
    BY <1>3 DEF IrqNak, TypeOK
  <2> QED
    BY <2>1, StopTyped DEF Signalled
<1>4. CASE Dpc
  BY <1>4 DEF Dpc, Signalled
<1>5. CASE Thread
  <2>1. CASE ClearEvent \/ Wake \/ NextMessage
    BY <2>1 DEF ClearEvent, Wake, NextMessage, ThreadGoto, Signalled
  <2>2. CASE Setup
    BY <2>2 DEF Setup, Signalled
  <2>3. CASE StartEnable \/ Start
    BY <2>3 DEF StartEnable, Start, ThreadGoto, Signalled
  <2> QED
    BY <1>5, <2>1, <2>2, <2>3 DEF Thread
<1>6. CASE GiveUp
  BY <1>6 DEF GiveUp, Timeout, TimeoutMask, TimeoutForce, TimeoutGiveUp, ThreadGoto, Signalled
<1>7. CASE UNCHANGED vars
  BY <1>7 DEF vars, Signalled, thrVars
<1> QED
  BY <1>1, <1>2, <1>3, <1>4, <1>5, <1>6, <1>7, DispatchSignals DEF Next, Irq

(* The thread never waits for a message the ISR is done with (rk3x_i2c_stop  *)
(* and rk3x_i2c_handle_stop queue the DPC, i2c_xfer_single waits for it).   *)
THEOREM EndSignalled == Spec => []EndIsSignalled
<1>1. Init => TypeOK /\ Signalled
  BY InitTyped DEF Init, Signalled
<1>2. TypeOK /\ Signalled /\ [Next]_vars => TypeOK' /\ Signalled'
  BY TypeKept, SignalKept
<1>3. TypeOK /\ Signalled => EndIsSignalled
  BY DEF Signalled, EndIsSignalled
<1> QED
  BY <1>1, <1>2, <1>3, PTL DEF Spec


-----------------------------------------------------------------------------
(* The stages of a message.                                                *)

LEMMA FailureStays ==
  ASSUME TypeOK, [Next]_vars, transactionStatus # "SUCCESS"
  PROVE  Setup \/ transactionStatus' # "SUCCESS"
<1>1. ASSUME NEW error, NEW last \in BOOLEAN, Stop(error, last), error # "SUCCESS"
      PROVE  transactionStatus' # "SUCCESS"
  BY <1>1 DEF Stop
<1>2. \A ok \in BOOLEAN : Fetched(ok) # "SUCCESS"
  BY DEF Fetched
<1>3. ASSUME Unexpected PROVE transactionStatus' # "SUCCESS"
  BY <1>3 DEF Unexpected, Stop
<1>4. ASSUME NEW ok \in BOOLEAN, FillTransmitBuf(ok) PROVE transactionStatus' # "SUCCESS"
  BY <1>2, <1>4 DEF FillTransmitBuf
<1>5. CASE Hardware
  BY <1>5 DEF Hardware, HwStart, HwSend, HwReceive, HwNak, HwStop
<1>6. CASE IrqEnter
  BY <1>6 DEF IrqEnter
<1>7. CASE IrqNak
  BY <1>7 DEF IrqNak, Stop
<1>8. ASSUME IrqDispatch PROVE transactionStatus' # "SUCCESS"
  <2>1. ASSUME NEW ok \in BOOLEAN, HandleStart(ok) PROVE transactionStatus' # "SUCCESS"
    BY <1>3, <1>4, <2>1 DEF HandleStart
  <2>2. ASSUME NEW ok \in BOOLEAN, HandleWrite(ok) PROVE transactionStatus' # "SUCCESS"
    BY <1>3, <1>4, <2>2 DEF HandleWrite, Stop
  <2>3. ASSUME NEW ok \in BOOLEAN, HandleRead(ok) PROVE transactionStatus' # "SUCCESS"
    BY <1>2, <2>3 DEF HandleRead, Stop
  <2>4. ASSUME HandleStop PROVE transactionStatus' # "SUCCESS"
    BY <1>3, <2>4 DEF HandleStop
  <2>5. ASSUME HandleIdle PROVE transactionStatus' # "SUCCESS"
    BY <2>5 DEF HandleIdle
  <2> QED
    BY <1>8, <2>1, <2>2, <2>3, <2>4, <2>5 DEF IrqDispatch
<1>9. CASE Dpc
  BY <1>9 DEF Dpc
<1>10. CASE ClearEvent \/ StartEnable \/ Start \/ Wake \/ NextMessage
  BY <1>10 DEF ClearEvent, StartEnable, Start, Wake, NextMessage
<1>11. CASE GiveUp
  BY <1>11 DEF GiveUp, Timeout, TimeoutMask, TimeoutForce, TimeoutGiveUp
<1>12. CASE UNCHANGED vars
  BY <1>12 DEF vars
<1> QED
  BY <1>5, <1>6, <1>7, <1>8, <1>9, <1>10, <1>11, <1>12 DEF Next, Irq, Thread

\* The controller, the ISR and the DPC leave the thread where it is.
LEMMA ThreadApart ==
  ASSUME Hardware \/ Irq \/ Dpc
  PROVE  UNCHANGED <<thread, messages, current, status, left>>
<1>1. CASE Hardware
  BY <1>1 DEF Hardware, HwStart, HwSend, HwReceive, HwNak, HwStop, thrVars
<1>2. CASE Irq
  BY <1>2 DEF Irq, IrqEnter, IrqNak, IrqDispatch, thrVars
<1>3. CASE Dpc
  BY <1>3 DEF Dpc, thrVars
<1> QED
  BY <1>1, <1>2, <1>3

LEMMA NothingToDo ==
  ASSUME todo = {}
  PROVE  ~Hardware
BY DEF Hardware, HwStart, HwSend, HwReceive, HwNak, HwStop, HwWorks

LEMMA NothingPending ==
  ASSUME isr = "idle", ipd = {}
  PROVE  ~Irq
BY DEF Irq, IrqEnter, IrqNak, IrqDispatch

\* The ISR takes what is raised; nothing else changes.
LEMMA Entered ==
  ASSUME Irq, isr = "idle", state # "IDLE"
  PROVE  /\ isrIpd' = ipd
         /\ isr' = IF "NAKRCV" \in ipd THEN "nak" ELSE "dispatch"
         /\ UNCHANGED <<state, processed, transactionStatus, con, ien, ipd, stored, mode,
                        length, isLastMsg, txBuffer, rxBuffer, count, todo, line, wire,
                        dpcQueued, waitEvent>>
BY DEF Irq, IrqEnter, IrqNak, IrqDispatch, msgVars, hwVars, buffers

\* With an event raised and nothing to do, either the ISR takes it or it is
\* through with it.
LEMMA RaisedStep ==
  ASSUME NEW bits, Raised(bits), "NAKRCV" \notin bits, state # "IDLE", ~dpcQueued,
         Hardware \/ Irq \/ Dpc
  PROVE  \/ /\ Raised(bits)'
            /\ UNCHANGED <<state, processed, transactionStatus, con, ien, stored, mode,
                           length, isLastMsg, txBuffer, rxBuffer, count, line, wire,
                           dpcQueued, waitEvent>>
         \/ IrqDispatch /\ isrIpd = bits /\ ipd = bits /\ todo = {} /\ UNCHANGED waitEvent
<1>1. todo = {} /\ ipd = bits /\ Irq
  BY NothingToDo DEF Raised, Dpc
<1>2. CASE isr = "idle"
  BY <1>1, <1>2, Entered DEF Raised
<1>3. CASE isr # "idle"
  <2>1. isr = "dispatch" /\ isrIpd = bits
    BY <1>3 DEF Raised
  <2>2. IrqDispatch
    BY <1>1, <2>1 DEF Irq, IrqEnter, IrqNak
  <2> QED
    BY <1>1, <2>1, <2>2 DEF IrqDispatch
<1> QED
  BY <1>2, <1>3

\* A refusal leads to a message that has failed.
LEMMA RefusedStep ==
  ASSUME TypeOK, Refused, state # "IDLE", ~dpcQueued, Hardware \/ Irq \/ Dpc
  PROVE  \/ transactionStatus' # "SUCCESS"
         \/ /\ Refused'
            /\ UNCHANGED <<state, processed, con, ien, stored, mode, length, dpcQueued,
                           waitEvent>>
<1>1. todo = {} /\ ipd = {"NAKRCV"} /\ Irq
  BY NothingToDo DEF Refused, Dpc
<1>2. CASE isr = "idle"
  BY <1>1, <1>2, Entered DEF Refused
<1>3. CASE isr # "idle"
  <2>1. isr = "nak"
    BY <1>3 DEF Refused
  <2>2. IrqNak
    BY <1>1, <2>1 DEF Irq, IrqEnter, IrqDispatch
  <2> QED
    BY <2>2 DEF IrqNak, Stop
<1> QED
  BY <1>2, <1>3

\* The message the thread is at does not change while it waits for it.
LEMMA SameMessage ==
  ASSUME UNCHANGED <<messages, current>>
  PROVE  Msg' = Msg
BY DEF Msg


LEMMA ToStartKeeps ==
  ASSUME ToStart, ~dpcQueued, ~waitEvent, Hardware \/ Irq \/ Dpc
  PROVE  thread = "waiting" /\ Started' /\ ~dpcQueued' /\ ~waitEvent'
<1>1. ~Dpc /\ ~Irq /\ Hardware
  BY NothingPending DEF Dpc, ToStart, AtRest, Told
<1>2. thread = "waiting" /\ Told("START")
  BY <1>1, NothingToDo DEF ToStart, AtRest
<1>3. HwStart
  BY <1>1, <1>2 DEF Hardware, HwSend, HwReceive, HwNak, HwStop, HwWorks, Told
<1>4. /\ todo' = {} /\ ipd' = {"START"} /\ wire' = <<>>
      /\ UNCHANGED <<state, processed, ien, stored, mode, length, isr, dpcQueued, waitEvent,
                     messages, current>>
  BY <1>2, <1>3 DEF HwStart, Told, msgVars, isrVars, thrVars
<1>5. ien = {"START"} /\ Begun /\ state = "START" /\ processed = 0 /\ stored = <<>>
  BY <1>2 DEF ToStart
<1>6. Started'
  BY <1>2, <1>4, <1>5, SameMessage DEF Started, Begun, Raised, Told
<1> QED
  BY <1>2, <1>4, <1>6

LEMMA StartedKeeps ==
  ASSUME TypeOK, Started, ~dpcQueued, ~waitEvent, Hardware \/ Irq \/ Dpc
  PROVE  \/ transactionStatus' # "SUCCESS"
         \/ Underway' /\ ~dpcQueued' /\ ~waitEvent'
<1>1. UNCHANGED <<messages, current>>
  BY ThreadApart
<1>2. /\ Begun /\ state = "START" /\ processed = 0 /\ stored = <<>> /\ wire = <<>>
      /\ ien = {"START"} /\ Raised({"START"})
  BY DEF Started
<1>3. CASE Raised({"START"})' /\ UNCHANGED <<state, processed, ien, stored, mode, length, wire,
                                             dpcQueued, waitEvent>>
  BY <1>1, <1>2, <1>3, SameMessage DEF Started, Begun, Underway
<1>4. CASE IrqDispatch /\ isrIpd = {"START"} /\ ipd = {"START"} /\ todo = {} /\ UNCHANGED waitEvent
  <2>1. PICK ok \in BOOLEAN : HandleStart(ok)
    BY <1>2, <1>4 DEF IrqDispatch, HandleWrite, HandleRead, HandleStop, HandleIdle
  <2>3. /\ isr' = "idle" /\ ipd' = {}
        /\ UNCHANGED <<mode, length, wire, stored, dpcQueued>>
    BY <1>4, <2>1 DEF IrqDispatch, HandleStart, msgVars
  <2>4. ASSUME mode = "write", transactionStatus' = "SUCCESS" PROVE Sending'
    <3>1. /\ ien' = {"MBTF", "NAKRCV"} /\ state' = "WRITE" /\ FillTransmitBuf(ok)
          /\ todo' = {"send"}
      BY <1>4, <2>1, <2>4 DEF HandleStart
    <3>2. wire \o txBuffer' = Sent(processed') /\ (processed' > 0 \/ length = 0)
      BY <1>2, <2>4, <3>1, FillOutcome, FilledNext
    <3> QED
      BY <1>1, <1>2, <2>3, <2>4, <3>1, <3>2, SameMessage DEF Sending, Begun, Told
  <2>5. ASSUME mode = "read" PROVE Receiving'
    <3>1. /\ ien' = {"MBRF", "NAKRCV"} /\ state' = "READ" /\ todo' = {"receive"}
          /\ count' = Lesser(length - processed, Chunk) /\ UNCHANGED processed
      BY <1>4, <2>1, <2>5 DEF HandleStart, PrepareRead
    <3>2. stored' = Payload(processed') /\ wire' = Payload(processed')
      BY <1>2, <2>3, <3>1, NothingRead
    <3>3. count' = Lesser(length - processed, Chunk)'
      BY <2>3, <3>1 DEF Lesser
    <3> QED
      BY <1>1, <1>2, <2>3, <2>5, <3>1, <3>2, <3>3, SameMessage DEF Receiving, Begun, Told
  <2> QED
    BY <1>4, <2>3, <2>4, <2>5 DEF TypeOK, Underway
<1> QED
  BY <1>2, <1>3, <1>4, RaisedStep

LEMMA SendingKeeps ==
  ASSUME TypeOK, Sending, ~dpcQueued, ~waitEvent, transactionStatus = "SUCCESS",
         Hardware \/ Irq \/ Dpc
  PROVE  \/ transactionStatus' # "SUCCESS"
         \/ Underway' /\ ~dpcQueued' /\ ~waitEvent'
<1>1. UNCHANGED <<messages, current>>
  BY ThreadApart
<1>2. /\ Begun /\ mode = "write" /\ state = "WRITE" /\ ien = {"MBTF", "NAKRCV"}
      /\ processed > 0 \/ length = 0
  BY DEF Sending
<1>3. CASE Told("send") /\ wire \o txBuffer = Sent(processed)
  <2>1. Hardware
    BY <1>3, NothingPending DEF Told, Dpc
  <2>2. HwSend \/ HwNak
    BY <1>3, <2>1 DEF Hardware, HwStart, HwReceive, HwStop, HwWorks, Told
  <2>3. /\ UNCHANGED <<state, mode, length, processed, ien, isr, dpcQueued, waitEvent>>
        /\ todo' = {}
    BY <1>3, <2>2 DEF HwSend, HwNak, HwWorks, Told, msgVars, isrVars
  <2>4. \/ ipd' = {"MBTF"} /\ wire' = Sent(processed)
        \/ ipd' = {"NAKRCV"}
    BY <1>3, <2>2 DEF HwSend, HwNak, Told
  <2>5. \/ Raised({"MBTF"})' /\ wire' = Sent(processed)'
        \/ Refused'
    BY <1>3, <2>3, <2>4 DEF Raised, Refused, Told, Sent, Payload
  <2>6. Sending'
    BY <1>1, <1>2, <2>3, <2>5, SameMessage DEF Sending, Begun
  <2> QED
    BY <2>3, <2>6 DEF Underway
<1>4. CASE Raised({"MBTF"}) /\ wire = Sent(processed)
  <2>1. CASE Raised({"MBTF"})' /\ UNCHANGED <<state, processed, ien, mode, length, wire,
                                              dpcQueued, waitEvent>>
    <3>1. wire' = Sent(processed)'
      BY <1>4, <2>1 DEF Sent, Payload
    <3> QED
      BY <1>1, <1>2, <2>1, <3>1, SameMessage DEF Sending, Begun, Underway
  <2>2. CASE IrqDispatch /\ isrIpd = {"MBTF"} /\ ipd = {"MBTF"} /\ todo = {}
             /\ UNCHANGED waitEvent
    <3>1. PICK ok \in BOOLEAN : HandleWrite(ok)
      BY <1>2, <2>2 DEF IrqDispatch, HandleStart, HandleRead, HandleStop, HandleIdle
    <3>3. isr' = "idle" /\ ipd' = {} /\ UNCHANGED <<mode, line, wire, stored>>
      BY <2>2, <3>1 DEF IrqDispatch, HandleWrite, msgVars
    <3>4. CASE Finished
      <4>1. Stop(transactionStatus, TRUE)
        BY <2>2, <3>1, <3>4 DEF HandleWrite
      <4>2. state' = "STOP" /\ ien' = {"STOP"} /\ todo' \subseteq {"STOP"} /\ UNCHANGED dpcQueued
        BY <2>2, <4>1, LastTyped
      <4>3. processed = length
        BY <3>4 DEF Finished, TypeOK
      <4>4. Full'
        BY <1>1, <1>2, <1>4, <3>3, <4>3, SameMessage DEF Full, Begun, Sent, Payload
      <4> QED
        BY <2>2, <3>3, <4>2, <4>4 DEF Stopping, Underway
    <3>5. CASE ~Finished
      <4>1. /\ FillTransmitBuf(ok) /\ todo' = {"send"}
            /\ UNCHANGED <<state, ien, length, dpcQueued>>
        BY <2>2, <3>1, <3>5 DEF HandleWrite, msgVars
      <4>2. processed # 0
        BY <1>2, <3>5 DEF Finished, TypeOK
      <4>3. ASSUME transactionStatus' = "SUCCESS" PROVE Sending'
        <5>1. wire \o txBuffer' = Sent(processed') /\ (processed' > 0 \/ length = 0)
          BY <1>4, <4>1, <4>2, <4>3, FillOutcome, FilledNext
        <5> QED
          BY <1>1, <1>2, <3>3, <4>1, <5>1, SameMessage DEF Sending, Begun, Told, Sent, Payload
      <4> QED
        BY <2>2, <4>1, <4>3 DEF Underway
    <3> QED
      BY <3>4, <3>5
  <2> QED
    BY <1>2, <1>4, <2>1, <2>2, RaisedStep
<1>5. CASE Refused
  <2>1. Refused' /\ UNCHANGED <<state, processed, ien, mode, length, dpcQueued, waitEvent>>
        => Sending'
    BY <1>1, <1>2, SameMessage DEF Sending, Begun
  <2> QED
    BY <1>2, <1>5, <2>1, RefusedStep DEF Underway
<1> QED
  BY <1>3, <1>4, <1>5 DEF Sending


LEMMA ReceivingKeeps ==
  ASSUME TypeOK, Receiving, ~dpcQueued, ~waitEvent, transactionStatus = "SUCCESS",
         Hardware \/ Irq \/ Dpc
  PROVE  \/ transactionStatus' # "SUCCESS"
         \/ Underway' /\ ~dpcQueued' /\ ~waitEvent'
<1> DEFINE len == Lesser(length - processed, Chunk)
           data == [i \in 1..len |-> processed + i - 1]
<1>1. UNCHANGED <<messages, current>>
  BY ThreadApart
<1>2. /\ Begun /\ mode = "read" /\ state = "READ" /\ ien = {"MBRF", "NAKRCV"}
      /\ stored = Payload(processed)
  BY DEF Receiving
<1>3. length - processed \in Nat /\ processed \in Nat /\ length \in Nat
  BY DEF TypeOK
<1>4. /\ len \in Nat /\ len <= length - processed /\ len <= Chunk
      /\ processed + len < length => len > 0
  BY <1>3, ConstantsAssumption, LesserOf
<1>5. CASE Told("receive") /\ count = len /\ wire = Payload(processed)
  <2>1. Hardware
    BY <1>5, NothingPending DEF Told, Dpc
  <2>2. HwReceive \/ HwNak
    BY <1>5, <2>1 DEF Hardware, HwStart, HwSend, HwStop, HwWorks, Told
  <2>3. /\ UNCHANGED <<state, mode, length, processed, ien, isr, stored, dpcQueued, waitEvent>>
        /\ todo' = {}
    BY <1>5, <2>2 DEF HwReceive, HwNak, HwWorks, Told, msgVars, isrVars
  <2>4. CASE HwNak
    <3>1. Refused'
      BY <1>5, <2>3, <2>4 DEF HwNak, Refused, Told
    <3> QED
      BY <1>1, <1>2, <2>3, <3>1, SameMessage DEF Receiving, Begun, Underway, Payload
  <2>5. CASE HwReceive
    <3>1. Len(wire) = processed
      BY <1>3, <1>5 DEF Payload
    <3>2. rxBuffer' = [i \in 1..Chunk |-> IF i <= len THEN processed + i - 1 ELSE rxBuffer[i]]
      BY <1>5, <2>5, <3>1 DEF HwReceive
    <3>3. /\ SubSeq(rxBuffer', 1, len) = data
          /\ Payload(processed) \o SubSeq(rxBuffer', 1, len) = Payload(processed + len)
      BY <1>3, <1>4, <3>2, ReceivedNext
    <3>4. wire' = Payload(processed + len) /\ ipd' = {"MBRF", "START"}
      BY <1>5, <2>5, <3>3 DEF HwReceive, Told
    <3>5. Raised({"MBRF", "START"})'
      BY <1>5, <2>3, <3>4 DEF Raised, Told
    <3> QED
      BY <1>1, <1>2, <2>3, <3>3, <3>4, <3>5, SameMessage
      DEF Receiving, Begun, Underway, Payload, Lesser
  <2> QED
    BY <2>2, <2>4, <2>5
<1>6. CASE /\ Raised({"MBRF", "START"}) /\ wire = Payload(processed + len)
           /\ SubSeq(rxBuffer, 1, len) = data
  <2>1. CASE Raised({"MBRF", "START"})'
             /\ UNCHANGED <<state, processed, ien, stored, mode, length, rxBuffer, wire,
                            dpcQueued, waitEvent>>
    BY <1>1, <1>2, <1>6, <2>1, SameMessage DEF Receiving, Begun, Underway, Payload, Lesser
  <2>2. CASE IrqDispatch /\ isrIpd = {"MBRF", "START"} /\ ipd = {"MBRF", "START"}
             /\ todo = {} /\ UNCHANGED waitEvent
    <3>1. PICK ok \in BOOLEAN : HandleRead(ok)
      BY <1>2, <2>2 DEF IrqDispatch, HandleStart, HandleWrite, HandleStop, HandleIdle
    <3>2. isr' = "idle" /\ ipd' = {} /\ UNCHANGED <<mode, line, wire, rxBuffer>>
      BY <2>2, <3>1 DEF IrqDispatch, HandleRead, ReadAck, msgVars, buffers
    <3>3. CASE ~ok
      BY <2>2, <3>1, <3>3 DEF HandleRead, Stop, Fetched
    <3>4. ASSUME ok PROVE Underway' /\ ~dpcQueued' /\ ~waitEvent'
      <4>1. stored' = Payload(processed + len)
        <5>1. stored' = stored \o data
          BY <1>6, <2>2, <3>1, <3>4 DEF HandleRead, Stored
        <5> QED
          BY <1>2, <1>3, <1>4, <5>1, BytesGrow
      <4>2. CASE processed + len >= length
        <5>1. ~(processed + len < length)
          BY <1>3, <1>4, <4>2
        <5>2. Stop(Fetched(ok), TRUE)
          BY <2>2, <3>1, <3>4, <5>1 DEF HandleRead
        <5>3. state' = "STOP" /\ ien' = {"STOP"} /\ todo' \subseteq {"STOP"} /\ UNCHANGED dpcQueued
          BY <2>2, <5>2, LastTyped
        <5>4. processed + len = length
          BY <1>3, <1>4, <4>2
        <5>5. Full'
          BY <1>1, <1>2, <1>6, <3>2, <4>1, <5>4, SameMessage DEF Full, Begun, Payload
        <5> QED
          BY <2>2, <3>2, <5>3, <5>5 DEF Stopping, Underway
      <4>3. CASE ~(processed + len >= length)
        <5>1. /\ processed' = processed + len /\ todo' = {"receive"}
              /\ count' = Lesser(length - (processed + len), Chunk)
              /\ UNCHANGED <<state, ien, length, dpcQueued>>
          BY <2>2, <3>1, <3>4, <4>3 DEF HandleRead, PrepareRead, msgVars
        <5>2. count' = len'
          BY <5>1 DEF Lesser
        <5>3. stored' = Payload(processed)' /\ wire' = Payload(processed)'
          BY <1>6, <3>2, <4>1, <5>1 DEF Payload
        <5>4. Told("receive")'
          BY <3>2, <5>1 DEF Told
        <5> QED
          BY <1>1, <1>2, <2>2, <3>2, <5>1, <5>2, <5>3, <5>4, SameMessage
          DEF Receiving, Begun, Underway
      <4> QED
        BY <4>2, <4>3
    <3> QED
      BY <3>3, <3>4
  <2> QED
    BY <1>2, <1>6, <2>1, <2>2, RaisedStep
<1>7. CASE Refused
  <2>1. Refused' /\ UNCHANGED <<state, processed, ien, stored, mode, length, dpcQueued, waitEvent>>
        => Receiving'
    BY <1>1, <1>2, SameMessage DEF Receiving, Begun, Payload
  <2> QED
    BY <1>2, <1>7, <2>1, RefusedStep DEF Underway
<1> QED
  BY <1>5, <1>6, <1>7 DEF Receiving

LEMMA StoppingKeeps ==
  ASSUME TypeOK, Stopping, ~dpcQueued, ~waitEvent, Hardware \/ Irq \/ Dpc
  PROVE  \/ Underway' /\ ~dpcQueued' /\ ~waitEvent'
         \/ Ended'
<1>1. UNCHANGED <<messages, current>>
  BY ThreadApart
<1>2. state = "STOP" /\ ien = {"STOP"} /\ Full
  BY DEF Stopping
<1>3. UNCHANGED <<wire, stored>> => Full'
  BY <1>1, <1>2, SameMessage DEF Full, Sent, Payload
<1>4. CASE todo \subseteq {"STOP"} /\ ipd = {} /\ isr = "idle"
  <2>1. Hardware
    BY <1>4, NothingPending DEF Dpc
  <2>2. HwStop
    BY <1>4, <2>1 DEF Hardware, HwStart, HwSend, HwReceive, HwNak, HwWorks
  <2>3. /\ todo' = {} /\ ipd' = {"STOP"} /\ line' = "free"
        /\ UNCHANGED <<state, ien, isr, wire, stored, dpcQueued, waitEvent>>
    BY <1>4, <2>2 DEF HwStop, isrVars
  <2>4. Raised({"STOP"})'
    BY <1>4, <2>3 DEF Raised
  <2> QED
    BY <1>2, <1>3, <2>3, <2>4 DEF Stopping, Underway
<1>5. CASE line = "free" /\ Raised({"STOP"})
  <2>1. CASE Raised({"STOP"})' /\ UNCHANGED <<state, ien, line, wire, stored, dpcQueued, waitEvent>>
    BY <1>2, <1>3, <1>5, <2>1 DEF Stopping, Underway
  <2>2. CASE IrqDispatch /\ isrIpd = {"STOP"} /\ ipd = {"STOP"} /\ todo = {}
    <3>1. HandleStop
      BY <1>2, <2>2 DEF IrqDispatch, HandleStart, HandleWrite, HandleRead, HandleIdle
    <3>2. /\ state' = "IDLE" /\ ipd' = {} /\ isr' = "idle" /\ todo' = {}
          /\ UNCHANGED <<line, wire, stored>>
      BY <2>2, <3>1 DEF IrqDispatch, HandleStop, WriteCon
    <3> QED
      BY <1>3, <1>5, <3>2 DEF Ended
  <2> QED
    BY <1>2, <1>5, <2>1, <2>2, RaisedStep
<1> QED
  BY <1>4, <1>5 DEF Stopping

LEMMA EndedKeeps ==
  ASSUME Ended, Hardware \/ Irq \/ Dpc
  PROVE  Ended'
<1>1. Dpc
  BY NothingToDo, NothingPending DEF Ended
<1>2. UNCHANGED <<state, todo, ipd, isr, line, wire, stored>>
  BY <1>1 DEF Dpc, hwVars, isrVars
<1> QED
  BY <1>2, ThreadApart, SameMessage DEF Ended, Full, Sent, Payload


-----------------------------------------------------------------------------
(* Every step keeps the stages.                                            *)

LEMMA EngineKeepsStage ==
  ASSUME TypeOK, StageOK, Hardware \/ Irq \/ Dpc
  PROVE  StageOK'
<1>1. UNCHANGED <<thread, messages, current, status, left>>
  BY ThreadApart
<1> SUFFICES ASSUME left = {} PROVE StageOK'
  BY <1>1 DEF StageOK
<1>2. thread # "setup"
  BY NothingToDo, NothingPending DEF StageOK, AtRest, Dpc
<1>3. CASE thread \in {"enable", "start", "waiting"}
  <2>1. [Next]_vars /\ ~Setup
    BY <1>1, <1>3 DEF Next, Setup, ThreadGoto
  <2>2. transactionStatus # "SUCCESS" => transactionStatus' # "SUCCESS"
    BY <2>1, FailureStays
  <2>3. CASE transactionStatus # "SUCCESS"
    BY <1>1, <1>3, <2>2, <2>3 DEF StageOK, InProgress
  <2>4. CASE transactionStatus = "SUCCESS"
    <3>1. InProgress
      BY <1>3 DEF StageOK
    <3>2. CASE ToStart /\ ~waitEvent /\ ~dpcQueued
      BY <1>1, <3>2, ToStartKeeps DEF StageOK, InProgress, Underway
    <3>3. CASE thread = "waiting" /\ Underway /\ ~waitEvent /\ ~dpcQueued
      <4>1. \/ transactionStatus' # "SUCCESS"
            \/ Underway' /\ ~dpcQueued' /\ ~waitEvent'
            \/ Ended'
        BY <2>4, <3>3, StartedKeeps, SendingKeeps, ReceivingKeeps, StoppingKeeps DEF Underway
      <4> QED
        BY <1>1, <3>3, <4>1 DEF StageOK, InProgress
    <3>4. CASE thread = "waiting" /\ Ended
      BY <1>1, <3>4, EndedKeeps DEF StageOK, InProgress
    <3> QED
      BY <2>4, <3>1, <3>2, <3>3, <3>4 DEF InProgress
  <2> QED
    BY <2>3, <2>4
<1>4. CASE thread \notin {"enable", "start", "waiting"}
  BY <1>1, <1>2, <1>4, EndedKeeps DEF StageOK
<1> QED
  BY <1>3, <1>4

LEMMA ThreadKeepsStage ==
  ASSUME TypeOK, StageOK, Thread \/ GiveUp
  PROVE  StageOK'
<1>1. CASE ClearEvent
  <2>1. /\ thread' = "setup" /\ waitEvent' = FALSE /\ stored' = <<>> /\ left' = Leftovers
        /\ UNCHANGED <<todo, ipd, isr, dpcQueued>>
    BY <1>1 DEF ClearEvent, ThreadGoto, hwVars, isrVars
  <2>2. ASSUME Leftovers = {} PROVE AtRest
    <3>1. "bits" \notin Leftovers /\ "controller" \notin Leftovers /\ "isr" \notin Leftovers
          /\ "dpc" \notin Leftovers
      BY <2>2
    <3> QED
      BY <3>1 DEF Leftovers, AtRest
  <2> QED
    BY <2>1, <2>2 DEF StageOK, AtRest
<1>2. CASE Setup
  <2>1. /\ thread = "setup" /\ thread' = "enable" /\ state' = "START" /\ processed' = 0
        /\ mode' = Msg.dir /\ length' = Msg.len
        /\ UNCHANGED <<ien, ipd, todo, isr, dpcQueued, waitEvent, stored, messages, current, left>>
    BY <1>2 DEF Setup, ThreadGoto, hwVars, isrVars
  <2>2. left = {} => AtRest /\ ~waitEvent /\ stored = <<>>
    BY <2>1 DEF StageOK
  <2>3. left' = {} => ToStart' /\ ~waitEvent' /\ ~dpcQueued'
    BY <2>1, <2>2, SameMessage DEF ToStart, Begun, AtRest
  <2> QED
    BY <2>1, <2>3 DEF StageOK, InProgress
<1>3. CASE StartEnable
  <2>1. /\ thread = "enable" /\ thread' = "start" /\ ien' = {"START"}
        /\ UNCHANGED <<state, processed, transactionStatus, ipd, stored, mode, length, todo, isr,
                       dpcQueued, waitEvent, messages, current, left>>
    BY <1>3 DEF StartEnable, ThreadGoto, msgVars, hwVars, isrVars
  <2> QED
    BY <2>1, SameMessage DEF StageOK, InProgress, ToStart, Begun, AtRest
<1>4. CASE Start
  <2>1. /\ thread = "start" /\ thread' = "waiting" /\ WriteCon({"START"})
        /\ UNCHANGED <<state, processed, transactionStatus, ien, ipd, stored, mode, length, isr,
                       dpcQueued, waitEvent, messages, current, left>>
    BY <1>4 DEF Start, ThreadGoto, msgVars, isrVars
  <2>2. todo = {} => todo' = {} \/ todo' = {"START"}
    BY <2>1 DEF WriteCon
  <2>3. ToStart => ToStart'
    BY <2>1, <2>2, SameMessage DEF ToStart, Begun, AtRest, Told
  <2> QED
    BY <2>1, <2>3 DEF StageOK, InProgress
<1>5. CASE Wake
  <2>1. /\ thread = "waiting" /\ thread' = "returned" /\ waitEvent
        /\ status' = transactionStatus
        /\ UNCHANGED <<state, todo, ipd, isr, line, wire, stored, messages, current, left>>
    BY <1>5 DEF Wake, ThreadGoto, hwVars, isrVars
  <2>2. left = {} /\ transactionStatus = "SUCCESS" => Ended
    BY <2>1 DEF StageOK, InProgress
  <2>3. Ended => Ended'
    BY <2>1, SameMessage DEF Ended, Full, Sent, Payload
  <2> QED
    BY <2>1, <2>2, <2>3 DEF StageOK
<1>6. CASE NextMessage
  BY <1>6 DEF NextMessage, ThreadGoto, StageOK
<1>7. CASE Timeout \/ TimeoutMask \/ TimeoutForce
  BY <1>7 DEF Timeout, TimeoutMask, TimeoutForce, ThreadGoto, StageOK
<1>8. CASE TimeoutGiveUp
  BY <1>8 DEF TimeoutGiveUp, ThreadGoto, StageOK
<1> QED
  BY <1>1, <1>2, <1>3, <1>4, <1>5, <1>6, <1>7, <1>8 DEF Thread, GiveUp

LEMMA StageKept ==
  ASSUME TypeOK, StageOK, [Next]_vars
  PROVE  StageOK'
<1>1. CASE UNCHANGED vars
  <2>1. UNCHANGED <<state, mode, length, processed, transactionStatus, ien, ipd, txBuffer, rxBuffer,
                    count, todo, line, wire, stored, isr, isrIpd, dpcQueued, waitEvent, thread,
                    messages, current, status, left>>
    BY <1>1 DEF vars, msgVars, hwVars, buffers, isrVars, thrVars
  <2>2. (Begun' <=> Begun) /\ (Full' <=> Full) /\ (AtRest' <=> AtRest) /\ (Refused' <=> Refused)
    BY <2>1, SameMessage DEF Begun, Full, AtRest, Refused, Sent, Payload
  <2>3. (ToStart' <=> ToStart) /\ (Started' <=> Started) /\ (Stopping' <=> Stopping)
        /\ (Ended' <=> Ended)
    BY <2>1, <2>2 DEF ToStart, Started, Stopping, Ended, Told, Raised
  <2>4. Sending' <=> Sending
    BY <2>1, <2>2 DEF Sending, Told, Raised, Sent, Payload
  <2>5. Receiving' <=> Receiving
    BY <2>1, <2>2 DEF Receiving, Told, Raised, Payload, Lesser
  <2>6. InProgress' <=> InProgress
    BY <2>1, <2>3, <2>4, <2>5 DEF InProgress, Underway
  <2> QED
    BY <2>1, <2>2, <2>3, <2>6 DEF StageOK
<1> QED
  BY <1>1, EngineKeepsStage, ThreadKeepsStage DEF Next

LEMMA InitStage ==
  Init => Signalled /\ StageOK
BY DEF Init, Signalled, StageOK

(* The inductive invariant holds in every reachable state.                 *)
THEOREM Invariance == Spec => []IInv
<1>1. Init => IInv
  BY InitTyped, InitStage DEF IInv
<1>2. IInv /\ [Next]_vars => IInv'
  BY TypeKept, SignalKept, StageKept DEF IInv
<1> QED
  BY <1>1, <1>2, PTL DEF Spec

(* A message that starts with nothing left over and is reported successful   *)
(* has been transferred (i2c_xfer_single, rk3x_i2c_irq), for messages and    *)
(* buffers of any length and any number of messages that time out before.   *)
THEOREM SuccessComplete == Spec => []SuccessIsComplete
<1>1. IInv => SuccessIsComplete
  BY DEF IInv, StageOK, SuccessIsComplete, Ended, Full, Transferred, Sent
<1> QED
  BY <1>1, Invariance, PTL

-----------------------------------------------------------------------------
(* The timings of SCL.                                                     *)

\* A quotient rounded up.
LEMMA DivUpIs ==
  ASSUME NEW n \in Int, NEW d \in Nat, d > 0
  PROVE  /\ DivUp(n, d) \in Int
         /\ n <= d * DivUp(n, d) /\ d * (DivUp(n, d) - 1) < n
BY DEF DivUp

\* What a product is compared with, its factors are.
LEMMA Times ==
  ASSUME NEW a \in Int, NEW b \in Int, NEW c \in Nat, c > 0
  PROVE  /\ a <= b <=> c * a <= c * b
         /\ a < b <=> c * a < c * b
OBVIOUS

LEMMA DivUpPositive ==
  ASSUME NEW n \in Int, NEW d \in Nat, d > 0, n > 0
  PROVE  DivUp(n, d) \in Nat /\ DivUp(n, d) >= 1
<1>1. PICK q : q = DivUp(n, d)
  OBVIOUS
<1>2. q \in Int /\ n <= d * q
  BY <1>1, DivUpIs
<1>3. d * 0 < d * q
  BY <1>2
<1>4. 0 < q
  BY <1>2, <1>3, Times
<1> QED
  BY <1>1, <1>2, <1>4

LEMMA DivUpBelow ==
  ASSUME NEW n \in Int, NEW d \in Nat, d > 0, NEW m \in Int
  PROVE  DivUp(n, d) < m <=> n <= d * (m - 1)
<1>1. PICK q : q = DivUp(n, d)
  OBVIOUS
<1>2. q \in Int /\ n <= d * q /\ d * (q - 1) < n
  BY <1>1, DivUpIs
<1>3. ASSUME q < m PROVE n <= d * (m - 1)
  <2>1. d * q <= d * (m - 1)
    BY <1>2, <1>3, Times
  <2>2. d * q \in Int /\ d * (m - 1) \in Int
    BY <1>2
  <2> QED
    BY <2>1, <2>2, <1>2
<1>4. ASSUME n <= d * (m - 1) PROVE q < m
  <2>1. d * (q - 1) \in Int /\ d * (m - 1) \in Int
    BY <1>2
  <2>2. d * (q - 1) < d * (m - 1)
    BY <2>1, <1>2, <1>4
  <2>3. q - 1 < m - 1
    BY <2>2, <1>2, Times
  <2> QED
    BY <2>3, <1>2
<1> QED
  BY <1>1, <1>3, <1>4

LEMMA DivUpAbove ==
  ASSUME NEW n \in Int, NEW d \in Nat, d > 0, NEW m \in Int
  PROVE  DivUp(n, d) > m <=> n > d * m
<1>1. DivUp(n, d) < m + 1 <=> n <= d * ((m + 1) - 1)
  BY DivUpBelow
<1>2. (m + 1) - 1 = m
  OBVIOUS
<1>3. DivUp(n, d) \in Int /\ d * m \in Int
  BY DivUpIs
<1> QED
  BY <1>1, <1>2, <1>3

\* The phases are no shorter than their minima, and as long as asked for
\* together; the surplus of the low one is its share, rounded up.
LEMMA DividersAre ==
  ASSUME NEW low \in Nat, NEW high \in Nat, NEW total \in Nat, low >= 1, high >= 1,
         NEW d, d = Dividers(low, high, total)
  PROVE  /\ d.low \in Nat /\ d.high \in Nat /\ low <= d.low /\ high <= d.high
         /\ d.low + d.high >= total
         /\ low + high >= total => d.low = low /\ d.high = high
         /\ low + high < total => (d.low - 1) * (low + high) < low * total /\ d.low + d.high = total
<1>1. CASE low + high >= total
  <2>1. Dividers(low, high, total) = [low |-> low, high |-> high]
    BY <1>1 DEF Dividers
  <2> QED
    BY <1>1, <2>1
<1>2. CASE low + high < total
  <2>1. PICK m, x, e : m = low + high /\ x = total - m /\ e = DivUp(low * x, m)
    OBVIOUS
  <2>2. m \in Nat /\ m > 0 /\ x \in Nat /\ x >= 1 /\ low < m /\ total = m + x
    BY <2>1, <1>2
  <2>3. low * x \in Int
    BY <2>2
  <2>4. e \in Int /\ low * x <= m * e /\ m * (e - 1) < low * x
    BY <2>1, <2>2, <2>3, DivUpIs
  <2>5. low * x <= m * x
    <3>1. x * low <= x * m
      BY <2>2, Times
    <3> QED
      BY <3>1, <2>2
  <2>6. e - 1 < x
    <3>1. m * (e - 1) < m * x
      BY <2>2, <2>3, <2>4, <2>5
    <3> QED
      BY <3>1, <2>2, <2>4, Times
  <2>7. e >= 0
    <3>1. 0 <= low * x
      BY <2>2
    <3>2. m * 0 <= m * e
      BY <3>1, <2>2, <2>3, <2>4
    <3> QED
      BY <3>2, <2>2, <2>4, Times
  <2>8. (low + e - 1) * m < low * total
    <3>1. (low + e - 1) * m = low * m + m * (e - 1)
      BY <2>2, <2>4
    <3>2. low * total = low * m + low * x
      BY <2>2
    <3> QED
      BY <3>1, <3>2, <2>2, <2>3, <2>4
  <2>9. Dividers(low, high, total) = [low |-> low + e, high |-> high + (x - e)]
    BY <1>2, <2>1, <2>2 DEF Dividers
  <2> QED
    BY <1>2, <2>1, <2>2, <2>4, <2>6, <2>7, <2>8, <2>9
<1> QED
  BY <1>1, <1>2


\* A low phase that is a share of the total is no longer than that share of it.
LEMMA ShareIs ==
  ASSUME NEW l \in Nat, NEW low \in Nat, NEW m \in Nat, NEW total \in Nat, NEW a \in Nat,
         m > 0, total > 0, 100 * low <= a * m, (l - 1) * m < low * total
  PROVE  100 * (l - 1) <= a * total
<1>1. 100 * ((l - 1) * m) < 100 * (low * total)
  <2>1. (l - 1) * m \in Int /\ low * total \in Int
    OBVIOUS
  <2> QED
    BY <2>1
<1>2. total * (100 * low) <= total * (a * m)
  <2>1. 100 * low \in Int /\ a * m \in Int
    OBVIOUS
  <2> QED
    BY <2>1, Times
<1>3. /\ 100 * ((l - 1) * m) = m * (100 * (l - 1))
      /\ 100 * (low * total) = total * (100 * low)
      /\ total * (a * m) = m * (a * total)
  OBVIOUS
<1>4. PICK x, y, u, v : x = 100 * (l - 1) /\ y = a * total /\ u = m * x /\ v = m * y
  OBVIOUS
<1>5. x \in Int /\ y \in Int /\ u \in Int /\ v \in Int
  BY <1>4
<1>6. PICK w : w = total * (100 * low) /\ w \in Int
  OBVIOUS
<1>7. u < w /\ w <= v
  BY <1>1, <1>2, <1>3, <1>4, <1>6
<1>8. m * x < m * y
  BY <1>4, <1>5, <1>6, <1>7
<1>9. x < y
  BY <1>5, <1>8, Times
<1> QED
  BY <1>4, <1>5, <1>9

\* The low phase is short enough to hold the data for its first step.
\* The minima, the total and the low phase, for a rate of at least g kHz.
Minima(k, w, v, g, low, high, total, l) ==
  /\ k * w <= 8000000 * low /\ 8000000 * (low - 1) < k * w /\ low >= 1
  /\ k * v <= 8000000 * high /\ 8000000 * (high - 1) < k * v /\ high >= 1
  /\ (8 * g) * (total - 1) < k /\ total >= 1
  /\ l = low \/ (l - 1) * (low + high) < low * total

LEMMA HoldsStandard ==
  ASSUME NEW k \in Nat, k >= MinClockKhz, k <= MaxClockKhz,
         NEW low \in Nat, NEW high \in Nat, NEW total \in Nat, NEW l \in Nat,
         Minima(k, 5000, 5000, 50, low, high, total, l)
  PROVE  (l + 1) * 1000000 <= 3449 * k
<1>1. /\ k \in Nat /\ k >= 26667 /\ k <= 200000
      /\ 5000 * k <= 8000000 * low /\ 8000000 * (low - 1) < 5000 * k /\ low >= 1
      /\ 5000 * k <= 8000000 * high /\ 8000000 * (high - 1) < 5000 * k /\ high >= 1
      /\ 400 * (total - 1) < k /\ total >= 1
  BY DEF MinClockKhz, MaxClockKhz, Minima
<1>2. CASE l = low
  BY <1>1, <1>2
<1>3. CASE (l - 1) * (low + high) < low * total
  <2>1. PICK m : m = low + high /\ m \in Nat /\ m > 0
    BY <1>1
  <2>2. 100 * low <= 54 * m
    BY <1>1, <2>1
  <2>3. 100 * (l - 1) <= 54 * total
    BY <1>1, <1>3, <2>1, <2>2, ShareIs
  <2> QED
    BY <1>1, <2>3
<1> QED
  BY <1>2, <1>3 DEF Minima

LEMMA HoldsPlus ==
  ASSUME NEW k \in Nat, k >= MinClockKhz, k <= MaxClockKhz,
         NEW low \in Nat, NEW high \in Nat, NEW total \in Nat, NEW l \in Nat,
         Minima(k, 620, 380, 400, low, high, total, l)
  PROVE  (l + 1) * 1000000 <= 399 * k
<1>1. /\ k \in Nat /\ k >= 26667 /\ k <= 200000
      /\ 620 * k <= 8000000 * low /\ 8000000 * (low - 1) < 620 * k /\ low >= 1
      /\ 380 * k <= 8000000 * high /\ 8000000 * (high - 1) < 380 * k /\ high >= 1
      /\ 3200 * (total - 1) < k /\ total >= 1
  BY DEF MinClockKhz, MaxClockKhz, Minima
<1>2. CASE l = low
  BY <1>1, <1>2
<1>3. CASE (l - 1) * (low + high) < low * total
  <2>1. PICK m : m = low + high /\ m \in Nat /\ m > 0
    BY <1>1
  <2>2. 100 * low <= 92 * m
    BY <1>1, <2>1
  <2>3. 100 * (l - 1) <= 92 * total
    BY <1>1, <1>3, <2>1, <2>2, ShareIs
  <2> QED
    BY <1>1, <2>3
<1> QED
  BY <1>2, <1>3 DEF Minima

\* In fast mode the share alone is too coarse below 74 MHz, where there are
\* few minima.
LEMMA HoldsFast ==
  ASSUME NEW k \in Nat, k >= MinClockKhz, k <= MaxClockKhz,
         NEW low \in Nat, NEW high \in Nat, NEW total \in Nat, NEW l \in Nat,
         Minima(k, 1600, 900, 100, low, high, total, l)
  PROVE  (l + 1) * 1000000 <= 899 * k
<1>1. /\ k \in Nat /\ k >= 26667 /\ k <= 200000
      /\ 1600 * k <= 8000000 * low /\ 8000000 * (low - 1) < 1600 * k /\ low >= 1
      /\ 900 * k <= 8000000 * high /\ 8000000 * (high - 1) < 900 * k /\ high >= 1
      /\ 800 * (total - 1) < k /\ total >= 1
  BY DEF MinClockKhz, MaxClockKhz, Minima
<1>2. CASE l = low
  BY <1>1, <1>2
<1>3. CASE (l - 1) * (low + high) < low * total /\ k >= 74000
  <2>1. PICK m : m = low + high /\ m \in Nat /\ m > 0
    BY <1>1
  <2>2. 100 * low <= 69 * m
    BY <1>1, <1>3, <2>1
  <2>3. 100 * (l - 1) <= 69 * total
    BY <1>1, <1>3, <2>1, <2>2, ShareIs
  <2> QED
    BY <1>1, <1>3, <2>3
<1>4. CASE (l - 1) * (low + high) < low * total /\ k < 74000
  <2>1. CASE low = 6 /\ high = 4
    <3>1. 10 * (l - 1) < 6 * total
      BY <1>4, <2>1
    <3> QED
      BY <3>1, <2>1, <1>1
  <2>2. CASE low = 7 /\ high = 4
    <3>1. 11 * (l - 1) < 7 * total
      BY <1>4, <2>2
    <3> QED
      BY <3>1, <2>2, <1>1
  <2>3. CASE low = 8 /\ high = 4
    <3>1. 12 * (l - 1) < 8 * total
      BY <1>4, <2>3
    <3> QED
      BY <3>1, <2>3, <1>1
  <2>4. CASE low = 8 /\ high = 5
    <3>1. 13 * (l - 1) < 8 * total
      BY <1>4, <2>4
    <3> QED
      BY <3>1, <2>4, <1>1
  <2>5. CASE low = 9 /\ high = 5
    <3>1. 14 * (l - 1) < 9 * total
      BY <1>4, <2>5
    <3> QED
      BY <3>1, <2>5, <1>1
  <2>6. CASE low = 9 /\ high = 6
    <3>1. 15 * (l - 1) < 9 * total
      BY <1>4, <2>6
    <3> QED
      BY <3>1, <2>6, <1>1
  <2>7. CASE low = 10 /\ high = 6
    <3>1. 16 * (l - 1) < 10 * total
      BY <1>4, <2>7
    <3> QED
      BY <3>1, <2>7, <1>1
  <2>8. CASE low = 11 /\ high = 6
    <3>1. 17 * (l - 1) < 11 * total
      BY <1>4, <2>8
    <3> QED
      BY <3>1, <2>8, <1>1
  <2>9. CASE low = 11 /\ high = 7
    <3>1. 18 * (l - 1) < 11 * total
      BY <1>4, <2>9
    <3> QED
      BY <3>1, <2>9, <1>1
  <2>10. CASE low = 12 /\ high = 7
    <3>1. 19 * (l - 1) < 12 * total
      BY <1>4, <2>10
    <3> QED
      BY <3>1, <2>10, <1>1
  <2>11. CASE low = 13 /\ high = 7
    <3>1. 20 * (l - 1) < 13 * total
      BY <1>4, <2>11
    <3> QED
      BY <3>1, <2>11, <1>1
  <2>12. CASE low = 13 /\ high = 8
    <3>1. 21 * (l - 1) < 13 * total
      BY <1>4, <2>12
    <3> QED
      BY <3>1, <2>12, <1>1
  <2>13. CASE low = 14 /\ high = 8
    <3>1. 22 * (l - 1) < 14 * total
      BY <1>4, <2>13
    <3> QED
      BY <3>1, <2>13, <1>1
  <2>14. CASE low = 15 /\ high = 8
    <3>1. 23 * (l - 1) < 15 * total
      BY <1>4, <2>14
    <3> QED
      BY <3>1, <2>14, <1>1
  <2>15. CASE low = 15 /\ high = 9
    <3>1. 24 * (l - 1) < 15 * total
      BY <1>4, <2>15
    <3> QED
      BY <3>1, <2>15, <1>1
  <2>16. low \in 6 .. 15
    BY <1>1, <1>4
  <2>17. CASE low = 6
    <3>1. high = 4
      BY <1>1, <1>4, <2>17
    <3> QED
      BY <3>1, <2>17, <2>1
  <2>18. CASE low = 7
    <3>1. high = 4
      BY <1>1, <1>4, <2>18
    <3> QED
      BY <3>1, <2>18, <2>2
  <2>19. CASE low = 8
    <3>1. high = 4 \/ high = 5
      BY <1>1, <1>4, <2>19
    <3> QED
      BY <3>1, <2>19, <2>3, <2>4
  <2>20. CASE low = 9
    <3>1. high = 5 \/ high = 6
      BY <1>1, <1>4, <2>20
    <3> QED
      BY <3>1, <2>20, <2>5, <2>6
  <2>21. CASE low = 10
    <3>1. high = 6
      BY <1>1, <1>4, <2>21
    <3> QED
      BY <3>1, <2>21, <2>7
  <2>22. CASE low = 11
    <3>1. high = 6 \/ high = 7
      BY <1>1, <1>4, <2>22
    <3> QED
      BY <3>1, <2>22, <2>8, <2>9
  <2>23. CASE low = 12
    <3>1. high = 7
      BY <1>1, <1>4, <2>23
    <3> QED
      BY <3>1, <2>23, <2>10
  <2>24. CASE low = 13
    <3>1. high = 7 \/ high = 8
      BY <1>1, <1>4, <2>24
    <3> QED
      BY <3>1, <2>24, <2>11, <2>12
  <2>25. CASE low = 14
    <3>1. high = 8
      BY <1>1, <1>4, <2>25
    <3> QED
      BY <3>1, <2>25, <2>13
  <2>26. CASE low = 15
    <3>1. high = 8 \/ high = 9
      BY <1>1, <1>4, <2>26
    <3> QED
      BY <3>1, <2>26, <2>14, <2>15
  <2> QED
    BY <2>16, <2>17, <2>18, <2>19, <2>20, <2>21, <2>22, <2>23, <2>24, <2>25, <2>26
<1> QED
  BY <1>1, <1>2, <1>3, <1>4 DEF Minima


LEMMA FitsIs ==
  ASSUME NEW k \in Nat, k > 0, NEW l \in Nat, NEW class, NEW s \in 1 .. 3,
         Spec_MaxHold[class] \in Int, Spec_Setup[class] \in Int
  PROVE  UpdateFits(k, l, class, s) <=>
           /\ (s * l + 1) * 1000000 <= k * (Spec_MaxHold[class] - 1)
           /\ ((8 - s) * l + 1) * 1000000 > k * Spec_Setup[class]
<1>1. PICK n, m, x, y : /\ n = (s * l + 1) * 1000000 /\ m = ((8 - s) * l + 1) * 1000000
                        /\ x = Spec_MaxHold[class] /\ y = Spec_Setup[class]
  OBVIOUS
<1>2. n \in Int /\ m \in Int /\ x \in Int /\ y \in Int
  BY <1>1
<1>3. DivUp(n, k) < x <=> n <= k * (x - 1)
  BY <1>2, DivUpBelow
<1>4. DivUp(m, k) > y <=> m > k * y
  BY <1>2, DivUpAbove
<1> QED
  BY <1>1, <1>3, <1>4 DEF UpdateFits

LEMMA SdaIs ==
  ASSUME NEW k, NEW l, NEW class, UpdateFits(k, l, class, 1)
  PROVE  \E s \in 1 .. 3 : SdaUpdate(k, l, class) = s /\ UpdateFits(k, l, class, s)
BY DEF SdaUpdate

\* The setup time of a start or stop.
LEMMA UnitsAre ==
  ASSUME NEW k \in Nat, NEW ns \in Nat, NEW h \in Nat, h >= 1,
         k * ns > 1000000, k * ns <= 32000000 * h
  PROVE  /\ SetupUnits(k, ns, h) \in 1 .. 4
         /\ (8 * h * SetupUnits(k, ns, h) + 1) * 1000000 >= k * ns
<1>1. PICK p, n, d, u : p = k * ns /\ n = p - 1000000 /\ d = 8000000 * h /\ u = DivUp(n, d)
  OBVIOUS
<1>2. p \in Int /\ n \in Int /\ n > 0 /\ d \in Nat /\ d > 0 /\ n <= d * (5 - 1)
  BY <1>1
<1>3. u \in Nat /\ u >= 1
  BY <1>1, <1>2, DivUpPositive
<1>4. u < 5
  BY <1>1, <1>2, DivUpBelow
<1>5. n <= d * u
  BY <1>1, <1>2, DivUpIs
<1>6. (8 * h * u + 1) * 1000000 = d * u + 1000000
  BY <1>1, <1>3
<1>7. SetupUnits(k, ns, h) = u
  BY <1>1 DEF SetupUnits
<1>8. d * u \in Int
  BY <1>2, <1>3
<1>9. (8 * h * u + 1) * 1000000 >= p
  BY <1>1, <1>2, <1>5, <1>6, <1>8
<1> QED
  BY <1>1, <1>3, <1>4, <1>7, <1>9

\* The minima and the total, in steps of eight clocks.
LEMMA MinimumIs ==
  ASSUME NEW k \in Nat, k > 0, NEW w \in Nat, w > 0,
         NEW low, low = AtLeast2(DivUp(k * w, 8000000))
  PROVE  low \in Nat /\ low >= 1 /\ k * w <= 8000000 * low /\ 8000000 * (low - 1) < k * w
<1>1. PICK p, q : p = k * w /\ q = DivUp(p, 8000000)
  OBVIOUS
<1>2. p \in Int /\ p > 0
  <2>1. k * 0 < k * w
    BY Times
  <2> QED
    BY <1>1, <2>1
<1>3. q \in Nat /\ q >= 1
  BY <1>1, <1>2, DivUpPositive
<1>4. low = q
  BY <1>1, <1>3 DEF AtLeast2
<1> QED
  BY <1>1, <1>2, <1>4, DivUpIs, <1>3

LEMMA TotalIs ==
  ASSUME NEW k \in Nat, k > 0, NEW f \in Nat, NEW g \in Nat, g > 0, f >= g,
         NEW e, e = f * 8, NEW total, total = DivUp(k, e)
  PROVE  total \in Nat /\ total >= 1 /\ k <= 8 * total * f /\ (8 * g) * (total - 1) < k
<1>1. e \in Nat /\ e > 0
  OBVIOUS
<1>2. total \in Nat /\ total >= 1
  BY <1>1, DivUpPositive
<1>3. k <= e * total /\ e * (total - 1) < k
  BY <1>1, DivUpIs
<1>4. PICK t : t = total - 1 /\ t \in Nat
  BY <1>2
<1>5. g * t <= f * t
  <2>1. CASE t = 0
    BY <2>1
  <2>2. CASE t > 0
    <3>1. t * g <= t * f
      BY <1>4, <2>2, Times
    <3> QED
      BY <3>1, <1>4
  <2> QED
    BY <1>4, <2>1, <2>2
<1>6. e * t = 8 * (f * t) /\ (8 * g) * t = 8 * (g * t) /\ e * total = 8 * total * f
  BY <1>2, <1>4
<1>7. f * t \in Int /\ g * t \in Int
  BY <1>4
<1> QED
  BY <1>2, <1>3, <1>4, <1>5, <1>6, <1>7

\* What the modes ask for.
LEMMA ModesAre ==
  ASSUME NEW hz \in Int, hz >= MinSpeedHz,
         NEW f, f = Cap(hz, 1000000), NEW class, class = Mode(f)
  PROVE  /\ f \in Int /\ f \div 1000 \in Nat
         /\ \/ /\ class = "standard" /\ f \div 1000 >= 50
            \/ /\ class = "fast" /\ f \div 1000 >= 100
            \/ /\ class = "plus" /\ f \div 1000 >= 400
<1>1. hz >= 50000
  BY DEF MinSpeedHz
<1>2. f \in Int /\ f >= 50000
  BY <1>1 DEF Cap
<1> QED
  BY <1>2 DEF Mode


\* The timings with what they are made of.
Parts(k, w, v, g, f, class, c, low, high, total, l, h) ==
  /\ Minima(k, w, v, g, low, high, total, l)
  /\ low <= l /\ high <= h /\ h <= total + high
  /\ 8 * (l + h) * (f \div 1000) >= k
  /\ c = [low |-> Cap(l - 1, 65535), high |-> Cap(h - 1, 65535),
          sda |-> SdaUpdate(k, l, class) - 1,
          sta |-> SetupUnits(k, RiseNs[class] + Spec_Start[class], h) - 1,
          sto |-> SetupUnits(k, RiseNs[class] + Spec_Stop[class], h) - 1]

Composed(k, w, v, g, f, class, c) ==
  \E low, high, total, l, h \in Nat : Parts(k, w, v, g, f, class, c, low, high, total, l, h)

LEMMA CalcIs ==
  ASSUME NEW k \in Nat, k >= MinClockKhz, k <= MaxClockKhz, NEW hz \in Int, hz >= MinSpeedHz,
         NEW f, f = Cap(hz, 1000000), NEW class, class = Mode(f),
         NEW w \in Nat, w = FallNs[class] + Spec_Low[class], w > 0,
         NEW v \in Nat, v = RiseNs[class] + Spec_High[class], v > 0,
         NEW g \in Nat, g > 0, f \div 1000 >= g
  PROVE  Composed(k, w, v, g, f, class, CalcTimings(k, hz))
<1>1. k > 0
  BY DEF MinClockKhz
<1>2. PICK F : F = f \div 1000
  OBVIOUS
<1>3. F \in Nat /\ F > 0 /\ F >= g
  BY <1>2, ModesAre
<1>4. PICK e : e = F * 8
  OBVIOUS
<1>5. PICK total, low, high :
        /\ total = DivUp(k, e)
        /\ low = AtLeast2(DivUp(k * w, 8000000))
        /\ high = AtLeast2(DivUp(k * v, 8000000))
  OBVIOUS
<1>6. low \in Nat /\ low >= 1 /\ k * w <= 8000000 * low /\ 8000000 * (low - 1) < k * w
  BY <1>1, <1>5, MinimumIs
<1>7. high \in Nat /\ high >= 1 /\ k * v <= 8000000 * high /\ 8000000 * (high - 1) < k * v
  BY <1>1, <1>5, MinimumIs
<1>8. total \in Nat /\ total >= 1 /\ k <= 8 * total * F /\ (8 * g) * (total - 1) < k
  BY <1>1, <1>3, <1>5, <1>4, TotalIs, SMTT(30)
<1>9. PICK d : d = Dividers(low, high, total)
  OBVIOUS
<1>10. PICK l, h : l = d.low /\ h = d.high
  OBVIOUS
<1>11. /\ l \in Nat /\ h \in Nat /\ low <= l /\ high <= h /\ l + h >= total
       /\ low + high >= total => l = low /\ h = high
       /\ low + high < total => (l - 1) * (low + high) < low * total /\ l + h = total
  <2>1. /\ d.low \in Nat /\ d.high \in Nat /\ low <= d.low /\ high <= d.high
        /\ d.low + d.high >= total
        /\ low + high >= total => d.low = low /\ d.high = high
        /\ low + high < total => (d.low - 1) * (low + high) < low * total /\ d.low + d.high = total
    BY <1>6, <1>7, <1>8, <1>9, DividersAre
  <2> QED
    BY <2>1, <1>10
<1>12. l = low \/ (l - 1) * (low + high) < low * total
  BY <1>6, <1>7, <1>8, <1>11
<1>13. h <= total + high
  BY <1>6, <1>7, <1>8, <1>11
<1>14. 8 * (l + h) * F >= k
  <2>1. F * total <= F * (l + h)
    BY <1>3, <1>8, <1>11, Times
  <2>2. 8 * total * F = 8 * (F * total) /\ 8 * (l + h) * F = 8 * (F * (l + h))
    BY <1>3, <1>8, <1>11
  <2>3. F * total \in Int /\ F * (l + h) \in Int
    BY <1>3, <1>8, <1>11
  <2> QED
    BY <2>1, <2>2, <2>3, <1>8
<1>15. CalcTimings(k, hz) =
         [low |-> Cap(l - 1, 65535), high |-> Cap(h - 1, 65535),
          sda |-> SdaUpdate(k, l, class) - 1,
          sta |-> SetupUnits(k, RiseNs[class] + Spec_Start[class], h) - 1,
          sto |-> SetupUnits(k, RiseNs[class] + Spec_Stop[class], h) - 1]
  BY <1>2, <1>5, <1>9, <1>10, <1>4 DEF CalcTimings
<1> QED
  <2>1. low \in Nat /\ high \in Nat /\ total \in Nat /\ l \in Nat /\ h \in Nat
    BY <1>6, <1>7, <1>8, <1>11
  <2>2. 8 * (l + h) * (f \div 1000) >= k
    BY <1>2, <1>14
  <2>4. Minima(k, w, v, g, low, high, total, l)
    BY <1>6, <1>7, <1>8, <1>12 DEF Minima
  <2>3. Parts(k, w, v, g, f, class, CalcTimings(k, hz), low, high, total, l, h)
    BY <1>11, <1>13, <1>15, <2>2, <2>4 DEF Parts
  <2> QED
    BY <2>1, <2>3, SMTT(30) DEF Composed

\* What is shown of timings for a speed.
Meets(k, f, c) ==
  LET class == Mode(f)
      l == c.low + 1  h == c.high + 1
      s == c.sda + 1  u == c.sta + 1  p == c.sto + 1
      NoShorter(cycles, ns) == cycles >= (k * ns - 1) \div 1000000 + 1
  IN /\ c.sda \in 0..7 /\ c.sta \in 0..3 /\ c.sto \in 0..3
     /\ 8 * (l + h) * (f \div 1000) >= k
     /\ NoShorter(8 * l, FallNs[class] + Spec_Low[class])
     /\ NoShorter(8 * h, RiseNs[class] + Spec_High[class])
     /\ ~NoShorter(l * s + 1, Spec_MaxHold[class])
     /\ NoShorter((8 - s) * l + 1, Spec_Setup[class])
     /\ NoShorter(8 * h * u + 1, RiseNs[class] + Spec_Start[class])
     /\ NoShorter(8 * h * p + 1, RiseNs[class] + Spec_Stop[class])

\* What the code takes from the tables: the phases (w and v), the setup times
\* of start and stop (a and b) and of data (su), and the hold time (mh).
Asks(class, w, v, a, b, mh, su) ==
  /\ w = FallNs[class] + Spec_Low[class] /\ w > 0
  /\ v = RiseNs[class] + Spec_High[class] /\ v > 0 /\ v <= 5000
  /\ a = RiseNs[class] + Spec_Start[class] /\ a >= 100 /\ a <= 4 * v
  /\ b = RiseNs[class] + Spec_Stop[class] /\ b >= 100 /\ b <= 4 * v
  /\ mh = Spec_MaxHold[class] /\ mh >= 1 /\ mh <= 3450
  /\ su = Spec_Setup[class] /\ 8 * su <= 7 * w

\* The fields, with the times they stand for.
Steps(k, l, h, class, a, b, mh, su, s, u, p) ==
  /\ SdaUpdate(k, l, class) = s
  /\ SetupUnits(k, a, h) = u /\ SetupUnits(k, b, h) = p
  /\ (s * l + 1) * 1000000 < k * mh /\ ((8 - s) * l + 1) * 1000000 >= k * su
  /\ (8 * h * u + 1) * 1000000 >= k * a /\ (8 * h * p + 1) * 1000000 >= k * b

\* The phases are long enough, for the rate and for the mode.
Lasts(k, f, w, v, l, h) ==
  /\ 8 * (l + h) * (f \div 1000) >= k
  /\ k * w <= (8 * l) * 1000000 /\ k * v <= (8 * h) * 1000000

Fields(k, f, class, w, v, a, b, mh, su, l, h, s, u, p, c) ==
  /\ s \in 1 .. 3 /\ u \in 1 .. 4 /\ p \in 1 .. 4
  /\ class = Mode(f) /\ Asks(class, w, v, a, b, mh, su)
  /\ Lasts(k, f, w, v, l, h) /\ Steps(k, l, h, class, a, b, mh, su, s, u, p)
  /\ c.low = l - 1 /\ c.high = h - 1 /\ c.sda = s - 1 /\ c.sta = u - 1 /\ c.sto = p - 1

LEMMA FieldsMeet ==
  ASSUME NEW k \in Nat, NEW f, NEW class, NEW l \in Nat, NEW h \in Nat,
         NEW w \in Nat, NEW v \in Nat, NEW a \in Nat, NEW b \in Nat, NEW mh \in Nat, NEW su \in Nat,
         NEW s \in Nat, NEW u \in Nat, NEW p \in Nat, NEW c,
         Fields(k, f, class, w, v, a, b, mh, su, l, h, s, u, p, c)
  PROVE  Meets(k, f, c)
<1>1. c.low + 1 = l /\ c.high + 1 = h
  BY DEF Fields
<1>2. c.sda + 1 = s /\ c.sda \in 0 .. 7
  BY DEF Fields
<1>3. c.sta + 1 = u /\ c.sta \in 0 .. 3 /\ c.sto + 1 = p /\ c.sto \in 0 .. 3
  BY DEF Fields
<1> DEFINE N(cycles, ns) == cycles >= (k * ns - 1) \div 1000000 + 1
<1>4. \A x, y \in Int : N(x, y) <=> x * 1000000 >= k * y
  <2> TAKE x \in Int, y \in Int
  <2>1. PICK z : z = k * y /\ z \in Int
    OBVIOUS
  <2>2. x >= (z - 1) \div 1000000 + 1 <=> x * 1000000 >= z
    BY <2>1
  <2> QED
    BY <2>1, <2>2
<1> HIDE DEF N
<1>5. N(8 * l, w) /\ N(8 * h, v)
  BY <1>4 DEF Lasts, Fields
<1>6. ~N(l * s + 1, mh)
  <2>1. PICK x, z : x = l * s + 1 /\ z = k * mh
    OBVIOUS
  <2>2. x \in Int /\ z \in Int /\ x * 1000000 < z
    BY <2>1 DEF Steps, Fields
  <2>3. ~(x * 1000000 >= z)
    BY <2>2
  <2> QED
    BY <2>1, <2>2, <2>3, <1>4
<1>7. N((8 - s) * l + 1, su)
  <2>1. PICK x : x = (8 - s) * l + 1
    OBVIOUS
  <2>2. x \in Int /\ x * 1000000 >= k * su
    BY <2>1 DEF Steps, Fields
  <2> QED
    BY <2>1, <2>2, <1>4
<1>8. N(8 * h * u + 1, a) /\ N(8 * h * p + 1, b)
  <2>1. PICK x, y : x = 8 * h * u + 1 /\ y = 8 * h * p + 1
    OBVIOUS
  <2>2. x \in Int /\ y \in Int /\ x * 1000000 >= k * a /\ y * 1000000 >= k * b
    BY <2>1 DEF Steps, Fields
  <2> QED
    BY <2>1, <2>2, <1>4
<1> QED
  BY <1>1, <1>2, <1>3, <1>5, <1>6, <1>7, <1>8 DEF Meets, N, Asks, Lasts, Fields

\* What is needed of the two phases for that.
PhasesMeet(k, l, h, class, a, b, mh, su) ==
  /\ mh = Spec_MaxHold[class] /\ su = Spec_Setup[class]
  /\ k * a > 1000000 /\ k * a <= 32000000 * h /\ k * b > 1000000 /\ k * b <= 32000000 * h
  /\ (l + 1) * 1000000 <= k * (mh - 1) /\ (7 * l + 1) * 1000000 > k * su

LEMMA TimingsMeet ==
  ASSUME NEW k \in Nat, k > 0, NEW class, NEW l \in Nat, NEW h \in Nat,
         NEW a \in Nat, NEW b \in Nat, NEW mh \in Nat, NEW su \in Nat, h >= 1,
         PhasesMeet(k, l, h, class, a, b, mh, su)
  PROVE  \E s \in 1 .. 3, u, p \in 1 .. 4 : Steps(k, l, h, class, a, b, mh, su, s, u, p)
<1>1. /\ mh = Spec_MaxHold[class] /\ su = Spec_Setup[class]
      /\ k * a > 1000000 /\ k * a <= 32000000 * h
      /\ k * b > 1000000 /\ k * b <= 32000000 * h
      /\ (l + 1) * 1000000 <= k * (mh - 1) /\ (7 * l + 1) * 1000000 > k * su
  BY DEF PhasesMeet
<1>2. UpdateFits(k, l, class, 1)
  BY <1>1, FitsIs
<1>3. PICK s \in 1 .. 3 : SdaUpdate(k, l, class) = s /\ UpdateFits(k, l, class, s)
  BY <1>2, SdaIs
<1>4. (s * l + 1) * 1000000 <= k * (mh - 1) /\ ((8 - s) * l + 1) * 1000000 > k * su
  BY <1>3, <1>1, FitsIs
<1>5. PICK u, p : u = SetupUnits(k, a, h) /\ p = SetupUnits(k, b, h)
  OBVIOUS
<1>6. u \in 1 .. 4 /\ (8 * h * u + 1) * 1000000 >= k * a
  <2>1. SetupUnits(k, a, h) \in 1 .. 4 /\ (8 * h * SetupUnits(k, a, h) + 1) * 1000000 >= k * a
    BY <1>1, UnitsAre, SMTT(30)
  <2> QED
    BY <2>1, <1>5
<1>7. p \in 1 .. 4 /\ (8 * h * p + 1) * 1000000 >= k * b
  <2>1. SetupUnits(k, b, h) \in 1 .. 4 /\ (8 * h * SetupUnits(k, b, h) + 1) * 1000000 >= k * b
    BY <1>1, UnitsAre, SMTT(30)
  <2> QED
    BY <2>1, <1>5
<1>8. (s * l + 1) * 1000000 < k * mh
  <2>1. PICK x, z : x = (s * l + 1) * 1000000 /\ z = k * mh
    OBVIOUS
  <2>2. x \in Int /\ z \in Int /\ x <= z - k
    BY <2>1, <1>3, <1>4
  <2>3. x < z
    BY <2>2
  <2> QED
    BY <2>1, <2>3
<1>9. ((8 - s) * l + 1) * 1000000 >= k * su
  <2>1. PICK x, z : x = ((8 - s) * l + 1) * 1000000 /\ z = k * su
    OBVIOUS
  <2>2. x \in Int /\ z \in Int /\ x > z
    BY <2>1, <1>3, <1>4
  <2>3. x >= z
    BY <2>2
  <2> QED
    BY <2>1, <2>3
<1>10. Steps(k, l, h, class, a, b, mh, su, s, u, p)
  BY <1>3, <1>5, <1>6, <1>7, <1>8, <1>9 DEF Steps
<1> QED
  BY <1>6, <1>7, <1>10


\* What a mode asks of a low phase, whatever the rate.
Holds(k, w, v, g, mh) ==
  \A low, high, total, l \in Nat :
    Minima(k, w, v, g, low, high, total, l) => (l + 1) * 1000000 <= k * (mh - 1)

LEMMA HoldsFor ==
  ASSUME NEW k, NEW w, NEW v, NEW g, NEW mh, Holds(k, w, v, g, mh),
         NEW low \in Nat, NEW high \in Nat, NEW total \in Nat, NEW l \in Nat,
         Minima(k, w, v, g, low, high, total, l)
  PROVE  (l + 1) * 1000000 <= k * (mh - 1)
BY DEF Holds

LEMMA PhasesFit ==
  ASSUME NEW k \in Nat, k <= 200000, NEW v \in Nat, v <= 5000, NEW g \in Nat, g >= 50,
         NEW mh \in Nat, mh <= 3450, mh >= 1,
         NEW high \in Nat, NEW total \in Nat, NEW l \in Nat, NEW h \in Nat,
         8000000 * (high - 1) < k * v, (8 * g) * (total - 1) < k, total >= 1,
         (l + 1) * 1000000 <= k * (mh - 1), h <= total + high
  PROVE  l <= 65536 /\ h <= 65536
<1>1. k * (mh - 1) <= 200000 * 3449
  <2>1. k * (mh - 1) <= k * 3449
    <3>1. CASE k = 0
      BY <3>1
    <3>2. CASE k > 0
      BY <3>2, Times
    <3> QED
      BY <3>1, <3>2
  <2> QED
    BY <2>1
<1>2. k * v <= 200000 * 5000
  <2>1. k * v <= k * 5000
    <3>1. CASE k = 0
      BY <3>1
    <3>2. CASE k > 0
      BY <3>2, Times
    <3> QED
      BY <3>1, <3>2
  <2> QED
    BY <2>1
<1>3. 400 * (total - 1) < k
  <2>1. PICK t : t = total - 1 /\ t \in Nat
    OBVIOUS
  <2>2. t * 400 <= t * (8 * g)
    <3>1. CASE t = 0
      BY <3>1
    <3>2. CASE t > 0
      BY <2>1, <3>2, Times
    <3> QED
      BY <2>1, <3>1, <3>2
  <2>3. t * (8 * g) < k
    BY <2>1
  <2>4. t * (8 * g) \in Int
    BY <2>1
  <2> QED
    BY <2>1, <2>2, <2>3, <2>4
<1>4. l <= 65536
  <2>1. PICK z : z = k * (mh - 1) /\ z \in Int
    OBVIOUS
  <2> QED
    BY <2>1, <1>1
<1>5. high <= 200
  <2>1. PICK z : z = k * v /\ z \in Int
    OBVIOUS
  <2> QED
    BY <2>1, <1>2
<1> QED
  BY <1>3, <1>4, <1>5

\* A speed of at least g kHz, and a mode it is for.
Rated(k, hz, f, class, w, v, a, b, mh, su, g) ==
  /\ f = Cap(hz, 1000000) /\ class = Mode(f) /\ Asks(class, w, v, a, b, mh, su)
  /\ g >= 50 /\ f \div 1000 >= g /\ Holds(k, w, v, g, mh)

LEMMA RateMeets ==
  ASSUME NEW k \in Nat, k >= MinClockKhz, k <= MaxClockKhz, NEW hz \in Int, hz >= MinSpeedHz,
         NEW f, NEW class, NEW g \in Nat,
         NEW w \in Nat, NEW v \in Nat, NEW a \in Nat, NEW b \in Nat, NEW mh \in Nat, NEW su \in Nat,
         Rated(k, hz, f, class, w, v, a, b, mh, su, g)
  PROVE  Meets(k, f, CalcTimings(k, hz))
<1>1. k >= 26667 /\ k <= 200000 /\ k > 0
  BY DEF MinClockKhz, MaxClockKhz
<1>2. PICK low, high, total, l, h \in Nat :
        Parts(k, w, v, g, f, class, CalcTimings(k, hz), low, high, total, l, h)
  <2>1. /\ f = Cap(hz, 1000000) /\ class = Mode(f) /\ g > 0 /\ f \div 1000 >= g
        /\ w = FallNs[class] + Spec_Low[class] /\ w > 0
        /\ v = RiseNs[class] + Spec_High[class] /\ v > 0
    BY DEF Rated, Asks
  <2>2. Composed(k, w, v, g, f, class, CalcTimings(k, hz))
    BY <2>1, CalcIs, SMTT(30)
  <2> QED
    BY ONLY <2>2 DEF Composed
<1>3. PICK c : c = CalcTimings(k, hz)
  OBVIOUS
<1>4. /\ k * w <= 8000000 * low /\ 8000000 * (low - 1) < k * w /\ low >= 1
      /\ k * v <= 8000000 * high /\ 8000000 * (high - 1) < k * v /\ high >= 1
      /\ (8 * g) * (total - 1) < k /\ total >= 1
      /\ l = low \/ (l - 1) * (low + high) < low * total
      /\ low <= l /\ high <= h /\ h <= total + high
      /\ 8 * (l + h) * (f \div 1000) >= k
  BY <1>2 DEF Parts, Minima
<1>5. c = [low |-> Cap(l - 1, 65535), high |-> Cap(h - 1, 65535),
           sda |-> SdaUpdate(k, l, class) - 1,
           sta |-> SetupUnits(k, a, h) - 1, sto |-> SetupUnits(k, b, h) - 1]
  BY <1>3, <1>2 DEF Parts, Rated, Asks
<1>6. (l + 1) * 1000000 <= k * (mh - 1)
  <2>1. Minima(k, w, v, g, low, high, total, l)
    BY <1>2 DEF Parts
  <2>2. Holds(k, w, v, g, mh)
    BY DEF Rated
  <2> QED
    BY <1>2, <2>1, <2>2, HoldsFor
<1>7. l <= 65536 /\ h <= 65536 /\ l >= 1 /\ h >= 1
  <2>1. v <= 5000 /\ mh >= 1 /\ mh <= 3450 /\ g >= 50
    BY DEF Rated, Asks
  <2> QED
    BY <2>1, <1>1, <1>4, <1>6, PhasesFit
<1>8. k * w <= (8 * l) * 1000000 /\ k * v <= (8 * h) * 1000000
  <2>1. PICK x, y : x = k * w /\ y = k * v /\ x \in Int /\ y \in Int
    OBVIOUS
  <2> QED
    BY <2>1, <1>4
<1>9. (7 * l + 1) * 1000000 > k * su
  <2>1. k * (8 * su) <= k * (7 * w)
    BY <1>1, Times DEF Rated, Asks
  <2>2. PICK x, y : x = k * w /\ y = k * su /\ x \in Int /\ y \in Int
    OBVIOUS
  <2>3. 8 * y <= 7 * x
    BY <2>1, <2>2
  <2> QED
    BY <2>2, <2>3, <1>8
<1>10. ASSUME NEW n \in Nat, n >= 100, n <= 4 * v PROVE k * n > 1000000 /\ k * n <= 32000000 * h
  <2>1. k * 100 <= k * n /\ k * n <= k * (4 * v)
    BY <1>1, <1>10, Times
  <2>2. PICK x, y : x = k * n /\ y = k * v /\ x \in Int /\ y \in Int
    OBVIOUS
  <2>3. k * 100 <= x /\ x <= 4 * y /\ y <= 8000000 * h
    BY <2>1, <2>2, <1>8
  <2>4. x > 1000000 /\ x <= 32000000 * h
    BY <2>2, <2>3, <1>1
  <2> QED
    BY <2>2, <2>4
<1>11. PICK s \in 1 .. 3, u \in 1 .. 4, p \in 1 .. 4 : Steps(k, l, h, class, a, b, mh, su, s, u, p)
  <2>1. k * a > 1000000 /\ k * a <= 32000000 * h
    BY <1>10 DEF Rated, Asks
  <2>2. k * b > 1000000 /\ k * b <= 32000000 * h
    BY <1>10 DEF Rated, Asks
  <2> QED
    <3>1. PhasesMeet(k, l, h, class, a, b, mh, su)
      BY <2>1, <2>2, <1>6, <1>9 DEF PhasesMeet, Rated, Asks
    <3> QED
      BY <3>1, <1>1, <1>7, TimingsMeet
<1>12. SdaUpdate(k, l, class) = s /\ SetupUnits(k, a, h) = u /\ SetupUnits(k, b, h) = p
  BY <1>11 DEF Steps
<1>13. Cap(l - 1, 65535) = l - 1 /\ Cap(h - 1, 65535) = h - 1
  BY <1>7 DEF Cap
<1>14. c.low = l - 1 /\ c.high = h - 1 /\ c.sda = s - 1 /\ c.sta = u - 1 /\ c.sto = p - 1
  BY <1>5, <1>12, <1>13
<1>15. Lasts(k, f, w, v, l, h)
  BY <1>4, <1>8 DEF Lasts
<1>16. Meets(k, f, c)
  <2>1. /\ k \in Nat /\ l \in Nat /\ h \in Nat /\ s \in Nat /\ u \in Nat /\ p \in Nat
        /\ w \in Nat /\ v \in Nat /\ a \in Nat /\ b \in Nat /\ mh \in Nat /\ su \in Nat
    OBVIOUS
  <2>2. Fields(k, f, class, w, v, a, b, mh, su, l, h, s, u, p, c)
    BY <1>11, <1>14, <1>15 DEF Fields, Rated
  <2> QED
    BY ONLY <2>1, <2>2, FieldsMeet
<1> QED
  BY <1>3, <1>16


LEMMA StandardHolds ==
  ASSUME NEW k \in Nat, k >= MinClockKhz, k <= MaxClockKhz
  PROVE  Holds(k, 5000, 5000, 50, 3450)
<1>1. ASSUME NEW low \in Nat, NEW high \in Nat, NEW total \in Nat, NEW l \in Nat,
             Minima(k, 5000, 5000, 50, low, high, total, l)
      PROVE  (l + 1) * 1000000 <= k * (3450 - 1)
  BY <1>1, HoldsStandard
<1> QED
  BY <1>1 DEF Holds

LEMMA FastHolds ==
  ASSUME NEW k \in Nat, k >= MinClockKhz, k <= MaxClockKhz
  PROVE  Holds(k, 1600, 900, 100, 900)
<1>1. ASSUME NEW low \in Nat, NEW high \in Nat, NEW total \in Nat, NEW l \in Nat,
             Minima(k, 1600, 900, 100, low, high, total, l)
      PROVE  (l + 1) * 1000000 <= k * (900 - 1)
  BY <1>1, HoldsFast
<1> QED
  BY <1>1 DEF Holds

LEMMA PlusHolds ==
  ASSUME NEW k \in Nat, k >= MinClockKhz, k <= MaxClockKhz
  PROVE  Holds(k, 620, 380, 400, 400)
<1>1. ASSUME NEW low \in Nat, NEW high \in Nat, NEW total \in Nat, NEW l \in Nat,
             Minima(k, 620, 380, 400, low, high, total, l)
      PROVE  (l + 1) * 1000000 <= k * (400 - 1)
  BY <1>1, HoldsPlus
<1> QED
  BY <1>1 DEF Holds

LEMMA CalcMeets ==
  ASSUME NEW k \in Nat, k >= MinClockKhz, k <= MaxClockKhz, NEW hz \in Int, hz >= MinSpeedHz
  PROVE  Meets(k, Cap(hz, 1000000), CalcTimings(k, hz))
<1>1. PICK f, class : f = Cap(hz, 1000000) /\ class = Mode(f)
  OBVIOUS
<1>2. /\ f \in Int /\ f \div 1000 \in Nat
      /\ \/ /\ class = "standard" /\ f \div 1000 >= 50
         \/ /\ class = "fast" /\ f \div 1000 >= 100
         \/ /\ class = "plus" /\ f \div 1000 >= 400
  BY <1>1, ModesAre
<1>3. CASE class = "standard" /\ f \div 1000 >= 50
  <2>1. Asks(class, 5000, 5000, 5700, 5000, 3450, 250)
    BY <1>3 DEF Asks, FallNs, RiseNs, Spec_Low, Spec_High, Spec_Start, Spec_Stop, Spec_MaxHold,
                     Spec_Setup
  <2>2. Holds(k, 5000, 5000, 50, 3450)
    BY StandardHolds
  <2>3. Rated(k, hz, f, class, 5000, 5000, 5700, 5000, 3450, 250, 50)
    BY <1>1, <1>3, <2>1, <2>2 DEF Rated
  <2>4. Meets(k, f, CalcTimings(k, hz))
    BY <2>3, RateMeets
  <2> QED
    BY <1>1, <2>4
<1>4. CASE class = "fast" /\ f \div 1000 >= 100
  <2>1. Asks(class, 1600, 900, 900, 900, 900, 100)
    BY <1>4 DEF Asks, FallNs, RiseNs, Spec_Low, Spec_High, Spec_Start, Spec_Stop, Spec_MaxHold,
                     Spec_Setup
  <2>2. Holds(k, 1600, 900, 100, 900)
    BY FastHolds
  <2>3. Rated(k, hz, f, class, 1600, 900, 900, 900, 900, 100, 100)
    BY <1>1, <1>4, <2>1, <2>2 DEF Rated
  <2>4. Meets(k, f, CalcTimings(k, hz))
    BY <2>3, RateMeets
  <2> QED
    BY <1>1, <2>4
<1>5. CASE class = "plus" /\ f \div 1000 >= 400
  <2>1. Asks(class, 620, 380, 380, 380, 400, 50)
    BY <1>5 DEF Asks, FallNs, RiseNs, Spec_Low, Spec_High, Spec_Start, Spec_Stop, Spec_MaxHold,
                     Spec_Setup
  <2>2. Holds(k, 620, 380, 400, 400)
    BY PlusHolds
  <2>3. Rated(k, hz, f, class, 620, 380, 380, 380, 400, 50, 400)
    BY <1>1, <1>5, <2>1, <2>2 DEF Rated
  <2>4. Meets(k, f, CalcTimings(k, hz))
    BY <2>3, RateMeets
  <2> QED
    BY <1>1, <2>4
<1> QED
  BY <1>2, <1>3, <1>4, <1>5

\* What adapt_div has written is of the base clock and a speed.
ClocksInv ==
  /\ calc # Unset =>
       \E hz \in Rates : busFreqHz = Cap(hz, 1000000) /\ calc = CalcTimings(baseClock, hz)
  /\ baseClock \in Clocks \cup {0}
  /\ baseClock = 0 => calc = Unset /\ speed = 0
  /\ speed \in Rates \cup {0}

\* The base clocks for which the hold time can be met at any speed.
FastEnough == \A khz \in Clocks : khz >= MinClockKhz

(* For any base clocks from MinClockKhz to 200 MHz and any speeds from 50 kHz,
   capped ones included, the timings written meet the specification of the
   mode, and the tuning values fit their fields. *)
THEOREM ClocksMeetSpec == FastEnough => (ClocksSpec => []TimingsMeetSpec)
<1> SUFFICES ASSUME FastEnough PROVE ClocksSpec => []TimingsMeetSpec
  OBVIOUS
<1>0. /\ \A khz \in Clocks : khz \in Nat /\ khz >= MinClockKhz /\ khz <= MaxClockKhz
      /\ \A hz \in Rates : hz \in Int /\ hz >= MinSpeedHz
  <2>1. MaxClockKhz \in Nat
    BY DEF MaxClockKhz
  <2>2. \A khz \in Clocks : khz \in 1 .. MaxClockKhz
    BY RatesAssumption
  <2>3. ASSUME NEW khz \in Clocks PROVE khz \in Nat /\ khz <= MaxClockKhz
    <3>1. PICK n \in Nat : n = MaxClockKhz
      BY <2>1
    <3>2. khz \in 1 .. n
      BY <2>2, <3>1
    <3> QED
      BY <3>1, <3>2
  <2> QED
    BY <2>3, RatesAssumption DEF FastEnough
<1>1. ClocksInit => ClocksInv
  BY DEF ClocksInit, ClocksInv
<1>2. ClocksInv /\ [ClocksNext]_clockVars => ClocksInv'
  <2> SUFFICES ASSUME ClocksInv, [ClocksNext]_clockVars PROVE ClocksInv'
    OBVIOUS
  <2>1. CASE PrepareHardware
    BY <2>1, <1>0 DEF PrepareHardware, ClocksInv
  <2>2. CASE ConnectTarget
    BY <2>2 DEF ConnectTarget, ClocksInv
  <2>3. CASE DisconnectTarget
    BY <2>3 DEF DisconnectTarget, ClocksInv
  <2>4. CASE AdaptDiv
    BY <2>4 DEF AdaptDiv, ClocksInv
  <2>5. CASE UNCHANGED clockVars
    BY <2>5 DEF clockVars, ClocksInv
  <2> QED
    BY <2>1, <2>2, <2>3, <2>4, <2>5 DEF ClocksNext
<1>3. ClocksInv => TimingsMeetSpec
  <2> SUFFICES ASSUME ClocksInv, calc # Unset PROVE Meets(baseClock, busFreqHz, calc)
    BY DEF TimingsMeetSpec, Meets
  <2>1. PICK hz \in Rates : busFreqHz = Cap(hz, 1000000) /\ calc = CalcTimings(baseClock, hz)
    BY DEF ClocksInv
  <2>2. baseClock \in Clocks
    BY DEF ClocksInv
  <2> QED
    BY <2>1, <2>2, <1>0, CalcMeets
<1> QED
  BY <1>1, <1>2, <1>3, PTL DEF ClocksSpec
=============================================================================
