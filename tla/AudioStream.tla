---------------------------- MODULE AudioStream ----------------------------
(***************************************************************************)
(* The audio streams of csaudiork3x over the PL330: one render and one     *)
(* capture stream, each with its buffer, its KS state, its half of the I2S *)
(* registers and the DMA channel the topology file names.                  *)
(*                                                                         *)
(* PortCls sets the state of a stream from one thread at a time, and the   *)
(* two streams run side by side: their updates of the shared I2S registers *)
(* are a read and a write with nothing between them to keep the other out. *)
(***************************************************************************)
EXTENDS Pl330

CONSTANT ChannelOf   \* RK_TPLG tx and rx: the channel of each stream

ASSUME ChannelAssumption ==
  /\ ChannelOf \in [Callers -> Chans]
  /\ \A d, e \in Callers : ChannelOf[d] = ChannelOf[e] => d = e

VARIABLES
  allocated,   \* m_ulSystemAllocated of the pin of each stream
  buffer,      \* the stream has an audio buffer
  ks,          \* m_KsState
  target,      \* the state SetState was called with
  at,          \* where the call in progress is
  i2s,         \* DMACR, XFER and CLR, as sets of streams
  copy,        \* the value an i2s_update32 in progress has read, if any
  dmaThread,   \* rk_stream.dmaThread
  isActive,    \* rk_stream.isActive
  program      \* whose buffer the microcode of a stream's channel addresses

streamVars == <<allocated, buffer, ks, target, at, i2s, copy, dmaThread,
                isActive, program>>
vars == <<dmaVars, streamVars>>

Streams == Callers
Regs    == {"DMACR", "XFER", "CLR"}
KsStates == {"STOP", "ACQUIRE", "PAUSE", "RUN"}
MaxSystemStreams == 1

\* The i2s_update32 calls of a stream, each with its register.
RegOf   == [TDE |-> "DMACR", noTDE |-> "DMACR", TXS |-> "XFER", noTXS |-> "XFER",
            clr |-> "CLR", noClr |-> "CLR"]
Updates == DOMAIN RegOf
Sets(u) == u \in {"TDE", "TXS", "clr"}

\* Where a call is.
Places == Updates \cup {"idle", "acquire", "starting", "play", "active", "stop",
                        "stopDma", "stopping", "poll", "stopped"}

TypeOK ==
  /\ DmaTypeOK
  /\ allocated \in [Streams -> 0 .. MaxSystemStreams]
  /\ buffer \in [Streams -> BOOLEAN]
  /\ ks \in [Streams -> KsStates] /\ target \in [Streams -> KsStates]
  /\ at \in [Streams -> Places]
  /\ i2s \in [Regs -> SUBSET Streams]
  /\ copy \in [Streams -> SUBSET SUBSET Streams]
  /\ dmaThread \in [Streams -> Chans \cup {None}]
  /\ isActive \in [Streams -> BOOLEAN]
  /\ program \in [Streams -> {"none", "live", "stale"}]

Init ==
  /\ DmaInit
  /\ allocated = [d \in Streams |-> 0]
  /\ buffer = [d \in Streams |-> FALSE]
  /\ ks = [d \in Streams |-> "STOP"] /\ target = [d \in Streams |-> "STOP"]
  /\ at = [d \in Streams |-> "idle"]
  /\ i2s = [r \in Regs |-> {}] /\ copy = [d \in Streams |-> {}]
  /\ dmaThread = [d \in Streams |-> None]
  /\ isActive = [d \in Streams |-> FALSE]
  /\ program = [d \in Streams |-> "none"]

At(d, p)   == at[d] = p
Move(d, p) == at' = [at EXCEPT ![d] = p]

-----------------------------------------------------------------------------
(* The life of a stream and its buffer.                                    *)

ValidateStreamCreate(d) == allocated[d] < MaxSystemStreams
StreamCreated(d) == allocated' = [allocated EXCEPT ![d] = @ + 1]
StreamClosed(d)  == allocated' = [allocated EXCEPT ![d] = @ - 1]

\* Variant: the instances of the pin are not limited.
NewStreamUnlimited(d) ==
  /\ allocated[d] <= MaxSystemStreams
  /\ StreamCreated(d)
  /\ UNCHANGED <<dmaVars, buffer, ks, target, at, i2s, copy, dmaThread,
                 isActive, program>>

\* The attributes and the format of the request are taken as valid.
NewStream(d) ==
  /\ ValidateStreamCreate(d)
  /\ StreamCreated(d)
  /\ UNCHANGED <<dmaVars, buffer, ks, target, at, i2s, copy, dmaThread,
                 isActive, program>>

AllocateAudioBuffer(d) ==
  /\ allocated[d] = 1 /\ ~buffer[d] /\ ks[d] = "STOP" /\ At(d, "idle")
  /\ buffer' = [buffer EXCEPT ![d] = TRUE]
  /\ UNCHANGED <<dmaVars, allocated, ks, target, at, i2s, copy, dmaThread,
                 isActive, program>>

\* Microcode that addresses the buffer addresses freed memory from now on.
FreeAudioBuffer(d) ==
  /\ buffer' = [buffer EXCEPT ![d] = FALSE]
  /\ program' = [program EXCEPT ![d] = IF @ = "live" THEN "stale" ELSE @]

\* The destructor: PortCls stops the stream, then frees buffer and stream.
Close(d) ==
  /\ allocated[d] = 1 /\ ks[d] = "STOP" /\ At(d, "idle")
  /\ StreamClosed(d)
  /\ FreeAudioBuffer(d)
  /\ UNCHANGED <<dmaVars, ks, target, at, i2s, copy, dmaThread, isActive>>

\* KS walks between neighbouring states; the port repeats none of them.
Neighbours == {<<"STOP", "ACQUIRE">>, <<"ACQUIRE", "PAUSE">>, <<"PAUSE", "RUN">>}
Step(a, b) == <<a, b>> \in Neighbours \/ <<b, a>> \in Neighbours

\* SetState up to its first call below.
SetState(d, s) ==
  /\ buffer[d] /\ At(d, "idle") /\ Step(ks[d], s)
  /\ target' = [target EXCEPT ![d] = s]
  /\ CASE s = "RUN"     -> Move(d, "acquire") /\ UNCHANGED ks
       [] s = "ACQUIRE" -> ks' = [ks EXCEPT ![d] = s] /\ UNCHANGED at
       [] OTHER         -> Move(d, "stop") /\ UNCHANGED ks
  /\ UNCHANGED <<dmaVars, allocated, buffer, i2s, copy, dmaThread, isActive,
                 program>>

\* The end of SetState: m_KsState changes unless AcquireDMA failed.
Return(d, ok) ==
  /\ Move(d, "idle")
  /\ ks' = [ks EXCEPT ![d] = IF ok THEN target[d] ELSE @]

-----------------------------------------------------------------------------
(* rk3x_program_dma and rk3x_play.                                         *)

\* A stream that still has a channel keeps it, and is not submitted again.
ProgramDma(d) ==
  /\ At(d, "acquire")
  /\ LET c == Handle(ChannelOf[d]) IN
       \/ /\ dmaThread[d] # None /\ Move(d, "play")
          /\ UNCHANGED <<isFree, pc, loc, dmaThread, program, ks>>
       \/ /\ dmaThread[d] = None /\ c = None /\ Return(d, FALSE)
          /\ UNCHANGED <<isFree, pc, loc, dmaThread, program>>
       \/ /\ dmaThread[d] = None /\ c # None
          /\ TakeHandle(c)
          /\ dmaThread' = [dmaThread EXCEPT ![d] = c]
          /\ program' = [program EXCEPT ![d] = "live"]
          /\ EnterDma(d, "start", c) /\ Move(d, "starting")
          /\ UNCHANGED ks
  /\ UNCHANGED <<hw, reqRunning, bounds, allocated, buffer, target, i2s, copy,
                 isActive>>

\* SubmitAudioDMA has returned.
Submitted(d) ==
  /\ At(d, "starting") /\ pc[d] = "ready" /\ Move(d, "play")
  /\ UNCHANGED <<dmaVars, allocated, buffer, ks, target, i2s, copy, dmaThread,
                 isActive, program>>

\* rk3x_play, whose status SetState drops.
Play(d) ==
  /\ At(d, "play")
  /\ IF isActive[d] THEN Return(d, TRUE) ELSE Move(d, "TDE") /\ UNCHANGED ks
  /\ UNCHANGED <<dmaVars, allocated, buffer, target, i2s, copy, dmaThread,
                 isActive, program>>

-----------------------------------------------------------------------------
(* i2s_update32: the read, and the write of what was read with d's bit     *)
(* changed.                                                                *)

NextPlace == [TDE |-> "TXS", TXS |-> "active", noTDE |-> "noTXS",
              noTXS |-> "stopDma", clr |-> "poll", noClr |-> "stopped"]

UpdateRead(d, u) ==
  /\ At(d, u) /\ copy[d] = {}
  /\ copy' = [copy EXCEPT ![d] = {i2s[RegOf[u]]}]
  /\ UNCHANGED <<dmaVars, allocated, buffer, ks, target, at, i2s, dmaThread,
                 isActive, program>>

UpdateWrite(d, u) ==
  /\ At(d, u) /\ Move(d, NextPlace[u])
  /\ \E old \in copy[d] :
       i2s' = [i2s EXCEPT ![RegOf[u]] = IF Sets(u) THEN old \cup {d} ELSE old \ {d}]
  /\ copy' = [copy EXCEPT ![d] = {}]
  /\ clash' = (clash \/ \E e \in Streams \ {d}, w \in Updates :
                          At(e, w) /\ RegOf[w] = RegOf[u] /\ copy[e] # {})
  /\ UNCHANGED <<hw, threads, caller, lost, faults, allocated, buffer, ks,
                 target, dmaThread, isActive, program>>

Active(d) ==
  /\ At(d, "active") /\ Return(d, TRUE)
  /\ isActive' = [isActive EXCEPT ![d] = TRUE]
  /\ UNCHANGED <<dmaVars, allocated, buffer, target, i2s, copy, dmaThread,
                 program>>

-----------------------------------------------------------------------------
(* rk3x_stop.                                                              *)

\* Variant: the channel is given back without being stopped.
StopDmaForgotten(d) ==
  /\ At(d, "stopDma") /\ Move(d, "stopping")
  /\ UNCHANGED <<dmaVars, allocated, buffer, ks, target, i2s, copy, dmaThread,
                 isActive, program>>

\* A stream that never became active keeps its channel.
Stop(d) ==
  /\ At(d, "stop")
  /\ IF isActive[d] /\ dmaThread[d] # None
       THEN Move(d, "noTDE") /\ UNCHANGED ks
       ELSE Return(d, TRUE)
  /\ UNCHANGED <<dmaVars, allocated, buffer, target, i2s, copy, dmaThread,
                 isActive, program>>

StopDma(d) ==
  /\ At(d, "stopDma") /\ Move(d, "stopping")
  /\ EnterDma(d, "stop", dmaThread[d])
  /\ UNCHANGED <<hw, threads, bounds, allocated, buffer, ks, target, i2s, copy,
                 dmaThread, isActive, program>>

FreeChannel(d) ==
  /\ At(d, "stopping") /\ pc[d] = "ready" /\ Move(d, "clr")
  /\ FreeHandle(dmaThread[d])
  /\ UNCHANGED <<hw, reqRunning, caller, bounds, allocated, buffer, ks, target,
                 i2s, copy, dmaThread, isActive, program>>

\* The FIFO clears its bit in time, or the ten polls end without it.
Poll(d) ==
  /\ At(d, "poll") /\ Move(d, "noClr")
  /\ \/ i2s' = [i2s EXCEPT !["CLR"] = @ \ {d}]
     \/ UNCHANGED i2s
  /\ UNCHANGED <<dmaVars, allocated, buffer, ks, target, copy, dmaThread,
                 isActive, program>>

Stopped(d) ==
  /\ At(d, "stopped") /\ Return(d, TRUE)
  /\ dmaThread' = [dmaThread EXCEPT ![d] = None]
  /\ isActive' = [isActive EXCEPT ![d] = FALSE]
  /\ UNCHANGED <<dmaVars, allocated, buffer, target, i2s, copy, program>>

-----------------------------------------------------------------------------
Dma(d) == CallerStep(d) /\ UNCHANGED streamVars

CallStep(d) ==
  \/ Dma(d) \/ ProgramDma(d) \/ Submitted(d) \/ Play(d) \/ Active(d)
  \/ Stop(d) \/ StopDma(d) \/ FreeChannel(d) \/ Poll(d) \/ Stopped(d)
  \/ \E u \in Updates : UpdateRead(d, u) \/ UpdateWrite(d, u)

Port(d) ==
  \/ NewStream(d) \/ AllocateAudioBuffer(d) \/ Close(d)
  \/ \E s \in KsStates : SetState(d, s)

\* States in which no register sequences have overlapped yet.
NoClash == ~clash

Hardware == DmaEnv /\ UNCHANGED streamVars

Next == \/ Hardware
        \/ \E d \in Streams : CallStep(d) \/ Port(d)

Spec == Init /\ [][Next]_vars

\* A call in progress keeps running and the controller keeps settling.
FairSpec == /\ Spec
            /\ \A d \in Streams : WF_vars(CallStep(d))
            /\ \A c \in Chans : WF_vars(Settle(c) /\ UNCHANGED streamVars)

-----------------------------------------------------------------------------
(* Properties.                                                             *)

Undisturbed == ~clash /\ lost = 0

\* A stream that SetState has left in RUN is being transferred: its channel
\* executes the program of its own buffer and signals its periods, and the
\* I2S side requests the data, whatever the other stream did meanwhile, as
\* long as no register sequences overlapped and no instruction was dropped.
RunMeansDma ==
  \A d \in Streams :
    Undisturbed /\ faults = 0 /\ ks[d] = "RUN" /\ At(d, "idle") =>
      /\ cs[ChannelOf[d]] = "EXECUTING" /\ runs[ChannelOf[d]] = ChannelOf[d]
      /\ program[d] = "live" /\ ChannelOf[d] \in inten
      /\ d \in i2s["DMACR"] \cap i2s["XFER"]

\* No channel still runs a program that addresses a buffer PortCls has freed,
\* after faults and restarts too.
NoDmaIntoFreedBuffer ==
  \A d \in Streams :
    Undisturbed => ~(cs[ChannelOf[d]] = "EXECUTING" /\ program[d] = "stale")

\* A stopped stream has given its channel back, so that it can be started
\* again: FreeHandle was not refused by a ReqRunning left over.
ChannelComesBack ==
  \A d \in Streams :
    Undisturbed /\ dmaThread[d] = None /\ At(d, "idle") => ChannelOf[d] \in isFree

\* Every SetState returns: none of the UNTIL loops waits for a state that the
\* channel will not reach.
CallsReturn ==
  \A d \in Streams : At(d, "acquire") \/ At(d, "stop") ~> At(d, "idle") \/ ~Undisturbed
=============================================================================
