-------------------------- MODULE AudioStreamProofs --------------------------
(***************************************************************************)
(* For any number of streams, each with a channel of its own: as long as   *)
(* no register sequences overlap and no debug instruction is dropped, what *)
(* a stream is at says what its channel, its flags and its half of the I2S *)
(* registers are, whatever the other streams and the controller do.        *)
(*                                                                         *)
(* The last section is about AudioAdapter: what is given back after calls  *)
(* of StartDevice have failed.                                             *)
(***************************************************************************)
EXTENDS AudioStream, AudioAdapter, TLAPS

C(d) == ChannelOf[d]

-----------------------------------------------------------------------------
(* What holds even where register sequences overlap: the types, and that a *)
(* caller inside the DMA driver is there for the channel of its stream.    *)

OwnChannel ==
  \A d \in Streams :
    /\ pc[d] # "ready" => loc[d].ch = C(d)
    /\ dmaThread[d] \in {None, C(d)}
    /\ at[d] \in {"noTDE", "noTXS", "stopDma", "stopping"} => dmaThread[d] = C(d)

-----------------------------------------------------------------------------
(* What a stream is at.                                                    *)

\* The channel is the stream's from the GO in SubmitAudioDMA to the KILL in
\* StopDMA.
Up(d) ==
  \/ at[d] \in {"play", "TDE", "TXS", "active", "noTDE", "noTXS", "stopDma"}
  \/ at[d] \in {"idle", "stop"} /\ ks[d] = "RUN"
  \/ at[d] = "starting" /\ pc[d] \in {"trigEnd", "ready"}
  \/ at[d] = "stopping" /\ pc[d] \in {"stop", "stopWait"} \cup DbgLabels

InRun(d) == at[d] \in {"idle", "stop"} /\ ks[d] = "RUN"

Halting == {"noTDE", "noTXS", "stopDma", "stopping", "clr", "poll", "noClr", "stopped"}
HandedBack == {"clr", "poll", "noClr", "stopped"}

\* Where the call of the stream and its caller in the DMA driver are together.
PlaceOK(d) ==
  /\ at[d] \notin {"starting", "stopping"} => pc[d] = "ready"
  /\ at[d] = "starting" =>
       \/ pc[d] \in {"ready", "start", "startUntil", "trigger", "trigInten", "trigEnd"}
       \/ pc[d] \in DbgLabels /\ loc[d].insn = "GO" /\ loc[d].ret = "trigEnd"
  /\ at[d] = "stopping" =>
       /\ \/ pc[d] \in {"ready", "stop", "stopWait", "stopEnd"}
          \/ pc[d] \in DbgLabels /\ loc[d].insn = "KILL" /\ loc[d].ret = "stopEnd"
       /\ pc[d] # "ready" => ~loc[d].nested
  /\ at[d] \in {"acquire", "starting", "play", "TDE", "TXS", "active"} =>
       target[d] = "RUN" /\ ks[d] # "RUN"
  /\ at[d] \in {"stop"} \cup Halting => target[d] # "RUN"

\* What the stream remembers of its channel.
FlagsOK(d) ==
  /\ dmaThread[d] # None <=> Up(d) \/ at[d] \in {"starting", "stopping"} \cup HandedBack
  /\ isActive[d] <=> InRun(d) \/ at[d] \in Halting
  /\ C(d) \in isFree <=> dmaThread[d] = None \/ at[d] \in HandedBack
  /\ C(d) \in reqRunning <=> \/ Up(d) /\ ~(at[d] = "starting" /\ pc[d] = "trigEnd")
                             \/ at[d] = "stopping" /\ pc[d] = "stopEnd"

\* What the controller does with it: it executes the stream's own microcode
\* unless it has faulted, or is at rest or coming to it.
ChannelOK(d) ==
  /\ Up(d) => /\ cs[C(d)] \in {"EXECUTING", "FAULT_COMPLETING", "FAULTING"}
              /\ faults = 0 => cs[C(d)] = "EXECUTING"
              /\ runs[C(d)] = C(d) /\ program[d] = "live" /\ C(d) \in inten
  /\ ~Up(d) => cs[C(d)] \in {"STOPPED", "KILLING"}
  /\ at[d] = "starting" /\ pc[d] \in {"trigger", "trigInten"} \cup DbgLabels =>
       cs[C(d)] = "STOPPED" /\ program[d] = "live"
  /\ at[d] = "starting" => program[d] = "live"
  /\ at[d] = "starting" /\ pc[d] \in DbgLabels => C(d) \in inten

I2sOK(d) ==
  /\ at[d] \in {"TXS", "active", "noTDE"} \/ InRun(d) => d \in i2s["DMACR"]
  /\ at[d] \in {"active", "noTDE", "noTXS"} \/ InRun(d) => d \in i2s["XFER"]

StreamOK(d) == PlaceOK(d) /\ FlagsOK(d) /\ ChannelOK(d) /\ I2sOK(d)

-----------------------------------------------------------------------------
(* What a caller has read of a shared register, or written to one, is what *)
(* it still holds.                                                         *)

HoldsInten(d) ==
  \/ pc[d] \in {"trigInten", "stopWait", "stopEnd"}
  \/ pc[d] \in DbgLabels /\ loc[d].insn = "KILL"

CopiesFresh(d) ==
  /\ HoldsInten(d) => loc[d].inten = inten
  /\ pc[d] \in {"dbgInst1", "dbgCmd"} => dbg0 = <<loc[d].insn, C(d)>>
  /\ pc[d] = "dbgCmd" /\ loc[d].insn = "GO" => dbg1 = C(d)
  /\ copy[d] # {} =>
       /\ at[d] \in Updates
       /\ RegOf[at[d]] # "CLR" => copy[d] = {i2s[RegOf[at[d]]]}

StreamsInv == Undisturbed => \A d \in Streams : StreamOK(d) /\ CopiesFresh(d)

IInv == TypeOK /\ OwnChannel /\ StreamsInv

-----------------------------------------------------------------------------
(* Types, and the channel a caller is there for.                           *)

Typed == TypeOK /\ OwnChannel

\* The channel of a stream is one, and its own.
LEMMA Channels ==
  /\ \A d \in Streams : C(d) \in Chans /\ C(d) # None
  /\ \A d, e \in Streams : C(d) = C(e) => d = e
BY ChannelAssumption, ChanAssumption DEF C, Streams

\* A step of a caller: its label and its locals change, no one else's.
Moves(d, l, r) == pc' = [pc EXCEPT ![d] = l] /\ loc' = [loc EXCEPT ![d] = r]

CallerTyped == pc' \in [Callers -> Labels] /\ loc' \in [Callers -> Locals] /\ OwnChannel'

\* A caller leaves, or goes on with what it has read.
LEMMA Moved ==
  ASSUME Typed, NEW d \in Streams, NEW l \in Labels, NEW r \in Locals, Moves(d, l, r),
         l # "ready" => r.ch = C(d), UNCHANGED <<at, dmaThread>>
  PROVE  CallerTyped
BY DEF Typed, TypeOK, DmaTypeOK, OwnChannel, Moves, CallerTyped, Streams

LEMMA MovesTyped ==
  ASSUME Typed, NEW d \in Streams, UNCHANGED <<at, dmaThread>>, pc[d] # "ready",
         \/ Leave(d)
         \/ \E l \in Labels :
              /\ Goto(d, l)
              /\ \/ loc' = loc
                 \/ loc' = [loc EXCEPT ![d].nested = TRUE]
                 \/ loc' = [loc EXCEPT ![d].inten = inten]
         \/ \E i \in Insns, l \in Labels : Execute(d, i, l)
  PROVE  CallerTyped
<1>1. /\ d \in Callers /\ loc[d] \in Locals /\ inten \in SUBSET Chans
      /\ loc[d].ch = C(d) /\ "ready" \in Labels /\ "dbgIdle" \in Labels
      /\ loc = [loc EXCEPT ![d] = loc[d]]
  BY DEF Typed, TypeOK, DmaTypeOK, OwnChannel, Streams, Labels, DbgLabels
<1>2. CASE Leave(d)
  <2>1. Moves(d, "ready", NoLocals)
    BY <1>2 DEF Leave, Goto, Moves
  <2>2. NoLocals \in Locals
    BY DEF NoLocals, Locals, Insns, Labels
  <2> QED BY <1>1, <2>1, <2>2, Moved
<1>3. ASSUME NEW l \in Labels, Goto(d, l), loc' = loc
      PROVE  CallerTyped
  <2>1. Moves(d, l, loc[d])
    BY <1>1, <1>3 DEF Goto, Moves
  <2> QED BY <1>1, <2>1, Moved
<1>4. ASSUME NEW l \in Labels, Goto(d, l), loc' = [loc EXCEPT ![d].nested = TRUE]
      PROVE  CallerTyped
  <2> DEFINE r == [loc[d] EXCEPT !.nested = TRUE]
  <2>1. Moves(d, l, r)
    BY <1>4 DEF Goto, Moves
  <2>2. r \in Locals /\ r.ch = C(d)
    BY <1>1 DEF Locals
  <2> HIDE DEF r
  <2> QED BY <2>1, <2>2, Moved
<1>5. ASSUME NEW l \in Labels, Goto(d, l), loc' = [loc EXCEPT ![d].inten = inten]
      PROVE  CallerTyped
  <2> DEFINE r == [loc[d] EXCEPT !.inten = inten]
  <2>1. Moves(d, l, r)
    BY <1>5 DEF Goto, Moves
  <2>2. r \in Locals /\ r.ch = C(d)
    BY <1>1 DEF Locals
  <2> HIDE DEF r
  <2> QED BY <2>1, <2>2, Moved
<1>6. ASSUME NEW i \in Insns, NEW l \in Labels, Execute(d, i, l)
      PROVE  CallerTyped
  <2> DEFINE r == [loc[d] EXCEPT !.insn = i, !.ret = l]
  <2>1. Moves(d, "dbgIdle", r)
    BY <1>6 DEF Execute, Goto, Moves
  <2>2. r \in Locals /\ r.ch = C(d)
    BY <1>1 DEF Locals
  <2> HIDE DEF r
  <2> QED BY <1>1, <2>1, <2>2, Moved
<1> QED BY <1>2, <1>3, <1>4, <1>5, <1>6

\* A caller in the DMA driver.
LEMMA CallersTyped ==
  ASSUME Typed, NEW d \in Streams, Dma(d)
  PROVE  CallerTyped
<1>1. UNCHANGED <<at, dmaThread>> /\ loc[d].ret \in Labels
  BY DEF Dma, streamVars, Typed, TypeOK, DmaTypeOK, Locals, Streams
<1>2. CASE Start(d)
  <2>1. cs[Chan(d)] \in States
    BY <1>2, Channels DEF Start, Typed, OwnChannel, TypeOK, DmaTypeOK, Chan, Streams
  <2>2. \/ Leave(d)
        \/ /\ loc' = [loc EXCEPT ![d].nested = TRUE]
           /\ Goto(d, "startFc") \/ Goto(d, "stop") \/ Goto(d, "startUntil") \/ Goto(d, "trigger")
    BY <1>2, <2>1 DEF Start, States
  <2>3. {"startFc", "stop", "startUntil", "trigger"} \subseteq Labels
    BY DEF Labels
  <2> QED BY <1>1, <1>2, <2>2, <2>3, MovesTyped DEF Start
<1>3. CASE StartFc(d) \/ StartUntil(d)
  BY <1>1, <1>3, MovesTyped DEF StartFc, StartUntil, Labels
<1>4. CASE Trigger(d)
  BY <1>1, <1>4, MovesTyped DEF Trigger, Labels
<1>5. CASE TrigInten(d)
  BY <1>1, <1>5, MovesTyped DEF TrigInten, Labels, Insns
<1>6. CASE TrigEnd(d)
  BY <1>1, <1>6, MovesTyped DEF TrigEnd
<1>7. CASE StopRead(d)
  BY <1>1, <1>7, MovesTyped DEF StopRead, Labels
<1>8. CASE StopWait(d)
  BY <1>1, <1>8, MovesTyped DEF StopWait, AfterStop, Labels, Insns
<1>9. CASE StopEnd(d)
  BY <1>1, <1>9, MovesTyped DEF StopEnd, AfterStop, Labels
<1>10. CASE DbgIdle(d)
  BY <1>1, <1>10, MovesTyped DEF DbgIdle, Labels, DbgLabels
<1>11. CASE DbgInst0(d) \/ DbgInst1(d)
  BY <1>1, <1>11, MovesTyped DEF DbgInst0, DbgInst1, Labels, DbgLabels
<1>12. CASE DbgCmd(d)
  BY <1>1, <1>12, MovesTyped DEF DbgCmd
<1> QED BY <1>2, <1>3, <1>4, <1>5, <1>6, <1>7, <1>8, <1>9, <1>10, <1>11, <1>12 DEF Dma, CallerStep

LEMMA DmaTyped ==
  ASSUME Typed, NEW d \in Streams, Dma(d)
  PROVE  Typed'
<1>1. CallerTyped
  BY CallersTyped
<1>2. /\ d \in Callers /\ cs \in [Chans -> States] /\ runs \in [Chans -> Chans \cup {None}]
      /\ inten \subseteq Chans /\ dbg0 \in (Insns \X Chans) \cup {<<>>} /\ dbg1 \in Chans \cup {None}
      /\ isFree \subseteq Chans /\ reqRunning \subseteq Chans
      /\ lost \in 0 .. MaxLost /\ faults \in 0 .. MaxFaults /\ clash \in BOOLEAN
      /\ loc[d] \in Locals /\ loc[d].inten \subseteq Chans
      /\ pc[d] # "ready" => Chan(d) \in Chans
  BY Channels DEF Typed, OwnChannel, TypeOK, DmaTypeOK, Streams, Chan, Locals
<1>3. cs' \in [Chans -> States] /\ runs' \in [Chans -> Chans \cup {None}]
  <2>1. CASE DbgCmd(d)
    BY <1>2, <2>1 DEF DbgCmd, States
  <2> QED BY <1>2, <2>1 DEF Dma, CallerStep, Start, StartFc, StartUntil, Trigger, TrigInten, TrigEnd,
                            StopRead, StopWait, StopEnd, DbgIdle, DbgInst0, DbgInst1, hw
<1>4. inten' \subseteq Chans /\ isFree' \subseteq Chans /\ reqRunning' \subseteq Chans
  BY <1>2 DEF Dma, CallerStep, Start, StartFc, StartUntil, Trigger, TrigInten, TrigEnd, StopRead, StopWait,
              StopEnd, DbgIdle, DbgInst0, DbgInst1, DbgCmd, hw, threads
<1>5. dbg0' \in (Insns \X Chans) \cup {<<>>} /\ dbg1' \in Chans \cup {None}
  <2>1. CASE DbgInst0(d)
    BY <1>2, <2>1 DEF DbgInst0, Locals
  <2>2. CASE DbgInst1(d)
    BY <1>2, <2>2 DEF DbgInst1
  <2> QED BY <1>2, <2>1, <2>2 DEF Dma, CallerStep, Start, StartFc, StartUntil, Trigger, TrigInten, TrigEnd,
                                  StopRead, StopWait, StopEnd, DbgIdle, DbgCmd, hw
<1>6. lost' \in 0 .. MaxLost /\ faults' = faults
  BY <1>2, BoundsAssumption DEF Dma, CallerStep, Start, StartFc, StartUntil, Trigger, TrigInten, TrigEnd, StopRead,
              StopWait, StopEnd, DbgIdle, DbgInst0, DbgInst1, DbgCmd, bounds
<1>7. clash' \in BOOLEAN
  <2>1. clash' = clash \/ clash' = (clash \/ StaleInten(d)) \/ clash' = (clash \/ Overlap(d))
    BY DEF Dma, CallerStep, Start, StartFc, StartUntil, Trigger, TrigInten, TrigEnd, StopRead,
           StopWait, StopEnd, DbgIdle, DbgInst0, DbgInst1, DbgCmd, bounds
  <2>2. StaleInten(d) \in BOOLEAN /\ Overlap(d) \in BOOLEAN
    BY DEF StaleInten, Overlap
  <2> QED BY <1>2, <2>1, <2>2, Zenon
<1>8. UNCHANGED streamVars
  BY DEF Dma
<1> QED
  BY <1>1, <1>2, <1>3, <1>4, <1>5, <1>6, <1>7, <1>8
     DEF Typed, TypeOK, DmaTypeOK, CallerTyped, streamVars

\* The steps of a stream outside the DMA driver.
Own(d) ==
  \/ ProgramDma(d) \/ Submitted(d) \/ Play(d) \/ Active(d)
  \/ Stop(d) \/ StopDma(d) \/ FreeChannel(d) \/ Poll(d) \/ Stopped(d)
  \/ \E u \in Updates : UpdateRead(d, u) \/ UpdateWrite(d, u)

LEMMA UpdatePlaces ==
  /\ Updates = {"TDE", "noTDE", "TXS", "noTXS", "clr", "noClr"}
  /\ \A u \in Updates : RegOf[u] \in Regs /\ NextPlace[u] \in Places \ {"starting", "stopping"}
BY DEF Updates, RegOf, NextPlace, Places, Regs

LEMMA EnterTyped ==
  ASSUME Typed, NEW d \in Streams, NEW l \in {"start", "stop"}, EnterDma(d, l, C(d)),
         dmaThread'[d] = C(d), \A e \in Streams \ {d} : dmaThread'[e] = dmaThread[e] /\ at'[e] = at[e]
  PROVE  CallerTyped
<1> DEFINE r == [loc[d] EXCEPT !.ch = C(d), !.nested = FALSE]
<1>1. loc[d] \in Locals /\ C(d) \in Chans /\ l \in Labels /\ d \in Callers
  BY Channels DEF Typed, TypeOK, DmaTypeOK, Streams, Labels
<1>2. r \in Locals /\ r.ch = C(d)
  BY <1>1 DEF Locals
<1>3. pc' = [pc EXCEPT ![d] = l] /\ loc' = [loc EXCEPT ![d] = r]
  BY DEF EnterDma, Goto
<1> HIDE DEF r
<1> QED BY <1>1, <1>2, <1>3 DEF Typed, TypeOK, DmaTypeOK, OwnChannel, CallerTyped, Streams

\* A step that leaves the DMA driver alone.
LEMMA PlacesTyped ==
  ASSUME Typed, NEW d \in Streams, NEW p \in Places, Move(d, p), UNCHANGED <<caller, dmaThread>>,
         p \in {"noTDE", "noTXS", "stopDma", "stopping"} => dmaThread[d] = C(d)
  PROVE  CallerTyped /\ at' \in [Streams -> Places]
BY DEF Typed, TypeOK, DmaTypeOK, OwnChannel, CallerTyped, Move, caller, Streams

LEMMA OwnTyped ==
  ASSUME Typed, NEW d \in Streams, Own(d) \/ Port(d)
  PROVE  Typed'
<1> USE DEF Typed, TypeOK, DmaTypeOK, Streams
<1>1. CASE ProgramDma(d)
  <2>1. CASE UNCHANGED <<pc, loc, dmaThread>>
    <3>1. PICK p \in {"play", "idle"} : Move(d, p)
      BY <1>1, <2>1 DEF ProgramDma, Return
    <3>2. CallerTyped /\ at' \in [Streams -> Places]
      BY <2>1, <3>1, PlacesTyped DEF Places, caller
    <3> QED BY <1>1, <2>1, <3>2 DEF ProgramDma, Return, CallerTyped, TakeHandle, hw, bounds
  <2>2. CASE ~UNCHANGED <<pc, loc, dmaThread>>
    <3>1. /\ dmaThread' = [dmaThread EXCEPT ![d] = C(d)] /\ EnterDma(d, "start", C(d)) /\ Move(d, "starting")
          /\ program' = [program EXCEPT ![d] = "live"] /\ isFree' \subseteq isFree /\ ks' = ks
          /\ UNCHANGED <<hw, reqRunning, bounds, allocated, buffer, target, i2s, copy, isActive>>
      BY <1>1, <2>2 DEF ProgramDma, Handle, TakeHandle, C
    <3>2. CallerTyped
      BY <3>1, EnterTyped DEF Move
    <3> QED BY <3>1, <3>2, Channels DEF CallerTyped, Move, Places, hw, bounds
  <2> QED BY <2>1, <2>2
<1>2. CASE Submitted(d) \/ Play(d) \/ Active(d)
  <2>1. PICK p \in {"play", "idle", "TDE"} : Move(d, p)
    BY <1>2 DEF Submitted, Play, Active, Return
  <2>2. UNCHANGED <<dmaVars, allocated, buffer, target, i2s, copy, dmaThread, program>>
        /\ ks' \in [Streams -> KsStates] /\ isActive' \in [Streams -> BOOLEAN]
    BY <1>2 DEF Submitted, Play, Active, Return
  <2>3. CallerTyped /\ at' \in [Streams -> Places]
    BY <2>1, <2>2, PlacesTyped, UpdatePlaces DEF Places, dmaVars, caller
  <2> QED BY <2>2, <2>3 DEF CallerTyped, dmaVars, hw, threads, bounds, caller
<1>3. CASE Stop(d)
  <2>1. PICK p \in {"noTDE", "idle"} : Move(d, p) /\ (p = "noTDE" => dmaThread[d] = C(d))
    BY <1>3 DEF Stop, Return, OwnChannel
  <2>2. UNCHANGED <<dmaVars, allocated, buffer, target, i2s, copy, dmaThread, program, isActive>>
        /\ ks' \in [Streams -> KsStates]
    BY <1>3 DEF Stop, Return
  <2>3. CallerTyped /\ at' \in [Streams -> Places]
    BY <2>1, <2>2, PlacesTyped, UpdatePlaces DEF Places, dmaVars, caller
  <2> QED BY <2>2, <2>3 DEF CallerTyped, dmaVars, hw, threads, bounds, caller
<1>4. CASE StopDma(d)
  <2>1. dmaThread[d] = C(d)
    BY <1>4 DEF StopDma, At, OwnChannel
  <2>2. CallerTyped
    BY <1>4, <2>1, EnterTyped DEF StopDma, Move
  <2> QED BY <1>4, <2>2 DEF StopDma, Move, Places, CallerTyped, hw, threads, bounds
<1>5. CASE FreeChannel(d)
  <2>1. CallerTyped /\ at' \in [Streams -> Places]
    BY <1>5, PlacesTyped, UpdatePlaces DEF FreeChannel, Places
  <2>2. isFree' \subseteq Chans
    <3>1. dmaThread[d] \in Chans
      BY <1>5, Channels DEF FreeChannel, At, OwnChannel
    <3> QED BY <1>5, <3>1 DEF FreeChannel, FreeHandle
  <2> QED BY <1>5, <2>1, <2>2 DEF FreeChannel, CallerTyped, hw, bounds, caller
<1>6. CASE Poll(d)
  <2>1. CallerTyped /\ at' \in [Streams -> Places]
    BY <1>6, PlacesTyped, UpdatePlaces DEF Poll, Places, dmaVars, caller
  <2>2. i2s' \in [Regs -> SUBSET Streams]
    BY <1>6 DEF Poll, Regs
  <2> QED BY <1>6, <2>1, <2>2 DEF Poll, CallerTyped, dmaVars, hw, threads, bounds, caller
<1>7. CASE Stopped(d)
  <2>1. at' \in [Streams -> Places] /\ OwnChannel'
    BY <1>7 DEF Stopped, Return, Move, OwnChannel, Places, dmaVars, caller
  <2> QED BY <1>7, <2>1 DEF Stopped, Return, CallerTyped, dmaVars, hw, threads, bounds, caller
<1>8. ASSUME NEW u \in Updates, UpdateRead(d, u)
      PROVE  Typed'
  <2>1. copy' \in [Streams -> SUBSET SUBSET Streams]
    BY <1>8, UpdatePlaces DEF UpdateRead
  <2>2. OwnChannel'
    BY <1>8 DEF UpdateRead, OwnChannel, dmaVars, caller
  <2> QED BY <1>8, <2>1, <2>2 DEF UpdateRead, dmaVars, hw, threads, bounds, caller
<1>9. ASSUME NEW u \in Updates, UpdateWrite(d, u)
      PROVE  Typed'
  <2>1. at[d] = u /\ Move(d, NextPlace[u]) /\ NextPlace[u] \in Places
        /\ UNCHANGED <<hw, threads, caller, lost, faults, allocated, buffer, ks,
                       target, dmaThread, isActive, program>>
    BY <1>9, UpdatePlaces DEF UpdateWrite, At
  <2>2. NextPlace[u] \in {"noTDE", "noTXS", "stopDma", "stopping"} => u \in {"noTDE", "noTXS"}
    BY UpdatePlaces DEF NextPlace
  <2>3. CallerTyped /\ at' \in [Streams -> Places]
    BY <2>1, <2>2, PlacesTyped DEF OwnChannel, caller
  <2>4. i2s' \in [Regs -> SUBSET Streams] /\ copy' \in [Streams -> SUBSET SUBSET Streams]
    <3>1. PICK old \in copy[d] :
            i2s' = [i2s EXCEPT ![RegOf[u]] = IF Sets(u) THEN old \cup {d} ELSE old \ {d}]
      BY <1>9 DEF UpdateWrite
    <3>2. old \subseteq Streams
      OBVIOUS
    <3>3. copy' = [copy EXCEPT ![d] = {}]
      BY <1>9 DEF UpdateWrite
    <3> QED BY <3>1, <3>2, <3>3, ZenonT(40)
  <2>5. clash' \in BOOLEAN
    <3> DEFINE overlap == \E e \in Streams \ {d}, w \in Updates :
                            At(e, w) /\ RegOf[w] = RegOf[u] /\ copy[e] # {}
    <3>1. clash' = (clash \/ overlap)
      BY <1>9 DEF UpdateWrite
    <3>2. clash \in BOOLEAN /\ overlap \in BOOLEAN
      OBVIOUS
    <3> HIDE DEF overlap
    <3> QED BY <3>1, <3>2, Zenon
  <2> QED BY <2>1, <2>3, <2>4, <2>5 DEF CallerTyped, hw, threads, caller
<1>10. CASE NewStream(d) \/ AllocateAudioBuffer(d)
  <2>1. allocated' \in [Streams -> 0 .. MaxSystemStreams] /\ buffer' \in [Streams -> BOOLEAN]
    <3>1. \/ allocated' = allocated
          \/ allocated[d] < 1 /\ allocated' = [allocated EXCEPT ![d] = allocated[d] + 1]
      BY <1>10 DEF NewStream, AllocateAudioBuffer, ValidateStreamCreate, StreamCreated, MaxSystemStreams
    <3>2. allocated[d] \in 0 .. 1 /\ (allocated[d] < 1 => allocated[d] + 1 \in 0 .. 1)
      BY DEF MaxSystemStreams
    <3>3. buffer' \in [Streams -> BOOLEAN]
      BY <1>10 DEF NewStream, AllocateAudioBuffer
    <3> QED BY <3>1, <3>2, <3>3 DEF MaxSystemStreams
  <2>2. UNCHANGED <<dmaVars, ks, target, at, i2s, copy, dmaThread, isActive, program>>
    BY <1>10 DEF NewStream, AllocateAudioBuffer
  <2> QED BY <2>1, <2>2 DEF OwnChannel, dmaVars, hw, threads, bounds, caller
<1>11. CASE Close(d)
  BY <1>11 DEF Close, StreamClosed, FreeAudioBuffer, MaxSystemStreams,
               OwnChannel, dmaVars, hw, threads, bounds, caller
<1>12. ASSUME NEW s \in KsStates, SetState(d, s)
       PROVE  Typed'
  <2>1. \/ at' = at
        \/ \E p \in {"acquire", "stop"} : Move(d, p)
    BY <1>12 DEF SetState
  <2>2. CallerTyped /\ at' \in [Streams -> Places]
    <3>1. CASE at' = at
      BY <1>12, <3>1 DEF SetState, CallerTyped, OwnChannel, dmaVars, caller
    <3> QED BY <1>12, <2>1, <3>1, PlacesTyped DEF SetState, Places, dmaVars, caller
  <2>3. ks' \in [Streams -> KsStates] /\ target' \in [Streams -> KsStates]
    BY <1>12 DEF SetState
  <2> QED BY <1>12, <2>2, <2>3 DEF SetState, CallerTyped, dmaVars, hw, threads, bounds, caller
<1> QED BY <1>1, <1>2, <1>3, <1>4, <1>5, <1>6, <1>7, <1>8, <1>9, <1>10, <1>11, <1>12 DEF Own, Port

LEMMA HardwareTyped ==
  ASSUME Typed, Hardware
  PROVE  Typed'
<1>1. UNCHANGED <<streamVars, inten, dbg0, dbg1, threads, caller, lost, clash>>
  BY DEF Hardware, DmaEnv, Fault, Settle, bounds
<1>2. PICK c \in Chans : Fault(c) \/ Settle(c)
  BY DEF Hardware, DmaEnv
<1>3. \E s \in States : cs' = [cs EXCEPT ![c] = s]
  BY <1>2 DEF Fault, Settle, States
<1>4. cs' \in [Chans -> States]
  BY <1>3 DEF Typed, TypeOK, DmaTypeOK
<1>5. runs' \in [Chans -> Chans \cup {None}] /\ faults' \in 0 .. MaxFaults
  <2>1. runs' = runs \/ runs' = [runs EXCEPT ![c] = None]
    BY <1>2 DEF Fault, Settle
  <2>2. faults' \in 0 .. MaxFaults
    BY <1>2, BoundsAssumption DEF Fault, Settle, bounds, Typed, TypeOK, DmaTypeOK
  <2> QED BY <2>1, <2>2 DEF Typed, TypeOK, DmaTypeOK
<1> QED BY <1>1, <1>4, <1>5 DEF Typed, TypeOK, DmaTypeOK, OwnChannel, streamVars, threads, caller

LEMMA StepsTyped == Typed /\ [Next]_vars => Typed'
<1> SUFFICES ASSUME Typed, [Next]_vars PROVE Typed'
  OBVIOUS
<1>1. CASE UNCHANGED vars
  BY <1>1 DEF Typed, TypeOK, DmaTypeOK, OwnChannel, vars, dmaVars, streamVars, hw, threads, caller, bounds
<1>2. CASE Hardware
  BY <1>2, HardwareTyped
<1>3. ASSUME NEW d \in Streams, CallStep(d) \/ Port(d)
      PROVE  Typed'
  BY <1>3, DmaTyped, OwnTyped DEF CallStep, Own
<1> QED BY <1>1, <1>2, <1>3 DEF Next

-----------------------------------------------------------------------------
(* What a step of one stream leaves of the others.                         *)

\* All that StreamOK and CopiesFresh say of d's own.
Untouched(d) ==
  /\ pc'[d] = pc[d] /\ loc'[d] = loc[d] /\ at'[d] = at[d] /\ ks'[d] = ks[d] /\ target'[d] = target[d]
  /\ dmaThread'[d] = dmaThread[d] /\ isActive'[d] = isActive[d] /\ program'[d] = program[d]
  /\ copy'[d] = copy[d]

\* And of what it shares.
Apart(d) ==
  /\ cs'[C(d)] = cs[C(d)] /\ runs'[C(d)] = runs[C(d)] /\ faults' = faults
  /\ C(d) \in isFree' <=> C(d) \in isFree
  /\ C(d) \in reqRunning' <=> C(d) \in reqRunning
  /\ C(d) \in inten' <=> C(d) \in inten
  /\ \A r \in {"DMACR", "XFER"} : d \in i2s'[r] <=> d \in i2s[r]

\* The overlaps and dropped instructions behind are never forgotten.
LEMMA QuietBefore ==
  ASSUME Typed, [Next]_vars, Undisturbed'
  PROVE  Undisturbed
<1> DEFINE Kept == clash' = clash \/ (\E x \in BOOLEAN : clash' = (clash \/ x))
<1>1. /\ lost \in Nat /\ clash \in BOOLEAN
      /\ lost' = 0 /\ clash' = FALSE
  <2>1. Typed'
    BY StepsTyped
  <2> QED BY <2>1, BoundsAssumption DEF Typed, TypeOK, DmaTypeOK, Undisturbed
<1>2. CASE UNCHANGED vars \/ Hardware
  BY <1>2 DEF vars, dmaVars, bounds, Hardware, DmaEnv, Fault, Settle, Undisturbed
<1>3. ASSUME NEW d \in Streams, Dma(d)
      PROVE  Kept /\ (lost' = lost \/ lost' = lost + 1)
  <2>1. clash' = clash \/ clash' = (clash \/ StaleInten(d)) \/ clash' = (clash \/ Overlap(d))
    BY <1>3 DEF Dma, CallerStep, Start, StartFc, StartUntil, Trigger, TrigInten, TrigEnd, StopRead,
           StopWait, StopEnd, DbgIdle, DbgInst0, DbgInst1, DbgCmd, bounds
  <2>2. lost' = lost \/ lost' = lost + 1
    BY <1>3 DEF Dma, CallerStep, Start, StartFc, StartUntil, Trigger, TrigInten, TrigEnd, StopRead,
           StopWait, StopEnd, DbgIdle, DbgInst0, DbgInst1, DbgCmd, bounds
  <2>3. StaleInten(d) \in BOOLEAN /\ Overlap(d) \in BOOLEAN
    BY DEF StaleInten, Overlap
  <2> QED BY <2>1, <2>2, <2>3, Zenon
<1>4. ASSUME NEW d \in Streams, Own(d)
      PROVE  Kept /\ lost' = lost
  <2>1. ASSUME NEW u \in Updates, UpdateWrite(d, u)
        PROVE  Kept /\ lost' = lost
    <3> DEFINE overlap == \E e \in Streams \ {d}, w \in Updates :
                            At(e, w) /\ RegOf[w] = RegOf[u] /\ copy[e] # {}
    <3>1. clash' = (clash \/ overlap) /\ lost' = lost
      BY <2>1 DEF UpdateWrite
    <3>2. overlap \in BOOLEAN
      OBVIOUS
    <3> HIDE DEF overlap
    <3> QED BY <3>1, <3>2, Zenon
  <2>2. ASSUME NEW u \in Updates, UpdateRead(d, u)
        PROVE  clash' = clash /\ lost' = lost
    BY <2>2 DEF UpdateRead, dmaVars, bounds
  <2>3. ProgramDma(d) => clash' = clash /\ lost' = lost
    BY DEF ProgramDma, bounds
  <2>4. Submitted(d) \/ Play(d) \/ Active(d) \/ Stop(d) => clash' = clash /\ lost' = lost
    BY DEF Submitted, Play, Active, Stop, dmaVars, bounds
  <2>5. StopDma(d) \/ FreeChannel(d) \/ Poll(d) \/ Stopped(d) => clash' = clash /\ lost' = lost
    BY DEF StopDma, FreeChannel, Poll, Stopped, dmaVars, bounds
  <2> HIDE DEF Kept
  <2>6. clash' = clash => Kept
    BY DEF Kept
  <2> QED BY <1>4, <2>1, <2>2, <2>3, <2>4, <2>5, <2>6 DEF Own
<1>5. ASSUME NEW d \in Streams, Port(d)
      PROVE  clash' = clash /\ lost' = lost
  BY <1>5 DEF Port, NewStream, AllocateAudioBuffer, Close, SetState, dmaVars, bounds
<1>6. Kept /\ (lost' = lost \/ lost' = lost + 1) => Undisturbed
  BY <1>1 DEF Undisturbed
<1> HIDE DEF Kept
<1>7. clash' = clash => Kept
  BY DEF Kept
<1> QED BY <1>2, <1>3, <1>4, <1>5, <1>6, <1>7 DEF Next, CallStep, Own

LEMMA OthersUntouched ==
  ASSUME Typed, NEW e \in Streams, CallStep(e) \/ Port(e), NEW d \in Streams \ {e}
  PROVE  Untouched(d)
BY DEF Typed, TypeOK, DmaTypeOK, Streams, CallStep, Port, Dma, CallerStep, Start, StartFc,
     StartUntil, Trigger, TrigInten, TrigEnd, StopRead, StopWait, StopEnd, DbgIdle, DbgInst0, DbgInst1, DbgCmd,
     ProgramDma, Submitted, Play, Active, Stop, StopDma, FreeChannel, Poll, Stopped, UpdateRead, UpdateWrite,
     NewStream, AllocateAudioBuffer, Close, SetState, Untouched, streamVars, dmaVars, caller,
     Move, Goto, Leave, EnterDma, Execute, AfterStop, Return, StreamClosed, StreamCreated, FreeAudioBuffer

\* A caller in the DMA driver is there for its own stream.
LEMMA InsideDma ==
  ASSUME Typed, NEW d \in Streams, Dma(d)
  PROVE  pc[d] # "ready" /\ Chan(d) = C(d) /\ loc[d] \in Locals /\ UNCHANGED streamVars
<1>1. pc[d] # "ready"
  BY DEF Dma, CallerStep, Start, StartFc, StartUntil, Trigger, TrigInten, TrigEnd, StopRead, StopWait,
         StopEnd, DbgIdle, DbgInst0, DbgInst1, DbgCmd
<1> QED BY <1>1 DEF Typed, TypeOK, DmaTypeOK, OwnChannel, Streams, Chan, Dma

\* What the stream e does in the DMA driver leaves the channel of d alone.
LEMMA DmaApart ==
  ASSUME Typed, NEW e \in Streams, CopiesFresh(e), Dma(e), NEW d \in Streams \ {e}
  PROVE  Apart(d)
<1>1. /\ C(e) \in Chans /\ C(d) \in Chans /\ C(e) # C(d)
      /\ Chan(e) = C(e) /\ UNCHANGED streamVars
  BY Channels, InsideDma
<1>2. UNCHANGED <<faults, isFree, i2s>>
  BY DEF Dma, streamVars, CallerStep, Start, StartFc, StartUntil, Trigger, TrigInten, TrigEnd, StopRead,
         StopWait, StopEnd, DbgIdle, DbgInst0, DbgInst1, DbgCmd, hw, threads, bounds
<1>3. cs'[C(d)] = cs[C(d)] /\ runs'[C(d)] = runs[C(d)]
  <2>1. CASE DbgCmd(e)
    <3>1. dbg0[2] = C(e)
      BY <2>1 DEF DbgCmd, CopiesFresh
    <3> QED BY <1>1, <2>1, <3>1 DEF DbgCmd, Typed, TypeOK, DmaTypeOK
  <2>2. CASE ~DbgCmd(e)
    BY <2>2 DEF Dma, CallerStep, Start, StartFc, StartUntil, Trigger, TrigInten, TrigEnd, StopRead,
                StopWait, StopEnd, DbgIdle, DbgInst0, DbgInst1, hw
  <2> QED BY <2>1, <2>2
<1>4. C(d) \in reqRunning' <=> C(d) \in reqRunning
  BY <1>1 DEF Dma, CallerStep, Start, StartFc, StartUntil, Trigger, TrigInten, TrigEnd, StopRead,
              StopWait, StopEnd, DbgIdle, DbgInst0, DbgInst1, DbgCmd, threads
<1>5. C(d) \in inten' <=> C(d) \in inten
  <2>1. CASE TrigInten(e) \/ StopEnd(e)
    BY <1>1, <2>1 DEF TrigInten, StopEnd, CopiesFresh, HoldsInten
  <2>2. CASE ~(TrigInten(e) \/ StopEnd(e))
    BY <2>2 DEF Dma, CallerStep, Start, StartFc, StartUntil, Trigger, TrigEnd, StopRead,
                StopWait, DbgIdle, DbgInst0, DbgInst1, DbgCmd, hw
  <2> QED BY <2>1, <2>2
<1> QED BY <1>2, <1>3, <1>4, <1>5 DEF Apart

\* Nor do its steps outside the driver touch what belongs to d.
LEMMA OwnApart ==
  ASSUME Typed, NEW e \in Streams, CopiesFresh(e), Own(e) \/ Port(e), NEW d \in Streams \ {e}
  PROVE  Apart(d)
<1>1. C(e) # C(d) /\ d # e
  BY Channels
<1>2. CASE ProgramDma(e)
  BY <1>1, <1>2 DEF ProgramDma, Handle, TakeHandle, Return, Apart, hw, bounds, C
<1>3. CASE Submitted(e) \/ Play(e) \/ Active(e) \/ Stop(e) \/ Stopped(e) \/ Port(e)
             \/ \E u \in Updates : UpdateRead(e, u)
  BY <1>3 DEF Submitted, Play, Active, Stop, Stopped, UpdateRead, Port, NewStream, AllocateAudioBuffer, Close,
              SetState, Apart, dmaVars, hw, threads, bounds
<1>4. CASE StopDma(e)
  BY <1>4 DEF StopDma, Apart, hw, threads, bounds
<1>5. CASE FreeChannel(e)
  <2>1. dmaThread[e] = C(e)
    BY <1>5 DEF FreeChannel, At, Typed, OwnChannel
  <2> QED BY <1>1, <1>5, <2>1 DEF FreeChannel, FreeHandle, Apart, hw, bounds
<1>6. CASE Poll(e)
  BY <1>6 DEF Poll, Apart, dmaVars, hw, threads, bounds, Typed, TypeOK, Regs
<1>7. ASSUME NEW u \in Updates, UpdateWrite(e, u)
      PROVE  Apart(d)
  <2>1. PICK old \in copy[e] :
          i2s' = [i2s EXCEPT ![RegOf[u]] = IF Sets(u) THEN old \cup {e} ELSE old \ {e}]
    BY <1>7 DEF UpdateWrite
  <2>2. at[e] = u /\ UNCHANGED <<hw, threads, faults>>
    BY <1>7 DEF UpdateWrite, At
  <2>3. \A r \in {"DMACR", "XFER"} : d \in i2s'[r] <=> d \in i2s[r]
    <3>1. RegOf[u] # "CLR" => old = i2s[RegOf[u]]
      BY <2>1, <2>2 DEF CopiesFresh
    <3>2. RegOf[u] \in Regs /\ i2s \in [Regs -> SUBSET Streams]
      BY UpdatePlaces DEF Typed, TypeOK
    <3> QED BY <1>1, <2>1, <3>1, <3>2 DEF Regs
  <2> QED BY <2>2, <2>3 DEF Apart, hw, threads
<1> QED BY <1>2, <1>3, <1>4, <1>5, <1>6, <1>7 DEF Own

LEMMA ApartKeeps ==
  ASSUME NEW d \in Streams, StreamOK(d), Untouched(d), Apart(d)
  PROVE  StreamOK(d)'
<1>1. Up(d)' <=> Up(d)
  BY DEF Up, Untouched
<1>2. InRun(d)' <=> InRun(d)
  BY DEF InRun, Untouched
<1>3. PlaceOK(d)'
  BY DEF StreamOK, PlaceOK, Untouched
<1>4. FlagsOK(d)'
  BY <1>1, <1>2 DEF StreamOK, FlagsOK, Untouched, Apart
<1>5. ChannelOK(d)'
  BY <1>1 DEF StreamOK, ChannelOK, Untouched, Apart
<1>6. I2sOK(d)'
  BY <1>2 DEF StreamOK, I2sOK, Untouched, Apart
<1> QED BY <1>3, <1>4, <1>5, <1>6 DEF StreamOK

\* An update that would make a copy stale is recorded as a clash.
LEMMA OthersFresh ==
  ASSUME Typed, NEW e \in Streams, CallStep(e) \/ Port(e), ~clash',
         NEW d \in Streams \ {e}, CopiesFresh(d), Untouched(d)
  PROVE  CopiesFresh(d)'
<1>1. d \in Callers \ {e} /\ clash \in BOOLEAN
  BY DEF Streams, Typed, TypeOK, DmaTypeOK
<1>2. inten' # inten => ~HoldsInten(d)
  <2>1. CASE TrigInten(e) \/ StopEnd(e)
    <3>1. ~StaleInten(e)
      BY <1>1, <2>1 DEF TrigInten, StopEnd
    <3> QED BY <1>1, <3>1 DEF StaleInten, HoldsInten
  <2>2. CASE Dma(e) /\ ~(TrigInten(e) \/ StopEnd(e))
    BY <2>2 DEF Dma, CallerStep, Start, StartFc, StartUntil, Trigger, TrigEnd, StopRead,
                StopWait, DbgIdle, DbgInst0, DbgInst1, DbgCmd, hw
  <2>3. CASE Own(e) \/ Port(e)
    BY <2>3 DEF Own, ProgramDma, Submitted, Play, Active, Stop, StopDma, FreeChannel, Poll, Stopped, UpdateRead,
                UpdateWrite, Port, NewStream, AllocateAudioBuffer, Close, SetState, dmaVars, hw
  <2> QED BY <2>1, <2>2, <2>3 DEF CallStep, Own
<1>3. dbg0' # dbg0 \/ dbg1' # dbg1 => pc[d] \notin DbgLabels \ {"dbgIdle"}
  <2>1. CASE DbgInst0(e) \/ DbgInst1(e)
    <3>1. ~Overlap(e)
      BY <1>1, <2>1 DEF DbgInst0, DbgInst1
    <3> QED BY <1>1, <3>1 DEF Overlap
  <2>2. CASE Dma(e) /\ ~(DbgInst0(e) \/ DbgInst1(e))
    BY <2>2 DEF Dma, CallerStep, Start, StartFc, StartUntil, Trigger, TrigInten, TrigEnd, StopRead,
                StopWait, StopEnd, DbgIdle, DbgCmd, hw
  <2>3. CASE Own(e) \/ Port(e)
    BY <2>3 DEF Own, ProgramDma, Submitted, Play, Active, Stop, StopDma, FreeChannel, Poll, Stopped, UpdateRead,
                UpdateWrite, Port, NewStream, AllocateAudioBuffer, Close, SetState, dmaVars, hw
  <2> QED BY <2>1, <2>2, <2>3 DEF CallStep, Own
<1>4. copy[d] # {} /\ RegOf[at[d]] # "CLR" => i2s'[RegOf[at[d]]] = i2s[RegOf[at[d]]]
  <2> SUFFICES ASSUME copy[d] # {}, RegOf[at[d]] # "CLR"
               PROVE  i2s'[RegOf[at[d]]] = i2s[RegOf[at[d]]]
    OBVIOUS
  <2>1. at[d] \in Updates /\ RegOf[at[d]] \in Regs /\ i2s \in [Regs -> SUBSET Streams]
    BY UpdatePlaces DEF CopiesFresh, Typed, TypeOK
  <2>2. ASSUME NEW u \in Updates, UpdateWrite(e, u)
        PROVE  i2s'[RegOf[at[d]]] = i2s[RegOf[at[d]]]
    <3> DEFINE overlap == \E f \in Streams \ {e}, w \in Updates :
                            At(f, w) /\ RegOf[w] = RegOf[u] /\ copy[f] # {}
    <3>1. clash' = (clash \/ overlap)
      BY <2>2 DEF UpdateWrite
    <3>2. ~overlap
      <4> HIDE DEF overlap
      <4> QED BY <3>1
    <3>3. RegOf[at[d]] # RegOf[u]
      BY <2>1, <3>2 DEF At
    <3> QED BY <2>1, <2>2, <3>3 DEF UpdateWrite
  <2>3. CASE Poll(e)
    BY <2>1, <2>3 DEF Poll
  <2>4. CASE Dma(e) \/ ProgramDma(e) \/ Submitted(e) \/ Play(e) \/ Active(e) \/ Stop(e) \/ StopDma(e) \/ FreeChannel(e)
                   \/ Stopped(e) \/ Port(e) \/ \E u \in Updates : UpdateRead(e, u)
    BY <2>4 DEF Dma, ProgramDma, Submitted, Play, Active, Stop, StopDma, FreeChannel, Stopped, UpdateRead,
                Port, NewStream, AllocateAudioBuffer, Close, SetState, streamVars
  <2> QED BY <2>2, <2>3, <2>4 DEF CallStep
<1>5. /\ pc'[d] = pc[d] /\ loc'[d] = loc[d] /\ at'[d] = at[d] /\ copy'[d] = copy[d]
      /\ HoldsInten(d)' <=> HoldsInten(d)
  BY DEF Untouched, HoldsInten
<1>6. (HoldsInten(d) => loc[d].inten = inten)'
  BY <1>2, <1>5 DEF CopiesFresh
<1>7. /\ (pc[d] \in {"dbgInst1", "dbgCmd"} => dbg0 = <<loc[d].insn, C(d)>>)'
      /\ (pc[d] = "dbgCmd" /\ loc[d].insn = "GO" => dbg1 = C(d))'
  BY <1>3, <1>5 DEF CopiesFresh, DbgLabels
<1>8. (copy[d] # {} => at[d] \in Updates /\ (RegOf[at[d]] # "CLR" => copy[d] = {i2s[RegOf[at[d]]]}))'
  BY <1>4, <1>5 DEF CopiesFresh
<1> QED BY <1>6, <1>7, <1>8 DEF CopiesFresh

-----------------------------------------------------------------------------
(* What a step of a stream leaves of its own.                              *)

Keeps(d) == StreamOK(d)' /\ CopiesFresh(d)'

\* SubmitAudioDMA finds the channel stopped, or waits until a kill is through.
LEMMA StartKeeps ==
  ASSUME Typed, NEW d \in Streams, StreamOK(d), CopiesFresh(d), Dma(d), lost' = 0,
         Start(d) \/ StartFc(d) \/ StartUntil(d) \/ Trigger(d) \/ TrigInten(d) \/ TrigEnd(d)
  PROVE  Keeps(d)
<1>1. /\ pc[d] # "ready" /\ Chan(d) = C(d) /\ loc[d] \in Locals /\ UNCHANGED streamVars
      /\ C(d) \in Chans /\ d \in Callers /\ pc \in [Callers -> Labels] /\ loc \in [Callers -> Locals]
  BY InsideDma, Channels DEF Typed, TypeOK, DmaTypeOK, Streams
<1>2. /\ at[d] = "starting" /\ ~InRun(d) /\ copy[d] = {}
      /\ target[d] = "RUN" /\ ks[d] # "RUN" /\ dmaThread[d] # None /\ ~isActive[d] /\ program[d] = "live"
      /\ C(d) \notin isFree
  BY <1>1, UpdatePlaces DEF StreamOK, PlaceOK, FlagsOK, ChannelOK, CopiesFresh, Start, StartFc, StartUntil, Trigger,
     TrigInten, TrigEnd, DbgLabels, InRun, Halting, HandedBack, Up
<1>3. UNCHANGED <<at, ks, target, dmaThread, isActive, program, i2s, copy>>
  BY <1>1 DEF streamVars
<1>4. CASE Start(d) \/ StartFc(d) \/ StartUntil(d)
  <2>1. cs[C(d)] \in {"STOPPED", "KILLING"} /\ C(d) \notin reqRunning
    BY <1>2, <1>4 DEF Start, StartFc, StartUntil, StreamOK, ChannelOK, FlagsOK, Up, DbgLabels
  <2>2. pc'[d] = "startUntil" \/ (pc'[d] = "trigger" /\ cs[C(d)] = "STOPPED")
    BY <1>1, <1>2, <1>4, <2>1 DEF Start, StartFc, StartUntil, Goto, StreamOK, PlaceOK, DbgLabels
  <2>3. UNCHANGED <<hw, threads, bounds>>
    BY <1>4 DEF Start, StartFc, StartUntil
  <2> QED
    BY <1>1, <1>2, <1>3, <2>1, <2>2, <2>3
       DEF Keeps, StreamOK, PlaceOK, FlagsOK, ChannelOK, I2sOK, CopiesFresh, HoldsInten, Up, InRun, Halting,
           HandedBack, DbgLabels, hw, threads, bounds
<1>5. CASE Trigger(d)
  <2>1. cs[C(d)] = "STOPPED" /\ C(d) \notin reqRunning
    BY <1>2, <1>5 DEF Trigger, StreamOK, ChannelOK, FlagsOK, Up, DbgLabels
  <2>2. pc'[d] = "trigInten" /\ loc'[d].inten = inten /\ UNCHANGED <<hw, threads, bounds>>
    BY <1>1, <1>5, <2>1 DEF Trigger, Goto, Locals
  <2> QED
    BY <1>1, <1>2, <1>3, <2>1, <2>2
       DEF Keeps, StreamOK, PlaceOK, FlagsOK, ChannelOK, I2sOK, CopiesFresh, HoldsInten, Up, InRun, Halting,
           HandedBack, DbgLabels, hw, threads, bounds
<1>6. CASE TrigInten(d)
  <2>1. cs[C(d)] = "STOPPED" /\ C(d) \notin reqRunning
    BY <1>2, <1>6 DEF TrigInten, StreamOK, ChannelOK, FlagsOK, Up, DbgLabels
  <2>2. pc'[d] = "dbgIdle" /\ loc'[d].insn = "GO" /\ loc'[d].ret = "trigEnd" /\ C(d) \in inten'
        /\ UNCHANGED <<cs, runs, dbg0, dbg1, threads, faults>>
    BY <1>1, <1>6 DEF TrigInten, Execute, Goto, Locals
  <2> QED
    BY <1>1, <1>2, <1>3, <2>1, <2>2
       DEF Keeps, StreamOK, PlaceOK, FlagsOK, ChannelOK, I2sOK, CopiesFresh, HoldsInten, Up, InRun, Halting,
           HandedBack, DbgLabels, threads
<1>7. CASE TrigEnd(d)
  <2>1. Up(d)
    BY <1>2, <1>7 DEF TrigEnd, Up
  <2>2. pc'[d] = "ready" /\ C(d) \in reqRunning' /\ UNCHANGED <<hw, isFree, bounds>>
    BY <1>1, <1>7 DEF TrigEnd, Leave, Goto
  <2> QED
    BY <1>1, <1>2, <1>3, <2>1, <2>2
       DEF Keeps, StreamOK, PlaceOK, FlagsOK, ChannelOK, I2sOK, CopiesFresh, HoldsInten, Up, InRun, Halting,
           HandedBack, DbgLabels, hw, bounds
<1> QED BY <1>4, <1>5, <1>6, <1>7

\* StopDMA finds it running or faulting, kills it and disables its event.
LEMMA StopKeeps ==
  ASSUME Typed, NEW d \in Streams, StreamOK(d), CopiesFresh(d), Dma(d), lost' = 0,
         StopRead(d) \/ StopWait(d) \/ StopEnd(d)
  PROVE  Keeps(d)
<1>1. /\ pc[d] # "ready" /\ Chan(d) = C(d) /\ loc[d] \in Locals /\ UNCHANGED streamVars
      /\ C(d) \in Chans /\ d \in Callers /\ pc \in [Callers -> Labels] /\ loc \in [Callers -> Locals]
  BY InsideDma, Channels DEF Typed, TypeOK, DmaTypeOK, Streams
<1>2. /\ at[d] = "stopping" /\ ~loc[d].nested /\ ~InRun(d) /\ copy[d] = {}
      /\ target[d] # "RUN" /\ dmaThread[d] # None /\ isActive[d] /\ C(d) \notin isFree
  BY <1>1, UpdatePlaces DEF StreamOK, PlaceOK, FlagsOK, CopiesFresh, StopRead, StopWait, StopEnd,
     DbgLabels, InRun, Halting, HandedBack, Up
<1>3. UNCHANGED <<at, ks, target, dmaThread, isActive, program, i2s, copy>>
  BY <1>1 DEF streamVars
<1>4. CASE StopRead(d)
  <2>1. Up(d)
    BY <1>2, <1>4 DEF StopRead, Up
  <2>2. pc'[d] = "stopWait" /\ loc'[d] = [loc[d] EXCEPT !.inten = inten] /\ UNCHANGED <<hw, threads, bounds>>
    BY <1>1, <1>4 DEF StopRead, Goto
  <2>3. loc'[d].inten = inten /\ ~loc'[d].nested
    BY <1>1, <1>2, <2>2 DEF Locals
  <2> QED
    BY <1>1, <1>2, <1>3, <2>1, <2>2, <2>3
       DEF Keeps, StreamOK, PlaceOK, FlagsOK, ChannelOK, I2sOK, CopiesFresh, HoldsInten, Up, InRun, Halting,
           HandedBack, DbgLabels, hw, threads, bounds
<1>5. CASE StopWait(d)
  <2>1. Up(d) /\ loc[d].inten = inten
    BY <1>2, <1>5 DEF StopWait, Up, CopiesFresh, HoldsInten
  <2>2. cs[C(d)] \notin {"KILLING", "STOPPED"}
    BY <2>1 DEF StreamOK, ChannelOK
  <2>3. pc'[d] = "dbgIdle" /\ loc'[d] = [loc[d] EXCEPT !.insn = "KILL", !.ret = "stopEnd"]
        /\ UNCHANGED <<hw, threads, bounds>>
    BY <1>1, <1>5, <2>2 DEF StopWait, Execute, Goto
  <2>4. loc'[d].inten = inten /\ ~loc'[d].nested /\ loc'[d].insn = "KILL" /\ loc'[d].ret = "stopEnd"
    BY <1>1, <1>2, <2>1, <2>3 DEF Locals
  <2> QED
    BY <1>1, <1>2, <1>3, <2>1, <2>3, <2>4
       DEF Keeps, StreamOK, PlaceOK, FlagsOK, ChannelOK, I2sOK, CopiesFresh, HoldsInten, Up, InRun, Halting,
           HandedBack, DbgLabels, hw, threads, bounds
<1>6. CASE StopEnd(d)
  <2>1. ~Up(d)
    BY <1>2, <1>6 DEF StopEnd, Up, DbgLabels
  <2>2. pc'[d] = "ready" /\ C(d) \notin reqRunning'
        /\ UNCHANGED <<cs, runs, dbg0, dbg1, isFree, faults>>
    BY <1>1, <1>2, <1>6 DEF StopEnd, AfterStop, Leave, Goto
  <2> QED
    BY <1>1, <1>2, <1>3, <2>1, <2>2
       DEF Keeps, StreamOK, PlaceOK, FlagsOK, ChannelOK, I2sOK, CopiesFresh, HoldsInten, Up, InRun, Halting,
           HandedBack, DbgLabels
<1> QED BY <1>4, <1>5, <1>6

\* The instruction is the one asked for, and it is carried out.
LEMMA DbgKeeps ==
  ASSUME Typed, NEW d \in Streams, StreamOK(d), CopiesFresh(d), Dma(d), lost' = 0,
         DbgIdle(d) \/ DbgInst0(d) \/ DbgInst1(d) \/ DbgCmd(d)
  PROVE  Keeps(d)
<1>1. /\ pc[d] # "ready" /\ Chan(d) = C(d) /\ loc[d] \in Locals /\ UNCHANGED streamVars
      /\ C(d) \in Chans /\ d \in Callers /\ pc \in [Callers -> Labels] /\ loc \in [Callers -> Locals]
      /\ cs \in [Chans -> States] /\ runs \in [Chans -> Chans \cup {None}] /\ lost \in Nat
  BY InsideDma, Channels, BoundsAssumption DEF Typed, TypeOK, DmaTypeOK, Streams
<1>2. /\ \/ at[d] = "starting" /\ loc[d].insn = "GO" /\ loc[d].ret = "trigEnd" /\ target[d] = "RUN" /\ ks[d] # "RUN"
            /\ ~isActive[d] /\ program[d] = "live" /\ cs[C(d)] = "STOPPED" /\ C(d) \in inten /\ ~Up(d)
            /\ C(d) \notin reqRunning
         \/ at[d] = "stopping" /\ loc[d].insn = "KILL" /\ loc[d].ret = "stopEnd" /\ target[d] # "RUN" /\ isActive[d]
            /\ ~loc[d].nested /\ Up(d) /\ C(d) \in reqRunning /\ loc[d].inten = inten
      /\ ~InRun(d) /\ copy[d] = {} /\ dmaThread[d] # None /\ C(d) \notin isFree /\ pc[d] \in DbgLabels
  BY <1>1, UpdatePlaces DEF StreamOK, PlaceOK, FlagsOK, ChannelOK, CopiesFresh, DbgIdle, DbgInst0, DbgInst1, DbgCmd,
     DbgLabels, InRun, Halting, HandedBack, Up, HoldsInten
<1>3. UNCHANGED <<at, ks, target, dmaThread, isActive, program, i2s, copy, inten, threads, loc, faults>>
  BY <1>1 DEF streamVars, DbgIdle, DbgInst0, DbgInst1, DbgCmd, hw
<1>4. CASE DbgIdle(d) \/ DbgInst0(d) \/ DbgInst1(d)
  <2>1. /\ pc'[d] \in {"dbgInst0", "dbgInst1", "dbgCmd"} /\ UNCHANGED <<cs, runs>>
        /\ pc'[d] \in {"dbgInst1", "dbgCmd"} => dbg0' = <<loc[d].insn, C(d)>>
        /\ pc'[d] = "dbgCmd" => dbg1' = IF loc[d].insn = "GO" THEN C(d) ELSE None
    <3>1. CASE DbgIdle(d)
      BY <1>1, <3>1 DEF DbgIdle, Goto, hw
    <3>2. CASE DbgInst0(d)
      BY <1>1, <3>2 DEF DbgInst0, Goto
    <3>3. CASE DbgInst1(d)
      BY <1>1, <3>3 DEF DbgInst1, Goto, CopiesFresh
    <3> QED BY <1>4, <3>1, <3>2, <3>3
  <2> QED
    BY <1>1, <1>2, <1>3, <2>1
       DEF Keeps, StreamOK, PlaceOK, FlagsOK, ChannelOK, I2sOK, CopiesFresh, HoldsInten, Up, InRun, Halting,
           HandedBack, DbgLabels, threads
<1>5. CASE DbgCmd(d)
  <2>1. dbg0[1] = loc[d].insn /\ dbg0[2] = C(d) /\ (loc[d].insn = "GO" => dbg1 = C(d))
    BY <1>5 DEF DbgCmd, CopiesFresh
  <2>2. pc'[d] = loc[d].ret
    BY <1>1, <1>5 DEF DbgCmd, Goto
  <2>3. CASE loc[d].insn = "GO"
    <3>1. cs'[C(d)] = "EXECUTING" /\ runs'[C(d)] = C(d)
      BY <1>1, <1>2, <1>5, <2>1, <2>3 DEF DbgCmd
    <3> QED
      BY <1>1, <1>2, <1>3, <2>2, <2>3, <3>1
         DEF Keeps, StreamOK, PlaceOK, FlagsOK, ChannelOK, I2sOK, CopiesFresh, HoldsInten, Up, InRun, Halting,
             HandedBack, DbgLabels, threads
  <2>4. CASE loc[d].insn = "KILL"
    <3>1. cs'[C(d)] \in {"STOPPED", "KILLING"}
      BY <1>1, <1>2, <1>5, <2>1, <2>4 DEF DbgCmd
    <3> QED
      BY <1>1, <1>2, <1>3, <2>2, <2>4, <3>1
         DEF Keeps, StreamOK, PlaceOK, FlagsOK, ChannelOK, I2sOK, CopiesFresh, HoldsInten, Up, InRun, Halting,
             HandedBack, DbgLabels, threads
  <2> QED BY <1>2, <2>3, <2>4
<1> QED BY <1>4, <1>5

\* Outside the driver: a stream takes its channel and gives it back.
LEMMA ProgramKeeps ==
  ASSUME Typed, NEW d \in Streams, StreamOK(d), CopiesFresh(d), ProgramDma(d) \/ StopDma(d) \/ FreeChannel(d)
  PROVE  Keeps(d)
<1>1. /\ C(d) \in Chans /\ C(d) # None /\ d \in Callers /\ at \in [Streams -> Places]
      /\ pc \in [Callers -> Labels] /\ loc \in [Callers -> Locals] /\ loc[d] \in Locals
      /\ dmaThread \in [Streams -> Chans \cup {None}] /\ program \in [Streams -> {"none", "live", "stale"}]
  BY Channels DEF Typed, TypeOK, DmaTypeOK, Streams
<1>2. CASE ProgramDma(d)
  <2>1. /\ at[d] = "acquire" /\ pc[d] = "ready" /\ ~Up(d) /\ ~InRun(d) /\ copy[d] = {}
        /\ target[d] = "RUN" /\ ks[d] # "RUN" /\ dmaThread[d] = None /\ C(d) \in isFree
        /\ ~isActive[d] /\ C(d) \notin reqRunning
    BY <1>2, UpdatePlaces DEF ProgramDma, At, StreamOK, PlaceOK, FlagsOK, CopiesFresh, Up, InRun, Halting, HandedBack
  <2>2. /\ isFree' = isFree \ {C(d)} /\ dmaThread' = [dmaThread EXCEPT ![d] = C(d)]
        /\ program' = [program EXCEPT ![d] = "live"] /\ EnterDma(d, "start", C(d)) /\ Move(d, "starting")
        /\ UNCHANGED <<ks, hw, reqRunning, bounds, target, i2s, copy, isActive>>
    BY <1>1, <1>2, <2>1 DEF ProgramDma, Handle, TakeHandle, C
  <2>3. pc'[d] = "start" /\ at'[d] = "starting" /\ dmaThread'[d] = C(d) /\ program'[d] = "live"
    BY <1>1, <2>2 DEF EnterDma, Goto, Move, Streams
  <2> QED
    BY <1>1, <2>1, <2>2, <2>3 DEF Keeps, StreamOK, PlaceOK, FlagsOK, ChannelOK, I2sOK, CopiesFresh, HoldsInten, Up, InRun, Halting,
         HandedBack, DbgLabels, Updates, RegOf, hw, bounds
<1>3. CASE StopDma(d)
  <2>1. /\ at[d] = "stopDma" /\ dmaThread[d] = C(d) /\ Up(d) /\ copy[d] = {} /\ target[d] # "RUN"
    BY <1>3, UpdatePlaces DEF StopDma, At, Typed, OwnChannel, CopiesFresh, Up, StreamOK, PlaceOK, Halting
  <2>2. /\ pc'[d] = "stop" /\ at'[d] = "stopping" /\ ~loc'[d].nested
        /\ UNCHANGED <<hw, threads, bounds, ks, target, i2s, copy, dmaThread, isActive, program>>
    BY <1>1, <1>3 DEF StopDma, EnterDma, Goto, Move, Streams, Locals
  <2> QED
    BY <1>1, <2>1, <2>2 DEF Keeps, StreamOK, PlaceOK, FlagsOK, ChannelOK, I2sOK, CopiesFresh, HoldsInten, Up, InRun, Halting,
         HandedBack, DbgLabels, Updates, RegOf, hw, threads, bounds
<1>4. CASE FreeChannel(d)
  <2>1. /\ at[d] = "stopping" /\ pc[d] = "ready" /\ ~Up(d) /\ C(d) \notin reqRunning
        /\ dmaThread[d] = C(d) /\ copy[d] = {}
    BY <1>4, UpdatePlaces DEF FreeChannel, At, Typed, OwnChannel, Up, StreamOK, FlagsOK, CopiesFresh, DbgLabels
  <2>2. /\ C(d) \in isFree' /\ at'[d] = "clr"
        /\ UNCHANGED <<hw, reqRunning, caller, bounds, ks, target, i2s, copy, dmaThread, isActive, program>>
    BY <1>1, <1>4, <2>1 DEF FreeChannel, FreeHandle, Move, Streams
  <2> QED
    BY <1>1, <2>1, <2>2 DEF Keeps, StreamOK, PlaceOK, FlagsOK, ChannelOK, I2sOK, CopiesFresh, HoldsInten, Up, InRun, Halting,
         HandedBack, DbgLabels, Updates, RegOf, hw, caller, bounds
<1> QED BY <1>2, <1>3, <1>4

\* The steps of rk3x_play and rk3x_stop that change nothing shared.
LEMMA PlayKeeps ==
  ASSUME Typed, NEW d \in Streams, StreamOK(d), CopiesFresh(d),
         Submitted(d) \/ Play(d) \/ Active(d) \/ Stop(d) \/ Stopped(d)
  PROVE  Keeps(d)
<1>1. /\ d \in Callers /\ at \in [Streams -> Places] /\ ks \in [Streams -> KsStates]
      /\ isActive \in [Streams -> BOOLEAN] /\ dmaThread \in [Streams -> Chans \cup {None}]
  BY DEF Typed, TypeOK, Streams
<1>2. /\ pc[d] = "ready" /\ copy[d] = {}
      /\ UNCHANGED <<hw, threads, caller, bounds, i2s, copy, target, program>>
  BY UpdatePlaces DEF Submitted, Play, Active, Stop, Stopped, At, StreamOK, PlaceOK, CopiesFresh, dmaVars
<1>3. CASE Submitted(d)
  <2>1. at[d] = "starting" /\ at'[d] = "play" /\ UNCHANGED <<ks, dmaThread, isActive>>
    BY <1>1, <1>3 DEF Submitted, At, Move
  <2> QED
    BY <1>1, <1>2, <2>1 DEF Keeps, StreamOK, PlaceOK, FlagsOK, ChannelOK, I2sOK, CopiesFresh, HoldsInten, Up, InRun, Halting,
         HandedBack, DbgLabels, Updates, RegOf, hw, threads, caller, bounds
<1>4. CASE Play(d)
  <2>1. at[d] = "play" /\ ~isActive[d]
    BY <1>4 DEF Play, At, StreamOK, FlagsOK, InRun, Halting
  <2>2. at'[d] = "TDE" /\ UNCHANGED <<ks, dmaThread, isActive>>
    BY <1>1, <1>4, <2>1 DEF Play, Move
  <2> QED
    BY <1>1, <1>2, <2>1, <2>2 DEF Keeps, StreamOK, PlaceOK, FlagsOK, ChannelOK, I2sOK, CopiesFresh, HoldsInten, Up, InRun, Halting,
         HandedBack, DbgLabels, Updates, RegOf, hw, threads, caller, bounds
<1>5. CASE Active(d)
  <2>1. at[d] = "active" /\ at'[d] = "idle" /\ target[d] = "RUN" /\ ks'[d] = "RUN" /\ isActive'[d]
        /\ UNCHANGED dmaThread
    BY <1>1, <1>5 DEF Active, At, Move, Return, StreamOK, PlaceOK
  <2> QED
    BY <1>1, <1>2, <2>1 DEF Keeps, StreamOK, PlaceOK, FlagsOK, ChannelOK, I2sOK, CopiesFresh, HoldsInten, Up, InRun, Halting,
         HandedBack, DbgLabels, Updates, RegOf, hw, threads, caller, bounds
<1>6. CASE Stop(d)
  <2>1. at[d] = "stop" /\ target[d] # "RUN" /\ UNCHANGED <<dmaThread, isActive>>
    BY <1>6 DEF Stop, At, StreamOK, PlaceOK
  <2>2. CASE ks[d] = "RUN"
    <3>1. isActive[d] /\ dmaThread[d] # None
      BY <2>1, <2>2 DEF StreamOK, FlagsOK, Up, InRun
    <3>2. at'[d] = "noTDE" /\ ks' = ks
      BY <1>1, <1>6, <3>1 DEF Stop, Move
    <3> QED
      BY <1>1, <1>2, <2>1, <2>2, <3>1, <3>2 DEF Keeps, StreamOK, PlaceOK, FlagsOK, ChannelOK, I2sOK, CopiesFresh, HoldsInten, Up, InRun, Halting,
         HandedBack, DbgLabels, Updates, RegOf, hw, threads, caller, bounds
  <2>3. CASE ks[d] # "RUN"
    <3>1. ~isActive[d]
      BY <2>1, <2>3 DEF StreamOK, FlagsOK, InRun, Halting
    <3>2. at'[d] = "idle" /\ ks'[d] # "RUN"
      BY <1>1, <1>6, <2>1, <3>1 DEF Stop, Return, Move
    <3> QED
      BY <1>1, <1>2, <2>1, <2>3, <3>1, <3>2 DEF Keeps, StreamOK, PlaceOK, FlagsOK, ChannelOK, I2sOK, CopiesFresh, HoldsInten, Up, InRun, Halting,
         HandedBack, DbgLabels, Updates, RegOf, hw, threads, caller, bounds
  <2> QED BY <2>2, <2>3
<1>7. CASE Stopped(d)
  <2>1. at[d] = "stopped" /\ target[d] # "RUN" /\ at'[d] = "idle" /\ ks'[d] # "RUN"
        /\ dmaThread'[d] = None /\ ~isActive'[d]
    BY <1>1, <1>7 DEF Stopped, At, Move, Return, StreamOK, PlaceOK, Halting
  <2> QED
    BY <1>1, <1>2, <2>1 DEF Keeps, StreamOK, PlaceOK, FlagsOK, ChannelOK, I2sOK, CopiesFresh, HoldsInten, Up, InRun, Halting,
         HandedBack, DbgLabels, Updates, RegOf, hw, threads, caller, bounds
<1> QED BY <1>3, <1>4, <1>5, <1>6, <1>7

\* The updates of the I2S registers.
LEMMA UpdateKeeps ==
  ASSUME Typed, NEW d \in Streams, StreamOK(d), CopiesFresh(d),
         Poll(d) \/ \E u \in Updates : UpdateRead(d, u) \/ UpdateWrite(d, u)
  PROVE  Keeps(d)
<1>1. /\ d \in Callers /\ at \in [Streams -> Places] /\ i2s \in [Regs -> SUBSET Streams]
      /\ copy \in [Streams -> SUBSET SUBSET Streams]
  BY DEF Typed, TypeOK, Streams
<1>2. CASE Poll(d)
  <2>1. /\ at[d] = "poll" /\ at'[d] = "noClr" /\ copy[d] = {} /\ pc[d] = "ready"
        /\ UNCHANGED <<hw, threads, caller, bounds, ks, target, copy, dmaThread, isActive, program>>
    BY <1>1, <1>2, UpdatePlaces DEF Poll, At, Move, CopiesFresh, StreamOK, PlaceOK, dmaVars
  <2> QED
    BY <1>1, <2>1 DEF Keeps, StreamOK, PlaceOK, FlagsOK, ChannelOK, I2sOK, CopiesFresh, HoldsInten, Up, InRun, Halting,
         HandedBack, DbgLabels, Updates, RegOf, hw, threads, caller, bounds
<1>3. ASSUME NEW u \in Updates, UpdateRead(d, u)
      PROVE  Keeps(d)
  <2>1. /\ at[d] = u /\ pc[d] = "ready" /\ copy'[d] = {i2s[RegOf[u]]}
        /\ UNCHANGED <<hw, threads, caller, bounds, at, i2s, ks, target, dmaThread, isActive, program>>
    BY <1>1, <1>3, UpdatePlaces DEF UpdateRead, At, StreamOK, PlaceOK, dmaVars
  <2>2. StreamOK(d)'
    BY <2>1 DEF StreamOK, PlaceOK, FlagsOK, ChannelOK, I2sOK, Up, InRun, Halting, HandedBack, DbgLabels,
                hw, threads, caller, bounds
  <2>3. CopiesFresh(d)'
    BY <2>1, UpdatePlaces DEF CopiesFresh, HoldsInten, DbgLabels, hw, caller
  <2> QED BY <2>2, <2>3 DEF Keeps
<1>4. ASSUME NEW u \in Updates, UpdateWrite(d, u)
      PROVE  Keeps(d)
  <2>1. PICK old \in copy[d] :
          i2s' = [i2s EXCEPT ![RegOf[u]] = IF Sets(u) THEN old \cup {d} ELSE old \ {d}]
    BY <1>4 DEF UpdateWrite
  <2>2. /\ at[d] = u /\ at'[d] = NextPlace[u] /\ pc[d] = "ready" /\ copy'[d] = {}
        /\ UNCHANGED <<hw, threads, caller, lost, faults, ks, target, dmaThread, isActive, program>>
    <3>1. at[d] = u /\ Move(d, NextPlace[u]) /\ copy' = [copy EXCEPT ![d] = {}]
          /\ UNCHANGED <<hw, threads, caller, lost, faults, ks, target, dmaThread, isActive, program>>
      BY <1>4 DEF UpdateWrite, At
    <3>2. pc[d] = "ready"
      BY <3>1, UpdatePlaces DEF StreamOK, PlaceOK
    <3> QED BY <1>1, <3>1, <3>2 DEF Move
  <2>3. RegOf[u] # "CLR" => old = i2s[RegOf[u]]
    BY <2>1, <2>2 DEF CopiesFresh
  <2>4. /\ u = "TDE" => at'[d] = "TXS" /\ d \in i2s'["DMACR"]
        /\ u = "TXS" => at'[d] = "active" /\ d \in i2s'["XFER"] /\ i2s'["DMACR"] = i2s["DMACR"]
        /\ u = "noTDE" => at'[d] = "noTXS" /\ i2s'["XFER"] = i2s["XFER"]
        /\ u = "noTXS" => at'[d] = "stopDma"
        /\ u = "clr" => at'[d] = "poll"
        /\ u = "noClr" => at'[d] = "stopped"
    BY <1>1, <2>1, <2>2 DEF RegOf, NextPlace, Sets, Regs
  <2>5. u \in {"TDE", "noTDE", "TXS", "noTXS", "clr", "noClr"}
    BY UpdatePlaces
  <2>6. StreamOK(d)'
    BY <2>2, <2>4, <2>5 DEF StreamOK, PlaceOK, FlagsOK, ChannelOK, I2sOK, Up, InRun, Halting, HandedBack, DbgLabels,
                hw, threads, caller
  <2>7. CopiesFresh(d)'
    BY <2>2 DEF CopiesFresh, HoldsInten, DbgLabels, hw, caller
  <2> QED BY <2>6, <2>7 DEF Keeps
<1> QED BY <1>2, <1>3, <1>4

\* PortCls asks for a state, and takes the stream away, between calls only.
LEMMA PortKeeps ==
  ASSUME Typed, NEW d \in Streams, StreamOK(d), CopiesFresh(d), Port(d)
  PROVE  Keeps(d)
<1>1. /\ d \in Callers /\ at \in [Streams -> Places] /\ ks \in [Streams -> KsStates]
      /\ target \in [Streams -> KsStates] /\ program \in [Streams -> {"none", "live", "stale"}]
  BY DEF Typed, TypeOK, Streams
<1>2. UNCHANGED <<hw, threads, caller, bounds, i2s, copy, dmaThread, isActive>>
  BY DEF Port, NewStream, AllocateAudioBuffer, Close, SetState, dmaVars
<1>3. CASE NewStream(d) \/ AllocateAudioBuffer(d)
  <2>1. UNCHANGED <<at, ks, target, program>>
    BY <1>3 DEF NewStream, AllocateAudioBuffer
  <2> QED
    BY <1>2, <2>1, UpdatePlaces DEF Keeps, StreamOK, PlaceOK, FlagsOK, ChannelOK, I2sOK, CopiesFresh, HoldsInten,
       Up, InRun, Halting, HandedBack, DbgLabels, hw, threads, caller, bounds
<1>4. CASE Close(d)
  <2>1. at[d] = "idle" /\ ks[d] = "STOP" /\ UNCHANGED <<at, ks, target>>
    BY <1>4 DEF Close, At
  <2>2. copy[d] = {}
    BY <2>1, UpdatePlaces DEF CopiesFresh
  <2> QED
    BY <1>1, <1>2, <2>1, <2>2 DEF Keeps, StreamOK, PlaceOK, FlagsOK, ChannelOK, I2sOK, CopiesFresh, HoldsInten, Up, InRun, Halting,
         HandedBack, DbgLabels, Updates, RegOf, hw, threads, caller, bounds
<1>5. ASSUME NEW t \in KsStates, SetState(d, t)
      PROVE  Keeps(d)
  <2>1. /\ at[d] = "idle" /\ pc[d] = "ready" /\ target'[d] = t /\ program' = program
        /\ t = "RUN" => ks[d] = "PAUSE"
        /\ t = "ACQUIRE" => ks[d] \in {"STOP", "PAUSE"}
    BY <1>1, <1>5 DEF SetState, At, StreamOK, PlaceOK, Step, Neighbours
  <2>2. copy[d] = {}
    BY <2>1, UpdatePlaces DEF CopiesFresh
  <2>3. \/ t = "RUN" /\ at'[d] = "acquire" /\ ks' = ks
        \/ t = "ACQUIRE" /\ at' = at /\ ks'[d] = "ACQUIRE"
        \/ t \in {"STOP", "PAUSE"} /\ at'[d] = "stop" /\ ks' = ks
    BY <1>1, <1>5 DEF SetState, Move, KsStates
  <2> QED
    BY <1>1, <1>2, <2>1, <2>2, <2>3 DEF Keeps, StreamOK, PlaceOK, FlagsOK, ChannelOK, I2sOK, CopiesFresh, HoldsInten, Up, InRun, Halting,
         HandedBack, DbgLabels, Updates, RegOf, hw, threads, caller, bounds
<1> QED BY <1>3, <1>4, <1>5 DEF Port

\* A fault is counted; a channel that is not killed does not come to rest.
LEMMA HardwareKeeps ==
  ASSUME Typed, NEW d \in Streams, StreamOK(d), CopiesFresh(d), Hardware
  PROVE  Keeps(d)
<1>1. PICK c \in Chans : Fault(c) \/ Settle(c)
  BY DEF Hardware, DmaEnv
<1>2. /\ UNCHANGED <<streamVars, inten, dbg0, dbg1, threads, caller>>
      /\ C(d) \in Chans /\ cs \in [Chans -> States] /\ runs \in [Chans -> Chans \cup {None}] /\ faults \in Nat
  BY Channels, BoundsAssumption DEF Hardware, DmaEnv, Fault, Settle, Typed, TypeOK, DmaTypeOK
<1>3. \/ cs'[C(d)] = cs[C(d)] /\ runs'[C(d)] = runs[C(d)] /\ (faults' = faults \/ faults' # 0)
      \/ cs[C(d)] = "EXECUTING" /\ cs'[C(d)] = "FAULT_COMPLETING" /\ runs' = runs /\ faults' # 0
      \/ cs[C(d)] = "FAULT_COMPLETING" /\ cs'[C(d)] = "FAULTING" /\ runs' = runs /\ faults' = faults
      \/ cs[C(d)] = "KILLING" /\ cs'[C(d)] = "STOPPED" /\ faults' = faults
  <2>1. CASE Fault(c)
    BY <1>2, <2>1 DEF Fault
  <2>2. CASE Settle(c)
    BY <1>2, <2>2 DEF Settle, bounds
  <2> QED BY <1>1, <2>1, <2>2
<1>4. CopiesFresh(d)'
  BY <1>2 DEF CopiesFresh, HoldsInten, streamVars, caller
<1>5. PlaceOK(d)' /\ FlagsOK(d)' /\ I2sOK(d)'
  BY <1>2 DEF StreamOK, PlaceOK, FlagsOK, I2sOK, Up, InRun, streamVars, caller, threads
<1>6. ChannelOK(d)'
  <2>1. Up(d)' <=> Up(d)
    BY <1>2 DEF Up, streamVars, caller
  <2> QED BY <1>2, <1>3, <2>1 DEF StreamOK, ChannelOK, streamVars, caller
<1> QED BY <1>4, <1>5, <1>6 DEF Keeps, StreamOK

-----------------------------------------------------------------------------
(* The invariant and what it says.                                         *)

LEMMA InvInit == Init => IInv
<1> SUFFICES ASSUME Init PROVE IInv
  OBVIOUS
<1>1. TypeOK
  <2>1. NoLocals \in Locals /\ "ready" \in Labels
    BY DEF Locals, NoLocals, Labels, Insns
  <2>2. DmaTypeOK
    <3>1. lost \in 0 .. MaxLost /\ faults \in 0 .. MaxFaults
      BY BoundsAssumption DEF Init, DmaInit
    <3>2. cs \in [Chans -> States] /\ runs \in [Chans -> Chans \cup {None}]
      BY DEF Init, DmaInit, States
    <3>3. pc \in [Callers -> Labels] /\ loc \in [Callers -> Locals]
      BY <2>1 DEF Init, DmaInit
    <3>4. /\ inten \subseteq Chans /\ dbg0 \in (Insns \X Chans) \cup {<<>>} /\ dbg1 \in Chans \cup {None}
          /\ isFree \subseteq Chans /\ reqRunning \subseteq Chans /\ clash \in BOOLEAN
      BY DEF Init, DmaInit
    <3> QED BY <3>1, <3>2, <3>3, <3>4 DEF DmaTypeOK
  <2>3. /\ allocated \in [Streams -> 0 .. MaxSystemStreams] /\ buffer \in [Streams -> BOOLEAN]
        /\ ks \in [Streams -> KsStates] /\ target \in [Streams -> KsStates] /\ at \in [Streams -> Places]
    BY DEF Init, MaxSystemStreams, KsStates, Places
  <2>4. /\ i2s \in [Regs -> SUBSET Streams] /\ copy \in [Streams -> SUBSET SUBSET Streams]
        /\ dmaThread \in [Streams -> Chans \cup {None}] /\ isActive \in [Streams -> BOOLEAN]
        /\ program \in [Streams -> {"none", "live", "stale"}]
    BY DEF Init
  <2> QED BY <2>2, <2>3, <2>4 DEF TypeOK
<1>2. ASSUME NEW d \in Streams
      PROVE  /\ pc[d] = "ready" /\ at[d] = "idle" /\ ks[d] = "STOP" /\ target[d] = "STOP" /\ copy[d] = {}
             /\ dmaThread[d] = None /\ ~isActive[d] /\ C(d) \in isFree /\ C(d) \notin reqRunning
             /\ cs[C(d)] = "STOPPED"
  BY Channels DEF Init, DmaInit, Streams
<1>3. OwnChannel
  BY <1>2 DEF OwnChannel
<1>4. ASSUME NEW d \in Streams
      PROVE  StreamOK(d) /\ CopiesFresh(d)
  BY <1>2, Channels DEF StreamOK, PlaceOK, FlagsOK, ChannelOK, I2sOK, CopiesFresh, HoldsInten, Up, InRun, Halting,
     HandedBack, DbgLabels
<1> QED BY <1>1, <1>3, <1>4 DEF IInv, StreamsInv

LEMMA InvStep == IInv /\ [Next]_vars => IInv'
<1> SUFFICES ASSUME IInv, [Next]_vars PROVE IInv'
  OBVIOUS
<1>1. Typed /\ Typed'
  BY StepsTyped DEF IInv, Typed
<1>2. ASSUME Undisturbed', NEW d \in Streams
      PROVE  Keeps(d)
  <2>1. /\ \A e \in Streams : StreamOK(e) /\ CopiesFresh(e)
        /\ ~clash' /\ lost' = 0
    BY <1>1, <1>2, QuietBefore DEF IInv, StreamsInv, Undisturbed
  <2>2. CASE UNCHANGED vars
    BY <2>1, <2>2 DEF vars, dmaVars, hw, threads, caller, bounds, streamVars, Keeps, StreamOK, PlaceOK, FlagsOK,
       ChannelOK, I2sOK, CopiesFresh, HoldsInten, Up, InRun
  <2>3. CASE Hardware
    BY <1>1, <2>1, <2>3, HardwareKeeps
  <2>4. ASSUME NEW e \in Streams, e # d, CallStep(e) \/ Port(e)
        PROVE  Keeps(d)
    <3>1. Untouched(d) /\ Apart(d)
      BY <1>1, <2>1, <2>4, OthersUntouched, DmaApart, OwnApart DEF CallStep, Own
    <3> QED BY <1>1, <2>1, <2>4, <3>1, ApartKeeps, OthersFresh DEF Keeps
  <2>5. CASE CallStep(d) \/ Port(d)
    <3>1. CASE Dma(d)
      BY <1>1, <2>1, <3>1, StartKeeps, StopKeeps, DbgKeeps DEF Dma, CallerStep
    <3> QED BY <1>1, <2>1, <2>5, <3>1, ProgramKeeps, PlayKeeps, UpdateKeeps, PortKeeps DEF CallStep
  <2> QED BY <2>2, <2>3, <2>4, <2>5 DEF Next
<1> QED BY <1>1, <1>2 DEF IInv, Typed, StreamsInv, Keeps

LEMMA Invariance == Spec => []IInv
BY InvInit, InvStep, PTL DEF Spec

\* The state keeps its types: every caller of the PL330 driver is at a label
\* of it, with the registers, the flags and the streams' fields of their kind.
THEOREM TypesKept == Spec => []TypeOK
BY Invariance, PTL DEF IInv

\* Whatever the number of streams: a caller inside the PL330 driver is there
\* for the channel the topology gives its stream, and rk_stream.dmaThread is
\* that channel or none, also after overlaps and dropped instructions.
THEOREM OnlyItsOwnChannel == Spec => []OwnChannel
BY Invariance, PTL DEF IInv

\* For any streams, channels and faults: a stream SetState has left in RUN is
\* being transferred from its own buffer, and its half of the I2S is on.
THEOREM RunIsDma == Spec => []RunMeansDma
<1>1. IInv => RunMeansDma
  BY DEF IInv, StreamsInv, RunMeansDma, StreamOK, ChannelOK, I2sOK, Up, InRun, At, C
<1> QED BY <1>1, Invariance, PTL

\* For any streams, channels and faults: the microcode of a channel that runs
\* addresses a buffer that PortCls has not freed.
THEOREM FreedBufferIsSafe == Spec => []NoDmaIntoFreedBuffer
<1>1. IInv => NoDmaIntoFreedBuffer
  BY DEF IInv, StreamsInv, NoDmaIntoFreedBuffer, StreamOK, ChannelOK, C
<1> QED BY <1>1, Invariance, PTL

\* For any streams, channels and faults: a stopped stream's channel is free
\* for its next start.
THEOREM ChannelsComeBack == Spec => []ChannelComesBack
<1>1. IInv => ChannelComesBack
  BY DEF IInv, StreamsInv, ChannelComesBack, StreamOK, FlagsOK, At, C
<1> QED BY <1>1, Invariance, PTL

-----------------------------------------------------------------------------
(* AudioAdapter: what StartDevice has in hand, and what it must give back. *)

\* The steps of an endpoint's installation, those before the subdevice at hand
\* is there, and those with the queries that follow.
Installing == {"find", "install", "register", "cache", "cached", "connect", "settle"}
Making     == {"find", "install", "register"}
Setup      == Installing \cup {"queries"}

AdapterTypeOK ==
  /\ step \in {"stopped", "init", "power_management", "running", "failed", "dispatch"} \cup Setup
  /\ endpoint \in Endpoints /\ part \in Parts
  /\ found \subseteq Subdevices /\ created \subseteq Subdevices
  /\ registered \subseteq Subdevices /\ connected \subseteq Endpoints /\ cache \subseteq Subdevices
  /\ common \subseteq {"exists", "stashed", "managed"}

One(b) == IF b THEN 1 ELSE 0

\* A reference of the cache, and one of the pointer an installation holds.
RefsOK ==
  refs = [s \in Subdevices |-> One(s \in cache) + One(step \in Installing /\ s \in found)]

\* The subdevices of an endpoint.
Both(e) == {<<e, "Topo">>, <<e, "Wave">>}

\* What the pointers hold as one part follows the other, and the cache.
FoundOK ==
  /\ step \in Installing => found \subseteq {Topology, Wave}
  /\ step \in Installing /\ part = "Topo" => found \subseteq {Topology}
  /\ step \in Making => found \subseteq {Topology}
  /\ step \in Making /\ part = "Topo" => found = {}
  /\ step \in {"install", "register"} => Sub \notin cache
  /\ step = "cache" => Sub \in registered \cap found /\ Sub \notin cache
  /\ step \in Installing => registered \cap Both(endpoint) \subseteq found
  /\ cache \subseteq registered

\* An adapter is stashed before StartDevice returns, and stays until a stop.
CommonOK ==
  /\ common # {} => "exists" \in common
  /\ common = {} => cache = {} /\ block = "off" /\ ~etw
  /\ step = "stopped" => common = {}
  /\ step \in {"init", "power_management", "running"} \cup Setup => common # {}
  /\ step \in {"running", "failed"} /\ common # {} => "stashed" \in common
  /\ step = "dispatch" => "stashed" \notin common
  /\ step \in {"stopped", "init", "power_management", "dispatch"} => cache = {}
  /\ step \in {"stopped", "init", "power_management"} => registered = {}

\* The endpoints StartDevice is done with.
Done(e) ==
  \/ step = "running"
  \/ step = "queries" /\ (e = endpoint \/ e = "render")
  \/ step \in Installing /\ endpoint = "capture" /\ e = "render"

ConnectedOK ==
  /\ step \in Setup \cup {"running"} /\ endpoint = "render" => registered \cap Both("capture") = {}
  /\ \A e \in Endpoints : Done(e) /\ Both(e) \subseteq registered => e \in connected
  /\ step = "settle" /\ succeeded /\ Both(endpoint) \subseteq registered => endpoint \in connected

AdapterIInv == AdapterTypeOK /\ RefsOK /\ FoundOK /\ CommonOK /\ ConnectedOK

LEMMA BothAreParts == \A e \in Endpoints : {e} \X Parts = Both(e) /\ Both(e) \subseteq Subdevices /\ Both(e) # {}
BY DEF Both, Endpoints, Parts, Subdevices

LEMMA EndpointsApart == Both("render") \cap Both("capture") = {}
BY DEF Both

\* The two subdevices of the endpoint being installed.
LEMMA Pairs ==
  ASSUME endpoint \in Endpoints, part \in Parts
  PROVE  /\ Topology \in Subdevices /\ Wave \in Subdevices /\ Sub \in Subdevices /\ Topology # Wave
         /\ Both(endpoint) = {Topology, Wave}
         /\ part = "Topo" => Sub = Topology
         /\ part # "Topo" => Sub = Wave
BY DEF Both, Endpoints, Parts, Subdevices, Sub, Topology, Wave

LEMMA AdapterInitHolds == AdapterInit => AdapterIInv
<1> SUFFICES ASSUME AdapterInit PROVE AdapterIInv
  OBVIOUS
<1>1. AdapterTypeOK
  BY DEF AdapterInit, AdapterTypeOK, Setup, Installing, Endpoints, Parts
<1>2. RefsOK
  BY DEF AdapterInit, RefsOK, One, Installing
<1>3. FoundOK
  BY DEF AdapterInit, FoundOK, Installing, Making
<1>4. CommonOK
  BY DEF AdapterInit, CommonOK, Setup, Installing
<1>5. ConnectedOK
  BY DEF AdapterInit, ConnectedOK, Done, Setup, Installing
<1> QED
  BY <1>1, <1>2, <1>3, <1>4, <1>5 DEF AdapterIInv

LEMMA NewAdapterCommonHolds ==
  ASSUME AdapterIInv, NewAdapterCommon
  PROVE  AdapterIInv'
<1>1. AdapterTypeOK'
  BY Pairs DEF NewAdapterCommon, startVars, portVars, AdapterIInv, AdapterTypeOK, Setup, Installing,
     Endpoints, Parts
<1>2. RefsOK'
  BY Pairs DEF NewAdapterCommon, startVars, portVars, AdapterIInv, AdapterTypeOK, RefsOK, One, FoundOK,
     CommonOK, Setup, Installing, Making
<1>3. FoundOK'
  BY Pairs, <1>1 DEF NewAdapterCommon, startVars, portVars, AdapterIInv, AdapterTypeOK, FoundOK, CommonOK,
     Setup, Installing, Making
<1>4. CommonOK'
  BY DEF NewAdapterCommon, startVars, portVars, AdapterIInv, CommonOK, Setup, Installing
<1>5. ConnectedOK'
  BY Pairs, EndpointsApart, <1>1 DEF NewAdapterCommon, startVars, portVars, AdapterIInv, AdapterTypeOK,
     FoundOK, CommonOK, ConnectedOK, Done, Setup, Installing, Making
<1> QED
  BY <1>1, <1>2, <1>3, <1>4, <1>5 DEF AdapterIInv

LEMMA InitAdapterHolds ==
  ASSUME AdapterIInv, InitAdapter
  PROVE  AdapterIInv'
<1>1. AdapterTypeOK'
  BY Pairs DEF InitAdapter, Exit, Rk3xInit, startVars, portVars, AdapterIInv, AdapterTypeOK, Setup,
     Installing, Endpoints, Parts
<1>2. RefsOK'
  BY Pairs DEF InitAdapter, Exit, Rk3xInit, startVars, portVars, AdapterIInv, AdapterTypeOK, RefsOK, One,
     FoundOK, CommonOK, Setup, Installing, Making
<1>3. FoundOK'
  BY Pairs, <1>1 DEF InitAdapter, Exit, Rk3xInit, startVars, portVars, AdapterIInv, AdapterTypeOK, FoundOK,
     CommonOK, Setup, Installing, Making
<1>4. CommonOK'
  BY DEF InitAdapter, Exit, Rk3xInit, startVars, portVars, AdapterIInv, CommonOK, Setup, Installing
<1>5. ConnectedOK'
  BY Pairs, EndpointsApart, <1>1 DEF InitAdapter, Exit, Rk3xInit, startVars, portVars, AdapterIInv,
     AdapterTypeOK, FoundOK, CommonOK, ConnectedOK, Done, Setup, Installing, Making
<1> QED
  BY <1>1, <1>2, <1>3, <1>4, <1>5 DEF AdapterIInv

LEMMA RegisterPowerManagementHolds ==
  ASSUME AdapterIInv, RegisterPowerManagement
  PROVE  AdapterIInv'
<1>1. AdapterTypeOK'
  BY Pairs DEF RegisterPowerManagement, Exit, startVars, portVars, AdapterIInv, AdapterTypeOK, Setup,
     Installing, Endpoints, Parts
<1>2. RefsOK'
  BY Pairs DEF RegisterPowerManagement, Exit, startVars, portVars, AdapterIInv, AdapterTypeOK, RefsOK, One,
     FoundOK, CommonOK, Setup, Installing, Making
<1>3. FoundOK'
  BY Pairs, <1>1 DEF RegisterPowerManagement, Exit, startVars, portVars, AdapterIInv, AdapterTypeOK,
     FoundOK, CommonOK, Setup, Installing, Making
<1>4. CommonOK'
  BY DEF RegisterPowerManagement, Exit, startVars, portVars, AdapterIInv, CommonOK, Setup, Installing
<1>5. ConnectedOK'
  BY Pairs, EndpointsApart, <1>1 DEF RegisterPowerManagement, Exit, startVars, portVars, AdapterIInv,
     AdapterTypeOK, FoundOK, CommonOK, ConnectedOK, Done, Setup, Installing, Making
<1> QED
  BY <1>1, <1>2, <1>3, <1>4, <1>5 DEF AdapterIInv

LEMMA GetCachedSubdeviceHolds ==
  ASSUME AdapterIInv, GetCachedSubdevice
  PROVE  AdapterIInv'
<1>6. Topology' = Topology /\ Wave' = Wave /\ Sub' = Sub /\ Both(endpoint)' = Both(endpoint)
  BY DEF GetCachedSubdevice, startVars, Topology, Wave, Sub, Both
<1>1. AdapterTypeOK'
  BY Pairs DEF GetCachedSubdevice, AddRef, startVars, portVars, AdapterIInv, AdapterTypeOK, Setup,
     Installing, Endpoints, Parts
<1>2. RefsOK'
  BY Pairs DEF GetCachedSubdevice, AddRef, startVars, portVars, AdapterIInv, AdapterTypeOK, RefsOK, One,
     FoundOK, CommonOK, Setup, Installing, Making
<1>3. FoundOK'
  BY Pairs, <1>1, <1>6 DEF GetCachedSubdevice, AddRef, startVars, portVars, AdapterIInv, AdapterTypeOK,
     FoundOK, CommonOK, Setup, Installing, Making
<1>4. CommonOK'
  BY DEF GetCachedSubdevice, AddRef, startVars, portVars, AdapterIInv, CommonOK, Setup, Installing
<1>5. ConnectedOK'
  BY Pairs, EndpointsApart, <1>1, <1>6 DEF GetCachedSubdevice, AddRef, startVars, portVars, AdapterIInv,
     AdapterTypeOK, FoundOK, CommonOK, ConnectedOK, Done, Setup, Installing, Making
<1> QED
  BY <1>1, <1>2, <1>3, <1>4, <1>5 DEF AdapterIInv

LEMMA CreateAudioInterfaceWithPropertiesHolds ==
  ASSUME AdapterIInv, CreateAudioInterfaceWithProperties
  PROVE  AdapterIInv'
<1>6. Topology' = Topology /\ Wave' = Wave /\ Sub' = Sub /\ Both(endpoint)' = Both(endpoint)
  BY DEF CreateAudioInterfaceWithProperties, startVars, Topology, Wave, Sub, Both
<1>1. AdapterTypeOK'
  BY Pairs DEF CreateAudioInterfaceWithProperties, startVars, portVars, AdapterIInv, AdapterTypeOK, Setup,
     Installing, Endpoints, Parts
<1>2. RefsOK'
  BY Pairs DEF CreateAudioInterfaceWithProperties, startVars, portVars, AdapterIInv, AdapterTypeOK, RefsOK,
     One, FoundOK, CommonOK, Setup, Installing, Making
<1>3. FoundOK'
  BY Pairs, <1>1, <1>6 DEF CreateAudioInterfaceWithProperties, startVars, portVars, AdapterIInv,
     AdapterTypeOK, FoundOK, CommonOK, Setup, Installing, Making
<1>4. CommonOK'
  BY DEF CreateAudioInterfaceWithProperties, startVars, portVars, AdapterIInv, CommonOK, Setup, Installing
<1>5. ConnectedOK'
  BY Pairs, EndpointsApart, <1>1, <1>6 DEF CreateAudioInterfaceWithProperties, startVars, portVars,
     AdapterIInv, AdapterTypeOK, FoundOK, CommonOK, ConnectedOK, Done, Setup, Installing, Making
<1> QED
  BY <1>1, <1>2, <1>3, <1>4, <1>5 DEF AdapterIInv

LEMMA InstallSubdeviceHolds ==
  ASSUME AdapterIInv, InstallSubdevice
  PROVE  AdapterIInv'
<1>6. Topology' = Topology /\ Wave' = Wave /\ Sub' = Sub /\ Both(endpoint)' = Both(endpoint)
  BY DEF InstallSubdevice, startVars, Topology, Wave, Sub, Both
<1>1. AdapterTypeOK'
  BY Pairs DEF InstallSubdevice, AddRef, startVars, portVars, AdapterIInv, AdapterTypeOK, Setup, Installing,
     Endpoints, Parts
<1>2. RefsOK'
  BY Pairs DEF InstallSubdevice, AddRef, startVars, portVars, AdapterIInv, AdapterTypeOK, RefsOK, One,
     FoundOK, CommonOK, Setup, Installing, Making
<1>3. FoundOK'
  BY Pairs, <1>1, <1>6 DEF InstallSubdevice, AddRef, startVars, portVars, AdapterIInv, AdapterTypeOK,
     FoundOK, CommonOK, Setup, Installing, Making
<1>4. CommonOK'
  BY DEF InstallSubdevice, AddRef, startVars, portVars, AdapterIInv, CommonOK, Setup, Installing
<1>5. ConnectedOK'
  BY Pairs, EndpointsApart, <1>1, <1>6 DEF InstallSubdevice, AddRef, startVars, portVars, AdapterIInv,
     AdapterTypeOK, FoundOK, CommonOK, ConnectedOK, Done, Setup, Installing, Making
<1> QED
  BY <1>1, <1>2, <1>3, <1>4, <1>5 DEF AdapterIInv

LEMMA CacheSubdeviceHolds ==
  ASSUME AdapterIInv, CacheSubdevice
  PROVE  AdapterIInv'
<1>6. Topology' = Topology /\ Wave' = Wave /\ Sub' = Sub /\ Both(endpoint)' = Both(endpoint)
  BY DEF CacheSubdevice, startVars, Topology, Wave, Sub, Both
<1>1. AdapterTypeOK'
  BY Pairs DEF CacheSubdevice, AddRef, startVars, portVars, AdapterIInv, AdapterTypeOK, Setup, Installing,
     Endpoints, Parts
<1>2. RefsOK'
  BY Pairs DEF CacheSubdevice, AddRef, startVars, portVars, AdapterIInv, AdapterTypeOK, RefsOK, One,
     FoundOK, CommonOK, Setup, Installing, Making
<1>3. FoundOK'
  BY Pairs, <1>1, <1>6 DEF CacheSubdevice, AddRef, startVars, portVars, AdapterIInv, AdapterTypeOK, FoundOK,
     CommonOK, Setup, Installing, Making
<1>4. CommonOK'
  BY DEF CacheSubdevice, AddRef, startVars, portVars, AdapterIInv, CommonOK, Setup, Installing
<1>5. ConnectedOK'
  BY Pairs, EndpointsApart, <1>1, <1>6 DEF CacheSubdevice, AddRef, startVars, portVars, AdapterIInv,
     AdapterTypeOK, FoundOK, CommonOK, ConnectedOK, Done, Setup, Installing, Making
<1> QED
  BY <1>1, <1>2, <1>3, <1>4, <1>5 DEF AdapterIInv

LEMMA NextPartHolds ==
  ASSUME AdapterIInv, NextPart
  PROVE  AdapterIInv'
<1>6. Topology' = Topology /\ Wave' = Wave /\ Both(endpoint)' = Both(endpoint)
  BY DEF NextPart, startVars, Topology, Wave, Sub, Both
<1>7. /\ part' = "Topo" => Sub' = Topology
      /\ part' # "Topo" => Sub' = Wave
      /\ endpoint \in Endpoints /\ part \in Parts /\ part' \in Parts
  BY DEF NextPart, startVars, Topology, Wave, Sub, AdapterIInv, AdapterTypeOK, Parts
<1>1. AdapterTypeOK'
  BY Pairs DEF NextPart, startVars, portVars, AdapterIInv, AdapterTypeOK, Setup, Installing, Endpoints,
     Parts
<1>2. RefsOK'
  BY Pairs DEF NextPart, startVars, portVars, AdapterIInv, AdapterTypeOK, RefsOK, One, FoundOK, CommonOK,
     Setup, Installing, Making
<1>3. FoundOK'
  BY Pairs, <1>1, <1>6, <1>7 DEF NextPart, startVars, portVars, AdapterIInv, AdapterTypeOK, FoundOK,
     CommonOK, Setup, Installing, Making
<1>4. CommonOK'
  BY DEF NextPart, startVars, portVars, AdapterIInv, CommonOK, Setup, Installing
<1>5. ConnectedOK'
  BY Pairs, EndpointsApart, <1>1, <1>6 DEF NextPart, startVars, portVars, AdapterIInv, AdapterTypeOK,
     FoundOK, CommonOK, ConnectedOK, Done, Setup, Installing, Making
<1> QED
  BY <1>1, <1>2, <1>3, <1>4, <1>5 DEF AdapterIInv

LEMMA ConnectTopologiesHolds ==
  ASSUME AdapterIInv, ConnectTopologies
  PROVE  AdapterIInv'
<1>6. Topology' = Topology /\ Wave' = Wave /\ Sub' = Sub /\ Both(endpoint)' = Both(endpoint)
  BY DEF ConnectTopologies, startVars, Topology, Wave, Sub, Both
<1>1. AdapterTypeOK'
  BY Pairs DEF ConnectTopologies, DisconnectTopologies, startVars, portVars, AdapterIInv, AdapterTypeOK,
     Setup, Installing, Endpoints, Parts
<1>2. RefsOK'
  BY Pairs DEF ConnectTopologies, DisconnectTopologies, startVars, portVars, AdapterIInv, AdapterTypeOK,
     RefsOK, One, FoundOK, CommonOK, Setup, Installing, Making
<1>3. FoundOK'
  BY Pairs, <1>1, <1>6 DEF ConnectTopologies, DisconnectTopologies, startVars, portVars, AdapterIInv,
     AdapterTypeOK, FoundOK, CommonOK, Setup, Installing, Making
<1>4. CommonOK'
  BY DEF ConnectTopologies, DisconnectTopologies, startVars, portVars, AdapterIInv, CommonOK, Setup,
     Installing
<1>5. ConnectedOK'
  BY Pairs, EndpointsApart, <1>1, <1>6 DEF ConnectTopologies, DisconnectTopologies, startVars, portVars,
     AdapterIInv, AdapterTypeOK, FoundOK, CommonOK, ConnectedOK, Done, Setup, Installing, Making
<1> QED
  BY <1>1, <1>2, <1>3, <1>4, <1>5 DEF AdapterIInv

LEMMA SettleInstalledHolds ==
  ASSUME AdapterIInv, SettleInstalled
  PROVE  AdapterIInv'
<1>1. AdapterTypeOK'
  BY Pairs DEF SettleInstalled, Release, startVars, portVars, AdapterIInv, AdapterTypeOK, Setup, Installing,
     Endpoints, Parts
<1>2. RefsOK'
  BY Pairs DEF SettleInstalled, Release, startVars, portVars, AdapterIInv, AdapterTypeOK, RefsOK, One,
     FoundOK, CommonOK, Setup, Installing, Making
<1>3. FoundOK'
  BY Pairs, <1>1 DEF SettleInstalled, Release, startVars, portVars, AdapterIInv, AdapterTypeOK, FoundOK,
     CommonOK, Setup, Installing, Making
<1>4. CommonOK'
  BY DEF SettleInstalled, Release, startVars, portVars, AdapterIInv, CommonOK, Setup, Installing
<1>5. ConnectedOK'
  <2>1. /\ step = "settle" /\ step' = "queries" /\ succeeded
        /\ UNCHANGED <<endpoint, registered, connected>> /\ endpoint \in Endpoints
    BY DEF SettleInstalled, startVars, portVars, AdapterIInv, AdapterTypeOK
  <2>2. /\ endpoint = "render" => registered \cap Both("capture") = {}
        /\ Both(endpoint) \subseteq registered => endpoint \in connected
        /\ endpoint = "capture" /\ Both("render") \subseteq registered => "render" \in connected
    BY <2>1 DEF AdapterIInv, ConnectedOK, Done, Setup, Installing, Endpoints
  <2>3. ASSUME NEW e \in Endpoints, Done(e)', Both(e) \subseteq registered
        PROVE  e \in connected
    BY <2>1, <2>2, <2>3 DEF Done, Installing, Endpoints
  <2> QED
    BY <2>1, <2>2, <2>3 DEF ConnectedOK, Both, Setup
<1> QED
  BY <1>1, <1>2, <1>3, <1>4, <1>5 DEF AdapterIInv

LEMMA SettleFailedHolds ==
  ASSUME AdapterIInv, SettleFailed
  PROVE  AdapterIInv'
<1>1. AdapterTypeOK'
  BY Pairs DEF SettleFailed, Exit, UnregisterSubdevice, Forgotten, startVars, portVars, AdapterIInv,
     AdapterTypeOK, Setup, Installing, Endpoints, Parts
<1>2. RefsOK'
  BY Pairs DEF SettleFailed, Exit, UnregisterSubdevice, Forgotten, startVars, portVars, AdapterIInv,
     AdapterTypeOK, RefsOK, One, FoundOK, CommonOK, Setup, Installing, Making
<1>3. FoundOK'
  BY Pairs, <1>1 DEF SettleFailed, Exit, UnregisterSubdevice, Forgotten, startVars, portVars, AdapterIInv,
     AdapterTypeOK, FoundOK, CommonOK, Setup, Installing, Making
<1>4. CommonOK'
  BY DEF SettleFailed, Exit, UnregisterSubdevice, Forgotten, startVars, portVars, AdapterIInv, CommonOK,
     Setup, Installing
<1>5. ConnectedOK'
  BY Pairs, EndpointsApart, <1>1 DEF SettleFailed, Exit, UnregisterSubdevice, Forgotten, startVars,
     portVars, AdapterIInv, AdapterTypeOK, FoundOK, CommonOK, ConnectedOK, Done, Setup, Installing, Making
<1> QED
  BY <1>1, <1>2, <1>3, <1>4, <1>5 DEF AdapterIInv

LEMMA QueryWavePortHolds ==
  ASSUME AdapterIInv, QueryWavePort
  PROVE  AdapterIInv'
<1>1. AdapterTypeOK'
  BY Pairs DEF QueryWavePort, Exit, NextEndpoint, startVars, portVars, AdapterIInv, AdapterTypeOK, Setup,
     Installing, Endpoints, Parts
<1>2. RefsOK'
  BY Pairs DEF QueryWavePort, Exit, NextEndpoint, startVars, portVars, AdapterIInv, AdapterTypeOK, RefsOK,
     One, FoundOK, CommonOK, Setup, Installing, Making
<1>3. FoundOK'
  <2>1. /\ step = "queries" /\ step' \in {"find", "running", "failed"}
        /\ UNCHANGED <<registered, connected, cache>> /\ endpoint \in Endpoints
        /\ step' = "find" => endpoint = "render" /\ endpoint' = "capture" /\ part' = "Topo" /\ found' = {}
        /\ step' # "find" => UNCHANGED endpoint
    BY DEF QueryWavePort, NextEndpoint, Exit, startVars, portVars, AdapterIInv, AdapterTypeOK
  <2>2. step' = "find" => registered \cap Both("capture") = {}
    BY <2>1 DEF AdapterIInv, ConnectedOK, Setup
  <2> QED
    BY <2>1, <2>2 DEF AdapterIInv, FoundOK, Installing, Making
<1>4. CommonOK'
  BY DEF QueryWavePort, Exit, NextEndpoint, startVars, portVars, AdapterIInv, CommonOK, Setup, Installing
<1>5. ConnectedOK'
  <2>1. /\ step = "queries" /\ step' \in {"find", "running", "failed"}
        /\ UNCHANGED <<registered, connected, cache>> /\ endpoint \in Endpoints
        /\ step' = "find" => endpoint = "render" /\ endpoint' = "capture" /\ part' = "Topo" /\ found' = {}
        /\ step' # "find" => UNCHANGED endpoint
    BY DEF QueryWavePort, NextEndpoint, Exit, startVars, portVars, AdapterIInv, AdapterTypeOK
  <2>2. /\ endpoint = "render" => registered \cap Both("capture") = {}
        /\ Both(endpoint) \subseteq registered => endpoint \in connected
        /\ Both("render") \subseteq registered => "render" \in connected
    BY <2>1 DEF AdapterIInv, ConnectedOK, Done, Setup, Endpoints
  <2>3. ASSUME NEW e \in Endpoints, Done(e)', Both(e) \subseteq registered
        PROVE  e \in connected
    <3>1. e = "render" \/ e = "capture"
      BY DEF Endpoints
    <3>2. Both("capture") # {}
      BY BothAreParts DEF Endpoints
    <3> QED
      BY <2>1, <2>2, <2>3, <3>1, <3>2 DEF Done, Installing, Endpoints
  <2> QED
    BY <2>1, <2>2, <2>3 DEF ConnectedOK, Both, Setup, Installing
<1> QED
  BY <1>1, <1>2, <1>3, <1>4, <1>5 DEF AdapterIInv

LEMMA CaptureInstalledHolds ==
  ASSUME AdapterIInv, CaptureInstalled
  PROVE  AdapterIInv'
<1>1. AdapterTypeOK'
  BY Pairs DEF CaptureInstalled, NextEndpoint, Exit, startVars, portVars, AdapterIInv, AdapterTypeOK, Setup,
     Installing, Endpoints, Parts
<1>2. RefsOK'
  BY Pairs DEF CaptureInstalled, NextEndpoint, Exit, startVars, portVars, AdapterIInv, AdapterTypeOK,
     RefsOK, One, FoundOK, CommonOK, Setup, Installing, Making
<1>3. FoundOK'
  <2>1. /\ step = "queries" /\ step' \in {"find", "running", "failed"}
        /\ UNCHANGED <<registered, connected, cache>> /\ endpoint \in Endpoints
        /\ step' = "find" => endpoint = "render" /\ endpoint' = "capture" /\ part' = "Topo" /\ found' = {}
        /\ step' # "find" => UNCHANGED endpoint
    BY DEF CaptureInstalled, NextEndpoint, Exit, startVars, portVars, AdapterIInv, AdapterTypeOK
  <2>2. step' = "find" => registered \cap Both("capture") = {}
    BY <2>1 DEF AdapterIInv, ConnectedOK, Setup
  <2> QED
    BY <2>1, <2>2 DEF AdapterIInv, FoundOK, Installing, Making
<1>4. CommonOK'
  BY DEF CaptureInstalled, NextEndpoint, Exit, startVars, portVars, AdapterIInv, CommonOK, Setup, Installing
<1>5. ConnectedOK'
  <2>1. /\ step = "queries" /\ step' \in {"find", "running", "failed"}
        /\ UNCHANGED <<registered, connected, cache>> /\ endpoint \in Endpoints
        /\ step' = "find" => endpoint = "render" /\ endpoint' = "capture" /\ part' = "Topo" /\ found' = {}
        /\ step' # "find" => UNCHANGED endpoint
    BY DEF CaptureInstalled, NextEndpoint, Exit, startVars, portVars, AdapterIInv, AdapterTypeOK
  <2>2. /\ endpoint = "render" => registered \cap Both("capture") = {}
        /\ Both(endpoint) \subseteq registered => endpoint \in connected
        /\ Both("render") \subseteq registered => "render" \in connected
    BY <2>1 DEF AdapterIInv, ConnectedOK, Done, Setup, Endpoints
  <2>3. ASSUME NEW e \in Endpoints, Done(e)', Both(e) \subseteq registered
        PROVE  e \in connected
    <3>1. e = "render" \/ e = "capture"
      BY DEF Endpoints
    <3>2. Both("capture") # {}
      BY BothAreParts DEF Endpoints
    <3> QED
      BY <2>1, <2>2, <2>3, <3>1, <3>2 DEF Done, Installing, Endpoints
  <2> QED
    BY <2>1, <2>2, <2>3 DEF ConnectedOK, Both, Setup, Installing
<1> QED
  BY <1>1, <1>2, <1>3, <1>4, <1>5 DEF AdapterIInv

LEMMA PowerChangeStateHolds ==
  ASSUME AdapterIInv, PowerChangeState
  PROVE  AdapterIInv'
<1>1. AdapterTypeOK'
  BY Pairs DEF PowerChangeState, Rk3xInit, Rk3xDeinit, startVars, portVars, AdapterIInv, AdapterTypeOK,
     Setup, Installing, Endpoints, Parts
<1>2. RefsOK'
  BY Pairs DEF PowerChangeState, Rk3xInit, Rk3xDeinit, startVars, portVars, AdapterIInv, AdapterTypeOK,
     RefsOK, One, FoundOK, CommonOK, Setup, Installing, Making
<1>3. FoundOK'
  BY Pairs, <1>1 DEF PowerChangeState, Rk3xInit, Rk3xDeinit, startVars, portVars, AdapterIInv,
     AdapterTypeOK, FoundOK, CommonOK, Setup, Installing, Making
<1>4. CommonOK'
  BY DEF PowerChangeState, Rk3xInit, Rk3xDeinit, startVars, portVars, AdapterIInv, CommonOK, Setup,
     Installing
<1>5. ConnectedOK'
  BY Pairs, EndpointsApart, <1>1 DEF PowerChangeState, Rk3xInit, Rk3xDeinit, startVars, portVars,
     AdapterIInv, AdapterTypeOK, FoundOK, CommonOK, ConnectedOK, Done, Setup, Installing, Making
<1> QED
  BY <1>1, <1>2, <1>3, <1>4, <1>5 DEF AdapterIInv

LEMMA PnpHandlerHolds ==
  ASSUME AdapterIInv, PnpHandler
  PROVE  AdapterIInv'
<1>1. AdapterTypeOK'
  BY Pairs DEF PnpHandler, EmptySubdeviceCache, Release, startVars, portVars, AdapterIInv, AdapterTypeOK,
     Setup, Installing, Endpoints, Parts
<1>2. RefsOK'
  BY Pairs DEF PnpHandler, EmptySubdeviceCache, Release, startVars, portVars, AdapterIInv, AdapterTypeOK,
     RefsOK, One, FoundOK, CommonOK, Setup, Installing, Making
<1>3. FoundOK'
  BY Pairs, <1>1 DEF PnpHandler, EmptySubdeviceCache, Release, startVars, portVars, AdapterIInv,
     AdapterTypeOK, FoundOK, CommonOK, Setup, Installing, Making
<1>4. CommonOK'
  BY DEF PnpHandler, EmptySubdeviceCache, Release, startVars, portVars, AdapterIInv, CommonOK, Setup,
     Installing
<1>5. ConnectedOK'
  BY Pairs, EndpointsApart, <1>1 DEF PnpHandler, EmptySubdeviceCache, Release, startVars, portVars,
     AdapterIInv, AdapterTypeOK, FoundOK, CommonOK, ConnectedOK, Done, Setup, Installing, Making
<1> QED
  BY <1>1, <1>2, <1>3, <1>4, <1>5 DEF AdapterIInv

LEMMA PcDispatchIrpHolds ==
  ASSUME AdapterIInv, PcDispatchIrp
  PROVE  AdapterIInv'
<1>1. AdapterTypeOK'
  BY Pairs DEF PcDispatchIrp, Destroyed, Rk3xDeinit, startVars, portVars, AdapterIInv, AdapterTypeOK, Setup,
     Installing, Endpoints, Parts
<1>2. RefsOK'
  BY Pairs DEF PcDispatchIrp, Destroyed, Rk3xDeinit, startVars, portVars, AdapterIInv, AdapterTypeOK,
     RefsOK, One, FoundOK, CommonOK, Setup, Installing, Making
<1>3. FoundOK'
  BY Pairs, <1>1 DEF PcDispatchIrp, Destroyed, Rk3xDeinit, startVars, portVars, AdapterIInv, AdapterTypeOK,
     FoundOK, CommonOK, Setup, Installing, Making
<1>4. CommonOK'
  <2>1. /\ step = "dispatch" /\ step' = "stopped" /\ registered' = {} /\ UNCHANGED cache
        /\ cache = {} /\ "stashed" \notin common
    BY DEF PcDispatchIrp, AdapterIInv, CommonOK
  <2>2. \A s \in Subdevices : refs[s] = 0
    BY <2>1 DEF AdapterIInv, RefsOK, One, Installing
  <2>3. CASE common = {}
    BY <2>1, <2>3 DEF PcDispatchIrp, AdapterIInv, CommonOK, Setup, Installing
  <2>4. CASE common # {}
    BY <2>1, <2>2, <2>4 DEF PcDispatchIrp, Destroyed, Rk3xDeinit, CommonOK, Setup, Installing
  <2> QED
    BY <2>3, <2>4
<1>5. ConnectedOK'
  BY Pairs, EndpointsApart, <1>1 DEF PcDispatchIrp, Destroyed, Rk3xDeinit, startVars, portVars, AdapterIInv,
     AdapterTypeOK, FoundOK, CommonOK, ConnectedOK, Done, Setup, Installing, Making
<1> QED
  BY <1>1, <1>2, <1>3, <1>4, <1>5 DEF AdapterIInv

LEMMA AdapterStepHolds == AdapterIInv /\ [AdapterNext]_adapterVars => AdapterIInv'
<1> SUFFICES ASSUME AdapterIInv, [AdapterNext]_adapterVars PROVE AdapterIInv'
  OBVIOUS
<1>1. CASE UNCHANGED adapterVars
  BY <1>1 DEF adapterVars, startVars, portVars, AdapterIInv, AdapterTypeOK, RefsOK, FoundOK, CommonOK,
     ConnectedOK,
              Done, Topology, Wave, Sub
<1> QED
  BY <1>1, NewAdapterCommonHolds, InitAdapterHolds, RegisterPowerManagementHolds, GetCachedSubdeviceHolds,
     CreateAudioInterfaceWithPropertiesHolds, InstallSubdeviceHolds, CacheSubdeviceHolds, NextPartHolds,
     ConnectTopologiesHolds, SettleInstalledHolds, SettleFailedHolds, QueryWavePortHolds, CaptureInstalledHolds,
     PowerChangeStateHolds, PnpHandlerHolds, PcDispatchIrpHolds DEF AdapterNext

LEMMA AdapterFollows == AdapterIInv => FiltersAccountedFor
<1> SUFFICES ASSUME AdapterIInv PROVE FiltersAccountedFor
  OBVIOUS
<1>1. step \in {"running", "failed", "stopped"} => \A s \in Subdevices : refs[s] = IF s \in cache THEN 1 ELSE 0
  BY DEF AdapterIInv, RefsOK, One, Installing
<1>2. step = "running" => \A e \in Endpoints : {e} \X Parts \subseteq registered => e \in connected
  BY BothAreParts DEF AdapterIInv, ConnectedOK, Done
<1>3. step = "stopped" => registered = {} /\ common = {} /\ block = "off" /\ ~etw
  BY DEF AdapterIInv, CommonOK
<1>4. cache \subseteq registered
  BY DEF AdapterIInv, FoundOK
<1> QED
  BY <1>1, <1>2, <1>3, <1>4 DEF FiltersAccountedFor

\* Whichever calls of StartDevice fail and wherever, over any number of starts
\* and stops, nothing is cached that is not registered, each cached filter is
\* referenced once, and a stop leaves no adapter, no filter and no clock behind.
THEOREM NothingLeftBehind == AdapterSpec => []FiltersAccountedFor
BY AdapterInitHolds, AdapterStepHolds, AdapterFollows, PTL DEF AdapterSpec
=============================================================================
