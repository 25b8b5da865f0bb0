------------------------------- MODULE Pl330 -------------------------------
(***************************************************************************)
(* The PL330 DMA controller driver (pl330dma): the channel handles it      *)
(* lends and the start and stop of a channel through the debug registers,  *)
(* with the controller.  The interrupt only serves notification callbacks, *)
(* which no driver of the repository registers: it is left out.            *)
(*                                                                         *)
(* The driver takes no lock.  A caller of StopDMA or SubmitAudioDMA runs   *)
(* through the labels of pc[d], one access to a shared register each, and  *)
(* any number of callers and the controller interleave.                    *)
(* A channel's program never ends by itself: it is a loop for ever.        *)
(***************************************************************************)
EXTENDS Naturals, FiniteSets

CONSTANTS
  Callers,     \* threads that call into the interface
  Chans,       \* the controller's channels; channel c signals event c
  None,        \* no channel, no address
  MaxLost,     \* bound: debug instructions that find the controller busy
  MaxFaults    \* bound: bus faults

ASSUME ChanAssumption == None \notin Chans
ASSUME BoundsAssumption == MaxLost \in Nat /\ MaxFaults \in Nat

VARIABLES
  cs,          \* CS(c): state of each channel
  runs,        \* microcode buffer each channel executes
  inten,       \* INTEN, as a set of events
  dbg0, dbg1,  \* DBGINST0 and DBGINST1
  isFree,      \* channels with Free set
  reqRunning,  \* channels with ReqRunning set
  pc, loc,     \* position and locals of each caller inside the driver
  lost, faults,\* counters behind MaxLost and MaxFaults
  clash        \* history: two callers' register sequences overlapped

hw      == <<cs, runs, inten, dbg0, dbg1>>
threads == <<isFree, reqRunning>>
caller  == <<pc, loc>>
bounds  == <<lost, faults, clash>>
dmaVars == <<hw, threads, caller, bounds>>

States   == {"STOPPED", "EXECUTING", "FAULT_COMPLETING", "FAULTING", "KILLING"}
Insns    == {"KILL", "GO"}
DbgLabels == {"dbgIdle", "dbgInst0", "dbgInst1", "dbgCmd"}
Labels   == DbgLabels \cup {"ready", "start", "startFc", "startUntil", "trigger", "trigInten",
             "trigEnd", "stop", "stopWait", "stopEnd"}
Locals   == [ch : Chans \cup {None}, inten : SUBSET Chans,
             insn : Insns, ret : Labels, nested : BOOLEAN]

DmaTypeOK ==
  /\ cs \in [Chans -> States]
  /\ runs \in [Chans -> Chans \cup {None}]
  /\ inten \subseteq Chans
  /\ dbg0 \in (Insns \X Chans) \cup {<<>>} /\ dbg1 \in Chans \cup {None}
  /\ isFree \subseteq Chans /\ reqRunning \subseteq Chans
  /\ pc \in [Callers -> Labels] /\ loc \in [Callers -> Locals]
  /\ lost \in 0 .. MaxLost /\ faults \in 0 .. MaxFaults /\ clash \in BOOLEAN

\* The locals of a caller outside the driver.
NoLocals == [ch |-> None, inten |-> {}, insn |-> "KILL", ret |-> "ready",
             nested |-> FALSE]

\* AllocResources and AllocThreads: every channel is free and reset.
DmaInit ==
  /\ cs = [c \in Chans |-> "STOPPED"] /\ runs = [c \in Chans |-> None]
  /\ inten = {} /\ dbg0 = <<>> /\ dbg1 = None
  /\ isFree = Chans /\ reqRunning = {}
  /\ pc = [d \in Callers |-> "ready"]
  /\ loc = [d \in Callers |-> NoLocals]
  /\ lost = 0 /\ faults = 0 /\ clash = FALSE

-----------------------------------------------------------------------------
(* Handles.  GetHandle and FreeHandle are one step of their caller: they   *)
(* touch one channel's flags only.                                         *)

\* What GetHandle returns for index i, and the flags it leaves.
Handle(i) == IF i \in isFree THEN i ELSE None
TakeHandle(i) == isFree' = isFree \ {i}

\* FreeHandle refuses while ReqRunning is set.
FreeHandle(c) == isFree' = IF c \in reqRunning THEN isFree ELSE isFree \cup {c}

-----------------------------------------------------------------------------
(* The steps of a caller d inside the driver.                              *)

Chan(d)    == loc[d].ch
Goto(d, l) == pc' = [pc EXCEPT ![d] = l]

Leave(d)   == Goto(d, "ready") /\ loc' = [loc EXCEPT ![d] = NoLocals]

\* Enter _start or _stop for channel c.
EnterDma(d, l, c) ==
  /\ Goto(d, l)
  /\ loc' = [loc EXCEPT ![d].ch = c, ![d].nested = FALSE]

\* Issue a debug instruction and continue at l.
Execute(d, insn, l) ==
  /\ Goto(d, "dbgIdle")
  /\ loc' = [loc EXCEPT ![d].insn = insn, ![d].ret = l]

\* Another caller has read INTEN and not written it back.
StaleInten(d) == \E e \in Callers \ {d} :
  \/ pc[e] \in {"trigInten", "stopWait", "stopEnd"}
  \/ pc[e] \in DbgLabels /\ loc[e].insn = "KILL"

\* Another caller is between the idle check and the command.
Overlap(d) == \E e \in Callers \ {d} :
                pc[e] \in DbgLabels \ {"dbgIdle"}

\* Variant: _start goes on to _trigger although the channel is being killed.
StartUnwaited(d) ==
  /\ pc[d] = "start"
  /\ \/ cs[Chan(d)] = "EXECUTING" /\ Leave(d)
     \/ cs[Chan(d)] # "EXECUTING" /\ Goto(d, "trigger") /\ UNCHANGED loc
  /\ UNCHANGED <<hw, threads, bounds>>

\* _start: what it does depends on the state it reads first.
Start(d) ==
  /\ pc[d] = "start"
  /\ \/ cs[Chan(d)] = "EXECUTING" /\ Leave(d)
     \/ /\ cs[Chan(d)] # "EXECUTING"
        /\ Goto(d, CASE cs[Chan(d)] = "FAULT_COMPLETING" -> "startFc"
                     [] cs[Chan(d)] = "FAULTING"         -> "stop"
                     [] cs[Chan(d)] = "KILLING"          -> "startUntil"
                     [] cs[Chan(d)] = "STOPPED"          -> "trigger")
        /\ loc' = [loc EXCEPT ![d].nested = TRUE]
  /\ UNCHANGED <<hw, threads, bounds>>

\* UNTIL(FAULTING | KILLING), and after a kill UNTIL(STOPPED); then _stop.
StartFc(d) ==
  /\ pc[d] = "startFc" /\ cs[Chan(d)] \in {"FAULTING", "STOPPED"}
  /\ Goto(d, "stop")
  /\ UNCHANGED <<hw, threads, loc, bounds>>

StartUntil(d) ==
  /\ pc[d] = "startUntil" /\ cs[Chan(d)] = "STOPPED"
  /\ Goto(d, "trigger")
  /\ UNCHANGED <<hw, threads, loc, bounds>>

\* _trigger: nothing to do for an active channel or a running request.
Trigger(d) ==
  /\ pc[d] = "trigger"
  /\ IF cs[Chan(d)] # "STOPPED" \/ Chan(d) \in reqRunning
       THEN Leave(d)
       ELSE Goto(d, "trigInten") /\ loc' = [loc EXCEPT ![d].inten = inten]
  /\ UNCHANGED <<hw, threads, bounds>>

TrigInten(d) ==
  /\ pc[d] = "trigInten"
  /\ inten' = loc[d].inten \cup {Chan(d)}
  /\ clash' = (clash \/ StaleInten(d))
  /\ Execute(d, "GO", "trigEnd")
  /\ UNCHANGED <<cs, runs, dbg0, dbg1, threads, lost, faults>>

\* ReqRunning is set whether or not the instruction was issued.
TrigEnd(d) ==
  /\ pc[d] = "trigEnd"
  /\ reqRunning' = reqRunning \cup {Chan(d)}
  /\ Leave(d)
  /\ UNCHANGED <<hw, isFree, bounds>>

StopRead(d) ==
  /\ pc[d] = "stop"
  /\ loc' = [loc EXCEPT ![d].inten = inten]
  /\ Goto(d, "stopWait")
  /\ UNCHANGED <<hw, threads, bounds>>

\* Where _stop returns to: its caller, or the case of _start that called it.
AfterStop(d) ==
  IF loc[d].nested THEN Goto(d, "startUntil") /\ UNCHANGED loc ELSE Leave(d)

\* Variant: the kill comes after the wait for the channel to stop.
StopWaitFirst(d) ==
  /\ pc[d] = "stopWait" /\ cs[Chan(d)] = "STOPPED"
  /\ AfterStop(d)
  /\ UNCHANGED <<hw, threads, bounds>>

\* A channel already stopped or being killed is left as it is, flags too.
StopWait(d) ==
  /\ pc[d] = "stopWait" /\ cs[Chan(d)] # "FAULT_COMPLETING"
  /\ IF cs[Chan(d)] \in {"KILLING", "STOPPED"}
       THEN AfterStop(d)
       ELSE Execute(d, "KILL", "stopEnd")
  /\ UNCHANGED <<hw, threads, bounds>>

\* Variant: ReqRunning survives the stop.
StopEndRunning(d) ==
  /\ pc[d] = "stopEnd"
  /\ inten' = loc[d].inten \ {Chan(d)}
  /\ clash' = (clash \/ StaleInten(d))
  /\ AfterStop(d)
  /\ UNCHANGED <<cs, runs, dbg0, dbg1, threads, lost, faults>>

\* INTEN is written from the value read before the wait and the kill.
StopEnd(d) ==
  /\ pc[d] = "stopEnd"
  /\ inten' = loc[d].inten \ {Chan(d)}
  /\ reqRunning' = reqRunning \ {Chan(d)}
  /\ clash' = (clash \/ StaleInten(d))
  /\ AfterStop(d)
  /\ UNCHANGED <<cs, runs, dbg0, dbg1, isFree, lost, faults>>

\* UntilDmacIdle; on the 5 ms timeout the instruction is dropped in silence.
DbgIdle(d) ==
  /\ pc[d] = "dbgIdle"
  /\ \/ Goto(d, "dbgInst0") /\ UNCHANGED lost
     \/ lost < MaxLost /\ lost' = lost + 1 /\ Goto(d, loc[d].ret)
  /\ UNCHANGED <<hw, threads, loc, faults, clash>>

DbgInst0(d) ==
  /\ pc[d] = "dbgInst0"
  /\ dbg0' = <<loc[d].insn, Chan(d)>>
  /\ clash' = (clash \/ Overlap(d))
  /\ Goto(d, "dbgInst1")
  /\ UNCHANGED <<cs, runs, inten, dbg1, threads, loc, lost, faults>>

\* The address of the channel's microcode buffer for GO, zero for KILL.
DbgInst1(d) ==
  /\ pc[d] = "dbgInst1"
  /\ dbg1' = IF loc[d].insn = "GO" THEN Chan(d) ELSE None
  /\ clash' = (clash \/ Overlap(d))
  /\ Goto(d, "dbgCmd")
  /\ UNCHANGED <<cs, runs, inten, dbg0, threads, loc, lost, faults>>

\* The controller executes whatever the two registers hold by now.
DbgCmd(d) ==
  /\ pc[d] = "dbgCmd"
  /\ LET c == dbg0[2] IN
       \/ /\ dbg0[1] = "KILL"
          /\ cs' = [cs EXCEPT ![c] = IF @ = "STOPPED" THEN @ ELSE "KILLING"]
          /\ UNCHANGED runs
       \/ /\ dbg0[1] = "GO" /\ cs[c] = "STOPPED"
          /\ cs' = [cs EXCEPT ![c] = "EXECUTING"]
          /\ runs' = [runs EXCEPT ![c] = dbg1]
       \/ /\ dbg0[1] = "GO" /\ cs[c] # "STOPPED"
          /\ UNCHANGED <<cs, runs>>
  /\ clash' = (clash \/ Overlap(d))
  /\ Goto(d, loc[d].ret)
  /\ UNCHANGED <<inten, dbg0, dbg1, threads, loc, lost, faults>>

CallerStep(d) ==
  \/ Start(d) \/ StartFc(d) \/ StartUntil(d)
  \/ Trigger(d) \/ TrigInten(d) \/ TrigEnd(d)
  \/ StopRead(d) \/ StopWait(d) \/ StopEnd(d)
  \/ DbgIdle(d) \/ DbgInst0(d) \/ DbgInst1(d) \/ DbgCmd(d)

-----------------------------------------------------------------------------
(* The controller.                                                         *)

\* A bus fault stops a running channel; the bound is MaxFaults.
Fault(c) ==
  /\ cs[c] = "EXECUTING" /\ faults < MaxFaults
  /\ faults' = faults + 1
  /\ cs' = [cs EXCEPT ![c] = "FAULT_COMPLETING"]
  /\ UNCHANGED <<runs, inten, dbg0, dbg1, threads, caller, lost, clash>>

\* A faulting channel comes to rest, and so does a killed one.
Settle(c) ==
  /\ \/ cs[c] = "FAULT_COMPLETING" /\ cs' = [cs EXCEPT ![c] = "FAULTING"]
        /\ UNCHANGED runs
     \/ cs[c] = "KILLING" /\ cs' = [cs EXCEPT ![c] = "STOPPED"]
        /\ runs' = [runs EXCEPT ![c] = None]
  /\ UNCHANGED <<inten, dbg0, dbg1, threads, caller, bounds>>

DmaEnv == \E c \in Chans : Fault(c) \/ Settle(c)
=============================================================================
