----------------------------- MODULE Pl330Program -----------------------------
(***************************************************************************)
(* The program of a cyclic audio transfer (dma/pl330dma/insn.c), and the   *)
(* DMAC that runs it.                                                      *)
(*                                                                         *)
(* A period is moved in bursts of BurstLength words, each after a request  *)
(* of the peripheral, and ends with an event.  Loops of more than 256      *)
(* turns are folded into their body, since a loop counter is a byte; so is *)
(* the distance of a jump.                                                 *)
(***************************************************************************)
EXTENDS Integers, FiniteSets, Sequences

CONSTANT Transfers    \* [fromDevice, periods, words]: words of four bytes a period

BurstLength == 8      \* maxBurst
CodeSize == 512       \* of a channel's program buffer

ASSUME TransfersAssumption ==
  \A t \in Transfers : t.periods \in Nat \ {0} /\ t.words >= BurstLength

-----------------------------------------------------------------------------
(* The instructions, with the bytes they take (opcodes.h).                 *)

Insn(op, size, arg) == [op |-> op, size |-> size, arg |-> arg]

MOV(register, value) == Insn("MOV " \o register, 6, value)
FLUSHP == Insn("FLUSHP", 2, 0)
WFP == Insn("WFP", 2, 0)
SEV == Insn("SEV", 2, 0)

\* The side of the peripheral has the longer form.
Load(t) == Insn("LD", IF t.fromDevice THEN 2 ELSE 1, 0)
Store(t) == Insn("ST", IF t.fromDevice THEN 1 ELSE 2, 0)

Byte(n) == n % 256

\* The counter is loaded with one less than the turns.
LP(loop, turns) == Insn("LP", 2, <<loop, Byte(Byte(turns) - 1)>>)

\* An instruction takes one, two or six bytes.
Bytes(code) ==
  LET Taking(n) == Cardinality({i \in DOMAIN code : code[i].size = n})
  IN Taking(1) + 2 * Taking(2) + 6 * Taking(6)

\* The jump is as long as the code it repeats.
LPEND(loop, body) == Insn("LPEND", 2, <<loop, Byte(Bytes(body))>>)
LPENDFE(body) == Insn("LPENDFE", 2, Byte(Bytes(body)))

Loop(loop, turns, body) == <<LP(loop, turns)>> \o body \o <<LPEND(loop, body)>>

Repeat(n, code) == [i \in 1 .. n * Len(code) |-> code[((i - 1) % Len(code)) + 1]]

-----------------------------------------------------------------------------
(* _ldst_peripheral, _dregs, _period, _loop_cyclic.                        *)

Bursts(t, cyc) == <<FLUSHP>> \o Repeat(cyc, <<WFP, Load(t), Store(t)>>)

\* What is left of a period once its bursts have moved goes in a shorter one.
Dregs(t) ==
  LET n == t.words % BurstLength IN
  IF n = 0 THEN <<>>
  ELSE <<MOV("CCR", n)>> \o Bursts(t, 1) \o <<MOV("CCR", BurstLength)>>

Remainder_None(t, rest) == <<>>    \* slip: bursts beyond a multiple of 256
Remainder(t, rest) == IF rest = 0 THEN <<>> ELSE Loop(1, rest, Bursts(t, 1))

Period(t) ==
  LET bursts == t.words \div BurstLength
      turns == IF bursts > 256 THEN 256 ELSE bursts
      cyc == IF bursts > 256 THEN bursts \div 256 ELSE 1
  IN Loop(1, turns, Bursts(t, cyc)) \o Remainder(t, bursts - turns * cyc)
       \o Dregs(t) \o <<SEV>>

\* The periods of one turn of the outer loop: as few as let it count to 256.
PerTurn(n) == CHOOSE p \in 1 .. n : n \div p <= 256 /\ \A q \in 1 .. p - 1 : n \div q > 256

LoopCyclic(t) ==
  LET p == PerTurn(t.periods)
      body == <<MOV("SAR", 0), MOV("DAR", 0)>>
                \o Loop(0, t.periods \div p, Repeat(p, Period(t)))
                \o Repeat(t.periods % p, Period(t))
  IN body \o <<LPENDFE(body)>>

Program(t) == <<MOV("CCR", BurstLength)>> \o LoopCyclic(t)

-----------------------------------------------------------------------------
(* The DMAC (external).                                                    *)

VARIABLES
  transfer, code,   \* what was submitted, and its program
  pc,               \* 0 before the start
  counters,         \* of loops 0 and 1
  burst,            \* the burst length in CCR
  asked, held,      \* the peripheral's request; words loaded and not stored
  moved, since      \* words since the start of the buffer; since the last event

programVars == <<transfer, code, pc, counters, burst, asked, held, moved, since>>

None == [fromDevice |-> FALSE, periods |-> 1, words |-> BurstLength]

ProgramInit ==
  /\ transfer = None /\ code = <<>> /\ pc = 0
  /\ counters = [l \in {0, 1} |-> 0] /\ burst = 0
  /\ asked = FALSE /\ held = 0 /\ moved = 0 /\ since = 0

SubmitAudioDMA ==
  /\ pc = 0
  /\ transfer' \in Transfers
  /\ code' = Program(transfer')
  /\ pc' = 1
  /\ UNCHANGED <<counters, burst, asked, held, moved, since>>

At(op) == pc \in DOMAIN code /\ code[pc].op = op
Go(target) == pc' = target /\ UNCHANGED <<transfer, code>>

Set == /\ At("MOV CCR") /\ Go(pc + 1)
       /\ burst' = code[pc].arg
       /\ UNCHANGED <<counters, asked, held, moved, since>>

SetAddress == /\ At("MOV SAR") \/ At("MOV DAR")
              /\ Go(pc + 1) /\ moved' = 0
              /\ UNCHANGED <<counters, burst, asked, held, since>>

Flush == /\ At("FLUSHP") /\ Go(pc + 1)
         /\ asked' = FALSE
         /\ UNCHANGED <<counters, burst, held, moved, since>>

Wait == /\ At("WFP") /\ Go(pc + 1)
        /\ asked' = TRUE
        /\ UNCHANGED <<counters, burst, held, moved, since>>

Move == /\ \/ At("LD") /\ held' = held + burst /\ UNCHANGED <<asked, moved, since>>
           \/ /\ At("ST") /\ held' = 0 /\ asked' = FALSE
              /\ moved' = moved + held /\ since' = since + held
        /\ Go(pc + 1)
        /\ UNCHANGED <<counters, burst>>

StartLoop == /\ At("LP") /\ Go(pc + 1)
             /\ counters' = [counters EXCEPT ![code[pc].arg[1]] = code[pc].arg[2]]
             /\ UNCHANGED <<burst, asked, held, moved, since>>

\* Where a jump of so many bytes lands, 0 if it is inside an instruction.
Target(distance) ==
  LET landing == {i \in 1 .. pc : Bytes(SubSeq(code, i, pc - 1)) = distance}
  IN IF landing = {} THEN 0 ELSE CHOOSE i \in landing : TRUE

EndLoop == /\ At("LPEND")
           /\ LET l == code[pc].arg[1] IN
              IF counters[l] = 0 THEN Go(pc + 1) /\ UNCHANGED counters
              ELSE Go(Target(code[pc].arg[2])) /\ counters' = [counters EXCEPT ![l] = @ - 1]
           /\ UNCHANGED <<burst, asked, held, moved, since>>

Again == /\ At("LPENDFE") /\ Go(Target(code[pc].arg))
         /\ UNCHANGED <<counters, burst, asked, held, moved, since>>

Signal == /\ At("SEV") /\ Go(pc + 1)
          /\ since' = 0
          /\ UNCHANGED <<counters, burst, asked, held, moved>>

ProgramNext == \/ SubmitAudioDMA \/ Set \/ SetAddress \/ Flush \/ Wait \/ Move
               \/ StartLoop \/ EndLoop \/ Again \/ Signal

-----------------------------------------------------------------------------
\* The longest jump, back to the start of the outer loop, is a byte's worth.
JumpsFit == Bytes(code) - MOV("CCR", 0).size - LPENDFE(<<>>).size < 256

(* Whatever the length of a period and their number, as long as the jumps of
   the program fit a byte, it fits its buffer and never runs off it, each event
   comes when just its period has moved, nothing moves unasked for, and the
   transfer starts over exactly when the whole buffer has moved, never beyond
   its end. *)
PeriodsSignalled ==
  code # <<>> /\ JumpsFit =>
    /\ pc \in DOMAIN code /\ (pc = 1 => Bytes(code) <= CodeSize)
    /\ At("SEV") => since = transfer.words
    /\ At("LD") => asked /\ held = 0
    /\ moved <= transfer.periods * transfer.words
    /\ At("LPENDFE") => moved = transfer.periods * transfer.words
===============================================================================
