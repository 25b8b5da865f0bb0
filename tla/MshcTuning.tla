------------------------------ MODULE MshcTuning ------------------------------
(***************************************************************************)
(* The tuning of the sampling clock of the SD controller                   *)
(* (MshcRockchipExecuteTuning, sd/dwcmshc/rockchip_ops.cpp).               *)
(*                                                                         *)
(* A tuning command is sent at one phase after another; phases are skipped *)
(* after one that failed, the ranges of phases that passed are noted, and  *)
(* the clock is left in the middle of the longest.                         *)
(***************************************************************************)
EXTENDS Integers, Sequences, FiniteSets

CONSTANTS NumPhases,   \* NUM_PHASES
          BadPhases    \* PHASE_TO_RANGE_INDEX(BAD_PHASES_TO_SKIP, NUM_PHASES)

ASSUME PhasesAssumption == NumPhases \in Nat \ {0} /\ BadPhases \in Nat \ {0}

VARIABLES
  index,      \* Index; Off before the tuning, Done after it
  ranges,     \* Ranges, the first RangeCount of them
  previous, first, \* PreviousTuneCmdOk, FirstTuneCmdOk
  passed,     \* history: the phases whose tuning command has passed
  tuned,      \* TuningPerformed: the status of the tuning was success
  clockPhase  \* the phase the clock is at

tuningVars == <<index, ranges, previous, first, passed, tuned, clockPhase>>

Phases == 0 .. NumPhases - 1
Off == -1
Done == NumPhases + 1
DefaultPhase == 0

TuningInit ==
  /\ index = Off /\ ranges = <<>>
  /\ previous = FALSE /\ first = FALSE
  /\ passed = {} /\ tuned = FALSE /\ clockPhase = DefaultPhase

StartTuning ==
  /\ index = Off
  /\ index' = 0 /\ ranges' = <<>> /\ previous' = FALSE /\ first' = FALSE
  /\ tuned' = FALSE /\ passed' = {}
  /\ UNCHANGED clockPhase

\* A range is opened by the first phase that passes and grows with the next.
Noted(i) ==
  IF previous THEN [ranges EXCEPT ![Len(ranges)].end = i]
              ELSE Append(ranges, [start |-> i, end |-> i])

\* "Don't skip too far": the last phase is always tried.
Skipped(i) ==
  IF i = NumPhases - 1 THEN NumPhases
  ELSE IF i + BadPhases >= NumPhases THEN NumPhases - 1 ELSE i + BadPhases

\* What the firmware does of it.
ClockPhaseSet(p, ok) == clockPhase' = IF ok THEN p ELSE clockPhase

\* The phase may fail to be set, or the command at it to pass.
TryPhase ==
  /\ index \in Phases
  /\ \E set, ok \in BOOLEAN :
       /\ ok => set
       /\ ClockPhaseSet(index, set)
       /\ previous' = ok
       /\ first' = IF index = 0 THEN ok ELSE first
       /\ IF ok
          THEN /\ ranges' = Noted(index) /\ index' = index + 1
               /\ passed' = passed \cup {index}
          ELSE /\ index' = Skipped(index)
               /\ UNCHANGED <<ranges, passed>>
  /\ UNCHANGED tuned

-----------------------------------------------------------------------------
(* The choice.                                                             *)

\* "Wrap around case (e.g. 340 - 12 degrees), merge the end points."
Merged_Never == ranges    \* slip: a range across 0 stays in two
Merged ==
  IF Len(ranges) > 1 /\ first /\ previous
  THEN [SubSeq(ranges, 1, Len(ranges) - 1) EXCEPT ![1].start = ranges[Len(ranges)].start]
  ELSE ranges

Length(r) ==
  LET n == r.end - r.start + 1 IN IF n < 0 THEN n + NumPhases ELSE n

\* The first of the longest.
Longest(rs) ==
  CHOOSE i \in DOMAIN rs : \A j \in DOMAIN rs :
    Length(rs[j]) <= Length(rs[i]) /\ (Length(rs[j]) = Length(rs[i]) => i <= j)

Middle(r) == (r.start + Length(r) \div 2) % NumPhases

AllGood(rs) == rs[1].start = 0 /\ rs[1].end = NumPhases - 1

Choice(rs) == IF AllGood(rs) THEN DefaultPhase ELSE Middle(rs[Longest(rs)])

\* A failure to set the phase that was chosen is not reported.
Choose ==
  /\ index = NumPhases
  /\ index' = Done
  /\ tuned' = (ranges # <<>>)
  /\ IF ranges = <<>> THEN UNCHANGED clockPhase
     ELSE \E set \in BOOLEAN : ClockPhaseSet(Choice(Merged), set)
  /\ UNCHANGED <<ranges, previous, first, passed>>

TuningNext == StartTuning \/ TryPhase \/ Choose

TuningSpec == TuningInit /\ [][TuningNext]_tuningVars

-----------------------------------------------------------------------------
(* The runs of phases that passed, read off the circle of all phases.      *)

Run(start, n) == {(start + k) % NumPhases : k \in 0 .. n - 1}

Runs == {run \in Phases \X (1 .. NumPhases) : Run(run[1], run[2]) \subseteq passed}

RangesFit == Len(ranges) <= NumPhases \div 2 + 1

(* Of the phases that passed, wherever they lie on the circle and whatever
   was skipped, the clock is set to the middle of a longest run, so that no
   other phase is further from one that failed; the ranges fit their array. *)
TunedInLongestRun ==
  /\ RangesFit
  /\ index = NumPhases /\ passed # {} =>
       LET c == Choice(Merged) IN
       \/ c = DefaultPhase /\ passed = Phases
       \/ \E run \in Runs :
            /\ \A other \in Runs : other[2] <= run[2]
            /\ c = (run[1] + run[2] \div 2) % NumPhases
===============================================================================
