----------------------------- MODULE MCGpioBank ------------------------------
EXTENDS GpioBank, Integers, FiniteSets, TLC

Symmetry == Permutations(Pins)

\* Nothing reads the saved context of a running controller before StopController
\* overwrites it: states that differ in nothing else are one.
View == <<regs, latched, level, IF power = "on" THEN {} ELSE saved, power, ctx, user, history>>
\* Bounds: at most one line is high, and only of a pin that is not used for I/O;
\* one pin at a time is used for interrupts; level interrupts are active low.
FewLevels ==
  /\ PinsUsed({"in", "out"}) \cap level = {}
  /\ Cardinality(level) <= 1
  /\ Cardinality(PinsUsed({"int"})) <= 1
  /\ power = "on" => intPol \subseteq intType
=============================================================================
