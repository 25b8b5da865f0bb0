------------------------------- MODULE MCParts -------------------------------
(* The parts of the drivers that are small enough to share a run, of which a *)
(* behaviour runs one: the transfers of rk3xi2c and what is sequential.      *)
EXTENDS MCRk3xI2C, Rk3xClocks, MshcTuning, MshcBus, SdDescriptors, Pl330Program,
        AudioAdapter, MCEqosDevice

VARIABLE running

PartsInit ==
  /\ running \in {"i2c", "clocks", "tuning", "bus", "descriptors", "program", "adapter",
                 "device"}
  /\ Init /\ (running # "i2c" => messages = CHOOSE r \in Requests : TRUE)
  /\ ClocksInit /\ TuningInit /\ BusInit /\ DescriptorsInit
  /\ ProgramInit /\ AdapterInit /\ DeviceInit

\* All parts but one stay as they are.
Only(p) ==
  /\ UNCHANGED running
  /\ IF p = "i2c" THEN TRUE ELSE UNCHANGED vars
  /\ IF p = "clocks" THEN TRUE ELSE UNCHANGED clockVars
  /\ IF p = "tuning" THEN TRUE ELSE UNCHANGED tuningVars
  /\ IF p = "bus" THEN TRUE ELSE UNCHANGED busVars
  /\ IF p = "descriptors" THEN TRUE ELSE UNCHANGED descVars
  /\ IF p = "program" THEN TRUE ELSE UNCHANGED programVars
  /\ IF p = "adapter" THEN TRUE ELSE UNCHANGED adapterVars
  /\ IF p = "device" THEN TRUE ELSE UNCHANGED deviceVars

PartsNext ==
  \/ running = "i2c" /\ Hardware /\ Only("i2c")
  \/ running = "i2c" /\ Irq /\ Only("i2c")
  \/ running = "i2c" /\ Dpc /\ Only("i2c")
  \/ running = "i2c" /\ Thread /\ Only("i2c")
  \/ running = "i2c" /\ GiveUp /\ Only("i2c")
  \/ running = "clocks" /\ ClocksNext /\ Only("clocks")
  \/ running = "tuning" /\ TuningNext /\ Only("tuning")
  \/ running = "bus" /\ BusNext /\ Only("bus")
  \/ running = "descriptors" /\ DescriptorsNext /\ Only("descriptors")
  \/ running = "program" /\ ProgramNext /\ Only("program")
  \/ running = "adapter" /\ AdapterNext /\ Only("adapter")
  \/ running = "device" /\ DeviceNext /\ Only("device")

partVars == <<running, vars, clockVars, tuningVars, busVars, descVars, programVars,
              adapterVars, deviceVars>>

PartsSpec == PartsInit /\ [][PartsNext]_partVars

-----------------------------------------------------------------------------
Audio(d, n, w) == [fromDevice |-> d, periods |-> n, words |-> w]

\* One burst; a dreg; two periods of an even and an odd number of bursts, below
\* and above what one loop counts; more periods than the outer loop counts; the
\* longest period with a remainder and a dreg whose jumps fit.
SomeTransfers ==
  {Audio(TRUE, 2, 8), Audio(TRUE, 2, 13), Audio(FALSE, 2, 2048), Audio(TRUE, 2, 2056),
   Audio(FALSE, 2, 2059), Audio(FALSE, 2, 4811), Audio(FALSE, 257, 8), Audio(TRUE, 513, 9),
   Audio(TRUE, 1, 81963)}

Piece3(a, n) == [address |-> a, length |-> n]

SomeLists ==
  UNION {{<<Piece3(0, m)>>, <<Piece3(0, m), Piece3(20, n)>>,
          <<Piece3(40, m), Piece3(20, n), Piece3(0, 3)>>} : m, n \in 1 .. 7}

SomeClocks == {24000, 26667, 50000, 100000, 150000, 200000}
SomeRates == {50000, 100000, 100001, 400000, 400001, 1000000, 1400000}
             \cup {k * 20000 : k \in 3 .. 49}
=============================================================================
