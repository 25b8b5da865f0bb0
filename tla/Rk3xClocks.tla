------------------------------ MODULE Rk3xClocks ------------------------------
(***************************************************************************)
(* The SCL timings of rk3xi2c (i2c/rk3xi2c/clocks.c): two dividers and     *)
(* three tuning fields from the base clock, which the device is started    *)
(* with, and the speed of the target a transfer is for.                    *)
(*                                                                         *)
(* The code multiplies 32-bit integers.  The products stay below 2^31 for  *)
(* speeds from MinSpeedHz up and base clocks up to 200 MHz; below about 25 *)
(* kHz they wrap around and tuning fields run over into each other.  So    *)
(* they do with some base clocks below MinClockKhz: no step of SDA meets   *)
(* the hold time then, and the field of its update is written -1.          *)
(***************************************************************************)
EXTENDS Integers

CONSTANTS Clocks,   \* base clocks, in kHz
          Rates     \* connection speeds, in Hz

MinSpeedHz == 50000
MinClockKhz == 26667    \* at 26666 the field runs over for 100001 Hz
MaxClockKhz == 200000

ASSUME RatesAssumption ==
  /\ Clocks \subseteq 1 .. MaxClockKhz
  /\ Rates \subseteq Nat /\ \A hz \in Rates : hz >= MinSpeedHz

VARIABLES
  baseClock,    \* "rockchip,bclk", in kHz, or 0
  busFreqHz,    \* the speed of the last transfer, capped
  speed,        \* ConnectionSpeed of the open target, or 0
  calc          \* what adapt_div has written

clockVars == <<baseClock, busFreqHz, speed, calc>>

Cap(n, max) == IF n > max THEN max ELSE n
DivUp_Down(n, d) == n \div d    \* slip: rounded down
DivUp(n, d) == (n - 1) \div d + 1    \* no n + d - 1 reaches 2^32

-----------------------------------------------------------------------------
(* What the specification of the bus asks for, by its mode, in ns.         *)

Mode(hz) == IF hz <= 100000 THEN "standard" ELSE IF hz <= 400000 THEN "fast" ELSE "plus"

Spec_Low     == [standard |-> 4700, fast |-> 1300, plus |-> 500]
Spec_High    == [standard |-> 4000, fast |-> 600, plus |-> 260]
Spec_Start   == [standard |-> 4700, fast |-> 600, plus |-> 260]
Spec_Stop    == [standard |-> 4000, fast |-> 600, plus |-> 260]
Spec_MaxHold == [standard |-> 3450, fast |-> 900, plus |-> 400]
Spec_Setup   == [standard |-> 250, fast |-> 100, plus |-> 50]

\* updateClockSettings
RiseNs == [standard |-> 1000, fast |-> 300, plus |-> 120]
FallNs == [standard |-> 300, fast |-> 300, plus |-> 120]

-----------------------------------------------------------------------------
(* rk3x_i2c_v1_calc_timings.                                               *)

AtLeast2(div) == IF div < 1 THEN 2 ELSE div

\* The surplus is split by the scale of the minima, biased to the low phase.
Dividers(low, high, total) ==
  LET minimum == low + high
      extra == total - minimum
      extraLow == DivUp(low * extra, minimum)
  IN IF minimum >= total THEN [low |-> low, high |-> high]
     ELSE [low |-> low + extraLow, high |-> high + (extra - extraLow)]

\* A step of SDA in a low phase meets hold and setup.
UpdateFits(khz, low, class, s) ==
  /\ DivUp((s * low + 1) * 1000000, khz) < Spec_MaxHold[class]
  /\ DivUp(((8 - s) * low + 1) * 1000000, khz) > Spec_Setup[class]

\* The largest that does, or 0.
SdaUpdate(khz, low, class) ==
  IF UpdateFits(khz, low, class, 3) THEN 3
  ELSE IF UpdateFits(khz, low, class, 2) THEN 2
  ELSE IF UpdateFits(khz, low, class, 1) THEN 1 ELSE 0

SetupUnits(khz, ns, high) == DivUp(khz * ns - 1000000, 8000000 * high)

CalcTimings(khz, hz) ==
  LET freq == Cap(hz, 1000000)
      class == Mode(freq)
      rise == RiseNs[class]
      total == DivUp(khz, (freq \div 1000) * 8)
      high == AtLeast2(DivUp(khz * (rise + Spec_High[class]), 8000000))
      low == AtLeast2(DivUp(khz * (FallNs[class] + Spec_Low[class]), 8000000))
      div == Dividers(low, high, total)
  IN [low  |-> Cap(div.low - 1, 65535), high |-> Cap(div.high - 1, 65535),
      sda  |-> SdaUpdate(khz, div.low, class) - 1,
      sta  |-> SetupUnits(khz, rise + Spec_Start[class], div.high) - 1,
      sto  |-> SetupUnits(khz, rise + Spec_Stop[class], div.high) - 1]

Unset == [low |-> 0, high |-> 0, sda |-> 0, sta |-> 0, sto |-> 0]

ClocksInit == baseClock = 0 /\ busFreqHz = 0 /\ speed = 0 /\ calc = Unset

-----------------------------------------------------------------------------
(* The device is started, targets are opened, and transfers done.          *)

\* Without memory or a base clock the device does not start.
PrepareHardware ==
  /\ baseClock = 0
  /\ baseClock' \in Clocks /\ busFreqHz' = 100000
  /\ UNCHANGED <<speed, calc>>

\* OnTargetConnect: a connection that is not I2C, or of 10-bit addresses, is
\* refused.
ConnectTarget ==
  /\ baseClock # 0 /\ speed = 0
  /\ speed' \in Rates
  /\ UNCHANGED <<baseClock, busFreqHz, calc>>

DisconnectTarget ==
  /\ speed # 0 /\ speed' = 0
  /\ UNCHANGED <<baseClock, busFreqHz, calc>>

\* i2c_xfer sets the speed of the connection before each transfer.
AdaptDiv ==
  /\ speed # 0
  /\ busFreqHz' = Cap(speed, 1000000)
  /\ calc' = CalcTimings(baseClock, speed)
  /\ UNCHANGED <<baseClock, speed>>

ClocksNext == PrepareHardware \/ ConnectTarget \/ DisconnectTarget \/ AdaptDiv

ClocksSpec == ClocksInit /\ [][ClocksNext]_clockVars

-----------------------------------------------------------------------------
(* The controller, from the formulas above the function: times in clock    *)
(* cycles of 1000000 / khz ns each.                                        *)

(* Whatever the base clock and the speed, the clock is no faster than asked
   for, both phases and the setup times of start, stop and data are as long as
   the specification of the mode asks for, the data hold time is no longer, and
   the tuning values fit their fields of the register: whatever the device was
   set to by the transfer before. *)
TimingsMeetSpec ==
  calc # Unset =>
    LET class == Mode(busFreqHz)
        l == calc.low + 1  h == calc.high + 1
        s == calc.sda + 1  u == calc.sta + 1  p == calc.sto + 1
        NoShorter(cycles, ns) == cycles >= (baseClock * ns - 1) \div 1000000 + 1
    IN /\ calc.sda \in 0..7 /\ calc.sta \in 0..3 /\ calc.sto \in 0..3
       /\ 8 * (l + h) * (busFreqHz \div 1000) >= baseClock
       /\ NoShorter(8 * l, FallNs[class] + Spec_Low[class])
       /\ NoShorter(8 * h, RiseNs[class] + Spec_High[class])
       /\ ~NoShorter(l * s + 1, Spec_MaxHold[class])
       /\ NoShorter((8 - s) * l + 1, Spec_Setup[class])
       /\ NoShorter(8 * h * u + 1, RiseNs[class] + Spec_Start[class])
       /\ NoShorter(8 * h * p + 1, RiseNs[class] + Spec_Stop[class])
===============================================================================
