# Verification of the Rockchip Windows drivers

TLA+ models of the drivers under `src/drivers`, TLC configurations that check them on small instances, and theorems
proved with TLAPS. A path below is relative to `src/drivers`.

The drivers are kernel-mode device drivers: what makes them hard is that an interrupt service routine (ISR), a deferred
procedure call (DPC), work items, threads of a class extension (NetAdapterCx, sdport, SpbCx, GPIO, PortCls) and a piece of
hardware share a few words of memory and a register file, with little more than the order of the accesses between them,
and that the code which programs the hardware must get numbers right that no one looks at again. The modules model
exactly that: an action is a stretch of code between two accesses to what another processor or the hardware writes as well,
the hardware and the class extension are actions of their own, and the sequential parts functions or short loops. Where
several such accesses are one action, or an order of them is left out, it is said below (Modules, External code).

## The system

| Component | State | Operations | Interacts with | Modules |
| --- | --- | --- | --- | --- |
| dwc_eqos transmit queue (`net/dwc_eqos/txqueue.cpp`) | descriptor ring, begin and end, last MSS and VLAN tag | Start, Advance, SetDescEnd, Cancel, Stop | NetAdapterCx's rings, DMA engine | NetTxQueue, EqosTxQueue, EqosTxQueueProofs |
| dwc_eqos receive queue (`rxqueue.cpp`) | descriptor ring, begin and end, running | the same | the same | NetRxQueue, EqosRxQueue, EqosRxQueueProofs |
| dwc_eqos interrupts, link, power (`device.cpp`) | wanted and pending interrupts, armed queues, link state lock | ISR, DPC, arm and disarm, link work item, D0 entry and exit | both queues, power manager | EqosInterrupt, EqosInterruptProofs |
| dwc_eqos device (`device.cpp`) | object context, MAC registers | DeviceAdd, prepare, release, receive filter, D0 configuration | PnP manager, registry, firmware | EqosDevice, EqosInterruptProofs |
| rk3xi2c engine (`i2c/rk3xi2c/rockchipi2c.c`, `mdlchain.c`) | message state, event, controller registers | a sequence of messages, ISR, DPC, timeout | SpbCx, controller, addressed device | Rk3xI2C, Rk3xI2CProofs |
| rk3xi2c device and clocks (`rk3xi2c.c`, `clocks.c`) | base clock, target speed, dividers | start, connect, divider calculation | ACPI, engine | Rk3xClocks, Rk3xI2CProofs |
| dwcmshc requests (`sd/dwcmshc/dwcmshc.cpp`) | outstanding request, saved events and errors, local request flag, remaining length | issue, ISR, DPCs, PIO and DMA, busy work item, reset, local requests | sdport, controller, card | MshcRequest, MshcRequestProofs |
| dwcmshc bus, clock, supplies (`dwcmshc.cpp`, `rockchip_ops.cpp`) | bus registers, regulators, slot extension | bus operations, reset, card pulled | sdport, firmware | MshcBus, MshcRequestProofs |
| dwcmshc tuning (`rockchip_ops.cpp`) | ranges of good phases | ExecuteTuning | requests, firmware | MshcTuning, MshcRequestProofs |
| dwcsdhc (`sd/dwcsdhc`) | bus and event registers, outstanding request, saved events | issue, ISR, DPC, PIO and ADMA2, event masks, bus operations, reset | sdport, controller, card | SdhcHost, SdhcHostProofs |
| descriptor tables of both | table, place in the list | cut the scatter-gather list | DMA engines | SdDescriptors, SdhcHostProofs |
| pl330dma (`dma/pl330dma`) | channels, handles, debug registers, microcode | lend and return a channel, submit, start, stop | audio drivers, DMA controller | Pl330, Pl330Program |
| csaudiork3x streams (`audio/csaudiork3x/Source/Main/minwavert*.cpp`, `Utilities/hw.cpp`) | buffers, KS states, I2S registers | create, close, buffer, SetState | PortCls, pl330dma | AudioStream, AudioStreamProofs |
| csaudiork3x adapter (`common.cpp`, `adapter.cpp`) | subdevice cache, references, power | start with every step failing, stop, remove, power | PortCls | AudioAdapter, AudioStreamProofs |
| rk3xgpio (`gpio/rk3xgpio/rk3xgpio.c`) | registers of a bank, saved context | interrupt and I/O callbacks, save, restore | GPIO class extension | GpioPins, GpioEffects, GpioBank, GpioBankProofs |
| SIP library (`sd/rk_sip_sdmmc_lib`) | none | rate, phase, voltage, supply | secure firmware | in MshcBus and MshcTuning |

`PROJECT.json` lists all components with their status, and the hazards: where in this code an order of steps, a value gone
stale, a late answer, a failing step or a boundary is hard to test. What makes the main components correct:

- **Transmit queue.** Every packet is sent once, in order, with the offloads it asked for; nothing goes back to
  NetAdapterCx while the DMA engine may read it; the ring is never overrun; everything posted comes back.
- **Receive queue.** What is indicated is what was received; no buffer in use is returned; a cancelled queue drains.
- **Interrupts.** A waiting queue with work is told of it; the device is not left masked; the newest link state is
  reported; nothing is left over when the device leaves D0. **Device.** The address the controller left the factory with
  survives failed preparations; the filter admits what was asked for; the longest frame passes every limit.
- **I2C.** A request that succeeds has moved all its bytes; a message that ends wakes its thread; the timings are those
  of the bus specification.
- **SD.** A request that succeeds has been done by the card; each is completed once; what a request waits for is still
  to come; a command finds a clock, no faster than the driver believes, and the voltage the card is at; the tables cover
  the buffer; the sampling phase lies in the middle of what works.
- **PL330 and audio.** The program moves what was asked for and signals each period; a running stream has its DMA, a freed
  buffer has none, a stopped stream's channel comes back, a stop returns; every filter that was installed is accounted for.
- **GPIO.** A callback acts on the pins it names, whatever another does meanwhile; no edge of an earlier use is reported;
  a power cycle does not show.

## Modules

A module `MC...` gives a model its values for TLC. Definitions are named after the functions they model; `PROJECT.json`
"map" has the lines. An operator with a suffix (`Fits_NoContext`, marked "slip") is a plausible mistake in the definition
below it; no behaviour uses it, and each property of each passing run fails when the right slip is put in.

**NetTxQueue, EqosTxQueue.** The descriptor ring is a function of indexes to descriptors of three kinds (data, context, header), `Own`
bit included. TxQueueAdvance is split at its loop iterations, because the DMA engine (`DmaFetch`) takes and hands back
descriptors between them; its locals are variables. A fragment is its length in units of the longest descriptor buffer.
TxQueueCancel ends or times out; the queue may then be stopped and started again with the last MSS and tag as Start leaves
them. `wire` is a history variable: the frames the engine has put together. NetTxQueue is the abstract specification,
without descriptors: packets posted, frames sent, packets given back, and a cancel that may give back what is not sent.
`ImplementsTxQueue` is `INSTANCE NetTxQueue WITH` the packets as what they ask for (`Asked`), `wire` as the frames sent,
`pktBegin` as what was given back, and TxQueueCancel, whatever it waits for, as one state (`Stage`).

**NetRxQueue, EqosRxQueue.** `dma` reads descriptors up to the tail, closes them later and stalls when it reaches it. Advance
reads the engine's position once, which is what makes the order of its steps matter. `received` is a history variable.
NetRxQueue is the abstract specification, without descriptors: packets and fragments lent, frames that arrive, what is
indicated and given back. `ImplementsRxQueue` is `INSTANCE NetRxQueue WITH` `received` as the frames that arrived and the
packets before `pktBegin` as those indicated, each as its fragment or nothing.

**EqosInterrupt.** Pending bits, enable registers, `interruptsWanted` and `interruptStatus` are sets of sources. A section
under one lock, or one interlocked operation, is an action; a DPC runs on several processors and the link work item in several
threads at a time. `link` counts changes of the link, `reported` is the version NetAdapterCx was last given.

**EqosDevice.** Each step of DevicePrepareHardware is an action that may fail; ReleaseHardware follows whatever was reached,
and the device is removed or restarted. Addresses are classes (factory, blank, group, random, of the registry). The registers
are those of filter, frame limits and flow control, in the code's units.

**Rk3xI2C.** The ISR is split between its read of IPD and its dispatch, the thread into its single register writes, because
`i2c_xfer_single` does not hold the interrupt lock. The controller does what the registers tell it, the device may
not acknowledge. `left` records what an earlier message had left when a message began.

**Rk3xClocks.** The arithmetic of clocks.c as it stands, run for a device that is started and targets of any speed. Times are
compared in clock cycles, without rounding.

**MshcRequest.** A transfer is counted in chunks of FifoThreshold words; every failing status is one. `host` is where
sdport's thread is, in a request, a reset or a tuning command (which runs in that thread). The ISR is split between the
acknowledgement and the choice of the DPC. MshcStartPioTransfer has the steps `PioMove` (events taken, a chunk moved),
`PioMore` (RequiredEvents), `PioAgain` (Status) and `PioRearm` (the interrupts of the next chunk), or `PioMove` and
`PioLast`, and the ISR and both DPCs may run between any two. What stays in one action cannot be told apart: while `PioMove`
runs nothing is awaited, so that the DPC returns before it has touched anything (1143), and `PioLast` writes Status before
RequiredEvents, which is what lets a DPC in. MshcRequestDpc writes RequiredEvents only while it is not empty, and the
thread only while it is, or (`PioAgain`) does not at all; a DPC that reads Status before `PioAgain` and completes after it
completes with what it read, as one that runs before. `told`, `erred`, `dropped`, `missed` and `overtaken` are history
variables: completions, an error of the card, errors and a data end the driver was handed and did not keep, and a DPC that
completed a transfer between `PioMore` and `PioAgain`.

**MshcBus.** A bus operation is one step with each of its clock updates timing out or not. The card can be pulled and put
back, and holds on to 1.8 V and to its address as a card does. The firmware implements any subset of its controls.

**MshcTuning, SdDescriptors, Pl330Program.** Loops of the code as actions, each followed by a reference: the runs of good
phases on the circle; a controller that follows the table; a DMAC that executes the program.

**SdhcHost.** The bus, event and transfer mode registers; the controller moves data as the transfer mode register says, not
as the request does, so that a mode left over shows. sdport starts a transfer once per block, and resets after a failure by
masking, resetting both lines and unmasking. A bus operation may return early at each of its steps. SdhcRequestDpc and
SdhcStartPioTransfer share CurrentEvents, RequiredEvents and Status without a lock, and each of their accesses is a step:
the DPC saves its events, loads and stores RequiredEvents and then answers (`RequestDpc`, `DpcLoad`, `DpcStore`,
`DpcAnswer`), the transfer takes the saved events, moves a block, loads and stores RequiredEvents and writes Status
(`PioTake` to `PioAgain`), in any interleaving. `raced` is a history variable: the DPC has run while a transfer was started.
From then on a request may be completed early and the next one begun with the last one's block under way, and no property
but the violated ones speaks, until the next reset. `garbled` records a byte accessed at the wrong place. BlockCount wraps
below zero in such behaviours: `WRAPPED` stands for what it wraps to.

**Pl330 and AudioStream.** A caller runs through labels, one access to a shared register each; the channel follows its
debug instruction, stops or faults. AudioStream extends Pl330: two streams share I2S registers, written by read and write,
and call the DMA driver, so that every interleaving of the two is there.

**AudioAdapter.** StartDevice call by call, each of which may fail, for the endpoints of a codec with or without a jack.

**GpioPins, GpioEffects, GpioBank.** GpioPins is the abstract specification: a callback has its effects on the pins it names
and on no other, one after another, from one of two callers. GpioBank has the registers, sets of pins, each access a step.
`ImplementsPins` is `INSTANCE GpioPins WITH` the outputs the direction register (seen through the saved context when powered
down), the trigger the type and polarity registers, and `todo` what is left of the call in progress.

### External code

Class extensions, the power manager and the hardware are modelled from how the code uses them (the entries
marked external in the map). Assumed of them: NetAdapterCx runs one callback of a queue at a time and posts what fits its
rings; SpbCx has one request in progress per controller (the driver's `waitLock`); sdport issues one request or bus
operation at a time, hands its DPC a request only until it has given up on it, starts over with a full reset when a bus
operation has failed, and an interrupt with its DPC takes less time than a reset, a timeout or the issue of the next request
(not assumed between the two phases of a request, nor while a transfer is started: there the DPC runs when it likes); the GPIO class extension makes one call at a time from its thread and one
from its interrupt context, keeps a pin for one use at a time, and makes none while the controller is stopped; PortCls
changes a stream's state from one thread at a time. The header of each module repeats its own.

## Runs

| Run | Question | Bounds |
| --- | --- | --- |
| EqosTxQueue | what was posted goes out as posted and in order, nothing in use is overwritten or returned, everything returns; EqosTxQueue implements NetTxQueue | ring of 8, descriptors of 2 units, three packets of five kinds: plain, tagged, segmented with headers apart or not, ignored |
| EqosRxQueue | EqosRxQueue implements NetRxQueue: frames are indicated as received; no buffer in use is returned, all return, a cancelled queue drains | ring of 4, four packets or fragments |
| EqosInterrupt | no lost wake-up, no mask left, nothing left out of D0; work is served, changes of the link are reported, never an older one last | one queue or a link that changes twice, two processors, two work threads |
| Parts | I2C: success means transferred, a message that ends wakes its thread; tuning, microcode, descriptors, I2C timings, the bus of dwcmshc, audio adapter, network device | I2C: chunk of 2 bytes, a write of two (with its address, two chunks), an empty write followed by a read of three, one timeout; the others below |
| Rk3xI2CSignal | *violated*: the end of a message is signalled by that message | those of I2C in Parts |
| MshcRequest | success means done, completed once, awaited events come, each but for what its comment names | a command with busy, PIO read and write of two chunks, DMA read, tuning command and STOP; requests without bound |
| MshcChain | *violated*: no request is reported successful with a chunk left | the same |
| AudioStream | a running stream has its DMA, a freed buffer none, channels come back, calls return | two streams, two channels, one dropped instruction, one fault |
| GpioBank | no edge of an earlier use is reported; GpioBank implements GpioPins | two pins, interchangeable; `FewLevels` |
| GpioDirection | *violated*: the direction of a pin is what was last asked for | two pins |
| SdhcHost | success means done and awaited events come, until the DPC overlaps the start of a transfer; a command finds power, clock, delays and the right mode | commands, PIO of one and two blocks of 5 to 8 bytes, DMA of one and two, a block that is too large; two widths, four speeds |
| SdhcBlocksLeft | *violated*: no request is reported successful with blocks left | PIO read of two blocks |

Why these are enough. A ring of 8 lets a packet need more than half of it, so that it wraps at every position, fills up and
is refused; three packets are one being reclaimed, one owned by the engine and one being filled. A receive ring of 4 has
three usable slots and wraps. Two processors and two work threads are what the locks there tell apart: the code has no
counter of runs, only a flag. A link that changes and a queue that runs are separate questions, because they share only the
mask, which each behaviour exercises. Two chunks or blocks are a first and a last one. `MshcRequest` and `SdhcHost` need no
bound on the number of requests, since each starts from counters reset. Two pins are one named and one not; `FewLevels` keeps
at most one line high, one pin interrupting, and level interrupts active low (the polarity of a level interrupt is the mirror
image); `View` leaves out a saved context nothing will read. In `AudioStream` behaviours are followed up to the first overlap
of two register sequences (`NoClash`), because the properties speak of no later state. `Parts` runs one part per behaviour, small
as each of them is: 12 phases with every pattern of good ones; periods of 1, 256, 257 and 601 bursts, with and without a remainder, more periods than
a loop counts, and the longest period whose jumps fit a byte;
lists of up to three elements with pieces of up to three; base clocks from 24 to 200 MHz, with
the first and the last speeds of each mode and one above them; two clock updates that time out, in one operation or in two; two multicast groups and up to three address slots; frame sizes at each rounding.
`MaxTimeouts`, `MaxPosted`, `MaxLink`, `MaxLost`, `MaxFaults` and `MaxFailures` are the only bounds on
behaviours, and each stands in the guard of the external action it bounds. Deadlock is not checked where a run has an end:
a dropped instruction that leaves a caller waiting (`AudioStream`), one request, a device taken out or a sequential
computation done (`Rk3xI2CSignal`, `Parts`).

What each property says is the comment above it. They relate two sides: a history with what was posted (`WireFaithful`,
`SentInOrder`); a detailed specification with what it promises (`ImplementsTxQueue`, `ImplementsRxQueue`, `ImplementsPins`);
what NetAdapterCx owns with what the engine may touch (`NothingReturnedInUse`, `NoOverwrite`); registers with what is on its way (`NoLostWakeup`, `MaskUndone`); a status with the wire
(`SuccessIsComplete`, `SuccessIsDone`); what a request waits for with every place its event can be (`AwaitedWillCome`); a state with
what an earlier, failed operation left (`CommandHasClock`, `VoltageMatchesCard`, `ClockNotTooFast`, `PermanentAddressKept`,
`FiltersAccountedFor`); a computation with a reference (`TunedInLongestRun`, `PeriodsSignalled`, `DescriptorsCover`, `TimingsMeetSpec`).

What the properties leave out on purpose, each by a named history variable or disjunct:

- of which a run of its own shows what happens: a transfer of dwcmshc completed between two writes of its wait for a chunk
  (`overtaken`, MshcChain); a DPC of dwcsdhc that runs while a transfer is started (`raced`, SdhcBlocksLeft); what a message that
  timed out leaves pending (`left`, Rk3xI2CSignal);
- of which TLC shows the same when they are taken out, and "Disagreements" says what: a data end of dwcmshc thrown away before
  it is awaited (`missed`), blocks of dwcsdhc of 4n + 1 bytes (`garbled`), programs of the DMAC whose jumps exceed a byte
  (`JumpsFit`), a card the switch to 3.3 V could not ask (`blind`);
- of which no document of the repository says anything, though the code does not do what one would wish: a work item that finds
  the other past its read of the link (`Overlap` of EqosInterrupt); a reset of the network controller that times out, or a
  preparation that fails before the address is read (`lost` of EqosDevice); errors that arrive while nothing is awaited in dwcmshc
  (`dropped`) and dwcsdhc (`lost`); the clock after a reset that could not stop it (`unstopped`); overlapping register sequences
  and dropped instructions of the audio streams (`clash`, `lost`); edges latched by setting the polarity (`glitch` of GpioBank).
  The hazards say what happens; one that only such a state could show has no property.

### Fairness

- `EqosTxQueue`: weak fairness of the driver (a handler runs to its end; NetAdapterCx polls a running queue again and again) and
  of the DMA engine. Nothing makes NetAdapterCx post or cancel.
- `EqosRxQueue`: the same, and strong fairness of a frame's arrival and of NetAdapterCx posting a packet when there is none: the
  engine stalls and is woken again and again, so that weak fairness would not take a frame.
- `EqosInterrupt`: an asserted line leads to the ISR, a queued DPC or work item is run, each thread of NetAdapterCx goes on,
  and D0 entry ends with unmasking. Nothing is assumed of the wire, the link or the power manager; the liveness properties ask
  for an end only while the device stays in D0.
- `AudioStream`: a call that has begun goes on, and a channel reaches the state it was told to. Nothing makes PortCls call.
- All others: safety only. That an event can still come is stated as the invariants `EndIsSignalled` and `AwaitedWillCome`.

### Disagreements between the code and what it says

- `Rk3xI2CSignal`: a STOP forced by a timeout leaves its interrupt pending; the next message takes it for its own end and the
  thread is told "we are finished" while the transfer is not.
- `GpioDirection`: ReconfigureInterrupt asks callbacks at PASSIVE_LEVEL to take the interrupt lock; ConnectIoPins does not, and may
  restore the direction of a pin that has just become an interrupt input.
- `MshcChain`: "Otherwise, the request succeeded" (dwcmshc.cpp:1187). RequiredEvents (2474) is written before Status (2480): a DPC in
  between that has the data end and the raw request of the next chunk reports success with that chunk left.
- `SdhcBlocksLeft`: "Data commands are done after all data has been transfered" (dwcsdhc.cpp:3451). The block that is moved lets the
  controller announce the next; a DPC with that event before RequiredEvents is written (3085) completes the request.

Seen in the same way, with a property at hand but without a run of its own:

- dwcmshc, a data end that comes early. "In that case if we wait for those events after they've already arrived, we will fail
  with timeout" (dwcmshc.cpp:1162). MshcStartPioTransfer takes the saved events for every chunk (2439) and looks at them for the
  last one only (2490), so that a data end saved with the response of a short read is thrown away by the first chunk; one that
  comes while nothing is awaited is not saved (1143). The last chunk waits for it until the request times out: AwaitedWillCome
  without `missed`.
- dwcsdhc, the same comment (dwcsdhc.cpp:842). An end the DPC saves after the transfer has taken the saved events (3068), and clears
  (869) before the transfer awaits it (3103), is seen by neither: AwaitedIsComing, that is AwaitedWillCome without `raced`.
- dwcsdhc, "The data port must be accessed maintaining DWORD alignment" (dwcsdhc.cpp:2711). The last byte is accessed two bytes into
  the port (2765, 2834) also when no half word went before it: SuccessIsDone without its condition on the size.
- pl330dma, "With 256 bytes, we can do more than 2.5MB and 5MB xfers per req" (pl330.h:217). A period of 408 KB folds 51 bursts into
  the body of its loop, and the jump back, cast to a byte (insn.c:170), lands inside it: PeriodsSignalled without `JumpsFit`.
- dwcmshc, "We will allow the voltage switch only in this case" (dwcmshc.cpp:1735), that the card is gone or not initialized.
  SEND_STATUS also fails when the clock is off or the interrupts are masked, as MshcResetHost leaves them (1431, 1437):
  VoltageMatchesCard without `blind`.
- dwc_eqos, "Unpause when 3/4 or 48KB remains" (device.cpp:638). The threshold does not fit its field of six bits (`Threshold`): with
  a receive FIFO of 64 KB or more the controller gets 30 for 94 and unpauses the sender at 16 KB.

Noted while modelling, without a run: TxQueueCancel asserts `descBegin == descEnd` (txqueue.cpp:528) after a wait for the DMA
engine although descBegin was last moved by Advance (a release build discards the rest, as meant); the last chunk of dwcmshc
completes without a look at recorded errors (dwcmshc.cpp:2490); the limit of the PHY's delay line is in Hz and compared with kHz (dwcsdhc.cpp:1202), so that
it is always bypassed; a request of dwcsdhc that is refused stays the outstanding one until the reset; DeviceReset counts its
retries down from 0 (device.cpp:139).

## Theorems

**EqosInterruptProofs** proves, for any sets of queues, processors and work threads and any number of link changes,
the safety properties of the run EqosInterrupt: `NoWakeupLost`, `MaskIsUndone`, `QuietOutOfD0`, `LinkIsNeverStale`,
and `TypeCorrect`. The only assumption is `ConstantsAssumption` (the queues are Rx and Tx or some of them). They
follow from one inductive invariant,

    IInv == TypeOK /\ PowerInv /\ ArmedInv /\ WakeInv /\ NoLostWakeup /\ MaskUndone /\ BusyInv /\ LinkInv

(`Invariance`). None of the properties is inductive alone. `PowerInv` says what is at rest outside D0; D0 exit depends
on it. `ArmedInv` and `WakeInv` follow a queue from its arming to its wait: an armed queue's interrupt is wanted or
undelivered, which is what keeps NoLostWakeup when the DPC takes pending bits for its own. `BusyInv` says that
updateLinkStateBusy is a lock held by one run of the work item, `LinkInv` orders the versions of the link it has read
and reported. Each part is preserved by a lemma of its own (`TypeStep` to `LostStep`), with a step for each action,
put together in `Invariance`.

**GpioBankProofs** proves, for any set of pins and without the bounds of the run, `TypeCorrect`, `Implements` and
`NothingStaleReported`. `Implements` is `QuietSpec => ImplementsPins`. QuietSpec is the bank whose two callers are
never both between their read and their write of the direction register; the run GpioDirection shows that this is
needed. The argument: `StepsTyped` keeps the type; `StepsQuiet` keeps `QuietInv`, which says that what a call has read
of the direction register is still in it (`ReadsFresh`), that no call is in progress while powered down, and that the
saved context is what the registers are restored to. On these, each step maps to GpioPins: the beginning of a callback
to `Call` (`CallsRefine`), the write that takes effect to `TakeEffect` (`ThreadRefines`, `IsrRefines`), any other to a
stutter (`RestHidden`). `NothingStaleReported` is `Spec => []NoSpurious`, with the two callers overlapping as they
like: `StepsStale` keeps `StaleInv`, by which every latched bit is known to the history except of the pin whose
interrupt is being enabled (`LatchesKnown`), and that pin is masked, since every pin not used for interrupts is
masked, or will be when its context is restored (`UnusedMasked`), and no call unmasks one (`UsesKept`).

**SdhcHostProofs** proves `SuccessMeansDone`, `AwaitedComes` and `CommandsHaveClock`, the three properties of the run
SdhcHost, for any kinds of requests, with any number of blocks, and any bus widths and speeds. `KindsAssumption` keeps
DMA to controllers that have it, and `SettingsAssumption` types the settings. The properties are proved as the run checks
them: of behaviours in which the DPC has not run while a transfer was started since the last reset (`raced`), and of the
bytes of blocks that do not have 4n + 1 of them, for which `AllBytesMoved` proves that the data port functions move them
all. The three follow from one inductive invariant (`Invariance`),

    HostInv == TypeOK /\ BusInv /\ CommandHasClock /\ RequestInv /\ SuccessIsDone /\ EventsInv

`BusInv` says how far sdport has come in setting up the bus and that nothing runs meanwhile. `RequestInv` says what
each event, on its way, in the DPC's hands or already taken, tells of the card (`Happened`), that a buffer is announced
once and awaited or about to be (`OnceOK`), where the DPC is (`RunOK`: what it has loaded is still what is awaited) and
where the start of a transfer is (`StepOK`, `MovedOK`), what is left to do in each phase (`WaitingOK`, `TransferOK`), and
that the blocks of the driver and of the card differ by the one in the buffer (`BlocksOK`). Success is only reported
once these leave nothing to do. `EventsInv` says of each awaited event where it is (`Coming`): latched, taken by the
ISR, or the next thing the card does. The operations that only change the bus leave the last two parts alone by one
lemma each, and every other has a step in `StepsTyped`, `StepsBus`, `StepsRequest` and `StepsEvents`. A reset ends
`raced`, and establishes them anew.

`TableCovers` is about the descriptor tables of both SD controllers, for any scatter-gather lists without empty
elements (`ListsAssumption`). Its invariant says that after each piece the table moves what the list does up to there.
`Addresses` is defined by recursion over a sequence; two tables that say the same move the same (`SamePieces`) by an
induction over the indexes whose predicate is a set (`Induct`), which is first-order.

**EqosTxQueueProofs** proves all five safety properties of the run EqosTxQueue: `EveryFrameFaithful`,
`EveryFrameInOrder`, `FetchedIsHeld`, of the steps `NeverOverwritten`, and `TxImplements`, for rings of any size, any
packets and any number of cancellations. Assumed are a ring of more than one descriptor (`DescCountAssumption`), and of the packets what NetAdapterCx is told to keep to (`KindsAssumption`): types, a header
within the first fragment, and no more descriptors than a ring less three. The indexes wrap, so the invariant

    IInv == TypeOK /\ PacketsOK /\ WireOK /\ PhaseOK /\ (Serving => ServingOK)

counts descriptors without end: in one run of the queue b <= s <= c <= g <= f, less than a ring apart, count those
returned, reclaimed, fetched, given to the engine and written (`PlaceOK`). `MaskedNext`, `MaskedSame`,
`MaskedDistance` and `MaskedRoom` take the indexes there and back. `ChainOK` says whose the descriptors from s to f
are, in which order, and that a packet's are together; `CacheOK` and `EngineOK` that lastMss and lastVlanTag, and the
context the engine has, are those of the last packet that used them: a packet without a context descriptor is sent
with what the engine knows. That the room computed from a sum over the fragments covers the descriptors written rests
on lemmas about `Sums` and the concatenations, again by first-order induction.

`TxImplements` is `Spec => ImplementsTxQueue`. `FetchSends` says that a frame leaves for the packet the engine is at, all
before it sent or ignored (`SentOK`), none of them after it, which is NetTxQueue's `Send`; `ReclaimedWasSent` that what
the loop has reclaimed is behind the engine, which makes the end of the loop a `Return` (`ReclaimImplements`) and is
what `ReturnedWasSent` says of the steps. The other steps are calls of NetAdapterCx (`CallImplements`,
`PostImplements`) or not seen by it (`InnerImplements`).

**EqosRxQueueProofs** proves `FragmentsKept`, `RxImplements` and, on the way, `FramesIndicated` for a descriptor ring of
more than one and any number of packets: of the run's safety properties it leaves none. The invariant counts as above: indicated, closed,
taken and given. `DescOK` says that the k-th descriptor of the window has the k-th fragment and, once closed, what was
received; `ReceiveOK` that the position of the engine which Advance has read is between where it indicates and where
the engine is now. A queue that was cancelled and drained has a state of its own (`Returned`), in which nothing moves.

`RxImplements` is `Spec => ImplementsRxQueue`. What the loop of Advance has done when it ends is `ReceivedSoFar`, and
`AllReceived` says that the engine has closed everything it took when a cancelled queue gives back the rest; with
these `ReceiveDoneImplements` maps the end of the loop to `Indicate` or to `GiveBack`. `DmaCloseImplements` maps the
closing of a descriptor to `Arrive`: its fragment is the next, lent and not given back. The steps between change
nothing NetAdapterCx sees (`LocalImplements`), since the loop writes only packets from `pktBegin` on.

**Rk3xI2CProofs** proves `EndSignalled` and `SuccessComplete` for any chunk size, requests and number of timeouts
(`ConstantsAssumption` types them). The invariant is the protocol of one message: `StageOK` says, of a message that
began with nothing left over and has not failed, that it is to be started, has started, is sending, receiving,
stopping or has ended, and in each stage which bit is pending, how far the ISR is, and that the bytes on the wire are
those up to `processed`. `Signalled` needs no such condition: it is kept by the ISR whatever an earlier message left.

`ClocksMeetSpec` is about Rk3xClocks, for all base clocks from `MinClockKhz` to 200 MHz (`FastEnough` and `RatesAssumption`)
and all speeds from 50 kHz; below those the 32-bit products wrap, or fields run over. `MinClockKhz` is the least for which
it holds for all speeds: with 26666 kHz and 100001 Hz no step of SDA meets the hold time, and the field for it is written
as -1. Each rounded quotient is replaced by two inequalities between products (`DivUpIs`); how the surplus is shared
between the phases is bounded by their ratio (`ShareIs`), which is too coarse only in fast mode below 74 MHz, where the
few minima there are can be listed (`HoldsFast`). What the phases and fields must satisfy is then named for each mode
(`Asks`, `Holds`), and one argument serves all three (`RateMeets`).

**MshcRequestProofs** proves `ToldOnce`, `SuccessEarned` and `NothingAwaitedInVain`, the three properties of the run
MshcRequest, for any kinds of requests with any number of chunks (`KindsAssumption` types them), with the DPC between any
two writes of a transfer. The invariant is

    IInv == TypeOK /\ OrderOK /\ (Live => AwaitOK) /\ (~overtaken => ProgressOK)

`OrderOK` says whose turn it is: at most one of transfer, busy work item and DPC may complete the outstanding request, and
none once it is completed. It holds whatever happens, and so does `AwaitOK`, of a request on the bus: which events each
phase and each step of a transfer awaits, and with which status it would be reported; without it a DPC might still have
something to complete when a transfer begins. `ProgressOK` says of a request that is on the bus
and has not failed where its response (`ResponseOK`), the end of its data (`EndOK`, and `CaughtOK` until it is missed) and
its requests for data (`ReadOK`, `WriteOK`) are: in the controller, in the ISR's hands, or on the way to the DPC that awaits
them, in one place only. An error may delay an event but not take it away (`ErrorsOK`). A DPC that overtakes the thread
leaves a chunk behind that the next request may meet, so that this part is given up then (`OvertakenStays`) and
established again by the reset of the controller.

`CardAtItsVoltage` and `WireNotTooFast` are about MshcBus, for any rates and frequencies, and any number of updates of
the clock timing out; the one as long as every switch to 3.3 V could ask the card, the other as long as every reset could
stop the clock. `VoltageOK` says that the driver knows of a card at 1.8 V and has not switched its supply since;
`ClockOK` that while sdport may send commands the controller runs with the divider that is in the registers.

`TuningTunedInLongestRun` is about MshcTuning, for any number of phases and any pattern of good ones. While the scan is on,
`RangesInv` says that the ranges recorded so far are the maximal runs of good phases before the one tested, in order and
apart; `ScanInv` where the scan stands, and `FlagsInv` what its two flags say of that; `FitInv` that they
fit their table. Any run of the reference then lies within one recorded range, or in the first and the last joined over
the end of the circle (remainders by a variable number are dealt with in a few lemmas of their own), and the longest
of those is chosen.

**AudioStreamProofs** proves `RunIsDma`, `FreedBufferIsSafe` and `ChannelsComeBack` for any streams and channels, each
stream with one of its own (`ChannelAssumption`), and any number of faults. The invariant is
about behaviours up to the first overlap of two register sequences or dropped instruction, as the properties are
(`Undisturbed`): for each stream the label it is at says what its channel does, whose microcode that runs, which flags
are set and which half of the I2S registers (`StreamOK`); and what a caller has read of a shared register is still in
it (`CopiesFresh`). `NothingLeftBehind` is about AudioAdapter, which has no constants: the invariant (`AdapterIInv`)
says after each call of StartDevice what the pointers, the cache and the connections hold, so that a failure at the
next call releases just that.

**EqosInterruptProofs** has a second part, on EqosDevice: `AddressSurvives`, `FilterFollows` and `FramesPass`, for any
multicast groups, address slots, FIFO and frame sizes (`DeviceAssumption` types them). The invariant has a conjunct
for each property that says from which stage of a preparation on it holds, and what the device's registers, the object
context and the filter request have to do with each other before.

Only model-checked:

- liveness and the action properties that need fairness, which are out of the provers' reach;
- `PeriodsSignalled`: the microcode is interpreted by recursion over the program, and whether it fits its buffer depends
  on the transfer. The run has the lengths at which loops split, and the longest period whose jumps still fit a byte; beyond
  that the property says nothing (Disagreements).

Not shown at all: what a callback does to the system's own structures, timing, memory ordering beyond the interlocked
operations, bit layouts.

## Plan

Done, in this order: queues, interrupts with proofs, I2C, SD requests; then GPIO with its refinement, PL330 with the
audio streams, dwcsdhc, the bus, tuning and descriptors of dwcmshc, microcode, I2C clocks, audio adapter and network
device; last, what the two queues promise NetAdapterCx, with the proofs that they do. All the safety properties of the
runs but one have theorems. What would come next: the composition of EqosDevice, EqosInterrupt and NetTxQueue and NetRxQueue.

## Not modelled

- Driver entries, ACPI evaluation and tracing, INF values, performance counters, GUIDs: calls into the system without state.
- PortCls topologies, filter descriptions, property and format handlers, stream positions, DRM rights and content ids: answers
  computed from constants or handed on to PortCls. rk3xi2sbus enumerates one child and parses a file; es8323 is a register script.
- rk3xgpio: discovery of resources, and reading of pins, which changes nothing.
- dwcsdhc and dwcmshc: capability registers, responses of dwcsdhc, card detection and write protection of dwcsdhc, crash dump mode,
  and functions nothing calls (SdhcCalcClockFrequency and the like).
- csaudiork3x adapter: functions nothing calls, and the registry templates no endpoint names.
- Register layouts (`registers.h`, `dwcsdhc.h`): the models use named fields; the one width that matters, that of the flow control
  thresholds, is in EqosDevice.
- The secure firmware behind the SIP library and the patched system binaries, which are not in the repository.
