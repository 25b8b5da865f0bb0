------------------------------ MODULE EqosDevice ------------------------------
(* dwc_eqos: what DevicePrepareHardware acquires and leaves behind when a    *)
(* step of it fails, DeviceReleaseHardware, the registers DeviceD0Entry      *)
(* configures and the receive filter, over removals and over the stop and    *)
(* restart of a resource rebalance.  Interrupts and link: EqosInterrupt.     *)
EXTENDS Naturals, Sequences, FiniteSets

CONSTANTS
  Groups,       \* multicast addresses the stack may ask for
  SlotCounts,   \* values of MacAddrCount
  FifoSizes,    \* values of RxFifoSize
  JumboPackets, \* values of *JumboPacket in the registry
  ResourceLists \* sequences of "memory", "small", "interrupt", "other"

ASSUME DeviceAssumption ==
  SlotCounts \subseteq Nat \ {0} /\ FifoSizes \subseteq Nat /\ JumboPackets \subseteq Nat

VARIABLES
  stage,      \* the step of DevicePrepareHardware reached, or where the device is
  resource,   \* the resources it has still to look at
  chip,       \* features: MacAddrCount and RxFifoSize
  registers,  \* the MAC's registers
  context,    \* DeviceContext
  request,    \* the receive filter last set
  lost        \* history: a reset has timed out, or was made with no address read

deviceVars == <<stage, resource, chip, registers, context, request, lost>>

\* Addresses of the MAC: the one it leaves the factory with, all zeros or all
\* ones, one with the multicast bit; that bit cleared; a random one; the registry's.
Blank(a) == a = "blank"
Group(a) == a = "group"

NoFilter == [promiscuous |-> FALSE, all |-> FALSE, list |-> <<>>]

\* The object context is zeroed memory.
NewContext ==
  [regs |-> FALSE, interrupt |-> "none", dma |-> FALSE, permanent |-> "blank",
   current |-> "blank", configured |-> FALSE, jumbo |-> 0, flow |-> FALSE]

ResetRegisters(n, address) ==
  [mac0 |-> address, slots |-> [i \in 1 .. n - 1 |-> {}], filter |-> {},
   rx |-> [flow |-> FALSE, activate |-> 0, deactivate |-> 0],
   giant |-> 1518, watchdog |-> 2048, jabber |-> TRUE]

DeviceInit ==
  /\ stage = "none" /\ resource = <<>> /\ chip = [slots |-> 1, fifo |-> 0, factory |-> "factory"]
  /\ registers = ResetRegisters(1, "factory") /\ context = NewContext /\ request = NoFilter /\ lost = FALSE

-----------------------------------------------------------------------------
(* DeviceAdd, PrepareHardware.  A step that fails leaves the rest out.       *)

\* A first driver on a machine just started, or one loaded after a removal.
PowerOn ==
  /\ stage = "none"
  /\ chip' \in [slots : SlotCounts, fifo : FifoSizes, factory : {"factory", "blank", "group"}]
  /\ registers' = ResetRegisters(chip'.slots, chip'.factory)
  /\ stage' = "off" /\ UNCHANGED <<resource, context, request, lost>>

DeviceAdd ==
  /\ stage = "off" /\ stage' = "added" /\ context' = NewContext
  /\ UNCHANGED <<resource, chip, registers, request, lost>>

Fails == stage' = "failed" /\ UNCHANGED <<resource, context>>

\* An address in the registry counts if it is an address of one station.
ReadConfiguration ==
  /\ stage = "added"
  /\ \/ Fails
     \/ /\ stage' = "resources" /\ resource' \in ResourceLists
        /\ \E found \in BOOLEAN :
             context' = [context EXCEPT !.configured = found,
                                        !.current = IF found THEN "registry" ELSE @]
  /\ UNCHANGED <<chip, registers, request, lost>>

\* The first range that is large enough is mapped.
MapRegisters ==
  /\ stage = "resources" /\ resource # <<>> /\ Head(resource) = "memory" /\ ~context.regs
  /\ \/ Fails
     \/ /\ context' = [context EXCEPT !.regs = TRUE]
        /\ resource' = Tail(resource) /\ UNCHANGED stage
  /\ UNCHANGED <<chip, registers, request, lost>>

\* The first interrupt is the device's, the second the power management's.
CreateInterrupt ==
  /\ stage = "resources" /\ resource # <<>> /\ Head(resource) = "interrupt"
  /\ context.interrupt # "created"
  /\ \/ Fails
     \/ /\ context' = [context EXCEPT !.interrupt = "created"]
        /\ resource' = Tail(resource) /\ UNCHANGED stage
  /\ UNCHANGED <<chip, registers, request, lost>>

SkipResource ==
  /\ stage = "resources" /\ resource # <<>>
  /\ \/ Head(resource) \in {"small", "other"}
     \/ Head(resource) = "memory" /\ context.regs
     \/ Head(resource) = "interrupt" /\ context.interrupt = "created"
  /\ resource' = Tail(resource)
  /\ UNCHANGED <<stage, chip, registers, context, request, lost>>

\* A pointer a restart has left counts as an interrupt.
CheckResources ==
  /\ stage = "resources" /\ resource = <<>>
  /\ stage' = IF context.regs /\ context.interrupt # "none" THEN "address" ELSE "failed"
  /\ UNCHANGED <<resource, chip, registers, context, request, lost>>

Usable(a) == IF Blank(a) THEN "random" ELSE IF Group(a) THEN "cleared" ELSE a

SetUpMacAddress ==
  /\ stage = "address" /\ stage' = "features"
  /\ context' = [context EXCEPT !.permanent = registers.mac0,
                                !.current = IF context.configured THEN @ ELSE Usable(registers.mac0)]
  /\ UNCHANGED <<resource, chip, registers, request, lost>>

\* Old versions and MACs without the offloads are refused.
ReadFeatures ==
  /\ stage = "features"
  /\ Fails \/ (stage' = "config" /\ UNCHANGED <<resource, context>>)
  /\ UNCHANGED <<chip, registers, request, lost>>

JumboPacketMin == 1514
JumboPacketMax == 9014

\* 0 off, 1 transmit, 2 receive, 3 and 4 both; both, too, for any other value.
RxFlowControl(value) == value \notin {0, 1}

DeviceConfig ==
  /\ stage = "config" /\ stage' = "dma"
  /\ \E jumbo \in JumboPackets, flow \in 0 .. 5 :
       context' = [context EXCEPT
         !.jumbo = IF jumbo < JumboPacketMin THEN JumboPacketMin
                   ELSE IF jumbo > JumboPacketMax THEN JumboPacketMax ELSE jumbo,
         !.flow = RxFlowControl(flow)]
  /\ UNCHANGED <<resource, chip, registers, request, lost>>

CreateDmaEnabler ==
  /\ stage = "dma"
  /\ \/ Fails
     \/ stage' = "reset" /\ context' = [context EXCEPT !.dma = TRUE] /\ UNCHANGED resource
  /\ UNCHANGED <<chip, registers, request, lost>>

\* The capabilities NetAdapterCx is told.
MaximumMulticastAddresses == IF chip.slots > 1 THEN chip.slots - 1 ELSE 0
RxBufferSize(jumbo) == ((jumbo + 8 + 7) \div 8) * 8

\* The loop that waits for the reset counts down from 0 to 1000 modulo 2^32:
\* a reset that does not end is given up after a day.
DeviceReset(address) == registers' = ResetRegisters(chip.slots, address)

DeviceResetTimeout ==
  /\ \E left \in {registers.mac0, "blank"} : registers' = ResetRegisters(chip.slots, left)
  /\ lost' = TRUE

InitializeAdapter ==
  /\ stage = "reset"
  /\ \/ DeviceReset(context.current) /\ stage' = "start" /\ UNCHANGED lost
     \/ DeviceResetTimeout /\ stage' = "failed"
  /\ UNCHANGED <<resource, chip, context, request>>

StartAdapter ==
  /\ stage = "start"
  /\ Fails \/ (stage' = "prepared" /\ UNCHANGED <<resource, context>>)
  /\ UNCHANGED <<chip, registers, request, lost>>

-----------------------------------------------------------------------------
(* ReleaseHardware, which the framework also calls after a failure.          *)

Restored_Current == context.current    \* slip
Restored == context.permanent

\* permanentMacAddress is still the zeros of a new context.
NoAddressRead == Blank(context.permanent) /\ ~Blank(chip.factory)

ReleaseHardware ==
  /\ stage \in {"failed", "prepared"}
  /\ stage' = IF stage = "failed" THEN "removing" ELSE "released"
  /\ \/ ~context.regs /\ UNCHANGED <<registers, lost>>
     \/ context.regs /\ DeviceReset(Restored) /\ lost' = (lost \/ NoAddressRead)
     \/ context.regs /\ DeviceResetTimeout
  /\ context' = [context EXCEPT !.regs = FALSE] /\ request' = NoFilter
  /\ UNCHANGED <<resource, chip>>

\* The framework deletes the interrupt; context->interrupt keeps pointing to it.
Rebalance ==
  /\ stage = "released" /\ stage' = "added"
  /\ context' = [context EXCEPT !.interrupt = IF @ = "none" THEN "none" ELSE "deleted"]
  /\ UNCHANGED <<resource, chip, registers, request, lost>>

RemoveDevice ==
  /\ stage \in {"released", "removing"} /\ stage' = "off" /\ context' = NewContext
  /\ resource' = <<>>
  /\ UNCHANGED <<chip, registers, request, lost>>

-----------------------------------------------------------------------------
(* D0Entry, D0Exit and the receive filter.                                   *)

\* Bytes of the only receive queue.
RxQueueSize ==
  LET size == IF chip.fifo > 23 THEN 2^31 - 1 ELSE 128 * 2^chip.fifo
  IN IF size > 2^20 THEN 2^20 ELSE size

RxFlowControlActivate   == IF RxQueueSize < 65536 THEN RxQueueSize \div 2 ELSE 32768
RxFlowControlDeactivate == RxFlowControlActivate + RxFlowControlActivate \div 2

\* Both thresholds are fields of six bits, in units of 512 bytes less two.
Threshold(bytes) == (bytes \div 512 - 2) % 64

Watchdog_Down(jumbo) == (jumbo + 8) \div 1024 - 2    \* slip: rounds down
Watchdog(jumbo) == (jumbo + 8 + 1023) \div 1024 - 2

D0Entry ==
  /\ stage = "prepared" /\ stage' = "on"
  /\ registers' = [registers EXCEPT
       !.rx = [flow |-> context.flow /\ RxQueueSize >= 2048,
               activate |-> Threshold(RxFlowControlActivate),
               deactivate |-> Threshold(RxFlowControlDeactivate)],
       !.jabber = context.jumbo <= 2000,
       !.giant = IF context.jumbo > JumboPacketMin THEN context.jumbo + 4 ELSE 1518,
       !.watchdog = IF context.jumbo > 2000 THEN Watchdog(context.jumbo) * 1024 + 2048 ELSE 2048]
  /\ UNCHANGED <<resource, chip, context, request, lost>>

D0Exit ==
  /\ stage = "on" /\ stage' = "prepared"
  /\ UNCHANGED <<resource, chip, registers, context, request, lost>>

SlotsWritten_List(n) == 1 .. n                     \* slip: only those the list needs
SlotsWritten(n) == 1 .. chip.slots - 1

\* The promiscuous filter leaves the addresses as they are; a list that is not
\* asked for counts as empty.
SetReceiveFilter ==
  /\ stage = "on"
  /\ \E promiscuous, all, multicast \in BOOLEAN, n \in 0 .. MaximumMulticastAddresses :
     \E list \in [1 .. n -> Groups] :
       LET mcast == IF multicast THEN list ELSE <<>> IN
       /\ request' = [promiscuous |-> promiscuous, all |-> all, list |-> mcast]
       /\ registers' = IF promiscuous THEN [registers EXCEPT !.filter = {"promiscuous"}]
            ELSE [registers EXCEPT
              !.filter = IF all THEN {"all"} ELSE {},
              !.mac0 = context.current,
              !.slots = [i \in DOMAIN @ |-> IF i \notin SlotsWritten(Len(mcast)) THEN @[i]
                                            ELSE IF Len(mcast) > i - 1 THEN {mcast[i]} ELSE {}]]
  /\ UNCHANGED <<stage, resource, chip, context, lost>>

DeviceNext ==
  \/ PowerOn \/ DeviceAdd \/ ReadConfiguration \/ MapRegisters \/ CreateInterrupt \/ SkipResource
  \/ CheckResources \/ SetUpMacAddress \/ ReadFeatures \/ DeviceConfig \/ CreateDmaEnabler
  \/ InitializeAdapter \/ StartAdapter \/ ReleaseHardware \/ Rebalance \/ RemoveDevice
  \/ D0Entry \/ D0Exit \/ SetReceiveFilter

DeviceSpec == DeviceInit /\ [][DeviceNext]_deviceVars

-----------------------------------------------------------------------------
(* The address the MAC left the factory with outlives the driver: whatever
   address it runs with, and whichever step of a preparation fails, the next
   one reads the permanent address again, and the driver runs with that of
   the registry or one made from it.  Not so after a reset that times out, or
   a preparation that fails between mapping the registers and reading the
   address: DeviceReleaseHardware then writes what the context holds. *)
PermanentAddressKept ==
  ~lost => /\ context.permanent \in {"blank", chip.factory}
           /\ stage \in {"features", "prepared", "on"} =>
                /\ context.permanent = chip.factory
                /\ context.current = IF context.configured THEN "registry" ELSE Usable(chip.factory)

(* In D0 exactly the multicast addresses last asked for come through, although
   a promiscuous filter leaves the addresses of an earlier list in place. *)
FilterAsAsked ==
  stage = "on" => \A g \in Groups :
    (registers.filter # {} \/ \E i \in DOMAIN registers.slots : g \in registers.slots[i])
    = (request.promiscuous \/ request.all \/ \E i \in DOMAIN request.list : request.list[i] = g)

(* The longest frame of the configured size, with VLAN tag and CRC, passes the
   giant packet limit, the watchdog and the jabber timer, and fits a buffer. *)
LongestFramePasses ==
  stage = "on" =>
    LET frame == context.jumbo + 8 IN
    /\ frame <= registers.giant + 4 /\ frame <= registers.watchdog
    /\ registers.jabber => frame <= 2048
    /\ frame <= RxBufferSize(context.jumbo)
===============================================================================
