----------------------------- MODULE AudioAdapter -----------------------------
(* csaudiork3x: the adapter that StartDevice creates, the subdevices it      *)
(* installs with PortCls for each endpoint, its cache of them, its power and *)
(* what a stop or removal of the device gives back.  Every call out of the   *)
(* driver may fail, but for COM queries of interfaces an object always has.  *)
EXTENDS Naturals, FiniteSets

VARIABLES
  step,        \* where StartDevice is, or "running", "failed", "stopped"
  endpoint,    \* the endpoint being installed
  part,        \* and which of its two subdevices
  succeeded,   \* NT_SUCCESS(ntStatus)
  found,       \* the subdevices unknownTopology and unknownWave point to
  created,     \* bTopologyCreated and bWaveCreated
  registered,  \* the subdevices PortCls knows
  connected,   \* endpoints whose wave and topology PortCls has connected
  cache,       \* m_SubdeviceCache
  refs,        \* the driver's references to each subdevice's miniport
  common,      \* whether the CAdapterCommon exists, is in the device extension,
               \* and is registered for power management
  etw,         \* m_pPortClsEtwHelper is set
  jack,        \* the codec has a jack: capture endpoints are installed too
  block, power \* the I2S block, and m_PowerState

startVars == <<endpoint, part, succeeded, found, created, jack>>
portVars  == <<registered, connected>>
adapterVars == <<step, startVars, portVars, cache, refs, common, etw, block, power>>

Endpoints  == {"render", "capture"}
Parts      == {"Topo", "Wave"}
Subdevices == Endpoints \X Parts
Sub        == <<endpoint, part>>
Topology   == <<endpoint, "Topo">>
Wave       == <<endpoint, "Wave">>

AdapterInit ==
  /\ step = "stopped" /\ endpoint = "render" /\ part = "Topo" /\ succeeded = TRUE
  /\ found = {} /\ created = {} /\ registered = {} /\ connected = {} /\ cache = {}
  /\ refs = [s \in Subdevices |-> 0]
  /\ common = {} /\ etw = FALSE /\ jack = FALSE /\ block = "off" /\ power = "none"

AddRef(S)  == refs' = [s \in Subdevices |-> IF s \in S THEN refs[s] + 1 ELSE refs[s]]
Release(S) == refs' = [s \in Subdevices |-> IF s \in S THEN refs[s] - 1 ELSE refs[s]]

-----------------------------------------------------------------------------
(* StartDevice. *)

\* The DSP is powered and the I2S registers are written from scratch.
Rk3xInit   == block' = "on"
Rk3xDeinit == block' = "off"

\* Whatever has become of it, an adapter is stashed for PnpHandler.
Exit(end) ==
  /\ step' = end
  /\ common' = IF "exists" \in common THEN common \cup {"stashed"} ELSE common

NewAdapterCommon ==
  /\ step = "stopped"
  /\ \/ step' = "failed" /\ UNCHANGED common
     \/ step' = "init" /\ common' = {"exists"}
  /\ UNCHANGED <<startVars, portVars, cache, refs, etw, block, power>>

\* The cache is made empty, the state D0, and the I2S block given its defaults.
InitAdapter ==
  /\ step = "init" /\ cache' = {} /\ etw' = FALSE /\ power' = "D0"
  /\ \/ Rk3xInit /\ step' = "power_management" /\ jack' \in BOOLEAN
        /\ UNCHANGED common
     \/ UNCHANGED <<block, jack>> /\ Exit("failed")
  /\ UNCHANGED <<endpoint, part, succeeded, found, created, portVars, refs>>

RegisterPowerManagement ==
  /\ step = "power_management"
  /\ \/ Exit("failed") /\ UNCHANGED <<endpoint, part>>
     \/ /\ step' = "find" /\ endpoint' = "render" /\ part' = "Topo"
        /\ common' = common \cup {"managed"}
  /\ found' = {} /\ created' = {}
  /\ UNCHANGED <<succeeded, jack, portVars, cache, refs, etw, block, power>>

\* A cached subdevice is used again; its status replaces that of the topology.
GetCachedSubdevice ==
  /\ step = "find"
  /\ IF Sub \in cache
     THEN /\ found' = found \cup {Sub} /\ AddRef({Sub}) /\ succeeded' = TRUE
          /\ step' = "cached" /\ UNCHANGED created
     ELSE /\ created' = created \cup {Sub} /\ succeeded' = FALSE /\ step' = "install"
          /\ UNCHANGED <<found, refs>>
  /\ UNCHANGED <<endpoint, part, jack, portVars, cache, common, etw, block, power>>

\* The interface is registered, disabled, and given its properties.
CreateAudioInterfaceWithProperties ==
  /\ step = "install" /\ step' \in {"register", "cached"}
  /\ UNCHANGED <<startVars, portVars, cache, refs, common, etw, block, power>>

\* Port and miniport are made, bound together and registered; the references
\* to them are the caller's then.
InstallSubdevice ==
  /\ step = "register"
  /\ \/ /\ registered' = registered \cup {Sub} /\ found' = found \cup {Sub}
        /\ AddRef({Sub}) /\ succeeded' = TRUE /\ step' = "cache"
     \/ succeeded' = FALSE /\ step' = "cached" /\ UNCHANGED <<registered, found, refs>>
  /\ UNCHANGED <<endpoint, part, created, jack, connected, cache, common, etw, block, power>>

CacheSubdevice ==
  /\ step = "cache" /\ step' = "cached"
  /\ \/ cache' = cache \cup {Sub} /\ AddRef({Sub}) /\ succeeded' = TRUE
     \/ succeeded' = FALSE /\ UNCHANGED <<cache, refs>>
  /\ UNCHANGED <<endpoint, part, found, created, jack, portVars, common, etw, block, power>>

\* The wave filter's turn, whatever became of the topology.
NextPart ==
  /\ step = "cached"
  /\ IF part = "Topo" THEN step' = "find" /\ part' = "Wave" ELSE step' = "connect" /\ UNCHANGED part
  /\ UNCHANGED <<endpoint, succeeded, found, created, jack, portVars, cache, refs, common, etw, block,
                 power>>

DisconnectTopologies == connected' = connected \ {endpoint}

ConnectTopologies ==
  /\ step = "connect" /\ step' = "settle"
  /\ IF {Topology, Wave} \subseteq found
     THEN \/ connected' = connected \cup {endpoint} /\ succeeded' = TRUE
          \/ DisconnectTopologies /\ succeeded' = FALSE
     ELSE UNCHANGED <<connected, succeeded>>
  /\ UNCHANGED <<endpoint, part, found, created, jack, registered, cache, refs, common, etw, block,
                 power>>

\* RemoveCachedSubdevice of those this call created; the locals are released.
Forgotten_Kept == {}    \* slip: unregistered, but left in the cache
Forgotten == created \cap found

SettleInstalled ==
  /\ step = "settle" /\ succeeded /\ step' = "queries" /\ Release(found)
  /\ UNCHANGED <<startVars, portVars, cache, common, etw, block, power>>

\* PortCls may refuse to unregister a subdevice.
UnregisterSubdevice(S) == \E kept \in SUBSET S : registered' = registered \ (S \ kept)

SettleFailed ==
  /\ step = "settle" /\ ~succeeded /\ Exit("failed")
  /\ UnregisterSubdevice(created \cap found)
  /\ cache' = cache \ Forgotten
  /\ refs' = [s \in Subdevices |->
                refs[s] - (IF s \in found THEN 1 ELSE 0)
                        - (IF s \in Forgotten \cap cache THEN 1 ELSE 0)]
  /\ UNCHANGED <<startVars, connected, etw, block, power>>

\* The endpoint after this one; capture endpoints need a jack.
NextEndpoint ==
  IF endpoint = "render" /\ jack
  THEN /\ endpoint' = "capture" /\ part' = "Topo" /\ found' = {} /\ created' = {}
       /\ step' = "find" /\ UNCHANGED common
  ELSE Exit("running") /\ UNCHANGED <<endpoint, part, found, created>>

\* InstallEndpointRenderFilters asks the wave port for interfaces; the answer
\* to the last question decides, and nothing is taken back.
QueryWavePort ==
  /\ step = "queries" /\ endpoint = "render"
  /\ \E helper \in BOOLEAN : etw' = (etw \/ helper)
  /\ \/ succeeded' = TRUE /\ NextEndpoint
     \/ succeeded' = FALSE /\ Exit("failed") /\ UNCHANGED <<endpoint, part, found, created>>
  /\ UNCHANGED <<jack, portVars, cache, refs, block, power>>

CaptureInstalled ==
  /\ step = "queries" /\ endpoint = "capture" /\ NextEndpoint
  /\ UNCHANGED <<succeeded, jack, portVars, cache, refs, etw, block, power>>

-----------------------------------------------------------------------------
(* PowerChangeState, PnpHandler and the destructor. *)

\* No miniport of the driver manages power itself.
PowerChangeState ==
  /\ step \in {"running", "failed"} /\ "managed" \in common
  /\ \E state \in {"D0", "D1", "D2", "D3"} :
       /\ state # power /\ power' = state
       /\ \/ state = "D0" /\ Rk3xInit
          \/ state = "D3" /\ Rk3xDeinit
          \/ state \in {"D1", "D2"} /\ UNCHANGED block
  /\ UNCHANGED <<step, startVars, portVars, cache, refs, common, etw>>

EmptySubdeviceCache == Release(cache) /\ cache' = {}

\* Stop, surprise removal and removal alike.
PnpHandler ==
  /\ step \in {"running", "failed"} /\ step' = "dispatch"
  /\ IF "stashed" \in common
     THEN /\ EmptySubdeviceCache /\ common' = common \ {"stashed"}
     ELSE UNCHANGED <<cache, refs, common>>
  /\ UNCHANGED <<startVars, portVars, etw, block, power>>

\* The destructor.
Destroyed == common' = {} /\ Rk3xDeinit /\ etw' = FALSE

\* PcDispatchIrp: PortCls forgets the device's subdevices, whose ports let go
\* of the miniports.  The adapter goes with the last miniport that holds it.
PcDispatchIrp ==
  /\ step = "dispatch" /\ step' = "stopped"
  /\ registered' = {} /\ connected' = {}
  /\ IF common # {} /\ "stashed" \notin common /\ \A s \in Subdevices : refs[s] = 0
     THEN Destroyed
     ELSE common' = common \ {"managed"} /\ UNCHANGED <<block, etw>>
  /\ UNCHANGED <<startVars, cache, refs, power>>

AdapterNext ==
  \/ NewAdapterCommon \/ InitAdapter \/ RegisterPowerManagement
  \/ GetCachedSubdevice \/ CreateAudioInterfaceWithProperties \/ InstallSubdevice \/ CacheSubdevice \/ NextPart
  \/ ConnectTopologies \/ SettleInstalled \/ SettleFailed \/ QueryWavePort \/ CaptureInstalled
  \/ PowerChangeState \/ PnpHandler \/ PcDispatchIrp

AdapterSpec == AdapterInit /\ [][AdapterNext]_adapterVars

-----------------------------------------------------------------------------
(* Whichever calls of StartDevice fail, the cache names registered filters
   only and holds the driver's one reference to each; filters of an endpoint
   that are registered together are connected on a started device; and a stop
   or removal releases all of it, the adapter and the I2S block included. *)
FiltersAccountedFor ==
  step \in {"running", "failed", "stopped"} =>
    /\ cache \subseteq registered
    /\ \A s \in Subdevices : refs[s] = IF s \in cache THEN 1 ELSE 0
    /\ step = "running" => \A e \in Endpoints :
         {e} \X Parts \subseteq registered => e \in connected
    /\ step = "stopped" => registered = {} /\ common = {} /\ block = "off" /\ ~etw
===============================================================================
