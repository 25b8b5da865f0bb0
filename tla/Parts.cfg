SPECIFICATION PartsSpec
CONSTANTS
  Chunk = 2
  MaxTimeouts = 1
  Requests <- SomeRequests
  NumPhases = 12
  BadPhases = 2
  Transfers <- SomeTransfers
  Lists <- SomeLists
  MaxLength = 3
  Clocks <- SomeClocks
  Rates <- SomeRates
  Khz = {400, 30000, 200000}
  BaseKhz = 100000
  MaxKhz = 150000
  MaxFailures = 2
  Groups = {g1, g2}
  SlotCounts = {1, 3}
  FifoSizes = {8}
  JumboPackets = {0, 2000, 2001, 2041, 9015}
  ResourceLists <- SomeResources
INVARIANTS
  SuccessIsComplete
  EndIsSignalled
  TunedInLongestRun
  PeriodsSignalled
  DescriptorsCover
  TimingsMeetSpec
  VoltageMatchesCard
  ClockNotTooFast
  FiltersAccountedFor
  PermanentAddressKept
  FilterAsAsked
  LongestFramePasses
CHECK_DEADLOCK FALSE
