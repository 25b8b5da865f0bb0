SPECIFICATION FairSpec
CONSTANTS
  DescCount = 8
  DescLengthMax = 2
  VlanId = 0
  NoMss = 65535
  Kinds <- AllKinds
  MaxPosted = 3
INVARIANTS
  WireFaithful
  SentInOrder
  NothingReturnedInUse
PROPERTIES
  NoOverwrite
  ImplementsTxQueue
  PacketsReturn
