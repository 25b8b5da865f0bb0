SPECIFICATION FairSpec
CONSTANTS
  DescCount = 4
  MaxPosted = 4
INVARIANTS
  NothingReturnedInUse
PROPERTIES
  ImplementsRxQueue
  FragmentsReturn
  CancelDrains
