SPECIFICATION Spec
CONSTANTS
  Kinds <- AllKinds
  Widths = {1, 8}
  Speeds = {"Normal", "High", "DDR50", "HS200"}
  MaxBlockSize = 8
  Adma2 = TRUE
INVARIANTS
  SuccessIsDone
  AwaitedWillCome
  CommandHasClock
