SPECIFICATION Spec
CONSTANTS
  Kinds <- AllKinds
VIEW
  StillRead
INVARIANTS
  SuccessIsDone
  CompletedOnce
  AwaitedWillCome
