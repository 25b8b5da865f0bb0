SPECIFICATION Spec
CONSTANTS
  Kinds <- AllKinds
INVARIANT
  ChunksAreChained
