SPECIFICATION Spec
CONSTANTS
  Kinds <- TwoBlocks
  Widths = {8}
  Speeds = {"High"}
  MaxBlockSize = 8
  Adma2 = TRUE
INVARIANT
  DoneHasNoBlocks
