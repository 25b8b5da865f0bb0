SPECIFICATION MCSpec
CONSTANTS
  Queues = {"Rx"}
  Dpcs = {d1, d2}
  Workers = {w1, w2}
  MaxLink = 2
INVARIANTS
  NoLostWakeup
  MaskUndone
  D0Quiet
PROPERTIES
  WorkServed
  LinkNeverStale
  LinkReported
