SPECIFICATION FairSpec
CONSTANTS
  Callers = {"render", "capture"}
  Chans = {0, 1}
  None = None
  MaxLost = 1
  MaxFaults = 1
  ChannelOf <- Channels
CONSTRAINT NoClash
CHECK_DEADLOCK FALSE
INVARIANTS
  RunMeansDma
  NoDmaIntoFreedBuffer
  ChannelComesBack
PROPERTIES
  CallsReturn
