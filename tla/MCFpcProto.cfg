SPECIFICATION FpcFairSpec
CONSTANTS
  PacketSize = 2
  Sizes = {0, 3}
  MaxEvents = 3
INVARIANT RelayFaithful
PROPERTY LeftoverGoes
CHECK_DEADLOCK FALSE
