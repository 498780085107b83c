SPECIFICATION FairSpec
CONSTANT ACP6x_DEVS = 3
INVARIANTS
  EngineOwned
  StreamServed
PROPERTIES
  PeriodHeard
  CardImplementsCapture
CHECK_DEADLOCK FALSE
