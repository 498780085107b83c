SPECIFICATION FairSpec
CONSTANT MaxErrors = 2
INVARIANTS
  TrafficResumes
  DownIsOff
  WaitIsBounded
  ErrorPending
PROPERTIES
  RecoveryEnds
  ErrorAnswered
