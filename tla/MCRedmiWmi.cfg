SPECIFICATION Spec
CONSTANTS
  Workers = {w1, w2}
  Objects <- MCObjects
INVARIANTS
  ReportsToDevice
  PulseReleased
  MediaFollows
