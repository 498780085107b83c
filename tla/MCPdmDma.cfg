SPECIFICATION Spec
INVARIANTS
  RunningIsServed
  NoDmaIntoFreedBuffer
  QuietInSleep
PROPERTY ImplementsCapture
