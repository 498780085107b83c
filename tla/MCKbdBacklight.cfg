SPECIFICATION Spec
CONSTANT Requests <- MCRequests
INVARIANTS
  LevelKept
  DarkWhileAsleep
  LegalUnlessBlind
  CacheCoherent
  NoDanglingCallback
