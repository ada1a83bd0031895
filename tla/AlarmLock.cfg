SPECIFICATION FairSpec
CONSTANTS
  Tick = {t1, t2, t3}
  NoTick = NoTick
  Timeout = 1
  Margin = 2
  OwnTime = 1
INVARIANTS TypeOK OneSender KeyOutlivesTick
PROPERTIES OnlyOwnerReleases ImplementsLease LockFreed
