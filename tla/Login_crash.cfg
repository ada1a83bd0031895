SPECIFICATION Spec
CONSTANTS
  Handler = {h1}
  MaxFail = 2
  LockTime = 2
  MayDie = TRUE
INVARIANTS CounterExpires
