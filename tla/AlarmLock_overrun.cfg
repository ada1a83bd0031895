SPECIFICATION Spec
CONSTANTS
  Tick = {t1, t2}
  NoTick = NoTick
  Timeout = 1
  Margin = 2
  OwnTime = 3
INVARIANTS OneSender
