SPECIFICATION FairSpec
CONSTANTS
  Addrs = {a1, a2}
  Threads = {t1, t2}
  Unregisterers = {t1}
  Loop = Loop
  None = None
  MaxRegs = 2
  MaxIdles = 1
INVARIANTS
  CrashNeedsRace
  WaitedIsOver
PROPERTIES
  OnlyLiveRegistrations
  StopEnds
  UnregisterReturns
CHECK_DEADLOCK FALSE
