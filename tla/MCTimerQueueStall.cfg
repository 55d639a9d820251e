SPECIFICATION Spec
CONSTANTS
  Timers = {t1}
  Delays = {1}
  Sec = 3
  Milli = 1
  MaxBlock = 4
  MaxStall = 0
  MaxClock = 8
INVARIANT
  ArmedWhilePending
CHECK_DEADLOCK FALSE
