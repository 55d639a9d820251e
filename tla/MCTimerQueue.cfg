SPECIFICATION Spec
CONSTANTS
  Timers = {t1, t2}
  Delays = {0, 2}
  Sec = 4
  Milli = 1
  MaxBlock = 1
  MaxStall = 1
  MaxClock = 7
INVARIANTS
  TypeOK
  ArmedWhilePending
  OnlyFiredDangle
PROPERTIES
  AlarmSpec
CHECK_DEADLOCK FALSE
