SPECIFICATION SpecThread
CONSTANTS
  Main = main
  Threads = {main, other}
  Tasks = {k1, k2}
  EventfdMax = 2
INVARIANTS
  TypeOKThread
  LiveUntilQuit
PROPERTIES
  StartReturns
  DestructorReturns
CHECK_DEADLOCK FALSE
