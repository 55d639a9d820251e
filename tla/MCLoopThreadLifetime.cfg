SPECIFICATION SpecThread
CONSTANTS
  Main = main
  Threads = {main, other}
  Tasks = {k1}
  EventfdMax = 2
INVARIANT
  NoUseAfterDestroy
CHECK_DEADLOCK FALSE
