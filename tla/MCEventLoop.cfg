SPECIFICATION FairSpec
CONSTANTS
  Threads = {t1, t2}
  Tasks = {k1, k2, k3}
  EventfdMax = 2
INVARIANTS
  TypeOK
  NoLostWakeup
  QuitNotMissed
  ExactlyOnce
PROPERTIES
  ExecutorSpec
  FunctorsRun
  QuitStops
