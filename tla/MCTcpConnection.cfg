SPECIFICATION Spec
CONSTANTS
  Callers = {c1, c2}
  Hosts = {"same", "io"}
  Lengths = {1, 2}
  MaxUnsent = 2
  MaxPending = 1
  PRETEND_SIZE = 1
  INIT_SIZE = 2
  EXTRA_SIZE = 2
  Word = 16
INVARIANTS TypeOK InputConserved AnnouncedInPairs OnlyKnownFailures OnlyLateCallsDangle
PROPERTIES LifeSpec FinAfterFlush ClosedIsReleased ShutdownHappens
CHECK_DEADLOCK FALSE
