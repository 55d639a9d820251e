SPECIFICATION Spec
CONSTANTS
  Callers = {c1, c2}
  Hosts = {"same", "io"}
  Lengths = {2}
  MaxUnsent = 3
  MaxPending = 1
  PRETEND_SIZE = 1
  INIT_SIZE = 3
  EXTRA_SIZE = 2
  Word = 16
INVARIANT PeerGetsOnlySent
CHECK_DEADLOCK FALSE
