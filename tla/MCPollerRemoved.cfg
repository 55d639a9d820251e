SPECIFICATION Spec
CONSTANTS
  waker = waker
  timerfd = timerfd
  Permanent <- LoopFds
  Transient = {a, b, c}
  IGNORED_FD = ignored
INVARIANT
  RemovedNotPolled
