SPECIFICATION Spec
CONSTANTS
  Fds = {f1, f2}
  NoFd = NoFd
  MaxThreads = 2
  MaxBacklog = 2
INVARIANT OutlivesItsClose
CHECK_DEADLOCK FALSE
