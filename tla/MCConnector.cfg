SPECIFICATION Spec
CONSTANTS
  Fds = {f1, f2, f3}
  NoFd = NoFd
  MaxConnects = 3
INVARIANTS TypeOK OneAttempt OneHandle FailsOnlyIfCalledAgain
PROPERTIES KeepsTrying
CHECK_DEADLOCK FALSE
