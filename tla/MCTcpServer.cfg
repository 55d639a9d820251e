SPECIFICATION Spec
CONSTANTS
  Fds = {f1, f2}
  NoFd = NoFd
  MaxThreads = 2
  MaxBacklog = 2
INVARIANTS TypeOK HeldByServer FreeIsForgotten OnlyDestructionDangles
PROPERTIES LifeSpec BacklogDrains DescriptorsReturn
CHECK_DEADLOCK FALSE
