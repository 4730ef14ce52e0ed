\* Poll: two threads, two open files.  Mounts: two Mounts, two mount points,
\* room for two calls of umount.  Session: two threads or one, one process that
\* looks up a FIFO and two that do not.
SPECIFICATION MCSpec
CONSTANTS
  NULL = NULL
  Threads = {1, 2}
  Files = {21, 22}
  Addrs = {11, 12, 13}
  NONE = NONE
  Objs = {o1, o2}
  Targets = {t1, t2}
  MaxMounts = 3
  MaxDepth = 2
  NOFD = NOFD
  Workers = {w1, w2}
  Procs = {p, q, r}
  FifoProcs = {q}
  MaxFd = 4
CHECK_DEADLOCK FALSE
INVARIANTS
  HandlesHaveOneOwner
  LastWatcherIsNotified
  EveryMountHasOneOwner
  RootIsTheSource
  NothingIsLeft
PROPERTIES
  OthersAreServed
  SignalEndsProgram
