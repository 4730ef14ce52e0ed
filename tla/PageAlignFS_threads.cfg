\* Two threads, the executions in which accesses to the cache are serialised.
SPECIFICATION SerialSpec
CONSTANTS
  t1 = t1
  t2 = t2
  a1 = a1
  a2 = a2
  a3 = a3
  root = root
  reg = reg
  dir = dir
  fifo = fifo
  mnt = mnt
  NULL = NULL
  ROOT = ROOT
  RootFile = root
  Threads = {t1, t2}
  Addrs = {a1, a2}
  Files = {root, reg, dir}
  Dirs = {root, dir}
  Fifos = {}
  Keys = {1, 2}
  KeyOf <- KeyOfSmall
  Devs = {1}
  DevOf <- DevOfSmall
  Ops <- ThreadOps
  MaxEntries = 1
  MaxRefs = 2
SYMMETRY Symmetric
INVARIANTS
  CheckHolds
  RefcountExact
  NoDanglingInode
  OperandLive
