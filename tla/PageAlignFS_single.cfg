\* One thread (pafs -s), every handler, a reused inode number, a FIFO.
SPECIFICATION FairSpec
CONSTANTS
  t1 = t1
  t2 = t2
  a1 = a1
  a2 = a2
  a3 = a3
  root = root
  reg = reg
  dir = dir
  fifo = fifo
  mnt = mnt
  NULL = NULL
  ROOT = ROOT
  RootFile = root
  Threads = {t1}
  Addrs = {a1, a2}
  Files = {root, reg, dir, fifo}
  Dirs = {root, dir}
  Fifos = {fifo}
  Keys = {1, 2}
  KeyOf <- KeyOfFifo
  Devs = {1}
  DevOf <- DevOfSmall
  Ops <- AllOps
  MaxEntries = 2
  MaxRefs = 2
INVARIANTS
  TypeOK
  RefcountExact
  NoDanglingInode
  InsertFindsTheFileOpened
  KernelKnowsGeneration
  ForgottenIsFreedButDots
PROPERTIES
  ImplementsNodeTable
  HandlersReturn
  ForgottenInodesAreFreed
