\* A second file system mounted in the source tree, every handler.
SPECIFICATION Spec
CONSTANTS
  t1 = t1
  t2 = t2
  a1 = a1
  a2 = a2
  a3 = a3
  root = root
  reg = reg
  dir = dir
  fifo = fifo
  mnt = mnt
  NULL = NULL
  ROOT = ROOT
  RootFile = root
  Threads = {t1}
  Addrs = {a1, a2, a3}
  Files = {root, reg, mnt}
  Dirs = {root, mnt}
  Fifos = {}
  Keys = {1, 2, 4}
  KeyOf <- KeyOfTwo
  Devs = {1, 2}
  DevOf <- DevOfTwo
  Ops <- AllOps
  MaxEntries = 1
  MaxRefs = 2
SYMMETRY Symmetric
INVARIANTS
  SingleSource
