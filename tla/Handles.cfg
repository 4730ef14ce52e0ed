\* Two threads, descriptors 0..4 of which two are taken for good.
SPECIFICATION Spec
CONSTANTS
  t1 = t1
  t2 = t2
  i1 = i1
  i2 = i2
  i3 = i3
  j1 = j1
  j2 = j2
  j3 = j3
  a1 = a1
  a2 = a2
  NULL = NULL
  Threads = {t1, t2}
  MaxFd = 4
  FileIds = {i1, i2, i3}
  DirIds = {j1, j2, j3}
  Addrs = {a1, a2}
SYMMETRY Symmetric
INVARIANTS
  DescriptorsKeepTheirFiles
  NoHandleIsZero
  OnlyOpenDirLeaks
