\* Three names, one of them a FIFO's, at four offsets, read two at a time; a buffer of two entries.
SPECIFICATION FairSpec
CONSTANTS
  n1 = n1
  n2 = n2
  n3 = n3
  NULL = NULL
  Names = {n1, n2, n3}
  Fifos = {n3}
  Positions = 4
  EntrySize <- Sizes
  PlusSize = 1
  BufSize = 3
  Batch = 2
  MaxChanges = 3
INVARIANTS
  StableEntriesSeenOnce
  MissingOnlyIfRemoved
PROPERTIES
  ListingsEnd
