\* Two threads, an operation of each kind (two where they are in different
\* tables); the system stops once the connection is aborted.
SPECIFICATION FairSpec
CONSTANTS
  NULL = NULL
  Threads = {t1, t2}
  Reqs = {r1, r2}
  Cells = {c1, c2}
  Ops = {"Lookup", "Forget", "GetAttr", "SetAttr", "SetAttrByPath", "ReadLink", "Unlink",
         "Open", "OpenDir", "Read", "Release", "ReadDir", "ReleaseDir", "StatFS",
         "GetXAttr", "ListXAttr", "Access", "Create", "GetLk", "SetLk", "Poll", "WriteBuf",
         "ForgetMulti", "FLock", "FAllocate", "ReadDirPlus", "CopyFileRange", "LSeek"}
CHECK_DEADLOCK FALSE
INVARIANTS
  OwnedOnce
  AnswerFits
  OnlyFailedWritesAreDropped
PROPERTIES
  EveryRequestIsAnswered
