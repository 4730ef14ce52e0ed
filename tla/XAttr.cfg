\* Two attributes of length 0 or 5, buffers too small for the list, every errno.
SPECIFICATION Spec
CONSTANTS
  a = a
  b = b
  NULL = NULL
  NameLen <- Lens
  Names = {a, b}
  Values = {0, 5}
  Sizes = {0, 2, 5}
  Errnos <- LinuxErrnos
CHECK_DEADLOCK FALSE
INVARIANTS
  ReadersGetWhatWasThere
  ListedErrnosSurvive
PROPERTIES
  DisabledOnlyIfUnsupported
