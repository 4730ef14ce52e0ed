\* Processes that ask for a length, and others that read, set and remove.
SPECIFICATION Spec
CONSTANTS
  a = a
  b = b
  NULL = NULL
  NameLen <- Lens
  Names = {a, b}
  Values = {0, 5}
  Sizes = {0, 2, 5}
  Errnos <- LinuxErrnos
CHECK_DEADLOCK FALSE
INVARIANT
  ProbesGetTheLength
