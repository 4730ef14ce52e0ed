\* Four fields; names are valid for longer than attributes.
SPECIFICATION Spec
CONSTANTS
  NULL = NULL
  Fields = {"uid", "gid", "size", "mtime"}
  AttrTimeout = 1
  EntryTimeout = 2
  MaxTime = 3
  MaxOutside = 1
INVARIANTS
  SetAttrSetsWhatWasAsked
  CachedIsCurrent
