\* Names are valid for longer than attributes: with the replies of GetAttr and
\* SetAttr the attributes are, too.
SPECIFICATION Spec
CONSTANTS
  NULL = NULL
  Fields = {"uid", "gid", "size", "mtime"}
  AttrTimeout = 1
  EntryTimeout = 2
  MaxTime = 3
  MaxOutside = 1
INVARIANT
  AttributesExpire
