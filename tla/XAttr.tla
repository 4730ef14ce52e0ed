------------------------------- MODULE XAttr -------------------------------
(***************************************************************************)
(* Extended attributes: GetXAttr, ListXAttr, SetXAttr and RemoveXAttr of   *)
(* page_align_fs.cc, and getxattr, listxattr, setxattr and removexattr of  *)
(* syscalls.cc, for one file, with the errors they return (ErrnoStatus).   *)
(*                                                                         *)
(* A process that reads an attribute, or the list of their names, says how *)
(* large its buffer is.  A size of 0 asks for the length: the system call  *)
(* answers with the length and writes nothing, and the kernel expects a    *)
(* struct fuse_getxattr_out of 8 bytes.  Every other size asks for the     *)
(* data, which must fit.  Other processes, through the mount or on the     *)
(* source, change the attributes at any moment: between two requests of a  *)
(* reader, or between the system call of a handler and its reply.          *)
(***************************************************************************)
EXTENDS ErrnoStatus, FiniteSetsExt

CONSTANTS
  Names,    \* attributes
  NameLen,  \* the length of each name in the list, its NUL included
  Values,   \* lengths of values; values of one length are not told apart
  Sizes,    \* sizes of the buffers of readers
  Errnos,   \* what system calls on the source may fail with
  NULL      \* no such attribute, no answer

OutArg == 8  \* sizeof(struct fuse_getxattr_out)

Readers == {"GetXAttr", "ListXAttr"}
Ops == Readers \cup {"SetXAttr", "RemoveXAttr"}

\* Errors that say something about the attributes.
Telling == {Errno("ENODATA"), Errno("ERANGE"), Errno("EEXIST")}

ASSUME XAttrAssumption ==
  /\ Values \subseteq Nat
  /\ Sizes \subseteq Nat
  /\ IsFiniteSet(Names)
  /\ NameLen \in [Names -> Nat \ {0}]
  /\ Errnos \subseteq Nat \ {0}
  /\ NULL \notin Nat

VARIABLES
  xattrs,    \* the value of each attribute of the source file
  aborted,   \* a CHECK failed and ended the process
  pc,        \* handler: "loop", "call" or "reply"
  op,        \* handler: the operation
  name,      \* handler: the attribute, or "list" for the list of names
  size,      \* handler: the size asked for, or that of the value to set
  buf,       \* handler: the length of what it sends
  errnum,    \* history: what its system call failed with, 0 if it did not
  answer,    \* kernel: the errno of the last reply and the length in it
  had,       \* history: the lengths there were since a reader's request began
  disabled   \* kernel: operations it does not ask for any more

reqVars == <<op, name, size>>
vars == <<xattrs, aborted, pc, reqVars, buf, errnum, answer, had, disabled>>

Err(e) == [errno |-> e, len |-> 0]
Length(n) == [errno |-> 0, len |-> n]

Lengths == Values \cup Sizes \cup 0..MapThenSumSet(LAMBDA n : NameLen[n], Names)

(***************************************************************************)
(* Types of the state.                                                     *)
(***************************************************************************)
TypeOK ==
  /\ xattrs \in [Names -> Values \cup {NULL}]
  /\ aborted \in BOOLEAN
  /\ pc \in {"loop", "call", "reply"}
  /\ op \in Ops
  /\ name \in Names \cup {"list"}
  /\ size \in Lengths
  /\ buf \in Lengths
  /\ errnum \in Errnos \cup Telling \cup {0}
  /\ answer \in [errno : Nat, len : Lengths] \cup {NULL}
  /\ had \subseteq Lengths \cup {NULL}
  /\ disabled \subseteq Ops

Init ==
  /\ xattrs \in [Names -> Values \cup {NULL}]
  /\ aborted = FALSE
  /\ pc = "loop"
  /\ op = "ListXAttr"
  /\ name = "list"
  /\ size = 0
  /\ buf = 0
  /\ errnum = 0
  /\ answer = NULL
  /\ had = {}
  /\ disabled = {}

\* The length of the list of names, of an attribute; NULL if there is none.
LengthOf(x, n) ==
  IF n = "list" THEN MapThenSumSet(LAMBDA m : NameLen[m], {m \in Names : x[m] # NULL})
                ELSE x[n]

There == LengthOf(xattrs, name)
-----------------------------------------------------------------------------
\* A process asks for an operation that the kernel believes pafs to have.
Receive(o, n, s) ==
  /\ pc = "loop"
  /\ o \notin disabled
  /\ (o = "ListXAttr") = (n = "list")
  /\ s \in IF o \in Readers THEN Sizes ELSE IF o = "SetXAttr" THEN Values ELSE {0}
  /\ pc' = "call"
  /\ op' = o
  /\ name' = n
  /\ size' = s
  /\ errnum' = 0
  /\ answer' = NULL
  /\ had' = IF o \in Readers THEN {LengthOf(xattrs, n)} ELSE {}
  /\ UNCHANGED <<xattrs, aborted, buf, disabled>>

\* The kernel has its reply a.
Told(a) ==
  /\ pc' = "loop"
  /\ buf' = 0
  /\ answer' = a
  /\ disabled' = IF a.errno = Errno("ENOSYS") THEN disabled \cup {op} ELSE disabled
  /\ UNCHANGED <<aborted, reqVars>>

\* The system call fails with an errno of Telling only for its reason; it may
\* fail with any other errno at any time.
MayFail(e) ==
  /\ e = Errno("ENODATA") => name # "list" /\ xattrs[name] = NULL
  /\ e = Errno("ERANGE") => op \in Readers /\ There # NULL /\ size > 0 /\ There > size
  /\ e = Errno("EEXIST") => op = "SetXAttr" /\ xattrs[name] # NULL

\* What the kernel is told for each errno.
ReplyFailure == [e \in Errnos |-> ReplyErrno(ErrnoToStatus(e))]

\* The system call fails, and the wrapper replies with what becomes of the
\* errno.  ENODATA is for setxattr with XATTR_REPLACE, EEXIST with XATTR_CREATE.
CallFails(e) ==
  /\ pc = "call"
  /\ MayFail(e)
  /\ errnum' = e
  /\ Told(Err(ReplyFailure[e]))
  /\ had' = IF e \in Telling THEN had ELSE {}
  /\ UNCHANGED xattrs

Succeeds(o) ==
  /\ pc = "call"
  /\ op = o
  /\ o \in Readers => There # NULL /\ (size = 0 \/ There <= size)
  /\ UNCHANGED errnum

\* The handler of a reader has n bytes to send.
Holds(n) ==
  /\ pc' = "reply"
  /\ buf' = n
  /\ UNCHANGED <<xattrs, aborted, reqVars, answer, had, disabled>>

Abort ==
  /\ aborted' = TRUE
  /\ UNCHANGED <<xattrs, pc, reqVars, buf, answer, had, disabled>>

\* GetXAttr: syscalls::getxattr fails a CHECK when it is told more than it
\* has room for; otherwise it cuts its buffer to the length.
GetXAttrNoResize == Succeeds("GetXAttr") /\ Holds(size)

GetXAttr == Succeeds("GetXAttr") /\ IF There <= size THEN Holds(There) ELSE Abort

\* ListXAttr: its buffer gets the length it is told, be it longer than it was.
ListXAttr == Succeeds("ListXAttr") /\ Holds(There)

(***************************************************************************)
(* ReplyBuf.  To a request for the length the kernel takes only a reply of *)
(* the 8 bytes it expects, and reads the length in them; the bytes of a    *)
(* buffer that was made larger are 0.                                      *)
(***************************************************************************)
Taken ==
  IF size # 0 THEN Length(buf) ELSE IF buf = OutArg THEN Length(0) ELSE Err(Errno("EIO"))

ReplyBuf ==
  /\ pc = "reply"
  /\ Told(Taken)
  /\ UNCHANGED <<xattrs, errnum, had>>

\* SetXAttr, with XATTR_CREATE or XATTR_REPLACE if the attribute is as these
\* demand or with neither, and RemoveXAttr: the wrapper replies with 0.
SetXAttr ==
  /\ Succeeds("SetXAttr")
  /\ xattrs' = [xattrs EXCEPT ![name] = size]
  /\ Told(Length(0))
  /\ UNCHANGED had

RemoveXAttr ==
  /\ Succeeds("RemoveXAttr")
  /\ xattrs[name] # NULL
  /\ xattrs' = [xattrs EXCEPT ![name] = NULL]
  /\ Told(Length(0))
  /\ UNCHANGED had

\* Others set or remove an attribute, through the mount or on the source.
OthersChange(n, v) ==
  /\ xattrs' = [xattrs EXCEPT ![n] = v]
  /\ had' = IF pc # "loop" /\ op \in Readers THEN had \cup {LengthOf(xattrs', name)} ELSE had
  /\ UNCHANGED <<aborted, pc, reqVars, buf, errnum, answer, disabled>>

Next ==
  /\ ~aborted
  /\ \/ \E o \in Ops, n \in Names \cup {"list"}, s \in Sizes \cup Values : Receive(o, n, s)
     \/ \E e \in Errnos : CallFails(e)
     \/ GetXAttr \/ ListXAttr \/ ReplyBuf
     \/ SetXAttr \/ RemoveXAttr
     \/ \E n \in Names, v \in Values \cup {NULL} : OthersChange(n, v)

Spec == Init /\ [][Next]_vars
-----------------------------------------------------------------------------
Replied == pc = "loop" /\ answer # NULL

(***************************************************************************)
(* A reader with a buffer gets an attribute, or the list, whole and        *)
(* nothing but it, as it was at some moment of the request, and is told    *)
(* that there is none, or that its buffer is too small, only if that was   *)
(* so at some moment: whatever is set and removed meanwhile, and although  *)
(* other errors are turned into errors of other names.                     *)
(***************************************************************************)
ReadersGetWhatWasThere ==
  Replied /\ op \in Readers /\ size > 0 =>
    /\ answer.errno = 0 => answer.len \in had /\ answer.len <= size
    /\ answer.errno = Errno("ENODATA") => NULL \in had
    /\ answer.errno = Errno("ERANGE") => \E n \in had \ {NULL} : n > size

(***************************************************************************)
(* "CHECK_LE(nb, maxsize);" (syscalls.cc:315, getxattr) and "TODO: Test    *)
(* that size=0 case works" (page_align_fs.cc:420, ListXAttr).  A process   *)
(* that asks for the length of an attribute, or of the list, ends nobody,  *)
(* and unless the system call failed it learns a length that there was.    *)
(***************************************************************************)
ProbesGetTheLength ==
  op \in Readers /\ size = 0 =>
    /\ ~aborted
    /\ Replied /\ errnum = 0 => answer.errno = 0 /\ answer.len \in had

(***************************************************************************)
(* "This syntax is parsed by ErrorNameToErrno." (errno.cc:15).  An errno   *)
(* of the source that has a name in the table of ErrorNameToErrno, or that *)
(* has no name at all, reaches the kernel as it is: ErrnoToErrorName,      *)
(* ErrorNameToErrno and the C library agree on these.  (EIO, ELOOP,        *)
(* EOPNOTSUPP and others have names that are not in the table.)            *)
(***************************************************************************)
ListedErrnosSurvive ==
  Replied /\ errnum # 0 /\ (HasName(errnum) => libcNames[errnum] \in kNamesToErrors) =>
    answer.errno = errnum

(***************************************************************************)
(* The kernel stops asking for an operation, on every file, only when the  *)
(* source does not support it, be it on the one file that was asked about  *)
(* (EOPNOTSUPP); no other error, listed or not, is taken for that.         *)
(***************************************************************************)
DisabledOnlyIfUnsupported ==
  [][disabled' # disabled => errnum' \in {Errno("ENOSYS"), Errno("EOPNOTSUPP")}]_vars
=============================================================================
