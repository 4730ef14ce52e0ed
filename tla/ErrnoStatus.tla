---------------------------- MODULE ErrnoStatus ----------------------------
(***************************************************************************)
(* The way of an error: ErrnoToStatus and GetErrnoFromStatus (status.cc),  *)
(* the names of errors (errno.cc), and ReplyFailure with                   *)
(* StatusCodeToErrno (fuse.cc).                                            *)
(*                                                                         *)
(* A system call fails with an errno.  ErrnoToStatus makes a status of it  *)
(* that has a code of absl's and, as its payload, the name of the errno;   *)
(* the handlers return it as it is; ReplyFailure reads the name and tells  *)
(* the kernel the errno it stands for, or one for the code if it does not  *)
(* know the name.  ENOSYS tells the kernel that the file system has no     *)
(* such operation at all, on any file: it does not ask for it again.       *)
(***************************************************************************)
EXTENDS Naturals, Sequences

\* strerrorname_np of the C library: the name of each errno from 1 on, NULL
\* for two numbers that Linux does not use.
libcNames ==
  <<"EPERM", "ENOENT", "ESRCH", "EINTR", "EIO", "ENXIO", "E2BIG", "ENOEXEC",
    "EBADF", "ECHILD", "EAGAIN", "ENOMEM", "EACCES", "EFAULT", "ENOTBLK",
    "EBUSY", "EEXIST", "EXDEV", "ENODEV", "ENOTDIR", "EISDIR", "EINVAL",
    "ENFILE", "EMFILE", "ENOTTY", "ETXTBSY", "EFBIG", "ENOSPC", "ESPIPE",
    "EROFS", "EMLINK", "EPIPE", "EDOM", "ERANGE", "EDEADLK", "ENAMETOOLONG",
    "ENOLCK", "ENOSYS", "ENOTEMPTY", "ELOOP", "NULL", "ENOMSG", "EIDRM",
    "ECHRNG", "EL2NSYNC", "EL3HLT", "EL3RST", "ELNRNG", "EUNATCH", "ENOCSI",
    "EL2HLT", "EBADE", "EBADR", "EXFULL", "ENOANO", "EBADRQC", "EBADSLT",
    "NULL", "EBFONT", "ENOSTR", "ENODATA", "ETIME", "ENOSR", "ENONET", "ENOPKG",
    "EREMOTE", "ENOLINK", "EADV", "ESRMNT", "ECOMM", "EPROTO", "EMULTIHOP",
    "EDOTDOT", "EBADMSG", "EOVERFLOW", "ENOTUNIQ", "EBADFD", "EREMCHG",
    "ELIBACC", "ELIBBAD", "ELIBSCN", "ELIBMAX", "ELIBEXEC", "EILSEQ",
    "ERESTART", "ESTRPIPE", "EUSERS", "ENOTSOCK", "EDESTADDRREQ",
    "EMSGSIZE", "EPROTOTYPE", "ENOPROTOOPT", "EPROTONOSUPPORT",
    "ESOCKTNOSUPPORT", "EOPNOTSUPP", "EPFNOSUPPORT", "EAFNOSUPPORT",
    "EADDRINUSE", "EADDRNOTAVAIL", "ENETDOWN", "ENETUNREACH", "ENETRESET",
    "ECONNABORTED", "ECONNRESET", "ENOBUFS", "EISCONN", "ENOTCONN",
    "ESHUTDOWN", "ETOOMANYREFS", "ETIMEDOUT", "ECONNREFUSED", "EHOSTDOWN",
    "EHOSTUNREACH", "EALREADY", "EINPROGRESS", "ESTALE", "EUCLEAN",
    "ENOTNAM", "ENAVAIL", "EISNAM", "EREMOTEIO", "EDQUOT", "ENOMEDIUM",
    "EMEDIUMTYPE", "ECANCELED", "ENOKEY", "EKEYEXPIRED", "EKEYREVOKED",
    "EKEYREJECTED", "EOWNERDEAD", "ENOTRECOVERABLE", "ERFKILL", "EHWPOISON">>

HasName(e) == e \in 1..Len(libcNames) /\ libcNames[e] # "NULL"

\* absl::ErrnoToStatusCode: the errnos of each code, by their constants in
\* <errno.h>; kUnknown is the code of all others.
ErrnosOfCode ==
  [kInvalidArgument |->
     {"EINVAL", "ENAMETOOLONG", "E2BIG", "EDESTADDRREQ", "EDOM", "EFAULT", "EILSEQ",
      "ENOPROTOOPT", "ENOSTR", "ENOTSOCK", "ENOTTY", "EPROTOTYPE", "ESPIPE"},
   kDeadlineExceeded |-> {"ETIMEDOUT", "ETIME"},
   kNotFound |-> {"ENODEV", "ENOENT", "ENOMEDIUM", "ENXIO", "ESRCH"},
   kAlreadyExists |-> {"EEXIST", "EADDRNOTAVAIL", "EALREADY", "ENOTUNIQ"},
   kPermissionDenied |-> {"EPERM", "EACCES", "ENOKEY", "EROFS"},
   kFailedPrecondition |->
     {"ENOTEMPTY", "EISDIR", "ENOTDIR", "EADDRINUSE", "EBADF", "EBADFD", "EBUSY",
      "ECHILD", "EISCONN", "EISNAM", "ENOTBLK", "ENOTCONN", "EPIPE", "ESHUTDOWN",
      "ETXTBSY", "EUNATCH"},
   kResourceExhausted |->
     {"ENOSPC", "EDQUOT", "EMFILE", "EMLINK", "ENFILE", "ENOBUFS", "ENODATA",
      "ENOMEM", "ENOSR", "EUSERS"},
   kOutOfRange |-> {"ECHRNG", "EFBIG", "EOVERFLOW", "ERANGE"},
   kUnimplemented |->
     {"ENOPKG", "ENOSYS", "ENOTSUP", "EAFNOSUPPORT", "EPFNOSUPPORT",
      "EPROTONOSUPPORT", "ESOCKTNOSUPPORT", "EXDEV"},
   kUnavailable |->
     {"EAGAIN", "ECOMM", "ECONNREFUSED", "ECONNABORTED", "ECONNRESET", "EINTR",
      "EHOSTDOWN", "EHOSTUNREACH", "ENETDOWN", "ENETRESET", "ENETUNREACH",
      "ENOLCK", "ENOLINK", "ENONET"},
   kAborted |-> {"EDEADLK", "ESTALE"},
   kCancelled |-> {"ECANCELED"}]

\* The number of a constant of <errno.h>.  ENOTSUP is a second constant for
\* EOPNOTSUPP.
Errno(n) ==
  IF n = "ENOTSUP" THEN 95 ELSE CHOOSE e \in 1..Len(libcNames) : libcNames[e] = n

CodeOf(e) ==
  IF \E c \in DOMAIN ErrnosOfCode : \E n \in ErrnosOfCode[c] : Errno(n) = e
    THEN CHOOSE c \in DOMAIN ErrnosOfCode : \E n \in ErrnosOfCode[c] : Errno(n) = e
    ELSE "kUnknown"
-----------------------------------------------------------------------------
\* The name of an error: a text, and for "UNKNOWN (%d)" a number.
Name(s) == [text |-> s, num |-> 0]

\* ErrnoToErrorName, for an errno that is not 0.
ErrnoToErrorNameNumbered(e) ==
  IF HasName(e) THEN Name(libcNames[e]) ELSE Name("UNKNOWN")

ErrnoToErrorName(e) ==
  IF HasName(e) THEN Name(libcNames[e]) ELSE [text |-> "UNKNOWN", num |-> e]

\* The table of ErrorNameToErrno: it has the constants of absl's switch.
kNamesToErrors == {"OK"} \cup UNION {ErrnosOfCode[c] : c \in DOMAIN ErrnosOfCode}

NotFound == 0

\* ErrorNameToErrno: the number in "UNKNOWN (%d)", or the value in the table,
\* or NotFoundError.
ErrorNameToErrno(n) ==
  IF n.text = "UNKNOWN" THEN n.num
  ELSE IF n.text \in kNamesToErrors THEN Errno(n.text)
  ELSE NotFound

NoPayload == Name("none")

ErrnoToStatus(e) == [code |-> CodeOf(e), payload |-> ErrnoToErrorName(e)]

GetErrnoFromStatus(st) ==
  IF st.payload = NoPayload THEN NotFound ELSE ErrorNameToErrno(st.payload)

StatusCodeToErrnoNosys(c) ==
  IF c \in {"kUnimplemented", "kUnknown"} THEN Errno("ENOSYS") ELSE Errno("EBUSY")

\* StatusCodeToErrno of fuse.cc, for a status that is not OK.
StatusCodeToErrno(c) ==
  Errno(CASE c = "kInvalidArgument" -> "EINVAL"
          [] c = "kDeadlineExceeded" -> "ETIMEDOUT"
          [] c = "kNotFound" -> "ENOENT"
          [] c = "kAlreadyExists" -> "EEXIST"
          [] c \in {"kPermissionDenied", "kUnauthenticated"} -> "EPERM"
          [] c = "kOutOfRange" -> "ERANGE"
          [] c = "kFailedPrecondition" -> "EBUSY"
          [] c = "kResourceExhausted" -> "ENOSPC"
          [] c = "kCancelled" -> "ECANCELED"
          [] c = "kAborted" -> "EDEADLK"
          [] c = "kUnimplemented" -> "ENOSYS"
          [] c = "kUnavailable" -> "EAGAIN"
          [] c = "kDataLoss" -> "ENOTRECOVERABLE"
          [] c = "kInternal" -> "ELIBBAD"
          [] OTHER -> "EPROTO")

\* FuseRequest::ReplyFailure: what the kernel is told.
ReplyErrno(st) ==
  IF GetErrnoFromStatus(st) # NotFound THEN GetErrnoFromStatus(st) ELSE StatusCodeToErrno(st.code)
=============================================================================
