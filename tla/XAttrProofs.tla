---------------------------- MODULE XAttrProofs ----------------------------
(***************************************************************************)
(* Proofs about XAttr for any attributes, values, buffers and errnos: what *)
(* becomes of every errno on its way to the kernel, and what a process     *)
(* that reads, probes, sets or removes an attribute is told.               *)
(***************************************************************************)
EXTENDS XAttr, FiniteSetTheorems, TLAPS
-----------------------------------------------------------------------------
(***************************************************************************)
(* The names of errnos.                                                    *)
(***************************************************************************)
LEMMA NumberOfNames == Len(libcNames) = 133
  BY DEF libcNames

LEMMA NamesDiffer ==
  \A e, d \in 1..133 : libcNames[e] = libcNames[d] /\ libcNames[e] # "NULL" => e = d
  BY SMTT(60) DEF libcNames

LEMMA OtherNames ==
  \A e \in 1..133 : libcNames[e] \notin {"ENOTSUP", "UNKNOWN", "none", "OK"}
  BY SMTT(60) DEF libcNames

\* A name stands for the errno that has it.
LEMMA ErrnoOfName ==
  ASSUME NEW e, HasName(e)
  PROVE  Errno(libcNames[e]) = e
<1>1. e \in 1..133 /\ libcNames[e] # "NULL"
  BY NumberOfNames DEF HasName
<1>2. libcNames[e] # "ENOTSUP"
  BY <1>1, OtherNames
<1>3. \A d \in 1..133 : libcNames[d] = libcNames[e] => d = e
  BY <1>1, NamesDiffer
<1> QED
  BY <1>1, <1>2, <1>3, NumberOfNames DEF Errno

\* The errnos that StatusCodeToErrno returns, and those that say something.
LEMMA Numbers ==
  /\ Errno("EINVAL") = 22 /\ Errno("ETIMEDOUT") = 110 /\ Errno("ENOENT") = 2
  /\ Errno("EEXIST") = 17 /\ Errno("EPERM") = 1 /\ Errno("ERANGE") = 34
  /\ Errno("EBUSY") = 16 /\ Errno("ENOSPC") = 28 /\ Errno("ECANCELED") = 125
  /\ Errno("EDEADLK") = 35 /\ Errno("ENOSYS") = 38 /\ Errno("EAGAIN") = 11
  /\ Errno("ENOTRECOVERABLE") = 131 /\ Errno("ELIBBAD") = 80 /\ Errno("EPROTO") = 71
  /\ Errno("EIO") = 5 /\ Errno("ENODATA") = 61 /\ Errno("EOPNOTSUPP") = 95
<1>1. /\ libcNames[22] = "EINVAL" /\ libcNames[110] = "ETIMEDOUT" /\ libcNames[2] = "ENOENT"
      /\ libcNames[17] = "EEXIST" /\ libcNames[1] = "EPERM" /\ libcNames[34] = "ERANGE"
      /\ libcNames[16] = "EBUSY" /\ libcNames[28] = "ENOSPC" /\ libcNames[125] = "ECANCELED"
      /\ libcNames[35] = "EDEADLK" /\ libcNames[38] = "ENOSYS" /\ libcNames[11] = "EAGAIN"
      /\ libcNames[131] = "ENOTRECOVERABLE" /\ libcNames[80] = "ELIBBAD" /\ libcNames[71] = "EPROTO"
      /\ libcNames[5] = "EIO" /\ libcNames[61] = "ENODATA" /\ libcNames[95] = "EOPNOTSUPP"
  BY DEF libcNames
<1>2. ASSUME NEW e \in 1..133, libcNames[e] # "NULL"
      PROVE  Errno(libcNames[e]) = e
  BY <1>2, NumberOfNames, ErrnoOfName DEF HasName
<1> QED
  BY <1>1, <1>2

\* The errno for a code tells two codes from all others, and is never 0.
LEMMA ErrnoForCode ==
  ASSUME NEW c
  PROVE  /\ StatusCodeToErrno(c) \in 1..133
         /\ StatusCodeToErrno(c) # 61
         /\ StatusCodeToErrno(c) = 34 => c = "kOutOfRange"
         /\ StatusCodeToErrno(c) = 38 => c = "kUnimplemented"
  BY Numbers DEF StatusCodeToErrno

\* The errnos that absl's switch has under these two codes.
LEMMA ErrnosOfTwoCodes ==
  /\ ErrnosOfCode["kOutOfRange"] \subseteq kNamesToErrors
  /\ ErrnosOfCode["kUnimplemented"] \subseteq kNamesToErrors
  BY DEF kNamesToErrors, ErrnosOfCode

\* An errno that has one of these codes has a name of the table, but for one.
LEMMA CodeIsOfErrno ==
  ASSUME NEW e, NEW c \in {"kOutOfRange", "kUnimplemented"}, CodeOf(e) = c
  PROVE  \E n \in ErrnosOfCode[c] : Errno(n) = e
  BY DEF CodeOf

LEMMA OutOfRangeIsListed ==
  ASSUME NEW e, CodeOf(e) = "kOutOfRange"
  PROVE  e \in 1..133 /\ libcNames[e] \in kNamesToErrors
<1>1. PICK n \in ErrnosOfCode["kOutOfRange"] : Errno(n) = e
  BY CodeIsOfErrno
<1>2. n \in {"ECHRNG", "EFBIG", "EOVERFLOW", "ERANGE"}
  BY DEF ErrnosOfCode
<1>3. libcNames[44] = "ECHRNG" /\ libcNames[27] = "EFBIG" /\ libcNames[75] = "EOVERFLOW"
      /\ libcNames[34] = "ERANGE"
  BY DEF libcNames
<1>4. n # "ENOTSUP" /\ \E d \in 1..Len(libcNames) : libcNames[d] = n
  BY <1>2, <1>3, NumberOfNames
<1>5. e \in 1..133 /\ libcNames[e] = n
  BY <1>1, <1>4, NumberOfNames DEF Errno
<1> QED
  BY <1>5, ErrnosOfTwoCodes

LEMMA UnimplementedIsListed ==
  ASSUME NEW e, CodeOf(e) = "kUnimplemented"
  PROVE  e = 95 \/ (e \in 1..133 /\ libcNames[e] \in kNamesToErrors)
<1>1. PICK n \in ErrnosOfCode["kUnimplemented"] : Errno(n) = e
  BY CodeIsOfErrno
<1>2. n \in {"ENOPKG", "ENOSYS", "ENOTSUP", "EAFNOSUPPORT", "EPFNOSUPPORT",
             "EPROTONOSUPPORT", "ESOCKTNOSUPPORT", "EXDEV"}
  BY DEF ErrnosOfCode
<1>3. CASE n = "ENOTSUP"
  BY <1>1, <1>3 DEF Errno
<1>4. CASE n # "ENOTSUP"
  <2>1. /\ libcNames[65] = "ENOPKG" /\ libcNames[38] = "ENOSYS" /\ libcNames[97] = "EAFNOSUPPORT"
        /\ libcNames[96] = "EPFNOSUPPORT" /\ libcNames[93] = "EPROTONOSUPPORT"
        /\ libcNames[94] = "ESOCKTNOSUPPORT" /\ libcNames[18] = "EXDEV"
    BY DEF libcNames
  <2>2. \E d \in 1..Len(libcNames) : libcNames[d] = n
    BY <1>2, <1>4, <2>1, NumberOfNames
  <2>3. e \in 1..133 /\ libcNames[e] = n
    BY <1>1, <1>4, <2>2, NumberOfNames DEF Errno
  <2> QED
    BY <2>3, ErrnosOfTwoCodes
<1> QED
  BY <1>3, <1>4
-----------------------------------------------------------------------------
(***************************************************************************)
(* The way of an errno e to the kernel.                                    *)
(***************************************************************************)
Survives(e) == HasName(e) => libcNames[e] \in kNamesToErrors

LEMMA ReplyOfErrno ==
  ASSUME NEW e \in Nat \ {0}
  PROVE  ReplyErrno(ErrnoToStatus(e)) = IF Survives(e) THEN e ELSE StatusCodeToErrno(CodeOf(e))
<1> DEFINE st == ErrnoToStatus(e)
           r == GetErrnoFromStatus(st)
<1>1. st.code = CodeOf(e) /\ st.payload = ErrnoToErrorName(e)
  BY DEF ErrnoToStatus
<1>2. CASE ~HasName(e)
  <2>1. st.payload = [text |-> "UNKNOWN", num |-> e]
    BY <1>1, <1>2 DEF ErrnoToErrorName
  <2>2. st.payload.text = "UNKNOWN" /\ st.payload.num = e /\ st.payload # NoPayload
    BY <2>1 DEF NoPayload, Name
  <2> HIDE DEF st
  <2>3. r = e
    BY <2>2 DEF GetErrnoFromStatus, ErrorNameToErrno
  <2> QED
    BY <1>2, <2>3 DEF ReplyErrno, Survives, NotFound, st
<1>3. CASE HasName(e)
  <2>1. st.payload = [text |-> libcNames[e], num |-> 0]
    BY <1>1, <1>3 DEF ErrnoToErrorName, Name
  <2>2. libcNames[e] \notin {"UNKNOWN", "none"}
    BY <1>3, NumberOfNames, OtherNames DEF HasName
  <2>3. st.payload.text = libcNames[e] /\ st.payload.text # "UNKNOWN" /\ st.payload # NoPayload
    BY <2>1, <2>2 DEF NoPayload, Name
  <2> HIDE DEF st
  <2>4. r = IF libcNames[e] \in kNamesToErrors THEN Errno(libcNames[e]) ELSE NotFound
    BY <2>3 DEF GetErrnoFromStatus, ErrorNameToErrno
  <2>5. r = IF Survives(e) THEN e ELSE NotFound
    BY <1>3, <2>4, ErrnoOfName DEF Survives
  <2> QED
    BY <1>1, <2>5 DEF ReplyErrno, NotFound, st
<1> QED
  BY <1>2, <1>3

\* What the kernel can tell from the errno that it gets.
LEMMA ReplyTells ==
  ASSUME NEW e \in Nat \ {0}
  PROVE  LET r == ReplyErrno(ErrnoToStatus(e))
         IN  /\ r # 0
             /\ Survives(e) => r = e
             /\ r = Errno("ENODATA") => e = Errno("ENODATA")
             /\ r = Errno("ERANGE") => e = Errno("ERANGE")
             /\ r = Errno("ENOSYS") => e \in {Errno("ENOSYS"), Errno("EOPNOTSUPP")}
<1> DEFINE r == ReplyErrno(ErrnoToStatus(e))
<1>1. r = IF Survives(e) THEN e ELSE StatusCodeToErrno(CodeOf(e))
  BY ReplyOfErrno
<1>2. Errno("ENODATA") = 61 /\ Errno("ERANGE") = 34 /\ Errno("ENOSYS") = 38 /\ Errno("EOPNOTSUPP") = 95
  BY Numbers
<1> HIDE DEF r
<1>3. CASE Survives(e)
  BY <1>1, <1>2, <1>3 DEF r
<1>4. CASE ~Survives(e)
  <2>1. r = StatusCodeToErrno(CodeOf(e)) /\ libcNames[e] \notin kNamesToErrors
    BY <1>1, <1>4 DEF Survives
  <2>2. r \in 1..133 /\ r # 61
    BY <2>1, ErrnoForCode
  <2>3. r # 34
    BY <2>1, ErrnoForCode, OutOfRangeIsListed
  <2>4. r = 38 => e = 95
    BY <2>1, ErrnoForCode, UnimplementedIsListed
  <2> QED
    BY <1>2, <1>4, <2>2, <2>3, <2>4 DEF r
<1> QED
  BY <1>3, <1>4
-----------------------------------------------------------------------------
(***************************************************************************)
(* What a handler has while it works on a request.                         *)
(***************************************************************************)
ShapeInv ==
  /\ xattrs \in [Names -> Values \cup {NULL}]
  /\ pc \in {"loop", "call", "reply"}
  /\ op \in Ops
  /\ name \in Names \cup {"list"}
  /\ (op = "ListXAttr") = (name = "list")
  /\ size \in Nat
  /\ op = "SetXAttr" => size \in Values

\* The history of a reader has the length that there is now, and what the
\* handler has to send; nothing has failed yet.
RequestInv ==
  /\ pc # "loop" => errnum = 0
  /\ pc # "loop" /\ op \in Readers => There \in had
  /\ pc = "reply" => op \in Readers /\ buf \in had /\ (size > 0 => buf <= size)

XAttrInv ==
  /\ ShapeInv
  /\ RequestInv
  /\ ReadersGetWhatWasThere
  /\ ListedErrnosSurvive

AnswersRight == ReadersGetWhatWasThere /\ ListedErrnosSurvive

LEMMA AnswerFields ==
  ASSUME NEW e
  PROVE  /\ Err(e).errno = e /\ Err(e).len = 0
         /\ Length(e).errno = 0 /\ Length(e).len = e
  BY DEF Err, Length

LEMMA XAttrInitially == Init => XAttrInv
<1> SUFFICES ASSUME Init PROVE XAttrInv
  OBVIOUS
<1> USE DEF Init
<1>1. ShapeInv
  BY DEF ShapeInv, Ops, Readers
<1>2. RequestInv
  BY DEF RequestInv
<1>3. ReadersGetWhatWasThere /\ ListedErrnosSurvive
  BY DEF ReadersGetWhatWasThere, ListedErrnosSurvive, Replied
<1> QED
  BY <1>1, <1>2, <1>3 DEF XAttrInv

\* Between the reply and the next request there is nothing to say of a request.
LEMMA BusyIsSilent ==
  ASSUME pc' # "loop"
  PROVE  AnswersRight'
  BY DEF AnswersRight, ReadersGetWhatWasThere, ListedErrnosSurvive, Replied

LEMMA ReceiveKeeps ==
  ASSUME XAttrInv, ~aborted, NEW o \in Ops, NEW n \in Names \cup {"list"},
         NEW s \in Sizes \cup Values, Receive(o, n, s)
  PROVE  XAttrInv'
<1>1. ShapeInv'
  <2>1. s \in Nat /\ size' = s
    BY XAttrAssumption DEF Receive
  <2>2. op' = "SetXAttr" => s \in Values
    BY DEF Receive, Readers
  <2> QED
    BY <2>1, <2>2 DEF Receive, ShapeInv, XAttrInv
<1>2. RequestInv'
  <2>1. op' \in Readers => There' \in had'
    BY DEF Receive, There
  <2> QED
    BY <2>1 DEF Receive, RequestInv
<1>3. AnswersRight'
  BY BusyIsSilent DEF Receive
<1> QED
  BY <1>1, <1>2, <1>3 DEF XAttrInv, AnswersRight

LEMMA CallFailsKeeps ==
  ASSUME XAttrInv, ~aborted, NEW e \in Errnos, CallFails(e)
  PROVE  XAttrInv'
<1> DEFINE r == ReplyErrno(ErrnoToStatus(e))
<1>1. /\ pc = "call" /\ pc' = "loop" /\ errnum' = e
      /\ answer' = Err(r)
      /\ had' = IF e \in Telling THEN had ELSE {}
      /\ MayFail(e)
      /\ UNCHANGED <<xattrs, aborted, op, name, size>>
  BY DEF CallFails, Told, ReplyFailure, reqVars
<1>2. e \in Nat \ {0}
  BY XAttrAssumption
<1>3. /\ r # 0
      /\ Survives(e) => r = e
      /\ r = Errno("ENODATA") => e = Errno("ENODATA")
      /\ r = Errno("ERANGE") => e = Errno("ERANGE")
  BY <1>2, ReplyTells
<1> HIDE DEF r
<1>4. answer'.errno = r
  BY <1>1, AnswerFields
<1>5. ShapeInv' /\ RequestInv'
  BY <1>1 DEF XAttrInv, ShapeInv, RequestInv
<1>6. ReadersGetWhatWasThere'
  <2> SUFFICES ASSUME op \in Readers
               PROVE  /\ r = Errno("ENODATA") => NULL \in had'
                      /\ r = Errno("ERANGE") => \E n \in had' \ {NULL} : n > size
    BY <1>1, <1>3, <1>4 DEF ReadersGetWhatWasThere
  <2>1. There \in had
    BY <1>1 DEF XAttrInv, RequestInv
  <2>2. ASSUME r = Errno("ENODATA") PROVE NULL \in had'
    <3>1. e = Errno("ENODATA") /\ e \in Telling
      BY <1>3, <2>2 DEF Telling
    <3>2. name # "list" /\ xattrs[name] = NULL
      BY <1>1, <3>1 DEF MayFail
    <3>3. There = NULL
      BY <3>2 DEF There, LengthOf
    <3> QED
      BY <1>1, <2>1, <3>1, <3>3
  <2>3. ASSUME r = Errno("ERANGE") PROVE \E n \in had' \ {NULL} : n > size
    <3>1. e = Errno("ERANGE") /\ e \in Telling
      BY <1>3, <2>3 DEF Telling
    <3>2. There # NULL /\ There > size
      BY <1>1, <3>1 DEF MayFail
    <3> QED
      BY <1>1, <2>1, <3>1, <3>2
  <2> QED
    BY <2>2, <2>3
<1>7. ListedErrnosSurvive'
  BY <1>1, <1>3, <1>4 DEF ListedErrnosSurvive, Survives
<1> QED
  BY <1>5, <1>6, <1>7 DEF XAttrInv

\* There is a reader's system call that succeeds: the length it returns.
LEMMA ReaderHas ==
  ASSUME XAttrInv, NEW o \in Readers, Succeeds(o)
  PROVE  /\ pc = "call" /\ op = o /\ errnum' = 0 /\ errnum = 0
         /\ There \in had /\ There # NULL
         /\ size > 0 => There <= size
  BY DEF Succeeds, XAttrInv, RequestInv, ShapeInv

\* The handler of a reader has its buffer.
LEMMA HoldsKeeps ==
  ASSUME XAttrInv, ~aborted, NEW o \in Readers, Succeeds(o), Holds(There)
  PROVE  XAttrInv'
<1>1. /\ pc' = "reply" /\ buf' = There
      /\ UNCHANGED <<xattrs, aborted, op, name, size, had>>
  BY DEF Holds, reqVars
<1>2. op = o /\ errnum' = 0 /\ There \in had /\ (size > 0 => There <= size)
  BY ReaderHas
<1>3. There' = There
  BY <1>1 DEF There
<1>4. ShapeInv'
  BY <1>1 DEF XAttrInv, ShapeInv
<1>5. RequestInv'
  BY <1>1, <1>2, <1>3 DEF RequestInv
<1>6. AnswersRight'
  BY <1>1, BusyIsSilent
<1> QED
  BY <1>4, <1>5, <1>6 DEF XAttrInv, AnswersRight

LEMMA GetXAttrKeeps ==
  ASSUME XAttrInv, ~aborted, GetXAttr
  PROVE  XAttrInv'
<1>1. CASE There <= size
  BY <1>1, HoldsKeeps DEF GetXAttr, Readers
<1>2. CASE ~(There <= size)
  <2>1. Succeeds("GetXAttr") /\ aborted' = TRUE
        /\ UNCHANGED <<xattrs, pc, op, name, size, buf, answer, had>>
    BY <1>2 DEF GetXAttr, Abort, reqVars
  <2>2. pc = "call" /\ errnum' = errnum
    BY <2>1, ReaderHas DEF Readers
  <2>3. There' = There
    BY <2>1 DEF There
  <2>4. ShapeInv' /\ RequestInv'
    BY <2>1, <2>2, <2>3 DEF XAttrInv, ShapeInv, RequestInv
  <2>5. AnswersRight'
    BY <2>1, <2>2, BusyIsSilent
  <2> QED
    BY <2>4, <2>5 DEF XAttrInv, AnswersRight
<1> QED
  BY <1>1, <1>2

LEMMA ListXAttrKeeps ==
  ASSUME XAttrInv, ~aborted, ListXAttr
  PROVE  XAttrInv'
  BY HoldsKeeps DEF ListXAttr, Readers

LEMMA ReplyBufKeeps ==
  ASSUME XAttrInv, ~aborted, ReplyBuf
  PROVE  XAttrInv'
<1>1. /\ pc = "reply" /\ pc' = "loop" /\ answer' = Taken
      /\ UNCHANGED <<xattrs, aborted, op, name, size, errnum, had>>
  BY DEF ReplyBuf, Told, reqVars
<1>2. errnum = 0 /\ op \in Readers /\ buf \in had /\ (size > 0 => buf <= size) /\ size \in Nat
  BY <1>1 DEF XAttrInv, RequestInv, ShapeInv
<1>3. ShapeInv' /\ RequestInv'
  BY <1>1 DEF XAttrInv, ShapeInv, RequestInv
<1>4. CASE size # 0
  <2>1. answer'.errno = 0 /\ answer'.len = buf
    BY <1>1, <1>4, AnswerFields DEF Taken
  <2>2. ReadersGetWhatWasThere'
    BY <1>1, <1>2, <1>4, <2>1, Numbers DEF ReadersGetWhatWasThere
  <2>3. ListedErrnosSurvive'
    BY <1>1, <1>2 DEF ListedErrnosSurvive
  <2> QED
    BY <1>3, <2>2, <2>3 DEF XAttrInv
<1>5. CASE size = 0
  <2>1. ReadersGetWhatWasThere'
    BY <1>1, <1>5 DEF ReadersGetWhatWasThere
  <2>2. ListedErrnosSurvive'
    BY <1>1, <1>2 DEF ListedErrnosSurvive
  <2> QED
    BY <1>3, <2>1, <2>2 DEF XAttrInv
<1> QED
  BY <1>4, <1>5

\* The operations that change an attribute reply with 0, to a writer.
LEMMA WriterKeeps ==
  ASSUME XAttrInv, ~aborted, NEW o \in Ops \ Readers, Succeeds(o), Told(Length(0)),
         had' = had, xattrs' \in [Names -> Values \cup {NULL}]
  PROVE  XAttrInv'
<1>1. /\ pc = "call" /\ pc' = "loop" /\ errnum' = 0 /\ op = o /\ op \notin Readers
      /\ UNCHANGED <<aborted, op, name, size>>
  BY DEF Succeeds, Told, reqVars, XAttrInv, RequestInv
<1>2. ShapeInv' /\ RequestInv'
  BY <1>1 DEF XAttrInv, ShapeInv, RequestInv
<1>3. ReadersGetWhatWasThere' /\ ListedErrnosSurvive'
  BY <1>1 DEF ReadersGetWhatWasThere, ListedErrnosSurvive
<1> QED
  BY <1>2, <1>3 DEF XAttrInv

LEMMA SetXAttrKeeps ==
  ASSUME XAttrInv, ~aborted, SetXAttr
  PROVE  XAttrInv'
<1>1. "SetXAttr" \in Ops \ Readers /\ Succeeds("SetXAttr") /\ Told(Length(0)) /\ had' = had
  BY DEF SetXAttr, Ops, Readers
<1>2. xattrs' \in [Names -> Values \cup {NULL}]
  BY DEF SetXAttr, Succeeds, XAttrInv, ShapeInv
<1> QED
  BY <1>1, <1>2, WriterKeeps

LEMMA RemoveXAttrKeeps ==
  ASSUME XAttrInv, ~aborted, RemoveXAttr
  PROVE  XAttrInv'
<1>1. "RemoveXAttr" \in Ops \ Readers /\ Succeeds("RemoveXAttr") /\ Told(Length(0)) /\ had' = had
  BY DEF RemoveXAttr, Ops, Readers
<1>2. xattrs' \in [Names -> Values \cup {NULL}]
  BY DEF RemoveXAttr, XAttrInv, ShapeInv
<1> QED
  BY <1>1, <1>2, WriterKeeps

LEMMA OthersChangeKeeps ==
  ASSUME XAttrInv, ~aborted, NEW n \in Names, NEW v \in Values \cup {NULL}, OthersChange(n, v)
  PROVE  XAttrInv'
<1>1. UNCHANGED <<aborted, pc, op, name, size, buf, errnum, answer>>
  BY DEF OthersChange, reqVars
<1>2. had \subseteq had' /\ (pc = "loop" => had' = had)
      /\ (pc # "loop" /\ op \in Readers => There' \in had')
  BY <1>1 DEF OthersChange, There
<1>3. ShapeInv'
  BY <1>1 DEF OthersChange, XAttrInv, ShapeInv
<1>4. RequestInv'
  BY <1>1, <1>2 DEF XAttrInv, RequestInv
<1>5. AnswersRight'
  <2>1. CASE pc = "loop"
    BY <1>1, <1>2, <2>1
       DEF XAttrInv, AnswersRight, ReadersGetWhatWasThere, ListedErrnosSurvive, Replied
  <2>2. CASE pc # "loop"
    BY <1>1, <2>2, BusyIsSilent
  <2> QED
    BY <2>1, <2>2
<1> QED
  BY <1>3, <1>4, <1>5 DEF XAttrInv, AnswersRight

LEMMA XAttrStep == XAttrInv /\ [Next]_vars => XAttrInv'
<1> SUFFICES ASSUME XAttrInv, [Next]_vars PROVE XAttrInv'
  OBVIOUS
<1>1. CASE Next
  <2>0. ~aborted
    BY <1>1 DEF Next
  <2>1. ASSUME NEW o \in Ops, NEW n \in Names \cup {"list"}, NEW s \in Sizes \cup Values,
               Receive(o, n, s)
        PROVE  XAttrInv'
    BY <2>0, <2>1, ReceiveKeeps
  <2>2. ASSUME NEW e \in Errnos, CallFails(e) PROVE XAttrInv'
    BY <2>0, <2>2, CallFailsKeeps
  <2>3. CASE GetXAttr
    BY <2>0, <2>3, GetXAttrKeeps
  <2>4. CASE ListXAttr
    BY <2>0, <2>4, ListXAttrKeeps
  <2>5. CASE ReplyBuf
    BY <2>0, <2>5, ReplyBufKeeps
  <2>6. CASE SetXAttr
    BY <2>0, <2>6, SetXAttrKeeps
  <2>7. CASE RemoveXAttr
    BY <2>0, <2>7, RemoveXAttrKeeps
  <2>8. ASSUME NEW n \in Names, NEW v \in Values \cup {NULL}, OthersChange(n, v) PROVE XAttrInv'
    BY <2>0, <2>8, OthersChangeKeeps
  <2> QED
    BY <1>1, <2>1, <2>2, <2>3, <2>4, <2>5, <2>6, <2>7, <2>8 DEF Next
<1>2. CASE UNCHANGED vars
  <2> USE <1>2 DEF vars, reqVars, XAttrInv
  <2>1. There' = There
    BY DEF There
  <2>2. ShapeInv' /\ RequestInv'
    BY <2>1 DEF ShapeInv, RequestInv
  <2>3. ReadersGetWhatWasThere' /\ ListedErrnosSurvive'
    BY DEF ReadersGetWhatWasThere, ListedErrnosSurvive, Replied
  <2> QED
    BY <2>2, <2>3
<1> QED
  BY <1>1, <1>2

LEMMA XAttrInvHolds == Spec => []XAttrInv
  BY XAttrInitially, XAttrStep, PTL DEF Spec

(***************************************************************************)
(* A reader with a buffer gets what there was at some moment of its        *)
(* request, and ENODATA and ERANGE are never the disguise of another       *)
(* error: for attributes and buffers of any size, whatever errno the       *)
(* source returns.                                                         *)
(***************************************************************************)
THEOREM ReadersAreRight == Spec => []ReadersGetWhatWasThere
<1>1. XAttrInv => ReadersGetWhatWasThere
  BY DEF XAttrInv
<1> QED
  BY <1>1, XAttrInvHolds, PTL

(***************************************************************************)
(* An errno of any number that is in the table of ErrorNameToErrno, or has *)
(* no name, comes out of ErrnoToStatus and ReplyFailure as it went in.     *)
(***************************************************************************)
THEOREM ErrnosSurvive == Spec => []ListedErrnosSurvive
<1>1. XAttrInv => ListedErrnosSurvive
  BY DEF XAttrInv
<1> QED
  BY <1>1, XAttrInvHolds, PTL

(***************************************************************************)
(* ENOSYS, by which the kernel gives an operation up for good, is the      *)
(* reply to no errno but ENOSYS and EOPNOTSUPP.                            *)
(***************************************************************************)
THEOREM DisabledIsUnsupported == Spec => DisabledOnlyIfUnsupported
<1> DEFINE A == disabled' # disabled => errnum' \in {Errno("ENOSYS"), Errno("EOPNOTSUPP")}
<1>1. XAttrInv /\ [Next]_vars => [A]_vars
  <2> SUFFICES ASSUME Next, disabled' # disabled
               PROVE  errnum' \in {Errno("ENOSYS"), Errno("EOPNOTSUPP")}
    OBVIOUS
  <2>1. \A a : Told(a) => a.errno = Errno("ENOSYS")
    BY DEF Told
  <2>2. \A a : Told(a) => a.errno = 38
    BY <2>1, Numbers
  <2>3. ~Told(Length(0))
    BY <2>2, AnswerFields
  <2>4. ~Told(Taken)
    BY <2>2, AnswerFields, Numbers DEF Taken
  <2>5. PICK e \in Errnos : CallFails(e)
    BY <2>3, <2>4
       DEF Next, Receive, GetXAttr, ListXAttr, ReplyBuf, SetXAttr, RemoveXAttr, OthersChange,
           Holds, Abort
  <2>6. e \in Nat \ {0}
    BY XAttrAssumption
  <2>7. errnum' = e /\ Told(Err(ReplyErrno(ErrnoToStatus(e))))
    BY <2>5 DEF CallFails, ReplyFailure
  <2>8. ReplyErrno(ErrnoToStatus(e)) = Errno("ENOSYS")
    BY <2>1, <2>7, AnswerFields
  <2> QED
    BY <2>6, <2>7, <2>8, ReplyTells
<1> QED
  BY <1>1, XAttrInvHolds, PTL DEF Spec, DisabledOnlyIfUnsupported
-----------------------------------------------------------------------------
(***************************************************************************)
(* The length of a list of names is a sum over a set, which MapThenSumSet  *)
(* defines by recursion over subsets.  What it computes is shown with sets *)
(* that are minimal among those that would not have the property.          *)
(***************************************************************************)
ListLen(S) == MapThenSumSet(LAMBDA m : NameLen[m], S)

Pick(s) == CHOOSE x \in s : TRUE

\* g is the recursive function of MapThenSumSet on the subsets of S.
IsSum(g, S) ==
  g = [s \in SUBSET S |-> IF s = {} THEN 0 ELSE NameLen[Pick(s)] + g[s \ {Pick(s)}]]

LEMMA ListLenIsSum == ASSUME NEW S PROVE ListLen(S) = (CHOOSE g : IsSum(g, S))[S]
  BY DEF ListLen, MapThenSumSet, MapThenFoldSet, IsSum, Pick

LEMMA PickIsMember == ASSUME NEW s, s # {} PROVE Pick(s) \in s
  BY DEF Pick

\* A set of finite sets that is not empty has a minimal member.
LEMMA MinimalSet ==
  ASSUME NEW U, IsFiniteSet(U), NEW B \in SUBSET (SUBSET U), B # {}
  PROVE  \E s \in B : IsFiniteSet(s) /\ \A x \in s : s \ {x} \notin B
<1>1. B \subseteq FiniteSubsetsOf(U)
  BY FS_Subset DEF FiniteSubsetsOf
<1>2. PICK s \in B : \A t \in B : <<t, s>> \notin StrictSubsetOrdering(U)
  BY <1>1, FS_StrictSubsetOrderingWellFounded, WFMin
<1>3. \A x \in s : s \ {x} \subseteq s /\ s \ {x} # s
  OBVIOUS
<1>4. ASSUME NEW x \in s, s \ {x} \in B PROVE FALSE
  <2>1. <<s \ {x}, s>> \in StrictSubsetOrdering(U)
    BY <1>3 DEF StrictSubsetOrdering
  <2> QED
    BY <1>2, <1>4, <2>1
<1>5. IsFiniteSet(s)
  BY FS_Subset
<1> QED
  BY <1>4, <1>5

\* The recursion has one solution ...
LEMMA SumUnique ==
  ASSUME NEW S, IsFiniteSet(S), NEW g, NEW h, IsSum(g, S), IsSum(h, S),
         NEW s \in SUBSET S
  PROVE  g[s] = h[s]
<1> DEFINE B == {t \in SUBSET S : g[t] # h[t]}
<1>1. SUFFICES ASSUME g[s] # h[s] PROVE FALSE
  OBVIOUS
<1>2. B # {} /\ B \in SUBSET (SUBSET S)
  BY <1>1
<1>3. PICK t \in B : \A x \in t : t \ {x} \notin B
  BY <1>2, MinimalSet
<1>4. /\ t \in SUBSET S
      /\ g[t] = IF t = {} THEN 0 ELSE NameLen[Pick(t)] + g[t \ {Pick(t)}]
      /\ h[t] = IF t = {} THEN 0 ELSE NameLen[Pick(t)] + h[t \ {Pick(t)}]
  BY DEF IsSum
<1>5. CASE t = {}
  BY <1>3, <1>4, <1>5
<1>6. CASE t # {}
  <2>1. Pick(t) \in t
    BY <1>6, PickIsMember
  <2>2. g[t \ {Pick(t)}] = h[t \ {Pick(t)}]
    BY <1>3, <1>4, <2>1
  <2> QED
    BY <1>3, <1>4, <1>6, <2>2
<1> QED
  BY <1>5, <1>6

\* ... the solution for a set is one for its subsets, restricted to them ...
LEMMA SumRestricts ==
  ASSUME NEW S, NEW T \in SUBSET S, NEW g, IsSum(g, S)
  PROVE  IsSum([s \in SUBSET T |-> g[s]], T)
<1> DEFINE h == [s \in SUBSET T |-> g[s]]
<1>1. ASSUME NEW s \in SUBSET T
      PROVE  h[s] = IF s = {} THEN 0 ELSE NameLen[Pick(s)] + h[s \ {Pick(s)}]
  <2>1. s \in SUBSET S /\ s \ {Pick(s)} \in SUBSET T /\ h[s] = g[s] /\ h[s \ {Pick(s)}] = g[s \ {Pick(s)}]
    OBVIOUS
  <2>2. g[s] = IF s = {} THEN 0 ELSE NameLen[Pick(s)] + g[s \ {Pick(s)}]
    BY <2>1 DEF IsSum
  <2> QED
    BY <2>1, <2>2
<1>2. h = [s \in SUBSET T |-> h[s]]
  OBVIOUS
<1> HIDE DEF h
<1>3. h = [s \in SUBSET T |-> IF s = {} THEN 0 ELSE NameLen[Pick(s)] + h[s \ {Pick(s)}]]
  BY <1>1, <1>2
<1> QED
  BY <1>3 DEF IsSum, h

\* ... and there is one for every finite set.
LEMMA SumExists ==
  ASSUME NEW S, IsFiniteSet(S)
  PROVE  \E g : IsSum(g, S)
<1> DEFINE B == {t \in SUBSET S : ~\E g : IsSum(g, t)}
<1>1. SUFFICES ASSUME ~\E g : IsSum(g, S) PROVE FALSE
  OBVIOUS
<1>2. B # {} /\ B \in SUBSET (SUBSET S)
  BY <1>1
<1>3. PICK t \in B : IsFiniteSet(t) /\ \A x \in t : t \ {x} \notin B
  BY <1>2, MinimalSet
<1>4. t \in SUBSET S /\ ~\E g : IsSum(g, t)
  OBVIOUS
<1>5. \A x \in t : \E g : IsSum(g, t \ {x})
  BY <1>3, <1>4
<1> HIDE DEF B
<1> DEFINE G(u) == CHOOSE g : IsSum(g, u)
           v == IF t = {} THEN 0 ELSE NameLen[Pick(t)] + G(t \ {Pick(t)})[t \ {Pick(t)}]
           h == [s \in SUBSET t |-> IF s = t THEN v ELSE G(s)[s]]
<1>6. ASSUME NEW s \in SUBSET t, s # t PROVE IsFiniteSet(s) /\ IsSum(G(s), s)
  <2>1. PICK x \in t : x \notin s
    BY <1>6
  <2>2. s \in SUBSET (t \ {x})
    BY <2>1
  <2>3. PICK g : IsSum(g, t \ {x})
    BY <1>5
  <2>4. IsSum([r \in SUBSET s |-> g[r]], s)
    BY <2>2, <2>3, SumRestricts
  <2>5. IsFiniteSet(s)
    BY <1>3, FS_Subset
  <2> QED
    BY <2>4, <2>5
<1> HIDE DEF G
<1>7. ASSUME NEW s \in SUBSET t, s # t, s # {}
      PROVE  G(s)[s] = NameLen[Pick(s)] + G(s \ {Pick(s)})[s \ {Pick(s)}]
  <2> DEFINE r == s \ {Pick(s)}
  <2>1. r \in SUBSET s /\ r \in SUBSET t /\ r # t /\ s \in SUBSET s
    BY <1>7
  <2>2. G(s)[s] = NameLen[Pick(s)] + G(s)[r]
    BY <1>6, <1>7, <2>1 DEF IsSum
  <2>3. IsSum([q \in SUBSET r |-> G(s)[q]], r)
    BY <1>6, <1>7, <2>1, SumRestricts
  <2>4. IsFiniteSet(r) /\ IsSum(G(r), r) /\ r \in SUBSET r
    BY <1>6, <2>1
  <2>5. [q \in SUBSET r |-> G(s)[q]][r] = G(r)[r]
    BY <2>3, <2>4, SumUnique
  <2>6. G(s)[r] = G(r)[r]
    BY <2>4, <2>5
  <2> QED
    BY <2>2, <2>6
<1>8. ASSUME NEW s \in SUBSET t
      PROVE  h[s] = IF s = {} THEN 0 ELSE NameLen[Pick(s)] + h[s \ {Pick(s)}]
  <2>1. h[s] = IF s = t THEN v ELSE G(s)[s]
    OBVIOUS
  <2>2. CASE s = {}
    <3>1. s # t => G(s)[s] = 0
      BY <1>6, <2>2 DEF IsSum
    <3> QED
      BY <2>1, <2>2, <3>1
  <2>3. CASE s # {}
    <3>1. Pick(s) \in s
      BY <2>3, PickIsMember
    <3>2. s \ {Pick(s)} \in SUBSET t /\ s \ {Pick(s)} # t
      BY <3>1
    <3>3. h[s \ {Pick(s)}] = G(s \ {Pick(s)})[s \ {Pick(s)}]
      BY <3>2
    <3>4. CASE s = t
      BY <2>1, <2>3, <3>3, <3>4
    <3>5. CASE s # t
      BY <1>7, <2>1, <2>3, <3>3, <3>5
    <3> QED
      BY <3>4, <3>5
  <2> QED
    BY <2>2, <2>3
<1>9. h = [s \in SUBSET t |-> h[s]]
  OBVIOUS
<1> HIDE DEF h
<1>10. h = [s \in SUBSET t |-> IF s = {} THEN 0 ELSE NameLen[Pick(s)] + h[s \ {Pick(s)}]]
  BY <1>8, <1>9
<1> QED
  BY <1>4, <1>10 DEF IsSum


\* The recursion, for the length of a list itself.
LEMMA ListLenRecurs ==
  ASSUME NEW S, IsFiniteSet(S)
  PROVE  ListLen(S) = IF S = {} THEN 0 ELSE NameLen[Pick(S)] + ListLen(S \ {Pick(S)})
<1> DEFINE G(u) == CHOOSE g : IsSum(g, u)
           r == S \ {Pick(S)}
<1>1. \A u : IsFiniteSet(u) => IsSum(G(u), u)
  BY SumExists
<1>2. ListLen(S) = G(S)[S] /\ ListLen(r) = G(r)[r]
  BY ListLenIsSum
<1> HIDE DEF G
<1>3. S \in SUBSET S /\ r \in SUBSET S /\ r \in SUBSET r /\ IsFiniteSet(r)
  BY FS_Subset
<1>4. G(S)[S] = IF S = {} THEN 0 ELSE NameLen[Pick(S)] + G(S)[r]
  BY <1>1, <1>3 DEF IsSum
<1>5. IsSum([q \in SUBSET r |-> G(S)[q]], r)
  BY <1>1, <1>3, SumRestricts
<1>6. [q \in SUBSET r |-> G(S)[q]][r] = G(r)[r]
  BY <1>1, <1>3, <1>5, SumUnique
<1>7. G(S)[r] = G(r)[r]
  BY <1>3, <1>6
<1> QED
  BY <1>2, <1>4, <1>7

LEMMA ListLenIsNat ==
  ASSUME NEW S \in SUBSET Names
  PROVE  ListLen(S) \in Nat
<1> DEFINE B == {s \in SUBSET Names : ListLen(s) \notin Nat}
<1>1. SUFFICES ASSUME ListLen(S) \notin Nat PROVE FALSE
  OBVIOUS
<1>2. B # {} /\ B \in SUBSET (SUBSET Names)
  BY <1>1
<1>3. PICK s \in B : IsFiniteSet(s) /\ \A x \in s : s \ {x} \notin B
  BY <1>2, MinimalSet, XAttrAssumption
<1>4. s \in SUBSET Names /\ ListLen(s) \notin Nat
  OBVIOUS
<1>5. ListLen(s) = IF s = {} THEN 0 ELSE NameLen[Pick(s)] + ListLen(s \ {Pick(s)})
  BY <1>3, ListLenRecurs
<1>6. s # {}
  BY <1>4, <1>5
<1>7. Pick(s) \in s
  BY <1>6, PickIsMember
<1>8. ListLen(s \ {Pick(s)}) \in Nat
  BY <1>3, <1>4, <1>7
<1>9. NameLen[Pick(s)] \in Nat
  BY <1>4, <1>7, XAttrAssumption
<1> QED
  BY <1>4, <1>5, <1>6, <1>8, <1>9

\* The order in which the names are added up does not matter.
LEMMA ListLenRemove ==
  ASSUME NEW S \in SUBSET Names, NEW x \in S
  PROVE  ListLen(S) = NameLen[x] + ListLen(S \ {x})
<1> DEFINE Good(s) == \A y \in s : ListLen(s) = NameLen[y] + ListLen(s \ {y})
           B == {s \in SUBSET Names : ~Good(s)}
<1>1. SUFFICES ASSUME ~Good(S) PROVE FALSE
  OBVIOUS
<1>2. B # {} /\ B \in SUBSET (SUBSET Names)
  BY <1>1
<1>3. PICK s \in B : IsFiniteSet(s) /\ \A y \in s : s \ {y} \notin B
  BY <1>2, MinimalSet, XAttrAssumption
<1>4. s \in SUBSET Names /\ ~Good(s)
  OBVIOUS
<1>5. \A y \in s : Good(s \ {y})
  BY <1>3, <1>4
<1>6. PICK y \in s : ListLen(s) # NameLen[y] + ListLen(s \ {y})
  BY <1>4
<1> HIDE DEF B
<1> DEFINE p == Pick(s)
<1>7. p \in s
  BY PickIsMember
<1>8. ListLen(s) = NameLen[p] + ListLen(s \ {p})
  BY <1>3, <1>7, ListLenRecurs
<1> HIDE DEF p
<1>9. y # p
  BY <1>6, <1>8
<1>10. y \in s \ {p} /\ p \in s \ {y}
  BY <1>7, <1>9
<1>11. ListLen(s \ {p}) = NameLen[y] + ListLen((s \ {p}) \ {y})
  BY <1>5, <1>7, <1>10
<1>12. ListLen(s \ {y}) = NameLen[p] + ListLen((s \ {y}) \ {p})
  BY <1>5, <1>10
<1>13. (s \ {p}) \ {y} = (s \ {y}) \ {p}
  OBVIOUS
<1>14. NameLen[p] \in Nat /\ NameLen[y] \in Nat /\ ListLen((s \ {y}) \ {p}) \in Nat
  BY <1>4, <1>7, XAttrAssumption, ListLenIsNat
<1>15. \A a, b, c \in Nat : a + (b + c) = b + (a + c)
  OBVIOUS
<1>16. ListLen(s) = NameLen[p] + (NameLen[y] + ListLen((s \ {y}) \ {p}))
  BY <1>8, <1>11, <1>13
<1>17. ListLen(s) = NameLen[y] + (NameLen[p] + ListLen((s \ {y}) \ {p}))
  BY <1>14, <1>15, <1>16
<1> QED
  BY <1>6, <1>12, <1>17

\* Some of the names take no more room than all of them.
LEMMA ListLenBound ==
  ASSUME NEW S \in SUBSET Names
  PROVE  ListLen(S) \in 0..ListLen(Names)
<1> DEFINE B == {s \in SUBSET Names : ~(ListLen(Names \ s) <= ListLen(Names))}
<1>1. SUFFICES ListLen(S) <= ListLen(Names)
  BY ListLenIsNat
<1>2. SUFFICES ASSUME ~(ListLen(S) <= ListLen(Names)) PROVE FALSE
  OBVIOUS
<1>3. Names \ (Names \ S) = S
  OBVIOUS
<1>4. B # {} /\ B \in SUBSET (SUBSET Names)
  BY <1>2, <1>3
<1> HIDE DEF B
<1>5. PICK s \in B : \A y \in s : s \ {y} \notin B
  BY <1>4, MinimalSet, XAttrAssumption
<1> USE DEF B
<1>6. s \in SUBSET Names /\ ~(ListLen(Names \ s) <= ListLen(Names))
  OBVIOUS
<1>7. CASE s = {}
  <2>1. Names \ s = Names /\ ListLen(Names) \in Nat
    BY <1>7, ListLenIsNat
  <2> QED
    BY <1>6, <2>1
<1>8. CASE s # {}
  <2>1. PICK y \in s : TRUE
    BY <1>8
  <2> DEFINE T == Names \ (s \ {y})
  <2>2. T \in SUBSET Names /\ y \in T /\ T \ {y} = Names \ s
    BY <1>6
  <2>3. ListLen(T) <= ListLen(Names)
    BY <1>5, <1>6
  <2> HIDE DEF T
  <2>4. ListLen(T) = NameLen[y] + ListLen(Names \ s)
    BY <2>2, ListLenRemove
  <2>5. /\ NameLen[y] \in Nat /\ ListLen(Names \ s) \in Nat
        /\ ListLen(T) \in Nat /\ ListLen(Names) \in Nat
    BY <1>6, <2>2, ListLenIsNat, XAttrAssumption
  <2> QED
    BY <1>6, <2>3, <2>4, <2>5
<1> QED
  BY <1>7, <1>8

-----------------------------------------------------------------------------
(***************************************************************************)
(* The types of XAttr.                                                     *)
(***************************************************************************)
\* What lengths there are: none is longer than the list of all the names.
LEMMA LengthsAre ==
  /\ 0 \in Lengths /\ Lengths \subseteq Nat
  /\ \A S \in SUBSET Names : ListLen(S) \in Lengths
<1>1. Lengths = Values \cup Sizes \cup 0..ListLen(Names)
  BY DEF Lengths, ListLen
<1>2. ListLen(Names) \in Nat
  BY ListLenIsNat
<1>3. \A S \in SUBSET Names : ListLen(S) \in 0..ListLen(Names)
  BY ListLenBound
<1>4. 0 \in 0..ListLen(Names) /\ 0..ListLen(Names) \subseteq Nat
  BY <1>2
<1>5. 0 \in Lengths /\ \A S \in SUBSET Names : ListLen(S) \in Lengths
  BY <1>1, <1>3, <1>4
<1>6. Lengths \subseteq Nat
  BY <1>1, <1>4, XAttrAssumption
<1> QED
  BY <1>5, <1>6

LEMMA LengthOfIsLength ==
  ASSUME NEW x \in [Names -> Values \cup {NULL}], NEW n \in Names \cup {"list"}
  PROVE  LengthOf(x, n) \in Lengths \cup {NULL}
<1>1. CASE n = "list"
  <2>1. LengthOf(x, n) = ListLen({m \in Names : x[m] # NULL})
    BY <1>1 DEF LengthOf, ListLen
  <2> QED
    BY <2>1, LengthsAre
<1>2. CASE n # "list"
  BY <1>2 DEF LengthOf, Lengths
<1> QED
  BY <1>1, <1>2

LEMMA RecordsAreAnswers ==
  ASSUME NEW e \in Nat, NEW n \in Lengths
  PROVE  Err(e) \in [errno : Nat, len : Lengths] /\ Length(n) \in [errno : Nat, len : Lengths]
  BY LengthsAre DEF Err, Length

\* The kernel is told what has the type of an answer.
LEMMA ToldTypes ==
  ASSUME TypeOK, NEW a \in [errno : Nat, len : Lengths], Told(a)
  PROVE  /\ pc' \in {"loop", "call", "reply"} /\ buf' \in Lengths
         /\ answer' \in [errno : Nat, len : Lengths] \cup {NULL}
         /\ disabled' \subseteq Ops
         /\ aborted' \in BOOLEAN /\ op' \in Ops /\ name' \in Names \cup {"list"} /\ size' \in Lengths
  BY LengthsAre DEF TypeOK, Told, reqVars

LEMMA XAttrTypeStep == TypeOK /\ XAttrInv /\ [Next]_vars => TypeOK'
<1> SUFFICES ASSUME TypeOK, XAttrInv, [Next]_vars PROVE TypeOK'
  OBVIOUS
<1> DEFINE Answers == [errno : Nat, len : Lengths]
<1>1. ASSUME NEW o \in Ops, NEW n \in Names \cup {"list"}, NEW s \in Sizes \cup Values, Receive(o, n, s)
      PROVE  TypeOK'
  <2>1. s \in Lengths
    BY DEF Lengths
  <2>2. LengthOf(xattrs, n) \in Lengths \cup {NULL}
    BY LengthOfIsLength DEF TypeOK
  <2> QED
    BY <1>1, <2>1, <2>2 DEF Receive, TypeOK
<1>2. ASSUME NEW e \in Errnos, CallFails(e)
      PROVE  TypeOK'
  <2>1. e \in Nat \ {0}
    BY XAttrAssumption
  <2>2. ReplyFailure[e] = IF Survives(e) THEN e ELSE StatusCodeToErrno(CodeOf(e))
    BY <2>1, ReplyOfErrno DEF ReplyFailure
  <2>3. ReplyFailure[e] \in Nat
    BY <2>1, <2>2, ErrnoForCode
  <2>4. Err(ReplyFailure[e]) \in Answers
    BY <2>3, LengthsAre, RecordsAreAnswers
  <2>5. Told(Err(ReplyFailure[e])) /\ xattrs' = xattrs /\ errnum' = e /\ had' \in {had, {}}
    BY <1>2 DEF CallFails
  <2> QED
    BY <2>4, <2>5, ToldTypes DEF TypeOK
<1>3. There \in Lengths \cup {NULL}
  BY LengthOfIsLength DEF There, TypeOK
<1>4. ASSUME Holds(There), There # NULL, UNCHANGED errnum
      PROVE  TypeOK'
  BY <1>3, <1>4 DEF Holds, TypeOK, reqVars
<1>5. CASE GetXAttr
  <2>1. There # NULL /\ UNCHANGED errnum /\ (Holds(There) \/ Abort)
    BY <1>5 DEF GetXAttr, Succeeds, Readers
  <2>2. CASE Abort
    BY <2>1, <2>2 DEF Abort, TypeOK, reqVars
  <2> QED
    BY <1>4, <2>1, <2>2
<1>6. CASE ListXAttr
  BY <1>4, <1>6 DEF ListXAttr, Succeeds, Readers
<1>7. CASE ReplyBuf
  <2>1. Taken \in Answers
    BY Numbers, LengthsAre, RecordsAreAnswers DEF Taken, TypeOK
  <2>2. Told(Taken) /\ UNCHANGED <<xattrs, errnum, had>>
    BY <1>7 DEF ReplyBuf
  <2> QED
    BY <2>1, <2>2, ToldTypes DEF TypeOK
<1>8. Length(0) \in Answers
  BY LengthsAre, RecordsAreAnswers
<1>9. CASE SetXAttr
  <2>1. size \in Values
    BY <1>9 DEF SetXAttr, Succeeds, XAttrInv, ShapeInv
  <2>2. /\ xattrs' = [xattrs EXCEPT ![name] = size]
        /\ Told(Length(0)) /\ UNCHANGED <<errnum, had>>
    BY <1>9 DEF SetXAttr, Succeeds
  <2>3. xattrs' \in [Names -> Values \cup {NULL}]
    BY <2>1, <2>2 DEF TypeOK
  <2> QED
    BY <1>8, <2>2, <2>3, ToldTypes DEF TypeOK
<1>10. CASE RemoveXAttr
  <2>1. /\ xattrs' = [xattrs EXCEPT ![name] = NULL]
        /\ Told(Length(0)) /\ UNCHANGED <<errnum, had>>
    BY <1>10 DEF RemoveXAttr, Succeeds
  <2>2. xattrs' \in [Names -> Values \cup {NULL}]
    BY <2>1 DEF TypeOK
  <2> QED
    BY <1>8, <2>1, <2>2, ToldTypes DEF TypeOK
<1>11. ASSUME NEW n \in Names, NEW v \in Values \cup {NULL}, OthersChange(n, v)
       PROVE  TypeOK'
  <2>1. xattrs' \in [Names -> Values \cup {NULL}]
    BY <1>11 DEF OthersChange, TypeOK
  <2>2. LengthOf(xattrs', name) \in Lengths \cup {NULL}
    BY <2>1, LengthOfIsLength DEF TypeOK
  <2> QED
    BY <1>11, <2>1, <2>2 DEF OthersChange, TypeOK, reqVars
<1>12. CASE UNCHANGED vars
  BY <1>12 DEF vars, reqVars, TypeOK
<1> QED
  BY <1>1, <1>2, <1>5, <1>6, <1>7, <1>9, <1>10, <1>11, <1>12 DEF Next

(***************************************************************************)
(* Types of the state: what getxattr and listxattr hand to ReplyBuf is     *)
(* never longer than a value, a buffer or the list of all the names        *)
(* (page_align_fs.cc, GetXAttr and ListXAttr), and the kernel is told a    *)
(* number whatever becomes of an errno (fuse.cc, ReplyFailure).            *)
(***************************************************************************)
THEOREM XAttrTypeCorrect == Spec => []TypeOK
<1>1. Init => TypeOK
  BY LengthsAre DEF Init, TypeOK, Ops, Readers
<1>2. Spec => []XAttrInv
  BY XAttrInvHolds
<1>3. TypeOK /\ XAttrInv /\ [Next]_vars => TypeOK'
  BY XAttrTypeStep
<1> QED
  BY <1>1, <1>2, <1>3, PTL DEF Spec
=============================================================================
