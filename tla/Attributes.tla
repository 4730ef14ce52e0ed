---------------------------- MODULE Attributes -----------------------------
(***************************************************************************)
(* Attributes of a file: GetAttr, SetAttr, ReplyWithAttrs and              *)
(* CreateFuseEntryParam of page_align_fs.cc, and what the kernel keeps of  *)
(* their replies.                                                          *)
(*                                                                         *)
(* SetAttr makes up to four system calls, each of which may fail, and      *)
(* replies with the attributes it then reads.  The kernel uses attributes  *)
(* it was told for as long as the reply allows: for                        *)
(* --kernel_attribute_timeout, or --kernel_entry_timeout by mistake.       *)
(* Others change the source directory behind the back of the mount.        *)
(*                                                                         *)
(* The kernel holds the lock of an inode while it changes its attributes:  *)
(* there is one request about them at a time.  It sends SetAttr with the   *)
(* handle of an open file (without one the wrapper ends the process, see   *)
(* FuseRequest), and the handle is never 0 (see Handles), so that SetAttr  *)
(* does not open the file itself.                                          *)
(***************************************************************************)
EXTENDS Naturals, FiniteSetsExt

CONSTANTS
  Fields,        \* the attributes there are, among those of Steps
  AttrTimeout,   \* Options::kernel_attribute_timeout
  EntryTimeout,  \* Options::kernel_entry_timeout
  MaxTime,       \* bound: the clock
  MaxOutside,    \* bound: changes by others
  NULL           \* nothing cached

\* The values a field may have; "now" is the time of a change.
Values == {"old", "new", "now"}

ASSUME AttributesAssumption ==
  /\ Fields \subseteq {"mode", "uid", "gid", "size", "atime", "mtime"}
  /\ AttrTimeout \in Nat
  /\ EntryTimeout \in Nat
  /\ MaxTime \in Nat
  /\ MaxOutside \in Nat

VARIABLES
  clock,
  file,      \* the attributes of the source file
  outside,   \* changes by others so far
  cached,    \* kernel: the attributes it was told, NULL if it has none
  cachedAt,  \* ... when it was told
  expires,   \* ... and from when on it may no longer use them
  pc,        \* handler: "idle", "apply", "stat" or "reply"
  op,        \* handler: "Lookup", "GetAttr" or "SetAttr"
  step,      \* SetAttr: its next system call, 5 after the last
  toSet,     \* SetAttr: the fields to set
  now,       \* SetAttr: those of them to be set to the current time
  got,       \* the attributes the handler has read
  before,    \* history: the attributes when the request began
  touched,   \* history: fields others changed since
  behind     \* history: fields that changed without the kernel being told

fileVars == <<clock, file, outside>>
kernelVars == <<cached, cachedAt, expires>>
reqVars == <<pc, op, step, toSet, now, got, before>>
vars == <<fileVars, kernelVars, reqVars, touched, behind>>

Attrs == [Fields -> Values]

(***************************************************************************)
(* Types of the state.                                                     *)
(***************************************************************************)
TypeOK ==
  /\ clock \in 0..MaxTime
  /\ file \in Attrs
  /\ outside \in 0..MaxOutside
  /\ cached \in Attrs \cup {NULL}
  /\ cachedAt \in 0..MaxTime
  /\ expires \in Nat
  /\ pc \in {"idle", "apply", "stat", "reply"}
  /\ op \in {"Lookup", "GetAttr", "SetAttr"}
  /\ step \in 1..5
  /\ toSet \subseteq Fields
  /\ now \subseteq toSet \cap {"atime", "mtime"}
  /\ got \in Attrs
  /\ before \in Attrs
  /\ touched \subseteq Fields
  /\ behind \subseteq Fields

Init ==
  /\ clock = 0
  /\ file = [x \in Fields |-> "old"]
  /\ outside = 0
  /\ cached = NULL
  /\ cachedAt = 0
  /\ expires = 0
  /\ pc = "idle"
  /\ op = "GetAttr"
  /\ step = 5
  /\ toSet = {}
  /\ now = {}
  /\ got = file
  /\ before = file
  /\ touched = {}
  /\ behind = {}
-----------------------------------------------------------------------------
Tick ==
  /\ clock < MaxTime
  /\ clock' = clock + 1
  /\ UNCHANGED <<file, outside, kernelVars, reqVars, touched, behind>>

\* A change of the fields S that the kernel is not told of.
Unseen(S) == IF cached = NULL THEN {} ELSE behind \cup S

\* Others change an attribute.
OutsideChange(x, v) ==
  /\ outside < MaxOutside
  /\ file[x] # v
  /\ outside' = outside + 1
  /\ file' = [file EXCEPT ![x] = v]
  /\ touched' = touched \cup {x}
  /\ behind' = Unseen({x})
  /\ UNCHANGED <<clock, kernelVars, reqVars>>

\* The request is over and its arguments are gone.
Finish ==
  /\ pc' = "idle"
  /\ op' = "GetAttr"
  /\ step' = 5
  /\ toSet' = {}
  /\ now' = {}
  /\ got' = [x \in Fields |-> "old"]
  /\ before' = [x \in Fields |-> "old"]
  /\ touched' = {}

(***************************************************************************)
(* SetAttr: fchmod, fchownat, ftruncate and futimens, in this order, each  *)
(* for the fields it is about that are to be set.  A uid or gid that is    *)
(* not to be set is -1, a time UTIME_OMIT: the call leaves it alone.  A    *)
(* file that is truncated gets a new modification time.                    *)
(***************************************************************************)
StepsTimesFirst == <<{"mode"}, {"atime", "mtime"}, {"uid", "gid"}, {"size"}>>

Steps == <<{"mode"}, {"uid", "gid"}, {"size"}, {"atime", "mtime"}>>

\* The first call from the k-th on that has something to set.
FirstCall(k, S) == Min({j \in k..4 : Steps[j] \cap S # {}} \cup {5})

Begin(o, p) ==
  /\ pc = "idle"
  /\ op' = o
  /\ pc' = p
  /\ before' = file
  /\ touched' = {}
  /\ UNCHANGED <<fileVars, kernelVars, got, behind>>

BeginLookup == Begin("Lookup", "stat") /\ UNCHANGED <<step, toSet, now>>

BeginGetAttr == Begin("GetAttr", "stat") /\ UNCHANGED <<step, toSet, now>>

\* The kernel sets the _NOW bit of a time only together with the bit of the
\* time itself.
BeginSetAttr(S, T) ==
  /\ S # {}
  /\ T \subseteq S \cap {"atime", "mtime"}
  /\ Begin("SetAttr", "apply")
  /\ toSet' = S
  /\ step' = FirstCall(1, S)
  /\ now' = T
-----------------------------------------------------------------------------
Target(x) == IF x \in now THEN "now" ELSE "new"

\* The attributes after the k-th call.
AfterCall(k) ==
  [x \in Fields |->
     IF x \in Steps[k] \cap toSet THEN Target(x)
     ELSE IF x = "mtime" /\ Steps[k] = {"size"} THEN "now"
     ELSE file[x]]

Apply ==
  /\ pc = "apply"
  /\ file' = AfterCall(step)
  /\ step' = FirstCall(step + 1, toSet)
  /\ pc' = IF step' = 5 THEN "stat" ELSE "apply"
  /\ UNCHANGED <<clock, outside, kernelVars, op, toSet, now, got, before, touched, behind>>

\* A call fails, or the Stat, or the reply cannot be sent: the kernel is told
\* an error or nothing, and keeps the attributes it has.
Fail ==
  /\ pc # "idle"
  /\ behind' = Unseen({x \in Fields : file[x] # before[x]})
  /\ Finish
  /\ UNCHANGED <<fileVars, kernelVars>>

\* Inode::Stat, in ReplyWithAttrs and CreateFuseEntryParam.
Stat ==
  /\ pc = "stat"
  /\ got' = file
  /\ pc' = "reply"
  /\ UNCHANGED <<fileVars, kernelVars, op, step, toSet, now, before, touched, behind>>

\* The kernel takes attributes that it may use for the time d.  A time of 0
\* means that it asks again every time.
TakeAttrs(d) ==
  /\ cached' = IF d = 0 THEN NULL ELSE got
  /\ cachedAt' = IF d = 0 THEN 0 ELSE clock
  /\ expires' = IF d = 0 THEN 0 ELSE clock + d
  /\ behind' = {x \in Fields : d > 0 /\ got[x] # file[x]}

(***************************************************************************)
(* ReplyWithAttrs, for GetAttr and SetAttr: FuseRequest::ReplyAttr takes   *)
(* the time for which attributes are valid, and is given the time for      *)
(* which names are.                                                        *)
(***************************************************************************)
ReplyWithStaleAttrs ==
  /\ pc = "reply"
  /\ op # "Lookup"
  /\ cached' = before
  /\ cachedAt' = clock
  /\ expires' = clock + EntryTimeout
  /\ behind' = {x \in Fields : got[x] # file[x]}
  /\ Finish
  /\ UNCHANGED fileVars

ReplyWithAttrs ==
  /\ pc = "reply"
  /\ op # "Lookup"
  /\ TakeAttrs(EntryTimeout)
  /\ Finish
  /\ UNCHANGED fileVars

\* ReplyEntry with the parameters of CreateFuseEntryParam.
ReplyWithLookup ==
  /\ pc = "reply"
  /\ op = "Lookup"
  /\ TakeAttrs(AttrTimeout)
  /\ Finish
  /\ UNCHANGED fileVars

\* The kernel drops what it may no longer use.
Expire ==
  /\ cached # NULL
  /\ clock >= expires
  /\ cached' = NULL
  /\ cachedAt' = 0
  /\ expires' = 0
  /\ behind' = {}
  /\ UNCHANGED <<fileVars, reqVars, touched>>

Next ==
  \/ Tick
  \/ \E x \in Fields, v \in {"old", "new"} : OutsideChange(x, v)
  \/ BeginLookup \/ BeginGetAttr
  \/ \E S \in SUBSET Fields : \E T \in SUBSET S : BeginSetAttr(S, T)
  \/ Apply \/ Fail \/ Stat
  \/ ReplyWithAttrs \/ ReplyWithLookup \/ Expire

Spec == Init /\ [][Next]_vars
-----------------------------------------------------------------------------
(***************************************************************************)
(* When SetAttr replies with attributes, they are what was asked for:      *)
(* every field to be set has its new value, the others are as they were    *)
(* and neither undoes the other (truncating a file changes its             *)
(* modification time, which may be one of the fields to be set).  Fields   *)
(* that others changed meanwhile are not counted.                          *)
(***************************************************************************)
SetAttrSetsWhatWasAsked ==
  pc = "reply" /\ op = "SetAttr" =>
    \A x \in Fields \ touched :
      IF x \in toSet THEN got[x] = Target(x)
      ELSE got[x] = before[x] \/ (x = "mtime" /\ "size" \in toSet)

InUse == cached # NULL /\ clock < expires

(***************************************************************************)
(* Between requests, attributes that the kernel may use are those of the   *)
(* file, but for fields that others changed, and fields that a SetAttr     *)
(* changed before it failed: an error leaves the kernel with the old ones. *)
(***************************************************************************)
CachedIsCurrent ==
  InUse /\ pc = "idle" => \A x \in Fields \ behind : cached[x] = file[x]

(***************************************************************************)
(* --kernel_attribute_timeout: "How long the kernel can cache inode        *)
(* attributes." (main.cc:31).  The kernel uses attributes for less than    *)
(* that time after it was told them.  (It is violated when names are valid *)
(* for longer: ReplyWithAttrs passes on the time of names.)                *)
(***************************************************************************)
AttributesExpire == InUse => clock - cachedAt < AttrTimeout
=============================================================================
