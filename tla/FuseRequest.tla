---------------------------- MODULE FuseRequest ----------------------------
(***************************************************************************)
(* class FuseRequest (fuse.cc) and the callback wrappers of fuse_ops.h:    *)
(* who answers a request of the kernel, and with what.                     *)
(*                                                                         *)
(* libfuse allocates a fuse_req_t for each request it reads and frees it   *)
(* in every fuse_reply_* call, sent or not.  The wrapper puts it into a    *)
(* FuseRequest, whose req_ is emptied by the first reply.  The handler may *)
(* reply; then the wrapper replies, in one of three ways that depend on    *)
(* the operation; then the destructor replies if req_ is still not empty.  *)
(* A cell stands for the memory of a fuse_req_t, which is used again for   *)
(* other requests once it has been freed.                                  *)
(*                                                                         *)
(* What a handler does to inodes is the subject of PageAlignFS; here it    *)
(* fails or succeeds, and replies if the code does.                        *)
(***************************************************************************)
EXTENDS Naturals, FiniteSets

CONSTANTS
  Threads,  \* the threads of the session loop
  Reqs,     \* the requests that user processes can wait for at a time
  Cells,    \* addresses of fuse_req_t objects
  Ops,      \* the operations that are asked for
  NULL      \* no request, no cell

(***************************************************************************)
(* What the wrapper of an operation does with the status that the handler  *)
(* returns: "failure" is ReplyFailureAndLogIfNotOk, "always" is            *)
(* ReplyAlwaysAndLogIfNotOk, "none" is ReplyNone.  SetAttrByPath is the    *)
(* SetAttr that the kernel sends for a file that is not open (chmod,       *)
(* truncate, utimensat by name), for which libfuse passes no file info.    *)
(***************************************************************************)
NameWrappersNoUnlink ==
  [Lookup |-> "failure", Forget |-> "none", GetAttr |-> "failure",
   SetAttr |-> "failure", SetAttrByPath |-> "failure", ReadLink |-> "failure",
   Mknod |-> "failure", Mkdir |-> "failure", Unlink |-> "failure",
   Rmdir |-> "always", Symlink |-> "failure", Rename |-> "always",
   Link |-> "failure"]

NameWrappers ==
  [Lookup |-> "failure", Forget |-> "none", GetAttr |-> "failure",
   SetAttr |-> "failure", SetAttrByPath |-> "failure", ReadLink |-> "failure",
   Mknod |-> "failure", Mkdir |-> "failure", Unlink |-> "always",
   Rmdir |-> "always", Symlink |-> "failure", Rename |-> "always",
   Link |-> "failure"]

FileWrappers ==
  [Open |-> "failure", Read |-> "always", Flush |-> "always",
   Release |-> "always", FSync |-> "always", OpenDir |-> "failure",
   ReadDir |-> "always", ReleaseDir |-> "always", FSyncDir |-> "always"]

AttrWrappers ==
  [StatFS |-> "failure", SetXAttr |-> "always", GetXAttr |-> "failure",
   ListXAttr |-> "failure", RemoveXAttr |-> "always", Access |-> "always",
   Create |-> "failure", GetLk |-> "failure", SetLk |-> "failure",
   Poll |-> "failure"]

DataWrappersNoReply ==
  [WriteBuf |-> "none", ForgetMulti |-> "none", FLock |-> "none",
   FAllocate |-> "always", ReadDirPlus |-> "always",
   CopyFileRange |-> "failure", LSeek |-> "failure"]

DataWrappers ==
  [WriteBuf |-> "none", ForgetMulti |-> "none", FLock |-> "always",
   FAllocate |-> "always", ReadDirPlus |-> "always",
   CopyFileRange |-> "failure", LSeek |-> "failure"]

\* The table of AsFuseLowLevelOps, for the operations that PageAlignFS has.
AllOps == DOMAIN NameWrappers \cup DOMAIN FileWrappers
            \cup DOMAIN AttrWrappers \cup DOMAIN DataWrappers

Discipline(o) ==
  IF o \in DOMAIN NameWrappers THEN NameWrappers[o]
  ELSE IF o \in DOMAIN FileWrappers THEN FileWrappers[o]
  ELSE IF o \in DOMAIN AttrWrappers THEN AttrWrappers[o]
  ELSE DataWrappers[o]

(***************************************************************************)
(* The reply that a handler sends when it has done what it was asked to;   *)
(* "no" if it returns OkStatus without one.                                *)
(***************************************************************************)
NameHandlers ==
  [Lookup |-> "entry", Forget |-> "no", GetAttr |-> "attr",
   SetAttr |-> "attr", SetAttrByPath |-> "attr", ReadLink |-> "readlink",
   OpenDir |-> "open", ReleaseDir |-> "no"]

DirHandlers ==
  [ReadDir |-> "buf", ReadDirPlus |-> "buf", ForgetMulti |-> "no",
   Mknod |-> "entry", Mkdir |-> "entry", Unlink |-> "no", Rmdir |-> "no",
   Symlink |-> "entry", Rename |-> "no", Link |-> "entry"]

FileHandlers ==
  [Open |-> "open", Release |-> "no", Read |-> "data", WriteBuf |-> "write",
   Flush |-> "no", FSync |-> "no", FSyncDir |-> "no", StatFS |-> "statfs"]

AttrHandlers ==
  [SetXAttr |-> "no", GetXAttr |-> "buf", ListXAttr |-> "buf",
   RemoveXAttr |-> "no", Access |-> "no", Create |-> "create",
   GetLk |-> "lock", SetLk |-> "no", FLock |-> "no", FAllocate |-> "no",
   CopyFileRange |-> "write", LSeek |-> "lseek", Poll |-> "poll"]

HandlerReply(o) ==
  IF o \in DOMAIN NameHandlers THEN NameHandlers[o]
  ELSE IF o \in DOMAIN DirHandlers THEN DirHandlers[o]
  ELSE IF o \in DOMAIN FileHandlers THEN FileHandlers[o]
  ELSE AttrHandlers[o]

\* Operations on the descriptor of an Inode, which Inode::Create opened with
\* O_PATH: the system calls they make fail with EBADF on such a descriptor.
PathOnly == {"GetLk", "SetLk", "FLock", "FAllocate", "CopyFileRange", "LSeek"}

\* Handlers that have no error of their own to return: Read leaves the
\* reading to ReplyData, ReleaseDir deletes the Directory.
CannotFail == {"Read", "ReleaseDir"}

(***************************************************************************)
(* Handlers that open a file of any kind without O_NONBLOCK: to read the   *)
(* generation of what a name stands for (inode.cc:38), and with O_CREAT.   *)
(***************************************************************************)
Opening == {"Lookup", "Mknod", "Mkdir", "Symlink", "Link", "Create", "ReadDirPlus"}

Replies == {"zero", "error", "ECOMM", "gone"}
             \cup {"entry", "attr", "readlink", "open", "buf", "data", "write",
                   "statfs", "create", "lock", "lseek", "poll"}

ASSUME RequestAssumption ==
  /\ Ops \subseteq AllOps
  /\ NULL \notin Cells
  /\ NULL \notin Reqs
  /\ NULL \notin Ops

VARIABLES
  asked,      \* kernel: the operation a request asks for
  phase,      \* kernel: "idle", "queued", "taken" by pafs, or "answered"
  answer,     \* kernel: what the waiting process was told
  connected,  \* kernel: the connection has not been aborted
  holds,      \* libfuse: the request a fuse_req_t is for, NULL if it is free
  misused,    \* a freed fuse_req_t was replied to: undefined behaviour
  aborted,    \* a CHECK failed: the process is gone
  pc,         \* "loop", "handler", "fifo", "wrapper" or "destroy"
  serving,    \* the request whose callback a thread runs
  req_,       \* FuseRequest::req_, NULL for nullopt
  status,     \* the status the handler returned
  outcome     \* whether the operation was done

kernelVars == <<asked, phase, answer, connected>>
vars == <<kernelVars, holds, misused, aborted, pc, serving, req_, status, outcome>>

(***************************************************************************)
(* Types of the state, the kernel's and the wrappers'.                     *)
(***************************************************************************)
TypeOK ==
  /\ asked \in [Reqs -> Ops \cup {NULL}]
  /\ phase \in [Reqs -> {"idle", "queued", "taken", "answered"}]
  /\ answer \in [Reqs -> Replies \cup {NULL}]
  /\ connected \in BOOLEAN
  /\ holds \in [Cells -> Reqs \cup {NULL}]
  /\ misused \in BOOLEAN
  /\ aborted \in BOOLEAN
  /\ pc \in [Threads -> {"loop", "handler", "fifo", "wrapper", "destroy"}]
  /\ serving \in [Threads -> Reqs \cup {NULL}]
  /\ req_ \in [Threads -> Cells \cup {NULL}]
  /\ status \in [Threads -> {"ok", "error"}]
  /\ outcome \in [Reqs -> {"done", "failed"}]

Init ==
  /\ asked = [r \in Reqs |-> NULL]
  /\ phase = [r \in Reqs |-> "idle"]
  /\ answer = [r \in Reqs |-> NULL]
  /\ connected = TRUE
  /\ holds = [c \in Cells |-> NULL]
  /\ misused = FALSE
  /\ aborted = FALSE
  /\ pc = [t \in Threads |-> "loop"]
  /\ serving = [t \in Threads |-> NULL]
  /\ req_ = [t \in Threads |-> NULL]
  /\ status = [t \in Threads |-> "ok"]
  /\ outcome = [r \in Reqs |-> "failed"]
-----------------------------------------------------------------------------
At(t, p) == ~aborted /\ pc[t] = p

Goto(t, p) == pc' = [pc EXCEPT ![t] = p]

InHandler(t) == At(t, "handler") \/ At(t, "fifo")

\* The operation whose callback thread t runs.
Running(t) == asked[serving[t]]

\* Whether a reply that thread t attempts now can be sent.  With req_ empty
\* every Reply method returns OkStatus at once.
Sent(t) == req_[t] = NULL \/ connected

(***************************************************************************)
(* FuseRequest::Reply*: nothing if req_ is empty; otherwise libfuse tells  *)
(* the kernel k, if the connection is still there, frees the fuse_req_t in *)
(* any case, and req_ becomes nullopt.                                     *)
(***************************************************************************)
SendKeepsReq(t, k) ==
  LET c == req_[t] IN
  IF c = NULL
    THEN UNCHANGED <<kernelVars, holds, misused, req_>>
    ELSE /\ holds' = [holds EXCEPT ![c] = NULL]
         /\ misused' = (misused \/ holds[c] = NULL)
         /\ IF holds[c] # NULL /\ connected
              THEN /\ phase' = [phase EXCEPT ![holds[c]] = "answered"]
                   /\ answer' = [answer EXCEPT ![holds[c]] = k]
                   /\ UNCHANGED req_
              ELSE UNCHANGED <<phase, answer, req_>>
         /\ UNCHANGED <<asked, connected>>

Send(t, k) ==
  LET c == req_[t] IN
  IF c = NULL
    THEN UNCHANGED <<kernelVars, holds, misused, req_>>
    ELSE /\ req_' = [req_ EXCEPT ![t] = NULL]
         /\ holds' = [holds EXCEPT ![c] = NULL]
         /\ misused' = (misused \/ holds[c] = NULL)
         /\ IF holds[c] # NULL /\ connected
              THEN /\ phase' = [phase EXCEPT ![holds[c]] = "answered"]
                   /\ answer' = [answer EXCEPT ![holds[c]] = k]
              ELSE UNCHANGED <<phase, answer>>
         /\ UNCHANGED <<asked, connected>>

\* FuseRequest::ReplyNone: the fuse_req_t is freed and the kernel told nothing.
ReplyNone(t) ==
  LET c == req_[t] IN
  IF c = NULL
    THEN UNCHANGED <<kernelVars, holds, misused, req_>>
    ELSE /\ req_' = [req_ EXCEPT ![t] = NULL]
         /\ holds' = [holds EXCEPT ![c] = NULL]
         /\ misused' = (misused \/ holds[c] = NULL)
         /\ UNCHANGED kernelVars
-----------------------------------------------------------------------------
\* A process asks for something.  Nobody waits for the answer to a FORGET.
Ask(r, o) ==
  /\ ~aborted
  /\ connected
  /\ phase[r] = "idle"
  /\ phase' = [phase EXCEPT ![r] = "queued"]
  /\ asked' = [asked EXCEPT ![r] = o]
  /\ UNCHANGED <<answer, connected, holds, misused, aborted, pc, serving, req_, status, outcome>>

\* The process has its answer, and the kernel drops the request.  Numbers of
\* requests are unique: this one is not used again while pafs still has it.
Return(r) ==
  /\ ~aborted
  /\ phase[r] = "answered"
  /\ \A t \in Threads : serving[t] # r
  /\ phase' = [phase EXCEPT ![r] = "idle"]
  /\ asked' = [asked EXCEPT ![r] = NULL]
  /\ answer' = [answer EXCEPT ![r] = NULL]
  /\ outcome' = [outcome EXCEPT ![r] = "failed"]
  /\ UNCHANGED <<connected, holds, misused, aborted, pc, serving, req_, status>>

\* The connection is aborted (forced unmount, fusectl): every process that
\* waits is sent away, and every reply from now on fails.
Disconnect ==
  /\ ~aborted
  /\ connected
  /\ connected' = FALSE
  /\ phase' = [r \in Reqs |-> IF phase[r] = "idle" THEN "idle" ELSE "answered"]
  /\ answer' = [r \in Reqs |-> IF phase[r] \in {"queued", "taken"} THEN "gone" ELSE answer[r]]
  /\ UNCHANGED <<asked, holds, misused, aborted, pc, serving, req_, status, outcome>>

(***************************************************************************)
(* The session loop reads a request and calls its wrapper, which checks    *)
(* its arguments and makes the FuseRequest.  The kernel is done with a     *)
(* FORGET once it has been read.                                           *)
(***************************************************************************)
Take(t, r, c) ==
  /\ At(t, "loop")
  /\ connected
  /\ phase[r] = "queued"
  /\ holds[c] = NULL
  /\ IF asked[r] = "SetAttrByPath"
       THEN /\ aborted' = TRUE  \* CHECK_NE(fi, nullptr)
            /\ UNCHANGED <<pc, serving, req_>>
       ELSE /\ Goto(t, "handler")
            /\ serving' = [serving EXCEPT ![t] = r]
            /\ req_' = [req_ EXCEPT ![t] = c]
            /\ UNCHANGED aborted
  /\ holds' = [holds EXCEPT ![c] = r]
  /\ phase' = [phase EXCEPT ![r] = IF asked[r] \in {"Forget", "ForgetMulti"}
                                     THEN "answered" ELSE "taken"]
  /\ UNCHANGED <<asked, answer, connected, misused, status, outcome>>

\* The handler has come upon a FIFO: its open returns once somebody opens the
\* other end, and with no one to do so never.
OpensFifo(t) ==
  /\ At(t, "handler")
  /\ Running(t) \in Opening
  /\ Goto(t, "fifo")
  /\ UNCHANGED <<kernelVars, holds, misused, aborted, serving, req_, status, outcome>>

(***************************************************************************)
(* The handler fails and returns the error, or does what was asked, sends  *)
(* its reply if it has one, and returns the status of the reply.           *)
(***************************************************************************)
HandlerFails(t) ==
  /\ InHandler(t)
  /\ Running(t) \notin CannotFail
  /\ status' = [status EXCEPT ![t] = "error"]
  /\ Goto(t, "wrapper")
  /\ UNCHANGED <<kernelVars, holds, misused, aborted, serving, req_, outcome>>

HandlerSucceeds(t) ==
  /\ InHandler(t)
  /\ Running(t) \notin PathOnly
  /\ outcome' = [outcome EXCEPT ![serving[t]] = "done"]
  /\ IF HandlerReply(Running(t)) = "no"
       THEN /\ status' = [status EXCEPT ![t] = "ok"]
            /\ UNCHANGED <<kernelVars, holds, misused, req_>>
       ELSE /\ status' = [status EXCEPT ![t] = IF Sent(t) THEN "ok" ELSE "error"]
            /\ Send(t, HandlerReply(Running(t)))
  /\ Goto(t, "wrapper")
  /\ UNCHANGED <<aborted, serving>>

\* ReplyFailureAndLogIfNotOk: silent if the handler returned OkStatus.
ReplyFailure(t) ==
  /\ Discipline(Running(t)) = "failure"
  /\ IF status[t] = "ok"
       THEN UNCHANGED <<kernelVars, holds, misused, req_>>
       ELSE Send(t, "error")

\* ReplyAlwaysAndLogIfNotOk: ReplyErrno(0) if it did.
ReplyAlways(t) ==
  /\ Discipline(Running(t)) = "always"
  /\ Send(t, IF status[t] = "ok" THEN "zero" ELSE "error")

ReplyNothing(t) ==
  /\ Discipline(Running(t)) = "none"
  /\ ReplyNone(t)

Wrapper(t) ==
  /\ At(t, "wrapper")
  /\ ReplyFailure(t) \/ ReplyAlways(t) \/ ReplyNothing(t)
  /\ Goto(t, "destroy")
  /\ UNCHANGED <<aborted, serving, status, outcome>>

\* ~FuseRequest, and back to the loop.
Destroy(t) ==
  /\ At(t, "destroy")
  /\ Send(t, "ECOMM")
  /\ Goto(t, "loop")
  /\ serving' = [serving EXCEPT ![t] = NULL]
  /\ status' = [status EXCEPT ![t] = "ok"]
  /\ UNCHANGED <<aborted, outcome>>

ThreadStep(t) ==
  OpensFifo(t) \/ HandlerFails(t) \/ HandlerSucceeds(t) \/ Wrapper(t) \/ Destroy(t)

TakeReq(r) == \E t \in Threads, c \in Cells : Take(t, r, c)

Next ==
  \/ \E t \in Threads : ThreadStep(t)
  \/ \E r \in Reqs : TakeReq(r) \/ Return(r) \/ \E o \in Ops : Ask(r, o)
  \/ Disconnect

Spec == Init /\ [][Next]_vars
-----------------------------------------------------------------------------
(***************************************************************************)
(* A fuse_req_t is replied to once: never after it was freed, when its     *)
(* memory may already belong to a request that another thread serves.      *)
(***************************************************************************)
NoUseAfterFree == ~misused

(***************************************************************************)
(* A fuse_req_t that is allocated is in the req_ of exactly one            *)
(* FuseRequest, and a req_ that is not empty refers to an allocated one:   *)
(* none is leaked, whatever fails and whoever replies.                     *)
(***************************************************************************)
OwnedOnce ==
  /\ \A t \in Threads : req_[t] # NULL => holds[req_[t]] # NULL
  /\ \A t, u \in Threads : req_[t] # NULL /\ req_[t] = req_[u] => t = u
  /\ \A c \in Cells : holds[c] # NULL => aborted \/ \E t \in Threads : req_[t] = c

(***************************************************************************)
(* Handler, wrapper and destructor together tell the kernel what happened: *)
(* the reply of the operation (0 if it has none of its own) if it was      *)
(* done, an error if it was not, never the ECOMM of the destructor.        *)
(***************************************************************************)
AnswerFits ==
  \A r \in Reqs :
    phase[r] = "answered" /\ answer[r] \notin {NULL, "gone"} =>
      answer[r] = IF outcome[r] = "failed" THEN "error"
                  ELSE IF HandlerReply(asked[r]) = "no" THEN "zero"
                  ELSE HandlerReply(asked[r])

\* Some FuseRequest still has the request.
Owned(r) == \E t \in Threads : req_[t] # NULL /\ holds[req_[t]] = r

(***************************************************************************)
(* "A FuseRequest ... RAII owns replying to the request" (fuse.h:35): a    *)
(* process is waiting only while some FuseRequest still has its request.   *)
(* The exception is a write that failed: GetFuseWriteBufOp ends in         *)
(* ReplyNone instead of replying with the failure.                         *)
(***************************************************************************)
OnlyFailedWritesAreDropped ==
  \A r \in Reqs :
    phase[r] = "taken" => \/ aborted
                          \/ Owned(r)
                          \/ asked[r] = "WriteBuf" /\ outcome[r] = "failed"
-----------------------------------------------------------------------------
(***************************************************************************)
(* Fairness: a thread that is in a callback goes on, unless it waits in    *)
(* the open of a FIFO; and the session loop reads every request that stays *)
(* in the queue.                                                           *)
(***************************************************************************)
Fairness ==
  /\ \A t \in Threads : WF_vars(pc[t] # "fifo" /\ ThreadStep(t))
  /\ \A r \in Reqs : SF_vars(TakeReq(r))

FairSpec == Spec /\ Fairness

\* From now on the thread that serves r waits in the open of a FIFO, or all
\* threads do, so that nobody is left to take r.
StuckOnFifo(r) ==
  \/ \E t \in Threads : [](serving[t] = r /\ pc[t] = "fifo")
  \/ [](\A t \in Threads : pc[t] = "fifo")

(***************************************************************************)
(* Every process that asks for anything but a write gets an answer, unless *)
(* the CHECK in the wrapper of SetAttr (fuse_ops.h:540) ends pafs, or the  *)
(* open of a FIFO holds the thread that serves it, or all threads.         *)
(***************************************************************************)
EveryRequestIsAnswered ==
  \A r \in Reqs :
    phase[r] = "queued" /\ asked[r] # "WriteBuf" ~>
      phase[r] = "answered" \/ aborted \/ StuckOnFifo(r)
=============================================================================
