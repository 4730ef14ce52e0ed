------------------------- MODULE FuseRequestProofs -------------------------
(***************************************************************************)
(* Proofs about FuseRequest, for any number of threads, requests and cells *)
(* and every set of operations.                                            *)
(***************************************************************************)
EXTENDS FuseRequest, TLAPS

USE RequestAssumption
-----------------------------------------------------------------------------
(***************************************************************************)
(* Facts about the tables of wrappers and handlers, operation by operation.*)
(***************************************************************************)

\* A wrapper that is silent on success goes with a handler that replies,
\* except where the handler cannot succeed.
LEMMA SilentHandlers ==
  \A o \in AllOps : Discipline(o) = "failure" /\ HandlerReply(o) = "no" => o \in PathOnly
BY DEF AllOps, Discipline, HandlerReply, PathOnly, NameWrappers, FileWrappers,
       AttrWrappers, DataWrappers, NameHandlers, DirHandlers, FileHandlers, AttrHandlers

\* Only these operations end in ReplyNone.
LEMMA SilentWrappers ==
  \A o \in AllOps : Discipline(o) = "none" => o \in {"Forget", "ForgetMulti", "WriteBuf"}
BY DEF AllOps, Discipline, NameWrappers, FileWrappers, AttrWrappers, DataWrappers

\* A handler of FORGETs ends in ReplyNone and sends no reply of its own; the
\* handler of writes sends one.
LEMMA ForgetsAndWrites ==
  /\ \A o \in {"Forget", "ForgetMulti"} : Discipline(o) = "none" /\ HandlerReply(o) = "no"
  /\ HandlerReply("WriteBuf") # "no"
BY DEF Discipline, HandlerReply, NameWrappers, FileWrappers,
       AttrWrappers, DataWrappers, NameHandlers, DirHandlers, FileHandlers, AttrHandlers

\* What a handler replies with is a reply, and none that means an error.
LEMMA HandlerReplyType ==
  \A o \in AllOps : HandlerReply(o) # "no" => HandlerReply(o) \in Replies
BY DEF AllOps, HandlerReply, Replies, NameWrappers, FileWrappers,
       AttrWrappers, DataWrappers, NameHandlers, DirHandlers, FileHandlers, AttrHandlers
-----------------------------------------------------------------------------
(***************************************************************************)
(* The inductive invariant.                                                *)
(***************************************************************************)
Forgets == {"Forget", "ForgetMulti"}

\* A thread in a callback serves a request that no other thread serves, and
\* its req_, if not empty, is the fuse_req_t of that request.
Serving ==
  /\ \A t \in Threads : pc[t] = "loop" <=> serving[t] = NULL
  /\ \A t \in Threads : req_[t] # NULL => serving[t] # NULL /\ holds[req_[t]] = serving[t]
  /\ \A t \in Threads : pc[t] \in {"handler", "fifo"} => req_[t] # NULL
  /\ \A t, u \in Threads : serving[t] # NULL /\ serving[t] = serving[u] => t = u
  /\ \A t \in Threads : serving[t] # NULL => phase[serving[t]] \in {"taken", "answered"}
  /\ \A r \in Reqs : phase[r] # "idle" => asked[r] \in Ops
  /\ \A c \in Cells : holds[c] # NULL => aborted \/ \E t \in Threads : req_[t] = c

\* What has been answered so far, by where the callback has got to.
Answering ==
  /\ \A r \in Reqs : phase[r] \in {"idle", "queued"} => answer[r] = NULL /\ outcome[r] = "failed"
  /\ \A r \in Reqs : phase[r] \in {"queued", "taken"} => connected
  /\ \A r \in Reqs : phase[r] = "taken" => asked[r] \notin Forgets
  /\ \A t \in Threads : req_[t] # NULL => answer[serving[t]] \in {NULL, "gone"}
  /\ \A t \in Threads : pc[t] \in {"handler", "fifo"} => outcome[serving[t]] = "failed"
  /\ \A t \in Threads : pc[t] = "wrapper" /\ req_[t] # NULL =>
       \/ /\ status[t] = "ok"
          /\ outcome[serving[t]] = "done"
          /\ HandlerReply(Running(t)) = "no"
          /\ Running(t) \notin PathOnly
       \/ status[t] = "error" /\ outcome[serving[t]] = "failed"
  /\ \A t \in Threads : pc[t] = "destroy" => req_[t] = NULL

ReqInv ==
  /\ TypeOK
  /\ NoUseAfterFree
  /\ Serving
  /\ Answering
  /\ AnswerFits
  /\ OnlyFailedWritesAreDropped

USE DEF ReqInv

\* One lemma per action: each preserves every part of the invariant.
LEMMA InitReqInv == ASSUME Init PROVE ReqInv
<1>1. TypeOK /\ NoUseAfterFree
  BY DEF Init, TypeOK, NoUseAfterFree
<1>2. Serving
  BY DEF Init, Serving
<1>3. Answering
  BY DEF Init, Answering
<1>4. AnswerFits
  BY DEF Init, AnswerFits
<1>5. OnlyFailedWritesAreDropped
  BY DEF Init, OnlyFailedWritesAreDropped
<1> QED BY <1>1, <1>2, <1>3, <1>4, <1>5

LEMMA AskInv == ASSUME ReqInv, NEW r \in Reqs, NEW o \in Ops, Ask(r, o) PROVE ReqInv'
<1>1. TypeOK' /\ NoUseAfterFree'
  BY DEF Ask, TypeOK, NoUseAfterFree
<1>2. Serving'
  BY DEF Ask, TypeOK, Serving
<1>3. Answering'
  BY DEF Ask, TypeOK, Serving, Answering, Running
<1>4. AnswerFits'
  BY DEF Ask, TypeOK, AnswerFits, Answering
<1>5. OnlyFailedWritesAreDropped'
  BY DEF Ask, TypeOK, OnlyFailedWritesAreDropped, Owned
<1> QED BY <1>1, <1>2, <1>3, <1>4, <1>5

LEMMA ReturnInv == ASSUME ReqInv, NEW r \in Reqs, Return(r) PROVE ReqInv'
<1>1. TypeOK' /\ NoUseAfterFree'
  BY DEF Return, TypeOK, NoUseAfterFree
<1>2. Serving'
  BY DEF Return, TypeOK, Serving
<1>3. Answering'
  BY DEF Return, TypeOK, Serving, Answering, Running
<1>4. AnswerFits'
  BY DEF Return, TypeOK, AnswerFits, Answering
<1>5. OnlyFailedWritesAreDropped'
  BY DEF Return, TypeOK, OnlyFailedWritesAreDropped, Owned
<1> QED BY <1>1, <1>2, <1>3, <1>4, <1>5

LEMMA DisconnectInv == ASSUME ReqInv, Disconnect PROVE ReqInv'
<1>1. TypeOK' /\ NoUseAfterFree'
  BY DEF Disconnect, TypeOK, NoUseAfterFree, Replies
<1>2. Serving'
  BY DEF Disconnect, TypeOK, Serving
<1>3. Answering'
  BY DEF Disconnect, TypeOK, Serving, Answering, Running
<1>4. AnswerFits'
  BY DEF Disconnect, TypeOK, AnswerFits, Answering
<1>5. OnlyFailedWritesAreDropped'
  BY DEF Disconnect, TypeOK, OnlyFailedWritesAreDropped, Owned
<1> QED BY <1>1, <1>2, <1>3, <1>4, <1>5

LEMMA TakeInv ==
  ASSUME ReqInv, NEW t \in Threads, NEW r \in Reqs, NEW c \in Cells, Take(t, r, c)
  PROVE  ReqInv'
<1>1. TypeOK' /\ NoUseAfterFree'
  BY DEF Take, At, Goto, TypeOK, NoUseAfterFree
<1>2. Serving'
  BY DEF Take, At, Goto, TypeOK, Serving
<1>3. Answering'
  BY DEF Take, At, Goto, TypeOK, Serving, Answering, Running, Forgets
<1>4. AnswerFits'
  BY DEF Take, At, Goto, TypeOK, AnswerFits, Answering
<1>5. OnlyFailedWritesAreDropped'
  BY DEF Take, At, Goto, TypeOK, Serving, OnlyFailedWritesAreDropped, Owned
<1> QED BY <1>1, <1>2, <1>3, <1>4, <1>5

LEMMA OpensFifoInv == ASSUME ReqInv, NEW t \in Threads, OpensFifo(t) PROVE ReqInv'
<1>1. TypeOK' /\ NoUseAfterFree'
  BY DEF OpensFifo, At, Goto, TypeOK, NoUseAfterFree, kernelVars
<1>2. Serving'
  BY DEF OpensFifo, At, Goto, TypeOK, Serving, kernelVars
<1>3. Answering'
  BY DEF OpensFifo, At, Goto, TypeOK, Serving, Answering, Running, kernelVars
<1>4. AnswerFits'
  BY DEF OpensFifo, At, Goto, TypeOK, AnswerFits, kernelVars
<1>5. OnlyFailedWritesAreDropped'
  BY DEF OpensFifo, At, Goto, TypeOK, OnlyFailedWritesAreDropped, Owned, kernelVars
<1> QED BY <1>1, <1>2, <1>3, <1>4, <1>5

LEMMA HandlerFailsInv == ASSUME ReqInv, NEW t \in Threads, HandlerFails(t) PROVE ReqInv'
<1>1. TypeOK' /\ NoUseAfterFree'
  BY DEF HandlerFails, InHandler, At, Goto, TypeOK, NoUseAfterFree, kernelVars
<1>2. Serving'
  BY DEF HandlerFails, InHandler, At, Goto, TypeOK, Serving, kernelVars
<1>3. Answering'
  BY DEF HandlerFails, InHandler, At, Goto, TypeOK, Serving, Answering, Running, kernelVars
<1>4. AnswerFits'
  BY DEF HandlerFails, InHandler, At, Goto, TypeOK, AnswerFits, kernelVars
<1>5. OnlyFailedWritesAreDropped'
  BY DEF HandlerFails, InHandler, At, Goto, TypeOK, OnlyFailedWritesAreDropped, Owned, kernelVars
<1> QED BY <1>1, <1>2, <1>3, <1>4, <1>5

LEMMA HandlerSucceedsInv == ASSUME ReqInv, NEW t \in Threads, HandlerSucceeds(t) PROVE ReqInv'
<1>0. /\ serving[t] \in Reqs
      /\ req_[t] \in Cells
      /\ holds[req_[t]] = serving[t]
      /\ Running(t) \in AllOps
  BY DEF HandlerSucceeds, InHandler, At, TypeOK, Serving, Running
<1>1. CASE HandlerReply(Running(t)) = "no"
  <2>1. TypeOK' /\ NoUseAfterFree'
    BY <1>0, <1>1 DEF HandlerSucceeds, InHandler, At, Goto, TypeOK, NoUseAfterFree, kernelVars
  <2>2. Serving'
    BY <1>0, <1>1 DEF HandlerSucceeds, InHandler, At, Goto, TypeOK, Serving, kernelVars
  <2>3. Answering'
    BY <1>0, <1>1 DEF HandlerSucceeds, InHandler, At, Goto, TypeOK, Serving, Answering, Running, kernelVars
  <2>4. AnswerFits'
    BY <1>0, <1>1 DEF HandlerSucceeds, InHandler, At, Goto, TypeOK, AnswerFits, Answering, kernelVars
  <2>5. OnlyFailedWritesAreDropped'
    BY <1>0, <1>1 DEF HandlerSucceeds, InHandler, At, Goto, TypeOK, OnlyFailedWritesAreDropped, Owned, kernelVars
  <2> QED BY <2>1, <2>2, <2>3, <2>4, <2>5
<1>2. CASE HandlerReply(Running(t)) # "no"
  <2>0. HandlerReply(Running(t)) \in Replies
    BY <1>0, <1>2, HandlerReplyType
  <2>1. TypeOK' /\ NoUseAfterFree'
    BY <1>0, <1>2, <2>0 DEF HandlerSucceeds, InHandler, Send, At, Goto, TypeOK, NoUseAfterFree, kernelVars
  <2>2. Serving'
    BY <1>0, <1>2 DEF HandlerSucceeds, InHandler, Send, At, Goto, TypeOK, Serving, kernelVars
  <2>3. Answering'
    BY <1>0, <1>2 DEF HandlerSucceeds, InHandler, Send, At, Goto, TypeOK, Serving, Answering, Running, kernelVars
  <2>4. AnswerFits'
    BY <1>0, <1>2 DEF HandlerSucceeds, InHandler, Send, At, Goto, TypeOK, AnswerFits, Answering, Running, kernelVars
  <2>5. OnlyFailedWritesAreDropped'
    BY <1>0, <1>2 DEF HandlerSucceeds, InHandler, Send, At, Goto, TypeOK, Serving, Answering,
                      OnlyFailedWritesAreDropped, Owned, kernelVars
  <2> QED BY <2>1, <2>2, <2>3, <2>4, <2>5
<1> QED BY <1>1, <1>2

LEMMA WrapperInv == ASSUME ReqInv, NEW t \in Threads, Wrapper(t) PROVE ReqInv'
<1>0. serving[t] \in Reqs /\ Running(t) \in AllOps
  BY DEF Wrapper, At, TypeOK, Serving, Running
<1>1. CASE req_[t] = NULL
  <2>1. UNCHANGED <<kernelVars, holds, misused, req_>>
    BY <1>1 DEF Wrapper, ReplyFailure, ReplyAlways, ReplyNothing, Send, ReplyNone
  <2>2. TypeOK' /\ NoUseAfterFree'
    BY <2>1 DEF Wrapper, At, Goto, TypeOK, NoUseAfterFree, kernelVars
  <2>3. Serving'
    BY <2>1 DEF Wrapper, At, Goto, TypeOK, Serving, kernelVars
  <2>4. Answering'
    BY <1>1, <2>1 DEF Wrapper, At, Goto, TypeOK, Serving, Answering, Running, kernelVars
  <2>5. AnswerFits'
    BY <2>1 DEF Wrapper, At, Goto, TypeOK, AnswerFits, kernelVars
  <2>6. OnlyFailedWritesAreDropped'
    BY <2>1 DEF Wrapper, At, Goto, TypeOK, OnlyFailedWritesAreDropped, Owned, kernelVars
  <2> QED BY <2>2, <2>3, <2>4, <2>5, <2>6
<1>2. CASE req_[t] # NULL
  <2>0. req_[t] \in Cells /\ holds[req_[t]] = serving[t]
    BY <1>2 DEF TypeOK, Serving
  <2>a. CASE Discipline(Running(t)) = "none"
    <3>1. ReplyNone(t)
      BY <2>a DEF Wrapper, ReplyFailure, ReplyAlways, ReplyNothing
    <3>2. TypeOK' /\ NoUseAfterFree'
      BY <1>0, <2>0, <3>1 DEF Wrapper, ReplyNone, At, Goto, TypeOK, NoUseAfterFree, kernelVars
    <3>3. Serving'
      BY <1>0, <2>0, <3>1 DEF Wrapper, ReplyNone, At, Goto, TypeOK, Serving, kernelVars
    <3>4. Answering'
      BY <1>0, <2>0, <3>1 DEF Wrapper, ReplyNone, At, Goto, TypeOK, Serving, Answering, Running, kernelVars
    <3>5. AnswerFits'
      BY <1>0, <2>0, <3>1 DEF Wrapper, ReplyNone, At, Goto, TypeOK, AnswerFits, kernelVars
    <3>6. phase[serving[t]] = "taken" => asked[serving[t]] = "WriteBuf" /\ outcome[serving[t]] = "failed"
      BY <1>0, <1>2, <2>a, SilentWrappers, ForgetsAndWrites
         DEF Wrapper, At, Answering, Forgets, Running
    <3>7. OnlyFailedWritesAreDropped'
      BY <1>0, <2>0, <3>1, <3>6
         DEF Wrapper, ReplyNone, At, Goto, TypeOK, Serving, OnlyFailedWritesAreDropped, Owned, kernelVars
    <3> QED BY <3>2, <3>3, <3>4, <3>5, <3>7
  <2>b. CASE Discipline(Running(t)) # "none"
    <3> DEFINE k == IF status[t] = "ok" THEN "zero" ELSE "error"
    <3>1. Send(t, k)
      <4>1. status[t] = "ok" => Discipline(Running(t)) # "failure"
        BY <1>0, <1>2, SilentHandlers DEF Wrapper, At, Answering
      <4> QED
        BY <2>b, <4>1 DEF Wrapper, ReplyFailure, ReplyAlways, ReplyNothing, TypeOK
    <3>a. k \in Replies
      BY DEF Replies
    <3>2. TypeOK' /\ NoUseAfterFree'
      BY <1>0, <2>0, <3>1, <3>a DEF Wrapper, Send, At, Goto, TypeOK, NoUseAfterFree, kernelVars
    <3>3. Serving'
      BY <1>0, <2>0, <3>1 DEF Wrapper, Send, At, Goto, TypeOK, Serving, kernelVars
    <3>4. Answering'
      BY <1>0, <2>0, <3>1 DEF Wrapper, Send, At, Goto, TypeOK, Serving, Answering, Running, kernelVars
    <3>5. AnswerFits'
      BY <1>0, <1>2, <2>0, <3>1 DEF Wrapper, Send, At, Goto, TypeOK, AnswerFits, Answering, Running, kernelVars
    <3>6. OnlyFailedWritesAreDropped'
      BY <1>0, <2>0, <3>1 DEF Wrapper, Send, At, Goto, TypeOK, Serving, Answering,
                              OnlyFailedWritesAreDropped, Owned, kernelVars
    <3> QED BY <3>2, <3>3, <3>4, <3>5, <3>6
  <2> QED BY <2>a, <2>b
<1> QED BY <1>1, <1>2

LEMMA DestroyInv == ASSUME ReqInv, NEW t \in Threads, Destroy(t) PROVE ReqInv'
<1>0. UNCHANGED <<kernelVars, holds, misused, req_>> /\ req_[t] = NULL
  BY DEF Destroy, At, Send, Answering
<1>1. TypeOK' /\ NoUseAfterFree'
  BY <1>0 DEF Destroy, At, Goto, TypeOK, NoUseAfterFree, kernelVars
<1>2. Serving'
  BY <1>0 DEF Destroy, At, Goto, TypeOK, Serving, kernelVars
<1>3. Answering'
  BY <1>0 DEF Destroy, At, Goto, TypeOK, Serving, Answering, Running, kernelVars
<1>4. AnswerFits'
  BY <1>0 DEF Destroy, At, Goto, TypeOK, AnswerFits, kernelVars
<1>5. OnlyFailedWritesAreDropped'
  BY <1>0 DEF Destroy, At, Goto, TypeOK, OnlyFailedWritesAreDropped, Owned, kernelVars
<1> QED BY <1>1, <1>2, <1>3, <1>4, <1>5

LEMMA NextReqInv == ASSUME ReqInv, [Next]_vars PROVE ReqInv'
<1>1. CASE UNCHANGED vars
  BY <1>1 DEF vars, kernelVars, TypeOK, NoUseAfterFree, Serving, Answering, AnswerFits,
              OnlyFailedWritesAreDropped, Owned, Running
<1>2. ASSUME NEW t \in Threads, ThreadStep(t) PROVE ReqInv'
  BY <1>2, OpensFifoInv, HandlerFailsInv, HandlerSucceedsInv, WrapperInv, DestroyInv
     DEF ThreadStep
<1>3. ASSUME NEW r \in Reqs, TakeReq(r) PROVE ReqInv'
  BY <1>3, TakeInv DEF TakeReq
<1>4. ASSUME NEW r \in Reqs, Return(r) \/ \E o \in Ops : Ask(r, o) PROVE ReqInv'
  BY <1>4, ReturnInv, AskInv
<1> QED
  BY <1>1, <1>2, <1>3, <1>4, DisconnectInv DEF Next

(***************************************************************************)
(* Whoever replies and whatever fails: a fuse_req_t is never used after it *)
(* was freed and never leaked, the kernel is told what happened, and the   *)
(* only requests that nobody answers are writes that failed.  Any number   *)
(* of threads may serve any number of requests.                            *)
(***************************************************************************)
THEOREM RepliesAreRight ==
  Spec => [](TypeOK /\ NoUseAfterFree /\ OwnedOnce /\ AnswerFits /\ OnlyFailedWritesAreDropped)
<1>1. Init => ReqInv
  BY InitReqInv
<1>2. ReqInv /\ [Next]_vars => ReqInv'
  BY NextReqInv
<1>3. ReqInv => TypeOK /\ NoUseAfterFree /\ OwnedOnce /\ AnswerFits /\ OnlyFailedWritesAreDropped
  BY DEF TypeOK, Serving, OwnedOnce
<1> QED
  BY <1>1, <1>2, <1>3, PTL DEF Spec

(***************************************************************************)
(* A fuse_req_t that is allocated is in exactly one FuseRequest, from the  *)
(* moment libfuse hands it over until it is freed, unless pafs aborted.    *)
(***************************************************************************)
COROLLARY RequestsHaveOneOwner == Spec => []OwnedOnce
  BY RepliesAreRight, PTL

(***************************************************************************)
(* A request that nobody will ever answer is a write whose WriteBuf        *)
(* failed: every other way out of every wrapper replies.                   *)
(***************************************************************************)
COROLLARY DroppedAreFailedWrites == Spec => []OnlyFailedWritesAreDropped
  BY RepliesAreRight, PTL
=============================================================================
