---------------------------- MODULE OwnerProofs -----------------------------
(***************************************************************************)
(* Classes that own something and are moved by a swap: proofs about        *)
(* FusePollHandle and who is notified (Poll.tla), for any number of        *)
(* threads, open files and handles, and about Mount (Mounts.tla), for any  *)
(* number of objects and mount points.                                     *)
(***************************************************************************)
EXTENDS Poll, Mounts, FiniteSetTheorems, TLAPS

\* The handle in hand has not been stored yet.
Fresh(t) == pc[t] \in {"add", "store"} /\ ph[t] # NULL

(***************************************************************************)
(* A handle that a thread is about to store is known to that thread alone. *)
(* The one that is stored leads to the file that was polled last, and no   *)
(* thread is going to free it, even if several swap at the same time.      *)
(***************************************************************************)
StoredInv ==
  /\ \A t \in Threads : Fresh(t) =>
       /\ heap[ph[t]] = file[t]
       /\ file[t] \in Files
       /\ ph[t] # poll_handle
       /\ \A u \in Threads : ph[t] # old[u] /\ (u # t => ph[t] # ph[u])
  /\ \A t \in Threads :
       /\ pc[t] \notin {"add", "store", "destroy"} => ph[t] = NULL
       /\ pc[t] = "store" => ph[t] # NULL
       /\ pc[t] = "destroy" /\ ph[t] # NULL => ph[t] # poll_handle
       /\ pc[t] = "destroy" => file[t] \in Files
       /\ pc[t] \in {"loop", "copy", "check", "load"} => old[t] = NULL
       /\ pc[t] \in {"load", "notify"} => poll_handle # NULL
       /\ pc[t] = "notify" => old[t] # NULL
  /\ poll_handle = NULL => last = NULL
  /\ poll_handle # NULL => last \in Files /\ heap[poll_handle] = last

(***************************************************************************)
(* Somebody is on the way who tells the file whose handle was stored last: *)
(* a thread that has yet to load the handle, or one that has loaded a      *)
(* handle of that file, or memory that has been freed since.               *)
(***************************************************************************)
OnTheWay(t) ==
  \/ pc[t] \in {"check", "load"}
  \/ pc[t] = "notify" /\ heap[old[t]] \in {last, NULL}

NotifyInv == last \in owed => uaf \/ \E t \in Threads : OnTheWay(t)

(***************************************************************************)
(* As long as no two threads were in AddPollHandle or NotifyPollEvent at   *)
(* the same time: every handle that is allocated is in exactly one place,  *)
(* and what a thread has loaded is still there.                            *)
(***************************************************************************)
Swapped ==
  /\ \A t, u \in Inside : t = u
  /\ \A t \in Threads : pc[t] \in {"store", "notify"} => old[t] = poll_handle
  /\ \A t, u \in Threads : ph[t] # NULL /\ ph[t] = ph[u] => t = u
  /\ \A t \in Threads : ph[t] # NULL => heap[ph[t]] # NULL
  /\ \A a \in Addrs : heap[a] # NULL => a = poll_handle \/ \E t \in Threads : ph[t] = a

SwapInv == ~overlap => ~uaf /\ Swapped

PollInv == TypeOK /\ StoredInv /\ NotifyInv /\ SwapInv
-----------------------------------------------------------------------------
\* What a step adds to overlap.
Watched ==
  /\ overlap' \in BOOLEAN
  /\ ~overlap' => ~overlap /\ \A t, u \in Inside' : t = u

LEMMA AtMostOne ==
  ASSUME NEW S, IsFiniteSet(S), ~(Cardinality(S) > 1)
  PROVE  \A x, y \in S : x = y
<1> SUFFICES ASSUME NEW x \in S, NEW y \in S, x # y PROVE FALSE
  OBVIOUS
<1>1. IsFiniteSet({x}) /\ Cardinality({x}) = 1
  BY FS_Singleton
<1>2. IsFiniteSet({x, y}) /\ Cardinality({x, y}) = 2
  <2>1. Cardinality({x} \cup {y}) = Cardinality({x}) + 1
    BY <1>1, FS_AddElement
  <2>2. {x} \cup {y} = {x, y}
    OBVIOUS
  <2> QED
    BY <1>1, <2>1, <2>2, FS_AddElement
<1>3. Cardinality({x, y}) <= Cardinality(S) /\ Cardinality(S) \in Nat
  BY FS_Subset, FS_CardinalityType
<1> QED
  BY <1>2, <1>3

LEMMA NextIsWatched == ASSUME TypeOK, Next PROVE Watched
<1>1. overlap' = (overlap \/ Cardinality(Inside') > 1) /\ overlap \in BOOLEAN
  BY DEF Next, TypeOK
<1>2. IsFiniteSet(Inside')
  BY PollAssumption, FS_Subset DEF Inside
<1>3. ~overlap' => ~overlap /\ ~(Cardinality(Inside') > 1)
  BY <1>1
<1>4. overlap' \in BOOLEAN
  BY <1>1
<1> QED
  BY <1>2, <1>3, <1>4, AtMostOne DEF Watched

LEMMA PollInitially == Init => PollInv
<1> SUFFICES ASSUME Init PROVE PollInv
  OBVIOUS
<1>1. TypeOK
  BY DEF Init, TypeOK
<1>2. StoredInv
  BY DEF Init, StoredInv, Fresh
<1>3. NotifyInv
  BY DEF Init, NotifyInv
<1>4. SwapInv
  BY DEF Init, SwapInv, Swapped, Inside
<1> QED
  BY <1>1, <1>2, <1>3, <1>4 DEF PollInv

LEMMA PollReceivePoll ==
  ASSUME PollInv, Watched, NEW t \in Threads, NEW f \in Files, ReceivePoll(t, f)
  PROVE  PollInv'
<1>1. TypeOK'
  BY DEF ReceivePoll, Goto, PollInv, TypeOK, Watched
<1>2. StoredInv'
  BY DEF ReceivePoll, Goto, PollInv, TypeOK, StoredInv, Fresh
<1>3. NotifyInv'
  BY DEF ReceivePoll, Goto, PollInv, TypeOK, NotifyInv, OnTheWay
<1>4. SwapInv'
  BY DEF ReceivePoll, Goto, PollInv, TypeOK, SwapInv, Swapped, Watched
<1> QED
  BY <1>1, <1>2, <1>3, <1>4 DEF PollInv

LEMMA PollReceivePollNotify ==
  ASSUME PollInv, Watched, NEW t \in Threads, NEW f \in Files, NEW a \in Addrs,
         ReceivePollNotify(t, f, a)
  PROVE  PollInv'
<1>1. TypeOK'
  BY DEF ReceivePollNotify, Goto, PollInv, TypeOK, Watched
<1>2. StoredInv'
  BY PollAssumption
     DEF ReceivePollNotify, Unused, Goto, PollInv, TypeOK, StoredInv, Fresh
<1>3. NotifyInv'
  BY DEF ReceivePollNotify, Unused, Goto, PollInv, TypeOK, StoredInv, NotifyInv, OnTheWay
<1>4. SwapInv'
  BY PollAssumption
     DEF ReceivePollNotify, Unused, Goto, PollInv, TypeOK, StoredInv, SwapInv, Swapped, Watched
<1> QED
  BY <1>1, <1>2, <1>3, <1>4 DEF PollInv

LEMMA PollAddNothing ==
  ASSUME PollInv, Watched, NEW t \in Threads, AddNothing(t)
  PROVE  PollInv'
<1>1. TypeOK'
  BY DEF AddNothing, Goto, PollInv, TypeOK, Watched
<1>2. StoredInv'
  BY DEF AddNothing, Goto, PollInv, TypeOK, StoredInv, Fresh
<1>3. NotifyInv'
  BY DEF AddNothing, Goto, PollInv, TypeOK, NotifyInv, OnTheWay
<1>4. SwapInv'
  BY DEF AddNothing, Goto, PollInv, TypeOK, SwapInv, Swapped, Watched
<1> QED
  BY <1>1, <1>2, <1>3, <1>4 DEF PollInv

LEMMA PollAddLoad ==
  ASSUME PollInv, Watched, NEW t \in Threads, AddLoad(t)
  PROVE  PollInv'
<1>1. TypeOK'
  BY DEF AddLoad, Goto, PollInv, TypeOK, Watched
<1>2. StoredInv'
  BY DEF AddLoad, Goto, PollInv, TypeOK, StoredInv, Fresh
<1>3. NotifyInv'
  BY DEF AddLoad, Goto, PollInv, TypeOK, NotifyInv, OnTheWay
<1>4. SwapInv'
  BY DEF AddLoad, Goto, PollInv, TypeOK, SwapInv, Swapped, Watched
<1> QED
  BY <1>1, <1>2, <1>3, <1>4 DEF PollInv

(***************************************************************************)
(* The swap: the handle that goes into the Inode is known to nobody else,  *)
(* and what comes out is what this thread loaded.  Without an overlap that *)
(* is what was there.                                                      *)
(***************************************************************************)
LEMMA PollAddStore ==
  ASSUME PollInv, Watched, NEW t \in Threads, AddStore(t)
  PROVE  PollInv'
<1>1. TypeOK'
  BY PollAssumption DEF AddStore, Begins, Goto, PollInv, TypeOK, Watched, StoredInv, Fresh
<1>2. Fresh(t) /\ heap[ph[t]] = file[t] /\ file[t] \in Files /\ ph[t] \in Addrs
  BY DEF AddStore, PollInv, TypeOK, StoredInv, Fresh
<1>3. StoredInv'
  BY <1>2, PollAssumption DEF AddStore, Goto, PollInv, TypeOK, StoredInv, Fresh
<1>4. NotifyInv'
  <2>1. CASE last = file[t]
    BY <2>1 DEF AddStore, Begins, Goto, PollInv, TypeOK, NotifyInv, OnTheWay
  <2>2. CASE last # file[t]
    BY <2>2 DEF AddStore, Begins, NotifyInv
  <2> QED
    BY <2>1, <2>2
<1>5. SwapInv'
  <2> SUFFICES ASSUME ~overlap' PROVE ~uaf' /\ Swapped'
    BY DEF SwapInv
  <2>1. ~uaf /\ Swapped /\ \A u, v \in Inside' : u = v
    BY DEF PollInv, SwapInv, Watched
  <2>2. old[t] = poll_handle /\ \A u \in Threads \ {t} : pc[u] \notin {"store", "notify"}
    BY <2>1 DEF AddStore, Swapped, Inside
  <2>3. \A u \in Threads : ph'[u] = IF u = t THEN poll_handle ELSE ph[u]
    BY <2>2 DEF AddStore, PollInv, TypeOK
  <2>4. \A u \in Threads \ {t} : pc'[u] = pc[u] /\ (ph[u] # NULL => ph[u] # poll_handle)
    BY DEF AddStore, Goto, PollInv, TypeOK, StoredInv, Fresh
  <2>5. poll_handle # NULL => heap[poll_handle] # NULL
    BY PollAssumption DEF PollInv, StoredInv
  <2> QED
    BY <1>2, <2>1, <2>2, <2>3, <2>4, <2>5 DEF AddStore, Goto, PollInv, TypeOK, Swapped
<1> QED
  BY <1>1, <1>3, <1>4, <1>5 DEF PollInv

\* What is freed is neither in the Inode nor about to be stored.
LEMMA PollDestroy ==
  ASSUME PollInv, Watched, NEW t \in Threads, Destroy(t)
  PROVE  PollInv'
<1>1. TypeOK'
  BY DEF Destroy, Goto, PollInv, TypeOK, Watched
<1>2. StoredInv'
  BY PollAssumption DEF Destroy, Goto, PollInv, TypeOK, StoredInv, Fresh
<1>3. NotifyInv'
  <2>1. \A u \in Threads : pc[u] = "notify" => old[u] \in Addrs
    BY DEF PollInv, TypeOK, StoredInv
  <2>2. /\ \A u \in Threads : pc'[u] = IF u = t THEN "poll" ELSE pc[u]
        /\ \A u \in Threads : u # t => old'[u] = old[u]
        /\ \A a \in Addrs : heap'[a] = heap[a] \/ heap'[a] = NULL
        /\ pc[t] = "destroy" /\ last' = last /\ owed' = owed /\ (uaf => uaf')
    BY DEF Destroy, Goto, PollInv, TypeOK
  <2> QED
    BY <2>1, <2>2 DEF PollInv, NotifyInv, OnTheWay
<1>4. SwapInv'
  BY PollAssumption DEF Destroy, Goto, PollInv, TypeOK, StoredInv, SwapInv, Swapped, Watched
<1> QED
  BY <1>1, <1>2, <1>3, <1>4 DEF PollInv

LEMMA PollSysPoll ==
  ASSUME PollInv, Watched, NEW t \in Threads, SysPoll(t)
  PROVE  PollInv'
<1>1. TypeOK'
  BY DEF SysPoll, Goto, PollInv, TypeOK, Watched
<1>2. StoredInv'
  BY DEF SysPoll, Goto, PollInv, TypeOK, StoredInv, Fresh
<1>3. NotifyInv'
  BY DEF SysPoll, Goto, PollInv, TypeOK, NotifyInv, OnTheWay
<1>4. SwapInv'
  BY DEF SysPoll, Goto, PollInv, TypeOK, StoredInv, SwapInv, Swapped, Watched
<1> QED
  BY <1>1, <1>2, <1>3, <1>4 DEF PollInv

LEMMA PollSysPollFails ==
  ASSUME PollInv, Watched, NEW t \in Threads, SysPollFails(t)
  PROVE  PollInv'
<1>1. TypeOK'
  BY DEF SysPollFails, StopsWatching, Return, Goto, PollInv, TypeOK, Watched
<1>2. StoredInv'
  BY DEF SysPollFails, Return, Goto, PollInv, TypeOK, StoredInv, Fresh
<1>3. NotifyInv'
  BY DEF SysPollFails, StopsWatching, Return, Goto, PollInv, TypeOK, NotifyInv, OnTheWay
<1>4. SwapInv'
  BY DEF SysPollFails, Return, Goto, PollInv, TypeOK, StoredInv, SwapInv, Swapped, Watched
<1> QED
  BY <1>1, <1>2, <1>3, <1>4 DEF PollInv

LEMMA PollReplyPoll ==
  ASSUME PollInv, Watched, NEW t \in Threads, ReplyPoll(t)
  PROVE  PollInv'
<1>1. TypeOK'
  BY DEF ReplyPoll, Return, Goto, PollInv, TypeOK, Watched
<1>2. StoredInv'
  BY DEF ReplyPoll, Return, Goto, PollInv, TypeOK, StoredInv, Fresh
<1>3. NotifyInv'
  BY DEF ReplyPoll, Return, Goto, PollInv, TypeOK, NotifyInv, OnTheWay
<1>4. SwapInv'
  BY DEF ReplyPoll, Return, Goto, PollInv, TypeOK, StoredInv, SwapInv, Swapped, Watched
<1> QED
  BY <1>1, <1>2, <1>3, <1>4 DEF PollInv

LEMMA PollGiveUp ==
  ASSUME PollInv, Watched, NEW f \in Files, GiveUp(f)
  PROVE  PollInv'
<1>1. TypeOK'
  BY DEF GiveUp, StopsWatching, PollInv, TypeOK, Watched
<1>2. StoredInv'
  BY DEF GiveUp, PollInv, TypeOK, StoredInv, Fresh
<1>3. NotifyInv'
  BY DEF GiveUp, StopsWatching, PollInv, TypeOK, NotifyInv, OnTheWay
<1>4. SwapInv'
  BY DEF GiveUp, Inside, PollInv, TypeOK, StoredInv, SwapInv, Swapped, Watched
<1> QED
  BY <1>1, <1>2, <1>3, <1>4 DEF PollInv

LEMMA PollReceiveWrite ==
  ASSUME PollInv, Watched, NEW t \in Threads, ReceiveWrite(t)
  PROVE  PollInv'
<1>1. TypeOK'
  BY DEF ReceiveWrite, Goto, PollInv, TypeOK, Watched
<1>2. StoredInv'
  BY DEF ReceiveWrite, Goto, PollInv, TypeOK, StoredInv, Fresh
<1>3. NotifyInv'
  BY DEF ReceiveWrite, Goto, PollInv, TypeOK, NotifyInv, OnTheWay
<1>4. SwapInv'
  BY DEF ReceiveWrite, Goto, PollInv, TypeOK, StoredInv, SwapInv, Swapped, Watched
<1> QED
  BY <1>1, <1>2, <1>3, <1>4 DEF PollInv

LEMMA PollCopyFails ==
  ASSUME PollInv, Watched, NEW t \in Threads, CopyFails(t)
  PROVE  PollInv'
<1>1. TypeOK'
  BY DEF CopyFails, Return, Goto, PollInv, TypeOK, Watched
<1>2. StoredInv'
  BY DEF CopyFails, Return, Goto, PollInv, TypeOK, StoredInv, Fresh
<1>3. NotifyInv'
  BY DEF CopyFails, Return, Goto, PollInv, TypeOK, NotifyInv, OnTheWay
<1>4. SwapInv'
  BY DEF CopyFails, Return, Goto, PollInv, TypeOK, StoredInv, SwapInv, Swapped, Watched
<1> QED
  BY <1>1, <1>2, <1>3, <1>4 DEF PollInv

LEMMA PollCopy ==
  ASSUME PollInv, Watched, NEW t \in Threads, Copy(t)
  PROVE  PollInv'
<1>1. TypeOK'
  BY DEF Copy, Goto, PollInv, TypeOK, Watched
<1>2. StoredInv'
  BY DEF Copy, Goto, PollInv, TypeOK, StoredInv, Fresh
<1>3. NotifyInv'
  BY DEF Copy, Goto, PollInv, TypeOK, NotifyInv, OnTheWay
<1>4. SwapInv'
  BY DEF Copy, Goto, PollInv, TypeOK, StoredInv, SwapInv, Swapped, Watched
<1> QED
  BY <1>1, <1>2, <1>3, <1>4 DEF PollInv

LEMMA PollCheck ==
  ASSUME PollInv, Watched, NEW t \in Threads, Check(t)
  PROVE  PollInv'
<1>1. TypeOK'
  BY DEF Check, Return, Goto, PollInv, TypeOK, Watched
<1>2. StoredInv'
  BY PollAssumption DEF Check, Return, Goto, PollInv, TypeOK, StoredInv, Fresh
<1>3. NotifyInv'
  BY PollAssumption DEF Check, Return, Goto, StoredInv, PollInv, TypeOK, NotifyInv, OnTheWay
<1>4. SwapInv'
  BY PollAssumption DEF Check, Return, Goto, PollInv, TypeOK, StoredInv, SwapInv, Swapped, Watched
<1> QED
  BY <1>1, <1>2, <1>3, <1>4 DEF PollInv

LEMMA PollLoadHandle ==
  ASSUME PollInv, Watched, NEW t \in Threads, LoadHandle(t)
  PROVE  PollInv'
<1>1. TypeOK'
  BY DEF LoadHandle, Goto, PollInv, TypeOK, Watched
<1>2. StoredInv'
  BY DEF LoadHandle, Goto, PollInv, TypeOK, StoredInv, Fresh
<1>3. NotifyInv'
  BY DEF LoadHandle, Goto, PollInv, TypeOK, StoredInv, NotifyInv, OnTheWay
<1>4. SwapInv'
  BY DEF LoadHandle, Goto, PollInv, TypeOK, StoredInv, SwapInv, Swapped, Watched
<1> QED
  BY <1>1, <1>2, <1>3, <1>4 DEF PollInv

\* The notification goes to the file that was polled last, or finds that
\* another handle has been stored since.
LEMMA PollNotify ==
  ASSUME PollInv, Watched, NEW t \in Threads, NEW f \in Files, Notify(t, f)
  PROVE  PollInv'
<1>1. TypeOK'
  BY DEF Notify, Return, Goto, PollInv, TypeOK, Watched
<1>2. StoredInv'
  BY PollAssumption DEF Notify, Return, Goto, PollInv, TypeOK, StoredInv, Fresh
<1>3. NotifyInv'
  BY PollAssumption DEF Notify, Return, Goto, StoredInv, PollInv, TypeOK, NotifyInv, OnTheWay
<1>4. SwapInv'
  BY PollAssumption DEF Notify, Return, Goto, PollInv, TypeOK, StoredInv, SwapInv, Swapped, Watched
<1> QED
  BY <1>1, <1>2, <1>3, <1>4 DEF PollInv

LEMMA PollStep == ASSUME PollInv, [Next]_vars PROVE PollInv'
<1>1. CASE UNCHANGED vars
  BY <1>1 DEF vars, PollInv, TypeOK, StoredInv, Fresh, NotifyInv, OnTheWay, SwapInv, Swapped, Inside
<1>2. CASE Next
  <2>1. Watched
    BY <1>2, NextIsWatched DEF PollInv
  <2> QED
    BY <1>2, <2>1, PollReceivePoll, PollReceivePollNotify, PollAddNothing, PollAddLoad,
       PollAddStore, PollDestroy, PollSysPoll, PollSysPollFails, PollReplyPoll, PollGiveUp,
       PollReceiveWrite, PollCopyFails, PollCopy, PollCheck, PollLoadHandle, PollNotify
       DEF Next, Step
<1> QED
  BY <1>1, <1>2

\* The invariant behind the theorems below.
LEMMA PollKept == Spec => []PollInv
  BY PollInitially, PollStep, PTL DEF Spec

(***************************************************************************)
(* Type correctness, races included: nothing but a handle is ever swapped  *)
(* into an Inode.                                                          *)
(***************************************************************************)
THEOREM PollTypeCorrect == Spec => []TypeOK
<1>1. PollInv => TypeOK
  BY DEF PollInv
<1> QED
  BY <1>1, PollKept, PTL

(***************************************************************************)
(* FusePollHandle owns its pointer: as long as no two threads were in      *)
(* AddPollHandle or NotifyPollEvent of the Inode at the same time, nothing *)
(* is freed twice, used after it was freed or leaked, however often any    *)
(* number of files is polled.                                              *)
(***************************************************************************)
THEOREM HandlesAreOwned == Spec => []HandlesHaveOneOwner
<1>1. PollInv => HandlesHaveOneOwner
  <2> SUFFICES ASSUME PollInv, ~overlap
               PROVE  ~uaf /\ (Idle => \A a \in Addrs : heap[a] # NULL <=> a = poll_handle)
    BY DEF HandlesHaveOneOwner
  <2>1. ~uaf /\ Swapped
    BY DEF PollInv, SwapInv
  <2>2. ASSUME Idle, NEW a \in Addrs PROVE heap[a] # NULL <=> a = poll_handle
    <3>1. \A t \in Threads : ph[t] = NULL
      BY <2>2 DEF Idle, PollInv, StoredInv
    <3>2. heap[a] # NULL => a = poll_handle
      BY <2>1, <3>1, PollAssumption DEF Swapped
    <3>3. a = poll_handle => heap[a] # NULL
      BY PollAssumption DEF PollInv, StoredInv
    <3> QED
      BY <3>2, <3>3
  <2> QED
    BY <2>1, <2>2
<1> QED
  BY <1>1, PollKept, PTL

(***************************************************************************)
(* The file whose handle was stored last has been notified of every write  *)
(* since the store, on any number of threads and in any interleaving of    *)
(* Poll and WriteBuf, unless freed memory was used: a thread that finds    *)
(* the handle replaced has loaded one of the same file, or was too early   *)
(* to owe the new file anything.                                           *)
(***************************************************************************)
THEOREM LastWatcherHears == Spec => []LastWatcherIsNotified
<1>1. PollInv => LastWatcherIsNotified
  BY DEF PollInv, NotifyInv, OnTheWay, Idle, LastWatcherIsNotified
<1> QED
  BY <1>1, PollKept, PTL
-----------------------------------------------------------------------------
(***************************************************************************)
(* Mounts.  The variables that own a mount on m, and the invariant: no     *)
(* more mounts than were made, and one owner for each.                     *)
(***************************************************************************)
Held(m) == {o \in Objs : target[o] = m}

MountsInv ==
  /\ MountsTypeOK
  /\ \A m \in Targets : mounts[m] <= made
  /\ EveryMountHasOneOwner

\* A target of ours is held by finitely many variables.
LEMMA HeldIsFinite ==
  ASSUME NEW m
  PROVE  /\ IsFiniteSet(Held(m)) /\ Cardinality(Held(m)) \in Nat
         /\ IsFiniteSet(Held(m)') /\ Cardinality(Held(m)') \in Nat
<1>1. Held(m) \subseteq Objs /\ Held(m)' \subseteq Objs
  BY DEF Held
<1>2. IsFiniteSet(Objs)
  BY MountsAssumption
<1>3. IsFiniteSet(Held(m)) /\ IsFiniteSet(Held(m)')
  BY <1>1, <1>2, FS_Subset
<1> QED
  BY <1>3, FS_CardinalityType

\* The invariant in terms of Held, which is what a step changes.
LEMMA OwnersAreHeld ==
  /\ EveryMountHasOneOwner <=>
       \A m \in Targets :
         /\ mounts[m] <= Cardinality(Held(m)) + (IF param = m THEN 1 ELSE 0)
         /\ ~outside => mounts[m] = Cardinality(Held(m)) + (IF param = m THEN 1 ELSE 0)
  /\ EveryMountHasOneOwner' <=>
       \A m \in Targets :
         /\ mounts'[m] <= Cardinality(Held(m)') + (IF param' = m THEN 1 ELSE 0)
         /\ ~outside' => mounts'[m] = Cardinality(Held(m)') + (IF param' = m THEN 1 ELSE 0)
  BY DEF EveryMountHasOneOwner, Owners, Held

\* A variable that takes the place of another in a set leaves its size alone.
LEMMA SwapKeepsSize ==
  ASSUME NEW S, IsFiniteSet(S), NEW o \in S, NEW p, p \notin S
  PROVE  Cardinality((S \ {o}) \cup {p}) = Cardinality(S)
<1> DEFINE R == S \ {o}
<1>1. IsFiniteSet(R) /\ Cardinality(R) = Cardinality(S) - 1
  BY FS_RemoveElement
<1>2. p \notin R
  OBVIOUS
<1>3. Cardinality(R \cup {p}) = Cardinality(R) + 1
  BY <1>1, <1>2, FS_AddElement
<1>4. Cardinality(S) \in Nat
  BY FS_CardinalityType
<1> QED
  BY <1>1, <1>3, <1>4

LEMMA MountsInitially == MountsInit => MountsInv
<1> SUFFICES ASSUME MountsInit PROVE MountsInv
  OBVIOUS
<1>0. 0 \in 0..MaxMounts /\ 0 \in 0..MaxDepth
  BY MountsAssumption
<1>1. MountsTypeOK /\ \A m \in Targets : mounts[m] <= made
  <2>1. \A m \in Targets : mounts[m] = 0 /\ made = 0
    BY DEF MountsInit
  <2>2. MountsTypeOK
    BY <1>0 DEF MountsInit, MountsTypeOK
  <2> QED
    BY <2>1, <2>2
<1>2. ASSUME NEW m \in Targets PROVE Cardinality(Held(m)) = 0
  <2>1. Held(m) = {}
    BY MountsAssumption DEF MountsInit, Held
  <2> QED
    BY <2>1, FS_EmptySet
<1>3. \A m \in Targets : mounts[m] = 0 /\ param # m
  BY MountsAssumption DEF MountsInit
<1>4. EveryMountHasOneOwner
  BY <1>2, <1>3, OwnersAreHeld
<1> QED
  BY <1>1, <1>4 DEF MountsInv

LEMMA MountsMount ==
  ASSUME MountsInv, NEW o \in Objs, NEW t \in Targets, Mount(o, t)
  PROVE  MountsInv'
<1>1. MountsTypeOK' /\ \A m \in Targets : mounts'[m] <= made'
  BY MountsAssumption DEF MountsInv, MountsTypeOK, Mount
<1>2. Held(t)' = Held(t) \cup {o} /\ o \notin Held(t)
  BY MountsAssumption DEF MountsInv, MountsTypeOK, Mount, Held
<1>3. Cardinality(Held(t)') = Cardinality(Held(t)) + 1
  BY <1>2, HeldIsFinite, FS_AddElement
<1>4. \A m \in Targets \ {t} : Held(m)' = Held(m)
  BY MountsAssumption DEF MountsInv, MountsTypeOK, Mount, Held
<1>5. /\ mounts'[t] = mounts[t] + 1
      /\ \A m \in Targets \ {t} : mounts'[m] = mounts[m]
      /\ \A m \in Targets : mounts[m] \in Nat /\ param # m
      /\ param' = param /\ outside' = outside
  BY MountsAssumption DEF MountsInv, MountsTypeOK, Mount, Runs
<1>6. EveryMountHasOneOwner'
  <2> SUFFICES ASSUME NEW m \in Targets
               PROVE  /\ mounts'[m] <= Cardinality(Held(m)') + (IF param' = m THEN 1 ELSE 0)
                      /\ ~outside' => mounts'[m] = Cardinality(Held(m)') + (IF param' = m THEN 1 ELSE 0)
    BY OwnersAreHeld
  <2>1. /\ mounts[m] <= Cardinality(Held(m))
        /\ ~outside => mounts[m] = Cardinality(Held(m))
        /\ Cardinality(Held(m)) \in Nat
    BY <1>5, OwnersAreHeld, HeldIsFinite DEF MountsInv
  <2>2. CASE m = t
    BY <2>1, <2>2, <1>3, <1>5
  <2>3. CASE m # t
    BY <2>1, <2>3, <1>4, <1>5
  <2> QED
    BY <2>2, <2>3
<1> QED
  BY <1>1, <1>6 DEF MountsInv

LEMMA MountsMove ==
  ASSUME MountsInv, NEW o \in Objs, NEW p \in Objs, o # p, Move(o, p)
  PROVE  MountsInv'
<1>1. MountsTypeOK' /\ \A m \in Targets : mounts'[m] <= made'
  BY MountsAssumption DEF MountsInv, MountsTypeOK, Move
<1>2. ASSUME NEW m \in Targets PROVE Cardinality(Held(m)') = Cardinality(Held(m))
  <2>1. CASE target[o] = m <=> target[p] = m
    <3>1. Held(m)' = Held(m)
      BY <2>1 DEF MountsInv, MountsTypeOK, Move, Held
    <3> QED
      BY <3>1
  <2>2. CASE target[o] = m /\ target[p] # m
    <3>1. Held(m)' = (Held(m) \ {o}) \cup {p} /\ o \in Held(m) /\ p \notin Held(m)
      BY <2>2 DEF MountsInv, MountsTypeOK, Move, Held
    <3> QED
      BY <3>1, HeldIsFinite, SwapKeepsSize
  <2>3. CASE target[o] # m /\ target[p] = m
    <3>1. Held(m)' = (Held(m) \ {p}) \cup {o} /\ p \in Held(m) /\ o \notin Held(m)
      BY <2>3 DEF MountsInv, MountsTypeOK, Move, Held
    <3> QED
      BY <3>1, HeldIsFinite, SwapKeepsSize
  <2> QED
    BY <2>1, <2>2, <2>3
<1>3. mounts' = mounts /\ param' = param /\ outside' = outside
  BY DEF Move
<1>4. EveryMountHasOneOwner'
  BY <1>2, <1>3, OwnersAreHeld DEF MountsInv
<1> QED
  BY <1>1, <1>4 DEF MountsInv

LEMMA MountsDestroy ==
  ASSUME MountsInv, NEW o \in Objs, DestroyMount(o)
  PROVE  MountsInv'
<1>0. PICK t \in Targets : t = target[o]
  BY DEF MountsInv, MountsTypeOK, DestroyMount
<1>1. MountsTypeOK' /\ \A m \in Targets : mounts'[m] <= made'
  BY MountsAssumption DEF MountsInv, MountsTypeOK, DestroyMount
<1>2. Held(t)' = Held(t) \ {o} /\ o \in Held(t)
  BY <1>0, MountsAssumption DEF MountsInv, MountsTypeOK, DestroyMount, Held
<1>3. Cardinality(Held(t)') = Cardinality(Held(t)) - 1
  BY <1>2, HeldIsFinite, FS_RemoveElement
<1>4. \A m \in Targets \ {t} : Held(m)' = Held(m)
  BY <1>0, MountsAssumption DEF MountsInv, MountsTypeOK, DestroyMount, Held
<1>5. /\ mounts' = mounts /\ outside' = outside /\ param' = t
      /\ \A m \in Targets : param # m
  BY <1>0, MountsAssumption DEF DestroyMount, Runs
<1>6. EveryMountHasOneOwner'
  <2> SUFFICES ASSUME NEW m \in Targets
               PROVE  /\ mounts'[m] <= Cardinality(Held(m)') + (IF param' = m THEN 1 ELSE 0)
                      /\ ~outside' => mounts'[m] = Cardinality(Held(m)') + (IF param' = m THEN 1 ELSE 0)
    BY OwnersAreHeld
  <2>1. /\ mounts[m] <= Cardinality(Held(m))
        /\ ~outside => mounts[m] = Cardinality(Held(m))
        /\ Cardinality(Held(m)) \in Nat
    BY <1>5, OwnersAreHeld, HeldIsFinite DEF MountsInv
  <2>2. CASE m = t
    <3>1. Cardinality(Held(m)') + 1 = Cardinality(Held(m))
      BY <2>1, <2>2, <1>3
    <3> QED
      BY <2>1, <2>2, <3>1, <1>5
  <2>3. CASE m # t
    BY <2>1, <2>3, <1>4, <1>5
  <2> QED
    BY <2>2, <2>3
<1> QED
  BY <1>1, <1>6 DEF MountsInv

LEMMA MountsUmount == ASSUME MountsInv, Umount PROVE MountsInv'
<1>0. param \in Targets
  BY DEF MountsInv, MountsTypeOK, Umount
<1>1. MountsTypeOK' /\ \A m \in Targets : mounts'[m] <= made'
  BY <1>0, MountsAssumption DEF MountsInv, MountsTypeOK, Umount
<1>2. \A m \in Targets : Held(m)' = Held(m)
  BY DEF Umount, Held
<1>3. /\ mounts'[param] = mounts[param] - 1
      /\ \A m \in Targets \ {param} : mounts'[m] = mounts[m]
      /\ \A m \in Targets : mounts[m] \in Nat /\ param' # m
      /\ outside' = outside
  BY <1>0, MountsAssumption DEF MountsInv, MountsTypeOK, Umount
<1>4. EveryMountHasOneOwner'
  <2> SUFFICES ASSUME NEW m \in Targets
               PROVE  /\ mounts'[m] <= Cardinality(Held(m)') + (IF param' = m THEN 1 ELSE 0)
                      /\ ~outside' => mounts'[m] = Cardinality(Held(m)') + (IF param' = m THEN 1 ELSE 0)
    BY OwnersAreHeld
  <2>1. /\ mounts[m] <= Cardinality(Held(m)) + (IF param = m THEN 1 ELSE 0)
        /\ ~outside => mounts[m] = Cardinality(Held(m)) + (IF param = m THEN 1 ELSE 0)
        /\ Cardinality(Held(m)) \in Nat
    BY OwnersAreHeld, HeldIsFinite DEF MountsInv
  <2>2. CASE m = param
    BY <2>1, <2>2, <1>2, <1>3
  <2>3. CASE m # param
    BY <2>1, <2>3, <1>2, <1>3
  <2> QED
    BY <2>2, <2>3
<1> QED
  BY <1>1, <1>4 DEF MountsInv

LEMMA MountsUmountFails == ASSUME MountsInv, UmountFails PROVE MountsInv'
  BY MountsAssumption
     DEF MountsInv, MountsTypeOK, UmountFails, EveryMountHasOneOwner, Owners

LEMMA MountsOthersUnmount ==
  ASSUME MountsInv, NEW t \in Targets, OthersUnmount(t)
  PROVE  MountsInv'
<1>1. MountsTypeOK' /\ \A m \in Targets : mounts'[m] <= made'
  BY MountsAssumption DEF MountsInv, MountsTypeOK, OthersUnmount
<1>2. \A m \in Targets : Held(m)' = Held(m)
  BY DEF OthersUnmount, Held
<1>3. /\ \A m \in Targets : mounts[m] \in Nat /\ mounts'[m] \in Nat /\ mounts'[m] <= mounts[m]
      /\ outside' /\ param' = param
  BY MountsAssumption DEF MountsInv, MountsTypeOK, OthersUnmount
<1>4. EveryMountHasOneOwner'
  BY <1>2, <1>3, OwnersAreHeld, HeldIsFinite DEF MountsInv
<1> QED
  BY <1>1, <1>4 DEF MountsInv

LEMMA MountsStep == ASSUME MountsInv, [MountsNext]_mountVars PROVE MountsInv'
<1>1. CASE UNCHANGED mountVars
  BY <1>1 DEF MountsInv, MountsTypeOK, EveryMountHasOneOwner, Owners, mountVars
<1>2. CASE MountsNext
  BY <1>2, MountsMount, MountsMove, MountsDestroy, MountsUmount, MountsUmountFails,
     MountsOthersUnmount DEF MountsNext
<1> QED
  BY <1>1, <1>2

\* The invariant behind the theorems below.
LEMMA MountsKept == MountsSpec => []MountsInv
  BY MountsInitially, MountsStep, PTL DEF MountsSpec

(***************************************************************************)
(* Type correctness of Mount: an object is empty or holds a target, no     *)
(* more mounts are out than were made, and umount stays within the stack,  *)
(* however the objects are moved, assigned and destroyed.                  *)
(***************************************************************************)
THEOREM MountsTypeCorrect == MountsSpec => []MountsTypeOK
<1>1. MountsInv => MountsTypeOK
  BY DEF MountsInv
<1> QED
  BY <1>1, MountsKept, PTL

(***************************************************************************)
(* A Mount owns its target: with any number of variables and mount points, *)
(* however Mounts are moved and however often an unmount fails, each mount *)
(* has one owner that will undo it, and no owner stands for a mount that   *)
(* is gone, unless others unmounted it.                                    *)
(***************************************************************************)
THEOREM MountsAreOwned == MountsSpec => []EveryMountHasOneOwner
<1>1. MountsInv => EveryMountHasOneOwner
  BY DEF MountsInv
<1> QED
  BY <1>1, MountsKept, PTL
=============================================================================
