-------------------------------- MODULE Poll --------------------------------
(***************************************************************************)
(* Poll notification: PageAlignFS::Poll and the end of WriteBuf            *)
(* (page_align_fs.cc), Inode::AddPollHandle and NotifyPollEvent (inode.cc) *)
(* and class FusePollHandle (fuse.cc), for one Inode.                      *)
(*                                                                         *)
(* A process polls an open file.  If it is going to wait the kernel asks   *)
(* for a notification, and libfuse passes a fuse_pollhandle for that file. *)
(* The Inode keeps one such handle, with all the files open on it: a new   *)
(* one takes the place of the old one, which is freed.  WriteBuf notifies  *)
(* through the handle that is there, after its reply.  Nothing keeps two   *)
(* threads from doing these things at the same time.                       *)
(*                                                                         *)
(* The poll system call is made on the path-only descriptor of the Inode   *)
(* and answers POLLNVAL, which the kernel does not pass on: nobody learns  *)
(* anything from the reply, of what was written before the handle was      *)
(* stored either, and all depends on the notification.                     *)
(***************************************************************************)
EXTENDS Naturals, FiniteSets

CONSTANTS
  Threads,  \* threads of the session loop
  Files,    \* open files of the Inode
  Addrs,    \* addresses of fuse_pollhandles
  NULL      \* no handle, no file

ASSUME PollAssumption ==
  /\ IsFiniteSet(Threads)
  /\ NULL \notin Files \cup Addrs

VARIABLES
  heap,         \* the open file of each allocated fuse_pollhandle
  poll_handle,  \* Inode::poll_handle_
  pc,           \* thread: what it does next
  file,         \* thread: the open file that is polled
  ph,           \* thread: the FusePollHandle in hand
  old,          \* thread: what a swap, or a notification, has loaded
  watching,     \* kernel: files with a process that waits for an event
  owed,         \* history: those of them that are to be told of a write
  last,         \* history: the file whose handle was stored last
  uaf,          \* history: freed memory was used, or freed again
  overlap       \* history: two threads used poll_handle_ at the same time

vars == <<heap, poll_handle, pc, file, ph, old, watching, owed, last, uaf, overlap>>

(***************************************************************************)
(* Types of the state.                                                     *)
(***************************************************************************)
TypeOK ==
  /\ heap \in [Addrs -> Files \cup {NULL}]
  /\ poll_handle \in Addrs \cup {NULL}
  /\ pc \in [Threads -> {"loop", "add", "store", "destroy", "poll", "replyPoll",
                         "copy", "check", "load", "notify"}]
  /\ file \in [Threads -> Files \cup {NULL}]
  /\ ph \in [Threads -> Addrs \cup {NULL}]
  /\ old \in [Threads -> Addrs \cup {NULL}]
  /\ watching \subseteq Files
  /\ owed \subseteq watching
  /\ last \in Files \cup {NULL}
  /\ uaf \in BOOLEAN
  /\ overlap \in BOOLEAN

Init ==
  /\ heap = [a \in Addrs |-> NULL]
  /\ poll_handle = NULL
  /\ pc = [t \in Threads |-> "loop"]
  /\ file = [t \in Threads |-> NULL]
  /\ ph = [t \in Threads |-> NULL]
  /\ old = [t \in Threads |-> NULL]
  /\ watching = {}
  /\ owed = {}
  /\ last = NULL
  /\ uaf = FALSE
  /\ overlap = FALSE

Goto(t, p) == pc' = [pc EXCEPT ![t] = p]

Return(t) ==
  /\ Goto(t, "loop")
  /\ file' = [file EXCEPT ![t] = NULL]
  /\ old' = [old EXCEPT ![t] = NULL]

\* The process that waits for the file gives up, or is told something.
StopsWatching(f) ==
  /\ watching' = watching \ {f}
  /\ owed' = owed \ {f}
-----------------------------------------------------------------------------
\* The kernel asks about an open file, with or without a notification to come.
ReceivePoll(t, f) ==
  /\ pc[t] = "loop"
  /\ file' = [file EXCEPT ![t] = f]
  /\ Goto(t, "add")
  /\ UNCHANGED <<heap, poll_handle, ph, old, watching, owed, last, uaf>>

\* Memory that somebody still points to is not used again, so that every use
\* of it after it was freed is seen; Notify reads anything from it.
Unused(a) ==
  /\ heap[a] = NULL
  /\ poll_handle # a
  /\ \A t \in Threads : a \notin {ph[t], old[t]}

ReceivePollNotify(t, f, a) ==
  /\ pc[t] = "loop"
  /\ Unused(a)
  /\ heap' = [heap EXCEPT ![a] = f]
  /\ ph' = [ph EXCEPT ![t] = a]
  /\ file' = [file EXCEPT ![t] = f]
  /\ watching' = watching \cup {f}
  /\ Goto(t, "add")
  /\ UNCHANGED <<poll_handle, old, owed, last, uaf>>

(***************************************************************************)
(* Inode::AddPollHandle: operator= swaps the two handles, in a load and a  *)
(* store, and the destructor of the parameter frees what was there before. *)
(***************************************************************************)
AddNothing(t) ==
  /\ pc[t] = "add"
  /\ ph[t] = NULL
  /\ Goto(t, "poll")
  /\ UNCHANGED <<heap, poll_handle, file, ph, old, watching, owed, last, uaf>>

AddLoad(t) ==
  /\ pc[t] = "add"
  /\ ph[t] # NULL
  /\ old' = [old EXCEPT ![t] = poll_handle]
  /\ Goto(t, "store")
  /\ UNCHANGED <<heap, poll_handle, file, ph, watching, owed, last, uaf>>

\* A file becomes the one to be notified with the store of its handle.  What
\* was written between the request and the store went to the handle before.
Begins(f) == owed' = IF last = f THEN owed ELSE owed \ {f}

\* Assigns the pointer and leaves both sides with the new handle.
AddStoreCopies(t) ==
  /\ pc[t] = "store"
  /\ poll_handle' = ph[t]
  /\ last' = file[t]
  /\ Begins(file[t])
  /\ Goto(t, "destroy")
  /\ UNCHANGED <<heap, file, ph, old, watching, uaf>>

\* Keeps the handle that is there.
AddStoreKeepsFirst(t) ==
  /\ pc[t] = "store"
  /\ poll_handle' = IF poll_handle = NULL THEN ph[t] ELSE poll_handle
  /\ ph' = IF poll_handle = NULL THEN [ph EXCEPT ![t] = NULL] ELSE ph
  /\ last' = file[t]
  /\ Begins(file[t])
  /\ Goto(t, "destroy")
  /\ UNCHANGED <<heap, file, old, watching, uaf>>

AddStore(t) ==
  /\ pc[t] = "store"
  /\ poll_handle' = ph[t]
  /\ ph' = [ph EXCEPT ![t] = old[t]]
  /\ last' = file[t]
  /\ Begins(file[t])
  /\ Goto(t, "destroy")
  /\ UNCHANGED <<heap, file, old, watching, uaf>>

Destroy(t) ==
  /\ pc[t] = "destroy"
  /\ IF ph[t] = NULL
       THEN UNCHANGED <<heap, uaf>>
       ELSE /\ heap' = [heap EXCEPT ![ph[t]] = NULL]
            /\ uaf' = (uaf \/ heap[ph[t]] = NULL)
  /\ ph' = [ph EXCEPT ![t] = NULL]
  /\ old' = [old EXCEPT ![t] = NULL]
  /\ Goto(t, "poll")
  /\ UNCHANGED <<poll_handle, file, watching, owed, last>>

\* The poll system call, on the O_PATH descriptor: POLLNVAL, whatever has been
\* written to the file.
SysPoll(t) ==
  /\ pc[t] = "poll"
  /\ Goto(t, "replyPoll")
  /\ UNCHANGED <<heap, poll_handle, file, ph, old, watching, owed, last, uaf>>

\* It fails, and the kernel reports an error; the handle stays.
SysPollFails(t) ==
  /\ pc[t] = "poll"
  /\ StopsWatching(file[t])
  /\ Return(t)
  /\ UNCHANGED <<heap, poll_handle, ph, last, uaf>>

ReplyPoll(t) ==
  /\ pc[t] = "replyPoll"
  /\ Return(t)
  /\ UNCHANGED <<heap, poll_handle, ph, watching, owed, last, uaf>>

\* The process is interrupted, its poll times out, or the file is closed.
GiveUp(f) ==
  /\ f \in watching
  /\ \A t \in Threads : file[t] # f
  /\ StopsWatching(f)
  /\ UNCHANGED <<heap, poll_handle, pc, file, ph, old, last, uaf>>
-----------------------------------------------------------------------------
\* WriteBuf: the data is written, the kernel gets its reply, and then the
\* Inode notifies.
ReceiveWrite(t) ==
  /\ pc[t] = "loop"
  /\ Goto(t, "copy")
  /\ UNCHANGED <<heap, poll_handle, file, ph, old, watching, owed, last, uaf>>

CopyFails(t) ==
  /\ pc[t] = "copy"
  /\ Return(t)
  /\ UNCHANGED <<heap, poll_handle, ph, watching, owed, last, uaf>>

Copy(t) ==
  /\ pc[t] = "copy"
  /\ owed' = watching
  /\ Goto(t, "check")
  /\ UNCHANGED <<heap, poll_handle, file, ph, old, watching, last, uaf>>

\* Inode::NotifyPollEvent.
Check(t) ==
  /\ pc[t] = "check"
  /\ IF poll_handle = NULL THEN Return(t) ELSE Goto(t, "load") /\ UNCHANGED <<file, old>>
  /\ UNCHANGED <<heap, poll_handle, ph, watching, owed, last, uaf>>

LoadHandle(t) ==
  /\ pc[t] = "load"
  /\ old' = [old EXCEPT ![t] = poll_handle]
  /\ Goto(t, "notify")
  /\ UNCHANGED <<heap, poll_handle, file, ph, watching, owed, last, uaf>>

\* fuse_lowlevel_notify_poll reads the file in the handle.  Freed memory may
\* hold anything.
Notify(t, f) ==
  /\ pc[t] = "notify"
  /\ heap[old[t]] \in {f, NULL}
  /\ uaf' = (uaf \/ heap[old[t]] = NULL)
  /\ owed' = owed \ {f}
  /\ Return(t)
  /\ UNCHANGED <<heap, poll_handle, ph, watching, last>>

Step ==
  \/ \E t \in Threads :
       \/ \E f \in Files : ReceivePoll(t, f) \/ \E a \in Addrs : ReceivePollNotify(t, f, a)
       \/ AddNothing(t) \/ AddLoad(t) \/ AddStore(t) \/ Destroy(t)
       \/ SysPoll(t) \/ SysPollFails(t) \/ ReplyPoll(t)
       \/ ReceiveWrite(t) \/ CopyFails(t) \/ Copy(t)
       \/ Check(t) \/ LoadHandle(t) \/ \E f \in Files : Notify(t, f)
  \/ \E f \in Files : GiveUp(f)

\* Threads in the middle of AddPollHandle or of NotifyPollEvent.
Inside == {t \in Threads : pc[t] \in {"store", "destroy", "load", "notify"}}

Next == Step /\ overlap' = (overlap \/ Cardinality(Inside') > 1)

Spec == Init /\ [][Next]_vars
-----------------------------------------------------------------------------
Idle == \A t \in Threads : pc[t] = "loop"

(***************************************************************************)
(* "Assumes ownership of the pollhandle." (fuse.h:111): the owner alone    *)
(* frees a handle, nobody uses one that is freed, and none is leaked,      *)
(* however often and on whatever thread files are polled again.  This      *)
(* holds as long as no two threads are in AddPollHandle or NotifyPollEvent *)
(* of the Inode at the same time, which nothing in the code prevents.      *)
(***************************************************************************)
HandlesHaveOneOwner ==
  ~overlap => ~uaf /\ (Idle => \A a \in Addrs : heap[a] # NULL <=> a = poll_handle)

(***************************************************************************)
(* "Notify watchers of this handle that a pollable event has occurred."    *)
(* (fuse.h:123).  The file whose handle was stored last has been notified  *)
(* of every write since the store, whatever other polls and writes go on   *)
(* meanwhile, unless freed memory was used.  Of the files polled before it *)
(* this is not true, their handle is gone; nor of a write between the      *)
(* arrival of the request and the store, which the poll system call that   *)
(* follows does not report either.                                         *)
(***************************************************************************)
LastWatcherIsNotified == Idle /\ ~uaf => last \notin owed
=============================================================================
