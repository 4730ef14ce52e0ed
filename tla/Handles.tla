------------------------------ MODULE Handles ------------------------------
(***************************************************************************)
(* File handles: class FileDescriptor (fd.cc), class Directory (dir.cc),   *)
(* the system calls that open and close (syscalls.cc) and the handlers of  *)
(* page_align_fs.cc that make, use and release a fuse_file_info::fh.       *)
(*                                                                         *)
(* The fh of an open file is the number of a descriptor, the fh of an open *)
(* directory the address of a Directory on the heap.  Each travels to the  *)
(* kernel in a reply that may fail, and comes back in later requests, on   *)
(* any thread.  The numbers are shared with the Inodes, whose descriptors  *)
(* come and go, and the kernel uses the lowest free one again at once: a   *)
(* descriptor closed twice, or used after it was closed, is another file.  *)
(***************************************************************************)
EXTENDS Naturals, FiniteSets

CONSTANTS
  Threads,  \* the threads of the session loop
  MaxFd,    \* the highest descriptor number (RLIMIT_NOFILE)
  FileIds,  \* identities of open file descriptions: of files
  DirIds,   \* ... and of directories
  Addrs,    \* addresses of Directory objects
  NULL      \* no descriptor, no Directory, no request

Fds == 0..MaxFd

Ids == FileIds \cup DirIds

\* The handlers.  UseFile is any of Read, WriteBuf, FSync and SetAttr, UseDir
\* any of ReadDir, ReadDirPlus and FSyncDir.
Openers == {"Open", "Create", "OpenDir"}
FileUsers == {"UseFile", "Flush", "Release"}
DirUsers == {"UseDir", "ReleaseDir"}
Releasers == {"Release", "ReleaseDir"}

\* An open file of the kernel, with the fuse_file_info::fh it was given.
Handle == [id : Ids, kind : {"file"}, fh : Fds] \cup [id : Ids, kind : {"dir"}, fh : Addrs]

ASSUME HandlesAssumption ==
  /\ MaxFd \in Nat \ {0}
  /\ NULL \notin Fds \cup Ids \cup Addrs \cup Handle \cup {"std", "root", "inode"}
  /\ 0 \notin Addrs  \* operator new never returns a null pointer
  /\ Ids \cap {"std", "root", "inode"} = {}
  /\ FileIds \cap DirIds = {}

VARIABLES
  fdt,      \* kernel: the open file description of each descriptor
  handles,  \* kernel: the open files, with the fh it was given for each
  dirs,     \* the heap: the descriptor of the DIR in each Directory
  rootFd,   \* the descriptor of PageAlignFS::root_
  inodeFd,  \* the descriptor of an Inode of the cache, NULL if it is empty
  pc,       \* the next step of a thread
  op,       \* the operation it serves
  cur,      \* the open file the request is about: its fuse_file_info
  fd_,      \* the FileDescriptor on its stack, NULL for -1
  dir_      \* the Directory it has allocated and not yet handed over

locals == <<pc, op, cur, fd_, dir_>>
vars == <<fdt, handles, dirs, rootFd, inodeFd, locals>>

(***************************************************************************)
(* Types of the state; "std" is one of the standard streams.               *)
(***************************************************************************)
TypeOK ==
  /\ fdt \in [Fds -> Ids \cup {"std", "root", "inode", NULL}]
  /\ handles \subseteq Handle
  /\ dirs \in [Addrs -> Fds \cup {NULL}]
  /\ rootFd \in Fds
  /\ inodeFd \in Fds \cup {NULL}
  /\ pc \in [Threads -> {"loop", "open", "lookup", "fdopendir", "reply",
                         "release", "destroy", "dup", "use", "close"}]
  /\ op \in [Threads -> Openers \cup FileUsers \cup DirUsers]
  /\ cur \in [Threads -> Handle \cup {NULL}]
  /\ fd_ \in [Threads -> Fds \cup {NULL}]
  /\ dir_ \in [Threads -> Addrs \cup {NULL}]

(***************************************************************************)
(* When the session loop starts the standard streams (number 0 stands for  *)
(* them) are open, because fuse_session_mount sees to it.  PageAlignFS::   *)
(* Create has opened the source directory before that: if the program was  *)
(* started with its standard input closed, root_ got number 0.             *)
(***************************************************************************)
InitStdinClosed ==
  /\ rootFd = 1
  /\ fdt = [n \in Fds |-> IF n = rootFd THEN "root" ELSE NULL]
  /\ handles = {}
  /\ dirs = [a \in Addrs |-> NULL]
  /\ inodeFd = NULL
  /\ pc = [t \in Threads |-> "loop"]
  /\ op = [t \in Threads |-> "Open"]
  /\ cur = [t \in Threads |-> NULL]
  /\ fd_ = [t \in Threads |-> NULL]
  /\ dir_ = [t \in Threads |-> NULL]

Init ==
  /\ rootFd \in {0, 1}
  /\ fdt = [n \in Fds |-> IF n = rootFd THEN "root" ELSE IF n = 0 THEN "std" ELSE NULL]
  /\ handles = {}
  /\ dirs = [a \in Addrs |-> NULL]
  /\ inodeFd = NULL
  /\ pc = [t \in Threads |-> "loop"]
  /\ op = [t \in Threads |-> "Open"]
  /\ cur = [t \in Threads |-> NULL]
  /\ fd_ = [t \in Threads |-> NULL]
  /\ dir_ = [t \in Threads |-> NULL]
-----------------------------------------------------------------------------
Free == {n \in Fds : fdt[n] = NULL}

\* The kernel gives out the lowest number that is free.
Lowest == CHOOSE n \in Free : \A m \in Free : n <= m

Held == {cur[t] : t \in Threads} \ {NULL}

\* An identity that nothing refers to.
FreshId(i) ==
  /\ \A n \in Fds : fdt[n] # i
  /\ \A h \in handles \cup Held : h.id # i

Goto(t, p) == pc' = [pc EXCEPT ![t] = p]

\* The handler returns, and its locals are gone.
Return(t) ==
  /\ Goto(t, "loop")
  /\ op' = [op EXCEPT ![t] = "Open"]
  /\ cur' = [cur EXCEPT ![t] = NULL]
  /\ fd_' = [fd_ EXCEPT ![t] = NULL]
  /\ dir_' = [dir_ EXCEPT ![t] = NULL]

\* syscalls::close: the FileDescriptor gives up its number first, and Linux
\* frees the number whether or not close reports an error.
Closed(n) == [fdt EXCEPT ![n] = NULL]
-----------------------------------------------------------------------------
\* The kernel asks to open something.
Receive(t, o) ==
  /\ pc[t] = "loop"
  /\ op' = [op EXCEPT ![t] = o]
  /\ Goto(t, "open")
  /\ UNCHANGED <<fdt, handles, dirs, rootFd, inodeFd, cur, fd_, dir_>>

(***************************************************************************)
(* The kernel sends a request about an open file.  It sends RELEASE once,  *)
(* when no other request about the file is under way.                      *)
(***************************************************************************)
ReceiveOn(t, o, h) ==
  /\ pc[t] = "loop"
  /\ h \in handles
  /\ o \in IF h.kind = "file" THEN FileUsers ELSE DirUsers
  /\ o \in Releasers => \A g \in Held : g.id # h.id
  /\ op' = [op EXCEPT ![t] = o]
  /\ cur' = [cur EXCEPT ![t] = h]
  /\ handles' = IF o \in Releasers THEN handles \ {h} ELSE handles
  /\ Goto(t, IF o = "Flush" THEN "dup" ELSE IF o \in Releasers THEN "close" ELSE "use")
  /\ UNCHANGED <<fdt, dirs, rootFd, inodeFd, fd_, dir_>>

\* syscalls::open and openat in Open, Create and OpenDir: an error, or a
\* FileDescriptor on the stack whose number goes to fi.fh.
OpenFails(t) ==
  /\ pc[t] = "open"
  /\ Return(t)
  /\ UNCHANGED <<fdt, handles, dirs, rootFd, inodeFd>>

AfterOpen == [Open |-> "reply", Create |-> "lookup", OpenDir |-> "fdopendir"]

OpenSucceeds(t, i) ==
  /\ pc[t] = "open"
  /\ Free # {}
  /\ i \in IF op[t] = "OpenDir" THEN DirIds ELSE FileIds
  /\ FreshId(i)
  /\ fdt' = [fdt EXCEPT ![Lowest] = i]
  /\ fd_' = [fd_ EXCEPT ![t] = Lowest]
  /\ Goto(t, AfterOpen[op[t]])
  /\ UNCHANGED <<handles, dirs, rootFd, inodeFd, op, cur, dir_>>

\* Create: ReplyWithCreate looks the new file up, which may fail.
LookUp(t) ==
  /\ pc[t] = "lookup"
  /\ \E p \in {"reply", "destroy"} : Goto(t, p)
  /\ UNCHANGED <<fdt, handles, dirs, rootFd, inodeFd, op, cur, fd_, dir_>>

(***************************************************************************)
(* OpenDir: syscalls::fdopendir gives up the FileDescriptor before it      *)
(* knows whether the call succeeds.  If it does, the Directory goes to the *)
(* heap and its address to fi.fh.                                          *)
(***************************************************************************)
FdOpenDirFails(t) ==
  /\ pc[t] = "fdopendir"
  /\ Return(t)
  /\ UNCHANGED <<fdt, handles, dirs, rootFd, inodeFd>>

FdOpenDirSucceeds(t, a) ==
  /\ pc[t] = "fdopendir"
  /\ dirs[a] = NULL
  /\ dirs' = [dirs EXCEPT ![a] = fd_[t]]
  /\ dir_' = [dir_ EXCEPT ![t] = a]
  /\ fd_' = [fd_ EXCEPT ![t] = NULL]
  /\ Goto(t, "reply")
  /\ UNCHANGED <<fdt, handles, rootFd, inodeFd, op, cur>>

(***************************************************************************)
(* ReplyOpen and ReplyCreate.  Once the reply is sent the kernel has the   *)
(* file: another thread may be asked to release it before this one goes    *)
(* on.  Open and Create give up their FileDescriptor only after a reply    *)
(* that succeeded; after one that failed its destructor closes it.         *)
(* OpenDir does nothing more in either case.                               *)
(***************************************************************************)
Given(t) ==
  IF op[t] = "OpenDir"
    THEN [id |-> fdt[dirs[dir_[t]]], kind |-> "dir", fh |-> dir_[t]]
    ELSE [id |-> fdt[fd_[t]], kind |-> "file", fh |-> fd_[t]]

ReplySentClosesFd(t) ==
  /\ pc[t] = "reply"
  /\ handles' = handles \cup {Given(t)}
  /\ IF op[t] = "OpenDir"
       THEN Return(t)
       ELSE Goto(t, "destroy") /\ UNCHANGED <<op, cur, fd_, dir_>>
  /\ UNCHANGED <<fdt, dirs, rootFd, inodeFd>>

ReplySent(t) ==
  /\ pc[t] = "reply"
  /\ handles' = handles \cup {Given(t)}
  /\ IF op[t] = "OpenDir"
       THEN Return(t)
       ELSE Goto(t, "release") /\ UNCHANGED <<op, cur, fd_, dir_>>
  /\ UNCHANGED <<fdt, dirs, rootFd, inodeFd>>

ReplyFailsReleasesFd(t) ==
  /\ pc[t] = "reply"
  /\ Return(t)
  /\ UNCHANGED <<fdt, handles, dirs, rootFd, inodeFd>>

ReplyFails(t) ==
  /\ pc[t] = "reply"
  /\ IF op[t] = "OpenDir"
       THEN Return(t)
       ELSE Goto(t, "destroy") /\ UNCHANGED <<op, cur, fd_, dir_>>
  /\ UNCHANGED <<fdt, handles, dirs, rootFd, inodeFd>>

\* std::move(fd).Release() at the end of Open and Create.
ReleaseFd(t) ==
  /\ pc[t] = "release"
  /\ Return(t)
  /\ UNCHANGED <<fdt, handles, dirs, rootFd, inodeFd>>

\* ~FileDescriptor, and the close of the duplicate in Flush.
DestroyFd(t) ==
  /\ pc[t] = "destroy"
  /\ fdt' = Closed(fd_[t])
  /\ Return(t)
  /\ UNCHANGED <<handles, dirs, rootFd, inodeFd>>

(***************************************************************************)
(* Flush duplicates the descriptor and closes the duplicate, for the sake  *)
(* of the errors that close reports.                                       *)
(***************************************************************************)
DupFails(t) ==
  /\ pc[t] = "dup"
  /\ Return(t)
  /\ UNCHANGED <<fdt, handles, dirs, rootFd, inodeFd>>

DupSucceeds(t) ==
  /\ pc[t] = "dup"
  /\ Free # {}
  /\ fdt' = [fdt EXCEPT ![Lowest] = fdt[cur[t].fh]]
  /\ fd_' = [fd_ EXCEPT ![t] = Lowest]
  /\ Goto(t, "destroy")
  /\ UNCHANGED <<handles, dirs, rootFd, inodeFd, op, cur, dir_>>

\* The other handlers use the descriptor of the handle and leave it open.
Use(t) ==
  /\ pc[t] = "use"
  /\ Return(t)
  /\ UNCHANGED <<fdt, handles, dirs, rootFd, inodeFd>>

\* Release: a FileDescriptor is made from fi.fh and closed.
CloseFile(t) ==
  /\ pc[t] = "close"
  /\ op[t] = "Release"
  /\ fdt' = Closed(cur[t].fh)
  /\ Return(t)
  /\ UNCHANGED <<handles, dirs, rootFd, inodeFd>>

\* ReleaseDir: ~Directory, which closes the DIR and with it the descriptor.
CloseDir(t) ==
  /\ pc[t] = "close"
  /\ op[t] = "ReleaseDir"
  /\ fdt' = Closed(dirs[cur[t].fh])
  /\ dirs' = [dirs EXCEPT ![cur[t].fh] = NULL]
  /\ Return(t)
  /\ UNCHANGED <<handles, rootFd, inodeFd>>

\* The InodeCache opens the descriptor of an Inode and closes it again.
InodeOpens ==
  /\ inodeFd = NULL
  /\ Free # {}
  /\ fdt' = [fdt EXCEPT ![Lowest] = "inode"]
  /\ inodeFd' = Lowest
  /\ UNCHANGED <<handles, dirs, rootFd, locals>>

InodeCloses ==
  /\ inodeFd # NULL
  /\ fdt' = Closed(inodeFd)
  /\ inodeFd' = NULL
  /\ UNCHANGED <<handles, dirs, rootFd, locals>>
-----------------------------------------------------------------------------
ThreadStep(t) ==
  \/ OpenFails(t) \/ \E i \in Ids : OpenSucceeds(t, i)
  \/ LookUp(t)
  \/ FdOpenDirFails(t) \/ \E a \in Addrs : FdOpenDirSucceeds(t, a)
  \/ ReplySent(t) \/ ReplyFails(t)
  \/ ReleaseFd(t) \/ DestroyFd(t)
  \/ DupFails(t) \/ DupSucceeds(t)
  \/ Use(t) \/ CloseFile(t) \/ CloseDir(t)

Next ==
  \/ \E t \in Threads :
       \/ ThreadStep(t)
       \/ \E o \in Openers : Receive(t, o)
       \/ \E h \in handles, o \in FileUsers \cup DirUsers : ReceiveOn(t, o, h)
  \/ InodeOpens \/ InodeCloses

Spec == Init /\ [][Next]_vars
-----------------------------------------------------------------------------
IsOpenOn(h) ==
  IF h.kind = "file"
    THEN fdt[h.fh] = h.id
    ELSE dirs[h.fh] # NULL /\ fdt[dirs[h.fh]] = h.id

(***************************************************************************)
(* Whatever is opened, released and reused on other threads, the handle of *)
(* an open file leads to the file it was made for until its own Release    *)
(* closes it, and the descriptors of the Inodes lead to theirs: no close   *)
(* hits a number twice, or one that has been given to somebody else.       *)
(***************************************************************************)
DescriptorsKeepTheirFiles ==
  /\ \A h \in handles \cup Held : IsOpenOn(h)
  /\ \A t \in Threads : pc[t] \in {"destroy", "fdopendir"} => fdt[fd_[t]] \in Ids
  /\ fdt[rootFd] = "root"
  /\ inodeFd # NULL => fdt[inodeFd] = "inode"

(***************************************************************************)
(* SetAttr takes fi.fh = 0 for "the file is not open" (page_align_fs.cc    *)
(* line 88) and would then change the file through another descriptor,     *)
(* one that cannot be written to.  No open file ever has handle 0, because *)
(* 0 belongs to a standard stream or to root_ and nobody closes those.     *)
(***************************************************************************)
NoHandleIsZero == \A h \in handles \cup Held : h.fh # 0

\* Descriptors that somebody will still close, or that stay for good.
Reachable ==
  {rootFd, inodeFd} \cup {fd_[t] : t \in Threads}
    \cup {h.fh : h \in {g \in handles \cup Held : g.kind = "file"}}
    \cup {dirs[h.fh] : h \in {g \in handles \cup Held : g.kind = "dir"}}
    \cup {dirs[dir_[t]] : t \in {u \in Threads : dir_[u] # NULL}}

Leaked == {n \in Fds : fdt[n] \notin {NULL, "std"} /\ n \notin Reachable}

(***************************************************************************)
(* "Note that a failure to close is not recoverable. We must leak the fd." *)
(* (fd.cc:14) names the one case in which a descriptor may be leaked.      *)
(* OpenDir leaks what it opened in two more, when fdopendir or its reply   *)
(* fails; what Open, Create and Flush open never is leaked: whatever fails *)
(* and on whatever thread, someone is left to close it.                    *)
(***************************************************************************)
OnlyOpenDirLeaks == \A n \in Leaked : fdt[n] \in DirIds
=============================================================================
