---------------------------- MODULE PageAlignFS ----------------------------
(***************************************************************************)
(* class PageAlignFS (page_align_fs.cc): the handlers through which the    *)
(* kernel comes to know inodes, uses them and forgets them, run by the     *)
(* threads of the session loop over the shared InodeCache.                 *)
(*                                                                         *)
(* The kernel and the source file system are the environment.  The kernel  *)
(* counts, per node id, the entries it was successfully sent (its lookup   *)
(* count) and gives the count back in FORGET messages.  The source tree    *)
(* changes under pafs at any moment: files appear and vanish, and the      *)
(* number of a file that no name and no descriptor refers to is reused.    *)
(* Names are abstracted away: a name resolves to any file that is linked   *)
(* when it is opened.                                                      *)
(***************************************************************************)
EXTENDS InodeCache

CONSTANTS
  Dirs,        \* the files that are directories
  Fifos,       \* the files that are FIFOs
  Devs,        \* source devices
  DevOf,       \* the device part of a key
  RootFile,    \* the source directory, held open by root_
  ROOT,        \* FUSE_ROOT_ID
  Ops,         \* the requests the kernel sends besides FORGET
  MaxEntries,  \* bound: entries one ReadDir request walks over
  MaxRefs      \* bound: references to an inode beyond which the kernel asks for no more

\* The handlers that end in ReplyWithLookup or ReplyWithCreate.
MakeOps == {"Mknod", "Mkdir", "Symlink", "Link", "Create"}
EntryOps == {"Lookup"} \cup MakeOps
DirOps == {"ReadDir", "ReadDirPlus"}
NameOps == {"Unlink", "Rmdir", "Rename"}
UseOps == {"GetAttr", "WriteBuf"}

ASSUME FSAssumption ==
  /\ Dirs \subseteq Files
  /\ Fifos \subseteq Files \ Dirs
  /\ DevOf \in [Keys -> Devs]
  /\ RootFile \in Dirs
  /\ ROOT \notin Addrs
  /\ ROOT # NULL
  /\ Ops \subseteq EntryOps \cup DirOps \cup NameOps \cup UseOps
  /\ MaxEntries \in Nat \ {0}
  /\ MaxRefs \in Nat \ {0}

VARIABLES
  pc,         \* where the handler a thread runs has got to
  op,         \* which handler that is
  node,       \* the node id it was called with
  parent,     \* the directory the name is in (the second node id of Link
              \* and Rename, the only one of the others)
  found,      \* the file Inode::Create has opened
  idx,        \* which directory entry it is at (1 outside ReadDirInternal)
  replied,    \* the threads that have attempted a reply: req_ is empty
  sharedPtr,  \* per thread and entry: the shared_ptr<Inode> Insert returned
  kernelRef,  \* per thread and entry: the Ref made on behalf of the kernel
              \* that an absl::Cleanup still stands ready to undo
  dot,        \* the threads and entries whose name is "." or ".."
  nlookup,    \* kernel: the lookup count of each node id
  forgets,    \* lookups given back in FORGET messages not yet handled
  lost,       \* references that nobody will ever give back
  linked      \* the files that have a name in the source tree

threadVars == <<pc, op, node, parent, found, idx, replied>>
slotVars == <<sharedPtr, kernelRef, dot>>
kernelVars == <<nlookup, forgets, lost>>
vars == <<cacheVars, threadVars, slotVars, kernelVars, linked>>

Nodes == Addrs \cup {ROOT}
Idx == 1..(MaxEntries + 1)
Slots == Threads \X Idx
PCs == {"idle", "make", "find", "insert", "entry", "gen", "add", "ref",
        "readdir", "names", "use", "reply", "notify", "drop", "forgets"}

(***************************************************************************)
(* Types: every variable stays in the range its C++ type gives it.         *)
(***************************************************************************)
TypeOK ==
  /\ CacheTypeOK
  /\ pc \in [Threads -> PCs]
  /\ op \in [Threads -> Ops \cup {NULL}]
  /\ node \in [Threads -> Nodes \cup {NULL}]
  /\ parent \in [Threads -> Nodes \cup {NULL}]
  /\ found \in [Threads -> Files \cup {NULL}]
  /\ idx \in [Threads -> Idx]
  /\ replied \subseteq Threads
  /\ sharedPtr \in [Slots -> Addrs \cup {NULL}]
  /\ kernelRef \in [Slots -> Addrs \cup {NULL}]
  /\ dot \subseteq Slots
  /\ nlookup \in [Addrs -> Nat]
  /\ forgets \in [Addrs -> Nat]
  /\ lost \in [Addrs -> Nat]
  /\ linked \in SUBSET (Files \ {RootFile})

Init ==
  /\ CacheInit
  /\ pc = [t \in Threads |-> "idle"]
  /\ op = [t \in Threads |-> NULL]
  /\ node = [t \in Threads |-> NULL]
  /\ parent = [t \in Threads |-> NULL]
  /\ found = [t \in Threads |-> NULL]
  /\ idx = [t \in Threads |-> 1]
  /\ replied = {}
  /\ sharedPtr = [s \in Slots |-> NULL]
  /\ kernelRef = [s \in Slots |-> NULL]
  /\ dot = {}
  /\ nlookup = [a \in Addrs |-> 0]
  /\ forgets = [a \in Addrs |-> 0]
  /\ lost = [a \in Addrs |-> 0]
  /\ linked = {}
-----------------------------------------------------------------------------
\* GetInode: the Inode a node id stands for, by the file it holds open.
FileOf(n) == IF n = ROOT THEN RootFile ELSE object[n]

\* The slot of the entry that thread t is working on.
Here(t) == <<t, idx[t]>>

\* A file exists while it has a name or somebody holds it open.
Existing(f) ==
  \/ f = RootFile
  \/ f \in linked
  \/ \E a \in Addrs : object[a] = f
  \/ \E t \in Threads : pc[t] = "insert" /\ found[t] = f

\* The source file system gives a new file a number that is not in use.
CanAppear(f) == \A g \in Files : Existing(g) => KeyOf[g] # KeyOf[f]

Known(n) == n = ROOT \/ (n \in Addrs /\ nlookup[n] > 0)

\* The kernel holds on to the inodes a request names until it is answered.
Pinned(a) == \E t \in Threads : pc[t] # "idle" /\ t \notin replied /\ a \in {node[t], parent[t]}

At(t, p) == Ready(t) /\ pc[t] = p

Goto(t, p) == pc' = [pc EXCEPT ![t] = p]

\* Every early return destroys the handler's locals on the way out.
Fail(t) == Goto(t, "drop")
-----------------------------------------------------------------------------
(***************************************************************************)
(* The kernel sends a request on inodes it knows.  Link and Rename name a  *)
(* second inode.                                                           *)
(***************************************************************************)
FirstPc(o) ==
  CASE o \in MakeOps -> "make"
    [] o = "Lookup"  -> "find"
    [] o \in DirOps  -> "readdir"
    [] o \in NameOps -> "names"
    [] OTHER         -> "use"

Receive(t, o, n, p) ==
  /\ At(t, "idle")
  /\ o \in EntryOps \cup {"ReadDirPlus"} => \A a \in Addrs : refcnt[a] < MaxRefs
  /\ Known(n) /\ Known(p)
  /\ o \notin {"Link", "Rename"} => p = n
  /\ o \notin UseOps => FileOf(p) \in Dirs
  /\ o = "Link" => FileOf(n) \notin Dirs
  /\ o = "WriteBuf" => FileOf(n) \notin Dirs
  /\ Goto(t, FirstPc(o))
  /\ op' = [op EXCEPT ![t] = o]
  /\ node' = [node EXCEPT ![t] = n]
  /\ parent' = [parent EXCEPT ![t] = p]
  /\ UNCHANGED <<cacheVars, found, idx, replied, slotVars, kernelVars, linked>>

(***************************************************************************)
(* mknodat, mkdirat, symlinkat, linkat, openat(O_CREAT): the first system  *)
(* call of the handlers that make a name.  Link gives a name to the file   *)
(* of its node, O_CREAT may find the name taken, the others make a file.   *)
(***************************************************************************)
Make(t) ==
  /\ At(t, "make")
  /\ \/ Fail(t) /\ UNCHANGED linked
     \/ /\ op[t] \in {"Link", "Create"}
        /\ Goto(t, "find")
        /\ UNCHANGED linked
     \/ /\ op[t] # "Link"
        /\ Goto(t, "find")
        /\ \E f \in Files : CanAppear(f) /\ linked' = linked \cup {f}
  /\ UNCHANGED <<cacheVars, op, node, parent, found, idx, replied, slotVars, kernelVars>>

(***************************************************************************)
(* FindOrCreateInode, first half: Inode::Create opens the name with O_PATH *)
(* and reads its number.  The name may have been removed or given to       *)
(* another file since the handler made it.                                 *)
(***************************************************************************)
FindEntry(t) ==
  /\ At(t, "find")
  /\ \/ /\ Fail(t)
        /\ UNCHANGED <<found, dot>>
     \/ \E f \in linked \cup {RootFile}, d \in BOOLEAN :
          /\ d => op[t] \in DirOps /\ f \in Dirs
          /\ f = RootFile => d
          /\ found' = [found EXCEPT ![t] = f]
          /\ dot' = IF d THEN dot \cup {Here(t)} ELSE dot \ {Here(t)}
          /\ Goto(t, "insert")
  /\ UNCHANGED <<cacheVars, op, node, parent, idx, replied, sharedPtr, kernelRef, kernelVars, linked>>

\* FindOrCreateInode, second half: the Inode goes into the cache, and is
\* destroyed there if the cache has one for its number already.
InsertEntry(t) ==
  /\ At(t, "insert")
  /\ \E a \in Addrs :
       /\ Insert(t, found[t], a)
       /\ sharedPtr' = [sharedPtr EXCEPT ![Here(t)] = a]
  /\ Goto(t, "entry")
  /\ UNCHANGED <<op, node, parent, found, idx, replied, kernelRef, dot, kernelVars, linked>>

\* What follows CreateFuseEntryParam.
AfterParam(t) == Goto(t, IF op[t] \in EntryOps THEN "ref" ELSE "add")

\* parent.GetSourceDevice() == inode->GetSourceDevice()
SameSource(t) ==
  LET f == FileOf(parent[t])
      g == object[sharedPtr[Here(t)]]
  IN  /\ f # NULL
      /\ g # NULL
      /\ DevOf[KeyOf[f]] = DevOf[KeyOf[g]]

(***************************************************************************)
(* The device check of ReplyWithLookup and ReplyWithCreate (ReadDirInternal*)
(* has none), then CreateFuseEntryParam: Stat, which may fail, and, except *)
(* for a plain ReadDir, the cached generation.                             *)
(***************************************************************************)
EntryParamNoGeneration(t) ==
  /\ At(t, "entry")
  /\ \/ Fail(t)
     \/ /\ op[t] \in EntryOps => SameSource(t)
        /\ AfterParam(t)
  /\ UNCHANGED <<cacheVars, op, node, parent, found, idx, replied, slotVars, kernelVars, linked>>

EntryParam(t) ==
  /\ At(t, "entry")
  /\ \/ Fail(t)
     \/ /\ op[t] \in EntryOps => SameSource(t)
        /\ op[t] = "ReadDir" \/ generation_[sharedPtr[Here(t)]] = "ok"
        /\ AfterParam(t)
     \/ /\ op[t] \in EntryOps => SameSource(t)
        /\ op[t] # "ReadDir"
        /\ generation_[sharedPtr[Here(t)]] = "unset"
        /\ Goto(t, "gen")
  /\ UNCHANGED <<cacheVars, op, node, parent, found, idx, replied, slotVars, kernelVars, linked>>

(***************************************************************************)
(* GetGeneration on an Inode seen without a generation: the result of the  *)
(* ioctl, an error included, is kept in the Inode.                         *)
(***************************************************************************)
GetGeneration(t) ==
  /\ At(t, "gen")
  /\ \E g \in {"ok", "err"} :
       /\ generation_' = [generation_ EXCEPT ![sharedPtr[Here(t)]] = g]
       /\ IF g = "ok" THEN AfterParam(t) ELSE Fail(t)
  /\ UNCHANGED <<inodes_, object, refcnt, pendAddr, pendVal, aborted,
                 op, node, parent, found, idx, replied, slotVars, kernelVars, linked>>

\* The destructor of the shared_ptr in slot s.
DropPtr(t, s) ==
  /\ Unref(t, sharedPtr[s], 1)
  /\ sharedPtr' = [sharedPtr EXCEPT ![s] = NULL]

\* ReadDirInternal goes round its loop.
NextEntry(t) ==
  /\ idx' = [idx EXCEPT ![t] = idx[t] + 1]
  /\ Goto(t, "readdir")

(***************************************************************************)
(* FuseDirsBuilder::AddDirEntry.  The loop's own shared_ptr is destroyed   *)
(* when the buffer is full and, except for ReadDirPlus, which keeps a      *)
(* copy, when the entry fits.                                              *)
(***************************************************************************)
AddEntryContinues(t) ==
  /\ At(t, "add")
  /\ \/ DropPtr(t, Here(t)) /\ Goto(t, "readdir") /\ UNCHANGED idx
     \/ op[t] = "ReadDir" /\ DropPtr(t, Here(t)) /\ NextEntry(t)
     \/ op[t] = "ReadDirPlus" /\ Goto(t, "ref") /\ UNCHANGED <<cacheVars, idx, sharedPtr>>
  /\ UNCHANGED <<op, node, parent, found, replied, kernelRef, dot, kernelVars, linked>>

AddEntry(t) ==
  /\ At(t, "add")
  /\ \/ DropPtr(t, Here(t)) /\ Goto(t, "reply") /\ UNCHANGED idx
     \/ op[t] = "ReadDir" /\ DropPtr(t, Here(t)) /\ NextEntry(t)
     \/ op[t] = "ReadDirPlus" /\ Goto(t, "ref") /\ UNCHANGED <<cacheVars, idx, sharedPtr>>
  /\ UNCHANGED <<op, node, parent, found, replied, kernelRef, dot, kernelVars, linked>>

(***************************************************************************)
(* "Increment the refcnt on behalf of the kernel", before the reply, with  *)
(* a Cleanup that undoes it until the reply has succeeded.                 *)
(***************************************************************************)
RefEntryForgotten(t) ==
  LET a == sharedPtr[Here(t)] IN
  /\ At(t, "ref")
  /\ kernelRef' = [kernelRef EXCEPT ![Here(t)] = a]
  /\ IF op[t] \in EntryOps THEN Goto(t, "reply") /\ UNCHANGED idx ELSE NextEntry(t)
  /\ UNCHANGED <<cacheVars, op, node, parent, found, replied, sharedPtr, dot, kernelVars, linked>>

RefEntry(t) ==
  LET a == sharedPtr[Here(t)] IN
  /\ At(t, "ref")
  /\ IF Find(a) = NULL
       THEN Fail(t) /\ UNCHANGED <<cacheVars, kernelRef, idx>>
       ELSE /\ Ref(t, a, 1)
            /\ kernelRef' = [kernelRef EXCEPT ![Here(t)] = a]
            /\ IF op[t] \in EntryOps THEN Goto(t, "reply") /\ UNCHANGED idx ELSE NextEntry(t)
  /\ UNCHANGED <<op, node, parent, found, replied, sharedPtr, dot, kernelVars, linked>>

\* syscalls::readdir: an entry, the end of the directory, or an error.
ReadDirNext(t) ==
  /\ At(t, "readdir")
  /\ \/ idx[t] <= MaxEntries /\ Goto(t, "find")
     \/ Goto(t, "reply")
     \/ Fail(t)
  /\ UNCHANGED <<cacheVars, op, node, parent, found, idx, replied, slotVars, kernelVars, linked>>

\* unlinkat, renameat2: a file may lose its last name.
RemoveName(t) ==
  /\ At(t, "names")
  /\ \E gone \in SUBSET linked :
       /\ Cardinality(gone) <= 1
       /\ linked' = linked \ gone
  /\ Goto(t, "drop")
  /\ UNCHANGED <<cacheVars, op, node, parent, found, idx, replied, slotVars, kernelVars>>

\* The handlers that only use the descriptor of an inode the kernel knows.
UseInode(t) ==
  /\ At(t, "use")
  /\ Fail(t) \/ Goto(t, "reply")
  /\ UNCHANGED <<cacheVars, op, node, parent, found, idx, replied, slotVars, kernelVars, linked>>

(***************************************************************************)
(* fuse_reply_entry, _create, _buf, _attr, _write.  Success makes the      *)
(* kernel count one lookup per entry it is sent, but none for "." and      *)
(* "..", and cancels the Cleanups.  Either way the request is used up.     *)
(***************************************************************************)
\* The references to address a that thread t hands over.
HandedOver(t, a) == {s \in Slots : s[1] = t /\ kernelRef[s] = a}

ReplyKeepsCleanup(t) ==
  /\ At(t, "reply")
  /\ replied' = replied \cup {t}
  /\ Goto(t, IF op[t] = "WriteBuf" THEN "notify" ELSE "drop")
  /\ nlookup' = [a \in Addrs |-> nlookup[a] + Cardinality(HandedOver(t, a) \ dot)]
  /\ lost' = [a \in Addrs |-> lost[a] + Cardinality(HandedOver(t, a) \cap dot)]
  /\ UNCHANGED <<cacheVars, op, node, parent, found, idx, slotVars, forgets, linked>>

ReplyAlwaysCancels(t) ==
  /\ At(t, "reply")
  /\ replied' = replied \cup {t}
  /\ Goto(t, IF op[t] = "WriteBuf" THEN "notify" ELSE "drop")
  /\ kernelRef' = [s \in Slots |-> IF s[1] = t THEN NULL ELSE kernelRef[s]]
  /\ \/ /\ nlookup' = [a \in Addrs |-> nlookup[a] + Cardinality(HandedOver(t, a) \ dot)]
        /\ lost' = [a \in Addrs |-> lost[a] + Cardinality(HandedOver(t, a) \cap dot)]
     \/ UNCHANGED <<nlookup, lost>>
  /\ UNCHANGED <<cacheVars, op, node, parent, found, idx, sharedPtr, dot, forgets, linked>>

Reply(t) ==
  /\ At(t, "reply")
  /\ replied' = replied \cup {t}
  /\ Goto(t, IF op[t] = "WriteBuf" THEN "notify" ELSE "drop")
  /\ \/ /\ nlookup' = [a \in Addrs |-> nlookup[a] + Cardinality(HandedOver(t, a) \ dot)]
        /\ lost' = [a \in Addrs |-> lost[a] + Cardinality(HandedOver(t, a) \cap dot)]
        /\ kernelRef' = [s \in Slots |-> IF s[1] = t THEN NULL ELSE kernelRef[s]]
     \/ UNCHANGED <<nlookup, lost, kernelRef>>
  /\ UNCHANGED <<cacheVars, op, node, parent, found, idx, sharedPtr, dot, forgets, linked>>

\* WriteBuf calls inode.NotifyPollEvent() after its reply, sent or not.
Notify(t) ==
  /\ At(t, "notify")
  /\ Goto(t, "drop")
  /\ UNCHANGED <<cacheVars, op, node, parent, found, idx, replied, slotVars, kernelVars, linked>>

(***************************************************************************)
(* The locals are destroyed: the shared_ptr of the entry being worked on   *)
(* unless a Cleanup declared after it refers to it, then what the Cleanups *)
(* undo, then the other shared_ptrs, in the order of the entries.          *)
(***************************************************************************)
Local(t) == sharedPtr[Here(t)] # NULL /\ kernelRef[Here(t)] = NULL

DropLocal(t) ==
  /\ Local(t)
  /\ DropPtr(t, Here(t))
  /\ UNCHANGED kernelRef

DropKernelRef(t) ==
  \E i \in Idx :
    /\ ~Local(t)
    /\ kernelRef[<<t, i>>] # NULL
    /\ \A j \in 1..(i - 1) : kernelRef[<<t, j>>] = NULL
    /\ Unref(t, kernelRef[<<t, i>>], 1)
    /\ kernelRef' = [kernelRef EXCEPT ![<<t, i>>] = NULL]
    /\ UNCHANGED sharedPtr

DropSharedPtr(t) ==
  \E i \in Idx :
    /\ ~Local(t)
    /\ \A j \in Idx : kernelRef[<<t, j>>] = NULL
    /\ sharedPtr[<<t, i>>] # NULL
    /\ \A j \in 1..(i - 1) : sharedPtr[<<t, j>>] = NULL
    /\ DropPtr(t, <<t, i>>)
    /\ UNCHANGED kernelRef

Drop(t) ==
  /\ At(t, "drop")
  /\ DropLocal(t) \/ DropKernelRef(t) \/ DropSharedPtr(t)
  /\ UNCHANGED <<threadVars, dot, kernelVars, linked>>

\* The wrapper of fuse_ops.h sends the reply the handler did not, if any.
Finish(t) ==
  /\ At(t, "drop")
  /\ \A i \in Idx : sharedPtr[<<t, i>>] = NULL /\ kernelRef[<<t, i>>] = NULL
  /\ Goto(t, "idle")
  /\ op' = [op EXCEPT ![t] = NULL]
  /\ node' = [node EXCEPT ![t] = NULL]
  /\ parent' = [parent EXCEPT ![t] = NULL]
  /\ found' = [found EXCEPT ![t] = NULL]
  /\ idx' = [idx EXCEPT ![t] = 1]
  /\ replied' = replied \ {t}
  /\ dot' = {s \in dot : s[1] # t}
  /\ UNCHANGED <<cacheVars, sharedPtr, kernelRef, kernelVars, linked>>

(***************************************************************************)
(* FORGET messages.  A message gives back n lookups of one node id.        *)
(***************************************************************************)
Forget(t, a, n) ==
  /\ At(t, "idle")
  /\ n \in 1..forgets[a]
  /\ Unref(t, a, n)
  /\ forgets' = [forgets EXCEPT ![a] = forgets[a] - n]
  /\ UNCHANGED <<threadVars, slotVars, nlookup, lost, linked>>

\* ForgetMulti is called with a batch of such messages ...
ForgetMulti(t) ==
  /\ At(t, "idle")
  /\ \E a \in Addrs : forgets[a] > 0
  /\ Goto(t, "forgets")
  /\ UNCHANGED <<cacheVars, op, node, parent, found, idx, replied, slotVars, kernelVars, linked>>

\* ... handles one after the other, and drops the rest if Unref fails ...
ForgetNext(t, a, n) ==
  /\ At(t, "forgets")
  /\ n \in 1..forgets[a]
  /\ Unref(t, a, n)
  /\ IF Find(a) # NULL
       THEN /\ forgets' = [forgets EXCEPT ![a] = forgets[a] - n]
            /\ UNCHANGED <<pc, lost>>
       ELSE \E rest \in [Addrs -> 0..MaxRefs] :
              /\ \A b \in Addrs : rest[b] <= forgets[b] /\ (b = a => rest[b] >= n)
              /\ forgets' = [b \in Addrs |-> forgets[b] - rest[b]]
              /\ lost' = [b \in Addrs |-> lost[b] + rest[b]]
              /\ Goto(t, "idle")
  /\ UNCHANGED <<op, node, parent, found, idx, replied, slotVars, nlookup, linked>>

\* ... and returns at the end of the batch.
ForgetDone(t) ==
  /\ At(t, "forgets")
  /\ Goto(t, "idle")
  /\ UNCHANGED <<cacheVars, op, node, parent, found, idx, replied, slotVars, kernelVars, linked>>

\* The count that an operation on the cache has computed is stored.
CommitStep(t) ==
  /\ ~aborted
  /\ pendAddr[t] # NULL
  /\ Commit(t)
  /\ UNCHANGED <<threadVars, slotVars, kernelVars, linked>>
-----------------------------------------------------------------------------
\* The kernel drops n lookups of an inode that no request in flight names.
KernelForget(a, n) ==
  /\ ~aborted
  /\ n \in 1..nlookup[a]
  /\ Pinned(a) => n < nlookup[a]
  /\ nlookup' = [nlookup EXCEPT ![a] = nlookup[a] - n]
  /\ forgets' = [forgets EXCEPT ![a] = forgets[a] + n]
  /\ UNCHANGED <<cacheVars, threadVars, slotVars, lost, linked>>

\* Somebody else makes a file in the source tree, or removes its last name.
SourceChange(f) ==
  /\ ~aborted
  /\ \/ CanAppear(f) /\ linked' = linked \cup {f}
     \/ f \in linked /\ linked' = linked \ {f}
  /\ UNCHANGED <<cacheVars, threadVars, slotVars, kernelVars>>

\* The steps that complete the handler a thread is running.
HandlerStep(t) ==
  \/ Make(t) \/ FindEntry(t) \/ InsertEntry(t) \/ EntryParam(t)
  \/ GetGeneration(t) \/ AddEntry(t) \/ RefEntry(t) \/ ReadDirNext(t)
  \/ RemoveName(t) \/ UseInode(t) \/ Reply(t) \/ Notify(t)
  \/ Drop(t) \/ Finish(t) \/ ForgetDone(t)
  \/ \E a \in Addrs : \E n \in 1..forgets[a] : ForgetNext(t, a, n)
  \/ CommitStep(t)

ForgetStep(t, a) == \E n \in 1..forgets[a] : Forget(t, a, n)

ThreadStep(t) ==
  \/ HandlerStep(t)
  \/ \E o \in Ops, n \in Nodes, p \in Nodes : Receive(t, o, n, p)
  \/ \E a \in Addrs : ForgetStep(t, a)
  \/ ForgetMulti(t)

Environment ==
  \/ \E a \in Addrs : \E n \in 1..nlookup[a] : KernelForget(a, n)
  \/ \E f \in Files : SourceChange(f)

Next == (\E t \in Threads : ThreadStep(t)) \/ Environment

Spec == Init /\ [][Next]_vars

(***************************************************************************)
(* The executions in which no thread moves while another one is between    *)
(* the load and the store of a count or of a generation: all of them if    *)
(* there is one thread (pafs -s), and those that a lock around each call   *)
(* of InodeCache and around GetGeneration would leave if there are more.   *)
(***************************************************************************)
Busy(t) == pendAddr[t] # NULL \/ pc[t] = "gen"

Exclusive(t) == \A u \in Threads \ {t} : ~Busy(u)

SerialNext == (\E t \in Threads : ThreadStep(t) /\ Exclusive(t)) \/ Environment

SerialSpec == Init /\ [][SerialNext]_vars
-----------------------------------------------------------------------------
(***************************************************************************)
(* The references to the Inode at address a that somebody holds: lookups   *)
(* of the kernel (the ones in FORGET messages on their way included), lost *)
(* ones, shared_ptrs, and references a Cleanup will undo.                  *)
(***************************************************************************)
Ptrs(a) == {s \in Slots : sharedPtr[s] = a}
Refs(a) == {s \in Slots : kernelRef[s] = a}
KernelHas(a) == nlookup[a] + forgets[a] + lost[a]
Count(a) == KernelHas(a) + Cardinality(Ptrs(a)) + Cardinality(Refs(a))

Cached(a) == a \in Addrs /\ object[a] # NULL /\ inodes_[KeyOf[object[a]]] = a

(***************************************************************************)
(* No CHECK of InodeCache ever fails: CHECK_GE(refcnt, ntimes) in Unref.   *)
(***************************************************************************)
CheckHolds == ~aborted

(***************************************************************************)
(* The stored count (or the one about to be stored) is exactly the number  *)
(* of references that somebody holds, through every early return, failed   *)
(* reply and FORGET, so that Unref erases neither too early nor too late.  *)
(***************************************************************************)
RefcountExact ==
  /\ \A t \in Threads : pendAddr[t] # NULL => pendVal[t] = Count(pendAddr[t])
  /\ \A a \in Addrs : (\A t \in Threads : pendAddr[t] # a) => refcnt[a] = Count(a)

(***************************************************************************)
(* An Inode that the kernel, a FORGET on its way or a handler refers to is *)
(* allocated and is the one the map has: the reinterpret_cast of GetInode  *)
(* never yields a freed Inode and Unref never misses.                      *)
(***************************************************************************)
NoDanglingInode ==
  /\ \A a \in Addrs : KernelHas(a) > 0 => Cached(a)
  /\ \A s \in Slots : sharedPtr[s] # NULL => Cached(sharedPtr[s])
  /\ \A s \in Slots : kernelRef[s] # NULL => Cached(kernelRef[s])

(***************************************************************************)
(* While a handler still uses the inodes it was called with, they have not *)
(* been freed by a FORGET that another thread handled.                     *)
(***************************************************************************)
OperandLive ==
  \A t \in Threads :
    pc[t] \in {"make", "find", "entry", "readdir", "names", "use", "notify"} =>
      \A n \in {node[t], parent[t]} : n = ROOT \/ Cached(n)

(***************************************************************************)
(* Insert returns the Inode of the very file that was opened, although it  *)
(* looks for it by a number that the source file system may reuse: the     *)
(* descriptor in the cached Inode keeps the number from being reused.      *)
(***************************************************************************)
InsertFindsTheFileOpened ==
  \A t \in Threads :
    pc[t] \in {"entry", "gen", "add", "ref"} => object[sharedPtr[Here(t)]] = found[t]

(***************************************************************************)
(* The kernel only ever holds inodes whose generation is known; an error   *)
(* that GetGeneration has cached belongs to no inode the kernel holds.     *)
(***************************************************************************)
KernelKnowsGeneration ==
  \A a \in Addrs : KernelHas(a) > 0 => generation_[a] = "ok"

(***************************************************************************)
(* "PageAlignFS cannot span multiple source mounts"                        *)
(* (page_align_fs.cc:700): every inode that the kernel knows is on the     *)
(* device of the source directory.  (It is violated: ReadDirInternal does  *)
(* not compare devices.)                                                   *)
(***************************************************************************)
SingleSource ==
  \A a \in Addrs : nlookup[a] > 0 => DevOf[KeyOf[object[a]]] = DevOf[KeyOf[RootFile]]

\* The kernel has given back every lookup it counted and no handler runs.
Quiescent ==
  /\ \A t \in Threads : pc[t] = "idle" /\ pendAddr[t] = NULL
  /\ \A a \in Addrs : nlookup[a] + forgets[a] = 0

(***************************************************************************)
(* Once the kernel has given back every lookup it counted and no handler   *)
(* runs, the cache is empty: every descriptor is closed.  The exception    *)
(* are inodes that ReadDirPlus handed out for "." or "..": it takes a      *)
(* reference for these too (page_align_fs.cc:616), but the kernel counts   *)
(* no lookup for them and never gives it back.                             *)
(***************************************************************************)
ForgottenIsFreedButDots ==
  \A a \in Addrs : Quiescent /\ lost[a] = 0 =>
    object[a] = NULL /\ \A k \in Keys : inodes_[k] # a

(***************************************************************************)
(* What the kernel relies on: a node id keeps denoting one file as long as *)
(* it is out, and no two node ids denote files of one number (NodeTable).  *)
(***************************************************************************)
Table == INSTANCE NodeTable WITH file <- object, out <- [a \in Addrs |-> KernelHas(a)]
ImplementsNodeTable == Table!Spec
-----------------------------------------------------------------------------
(***************************************************************************)
(* The open without O_NONBLOCK of a FIFO whose other end nobody has open:  *)
(* GetGeneration reopens for reading whatever file it is asked about       *)
(* (inode.cc:38), and openat(O_CREAT) may find that the name is a FIFO's.  *)
(***************************************************************************)
WaitsForPeer(t) ==
  \/ pc[t] = "gen" /\ object[sharedPtr[Here(t)]] \in Fifos
  \/ pc[t] = "make" /\ op[t] = "Create" /\ Fifos # {}

(***************************************************************************)
(* Fairness: the system schedules a thread that can run, and system calls  *)
(* return, except the open of a FIFO: its other end may never be opened,   *)
(* so that step may be taken but need not be.  The kernel hands out queued *)
(* FORGETs in between other requests and a thread that keeps coming back   *)
(* to its loop reads each of them.                                         *)
(***************************************************************************)
Fairness ==
  /\ \A t \in Threads : WF_vars(HandlerStep(t) /\ ~WaitsForPeer(t))
  /\ \A a \in Addrs : SF_vars(\E t \in Threads : ForgetStep(t, a))

FairSpec == Spec /\ Fairness

(***************************************************************************)
(* Every handler runs to its end, whatever fails in it, unless it waits in *)
(* the open of a FIFO from some moment on.                                 *)
(***************************************************************************)
HandlersReturn ==
  \A t \in Threads : pc[t] # "idle" ~> (pc[t] = "idle" \/ []WaitsForPeer(t))

(***************************************************************************)
(* An Inode that the kernel has forgotten for good is freed again and      *)
(* again, even if other handlers keep opening its file, unless a thread is *)
(* held in the open of a FIFO for ever: that thread keeps its shared_ptr,  *)
(* and if it is the only one no FORGET is handled any more.                *)
(***************************************************************************)
ForgottenInodesAreFreed ==
  \A a \in Addrs :
    <>[](nlookup[a] = 0 /\ lost[a] = 0) =>
      \/ []<>(object[a] = NULL)
      \/ \E t \in Threads : <>[]WaitsForPeer(t)
=============================================================================
