# TLA+ models of pafs

pafs (`src/pafs`) is a FUSE file system that passes every request through to a
source directory. This project models what decides whether it is correct: the
reference counts by which it shares inodes with the kernel, the way a request
gets exactly one answer, the descriptors behind file handles, directory
listings, attributes and extended attributes, errors on their way to the
kernel, poll notification, and the life of the program from start-up to
clean-up. TLC checks the models on small instances, and TLAPS proves nearly all
of their safety properties for every size.

## 1. The system

| Component | Source | State | Operations |
|---|---|---|---|
| `Main`, session loop | `main.cc` | the fuse session, its threads | mount, run the loop with one thread (`-s`) or several, unmount |
| callback wrappers | `fuse_ops.h` | none | one per FUSE operation: check arguments, make a `FuseRequest`, call the handler, reply |
| `FuseRequest` | `fuse.cc` | `req_`, the `fuse_req_t` not yet replied to | `Reply*`, the destructor |
| `FuseDirsBuilder` | `fuse.cc` | a buffer of directory entries | `AddDirEntry`, `Reply` |
| `FusePollHandle` | `fuse.cc` | a handle of libfuse | `Notify`, the destructor |
| `PageAlignFS` | `page_align_fs.cc` | `root_`, `inodes_`, the options | `Init`, `Destroy`, 38 request handlers |
| `InodeCache` | `inode.cc` | `inodes_`: a count and an `Inode` per (device, number) | `Insert`, `Ref`, `Unref` |
| `Inode` | `inode.cc` | an `O_PATH` descriptor, number, device, cached generation, poll handle | `Create`, `Stat`, `GetGeneration`, `AddPollHandle`, `NotifyPollEvent` |
| `FileDescriptor`, `Directory`, `Mount`, `ScopedSignalMask` | `fd.cc`, `dir.cc`, `mount.cc`, `signal.cc` | the resource they own | move, `Release`, the destructor |
| statuses | `status.cc`, `errno.cc` | none | errno to `absl::Status` and back, through the name of the error |
| `syscalls` | `syscalls.cc` | none | system calls that return statuses |

How they interact. libfuse reads a request from the kernel on one of its
threads and calls the wrapper; the wrapper calls the handler; the handler finds
the `Inode` by casting the node id to a pointer, makes system calls on its
descriptor, and replies or leaves the reply to the wrapper. `Lookup`, the
handlers that make a file, and `ReadDirPlus` give the kernel new node ids, each
a reference that the kernel returns in a FORGET. The threads share the
`InodeCache`; there is no lock anywhere.

What is hard: an `Inode` is freed when the last of several kinds of references
is gone (a handler's `shared_ptr`, a reference taken for the kernel before it is
known whether the reply arrives, the kernel's lookups, FORGETs under way); every
early return has to undo the right ones; threads interleave; inode numbers and
addresses are reused; a reply may fail; up to three places may reply to a
request. Descriptor numbers and poll handles are reused as soon as they are
free. A listing takes several requests, between which the directory changes. A
SetAttr is up to four system calls that may each fail. `PROJECT.json` lists
these as hazards, with their lines.

What makes it correct: a count equals the references that exist; nobody is left
with a freed `Inode`; an inode found by number is the file that was opened; what
is forgotten is freed; every request is answered once, with what happened. A
handle leads to the file it was made for until it is released; a listing has
every entry that stays, once; what the kernel caches is current as far as it
could be told; an error arrives as the error it was; whoever waits for an event
hears of it; nothing is left mounted or open at the end.

## 2. The modules

`InodeCache` — the cache. `inodes_` maps keys to addresses, `object` says which
file the `Inode` at an address holds open, `refcnt` is the count. `Insert`,
`Ref` and `Unref` are the methods. `refcnt++` without a lock is a load and a
store that other threads may come between, so each method ends by noting the
count it is about to store (`pendAddr`, `pendVal`) and `Commit` stores it, which
is also where `Unref` erases the entry.

`PageAlignFS` extends it with the handlers, the kernel and the source tree. A
handler is a small program counter per thread; one action per system call or
cache operation, in the order of the code:

| Action | Code |
|---|---|
| `Receive` | a wrapper calls a handler |
| `Make` | `mknodat`, `mkdirat`, `symlinkat`, `linkat`, `openat(O_CREAT)` |
| `FindEntry`, `InsertEntry` | `FindOrCreateInode`: `Inode::Create`, then `InodeCache::Insert` |
| `EntryParam`, `GetGeneration` | the device check and `CreateFuseEntryParam` |
| `AddEntry`, `ReadDirNext` | the loop of `ReadDirInternal` |
| `RefEntry` | the `Ref` on behalf of the kernel, and its Cleanup |
| `RemoveName`, `UseInode` | `Unlink`, `Rmdir`, `Rename`; `GetAttr`, `WriteBuf` |
| `Reply`, `Notify` | the reply, sent or not; `NotifyPollEvent` after it |
| `Drop` | locals are destroyed: one `Unref` per step, in the order of the destructors |
| `Finish` | the wrapper returns |
| `Forget`, `ForgetMulti`, `ForgetNext`, `ForgetDone` | FORGET, one or a batch |
| `CommitStep` | the store of a count |
| `KernelForget`, `SourceChange` | the kernel returns lookups; others change the source tree |

Each entry of a directory has a slot per thread (`sharedPtr`, `kernelRef`,
`dot`); the other handlers use slot 1. `lost` counts references that nobody will
give back. The kernel counts a lookup for each entry it is sent, none for "."
and "..", and does not return its last lookup of an inode that an unanswered
request names. A name resolves to any file that is linked at that moment, so
other users of the source tree are covered. A new file may get the number of a
file that nobody has open and that has no name left.

`NodeTable` is what the kernel relies on: a node id denotes one file from when it
is bound to when it is freed, is out only while it is bound, and no two node ids
denote files of one number. `PageAlignFS` implements it (`ImplementsNodeTable`,
with `object` for `file` and the kernel's references for `out`).

To read a generation, `GetFileVersionFromPathFD` opens the file for reading
without `O_NONBLOCK` (`inode.cc:38`): if it is a FIFO the open waits for somebody
to open the other end, and maybe for ever. `Fifos` are the files, in `ReadDir`
the names, of that kind; `WaitsForPeer` is a handler in such an open. In
`FuseRequest`, where requests have no files, any handler that opens one
(`Opening`) may find itself there (`OpensFifo`).

`FuseRequest` is the other half: the wrappers as tables (which of
`ReplyFailureAndLogIfNotOk`, `ReplyAlwaysAndLogIfNotOk` and `ReplyNone` each one
ends in), the handlers as tables (what each one replies with when it succeeds),
and the life of a `fuse_req_t`: `Take` allocates it, `Send` and `ReplyNone` free
it, a freed one may be allocated again by another thread. `Disconnect` is an
abort of the connection, after which every reply fails. Handlers that call
`fcntl`, `flock`, `fallocate`, `lseek` or `copy_file_range` on the `O_PATH`
descriptor of an inode can only fail (`PathOnly`). What `fuse_reply_data` sends,
data or the error of its read, is one reply here; `GetXAttr` and `ListXAttr`
stand for calls with a buffer. `SetAttrByPath` is a SetAttr without a
`fuse_file_info`, for which the CHECK of the wrapper ends the process.

`Handles` — what a `fuse_file_info::fh` stands for. `fdt` is the descriptor
table of the process, `handles` the open files of the kernel with the fh of
each, `dirs` the `Directory` objects on the heap, `fd_` and `dir_` what a handler
has on its stack. `OpenSucceeds`, `FdOpenDirSucceeds`, `ReplySent`, `ReplyFails`,
`ReleaseFd` and `DestroyFd` are the steps of Open, Create and OpenDir in the
order of the code; `DupSucceeds` and `DestroyFd` are Flush; `CloseFile` and
`CloseDir` are Release and ReleaseDir. The lowest free number is given out next,
and the Inodes open and close descriptors in between (`InodeOpens`,
`InodeCloses`). Number 0 stands for the standard streams.

`ReadDir` — one listing of one directory: `Receive` seeks, `ReadEntry` hands out
what the C library has read ahead (`ahead`, the entries of the next offsets, the
lowest first), `EntryFound` opens it by name, `AddDirEntry`
packs it if it fits, `ReplyEntries(k)` has the kernel use k entries and ask again
from there, `ReplyEnd` is the empty reply. `Remove` and `Make` are others that
change the directory; an offset stays with its entry, as in the file systems of
Linux. `seen` counts up to "more than once".

`Attributes` — SetAttr as a list of system calls (`Steps`), `Stat` and
`ReplyWithAttrs`, the kernel's cache of attributes and the two timeouts. A field has an old
value, a new one, or the time of the change. `behind` collects the fields that
changed without the kernel being told.

`ErrnoStatus` — `ErrnoToStatus`, `ErrnoToErrorName`, the table
`kNamesToErrors`, `GetErrnoFromStatus`, `StatusCodeToErrno` and what
`ReplyFailure` makes of them (`ReplyErrno`), as operators over all errnos of
Linux.

`XAttr` — extended attributes, with the errors of `ErrnoStatus`. A value is its
length; `Receive` carries the reader's buffer size,
`GetXAttr` and `ListXAttr` are the system call with the CHECK or the resize,
`ReplyBuf` is what the kernel makes of the reply, `CallFails` takes an errno of
the source through status, name and table. Others change the attributes at any
moment. Here size 0 is included, which `FuseRequest` leaves out.

`Poll` — one Inode and the `fuse_pollhandle`s of its open files. A swap of two
handles is a load and a store (`AddLoad`, `AddStore`), `Check`, `LoadHandle` and
`Notify` are `NotifyPollEvent`. `owed` are the files with a process that waits
and with a write it has not heard of. The `poll` call is made on an `O_PATH`
descriptor and reports nothing (`SysPoll`): what was written before the store of
a handle is lost to its file, which `Begins` says. `overlap` notes that two threads were inside
`AddPollHandle` or `NotifyPollEvent` at once, which nothing in the code prevents.

`Session` — `Main`. `Setup` lists the resources in the order they are taken,
`held` those that the Cleanups will give back; `Fail` leaves at any step,
`Signal` comes at any moment. The loop has one thread or several, and a Lookup of
a FIFO keeps a thread until somebody opens the FIFO for writing
(`GetFileVersionFromPathFD`).

`Mounts` — a class that no other part uses yet: owners of a mount that are moved
by swap and undone by their destructors, for any program that uses them.
`DestroyMount` and `UmountFails` show the recursion of `~Mount` and `umount`
through a parameter.

The modules meet where one relies on what another shows: `Attributes` takes from
`FuseRequest` that SetAttr without a handle ends the process and from `Handles`
that no handle is 0; `PageAlignFS` and `ReadDir` both model `ReadDirInternal`, the one for its
references and the other for its entries; `Handles` starts where `Session` has
set up the standard streams and `root_`.

`MCPageAlignFS`, `MCHandles`, `MCReadDir` and `MCXAttr` instantiate these for
TLC; `FuseRequest` and `Attributes` need no definitions beyond their .cfg files.
`MCResources` is one instance of `Poll`, `Mounts` and `Session`, which have no
variable in common: a behaviour is about one of them, with the others at rest.
Definitions whose names say how they differ from the
code (`InsertUncounted`, `SendKeepsReq`, `ReplySentClosesFd`, ...) stand before
the definition they vary; each is a bug that some property catches.

## 3. The runs

| Run | Instance | Shows |
|---|---|---|
| `single` | 1 thread, all handlers, 2 entries per directory read, 2 addresses, a file and a directory of one number, a FIFO, fairness | `TypeOK`, `RefcountExact`, `NoDanglingInode`, `InsertFindsTheFileOpened`, `KernelKnowsGeneration`, `ForgottenIsFreedButDots`, `ImplementsNodeTable`, `HandlersReturn`, `ForgottenInodesAreFreed` |
| `threads` | 2 threads, one handler of each kind, 1 entry; accesses to a count or a generation do not overlap | `CheckHolds`, `RefcountExact`, `NoDanglingInode`, `OperandLive` |
| `source` | 1 thread, a second device mounted in the tree, all handlers | violates `SingleSource` |
| `race` | 2 threads, Lookup, no serialisation | violates `CheckHolds` |
| `replies` | 2 threads, 2 requests, 2 cells, 28 operations, at least one of each kind, fairness | `OwnedOnce`, `AnswerFits`, `OnlyFailedWritesAreDropped`, `EveryRequestIsAnswered` |
| `handles` | 2 threads, descriptors 0 to 4 of which 2 are taken for good, 2 addresses | `DescriptorsKeepTheirFiles`, `NoHandleIsZero`, `OnlyOpenDirLeaks` |
| `readdir` | 3 names at 4 offsets, read-ahead of 2, a buffer of 2 entries, 3 changes by others, one name a FIFO's, fairness | `StableEntriesSeenOnce`, `MissingOnlyIfRemoved`, `ListingsEnd` |
| `attributes` | 4 fields, every subset of them, names valid for 2 units of time and attributes for 1, one change by others | `SetAttrSetsWhatWasAsked`, `CachedIsCurrent` |
| `expiry` | the same | violates `AttributesExpire` |
| `xattr` | 2 attributes whose names together take 8 bytes, buffers of 0, 2 and 5, all 133 errnos and 524 | `ReadersGetWhatWasThere`, `ListedErrnosSurvive`, `DisabledOnlyIfUnsupported` |
| `probe` | the same | violates `ProbesGetTheLength` |
| `resources` | `Poll`: 2 threads, 2 open files, 3 addresses. `Mounts`: 2 variables, 2 targets, 3 mounts, a stack of 2 calls. `Session`: 1 or 2 threads, foreground or not, any standard streams closed, 2 processes and one that looks up a FIFO, fairness | `HandlesHaveOneOwner`, `LastWatcherIsNotified`; `EveryMountHasOneOwner`; `RootIsTheSource`, `NothingIsLeft`, `OthersAreServed`, `SignalEndsProgram` |

`TypeOK` of `PageAlignFS` is checked and proved; those of `FuseRequest`,
`Handles`, `ReadDir`, `Attributes`, `XAttr`, `Poll`, `Mounts` and `Session` are
proved on the way to their other properties, and the runs spend their time on
what the steps could really break.

The invariants of `single` and `threads`: no CHECK fails (`CheckHolds`); the
stored count is the number of references that exist (`RefcountExact`); whatever
is referred to is allocated and in the map (`NoDanglingInode`); a handler's
inodes are not freed under it (`OperandLive`); the inode found by number is the
file that was opened (`InsertFindsTheFileOpened`); the kernel holds no inode of
unknown generation (`KernelKnowsGeneration`); what was forgotten is freed
(`ForgottenIsFreedButDots`). WriteBuf is not among the handlers of `threads`: it
uses its inode after its reply, when another thread may handle the last FORGET
of that inode, so that `OperandLive` does not hold of it.

The later modules. A handle is not closed twice, used after its close or taken
for another, however threads interleave with the reuse of numbers
(`DescriptorsKeepTheirFiles`); what leaks comes from OpenDir
(`OnlyOpenDirLeaks`). A listing that ends has every lasting entry exactly once
(`StableEntriesSeenOnce`). A SetAttr that replies has set every field asked for
although truncation touches the modification time
(`SetAttrSetsWhatWasAsked`). The kernel gives up an operation for good only if
the source does not support it, on some file (`DisabledOnlyIfUnsupported`). A
reader with a buffer gets one whole value (`ReadersGetWhatWasThere`). From the
store of its handle on the file polled last hears of every write
(`LastWatcherIsNotified`). Whichever way `Main` is left, by a failure of its own
or a signal, the mount point is free (`NothingIsLeft`; a CHECK that fails in a
handler, as in `race` and `probe`, ends the process where it is). Every mount is
undone by one owner (`EveryMountHasOneOwner`).

`race` shows the code doing what an assertion of it excludes: with several
threads and no lock, two Lookups of a file lose an increment and `CHECK_GE` in
`Unref` ends the process.

Three more runs show the code doing other than the repository says. `source`:
Lookup and Create refuse an inode of another device, "PageAlignFS cannot span
multiple source mounts" (`page_align_fs.cc:700`), but ReadDirPlus hands it to the
kernel unchecked. `expiry`: `--kernel_attribute_timeout` is "How long the kernel
can cache inode attributes." (`main.cc:31`), but `ReplyWithAttrs` passes the
timeout of names (`page_align_fs.cc:722`), and after a GetAttr the kernel uses
attributes for that long. `probe`: asking for the length of an attribute that is
not empty fails `CHECK_LE(nb, maxsize)` (`syscalls.cc:315`), and asking for that
of the list gets an error, or 0 if the list has 8 bytes
(`page_align_fs.cc:431`); "TODO: Test that size=0 case works" stands above both
handlers (`page_align_fs.cc:407` and `420`).

Other properties hold because they state how far the code goes where it does not
do what one would want. What each leaves out is in the model and happens there:

* `ForgottenIsFreedButDots`: ReadDirPlus takes a reference for "." and "..",
  which the kernel never returns; the inode and its descriptor stay for ever;
* `OnlyFailedWritesAreDropped`: a write that fails is never answered
  (`fuse_ops.h:951`);
* `HandlersReturn`, `ForgottenInodesAreFreed`, `EveryRequestIsAnswered`,
  `ListingsEnd`: a handler that reads the generation of a FIFO may stay in `open`
  for ever, with its references, its request and its thread (`inode.cc:38`);
* `EveryRequestIsAnswered`: `chmod`, `truncate` or `utimensat` of a file that is
  not open fails a CHECK of the wrapper (`fuse_ops.h:540`);
* `OnlyOpenDirLeaks`: OpenDir leaks a descriptor when `fdopendir` or its reply
  fails;
* `ListedErrnosSurvive`, `DisabledOnlyIfUnsupported`: EIO, ELOOP, EOPNOTSUPP and
  others are not in the table of names and reach the process as another error;
  EOPNOTSUPP on one file becomes ENOSYS, after which the kernel no longer asks;
* `LastWatcherIsNotified`: the poll of a second open file takes the notification
  away from the first, and what is written between the arrival of a poll request
  and the store of its handle is notified to nobody who waits for it;
* `HandlesHaveOneOwner`: when two threads meet in one
  Inode, a notification uses a handle that a poll has freed;
* `RootIsTheSource`: a program that was started with a standard stream closed and
  went to the background may serve `/dev/null` for `root_`;
* `OthersAreServed`, `SignalEndsProgram`: every FIFO that is looked up and that
  nobody opens for writing takes a thread for good, and a thread that waits keeps
  the program from ending;
* `EveryMountHasOneOwner`: a Mount that was moved from may hold the target of the
  other side, in spite of "Empty string when moved-from." (`mount.h:39`).

Bounds. Two threads are enough for any two steps to come between each other; two
addresses for an address to be freed and reused and for two node ids at once;
`MaxRefs = 2` (references beyond which the kernel asks for no more) for counts
that go down in one FORGET or two; two entries for a failure after a reference
was taken for an earlier entry, and for one inode in two entries. The proofs
have none of these bounds. In `Handles` three numbers are free: enough for a
file, a duplicate and a stranger that gets a number that was just closed, and
few enough to run out. In `ReadDir` four offsets are two read-aheads, and the
sizes are such that entries fit exactly, fit with room to spare, and do not fit;
three changes can remove an entry, make it again elsewhere and remove another.
In `Attributes` the clock goes beyond both timeouts; `MaxOutside` and
`MaxChanges` bound what others do. `MaxDepth` stands for the size of the stack
in `Mounts`. In `Poll` three addresses are two handles in hand and one in the
Inode. `FuseRequest.cfg` leaves out operations that have the wrapper and the
handler's reply of one it has; the theorems are about all 39. `CHECK_DEADLOCK FALSE` is said where the system may stop: the
process was ended by a CHECK or a full stack, the program has returned, or the
kernel has given up every operation.

Fairness. A thread that can run does (`WF` of its steps): the handlers wait for
nothing but system calls, and these return, all but the open of a FIFO. That step
(`WaitsForPeer`, `pc` "fifo") may be taken, when somebody opens the other end,
but no fairness makes it; the liveness properties of `PageAlignFS`,
`FuseRequest` and `ReadDir` except the thread that stays there. A FORGET that stays queued is read some day (`SF`),
since the loop reads requests in the order of the kernel's queues; the same for
requests in `FuseRequest`. In `ReadDir` the handler goes on and the process that
lists goes on asking (`WF`): the code can do nothing for one that stops. In
`Session`, `Main` and a handler that does not wait go on (`WF`), and a queued
request is taken in the end by a thread that becomes free again and again
(`SF`), since the kernel's queue is first in, first out; nobody has to open a
FIFO, send a signal or unmount. Nothing else is assumed about the environment.

## 4. The proofs

Each module `XProofs` has the theorems about module `X`; those about the small
classes that own something, `Poll` and `Mounts`, share `OwnerProofs`. They hold for every
value of the constants that satisfies the assumptions named at the end: any
number of threads, files, descriptors, entries, requests. Nearly all have
the form `Spec => []P`; `P` is seldom inductive alone, and what follows says what
has to be known in addition, and why. TLC has checked each of these inductive
invariants on the instance of the run before it was proved. Every proof has one
lemma per action, and one lemma that says the initial states satisfy the
invariant.

`PageAlignFSProofs`. `TypeCorrect`: `Spec => []TypeOK`, races included. The
invariant `SlotInv` says which slots are empty where: it is what keeps one
reference from overwriting another, and bounds the entry index.

`CountsExact`: in the executions in which no thread moves between another's load
and store of a count (`SerialSpec`), `RefcountExact`, `CheckHolds`,
`NoDanglingInode` and `ForgottenIsFreedButDots` always hold. The step of `Unref`
needs that the entry found by key is the entry of that address (`MapInv`: the
map and the allocated inodes are inverse), and `Insert` needs that nothing
refers to a free address (`LiveInv`). The counting rests on how the cardinality
of the sets of slots changes when one slot does.

On the counts rest, for the same executions: `InsertIsRight`
(`InsertFindsTheFileOpened`; no two files that exist have one number,
`NumberInv`), `GenerationsAreKnown` (`KernelKnowsGeneration`; a handler that is
about to give an inode to the kernel has seen its generation, `GenInv`),
`OperandsAreLive` (`OperandLive`, without WriteBuf; the kernel knows the inodes
of a request that it has no reply to, `PinInv`), and `NodeTableIsImplemented`: every
step binds a node id, changes which are out, frees one, or changes nothing that
`NodeTable` sees.

`HandlersAdvance`, in every execution, races included: the safety half of
`HandlersReturn`. The entry of the directory, the distance to the end of the
handler, the locals that are left to destroy and the store that is left to make
are ordered lexicographically; every step of a handler goes down in this order,
and the kernel, other threads and other programs bring nothing of it up again.
Only the batch of `ForgetMulti` is left out, whose length the kernel chooses.

`CountsExactSingleThreaded`, `SingleThreadedTable` and `SingleThreadedOperands`
give the same of every execution with one thread, where nothing has to be
assumed about accesses and WriteBuf need not be left out.

`FuseRequestProofs`. `RepliesAreRight`: `NoUseAfterFree`, `OwnedOnce`,
`AnswerFits` and `OnlyFailedWritesAreDropped` always hold. The invariant adds
`Serving` (no two threads serve one request, and `req_` belongs to the request
served) and `Answering` (where a callback is determines what can have been
answered). The tables enter by four lemmas, of which `SilentHandlers` is the one
the code could easily break: a wrapper that is silent on success goes with a
handler that replies, except SetLk, which cannot succeed.

`HandlesProofs`. `DescriptorsAreKept`, `HandlesAreNotZero`, `LeaksAreOfOpenDir`.
The invariant `OwnerInv` makes the owners of descriptors disjoint: the
FileDescriptors on the stacks (`StackInv`), the Directory objects (`DirInv`), the
open files of the kernel (`HandleInv`), `root_` and the Inode (`FixedInv`). A
number that is closed belonged to one of them only, so that the others still
lead where they did. `ClosedInv` says that somebody is left to close every file.

`ReadDirProofs`. `ListingIsExact` (`StableEntriesSeenOnce`) and
`MissingWasRemoved`. What is read ahead, in hand or in the buffer is in the
directory, but for what was removed (`TrueInv`); it comes in the order of the
offsets, all beyond the kernel's offset and up to the library's (`OrderInv`);
and nothing that stayed is passed over in between (`CompleteInv`). So a reply
hands the kernel names it has not had, once each, and all of them up to its new
offset (`SeenInv`). `GetdentsIsNext` is the fact about a batch: all that is
behind `dirPos` up to some offset. An entry that does not fit leaves something
else in the buffer, since one entry always fits into an empty one; this is what
tells a full buffer from the end of the directory.

`ListingsAdvance` is the safety half of `ListingsEnd`: a step of the handler or a
request ends the listing, moves the kernel's offset forward, or brings the reply
nearer (`StepsLeft`), whatever others add and remove. A reply that is not the
last has an entry in it, and `OrderInv` puts that entry beyond the offset the
kernel asked from.

`AttributesProofs`. `SetAttrIsRight`, `CacheIsCurrent`. The
calls of SetAttr made so far have done their part and nothing else (`ApplyInv`),
and the next one is the first that has something to set (`FirstCallSpec`). During
a request the kernel has what the file was like when it began (`CacheInv`).

`XAttrProofs`. `ReadersAreRight`, `ErrnosSurvive`, and the action property `DisabledIsUnsupported`. The first part
is about the tables, for an errno of any number: the 131 names of the C library
differ (`NamesDiffer`), so `Errno` undoes `libcNames` (`ErrnoOfName`); an errno
either survives or becomes what `StatusCodeToErrno` has for its code
(`ReplyOfErrno`); and no errno becomes ENODATA, ERANGE or ENOSYS that was not,
but for EOPNOTSUPP (`ReplyTells`), because what absl files under kOutOfRange and
kUnimplemented is in the table of names. The second part needs of the handler
that the history of a reader has the present length and the length in the buffer
(`RequestInv`).

`XAttrTypeCorrect` needs that the list of some names is no longer than the list
of all (`ListLenBound`). The length is a sum over a set, defined by recursion
over subsets; that the recursion has one solution and that the order of the
summands does not matter is shown of a set that is minimal among those for which
it would fail (`MinimalSet`), since induction itself cannot be applied.

`OwnerProofs`. `HandlesAreOwned` and `LastWatcherHears`. A handle that is about to
be stored is known to one thread, and no thread is going to free the one that is
stored, even if swaps overlap (`StoredInv`); while the last watcher is owed a
notification, of a write since the store of its handle, somebody is on the way to
send it (`NotifyInv`); without overlap
every handle is in one place and a loaded one is still there (`SwapInv`).

`MountsAreOwned` (`EveryMountHasOneOwner`) counts the variables that hold a
target (`Held`): a move swaps two variables and leaves the count as it is
(`SwapKeepsSize`), a mount and an unmount change it by one.

`SessionProofs`. `MainLeavesNothing` and `RootStaysTheSource`. What Main holds is
an initial part of one chain of resources (`ChainInv`), so the Cleanups undo it
in the reverse order from wherever it is left; few descriptors are open before
the mount (`SetupInv`), so that `root_` gets a number up to 3 (`RootInv`); no
descriptor of the program outlives its resource (`FdInv`).

`SignalLeadsToTheEnd` is the safety half of `SignalEndsProgram`: once the session
is to exit it stays so, no request is taken any more (`InService` only shrinks),
and every step of Main begins a later stage, or takes or gives back one thing
more. So only a thread that does not come back, from a FIFO, can hold the program.

The assumptions are `CacheAssumption`, `FSAssumption`, `RequestAssumption`,
`HandlesAssumption`, `ReadDirAssumption`, `AttributesAssumption`,
`XAttrAssumption`, `PollAssumption`, `MountsAssumption` and
`SessionAssumption`. They say what the constants are: bounds are numbers, NULL
(NONE in `Mounts`, NOFD in `Session`) is none of the values it stands beside, a
FIFO is no directory, the threads of `Poll`,
the variables of `Mounts` and the names of `XAttr` are finitely many, and a thread
of `Session` is neither "quiet" nor "queued". Three say something of the world:
`operator new` does not return 0 (`Handles`), a directory entry fits into the
buffer the kernel offers (`ReadDir`; the kernel asks for at least a page), and
descriptors up to 4 are allowed (`Session`).

Only model-checked are the liveness properties: `HandlersReturn`,
`ForgottenInodesAreFreed`, `EveryRequestIsAnswered`, `ListingsEnd`,
`OthersAreServed` and `SignalEndsProgram`. Fairness and ENABLED are beyond the
prover. For three of them the theorems above show that no step leads away from
the end; what TLC adds, on its instances, is that some step is always possible,
but in the open of a FIFO.

## 5. Plan

The modules planned are written, and every safety property that a run checks is
proved, but for those that `race`, `source`, `expiry` and `probe` refute. What is left is liveness for any
instance, for which `HandlersAdvance`, `ListingsAdvance` and
`SignalLeadsToTheEnd` are one half.

## 6. Not modelled

Page alignment itself is not implemented in this version of the program: it
passes data through. The bytes of files, permissions and times (but for which of
them a SetAttr sets) are abstracted away. System calls are their outcomes,
libfuse and the kernel the environment described above; `third_party` holds
kernel headers and build files.

* `ScopedSignalMask` (`signal.cc`) is used by nobody. Its destructor restores the
  mask of its creation whenever it runs; whether that is right depends on the
  order in which its users destroy several of them, and there are no users.
* `Prepend` and `Append` of `status.cc`, and some wrappers of `syscalls.cc`, are
  called by nobody; `syscalls::poll` converts a timeout, but its one caller
  passes zero.
* The branch of SetAttr that opens the file itself is never taken: the wrapper
  fails a CHECK without a `fuse_file_info`, and no handle is 0
  (`NoHandleIsZero`).
* The generation of a symbolic link can never be read, because opening it
  through its path-only descriptor fails with ELOOP. In `PageAlignFS` this is one
  of the outcomes of `EntryParam`; that it is certain for links is not
  distinguished.
* `poll` on a path-only descriptor answers POLLNVAL, so the reply of Poll carries
  no events and takes nothing off what a process has still to hear of.
* A data race can do more than the outcomes of a load and a store that
  `InodeCache` and `Poll` have, a race on the hash map above all; these suffice
  to refute `CheckHolds` and to reach freed poll handles.
* `GetLk`, `SetLk`, `FLock`, `FAllocate`, `CopyFileRange` and `LSeek` make their
  system calls on the path-only descriptor of an Inode and get EBADF, always: no
  lock is ever held through the mount, and there is no state of locks to model.
* The parsing of arguments is one step of `Session` that succeeds or fails.
