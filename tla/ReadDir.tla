------------------------------ MODULE ReadDir ------------------------------
(***************************************************************************)
(* Listing a directory: PageAlignFS::ReadDirInternal (page_align_fs.cc),   *)
(* class FuseDirsBuilder (fuse.cc) and the directory calls of syscalls.cc. *)
(*                                                                         *)
(* A process lists a directory in several READDIR requests.  Each carries  *)
(* the offset of the last entry that was used, and the handler seeks the   *)
(* DIR of the handle there, reads entries, opens each one by name, and     *)
(* packs them into a buffer until it is full.  An empty buffer tells the   *)
(* kernel that the directory is at its end.  The C library reads entries   *)
(* from the source directory several at a time, so that an entry may be    *)
(* gone when it is handed out; others change the directory all the time.   *)
(* The kernel has one READDIR of a handle under way at a time.             *)
(***************************************************************************)
EXTENDS Naturals, Sequences, FiniteSetsExt

CONSTANTS
  Names,       \* names of entries
  Fifos,       \* the names that FIFOs go by
  Positions,   \* offsets in the directory: 1..Positions
  EntrySize,   \* the room that fuse_add_direntry needs for a name
  PlusSize,    \* what fuse_add_direntry_plus needs beyond that
  BufSize,     \* the size the kernel asks for
  Batch,       \* entries that the C library reads at a time
  MaxChanges,  \* bound: changes to the directory by others
  NULL         \* no entry

\* struct dirent: a name, and in d_off the offset from which to go on.
Dirent == [name : Names, off : 1..Positions]

\* The kernel asks for at least a page, and the longest name with all its
\* attributes takes a tenth of one.
ASSUME ReadDirAssumption ==
  /\ Fifos \subseteq Names
  /\ Positions \in Nat
  /\ EntrySize \in [Names -> Nat \ {0}]
  /\ PlusSize \in Nat
  /\ BufSize \in Nat
  /\ \A n \in Names : EntrySize[n] + PlusSize <= BufSize
  /\ Batch \in Nat \ {0}
  /\ MaxChanges \in Nat
  /\ NULL \notin Names \cup Dirent

VARIABLES
  slot,      \* the source directory: the entry at each offset
  changes,   \* changes made so far
  listing,   \* kernel: "idle", "reading", "ended" or "failed"
  kOff,      \* kernel: the offset of the last entry used
  seen,      \* kernel: how often each name came up in this listing: 0, 1, or 2 for more
  stable,    \* history: names that were there all the time since it began
  removed,   \* history: names removed since the listing began
  pc,        \* handler: "idle", "read", "find", "add" or "reply"
  plus,      \* READDIRPLUS
  dirPos,    \* DIR: the offset up to which the C library has read
  ahead,     \* DIR: entries it has read and not yet handed out
  entry,     \* the dirent in hand
  buf_,      \* FuseDirsBuilder::buf_
  used       \* its size

dirVars == <<slot, changes>>
kernelVars == <<listing, kOff, seen, stable, removed>>
vars == <<dirVars, kernelVars, pc, plus, dirPos, ahead, entry, buf_, used>>

(***************************************************************************)
(* Types of the state.                                                     *)
(***************************************************************************)
TypeOK ==
  /\ slot \in [1..Positions -> Names \cup {NULL}]
  /\ changes \in 0..MaxChanges
  /\ listing \in {"idle", "reading", "ended", "failed"}
  /\ kOff \in 0..Positions
  /\ seen \in [Names -> 0..2]
  /\ stable \subseteq Names
  /\ removed \subseteq Names
  /\ pc \in {"idle", "read", "find", "add", "reply"}
  /\ plus \in BOOLEAN
  /\ dirPos \in 0..Positions
  /\ ahead \subseteq Dirent
  /\ entry \in Dirent \cup {NULL}
  /\ buf_ \in Seq(Dirent)
  /\ used \in 0..BufSize

Present == {slot[p] : p \in 1..Positions} \ {NULL}

OneSlotEach == \A p, q \in 1..Positions : slot[p] # NULL /\ slot[p] = slot[q] => p = q

Init ==
  /\ slot \in [1..Positions -> Names \cup {NULL}]
  /\ OneSlotEach
  /\ changes = 0
  /\ listing = "idle"
  /\ kOff = 0
  /\ seen = [n \in Names |-> 0]
  /\ stable = {}
  /\ removed = {}
  /\ pc = "idle"
  /\ plus = FALSE
  /\ dirPos = 0
  /\ ahead = {}
  /\ entry = NULL
  /\ buf_ = <<>>
  /\ used = 0
-----------------------------------------------------------------------------
\* A process opens a listing, or rewinds it.
StartListing ==
  /\ pc = "idle"
  /\ listing # "reading"
  /\ listing' = "reading"
  /\ kOff' = 0
  /\ seen' = [n \in Names |-> 0]
  /\ stable' = Present
  /\ removed' = {}
  /\ UNCHANGED <<dirVars, pc, plus, dirPos, ahead, entry, buf_, used>>

\* READDIR or READDIRPLUS: the kernel may change between them at any request.
\* syscalls::seekdir drops what the C library has read ahead.
ReceiveNoSeek(p) ==
  /\ pc = "idle"
  /\ listing = "reading"
  /\ plus' = p
  /\ buf_' = <<>>
  /\ used' = 0
  /\ pc' = "read"
  /\ UNCHANGED <<dirVars, kernelVars, entry, dirPos, ahead>>

Receive(p) ==
  /\ pc = "idle"
  /\ listing = "reading"
  /\ plus' = p
  /\ dirPos' = kOff
  /\ ahead' = {}
  /\ buf_' = <<>>
  /\ used' = 0
  /\ pc' = "read"
  /\ UNCHANGED <<dirVars, kernelVars, entry>>

\* getdents: up to Batch of the entries behind dirPos, those of the lowest
\* offsets.
Behind == {p \in 1..Positions : p > dirPos /\ slot[p] # NULL}

Getdents ==
  {[name |-> slot[p], off |-> p] :
     p \in {q \in Behind : Cardinality({b \in Behind : b < q}) < Batch}}

\* The C library hands out what it has read in the order of the offsets.
First(S) == CHOOSE e \in S : \A d \in S : e.off <= d.off

\* The handler gives up.  What it has put into the buffer is lost with it.
Fail ==
  /\ pc' = "idle"
  /\ listing' = "failed"
  /\ entry' = NULL
  /\ buf_' = <<>>
  /\ used' = 0
  /\ UNCHANGED <<dirVars, kOff, seen, stable, removed, plus, dirPos, ahead>>

\* syscalls::readdir: the next entry that was read ahead, or of a new batch.
ReadEntry ==
  /\ pc = "read"
  /\ LET more == IF ahead = {} THEN Getdents ELSE ahead IN
       IF more = {}
         THEN pc' = "reply" /\ UNCHANGED <<dirPos, ahead, entry>>
         ELSE /\ pc' = "find"
              /\ entry' = First(more)
              /\ ahead' = more \ {First(more)}
              /\ dirPos' = IF ahead = {} THEN Max({e.off : e \in more}) ELSE dirPos
  /\ UNCHANGED <<dirVars, kernelVars, plus, buf_, used>>

\* readdir, FindOrCreateInode or Stat reports an error of its own.
HandlerFails == pc \in {"read", "find"} /\ Fail

\* FindOrCreateInode opens the entry by name; it may be gone by now.  Then
\* CreateFuseEntryParam reads its attributes and, for READDIRPLUS, the
\* generation.
EntryFound ==
  /\ pc = "find"
  /\ entry.name \in Present
  /\ pc' = "add"
  /\ UNCHANGED <<dirVars, kernelVars, plus, dirPos, ahead, entry, buf_, used>>

Room(n) == EntrySize[n] + (IF plus THEN PlusSize ELSE 0)

(***************************************************************************)
(* FuseDirsBuilder::AddDirEntry: false if the entry does not fit, and the  *)
(* handler stops there; the next request seeks back to this entry.         *)
(***************************************************************************)
AddDirEntryTight ==
  /\ pc = "add"
  /\ IF Room(entry.name) + used >= BufSize
       THEN pc' = "reply" /\ UNCHANGED <<buf_, used>>
       ELSE /\ pc' = "read"
            /\ buf_' = Append(buf_, entry)
            /\ used' = used + Room(entry.name)
  /\ entry' = NULL
  /\ UNCHANGED <<dirVars, kernelVars, plus, dirPos, ahead>>

AddDirEntryOffsetBefore ==
  /\ pc = "add"
  /\ IF Room(entry.name) + used > BufSize
       THEN pc' = "reply" /\ UNCHANGED <<buf_, used>>
       ELSE /\ pc' = "read"
            /\ buf_' = Append(buf_, [entry EXCEPT !.off = entry.off - 1])
            /\ used' = used + Room(entry.name)
  /\ entry' = NULL
  /\ UNCHANGED <<dirVars, kernelVars, plus, dirPos, ahead>>

AddDirEntry ==
  /\ pc = "add"
  /\ IF Room(entry.name) + used > BufSize
       THEN pc' = "reply" /\ UNCHANGED <<buf_, used>>
       ELSE /\ pc' = "read"
            /\ buf_' = Append(buf_, entry)
            /\ used' = used + Room(entry.name)
  /\ entry' = NULL
  /\ UNCHANGED <<dirVars, kernelVars, plus, dirPos, ahead>>

(***************************************************************************)
(* FuseDirsBuilder::Reply.  The kernel hands the process as many entries   *)
(* as its own buffer holds, at least one, and asks again from the last of  *)
(* them; no entry at all is the end of the directory.                      *)
(***************************************************************************)
ReplyEnd ==
  /\ pc = "reply"
  /\ buf_ = <<>>
  /\ pc' = "idle"
  /\ listing' = "ended"
  /\ UNCHANGED <<dirVars, kOff, seen, stable, removed, plus, dirPos, ahead, entry, buf_, used>>

ReplyEntries(k) ==
  /\ pc = "reply"
  /\ k <= Len(buf_)
  /\ pc' = "idle"
  /\ kOff' = buf_[k].off
  /\ seen' = [n \in Names |->
                Min({2, seen[n] + Cardinality({i \in 1..k : buf_[i].name = n})})]
  /\ buf_' = <<>>
  /\ used' = 0
  /\ UNCHANGED <<dirVars, listing, stable, removed, plus, dirPos, ahead, entry>>

\* The reply cannot be sent: the process has been killed.
ReplyFails == pc = "reply" /\ Fail
-----------------------------------------------------------------------------
\* Others remove an entry, or make one at any free offset.
Remove(p) ==
  /\ changes < MaxChanges
  /\ slot[p] # NULL
  /\ changes' = changes + 1
  /\ slot' = [slot EXCEPT ![p] = NULL]
  /\ stable' = stable \ {slot[p]}
  /\ removed' = removed \cup {slot[p]}
  /\ UNCHANGED <<listing, kOff, seen, pc, plus, dirPos, ahead, entry, buf_, used>>

Make(p, n) ==
  /\ changes < MaxChanges
  /\ slot[p] = NULL
  /\ n \notin Present
  /\ changes' = changes + 1
  /\ slot' = [slot EXCEPT ![p] = n]
  /\ UNCHANGED <<kernelVars, pc, plus, dirPos, ahead, entry, buf_, used>>

Handler ==
  \/ ReadEntry \/ HandlerFails \/ EntryFound \/ AddDirEntry
  \/ ReplyEnd \/ ReplyFails \/ \E k \in 1..Positions : ReplyEntries(k)

Ask == \E p \in BOOLEAN : Receive(p)

Next ==
  \/ Handler
  \/ StartListing
  \/ Ask
  \/ \E p \in 1..Positions : Remove(p) \/ \E n \in Names : Make(p, n)

Spec == Init /\ [][Next]_vars
-----------------------------------------------------------------------------
(***************************************************************************)
(* A listing that comes to its end has every entry that was there all the  *)
(* time exactly once, however many requests it took, whatever was added    *)
(* and removed meanwhile, and wherever the buffers were full; no entry     *)
(* comes up twice unless it was removed, and made again, meanwhile.        *)
(***************************************************************************)
StableEntriesSeenOnce ==
  /\ listing = "ended" => \A n \in stable : seen[n] = 1
  /\ \A n \in Names \ removed : seen[n] <= 1

(***************************************************************************)
(* The handler does not find an entry by its name only when it was removed *)
(* after the listing began: a directory that others leave alone is listed  *)
(* without this failure, although the C library reads ahead.               *)
(***************************************************************************)
MissingOnlyIfRemoved ==
  pc = "find" /\ entry.name \notin Present => entry.name \in removed

\* READDIRPLUS reads the generation of an entry, for which it opens the file
\* without O_NONBLOCK (inode.cc:38).
WaitsForPeer == pc = "find" /\ plus /\ entry.name \in Fifos

(***************************************************************************)
(* Fairness: the handler goes on, unless it waits in the open of a FIFO    *)
(* whose other end nobody opens, and the process that lists the directory  *)
(* goes on asking.                                                         *)
(***************************************************************************)
FairSpec == Spec /\ WF_vars(Handler /\ ~WaitsForPeer) /\ WF_vars(Ask)

(***************************************************************************)
(* A listing ends or fails: the offsets of successive requests go forward. *)
(* The exception is a READDIRPLUS that stays in the open of a FIFO.        *)
(***************************************************************************)
ListingsEnd == listing = "reading" ~> (listing # "reading" \/ []WaitsForPeer)
=============================================================================
