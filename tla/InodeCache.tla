----------------------------- MODULE InodeCache -----------------------------
(***************************************************************************)
(* class InodeCache (inode.cc, inode.h): the table of every Inode that     *)
(* pafs keeps for the kernel or for a handler that is running.             *)
(*                                                                         *)
(* The code is a hash map from (source device, inode number) to a heap     *)
(* cell that holds a reference count and an Inode.  The address of the     *)
(* Inode is the node id the kernel is given, so the address is kept apart  *)
(* from the key here, and an address may be reused once it is freed.       *)
(*                                                                         *)
(* There is no lock, although fuse_session_loop_mt calls the handlers from *)
(* several threads (main.cc:116).  A `refcnt++' that no lock protects is a *)
(* data race; its outcomes are those of a load and a later store.  Each    *)
(* operation is therefore two steps: the call, which searches the map and  *)
(* computes the new count, and Commit, which stores it.                    *)
(***************************************************************************)
EXTENDS Integers, FiniteSets

CONSTANTS
  Threads,  \* the threads of the session loop
  Files,    \* the files of the source tree, past and future
  Keys,     \* (st_dev, st_ino) pairs
  KeyOf,    \* the key of each file; two files may have the same key, since
            \* the source file system reuses the number of a deleted file
  Addrs,    \* addresses at which an Inode can be allocated
  NULL      \* no address, no file

ASSUME CacheAssumption ==
  /\ IsFiniteSet(Threads)
  /\ KeyOf \in [Files -> Keys]
  /\ NULL \notin Addrs
  /\ NULL \notin Files

VARIABLES
  inodes_,      \* the map: the address of the Inode cached under a key
  object,       \* the file whose descriptor the Inode at an address holds
                \* open (fd_), NULL where no Inode is allocated
  refcnt,       \* the count stored beside that Inode
  generation_,  \* Inode::generation_, the cached result of FS_IOC_GETVERSION
  pendAddr,     \* the cell whose new count a thread has yet to store
  pendVal,      \* the count it is going to store
  aborted       \* a CHECK failed: the process is gone

cacheVars == <<inodes_, object, refcnt, generation_, pendAddr, pendVal, aborted>>

CacheTypeOK ==
  /\ inodes_ \in [Keys -> Addrs \cup {NULL}]
  /\ object \in [Addrs -> Files \cup {NULL}]
  /\ refcnt \in [Addrs -> Nat]
  /\ generation_ \in [Addrs -> {"unset", "ok", "err"}]
  /\ pendAddr \in [Threads -> Addrs \cup {NULL}]
  /\ pendVal \in [Threads -> Nat]
  /\ aborted \in BOOLEAN

CacheInit ==
  /\ inodes_ = [k \in Keys |-> NULL]
  /\ object = [a \in Addrs |-> NULL]
  /\ refcnt = [a \in Addrs |-> 0]
  /\ generation_ = [a \in Addrs |-> "unset"]
  /\ pendAddr = [t \in Threads |-> NULL]
  /\ pendVal = [t \in Threads |-> 0]
  /\ aborted = FALSE

(***************************************************************************)
(* A thread runs on only when its last operation has stored its count.     *)
(***************************************************************************)
Ready(t) == ~aborted /\ pendAddr[t] = NULL

(***************************************************************************)
(* inodes_.find({inode.GetSourceDevice(), inode.GetNumber()}) for the      *)
(* Inode at address a.  A freed Inode has no key to search for, so the     *)
(* search finds nothing.                                                   *)
(***************************************************************************)
Find(a) == IF object[a] = NULL THEN NULL ELSE inodes_[KeyOf[object[a]]]

\* The thread is about to store v in the cell at address a.
Store(t, a, v) ==
  /\ pendAddr' = [pendAddr EXCEPT ![t] = a]
  /\ pendVal' = [pendVal EXCEPT ![t] = v]

(***************************************************************************)
(* InodeCache::Insert of an Inode that holds f open: a is the address of   *)
(* the Inode that the returned shared_ptr refers to, a new one if the key  *)
(* is not in the map.                                                      *)
(***************************************************************************)
InsertUncounted(t, f, a) ==
  \/ /\ inodes_[KeyOf[f]] = NULL
     /\ object[a] = NULL
     /\ inodes_' = [inodes_ EXCEPT ![KeyOf[f]] = a]
     /\ object' = [object EXCEPT ![a] = f]
     /\ Store(t, a, 1)
     /\ UNCHANGED <<refcnt, generation_, aborted>>
  \/ /\ inodes_[KeyOf[f]] = a
     /\ Store(t, a, refcnt[a])
     /\ UNCHANGED <<inodes_, object, refcnt, generation_, aborted>>

InsertAlwaysNew(t, f, a) ==
  /\ object[a] = NULL
  /\ inodes_' = [inodes_ EXCEPT ![KeyOf[f]] = a]
  /\ object' = [object EXCEPT ![a] = f]
  /\ Store(t, a, 1)
  /\ UNCHANGED <<refcnt, generation_, aborted>>

Insert(t, f, a) ==
  \/ /\ inodes_[KeyOf[f]] = NULL
     /\ object[a] = NULL
     /\ inodes_' = [inodes_ EXCEPT ![KeyOf[f]] = a]
     /\ object' = [object EXCEPT ![a] = f]
     /\ Store(t, a, 1)
     /\ UNCHANGED <<refcnt, generation_, aborted>>
  \/ /\ inodes_[KeyOf[f]] = a
     /\ Store(t, a, refcnt[a] + 1)
     /\ UNCHANGED <<inodes_, object, refcnt, generation_, aborted>>

\* InodeCache::Ref when the map has an entry; without one it returns an
\* InternalError and changes nothing, which is the callers' business.
Ref(t, a, ntimes) ==
  /\ Store(t, Find(a), refcnt[Find(a)] + ntimes)
  /\ UNCHANGED <<inodes_, object, refcnt, generation_, aborted>>

(***************************************************************************)
(* InodeCache::Unref.  An Inode that the map does not have is an           *)
(* InternalError; CHECK_GE(refcnt, ntimes) ends the process.               *)
(***************************************************************************)
UnrefNothing(t, a, ntimes) ==
  UNCHANGED cacheVars

UnrefOne(t, a, ntimes) ==
  IF Find(a) = NULL
    THEN UNCHANGED cacheVars
    ELSE IF refcnt[Find(a)] < 1
      THEN /\ aborted' = TRUE
           /\ UNCHANGED <<inodes_, object, refcnt, generation_, pendAddr, pendVal>>
      ELSE /\ Store(t, Find(a), refcnt[Find(a)] - 1)
           /\ UNCHANGED <<inodes_, object, refcnt, generation_, aborted>>

UnrefUnchecked(t, a, ntimes) ==
  IF Find(a) = NULL
    THEN UNCHANGED cacheVars
    ELSE /\ Store(t, Find(a), refcnt[Find(a)] - (ntimes + 1))
         /\ UNCHANGED <<inodes_, object, refcnt, generation_, aborted>>

Unref(t, a, ntimes) ==
  IF Find(a) = NULL
    THEN UNCHANGED cacheVars
    ELSE IF refcnt[Find(a)] < ntimes
      THEN /\ aborted' = TRUE
           /\ UNCHANGED <<inodes_, object, refcnt, generation_, pendAddr, pendVal>>
      ELSE /\ Store(t, Find(a), refcnt[Find(a)] - ntimes)
           /\ UNCHANGED <<inodes_, object, refcnt, generation_, aborted>>

(***************************************************************************)
(* The store of the new count; `if (refcnt == 0) inodes_.erase(iter)'      *)
(* destroys the Inode and closes its descriptor.                           *)
(***************************************************************************)
CommitErasesAtOne(t) ==
  LET a == pendAddr[t] IN
  /\ refcnt' = [refcnt EXCEPT ![a] = IF pendVal[t] <= 1 THEN 0 ELSE pendVal[t]]
  /\ pendAddr' = [pendAddr EXCEPT ![t] = NULL]
  /\ pendVal' = [pendVal EXCEPT ![t] = 0]
  /\ IF pendVal[t] <= 1
       THEN /\ inodes_' = [k \in Keys |-> IF inodes_[k] = a THEN NULL ELSE inodes_[k]]
            /\ object' = [object EXCEPT ![a] = NULL]
            /\ generation_' = [generation_ EXCEPT ![a] = "unset"]
       ELSE UNCHANGED <<inodes_, object, generation_>>
  /\ UNCHANGED aborted

CommitLeavesEntry(t) ==
  LET a == pendAddr[t] IN
  /\ refcnt' = [refcnt EXCEPT ![a] = pendVal[t]]
  /\ pendAddr' = [pendAddr EXCEPT ![t] = NULL]
  /\ pendVal' = [pendVal EXCEPT ![t] = 0]
  /\ object' = IF pendVal[t] = 0 THEN [object EXCEPT ![a] = NULL] ELSE object
  /\ UNCHANGED <<inodes_, generation_, aborted>>

Commit(t) ==
  LET a == pendAddr[t] IN
  /\ refcnt' = [refcnt EXCEPT ![a] = pendVal[t]]
  /\ pendAddr' = [pendAddr EXCEPT ![t] = NULL]
  /\ pendVal' = [pendVal EXCEPT ![t] = 0]
  /\ IF pendVal[t] = 0
       THEN /\ inodes_' = [k \in Keys |-> IF inodes_[k] = a THEN NULL ELSE inodes_[k]]
            /\ object' = [object EXCEPT ![a] = NULL]
            /\ generation_' = [generation_ EXCEPT ![a] = "unset"]
       ELSE UNCHANGED <<inodes_, object, generation_>>
  /\ UNCHANGED aborted
=============================================================================
