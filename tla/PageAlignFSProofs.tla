------------------------- MODULE PageAlignFSProofs -------------------------
(***************************************************************************)
(* Proofs about PageAlignFS for any number of threads, files, addresses    *)
(* and directory entries: types in every execution, and then, in every     *)
(* execution in which the accesses to the cache are serialised, that the   *)
(* reference counts of InodeCache are exact, so that no Inode is freed     *)
(* that is still in use and no CHECK fails; what a node id stands for,     *)
(* which rests on that; and that PageAlignFS implements NodeTable.         *)
(***************************************************************************)
EXTENDS PageAlignFS, FiniteSetTheorems, TLAPS

(***************************************************************************)
(* What a handler has in its slots at each point: the entry it is working  *)
(* on and everything after it is empty before InsertEntry, and only the    *)
(* shared_ptr of that entry is set from there to RefEntry.  It is what     *)
(* keeps one reference from overwriting another.                           *)
(***************************************************************************)
SlotInv ==
  \A t \in Threads :
    /\ pc[t] \in {"find", "insert", "entry", "gen", "add", "ref"} => idx[t] <= MaxEntries
    /\ pc[t] \in {"idle", "make", "names", "use", "forgets"} => idx[t] = 1
    /\ pc[t] \in {"idle", "make", "names", "use", "forgets", "find", "insert", "readdir"} =>
         \A i \in Idx : i >= idx[t] => sharedPtr[<<t, i>>] = NULL /\ kernelRef[<<t, i>>] = NULL
    /\ pc[t] \in {"entry", "gen", "add", "ref"} =>
         /\ sharedPtr[<<t, idx[t]>>] # NULL
         /\ kernelRef[<<t, idx[t]>>] = NULL
         /\ \A i \in Idx : i > idx[t] => sharedPtr[<<t, i>>] = NULL /\ kernelRef[<<t, i>>] = NULL
    /\ pc[t] = "insert" => found[t] # NULL

TypeInv == TypeOK /\ SlotInv

USE CacheAssumption, FSAssumption

\* Find searches the map: it yields an address or nothing.
LEMMA FindType ==
  ASSUME CacheTypeOK, NEW a \in Addrs
  PROVE  Find(a) \in Addrs \cup {NULL}
BY DEF CacheTypeOK, Find

\* The operations of the cache keep its types.
LEMMA InsertType ==
  ASSUME CacheTypeOK, NEW t \in Threads, NEW f \in Files, NEW a \in Addrs, Insert(t, f, a)
  PROVE  CacheTypeOK'
BY DEF CacheTypeOK, Insert, Store

LEMMA RefType ==
  ASSUME CacheTypeOK, NEW t \in Threads, NEW a \in Addrs, NEW n \in Nat,
         Find(a) # NULL, Ref(t, a, n)
  PROVE  CacheTypeOK'
<1>1. Find(a) \in Addrs
  BY FindType
<1> QED
  BY <1>1 DEF CacheTypeOK, Ref, Store

LEMMA UnrefType ==
  ASSUME CacheTypeOK, NEW t \in Threads, NEW a \in Addrs, NEW n \in Nat, Unref(t, a, n)
  PROVE  CacheTypeOK'
<1>1. CASE Find(a) = NULL
  BY <1>1 DEF CacheTypeOK, Unref, cacheVars
<1>2. CASE Find(a) # NULL /\ refcnt[Find(a)] < n
  BY <1>2 DEF CacheTypeOK, Unref
<1>3. CASE Find(a) # NULL /\ ~(refcnt[Find(a)] < n)
  <2>1. Find(a) \in Addrs
    BY <1>3, FindType
  <2>2. refcnt[Find(a)] - n \in Nat
    BY <1>3, <2>1 DEF CacheTypeOK
  <2> QED
    BY <1>3, <2>1, <2>2 DEF CacheTypeOK, Unref, Store
<1> QED
  BY <1>1, <1>2, <1>3

LEMMA CommitType ==
  ASSUME CacheTypeOK, NEW t \in Threads, pendAddr[t] # NULL, Commit(t)
  PROVE  CacheTypeOK'
<1>1. pendAddr[t] \in Addrs /\ pendVal[t] \in Nat
  BY DEF CacheTypeOK
<1> QED
  BY <1>1 DEF CacheTypeOK, Commit

\* The slots are finitely many, and so are the references in them.
LEMMA SlotsFinite == IsFiniteSet(Slots)
<1>1. IsFiniteSet(Idx)
  BY FS_Interval DEF Idx
<1> QED
  BY <1>1, FS_Product DEF Slots

LEMMA SlotSubset ==
  ASSUME NEW S \in SUBSET Slots
  PROVE  IsFiniteSet(S) /\ Cardinality(S) \in Nat
BY SlotsFinite, FS_Subset, FS_CardinalityType

(***************************************************************************)
(* Every step keeps the types, data races included: what a thread has in   *)
(* its slots is nobody else's business.                                    *)
(***************************************************************************)
LEMMA TypeStep ==
  ASSUME TypeInv, Next
  PROVE  TypeInv'
<1> USE DEF Here
<1>Make. ASSUME NEW t \in Threads, Make(t) PROVE TypeInv'
  <2>1. TypeOK'
    BY <1>Make DEF TypeInv, TypeOK, CacheTypeOK, cacheVars, slotVars, kernelVars, threadVars,
      Make, At, Goto, Fail, PCs, CanAppear, Existing
  <2>2. SlotInv'
    BY <1>Make DEF TypeInv, TypeOK, SlotInv, slotVars, Make, At, Goto, Fail, Idx, Slots
  <2> QED
    BY <2>1, <2>2 DEF TypeInv
<1>FindEntry. ASSUME NEW t \in Threads, FindEntry(t) PROVE TypeInv'
  <2>1. TypeOK'
    <3>1. found' \in [Threads -> Files \cup {NULL}] /\ pc' \in [Threads -> PCs]
      BY <1>FindEntry DEF TypeInv, TypeOK, FindEntry, Fail, Goto, PCs
    <3>2. dot' \subseteq Slots
      BY <1>FindEntry DEF TypeInv, TypeOK, FindEntry, Slots
    <3> QED
      BY <1>FindEntry, <3>1, <3>2 DEF TypeInv, TypeOK, CacheTypeOK, cacheVars, kernelVars, FindEntry
  <2>2. SlotInv'
    BY <1>FindEntry DEF TypeInv, TypeOK, SlotInv, slotVars, FindEntry, At, Goto, Fail, Idx, Slots, Idx, Slots
  <2> QED
    BY <2>1, <2>2 DEF TypeInv
<1>EntryParam. ASSUME NEW t \in Threads, EntryParam(t) PROVE TypeInv'
  <2>1. TypeOK'
    BY <1>EntryParam DEF TypeInv, TypeOK, CacheTypeOK, cacheVars, slotVars, kernelVars, threadVars,
      EntryParam, At, Goto, Fail, PCs, AfterParam
  <2>2. SlotInv'
    BY <1>EntryParam DEF TypeInv, TypeOK, SlotInv, slotVars, EntryParam, At, Goto, Fail, Idx, Slots, AfterParam
  <2> QED
    BY <2>1, <2>2 DEF TypeInv
<1>ReadDirNext. ASSUME NEW t \in Threads, ReadDirNext(t) PROVE TypeInv'
  <2>1. TypeOK'
    BY <1>ReadDirNext DEF TypeInv, TypeOK, CacheTypeOK, cacheVars, slotVars, kernelVars, threadVars,
      ReadDirNext, At, Goto, Fail, PCs
  <2>2. SlotInv'
    BY <1>ReadDirNext DEF TypeInv, TypeOK, SlotInv, slotVars, ReadDirNext, At, Goto, Fail, Idx, Slots
  <2> QED
    BY <2>1, <2>2 DEF TypeInv
<1>RemoveName. ASSUME NEW t \in Threads, RemoveName(t) PROVE TypeInv'
  <2>1. TypeOK'
    BY <1>RemoveName DEF TypeInv, TypeOK, CacheTypeOK, cacheVars, slotVars, kernelVars, threadVars,
      RemoveName, At, Goto, Fail, PCs
  <2>2. SlotInv'
    BY <1>RemoveName DEF TypeInv, TypeOK, SlotInv, slotVars, RemoveName, At, Goto, Fail, Idx, Slots
  <2> QED
    BY <2>1, <2>2 DEF TypeInv
<1>UseInode. ASSUME NEW t \in Threads, UseInode(t) PROVE TypeInv'
  <2>1. TypeOK'
    BY <1>UseInode DEF TypeInv, TypeOK, CacheTypeOK, cacheVars, slotVars, kernelVars, threadVars,
      UseInode, At, Goto, Fail, PCs
  <2>2. SlotInv'
    BY <1>UseInode DEF TypeInv, TypeOK, SlotInv, slotVars, UseInode, At, Goto, Fail, Idx, Slots
  <2> QED
    BY <2>1, <2>2 DEF TypeInv
<1>Notify. ASSUME NEW t \in Threads, Notify(t) PROVE TypeInv'
  <2>1. TypeOK'
    BY <1>Notify DEF TypeInv, TypeOK, CacheTypeOK, cacheVars, slotVars, kernelVars, threadVars,
      Notify, At, Goto, Fail, PCs
  <2>2. SlotInv'
    BY <1>Notify DEF TypeInv, TypeOK, SlotInv, slotVars, Notify, At, Goto, Fail, Idx, Slots
  <2> QED
    BY <2>1, <2>2 DEF TypeInv
<1>Finish. ASSUME NEW t \in Threads, Finish(t) PROVE TypeInv'
  <2>1. TypeOK'
    BY <1>Finish DEF TypeInv, TypeOK, CacheTypeOK, cacheVars, slotVars, kernelVars, threadVars,
      Finish, At, Goto, Fail, PCs, Slots, Idx
  <2>2. SlotInv'
    BY <1>Finish DEF TypeInv, TypeOK, SlotInv, slotVars, Finish, At, Goto, Fail, Idx, Slots, Slots, Idx
  <2> QED
    BY <2>1, <2>2 DEF TypeInv
<1>ForgetMulti. ASSUME NEW t \in Threads, ForgetMulti(t) PROVE TypeInv'
  <2>1. TypeOK'
    BY <1>ForgetMulti DEF TypeInv, TypeOK, CacheTypeOK, cacheVars, slotVars, kernelVars, threadVars,
      ForgetMulti, At, Goto, Fail, PCs
  <2>2. SlotInv'
    BY <1>ForgetMulti DEF TypeInv, TypeOK, SlotInv, slotVars, ForgetMulti, At, Goto, Fail, Idx, Slots
  <2> QED
    BY <2>1, <2>2 DEF TypeInv
<1>ForgetDone. ASSUME NEW t \in Threads, ForgetDone(t) PROVE TypeInv'
  <2>1. TypeOK'
    BY <1>ForgetDone DEF TypeInv, TypeOK, CacheTypeOK, cacheVars, slotVars, kernelVars, threadVars,
      ForgetDone, At, Goto, Fail, PCs
  <2>2. SlotInv'
    BY <1>ForgetDone DEF TypeInv, TypeOK, SlotInv, slotVars, ForgetDone, At, Goto, Fail, Idx, Slots
  <2> QED
    BY <2>1, <2>2 DEF TypeInv
<1>InsertEntry. ASSUME NEW t \in Threads, InsertEntry(t) PROVE TypeInv'
  <2>1. PICK a \in Addrs : Insert(t, found[t], a) /\ sharedPtr' = [sharedPtr EXCEPT ![<<t, idx[t]>>] = a]
    BY <1>InsertEntry DEF InsertEntry
  <2>2. found[t] \in Files
    BY <1>InsertEntry DEF TypeInv, TypeOK, SlotInv, InsertEntry, At
  <2>3. CacheTypeOK'
    BY <2>1, <2>2, InsertType DEF TypeInv, TypeOK
  <2>4. TypeOK'
    BY <1>InsertEntry, <2>1, <2>3 DEF TypeInv, TypeOK, InsertEntry, Goto, PCs, kernelVars, Slots
  <2>5. SlotInv'
    BY <1>InsertEntry, <2>1 DEF TypeInv, TypeOK, SlotInv, InsertEntry, At, Goto, Idx, Slots
  <2> QED
    BY <2>4, <2>5 DEF TypeInv
<1>GetGeneration. ASSUME NEW t \in Threads, GetGeneration(t) PROVE TypeInv'
  <2>1. sharedPtr[<<t, idx[t]>>] \in Addrs
    BY <1>GetGeneration DEF TypeInv, TypeOK, SlotInv, GetGeneration, At, Slots
  <2>2. CacheTypeOK'
    BY <1>GetGeneration, <2>1 DEF TypeInv, TypeOK, CacheTypeOK, GetGeneration
  <2>3. TypeOK'
    BY <1>GetGeneration, <2>2 DEF TypeInv, TypeOK, GetGeneration, AfterParam, Fail, Goto, PCs,
      slotVars, kernelVars
  <2>4. SlotInv'
    BY <1>GetGeneration DEF TypeInv, TypeOK, SlotInv, GetGeneration, At, AfterParam, Fail, Goto,
      slotVars, Idx, Slots
  <2> QED
    BY <2>3, <2>4 DEF TypeInv
<1>AddEntry. ASSUME NEW t \in Threads, AddEntry(t) PROVE TypeInv'
  <2>1. sharedPtr[<<t, idx[t]>>] \in Addrs
    BY <1>AddEntry DEF TypeInv, TypeOK, SlotInv, AddEntry, At, Slots
  <2>2. CacheTypeOK'
    <3>1. CASE UNCHANGED cacheVars
      BY <3>1 DEF TypeInv, TypeOK, CacheTypeOK, cacheVars
    <3>2. CASE Unref(t, sharedPtr[<<t, idx[t]>>], 1)
      BY <2>1, <3>2, UnrefType DEF TypeInv, TypeOK
    <3> QED
      BY <1>AddEntry, <3>1, <3>2 DEF AddEntry, DropPtr
  <2>3. idx[t] <= MaxEntries /\ idx[t] \in Idx
    BY <1>AddEntry DEF TypeInv, TypeOK, SlotInv, AddEntry, At
  <2>4. TypeOK'
    <3>1. pc' \in [Threads -> PCs]
      BY <1>AddEntry DEF TypeInv, TypeOK, AddEntry, NextEntry, Goto, PCs
    <3>2. idx' \in [Threads -> Idx]
      BY <1>AddEntry, <2>3 DEF TypeInv, TypeOK, AddEntry, NextEntry, Idx
    <3>3. sharedPtr' \in [Slots -> Addrs \cup {NULL}]
      BY <1>AddEntry DEF TypeInv, TypeOK, AddEntry, DropPtr
    <3> QED
      BY <1>AddEntry, <2>2, <3>1, <3>2, <3>3 DEF TypeInv, TypeOK, AddEntry, kernelVars
  <2>5. SlotInv'
    BY <1>AddEntry, <2>3 DEF TypeInv, TypeOK, SlotInv, AddEntry, At, DropPtr, NextEntry, Goto,
      Idx, Slots
  <2> QED
    BY <2>4, <2>5 DEF TypeInv
<1>RefEntry. ASSUME NEW t \in Threads, RefEntry(t) PROVE TypeInv'
  <2> DEFINE a == sharedPtr[<<t, idx[t]>>]
  <2>1. a \in Addrs
    BY <1>RefEntry DEF TypeInv, TypeOK, SlotInv, RefEntry, At, Slots
  <2>2. CacheTypeOK'
    <3>1. CASE Find(a) = NULL
      BY <1>RefEntry, <3>1 DEF TypeInv, TypeOK, CacheTypeOK, RefEntry, cacheVars
    <3>2. CASE Find(a) # NULL
      <4>1. Ref(t, a, 1)
        BY <1>RefEntry, <3>2 DEF RefEntry
      <4> HIDE DEF a
      <4> QED
        BY <2>1, <3>2, <4>1, RefType DEF TypeInv, TypeOK
    <3> QED
      BY <3>1, <3>2
  <2>3. idx[t] <= MaxEntries /\ idx[t] \in Idx
    BY <1>RefEntry DEF TypeInv, TypeOK, SlotInv, RefEntry, At
  <2>4. TypeOK'
    <3>1. pc' \in [Threads -> PCs]
      BY <1>RefEntry DEF TypeInv, TypeOK, RefEntry, NextEntry, Fail, Goto, PCs
    <3>2. idx' \in [Threads -> Idx]
      BY <1>RefEntry, <2>3 DEF TypeInv, TypeOK, RefEntry, NextEntry, Idx
    <3>3. kernelRef' \in [Slots -> Addrs \cup {NULL}]
      BY <1>RefEntry, <2>1 DEF TypeInv, TypeOK, RefEntry
    <3> QED
      BY <1>RefEntry, <2>2, <3>1, <3>2, <3>3 DEF TypeInv, TypeOK, RefEntry, kernelVars
  <2>5. SlotInv'
    BY <1>RefEntry, <2>3 DEF TypeInv, TypeOK, SlotInv, RefEntry, At, NextEntry, Fail, Goto,
      Idx, Slots
  <2> QED
    BY <2>4, <2>5 DEF TypeInv
<1>Reply. ASSUME NEW t \in Threads, Reply(t) PROVE TypeInv'
  <2>1. \A a \in Addrs : /\ Cardinality(HandedOver(t, a) \ dot) \in Nat
                         /\ Cardinality(HandedOver(t, a) \cap dot) \in Nat
    BY SlotSubset DEF HandedOver
  <2>2. TypeOK'
    <3>1. pc' \in [Threads -> PCs]
      BY <1>Reply DEF TypeInv, TypeOK, Reply, Fail, Goto, PCs
    <3>2. nlookup' \in [Addrs -> Nat] /\ lost' \in [Addrs -> Nat]
      <4>1. CASE UNCHANGED <<nlookup, lost>>
        BY <4>1 DEF TypeInv, TypeOK
      <4>2. CASE /\ nlookup' = [a \in Addrs |-> nlookup[a] + Cardinality(HandedOver(t, a) \ dot)]
                 /\ lost' = [a \in Addrs |-> lost[a] + Cardinality(HandedOver(t, a) \cap dot)]
        <5> DEFINE more(a) == Cardinality(HandedOver(t, a) \ dot)
                   gone(a) == Cardinality(HandedOver(t, a) \cap dot)
        <5>1. /\ nlookup' = [a \in Addrs |-> nlookup[a] + more(a)]
              /\ lost' = [a \in Addrs |-> lost[a] + gone(a)]
              /\ \A a \in Addrs : more(a) \in Nat /\ gone(a) \in Nat
          BY <2>1, <4>2
        <5> HIDE DEF more, gone
        <5> QED
          BY <5>1 DEF TypeInv, TypeOK
      <4> QED
        BY <1>Reply, <4>1, <4>2 DEF Reply
    <3>3. kernelRef' \in [Slots -> Addrs \cup {NULL}]
      BY <1>Reply DEF TypeInv, TypeOK, Reply
    <3> QED
      BY <1>Reply, <3>1, <3>2, <3>3 DEF TypeInv, TypeOK, CacheTypeOK, cacheVars, Reply
  <2>3. SlotInv'
    BY <1>Reply DEF TypeInv, TypeOK, SlotInv, Reply, At, Goto, Fail, Idx, Slots
  <2> QED
    BY <2>2, <2>3 DEF TypeInv
<1>Drop. ASSUME NEW t \in Threads, Drop(t) PROVE TypeInv'
  <2>1. CASE DropLocal(t)
    <3>1. sharedPtr[<<t, idx[t]>>] \in Addrs
      BY <2>1 DEF TypeInv, TypeOK, DropLocal, Local, Slots
    <3>2. CacheTypeOK'
      BY <2>1, <3>1, UnrefType DEF TypeInv, TypeOK, DropLocal, DropPtr
    <3>3. TypeOK'
      BY <1>Drop, <2>1, <3>2 DEF TypeInv, TypeOK, Drop, DropLocal, DropPtr, threadVars, kernelVars
    <3>4. SlotInv'
      BY <1>Drop, <2>1 DEF TypeInv, TypeOK, SlotInv, Drop, At, DropLocal, DropPtr, threadVars,
        Idx, Slots
    <3> QED
      BY <3>3, <3>4 DEF TypeInv
  <2>2. CASE DropKernelRef(t)
    <3>1. PICK i \in Idx : /\ kernelRef[<<t, i>>] # NULL
                           /\ Unref(t, kernelRef[<<t, i>>], 1)
                           /\ kernelRef' = [kernelRef EXCEPT ![<<t, i>>] = NULL]
                           /\ UNCHANGED sharedPtr
      BY <2>2 DEF DropKernelRef
    <3>2. kernelRef[<<t, i>>] \in Addrs
      BY <3>1 DEF TypeInv, TypeOK, Slots
    <3>3. CacheTypeOK'
      BY <3>1, <3>2, UnrefType DEF TypeInv, TypeOK
    <3>4. TypeOK'
      BY <1>Drop, <3>1, <3>3 DEF TypeInv, TypeOK, Drop, threadVars, kernelVars
    <3>5. SlotInv'
      BY <1>Drop, <3>1 DEF TypeInv, TypeOK, SlotInv, Drop, At, threadVars, Idx, Slots
    <3> QED
      BY <3>4, <3>5 DEF TypeInv
  <2>3. CASE DropSharedPtr(t)
    <3>1. PICK i \in Idx : /\ sharedPtr[<<t, i>>] # NULL
                           /\ Unref(t, sharedPtr[<<t, i>>], 1)
                           /\ sharedPtr' = [sharedPtr EXCEPT ![<<t, i>>] = NULL]
                           /\ UNCHANGED kernelRef
      BY <2>3 DEF DropSharedPtr, DropPtr
    <3>2. sharedPtr[<<t, i>>] \in Addrs
      BY <3>1 DEF TypeInv, TypeOK, Slots
    <3>3. CacheTypeOK'
      BY <3>1, <3>2, UnrefType DEF TypeInv, TypeOK
    <3>4. TypeOK'
      BY <1>Drop, <3>1, <3>3 DEF TypeInv, TypeOK, Drop, threadVars, kernelVars
    <3>5. SlotInv'
      BY <1>Drop, <3>1 DEF TypeInv, TypeOK, SlotInv, Drop, At, threadVars, Idx, Slots
    <3> QED
      BY <3>4, <3>5 DEF TypeInv
  <2> QED
    BY <1>Drop, <2>1, <2>2, <2>3 DEF Drop
<1>Forget. ASSUME NEW t \in Threads, NEW a \in Addrs, NEW n \in 1..forgets[a], Forget(t, a, n)
           PROVE  TypeInv'
  <2>1. forgets[a] \in Nat /\ n \in Nat /\ n <= forgets[a]
    BY DEF TypeInv, TypeOK
  <2>2. CacheTypeOK'
    BY <1>Forget, <2>1, UnrefType DEF Forget, TypeInv, TypeOK
  <2>3. TypeOK'
    BY <1>Forget, <2>1, <2>2 DEF TypeInv, TypeOK, Forget, threadVars, slotVars
  <2>4. SlotInv'
    BY <1>Forget DEF TypeInv, TypeOK, SlotInv, Forget, threadVars, slotVars
  <2> QED
    BY <2>3, <2>4 DEF TypeInv
<1>ForgetNext. ASSUME NEW t \in Threads, NEW a \in Addrs, NEW n \in 1..forgets[a], ForgetNext(t, a, n)
               PROVE  TypeInv'
  <2>1. forgets[a] \in Nat /\ n \in Nat /\ n <= forgets[a]
    BY DEF TypeInv, TypeOK
  <2>2. CacheTypeOK'
    BY <1>ForgetNext, <2>1, UnrefType DEF ForgetNext, TypeInv, TypeOK
  <2>3. pc' \in [Threads -> PCs] /\ forgets' \in [Addrs -> Nat] /\ lost' \in [Addrs -> Nat]
    <3>1. CASE Find(a) # NULL
      BY <1>ForgetNext, <2>1, <3>1 DEF TypeInv, TypeOK, ForgetNext
    <3>2. CASE Find(a) = NULL
      <4>1. PICK rest \in [Addrs -> 0..MaxRefs] :
              /\ \A b \in Addrs : rest[b] <= forgets[b] /\ (b = a => rest[b] >= n)
              /\ forgets' = [b \in Addrs |-> forgets[b] - rest[b]]
              /\ lost' = [b \in Addrs |-> lost[b] + rest[b]]
              /\ Goto(t, "idle")
        BY <1>ForgetNext, <3>2 DEF ForgetNext
      <4> QED
        BY <4>1 DEF TypeInv, TypeOK, Goto, PCs
    <3> QED
      BY <3>1, <3>2
  <2>4. TypeOK'
    BY <1>ForgetNext, <2>2, <2>3 DEF TypeInv, TypeOK, ForgetNext, slotVars
  <2>5. SlotInv'
    BY <1>ForgetNext DEF TypeInv, TypeOK, SlotInv, ForgetNext, At, Goto, slotVars
  <2> QED
    BY <2>4, <2>5 DEF TypeInv
<1>CommitStep. ASSUME NEW t \in Threads, CommitStep(t) PROVE TypeInv'
  <2>1. CacheTypeOK'
    BY <1>CommitStep, CommitType DEF CommitStep, TypeInv, TypeOK
  <2> QED
    BY <1>CommitStep, <2>1 DEF TypeInv, TypeOK, SlotInv, CommitStep, threadVars, slotVars, kernelVars
<1>Receive. ASSUME NEW t \in Threads, NEW o \in Ops, NEW n \in Nodes, NEW p \in Nodes, Receive(t, o, n, p)
            PROVE  TypeInv'
  <2>1. FirstPc(o) \in {"make", "find", "readdir", "names", "use"}
    BY DEF FirstPc
  <2>2. TypeOK'
    BY <1>Receive, <2>1 DEF TypeInv, TypeOK, CacheTypeOK, cacheVars, slotVars, kernelVars,
      Receive, Goto, PCs
  <2>3. SlotInv'
    BY <1>Receive, <2>1 DEF TypeInv, TypeOK, SlotInv, slotVars, Receive, At, Goto, Idx
  <2> QED
    BY <2>2, <2>3 DEF TypeInv
<1>KernelForget. ASSUME NEW a \in Addrs, NEW n \in 1..nlookup[a], KernelForget(a, n) PROVE TypeInv'
  BY <1>KernelForget DEF TypeInv, TypeOK, CacheTypeOK, SlotInv, KernelForget, cacheVars,
    threadVars, slotVars
<1>SourceChange. ASSUME NEW f \in Files, SourceChange(f) PROVE TypeInv'
  BY <1>SourceChange DEF TypeInv, TypeOK, CacheTypeOK, SlotInv, SourceChange, CanAppear, Existing,
    cacheVars, threadVars, slotVars, kernelVars
<1> QED
  BY <1>Make, <1>FindEntry, <1>InsertEntry, <1>EntryParam, <1>GetGeneration, <1>AddEntry,
    <1>RefEntry, <1>ReadDirNext, <1>RemoveName, <1>UseInode, <1>Reply, <1>Notify, <1>Drop,
    <1>Finish, <1>ForgetDone, <1>ForgetNext, <1>CommitStep, <1>Receive, <1>Forget,
    <1>ForgetMulti, <1>KernelForget, <1>SourceChange
  DEF Next, ThreadStep, HandlerStep, ForgetStep, Environment

\* The same for a step that changes nothing.
LEMMA TypeStutter ==
  ASSUME TypeInv, UNCHANGED vars
  PROVE  TypeInv'
BY DEF TypeInv, TypeOK, CacheTypeOK, SlotInv, vars, cacheVars, threadVars, slotVars, kernelVars

LEMMA TypeInitially == Init => TypeInv
<1> SUFFICES ASSUME Init PROVE TypeInv
  OBVIOUS
<1>1. CacheTypeOK
  BY DEF Init, CacheInit, CacheTypeOK
<1>2. TypeOK
  BY <1>1 DEF Init, TypeOK, PCs, Idx
<1>3. SlotInv
  BY DEF Init, SlotInv, Slots
<1> QED
  BY <1>2, <1>3 DEF TypeInv

(***************************************************************************)
(* Types are kept with any number of threads, in racing executions too.    *)
(***************************************************************************)
THEOREM TypeCorrect == Spec => []TypeOK
<1>1. TypeInv /\ [Next]_vars => TypeInv'
  BY TypeStep, TypeStutter
<1>2. TypeInv => TypeOK
  BY DEF TypeInv
<1> QED
  BY <1>1, <1>2, TypeInitially, PTL DEF Spec
-----------------------------------------------------------------------------
(***************************************************************************)
(* The map and the allocated Inodes are inverse to each other.             *)
(***************************************************************************)
MapInv ==
  /\ \A k \in Keys : inodes_[k] # NULL =>
       object[inodes_[k]] # NULL /\ KeyOf[object[inodes_[k]]] = k
  /\ \A a \in Addrs : object[a] # NULL => inodes_[KeyOf[object[a]]] = a

\* A freed Inode is referred to by nobody, one that nobody refers to is
\* about to be freed.
LiveInv ==
  \A a \in Addrs :
    /\ object[a] = NULL => Count(a) = 0 /\ \A t \in Threads : pendAddr[t] # a
    /\ object[a] # NULL /\ Count(a) = 0 => \E t \in Threads : pendAddr[t] = a

CountInv == CheckHolds /\ MapInv /\ RefcountExact /\ LiveInv

USE CacheAssumption, FSAssumption

\* One more slot holds a, or one fewer.
LEMMA SlotSet ==
  ASSUME NEW h \in [Slots -> Addrs \cup {NULL}], NEW s \in Slots, NEW a \in Addrs, h[s] = NULL,
         NEW k, k = [h EXCEPT ![s] = a]
  PROVE  /\ Cardinality({x \in Slots : k[x] = a}) = Cardinality({x \in Slots : h[x] = a}) + 1
         /\ \A b \in Addrs \ {a} : {x \in Slots : k[x] = b} = {x \in Slots : h[x] = b}
<1> DEFINE H == {x \in Slots : h[x] = a}
<1>1. {x \in Slots : k[x] = a} = H \cup {s}
  OBVIOUS
<1>2. s \notin H
  OBVIOUS
<1>3. IsFiniteSet(H)
  BY SlotSubset
<1>4. Cardinality(H \cup {s}) = Cardinality(H) + 1
  BY <1>2, <1>3, FS_AddElement
<1>5. \A b \in Addrs \ {a} : {x \in Slots : k[x] = b} = {x \in Slots : h[x] = b}
  OBVIOUS
<1> QED
  BY <1>1, <1>4, <1>5

LEMMA SlotClear ==
  ASSUME NEW h \in [Slots -> Addrs \cup {NULL}], NEW s \in Slots, NEW a \in Addrs, h[s] = a,
         NEW k, k = [h EXCEPT ![s] = NULL]
  PROVE  /\ Cardinality({x \in Slots : h[x] = a}) = Cardinality({x \in Slots : k[x] = a}) + 1
         /\ \A b \in Addrs \ {a} : {x \in Slots : k[x] = b} = {x \in Slots : h[x] = b}
<1>1. k \in [Slots -> Addrs \cup {NULL}] /\ k[s] = NULL
  OBVIOUS
<1>2. h = [k EXCEPT ![s] = a]
  OBVIOUS
<1> QED
  BY <1>1, <1>2, SlotSet

\* All the numbers a count is made of are numbers.
LEMMA CountType ==
  ASSUME TypeOK, NEW a \in Addrs
  PROVE  /\ nlookup[a] \in Nat /\ forgets[a] \in Nat /\ lost[a] \in Nat
         /\ KernelHas(a) \in Nat
         /\ Cardinality(Ptrs(a)) \in Nat
         /\ Cardinality(Refs(a)) \in Nat
         /\ Count(a) \in Nat
         /\ refcnt[a] \in Nat
<1>1. Cardinality(Ptrs(a)) \in Nat /\ Cardinality(Refs(a)) \in Nat
  BY SlotSubset DEF Ptrs, Refs
<1>2. nlookup[a] \in Nat /\ forgets[a] \in Nat /\ lost[a] \in Nat /\ refcnt[a] \in Nat
  BY DEF TypeOK, CacheTypeOK
<1> QED
  BY <1>1, <1>2 DEF Count, KernelHas

\* A slot that holds a counts.
LEMMA HeldCounts ==
  ASSUME TypeOK, NEW s \in Slots, NEW a \in Addrs, sharedPtr[s] = a \/ kernelRef[s] = a
  PROVE  Count(a) > 0
<1>1. CASE sharedPtr[s] = a
  <2>1. Ptrs(a) # {} /\ IsFiniteSet(Ptrs(a))
    BY <1>1, SlotSubset DEF Ptrs
  <2>2. Cardinality(Ptrs(a)) # 0
    BY <2>1, FS_EmptySet
  <2> QED
    BY <2>2, CountType DEF Count
<1>2. CASE kernelRef[s] = a
  <2>1. Refs(a) # {} /\ IsFiniteSet(Refs(a))
    BY <1>2, SlotSubset DEF Refs
  <2>2. Cardinality(Refs(a)) # 0
    BY <2>1, FS_EmptySet
  <2> QED
    BY <2>2, CountType DEF Count
<1> QED
  BY <1>1, <1>2

-----------------------------------------------------------------------------
(***************************************************************************)
(* How the parts of CountInv get through a step, by what the step does to  *)
(* the cache and to the counts.                                            *)
(***************************************************************************)
\* The step leaves the cache and every count alone.
LEMMA CountQuiet ==
  ASSUME CountInv,
         UNCHANGED <<inodes_, object, refcnt, pendAddr, pendVal, aborted>>,
         \A b \in Addrs : Count(b)' = Count(b), TypeOK
  PROVE  CountInv'
<1>1. MapInv' /\ CheckHolds'
  BY DEF CountInv, MapInv, CheckHolds
<1>2. RefcountExact'
  BY DEF CountInv, RefcountExact, TypeOK, CacheTypeOK
<1>3. LiveInv'
  BY DEF CountInv, LiveInv
<1> QED
  BY <1>1, <1>2, <1>3 DEF CountInv

\* The step makes a thread store the count of one live Inode, when no other
\* thread is about to store one.
LEMMA CountStore ==
  ASSUME CountInv, TypeOK, NEW t \in Threads, NEW a \in Addrs, object[a] # NULL,
         \A u \in Threads : pendAddr[u] = NULL,
         UNCHANGED <<inodes_, object, refcnt, aborted>>,
         pendAddr' = [pendAddr EXCEPT ![t] = a],
         pendVal' = [pendVal EXCEPT ![t] = Count(a)'],
         \A b \in Addrs \ {a} : Count(b)' = Count(b)
  PROVE  CountInv'
<1>1. MapInv' /\ CheckHolds'
  BY DEF CountInv, MapInv, CheckHolds
<1>2. RefcountExact'
  BY DEF CountInv, RefcountExact, TypeOK, CacheTypeOK
<1>3. LiveInv'
  BY DEF CountInv, LiveInv, TypeOK, CacheTypeOK
<1> QED
  BY <1>1, <1>2, <1>3 DEF CountInv

\* What Unref does in such a state: it finds the Inode and the CHECK holds.
LEMMA UnrefEffect ==
  ASSUME CountInv, TypeOK, NEW t \in Threads, NEW a \in Addrs, NEW n \in Nat,
         \A u \in Threads : pendAddr[u] = NULL,
         0 < n, n <= Count(a), Unref(t, a, n)
  PROVE  /\ object[a] # NULL
         /\ Find(a) = a
         /\ UNCHANGED <<inodes_, object, refcnt, generation_, aborted>>
         /\ pendAddr' = [pendAddr EXCEPT ![t] = a]
         /\ pendVal' = [pendVal EXCEPT ![t] = Count(a) - n]
<1>1. Count(a) \in Nat
  BY CountType
<1>2. object[a] # NULL
  BY <1>1 DEF CountInv, LiveInv
<1>3. Find(a) = a
  BY <1>2 DEF CountInv, MapInv, Find
<1>4. refcnt[a] = Count(a)
  BY DEF CountInv, RefcountExact
<1>5. ~(refcnt[a] < n)
  BY <1>1, <1>4
<1> QED
  BY <1>2, <1>3, <1>4, <1>5 DEF Unref, Store

\* ... and what Ref does.
LEMMA RefEffect ==
  ASSUME CountInv, TypeOK, NEW t \in Threads, NEW a \in Addrs, NEW n \in Nat,
         \A u \in Threads : pendAddr[u] = NULL,
         object[a] # NULL, Ref(t, a, n)
  PROVE  /\ UNCHANGED <<inodes_, object, refcnt, generation_, aborted>>
         /\ pendAddr' = [pendAddr EXCEPT ![t] = a]
         /\ pendVal' = [pendVal EXCEPT ![t] = Count(a) + n]
<1>1. Find(a) = a
  BY DEF CountInv, MapInv, Find
<1>2. refcnt[a] = Count(a)
  BY DEF CountInv, RefcountExact
<1> QED
  BY <1>1, <1>2 DEF Ref, Store

(***************************************************************************)
(* How a step that sets or clears one slot changes the counts.             *)
(***************************************************************************)
LEMMA CountSame ==
  ASSUME UNCHANGED <<sharedPtr, kernelRef, nlookup, forgets, lost>>
  PROVE  \A b \in Addrs : Count(b)' = Count(b)
BY DEF Count, KernelHas, Ptrs, Refs

LEMMA PtrSet ==
  ASSUME TypeOK, NEW s \in Slots, NEW a \in Addrs, sharedPtr[s] = NULL,
         sharedPtr' = [sharedPtr EXCEPT ![s] = a],
         UNCHANGED <<kernelRef, nlookup, forgets, lost>>
  PROVE  Count(a)' = Count(a) + 1 /\ \A b \in Addrs \ {a} : Count(b)' = Count(b)
<1>1. sharedPtr \in [Slots -> Addrs \cup {NULL}]
  BY DEF TypeOK
<1>2. /\ Cardinality(Ptrs(a)') = Cardinality(Ptrs(a)) + 1
      /\ \A b \in Addrs \ {a} : Ptrs(b)' = Ptrs(b)
  <2> DEFINE k == sharedPtr'
  <2>1. k = [sharedPtr EXCEPT ![s] = a]
    OBVIOUS
  <2> HIDE DEF k
  <2>2. /\ Cardinality({x \in Slots : k[x] = a}) = Cardinality({x \in Slots : sharedPtr[x] = a}) + 1
        /\ \A b \in Addrs \ {a} : {x \in Slots : k[x] = b} = {x \in Slots : sharedPtr[x] = b}
    BY <1>1, <2>1, SlotSet
  <2> QED
    BY <2>2 DEF Ptrs, k
<1>3. \A b \in Addrs : Refs(b)' = Refs(b) /\ KernelHas(b)' = KernelHas(b)
  BY DEF Refs, KernelHas
<1> QED
  BY <1>2, <1>3, CountType DEF Count

LEMMA PtrClear ==
  ASSUME TypeOK, NEW s \in Slots, NEW a \in Addrs, sharedPtr[s] = a,
         sharedPtr' = [sharedPtr EXCEPT ![s] = NULL],
         UNCHANGED <<kernelRef, nlookup, forgets, lost>>
  PROVE  /\ Count(a)' = Count(a) - 1
         /\ 1 <= Count(a)
         /\ \A b \in Addrs \ {a} : Count(b)' = Count(b)
<1>1. sharedPtr \in [Slots -> Addrs \cup {NULL}]
  BY DEF TypeOK
<1>2. /\ Cardinality(Ptrs(a)) = Cardinality(Ptrs(a)') + 1
      /\ \A b \in Addrs \ {a} : Ptrs(b)' = Ptrs(b)
  <2> DEFINE k == sharedPtr'
  <2>1. k = [sharedPtr EXCEPT ![s] = NULL]
    OBVIOUS
  <2> HIDE DEF k
  <2>2. /\ Cardinality({x \in Slots : sharedPtr[x] = a}) = Cardinality({x \in Slots : k[x] = a}) + 1
        /\ \A b \in Addrs \ {a} : {x \in Slots : k[x] = b} = {x \in Slots : sharedPtr[x] = b}
    BY <1>1, <2>1, SlotClear
  <2> QED
    BY <2>2 DEF Ptrs, k
<1>3. \A b \in Addrs : Refs(b)' = Refs(b) /\ KernelHas(b)' = KernelHas(b)
  BY DEF Refs, KernelHas
<1>4. Cardinality(Ptrs(a)') \in Nat
  BY SlotSubset DEF Ptrs
<1> QED
  BY <1>2, <1>3, <1>4, CountType DEF Count

LEMMA RefSet ==
  ASSUME TypeOK, NEW s \in Slots, NEW a \in Addrs, kernelRef[s] = NULL,
         kernelRef' = [kernelRef EXCEPT ![s] = a],
         UNCHANGED <<sharedPtr, nlookup, forgets, lost>>
  PROVE  Count(a)' = Count(a) + 1 /\ \A b \in Addrs \ {a} : Count(b)' = Count(b)
<1>1. kernelRef \in [Slots -> Addrs \cup {NULL}]
  BY DEF TypeOK
<1>2. /\ Cardinality(Refs(a)') = Cardinality(Refs(a)) + 1
      /\ \A b \in Addrs \ {a} : Refs(b)' = Refs(b)
  <2> DEFINE k == kernelRef'
  <2>1. k = [kernelRef EXCEPT ![s] = a]
    OBVIOUS
  <2> HIDE DEF k
  <2>2. /\ Cardinality({x \in Slots : k[x] = a}) = Cardinality({x \in Slots : kernelRef[x] = a}) + 1
        /\ \A b \in Addrs \ {a} : {x \in Slots : k[x] = b} = {x \in Slots : kernelRef[x] = b}
    BY <1>1, <2>1, SlotSet
  <2> QED
    BY <2>2 DEF Refs, k
<1>3. \A b \in Addrs : Ptrs(b)' = Ptrs(b) /\ KernelHas(b)' = KernelHas(b)
  BY DEF Ptrs, KernelHas
<1> QED
  BY <1>2, <1>3, CountType DEF Count

LEMMA RefClear ==
  ASSUME TypeOK, NEW s \in Slots, NEW a \in Addrs, kernelRef[s] = a,
         kernelRef' = [kernelRef EXCEPT ![s] = NULL],
         UNCHANGED <<sharedPtr, nlookup, forgets, lost>>
  PROVE  /\ Count(a)' = Count(a) - 1
         /\ 1 <= Count(a)
         /\ \A b \in Addrs \ {a} : Count(b)' = Count(b)
<1>1. kernelRef \in [Slots -> Addrs \cup {NULL}]
  BY DEF TypeOK
<1>2. /\ Cardinality(Refs(a)) = Cardinality(Refs(a)') + 1
      /\ \A b \in Addrs \ {a} : Refs(b)' = Refs(b)
  <2> DEFINE k == kernelRef'
  <2>1. k = [kernelRef EXCEPT ![s] = NULL]
    OBVIOUS
  <2> HIDE DEF k
  <2>2. /\ Cardinality({x \in Slots : kernelRef[x] = a}) = Cardinality({x \in Slots : k[x] = a}) + 1
        /\ \A b \in Addrs \ {a} : {x \in Slots : k[x] = b} = {x \in Slots : kernelRef[x] = b}
    BY <1>1, <2>1, SlotClear
  <2> QED
    BY <2>2 DEF Refs, k
<1>3. \A b \in Addrs : Ptrs(b)' = Ptrs(b) /\ KernelHas(b)' = KernelHas(b)
  BY DEF Ptrs, KernelHas
<1>4. Cardinality(Refs(a)') \in Nat
  BY SlotSubset DEF Refs
<1> QED
  BY <1>2, <1>3, <1>4, CountType DEF Count

(***************************************************************************)
(* Destroying a shared_ptr, or undoing a Ref, keeps the counts exact.      *)
(***************************************************************************)
LEMMA CountDropPtr ==
  ASSUME TypeOK, CountInv, NEW t \in Threads, NEW s \in Slots, sharedPtr[s] # NULL,
         \A u \in Threads : pendAddr[u] = NULL,
         DropPtr(t, s), UNCHANGED <<kernelRef, nlookup, forgets, lost>>
  PROVE  CountInv'
<1>1. PICK a \in Addrs : a = sharedPtr[s]
  BY DEF TypeOK
<1>2. /\ Count(a)' = Count(a) - 1
      /\ 1 <= Count(a)
      /\ \A b \in Addrs \ {a} : Count(b)' = Count(b)
  BY <1>1, PtrClear DEF DropPtr
<1>3. Unref(t, a, 1)
  BY <1>1 DEF DropPtr
<1>4. /\ object[a] # NULL
      /\ UNCHANGED <<inodes_, object, refcnt, aborted>>
      /\ pendAddr' = [pendAddr EXCEPT ![t] = a]
      /\ pendVal' = [pendVal EXCEPT ![t] = Count(a) - 1]
  BY <1>2, <1>3, UnrefEffect
<1> QED
  BY <1>2, <1>4, CountStore

LEMMA CountDropRef ==
  ASSUME TypeOK, CountInv, NEW t \in Threads, NEW s \in Slots, kernelRef[s] # NULL,
         \A u \in Threads : pendAddr[u] = NULL,
         Unref(t, kernelRef[s], 1),
         kernelRef' = [kernelRef EXCEPT ![s] = NULL],
         UNCHANGED <<sharedPtr, nlookup, forgets, lost>>
  PROVE  CountInv'
<1>1. PICK a \in Addrs : a = kernelRef[s]
  BY DEF TypeOK
<1>2. /\ Count(a)' = Count(a) - 1
      /\ 1 <= Count(a)
      /\ \A b \in Addrs \ {a} : Count(b)' = Count(b)
  BY <1>1, RefClear
<1>3. /\ object[a] # NULL
      /\ UNCHANGED <<inodes_, object, refcnt, aborted>>
      /\ pendAddr' = [pendAddr EXCEPT ![t] = a]
      /\ pendVal' = [pendVal EXCEPT ![t] = Count(a) - 1]
  BY <1>1, <1>2, UnrefEffect
<1> QED
  BY <1>2, <1>3, CountStore

(***************************************************************************)
(* A FORGET of n lookups keeps the counts exact: the kernel never gives    *)
(* back more than it was sent.                                             *)
(***************************************************************************)
LEMMA CountForget ==
  ASSUME TypeOK, CountInv, NEW t \in Threads, NEW a \in Addrs, NEW n \in 1..forgets[a],
         \A u \in Threads : pendAddr[u] = NULL,
         Unref(t, a, n),
         forgets' = [forgets EXCEPT ![a] = forgets[a] - n],
         UNCHANGED <<sharedPtr, kernelRef, nlookup, lost>>
  PROVE  CountInv'
<1>1. forgets[a] \in Nat /\ n \in Nat /\ 0 < n /\ n <= forgets[a]
  BY DEF TypeOK
<1>2. n <= Count(a)
  BY <1>1, CountType DEF Count, KernelHas
<1>3. forgets \in [Addrs -> Nat]
  BY DEF TypeOK
<1>4. \A b \in Addrs : Ptrs(b)' = Ptrs(b) /\ Refs(b)' = Refs(b)
  BY DEF Ptrs, Refs
<1>5. Count(a)' = Count(a) - n /\ \A b \in Addrs \ {a} : Count(b)' = Count(b)
  BY <1>1, <1>3, <1>4, CountType DEF Count, KernelHas
<1>6. /\ object[a] # NULL
      /\ UNCHANGED <<inodes_, object, refcnt, aborted>>
      /\ pendAddr' = [pendAddr EXCEPT ![t] = a]
      /\ pendVal' = [pendVal EXCEPT ![t] = Count(a) - n]
  BY <1>1, <1>2, UnrefEffect
<1> QED
  BY <1>5, <1>6, CountStore

LEMMA DisjointUnion ==
  ASSUME NEW S, NEW T, IsFiniteSet(S), IsFiniteSet(T), S \cap T = {}
  PROVE  IsFiniteSet(S \cup T) /\ Cardinality(S \cup T) = Cardinality(S) + Cardinality(T)
<1>1. Cardinality(S \cap T) = 0
  BY FS_EmptySet
<1>2. Cardinality(S) \in Nat /\ Cardinality(T) \in Nat
  BY FS_CardinalityType
<1>3. IsFiniteSet(S \cup T) /\ Cardinality(S \cup T) = Cardinality(S) + Cardinality(T) - Cardinality(S \cap T)
  BY FS_Union
<1> QED
  BY <1>1, <1>2, <1>3

(***************************************************************************)
(* A successful reply moves the references of the Cleanups to the kernel.  *)
(***************************************************************************)
LEMMA CountReply ==
  ASSUME TypeOK, NEW t \in Threads,
         nlookup' = [a \in Addrs |-> nlookup[a] + Cardinality(HandedOver(t, a) \ dot)],
         lost' = [a \in Addrs |-> lost[a] + Cardinality(HandedOver(t, a) \cap dot)],
         kernelRef' = [s \in Slots |-> IF s[1] = t THEN NULL ELSE kernelRef[s]],
         UNCHANGED <<sharedPtr, forgets>>
  PROVE  \A b \in Addrs : Count(b)' = Count(b)
<1> TAKE b \in Addrs
<1> DEFINE P == HandedOver(t, b) \ dot
           Q == HandedOver(t, b) \cap dot
           R == Refs(b)'
<1>1. /\ P \subseteq Slots /\ Q \subseteq Slots /\ R \subseteq Slots
      /\ P \cup Q \subseteq Slots
  BY DEF HandedOver, Refs
<1>2. /\ IsFiniteSet(P) /\ IsFiniteSet(Q) /\ IsFiniteSet(R) /\ IsFiniteSet(P \cup Q)
      /\ Cardinality(P) \in Nat /\ Cardinality(Q) \in Nat /\ Cardinality(R) \in Nat
  BY <1>1, SlotSubset
<1>3. Refs(b) = (P \cup Q) \cup R
  BY DEF HandedOver, Refs, TypeOK
<1>4. P \cap Q = {} /\ (P \cup Q) \cap R = {}
  BY DEF HandedOver, Refs, TypeOK
<1>5. nlookup'[b] = nlookup[b] + Cardinality(P) /\ lost'[b] = lost[b] + Cardinality(Q)
  OBVIOUS
<1> HIDE DEF P, Q, R
<1>6. Cardinality(P \cup Q) = Cardinality(P) + Cardinality(Q)
  BY <1>2, <1>4, DisjointUnion
<1>7. Cardinality(Refs(b)) = Cardinality(P) + Cardinality(Q) + Cardinality(R)
  BY <1>2, <1>3, <1>4, <1>6, DisjointUnion
<1>8. Ptrs(b)' = Ptrs(b) /\ forgets'[b] = forgets[b]
  BY DEF Ptrs
<1> QED
  BY <1>2, <1>5, <1>7, <1>8, CountType DEF Count, KernelHas, R

(***************************************************************************)
(* InodeCache::Insert keeps the counts exact, whether the map has the key  *)
(* or not.                                                                 *)
(***************************************************************************)
LEMMA CountInsert ==
  ASSUME TypeInv, CountInv, NEW t \in Threads, \A u \in Threads : pendAddr[u] = NULL, InsertEntry(t)
  PROVE  CountInv'
<1> DEFINE s == <<t, idx[t]>>
           f == found[t]
<1>1. PICK a \in Addrs : Insert(t, f, a) /\ sharedPtr' = [sharedPtr EXCEPT ![s] = a]
  BY DEF InsertEntry, Here
<1>2. s \in Slots /\ sharedPtr[s] = NULL /\ f \in Files
  <2>1. idx[t] \in Idx /\ idx[t] >= idx[t] /\ pc[t] = "insert"
    BY DEF TypeInv, TypeOK, InsertEntry, At, Idx
  <2>2. sharedPtr[<<t, idx[t]>>] = NULL /\ found[t] # NULL
    BY <2>1 DEF TypeInv, SlotInv
  <2> QED
    BY <2>1, <2>2 DEF TypeInv, TypeOK, Slots
<1>3. KeyOf[f] \in Keys
  BY <1>2
<1>4. TypeOK
  BY DEF TypeInv
<1>5. Count(a)' = Count(a) + 1 /\ \A b \in Addrs \ {a} : Count(b)' = Count(b)
  BY <1>1, <1>2, <1>4, PtrSet DEF InsertEntry, kernelVars
<1> HIDE DEF s, f
<1>6. CASE /\ inodes_[KeyOf[f]] = NULL
           /\ object[a] = NULL
           /\ inodes_' = [inodes_ EXCEPT ![KeyOf[f]] = a]
           /\ object' = [object EXCEPT ![a] = f]
           /\ Store(t, a, 1)
           /\ UNCHANGED <<refcnt, generation_, aborted>>
  <2>1. Count(a)' = 1
    BY <1>5, <1>6 DEF CountInv, LiveInv
  <2>2. MapInv'
    BY <1>2, <1>3, <1>4, <1>6 DEF CountInv, MapInv, TypeOK, CacheTypeOK
  <2>3. RefcountExact'
    BY <1>4, <1>5, <1>6, <2>1 DEF CountInv, RefcountExact, Store, TypeOK, CacheTypeOK
  <2>4. LiveInv'
    BY <1>2, <1>4, <1>5, <1>6, <2>1 DEF CountInv, LiveInv, Store, TypeOK, CacheTypeOK
  <2> QED
    BY <1>6, <2>2, <2>3, <2>4 DEF CountInv, CheckHolds
<1>7. CASE /\ inodes_[KeyOf[f]] = a
           /\ Store(t, a, refcnt[a] + 1)
           /\ UNCHANGED <<inodes_, object, refcnt, generation_, aborted>>
  <2>1. object[a] # NULL
    BY <1>3, <1>7 DEF CountInv, MapInv
  <2>2. refcnt[a] = Count(a)
    BY DEF CountInv, RefcountExact
  <2> QED
    BY <1>4, <1>5, <1>7, <2>1, <2>2, CountStore DEF Store
<1> QED
  BY <1>1, <1>6, <1>7 DEF Insert

(***************************************************************************)
(* Storing the count, and erasing the Inode if it is zero.                 *)
(***************************************************************************)
LEMMA CountCommit ==
  ASSUME TypeInv, CountInv, NEW t \in Threads, Exclusive(t), CommitStep(t)
  PROVE  CountInv'
<1> DEFINE a == pendAddr[t]
<1>1. TypeOK
  BY DEF TypeInv
<1>2. a \in Addrs
  BY <1>1 DEF CommitStep, TypeOK, CacheTypeOK
<1>3. pendVal[t] = Count(a)
  BY DEF CountInv, RefcountExact, CommitStep
<1>4. \A u \in Threads \ {t} : pendAddr[u] = NULL
  BY DEF Exclusive, Busy
<1>5. \A b \in Addrs : Count(b)' = Count(b)
  BY CountSame DEF CommitStep, slotVars, kernelVars
<1>6. object[a] # NULL
  BY <1>2 DEF CountInv, LiveInv
<1>7. /\ refcnt' = [refcnt EXCEPT ![a] = Count(a)]
      /\ pendAddr' = [pendAddr EXCEPT ![t] = NULL]
      /\ aborted' = aborted
  BY <1>3 DEF CommitStep, Commit
<1>8. RefcountExact'
  BY <1>1, <1>2, <1>4, <1>5, <1>7 DEF CountInv, RefcountExact, TypeOK, CacheTypeOK
<1>9. CheckHolds'
  BY <1>7 DEF CountInv, CheckHolds
<1>10. CASE Count(a) = 0
  <2>1. /\ inodes_' = [k \in Keys |-> IF inodes_[k] = a THEN NULL ELSE inodes_[k]]
        /\ object' = [object EXCEPT ![a] = NULL]
    BY <1>3, <1>10 DEF CommitStep, Commit
  <2> HIDE DEF a
  <2>2. MapInv'
    BY <1>1, <1>2, <2>1 DEF CountInv, MapInv, TypeOK, CacheTypeOK
  <2>3. LiveInv'
    BY <1>1, <1>2, <1>4, <1>5, <1>7, <1>10, <2>1 DEF CountInv, LiveInv, TypeOK, CacheTypeOK, a
  <2> QED
    BY <1>8, <1>9, <2>2, <2>3 DEF CountInv
<1>11. CASE Count(a) # 0
  <2>1. UNCHANGED <<inodes_, object>>
    BY <1>3, <1>11 DEF CommitStep, Commit
  <2>2. MapInv'
    BY <2>1 DEF CountInv, MapInv
  <2>3. LiveInv'
    BY <1>1, <1>2, <1>4, <1>5, <1>7, <1>11, <2>1 DEF CountInv, LiveInv, TypeOK, CacheTypeOK
  <2> QED
    BY <1>8, <1>9, <2>2, <2>3 DEF CountInv
<1> QED
  BY <1>10, <1>11

(***************************************************************************)
(* Every serialised step keeps the counts exact.                           *)
(***************************************************************************)
LEMMA CountThread ==
  ASSUME TypeInv, CountInv, NEW t \in Threads, ThreadStep(t), Exclusive(t)
  PROVE  CountInv'
<1>1. TypeOK
  BY DEF TypeInv
<1>2. ASSUME Ready(t) PROVE \A u \in Threads : pendAddr[u] = NULL
  BY <1>2 DEF Ready, Exclusive, Busy
<1>quiet. ASSUME UNCHANGED <<inodes_, object, refcnt, pendAddr, pendVal, aborted>>,
                 UNCHANGED <<sharedPtr, kernelRef, nlookup, forgets, lost>>
          PROVE  CountInv'
  BY <1>1, <1>quiet, CountSame, CountQuiet
<1>3. CASE Make(t) \/ FindEntry(t) \/ EntryParam(t) \/ ReadDirNext(t)
  BY <1>3, <1>quiet DEF Make, FindEntry, EntryParam, ReadDirNext, cacheVars, slotVars, kernelVars
<1>4. CASE RemoveName(t) \/ UseInode(t) \/ Notify(t) \/ Finish(t)
  BY <1>4, <1>quiet DEF RemoveName, UseInode, Notify, Finish, cacheVars, slotVars, kernelVars
<1>5. CASE ForgetDone(t) \/ ForgetMulti(t) \/ GetGeneration(t)
  BY <1>5, <1>quiet DEF ForgetDone, ForgetMulti, GetGeneration, cacheVars, slotVars, kernelVars
<1>6. CASE \E o \in Ops, n \in Nodes, p \in Nodes : Receive(t, o, n, p)
  BY <1>6, <1>quiet DEF Receive, cacheVars, slotVars, kernelVars
<1>7. CASE InsertEntry(t)
  BY <1>2, <1>7, CountInsert DEF InsertEntry, At
<1>8. CASE AddEntry(t)
  <2>1. Here(t) \in Slots /\ sharedPtr[Here(t)] # NULL
    BY <1>1, <1>8 DEF TypeInv, TypeOK, SlotInv, AddEntry, At, Here, Slots
  <2>2. CASE DropPtr(t, Here(t))
    BY <1>1, <1>2, <1>8, <2>1, <2>2, CountDropPtr DEF AddEntry, At, kernelVars
  <2>3. CASE UNCHANGED <<cacheVars, idx, sharedPtr>>
    BY <1>8, <1>quiet, <2>3 DEF AddEntry, cacheVars, kernelVars
  <2> QED
    BY <1>8, <2>2, <2>3 DEF AddEntry
<1>9. CASE RefEntry(t)
  <2>1. PICK a \in Addrs : a = sharedPtr[Here(t)]
    BY <1>1, <1>9 DEF TypeInv, TypeOK, SlotInv, RefEntry, At, Here, Slots
  <2>2. Here(t) \in Slots /\ kernelRef[Here(t)] = NULL
    BY <1>1, <1>9 DEF TypeInv, TypeOK, SlotInv, RefEntry, At, Here, Slots
  <2>3. Count(a) > 0
    BY <1>1, <2>1, <2>2, HeldCounts
  <2>4. object[a] # NULL
    BY <2>3 DEF CountInv, LiveInv
  <2>5. Find(a) = a
    BY <2>4 DEF CountInv, MapInv, Find
  <2>6. Ref(t, a, 1) /\ kernelRef' = [kernelRef EXCEPT ![Here(t)] = a]
    BY <1>9, <2>1, <2>5 DEF RefEntry
  <2>7. Count(a)' = Count(a) + 1 /\ \A b \in Addrs \ {a} : Count(b)' = Count(b)
    BY <1>1, <1>9, <2>2, <2>6, RefSet DEF RefEntry, kernelVars
  <2>8. /\ UNCHANGED <<inodes_, object, refcnt, generation_, aborted>>
        /\ pendAddr' = [pendAddr EXCEPT ![t] = a]
        /\ pendVal' = [pendVal EXCEPT ![t] = Count(a) + 1]
    BY <1>1, <1>2, <1>9, <2>4, <2>6, RefEffect DEF RefEntry, At
  <2> QED
    BY <1>1, <1>2, <1>9, <2>4, <2>7, <2>8, CountStore DEF RefEntry, At
<1>10. CASE Reply(t)
  <2>1. \A b \in Addrs : Count(b)' = Count(b)
    <3>1. CASE UNCHANGED <<nlookup, lost, kernelRef>>
      BY <1>10, <3>1, CountSame DEF Reply
    <3>2. CASE ~UNCHANGED <<nlookup, lost, kernelRef>>
      BY <1>1, <1>10, <3>2, CountReply DEF Reply
    <3> QED
      BY <3>1, <3>2
  <2> QED
    BY <1>1, <1>10, <2>1, CountQuiet DEF Reply, cacheVars
<1>11. CASE Drop(t)
  <2>1. \A u \in Threads : pendAddr[u] = NULL
    BY <1>2, <1>11 DEF Drop, At
  <2>2. UNCHANGED <<nlookup, forgets, lost>>
    BY <1>11 DEF Drop, kernelVars
  <2>3. CASE DropLocal(t)
    <3>1. Here(t) \in Slots
      BY <1>1 DEF TypeOK, Here, Slots
    <3> QED
      BY <1>1, <2>1, <2>2, <2>3, <3>1, CountDropPtr DEF DropLocal, Local
  <2>4. CASE DropKernelRef(t)
    <3>1. PICK i \in Idx : /\ kernelRef[<<t, i>>] # NULL
                           /\ Unref(t, kernelRef[<<t, i>>], 1)
                           /\ kernelRef' = [kernelRef EXCEPT ![<<t, i>>] = NULL]
                           /\ UNCHANGED sharedPtr
      BY <2>4 DEF DropKernelRef
    <3>2. <<t, i>> \in Slots
      BY DEF Slots
    <3> QED
      BY <1>1, <2>1, <2>2, <3>1, <3>2, CountDropRef
  <2>5. CASE DropSharedPtr(t)
    <3>1. PICK i \in Idx : /\ sharedPtr[<<t, i>>] # NULL
                           /\ DropPtr(t, <<t, i>>)
                           /\ UNCHANGED kernelRef
      BY <2>5 DEF DropSharedPtr
    <3>2. <<t, i>> \in Slots
      BY DEF Slots
    <3> QED
      BY <1>1, <2>1, <2>2, <3>1, <3>2, CountDropPtr
  <2> QED
    BY <1>11, <2>3, <2>4, <2>5 DEF Drop
<1>12. CASE \E a \in Addrs : ForgetStep(t, a)
  <2>a. PICK a \in Addrs : ForgetStep(t, a)
    BY <1>12
  <2>1. PICK n \in 1..forgets[a] : Forget(t, a, n)
    BY <2>a DEF ForgetStep
  <2> QED
    BY <1>1, <1>2, <2>1, CountForget DEF Forget, At, slotVars
<1>13. CASE \E a \in Addrs : \E n \in 1..forgets[a] : ForgetNext(t, a, n)
  <2>a. PICK a \in Addrs : \E n \in 1..forgets[a] : ForgetNext(t, a, n)
    BY <1>13
  <2>1. PICK n \in 1..forgets[a] : ForgetNext(t, a, n)
    BY <2>a
  <2>2. \A u \in Threads : pendAddr[u] = NULL
    BY <1>2, <2>1 DEF ForgetNext, At
  <2>3. n \in Nat /\ 0 < n /\ n <= Count(a)
    BY <1>1, CountType DEF Count, KernelHas
  <2>4. Find(a) = a
    BY <1>1, <2>1, <2>2, <2>3, UnrefEffect DEF ForgetNext
  <2>5. forgets' = [forgets EXCEPT ![a] = forgets[a] - n] /\ lost' = lost
    BY <2>1, <2>4 DEF ForgetNext
  <2> QED
    BY <1>1, <2>1, <2>2, <2>5, CountForget DEF ForgetNext, slotVars
<1>14. CASE CommitStep(t)
  BY <1>14, CountCommit
<1> QED
  BY <1>3, <1>4, <1>5, <1>6, <1>7, <1>8, <1>9, <1>10, <1>11, <1>12, <1>13, <1>14
  DEF ThreadStep, HandlerStep

LEMMA CountEnvironment ==
  ASSUME TypeOK, CountInv, Environment
  PROVE  CountInv'
<1>1. CASE \E a \in Addrs : \E n \in 1..nlookup[a] : KernelForget(a, n)
  <2>a. PICK a \in Addrs : \E n \in 1..nlookup[a] : KernelForget(a, n)
    BY <1>1
  <2>1. PICK n \in 1..nlookup[a] : KernelForget(a, n)
    BY <2>a
  <2>2. nlookup[a] \in Nat /\ n \in Nat /\ n <= nlookup[a]
    BY DEF TypeOK
  <2>3. \A b \in Addrs : nlookup'[b] + forgets'[b] = nlookup[b] + forgets[b]
    BY <2>1, <2>2 DEF TypeOK, KernelForget
  <2>4. \A b \in Addrs : KernelHas(b)' = KernelHas(b)
    BY <2>1, <2>3 DEF KernelHas, KernelForget
  <2>5. \A b \in Addrs : Ptrs(b)' = Ptrs(b) /\ Refs(b)' = Refs(b)
    BY <2>1 DEF Ptrs, Refs, KernelForget, slotVars
  <2>6. \A b \in Addrs : Count(b)' = Count(b)
    BY <2>4, <2>5 DEF Count
  <2> QED
    BY <2>1, <2>6, CountQuiet DEF KernelForget, cacheVars
<1>2. CASE \E f \in Files : SourceChange(f)
  BY <1>2, CountSame, CountQuiet DEF SourceChange, cacheVars, slotVars, kernelVars
<1> QED
  BY <1>1, <1>2 DEF Environment

LEMMA CountInitially == Init => CountInv
<1> SUFFICES ASSUME Init PROVE CountInv
  OBVIOUS
<1>1. \A a \in Addrs : Ptrs(a) = {} /\ Refs(a) = {}
  BY DEF Init, Ptrs, Refs
<1>2. \A a \in Addrs : Count(a) = 0
  <2>1. \A a \in Addrs : Cardinality(Ptrs(a)) = 0 /\ Cardinality(Refs(a)) = 0
    BY <1>1, FS_EmptySet
  <2>2. \A a \in Addrs : KernelHas(a) = 0
    BY DEF Init, KernelHas
  <2> QED
    BY <2>1, <2>2 DEF Count
<1>3. CheckHolds /\ MapInv
  BY DEF Init, CacheInit, CheckHolds, MapInv
<1>4. RefcountExact
  BY <1>2 DEF Init, CacheInit, RefcountExact
<1>5. LiveInv
  BY <1>2 DEF Init, CacheInit, LiveInv
<1> QED
  BY <1>3, <1>4, <1>5 DEF CountInv

LEMMA SerialIsNext == SerialNext => Next
BY DEF SerialNext, Next

LEMMA CountStep ==
  ASSUME TypeInv, CountInv, [SerialNext]_vars
  PROVE  TypeInv' /\ CountInv'
<1>1. TypeInv'
  BY SerialIsNext, TypeStep, TypeStutter
<1>2. CASE SerialNext
  <2>1. CountInv'
    BY <1>2, CountThread, CountEnvironment DEF SerialNext, TypeInv
  <2> QED
    BY <1>1, <2>1
<1>3. CASE UNCHANGED vars
  <2>1. CountInv'
    BY <1>3, CountSame, CountQuiet DEF TypeInv, vars, cacheVars, slotVars, kernelVars
  <2> QED
    BY <1>1, <2>1
<1> QED
  BY <1>2, <1>3

\* Every Inode somebody refers to is allocated and the map has it.
LEMMA CountMeansCached ==
  ASSUME TypeOK, CountInv
  PROVE  NoDanglingInode
<1>1. \A a \in Addrs : Count(a) > 0 => Cached(a)
  BY CountType DEF CountInv, LiveInv, MapInv, Cached
<1>2. \A a \in Addrs : KernelHas(a) > 0 => Cached(a)
  BY <1>1, CountType DEF Count
<1>3. \A s \in Slots : sharedPtr[s] # NULL => Cached(sharedPtr[s])
  BY <1>1, HeldCounts DEF TypeOK
<1>4. \A s \in Slots : kernelRef[s] # NULL => Cached(kernelRef[s])
  BY <1>1, HeldCounts DEF TypeOK
<1> QED
  BY <1>2, <1>3, <1>4 DEF NoDanglingInode

\* When no handler runs, only the kernel refers to an Inode.
LEMMA CountMeansFreed ==
  ASSUME TypeInv, CountInv
  PROVE  ForgottenIsFreedButDots
<1> SUFFICES ASSUME NEW a \in Addrs, Quiescent, lost[a] = 0
             PROVE  object[a] = NULL /\ \A k \in Keys : inodes_[k] # a
  BY DEF ForgottenIsFreedButDots
<1>1. \A t \in Threads, i \in Idx : sharedPtr[<<t, i>>] = NULL /\ kernelRef[<<t, i>>] = NULL
  <2> SUFFICES ASSUME NEW t \in Threads, NEW i \in Idx
               PROVE  sharedPtr[<<t, i>>] = NULL /\ kernelRef[<<t, i>>] = NULL
    OBVIOUS
  <2>1. pc[t] = "idle"
    BY DEF Quiescent
  <2>2. idx[t] = 1
    BY <2>1 DEF TypeInv, SlotInv
  <2>3. i >= idx[t]
    BY <2>2 DEF Idx
  <2> QED
    BY <2>1, <2>3 DEF TypeInv, SlotInv
<1>2. Ptrs(a) = {} /\ Refs(a) = {}
  BY <1>1 DEF Ptrs, Refs, Slots
<1>3. nlookup[a] = 0 /\ forgets[a] = 0
  BY CountType DEF Quiescent, TypeInv
<1>4. Count(a) = 0
  BY <1>2, <1>3, FS_EmptySet DEF Count, KernelHas
<1>5. object[a] = NULL
  BY <1>4 DEF CountInv, LiveInv, Quiescent
<1> QED
  BY <1>5 DEF CountInv, MapInv

(***************************************************************************)
(* The reference counts are exact, whatever fails in the handlers, however *)
(* many threads there are and whatever the kernel and the source tree do,  *)
(* as long as the accesses to the cache are serialised.  So Unref's CHECK  *)
(* never fails, nobody is left with a freed Inode, and every Inode is      *)
(* freed in the end but those handed out for "." and "..".                 *)
(***************************************************************************)
THEOREM CountsExact ==
  SerialSpec => [](RefcountExact /\ CheckHolds /\ NoDanglingInode /\ ForgottenIsFreedButDots)
<1> DEFINE Inv == TypeInv /\ CountInv
<1>1. Init => Inv
  BY TypeInitially, CountInitially
<1>2. Inv /\ [SerialNext]_vars => Inv'
  BY CountStep
<1>3. Inv => RefcountExact /\ CheckHolds /\ NoDanglingInode /\ ForgottenIsFreedButDots
  BY CountMeansCached, CountMeansFreed DEF TypeInv, CountInv
<1> QED
  BY <1>1, <1>2, <1>3, PTL DEF SerialSpec

(***************************************************************************)
(* CHECK_GE(refcnt, ntimes) of InodeCache::Unref never fails: no forget    *)
(* request of the kernel and no handler gives back more references than it *)
(* was given, whatever failed in between.                                  *)
(***************************************************************************)
COROLLARY UnrefCheckHolds == SerialSpec => []CheckHolds
  BY CountsExact, PTL

(***************************************************************************)
(* When no handler runs and the kernel has forgotten everything, no Inode  *)
(* is left, but those that a ReadDirPlus handed out for "." and "..": no   *)
(* path through the handlers, failed ones included, leaks a reference.     *)
(***************************************************************************)
COROLLARY ForgottenIsFreed == SerialSpec => []ForgottenIsFreedButDots
  BY CountsExact, PTL

(***************************************************************************)
(* With one thread (pafs -s) every execution is serialised.                *)
(***************************************************************************)
LEMMA OneThreadIsSerial ==
  ASSUME NEW u, Threads = {u}
  PROVE  [Next]_vars => [SerialNext]_vars
BY DEF Next, SerialNext, Exclusive

THEOREM CountsExactSingleThreaded ==
  ASSUME NEW u, Threads = {u}
  PROVE  Spec => [](RefcountExact /\ CheckHolds /\ NoDanglingInode /\ ForgottenIsFreedButDots)
<1>1. [Next]_vars => [SerialNext]_vars
  BY OneThreadIsSerial
<1>2. Spec => SerialSpec
  BY <1>1, PTL DEF Spec, SerialSpec
<1> QED
  BY <1>2, CountsExact, PTL
-----------------------------------------------------------------------------
(***************************************************************************)
(* What a node id stands for.                                              *)
(***************************************************************************)
\* Where a handler can get to.
OpInv ==
  \A t \in Threads :
    /\ pc[t] \notin {"idle", "forgets"} => op[t] \in Ops
    /\ pc[t] = "make" => op[t] \in MakeOps
    /\ pc[t] \in {"readdir", "add"} => op[t] \in DirOps
    /\ pc[t] \in {"find", "insert", "entry", "gen"} => op[t] \in EntryOps \cup DirOps
    /\ pc[t] = "ref" => op[t] \in EntryOps \cup {"ReadDirPlus"}
    /\ pc[t] = "notify" => op[t] = "WriteBuf"

\* The kernel knows the inodes of a request that it has no reply to.
PinInv ==
  \A t \in Threads :
    /\ pc[t] \notin {"notify", "drop"} => t \notin replied
    /\ pc[t] \notin {"idle", "forgets"} /\ t \notin replied =>
         Known(node[t]) /\ Known(parent[t])

\* No two files that exist have the same number.
NumberInv ==
  \A f, g \in Files : Existing(f) /\ Existing(g) /\ KeyOf[f] = KeyOf[g] => f = g

\* An inode gets to the kernel by way of a handler that has seen its
\* generation, and that nobody asks for a second time.
GenInv ==
  /\ KernelKnowsGeneration
  /\ \A s \in Slots : kernelRef[s] # NULL => generation_[kernelRef[s]] = "ok"
  /\ \A t \in Threads :
       /\ pc[t] = "ref" \/ (pc[t] = "add" /\ op[t] = "ReadDirPlus") =>
            generation_[sharedPtr[Here(t)]] = "ok"
       /\ pc[t] = "gen" => generation_[sharedPtr[Here(t)]] = "unset"

NodeInv == OpInv /\ PinInv /\ NumberInv /\ InsertFindsTheFileOpened /\ GenInv

USE CacheAssumption, FSAssumption
-----------------------------------------------------------------------------
\* Unref leaves the Inodes and the map to Commit.
LEMMA UnrefKeeps ==
  ASSUME NEW t, NEW a, NEW n, Unref(t, a, n)
  PROVE  UNCHANGED <<inodes_, object, refcnt, generation_>>
BY DEF Unref, cacheVars

\* Drop only changes slots and what is to be stored.
LEMMA DropKeeps ==
  ASSUME NEW t, Drop(t)
  PROVE  UNCHANGED <<inodes_, object, refcnt, generation_, pc, op, node, parent, found, idx,
                     replied, nlookup, forgets, lost, linked>>
BY UnrefKeeps DEF Drop, DropLocal, DropKernelRef, DropSharedPtr, DropPtr, threadVars, kernelVars

LEMMA OpThread ==
  ASSUME TypeInv, OpInv, NEW t \in Threads, ThreadStep(t)
  PROVE  OpInv'
<1> USE DEF OpInv, TypeInv, TypeOK, At, Goto, Fail
<1>1. CASE Make(t) \/ FindEntry(t) \/ InsertEntry(t)
  BY <1>1 DEF Make, FindEntry, InsertEntry, EntryOps
<1>2. CASE EntryParam(t) \/ GetGeneration(t)
  BY <1>2 DEF EntryParam, GetGeneration, AfterParam, EntryOps, DirOps, MakeOps
<1>3. CASE AddEntry(t) \/ RefEntry(t) \/ ReadDirNext(t)
  BY <1>3 DEF AddEntry, RefEntry, ReadDirNext, NextEntry, EntryOps, DirOps, MakeOps
<1>4. CASE RemoveName(t) \/ UseInode(t) \/ Reply(t) \/ Notify(t) \/ Finish(t)
  BY <1>4 DEF RemoveName, UseInode, Reply, Notify, Finish
<1>5. CASE Drop(t)
  BY <1>5, DropKeeps
<1>6. CASE ForgetDone(t) \/ ForgetMulti(t) \/ CommitStep(t)
  BY <1>6 DEF ForgetDone, ForgetMulti, CommitStep, threadVars
<1>7. CASE \E a \in Addrs : \E n \in 1..forgets[a] : ForgetNext(t, a, n) \/ Forget(t, a, n)
  BY <1>7 DEF ForgetNext, Forget, threadVars
<1>8. ASSUME NEW o \in Ops, NEW n \in Nodes, NEW p \in Nodes, Receive(t, o, n, p)
      PROVE  OpInv'
  BY <1>8 DEF Receive, FirstPc, MakeOps, EntryOps, DirOps, NameOps, UseOps
<1> QED
  BY <1>1, <1>2, <1>3, <1>4, <1>5, <1>6, <1>7, <1>8 DEF ThreadStep, HandlerStep, ForgetStep

\* Only KernelForget makes the kernel forget an inode.
LEMMA LookupsStay ==
  ASSUME TypeInv, NEW t \in Threads, ThreadStep(t)
  PROVE  \A a \in Addrs : nlookup[a] > 0 => nlookup'[a] > 0
<1> USE DEF TypeInv, TypeOK
<1>1. CASE Make(t) \/ FindEntry(t) \/ InsertEntry(t) \/ EntryParam(t) \/ GetGeneration(t)
  BY <1>1 DEF Make, FindEntry, InsertEntry, EntryParam, GetGeneration, kernelVars
<1>2. CASE AddEntry(t) \/ RefEntry(t) \/ ReadDirNext(t) \/ RemoveName(t) \/ UseInode(t)
  BY <1>2 DEF AddEntry, RefEntry, ReadDirNext, RemoveName, UseInode, kernelVars
<1>3. CASE Reply(t)
  <2>1. \A a \in Addrs : Cardinality(HandedOver(t, a) \ dot) \in Nat
    BY SlotSubset DEF HandedOver
  <2>2. CASE nlookup' = [a \in Addrs |-> nlookup[a] + Cardinality(HandedOver(t, a) \ dot)]
    <3> TAKE a \in Addrs
    <3>1. nlookup[a] \in Nat /\ nlookup'[a] = nlookup[a] + Cardinality(HandedOver(t, a) \ dot)
      BY <2>2
    <3> QED
      BY <2>1, <3>1
  <2> QED
    BY <1>3, <2>2 DEF Reply
<1>4. CASE Notify(t) \/ Drop(t) \/ Finish(t) \/ ForgetDone(t) \/ ForgetMulti(t) \/ CommitStep(t)
  BY <1>4, DropKeeps DEF Notify, Finish, ForgetDone, ForgetMulti, CommitStep, kernelVars
<1>5. CASE \E a \in Addrs : \E n \in 1..forgets[a] : ForgetNext(t, a, n) \/ Forget(t, a, n)
  BY <1>5 DEF ForgetNext, Forget
<1>6. CASE \E o \in Ops, n \in Nodes, p \in Nodes : Receive(t, o, n, p)
  BY <1>6 DEF Receive, kernelVars
<1> QED
  BY <1>1, <1>2, <1>3, <1>4, <1>5, <1>6 DEF ThreadStep, HandlerStep, ForgetStep

\* A request keeps naming inodes that the kernel knows: what the kernel
\* forgets is not named by a request that has no reply.
LEMMA PinThread ==
  ASSUME TypeInv, PinInv, NEW t \in Threads, ThreadStep(t)
  PROVE  PinInv'
<1>0. \A n : Known(n) => Known(n)'
  BY LookupsStay DEF Known
<1> USE DEF PinInv, TypeInv, TypeOK, At, Goto, Fail
<1>1. CASE Make(t) \/ FindEntry(t) \/ InsertEntry(t) \/ EntryParam(t) \/ GetGeneration(t)
  BY <1>0, <1>1 DEF Make, FindEntry, InsertEntry, EntryParam, GetGeneration, AfterParam
<1>2. CASE AddEntry(t) \/ RefEntry(t) \/ ReadDirNext(t) \/ RemoveName(t) \/ UseInode(t)
  BY <1>0, <1>2 DEF AddEntry, RefEntry, ReadDirNext, RemoveName, UseInode, NextEntry
<1>3. CASE Reply(t) \/ Notify(t) \/ Finish(t)
  BY <1>0, <1>3 DEF Reply, Notify, Finish
<1>4. CASE Drop(t)
  BY <1>0, <1>4, DropKeeps
<1>5. CASE ForgetDone(t) \/ ForgetMulti(t) \/ CommitStep(t)
  BY <1>0, <1>5 DEF ForgetDone, ForgetMulti, CommitStep, threadVars
<1>6. CASE \E a \in Addrs : \E n \in 1..forgets[a] : ForgetNext(t, a, n) \/ Forget(t, a, n)
  BY <1>0, <1>6 DEF ForgetNext, Forget, threadVars
<1>7. ASSUME NEW o \in Ops, NEW n \in Nodes, NEW p \in Nodes, Receive(t, o, n, p)
      PROVE  PinInv'
  BY <1>0, <1>7 DEF Receive, FirstPc
<1> QED
  BY <1>1, <1>2, <1>3, <1>4, <1>5, <1>6, <1>7 DEF ThreadStep, HandlerStep, ForgetStep

\* A new file has a number that no file in use has.
LEMMA NumberThread ==
  ASSUME TypeInv, NumberInv, NEW t \in Threads, ThreadStep(t)
  PROVE  NumberInv'
<1> USE DEF TypeInv, TypeOK, At, Goto, Fail
<1>old. ASSUME \A f \in Files : Existing(f)' => Existing(f)
        PROVE  NumberInv'
  BY <1>old DEF NumberInv
<1>1. CASE Make(t)
  <2>1. CASE UNCHANGED linked
    BY <1>1, <1>old, <2>1 DEF Make, Existing, cacheVars
  <2>2. CASE \E f \in Files : CanAppear(f) /\ linked' = linked \cup {f}
    BY <1>1, <2>2 DEF Make, Existing, cacheVars, CanAppear, NumberInv
  <2> QED
    BY <1>1, <2>1, <2>2 DEF Make
<1>2. CASE FindEntry(t) \/ EntryParam(t) \/ GetGeneration(t)
  BY <1>2, <1>old DEF FindEntry, EntryParam, GetGeneration, AfterParam, Existing, cacheVars
<1>3. CASE InsertEntry(t)
  <2>1. PICK a \in Addrs : Insert(t, found[t], a)
    BY <1>3 DEF InsertEntry
  <2>2. \A b \in Addrs : object'[b] = object[b] \/ object'[b] = found[t]
    BY <2>1 DEF Insert, CacheTypeOK
  <2> QED
    BY <1>3, <1>old, <2>2 DEF InsertEntry, Existing
<1>4. CASE AddEntry(t) \/ RefEntry(t)
  <2>1. UNCHANGED object
    BY <1>4, UnrefKeeps DEF AddEntry, RefEntry, DropPtr, Ref, cacheVars
  <2> QED
    BY <1>4, <1>old, <2>1 DEF AddEntry, RefEntry, NextEntry, Existing
<1>5. CASE ReadDirNext(t) \/ RemoveName(t) \/ UseInode(t)
  BY <1>5, <1>old DEF ReadDirNext, RemoveName, UseInode, Existing, cacheVars
<1>6. CASE Reply(t) \/ Notify(t) \/ Finish(t) \/ ForgetDone(t) \/ ForgetMulti(t)
  BY <1>6, <1>old DEF Reply, Notify, Finish, ForgetDone, ForgetMulti, Existing, cacheVars
<1>7. CASE Drop(t)
  BY <1>7, <1>old, DropKeeps DEF Existing
<1>8. CASE \E a \in Addrs : \E n \in 1..forgets[a] : ForgetNext(t, a, n) \/ Forget(t, a, n)
  <2>1. UNCHANGED object
    BY <1>8, UnrefKeeps DEF ForgetNext, Forget
  <2> QED
    BY <1>8, <1>old, <2>1 DEF ForgetNext, Forget, Existing, threadVars
<1>9. CASE CommitStep(t)
  <2>1. \A b \in Addrs : object'[b] = object[b] \/ object'[b] = NULL
    BY <1>9 DEF CommitStep, Commit, CacheTypeOK
  <2> QED
    BY <1>9, <1>old, <2>1 DEF CommitStep, Existing, threadVars
<1>10. CASE \E o \in Ops, n \in Nodes, p \in Nodes : Receive(t, o, n, p)
  BY <1>10, <1>old DEF Receive, FirstPc, Existing, cacheVars
<1> QED
  BY <1>1, <1>2, <1>3, <1>4, <1>5, <1>6, <1>7, <1>8, <1>9, <1>10
  DEF ThreadStep, HandlerStep, ForgetStep
-----------------------------------------------------------------------------
\* A thread leaves the locals of the others alone.
LEMMA OthersAlone ==
  ASSUME TypeInv, NEW t \in Threads, ThreadStep(t), NEW u \in Threads \ {t}
  PROVE  /\ pc'[u] = pc[u] /\ op'[u] = op[u] /\ found'[u] = found[u] /\ idx'[u] = idx[u]
         /\ \A i \in Idx : /\ sharedPtr'[<<u, i>>] = sharedPtr[<<u, i>>]
                           /\ kernelRef'[<<u, i>>] = kernelRef[<<u, i>>]
<1> USE DEF TypeInv, TypeOK, At, Goto, Fail, Slots, Here
<1>1. CASE Make(t) \/ FindEntry(t) \/ EntryParam(t) \/ GetGeneration(t) \/ ReadDirNext(t)
  BY <1>1 DEF Make, FindEntry, EntryParam, GetGeneration, ReadDirNext, AfterParam, slotVars
<1>2. CASE InsertEntry(t)
  BY <1>2 DEF InsertEntry
<1>3. CASE AddEntry(t) \/ RefEntry(t)
  BY <1>3 DEF AddEntry, RefEntry, NextEntry, DropPtr
<1>4. CASE RemoveName(t) \/ UseInode(t) \/ Notify(t) \/ ForgetDone(t) \/ ForgetMulti(t)
  BY <1>4 DEF RemoveName, UseInode, Notify, ForgetDone, ForgetMulti, slotVars
<1>5. CASE Reply(t)
  BY <1>5 DEF Reply
<1>6. CASE Drop(t)
  <2>1. \A i \in Idx : /\ sharedPtr'[<<u, i>>] = sharedPtr[<<u, i>>]
                       /\ kernelRef'[<<u, i>>] = kernelRef[<<u, i>>]
    BY <1>6 DEF Drop, DropLocal, DropKernelRef, DropSharedPtr, DropPtr
  <2> QED
    BY <1>6, <2>1, DropKeeps
<1>7. CASE Finish(t) \/ CommitStep(t)
  BY <1>7 DEF Finish, CommitStep, threadVars, slotVars
<1>8. CASE \E a \in Addrs : \E n \in 1..forgets[a] : ForgetNext(t, a, n) \/ Forget(t, a, n)
  BY <1>8 DEF ForgetNext, Forget, threadVars, slotVars
<1>9. CASE \E o \in Ops, n \in Nodes, p \in Nodes : Receive(t, o, n, p)
  BY <1>9 DEF Receive, slotVars
<1> QED
  BY <1>1, <1>2, <1>3, <1>4, <1>5, <1>6, <1>7, <1>8, <1>9 DEF ThreadStep, HandlerStep, ForgetStep

(***************************************************************************)
(* What the steps do to the Inodes.  One that somebody refers to stays     *)
(* what it is, but for a generation that is read for the first time.       *)
(***************************************************************************)
LEMMA LiveKept ==
  ASSUME TypeInv, CountInv, NEW t \in Threads, ThreadStep(t), Exclusive(t),
         NEW a \in Addrs, Count(a) > 0
  PROVE  /\ object'[a] = object[a]
         /\ GetGeneration(t) \/ generation_'[a] = generation_[a]
<1> USE DEF TypeInv, TypeOK
<1>1. CASE Make(t) \/ FindEntry(t) \/ EntryParam(t) \/ ReadDirNext(t)
  BY <1>1 DEF Make, FindEntry, EntryParam, ReadDirNext, cacheVars
<1>2. CASE GetGeneration(t)
  BY <1>2 DEF GetGeneration
<1>3. CASE InsertEntry(t)
  <2>1. PICK b \in Addrs : Insert(t, found[t], b)
    BY <1>3 DEF InsertEntry
  <2>2. object[a] # NULL
    BY DEF CountInv, LiveInv
  <2> QED
    BY <2>1, <2>2 DEF Insert, CacheTypeOK
<1>4. CASE AddEntry(t) \/ RefEntry(t)
  BY <1>4, UnrefKeeps DEF AddEntry, RefEntry, DropPtr, Ref, cacheVars
<1>5. CASE RemoveName(t) \/ UseInode(t) \/ Notify(t) \/ ForgetDone(t) \/ ForgetMulti(t)
  BY <1>5 DEF RemoveName, UseInode, Notify, ForgetDone, ForgetMulti, cacheVars
<1>6. CASE Reply(t) \/ Finish(t)
  BY <1>6 DEF Reply, Finish, cacheVars
<1>7. CASE Drop(t)
  BY <1>7, DropKeeps
<1>8. CASE \E b \in Addrs : \E n \in 1..forgets[b] : ForgetNext(t, b, n) \/ Forget(t, b, n)
  BY <1>8, UnrefKeeps DEF ForgetNext, Forget
<1>9. CASE CommitStep(t)
  <2>1. pendVal[t] = Count(pendAddr[t]) /\ pendAddr[t] \in Addrs
    BY <1>9 DEF CommitStep, CountInv, RefcountExact, CacheTypeOK
  <2> QED
    BY <1>9, <2>1 DEF CommitStep, Commit, CacheTypeOK
<1>10. CASE \E o \in Ops, n \in Nodes, p \in Nodes : Receive(t, o, n, p)
  BY <1>10 DEF Receive, cacheVars
<1> QED
  BY <1>1, <1>2, <1>3, <1>4, <1>5, <1>6, <1>7, <1>8, <1>9, <1>10
  DEF ThreadStep, HandlerStep, ForgetStep

\* The entry a handler works on is an Inode that it refers to.
LEMMA EntryCounts ==
  ASSUME TypeInv, NEW t \in Threads, pc[t] \in {"entry", "gen", "add", "ref"}
  PROVE  Here(t) \in Slots /\ sharedPtr[Here(t)] \in Addrs /\ Count(sharedPtr[Here(t)]) > 0
<1>1. Here(t) \in Slots /\ sharedPtr[Here(t)] \in Addrs
  BY DEF TypeInv, TypeOK, SlotInv, Here, Slots
<1> QED
  BY <1>1, HeldCounts DEF TypeInv

\* Inode::Create has opened a file.
LEMMA InsertHasFile ==
  ASSUME TypeInv, NEW t \in Threads, pc[t] = "insert"
  PROVE  found[t] \in Files
<1>1. found[t] # NULL
  BY DEF TypeInv, SlotInv
<1> QED
  BY <1>1 DEF TypeInv, TypeOK

\* Insert finds the Inode of the file, or makes it; nobody changes it while
\* the handler refers to it.
LEMMA FoundThread ==
  ASSUME TypeInv, CountInv, NumberInv, InsertFindsTheFileOpened,
         NEW t \in Threads, ThreadStep(t), Exclusive(t)
  PROVE  InsertFindsTheFileOpened'
<1> DEFINE Entry == {"entry", "gen", "add", "ref"}
<1>1. ASSUME NEW u \in Threads \ {t}, pc'[u] \in Entry
      PROVE  object'[sharedPtr'[Here(u)']] = found'[u]
  <2>1. pc[u] \in Entry /\ found'[u] = found[u] /\ Here(u)' = Here(u)
    BY <1>1, OthersAlone DEF Here
  <2>2. sharedPtr'[Here(u)] = sharedPtr[Here(u)]
    BY OthersAlone DEF Here, TypeInv, TypeOK
  <2>3. sharedPtr[Here(u)] \in Addrs /\ Count(sharedPtr[Here(u)]) > 0
    BY <2>1, EntryCounts
  <2> QED
    BY <2>1, <2>2, <2>3, LiveKept DEF InsertFindsTheFileOpened
<1>2. ASSUME pc'[t] \in Entry
      PROVE  object'[sharedPtr'[Here(t)']] = found'[t]
  <2> USE DEF TypeInv, TypeOK, At, Goto, Fail
  <2>1. CASE InsertEntry(t)
    <3>1. PICK a \in Addrs : /\ Insert(t, found[t], a)
                             /\ sharedPtr' = [sharedPtr EXCEPT ![Here(t)] = a]
      BY <2>1 DEF InsertEntry
    <3>2. Here(t) \in Slots /\ Here(t)' = Here(t) /\ found' = found
      BY <2>1 DEF InsertEntry, Here, Slots
    <3>3. found[t] \in Files /\ pc[t] = "insert"
      BY <2>1, InsertHasFile DEF InsertEntry
    <3>4. object'[a] = found[t]
      <4>1. CASE inodes_[KeyOf[found[t]]] = a /\ object' = object
        <5>1. object[a] \in Files /\ KeyOf[object[a]] = KeyOf[found[t]]
          BY <3>3, <4>1 DEF CountInv, MapInv, CacheTypeOK
        <5>2. Existing(object[a]) /\ Existing(found[t])
          BY <3>3 DEF Existing
        <5> QED
          BY <3>3, <4>1, <5>1, <5>2 DEF NumberInv
      <4> QED
        BY <3>1, <4>1 DEF Insert, CacheTypeOK
    <3> QED
      BY <3>1, <3>2, <3>4
  <2>2. CASE EntryParam(t) \/ GetGeneration(t)
    BY <2>2 DEF EntryParam, GetGeneration, InsertFindsTheFileOpened, Here, cacheVars, slotVars
  <2>3. CASE AddEntry(t)
    BY <1>2, <2>3 DEF AddEntry, NextEntry, InsertFindsTheFileOpened, Here, cacheVars
  <2>4. CASE Make(t) \/ FindEntry(t) \/ RefEntry(t) \/ ReadDirNext(t) \/ RemoveName(t)
    BY <1>2, <2>4 DEF Make, FindEntry, RefEntry, ReadDirNext, RemoveName, NextEntry
  <2>5. CASE UseInode(t) \/ Notify(t) \/ ForgetDone(t) \/ ForgetMulti(t) \/ Reply(t) \/ Finish(t)
    BY <1>2, <2>5 DEF UseInode, Notify, ForgetDone, ForgetMulti, Reply, Finish
  <2>6. CASE Drop(t)
    BY <1>2, <2>6, DropKeeps DEF Drop
  <2>7. CASE \E b \in Addrs : \E n \in 1..forgets[b] : ForgetNext(t, b, n) \/ Forget(t, b, n)
    BY <1>2, <2>7 DEF ForgetNext, Forget, threadVars
  <2>8. CASE CommitStep(t)
    <3>1. pc[t] \in Entry /\ Here(t)' = Here(t) /\ found' = found /\ sharedPtr' = sharedPtr
      BY <1>2, <2>8 DEF CommitStep, threadVars, slotVars, Here
    <3>2. sharedPtr[Here(t)] \in Addrs /\ Count(sharedPtr[Here(t)]) > 0
      BY <3>1, EntryCounts
    <3> QED
      BY <3>1, <3>2, LiveKept DEF InsertFindsTheFileOpened
  <2>9. CASE \E o \in Ops, n \in Nodes, p \in Nodes : Receive(t, o, n, p)
    BY <1>2, <2>9 DEF Receive, FirstPc
  <2> QED
    BY <2>1, <2>2, <2>3, <2>4, <2>5, <2>6, <2>7, <2>8, <2>9
    DEF ThreadStep, HandlerStep, ForgetStep
<1> QED
  BY <1>1, <1>2 DEF InsertFindsTheFileOpened

(***************************************************************************)
(* FORGET, alone or in a batch: Unref finds the Inode, so a batch is never *)
(* broken off.                                                             *)
(***************************************************************************)
LEMMA ForgetEffect ==
  ASSUME TypeInv, CountInv, NEW t \in Threads, Exclusive(t), NEW a \in Addrs,
         NEW n \in 1..forgets[a], Forget(t, a, n) \/ ForgetNext(t, a, n)
  PROVE  /\ forgets' = [forgets EXCEPT ![a] = forgets[a] - n]
         /\ UNCHANGED <<nlookup, lost, sharedPtr, kernelRef, object, generation_, pc>>
<1>1. TypeOK /\ forgets[a] \in Nat
  BY DEF TypeInv, TypeOK
<1>2. n \in Nat /\ 0 < n /\ n <= Count(a)
  BY <1>1, CountType DEF Count, KernelHas
<1>3. \A u \in Threads : pendAddr[u] = NULL
  BY DEF Forget, ForgetNext, At, Ready, Exclusive, Busy
<1>4. Find(a) = a
  BY <1>1, <1>2, <1>3, UnrefEffect DEF Forget, ForgetNext
<1> QED
  BY <1>4, UnrefKeeps DEF Forget, ForgetNext, threadVars, slotVars

\* The kernel gets inodes by replies only, from handlers that refer to them.
LEMMA KernelGains ==
  ASSUME TypeInv, CountInv, NEW t \in Threads, ThreadStep(t), Exclusive(t),
         NEW a \in Addrs, KernelHas(a)' > 0
  PROVE  KernelHas(a) > 0 \/ \E s \in Slots : kernelRef[s] = a
<1>same. ASSUME UNCHANGED kernelVars PROVE KernelHas(a) > 0
  BY <1>same DEF KernelHas, kernelVars
<1>1. CASE Make(t) \/ FindEntry(t) \/ InsertEntry(t) \/ EntryParam(t) \/ GetGeneration(t)
  BY <1>1, <1>same DEF Make, FindEntry, InsertEntry, EntryParam, GetGeneration
<1>2. CASE AddEntry(t) \/ RefEntry(t) \/ ReadDirNext(t) \/ RemoveName(t) \/ UseInode(t)
  BY <1>2, <1>same DEF AddEntry, RefEntry, ReadDirNext, RemoveName, UseInode
<1>3. CASE Reply(t)
  <2> SUFFICES ASSUME \A s \in Slots : kernelRef[s] # a PROVE KernelHas(a) > 0
    OBVIOUS
  <2>1. HandedOver(t, a) \ dot = {} /\ HandedOver(t, a) \cap dot = {}
    BY DEF HandedOver
  <2>2. nlookup'[a] = nlookup[a] /\ lost'[a] = lost[a]
    <3>1. nlookup[a] \in Nat /\ lost[a] \in Nat
      BY DEF TypeInv, TypeOK
    <3> QED
      BY <1>3, <2>1, <3>1, FS_EmptySet DEF Reply
  <2> QED
    BY <1>3, <2>2 DEF Reply, KernelHas
<1>4. CASE Notify(t) \/ Drop(t) \/ Finish(t) \/ ForgetDone(t) \/ ForgetMulti(t) \/ CommitStep(t)
  BY <1>4, <1>same DEF Notify, Drop, Finish, ForgetDone, ForgetMulti, CommitStep
<1>5. ASSUME NEW b \in Addrs, NEW n \in 1..forgets[b], Forget(t, b, n) \/ ForgetNext(t, b, n)
      PROVE  KernelHas(a) > 0
  <2>1. /\ forgets' = [forgets EXCEPT ![b] = forgets[b] - n]
        /\ UNCHANGED <<nlookup, lost>>
    BY <1>5, ForgetEffect
  <2>2. /\ forgets[a] \in Nat /\ nlookup[a] \in Nat /\ lost[a] \in Nat
        /\ forgets[b] \in Nat /\ forgets \in [Addrs -> Nat]
    BY DEF TypeInv, TypeOK
  <2> QED
    BY <2>1, <2>2 DEF KernelHas
<1>6. CASE \E o \in Ops, n \in Nodes, p \in Nodes : Receive(t, o, n, p)
  BY <1>6, <1>same DEF Receive
<1> QED
  BY <1>1, <1>2, <1>3, <1>4, <1>5, <1>6 DEF ThreadStep, HandlerStep, ForgetStep

\* A Cleanup refers to what it referred to before, or to the entry whose
\* reference the thread has just made.
LEMMA RefGains ==
  ASSUME TypeInv, NEW t \in Threads, ThreadStep(t),
         NEW s \in Slots, kernelRef'[s] # NULL
  PROVE  \/ kernelRef'[s] = kernelRef[s]
         \/ RefEntry(t) /\ s = Here(t) /\ kernelRef'[s] = sharedPtr[Here(t)]
<1> USE DEF TypeInv, TypeOK
<1>1. CASE Make(t) \/ FindEntry(t) \/ InsertEntry(t) \/ EntryParam(t) \/ GetGeneration(t)
  BY <1>1 DEF Make, FindEntry, InsertEntry, EntryParam, GetGeneration, slotVars
<1>2. CASE AddEntry(t) \/ RefEntry(t) \/ ReadDirNext(t) \/ RemoveName(t) \/ UseInode(t)
  BY <1>2 DEF AddEntry, RefEntry, ReadDirNext, RemoveName, UseInode, slotVars
<1>3. CASE Reply(t) \/ Notify(t) \/ Finish(t) \/ ForgetDone(t) \/ ForgetMulti(t) \/ CommitStep(t)
  BY <1>3 DEF Reply, Notify, Finish, ForgetDone, ForgetMulti, CommitStep, slotVars
<1>4. CASE Drop(t)
  BY <1>4 DEF Drop, DropLocal, DropKernelRef, DropSharedPtr, DropPtr
<1>5. CASE \E a \in Addrs : \E n \in 1..forgets[a] : ForgetNext(t, a, n) \/ Forget(t, a, n)
  BY <1>5 DEF ForgetNext, Forget, slotVars
<1>6. CASE \E o \in Ops, n \in Nodes, p \in Nodes : Receive(t, o, n, p)
  BY <1>6 DEF Receive, slotVars
<1> QED
  BY <1>1, <1>2, <1>3, <1>4, <1>5, <1>6 DEF ThreadStep, HandlerStep, ForgetStep

\* A generation that is known stays known.
LEMMA GenKept ==
  ASSUME TypeInv, CountInv, GenInv, NEW t \in Threads, ThreadStep(t), Exclusive(t),
         NEW a \in Addrs, Count(a) > 0, generation_[a] = "ok"
  PROVE  generation_'[a] = "ok"
<1>1. CASE GetGeneration(t)
  <2>1. generation_[sharedPtr[Here(t)]] = "unset"
    BY <1>1 DEF GetGeneration, At, GenInv
  <2> QED
    BY <1>1, <2>1 DEF GetGeneration, TypeInv, TypeOK, CacheTypeOK
<1> QED
  BY <1>1, LiveKept

LEMMA GenThread ==
  ASSUME TypeInv, CountInv, OpInv, GenInv, NEW t \in Threads, ThreadStep(t), Exclusive(t)
  PROVE  GenInv'
<1>0. TypeOK
  BY DEF TypeInv
<1>1. \A s \in Slots : kernelRef[s] # NULL =>
        kernelRef[s] \in Addrs /\ generation_'[kernelRef[s]] = "ok"
  <2> SUFFICES ASSUME NEW s \in Slots, kernelRef[s] # NULL
               PROVE  kernelRef[s] \in Addrs /\ generation_'[kernelRef[s]] = "ok"
    OBVIOUS
  <2>1. kernelRef[s] \in Addrs
    BY <1>0 DEF TypeOK
  <2>2. Count(kernelRef[s]) > 0
    BY <1>0, <2>1, HeldCounts
  <2> QED
    BY <2>1, <2>2, GenKept DEF GenInv
<1>2. KernelKnowsGeneration'
  <2> SUFFICES ASSUME NEW a \in Addrs, KernelHas(a)' > 0
               PROVE  generation_'[a] = "ok"
    BY DEF KernelKnowsGeneration
  <2>1. CASE KernelHas(a) > 0
    <3>1. Count(a) > 0
      BY <1>0, <2>1, CountType DEF Count
    <3> QED
      BY <2>1, <3>1, GenKept DEF GenInv, KernelKnowsGeneration
  <2> QED
    BY <1>1, <2>1, KernelGains
<1>3. \A s \in Slots : kernelRef'[s] # NULL => generation_'[kernelRef'[s]] = "ok"
  <2> SUFFICES ASSUME NEW s \in Slots, kernelRef'[s] # NULL
               PROVE  generation_'[kernelRef'[s]] = "ok"
    OBVIOUS
  <2>1. CASE kernelRef'[s] = kernelRef[s]
    BY <1>1, <2>1
  <2>2. CASE RefEntry(t) /\ kernelRef'[s] = sharedPtr[Here(t)]
    <3>1. pc[t] = "ref"
      BY <2>2 DEF RefEntry, At
    <3>2. sharedPtr[Here(t)] \in Addrs /\ Count(sharedPtr[Here(t)]) > 0
      BY <3>1, EntryCounts
    <3> QED
      BY <2>2, <3>1, <3>2, GenKept DEF GenInv
  <2> QED
    BY <2>1, <2>2, RefGains
<1> DEFINE Seen(u) == pc[u] = "ref" \/ (pc[u] = "add" /\ op[u] = "ReadDirPlus")
<1>4. ASSUME NEW u \in Threads \ {t}
      PROVE  /\ Seen(u)' => generation_'[sharedPtr'[Here(u)']] = "ok"
             /\ pc'[u] # "gen"
  <2>1. /\ pc'[u] = pc[u] /\ op'[u] = op[u] /\ Here(u)' = Here(u)
        /\ sharedPtr'[Here(u)] = sharedPtr[Here(u)]
    BY <1>0, OthersAlone DEF Here, TypeOK
  <2>2. pc[u] # "gen"
    BY DEF Exclusive, Busy
  <2>3. Seen(u) => sharedPtr[Here(u)] \in Addrs /\ Count(sharedPtr[Here(u)]) > 0
    BY EntryCounts
  <2> QED
    BY <2>1, <2>2, <2>3, GenKept DEF GenInv
<1>5. /\ Seen(t)' => generation_'[sharedPtr'[Here(t)']] = "ok"
      /\ pc'[t] = "gen" => generation_'[sharedPtr'[Here(t)']] = "unset"
  <2> USE DEF TypeInv, TypeOK, At, Goto, Fail
  <2>1. CASE EntryParam(t)
    BY <2>1 DEF EntryParam, AfterParam, Here, cacheVars, slotVars, EntryOps, MakeOps
  <2>2. CASE GetGeneration(t)
    <3>1. Here(t) \in Slots /\ sharedPtr[Here(t)] \in Addrs
      BY <2>2, EntryCounts DEF GetGeneration
    <3> QED
      BY <2>2, <3>1 DEF GetGeneration, AfterParam, Here, slotVars, CacheTypeOK
  <2>3. CASE AddEntry(t)
    BY <2>3 DEF AddEntry, NextEntry, GenInv, Here, cacheVars
  <2>4. CASE Make(t) \/ FindEntry(t) \/ InsertEntry(t) \/ RefEntry(t) \/ ReadDirNext(t)
    BY <2>4 DEF Make, FindEntry, InsertEntry, RefEntry, ReadDirNext, NextEntry
  <2>5. CASE UseInode(t) \/ Notify(t) \/ ForgetDone(t) \/ ForgetMulti(t) \/ Reply(t) \/ Finish(t)
    BY <2>5 DEF UseInode, Notify, ForgetDone, ForgetMulti, Reply, Finish
  <2>6. CASE Drop(t) \/ RemoveName(t)
    BY <2>6, DropKeeps DEF Drop, RemoveName
  <2>7. CASE \E b \in Addrs : \E n \in 1..forgets[b] : ForgetNext(t, b, n) \/ Forget(t, b, n)
    BY <2>7 DEF ForgetNext, Forget, threadVars
  <2>8. CASE CommitStep(t)
    <3>1. /\ pc' = pc /\ op' = op /\ Here(t)' = Here(t) /\ sharedPtr' = sharedPtr
          /\ ~GetGeneration(t)
      BY <2>8 DEF CommitStep, threadVars, slotVars, Here, GetGeneration, Ready
    <3>2. pc[t] \in {"gen", "add", "ref"} =>
            sharedPtr[Here(t)] \in Addrs /\ Count(sharedPtr[Here(t)]) > 0
      BY EntryCounts
    <3> QED
      BY <3>1, <3>2, LiveKept DEF GenInv
  <2>9. CASE \E o \in Ops, n \in Nodes, p \in Nodes : Receive(t, o, n, p)
    BY <2>9 DEF Receive, FirstPc
  <2> QED
    BY <2>1, <2>2, <2>3, <2>4, <2>5, <2>6, <2>7, <2>8, <2>9
    DEF ThreadStep, HandlerStep, ForgetStep
<1> QED
  BY <1>2, <1>3, <1>4, <1>5 DEF GenInv

-----------------------------------------------------------------------------
\* The kernel counts down its lookups, and the source tree changes.
LEMMA NodeEnvironment ==
  ASSUME TypeInv, NodeInv, Environment
  PROVE  NodeInv' /\ \A a \in Addrs : KernelHas(a)' = KernelHas(a)
<1>0. TypeOK
  BY DEF TypeInv
<1>1. ASSUME NEW a \in Addrs, NEW n \in 1..nlookup[a], KernelForget(a, n)
      PROVE  NodeInv' /\ \A b \in Addrs : KernelHas(b)' = KernelHas(b)
  <2>1. nlookup[a] \in Nat /\ n \in Nat /\ n <= nlookup[a]
    BY <1>0 DEF TypeOK
  <2>2. \A b \in Addrs : nlookup'[b] + forgets'[b] = nlookup[b] + forgets[b]
    BY <1>0, <1>1, <2>1 DEF TypeOK, KernelForget
  <2>3. \A b \in Addrs : KernelHas(b)' = KernelHas(b)
    BY <1>1, <2>2 DEF KernelHas, KernelForget
  <2>4. UNCHANGED <<cacheVars, threadVars, slotVars, linked>>
    BY <1>1 DEF KernelForget
  <2>5. OpInv' /\ NumberInv' /\ InsertFindsTheFileOpened'
    BY <2>4 DEF cacheVars, threadVars, slotVars, NodeInv, OpInv, NumberInv, Existing,
      InsertFindsTheFileOpened, Here
  <2>6. GenInv'
    BY <2>3, <2>4 DEF cacheVars, threadVars, slotVars, NodeInv, GenInv, KernelKnowsGeneration, Here
  <2>7. PinInv'
    <3> SUFFICES ASSUME NEW t \in Threads, pc[t] \notin {"idle", "forgets"}, t \notin replied
                 PROVE  Known(node[t])' /\ Known(parent[t])'
      BY <2>4 DEF threadVars, NodeInv, PinInv
    <3>1. a \in {node[t], parent[t]} => nlookup'[a] > 0
      BY <1>0, <1>1, <2>1 DEF KernelForget, Pinned, TypeOK
    <3>2. \A b \in Addrs \ {a} : nlookup'[b] = nlookup[b]
      BY <1>0, <1>1 DEF KernelForget, TypeOK
    <3> QED
      BY <2>4, <3>1, <3>2 DEF threadVars, NodeInv, PinInv, Known
  <2> QED
    BY <2>3, <2>5, <2>6, <2>7 DEF NodeInv
<1>2. ASSUME NEW f \in Files, SourceChange(f)
      PROVE  NodeInv' /\ \A b \in Addrs : KernelHas(b)' = KernelHas(b)
  <2>1. UNCHANGED <<cacheVars, threadVars, slotVars, kernelVars>>
    BY <1>2 DEF SourceChange
  <2>2. \A b \in Addrs : KernelHas(b)' = KernelHas(b)
    BY <2>1 DEF kernelVars, KernelHas
  <2>3. OpInv' /\ PinInv' /\ InsertFindsTheFileOpened'
    BY <2>1 DEF cacheVars, threadVars, slotVars, kernelVars, NodeInv, OpInv, PinInv, Known,
      InsertFindsTheFileOpened, Here
  <2>4. GenInv'
    BY <2>1, <2>2 DEF cacheVars, threadVars, slotVars, NodeInv, GenInv, KernelKnowsGeneration, Here
  <2>5. NumberInv'
    <3>1. CASE CanAppear(f) /\ linked' = linked \cup {f}
      BY <2>1, <3>1 DEF cacheVars, threadVars, NodeInv, NumberInv, Existing, CanAppear
    <3>2. CASE linked' = linked \ {f}
      BY <2>1, <3>2 DEF cacheVars, threadVars, NodeInv, NumberInv, Existing
    <3> QED
      BY <1>2, <3>1, <3>2 DEF SourceChange
  <2> QED
    BY <2>2, <2>3, <2>4, <2>5 DEF NodeInv
<1> QED
  BY <1>1, <1>2 DEF Environment

LEMMA NodeStutter ==
  ASSUME NodeInv, UNCHANGED vars
  PROVE  NodeInv'
<1> USE DEF vars, cacheVars, threadVars, slotVars, kernelVars, NodeInv
<1>1. OpInv' /\ PinInv'
  BY DEF OpInv, PinInv, Known
<1>2. NumberInv' /\ InsertFindsTheFileOpened'
  BY DEF NumberInv, Existing, InsertFindsTheFileOpened, Here
<1>3. GenInv'
  BY DEF GenInv, KernelKnowsGeneration, KernelHas, Here
<1> QED
  BY <1>1, <1>2, <1>3

LEMMA NodeInitially == Init => NodeInv
<1> SUFFICES ASSUME Init PROVE NodeInv
  OBVIOUS
<1>1. OpInv /\ PinInv
  BY DEF Init, OpInv, PinInv
<1>2. NumberInv
  BY DEF Init, CacheInit, NumberInv, Existing
<1>3. InsertFindsTheFileOpened
  BY DEF Init, InsertFindsTheFileOpened
<1>4. GenInv
  BY DEF Init, GenInv, KernelKnowsGeneration, KernelHas
<1> QED
  BY <1>1, <1>2, <1>3, <1>4 DEF NodeInv

SerialInv == TypeInv /\ CountInv /\ NodeInv

LEMMA NodeStep ==
  ASSUME SerialInv, [SerialNext]_vars
  PROVE  SerialInv'
<1> USE DEF SerialInv
<1>1. TypeInv' /\ CountInv'
  BY CountStep
<1>2. ASSUME NEW t \in Threads, ThreadStep(t), Exclusive(t) PROVE NodeInv'
  BY <1>2, OpThread, PinThread, NumberThread, FoundThread, GenThread DEF NodeInv
<1> QED
  BY <1>1, <1>2, NodeEnvironment, NodeStutter DEF SerialNext

\* The invariant behind the theorems below.
LEMMA Serialised == SerialSpec => []SerialInv
<1>1. Init => SerialInv
  BY TypeInitially, CountInitially, NodeInitially DEF SerialInv
<1>2. SerialInv /\ [SerialNext]_vars => SerialInv'
  BY NodeStep
<1> QED
  BY <1>1, <1>2, PTL DEF SerialSpec

(***************************************************************************)
(* FindOrCreateInode yields the Inode of the very file it opened, although *)
(* InodeCache::Insert looks for it by a number that the source file system *)
(* gives to other files once it is free.                                   *)
(***************************************************************************)
THEOREM InsertIsRight == SerialSpec => []InsertFindsTheFileOpened
<1>1. SerialInv => InsertFindsTheFileOpened
  BY DEF SerialInv, NodeInv
<1> QED
  BY <1>1, Serialised, PTL

(***************************************************************************)
(* CreateFuseEntryParam never lets an inode whose generation could not be  *)
(* read get to the kernel, and what Inode::GetGeneration has once found is *)
(* not replaced while the kernel has the inode.                            *)
(***************************************************************************)
THEOREM GenerationsAreKnown == SerialSpec => []KernelKnowsGeneration
<1>1. SerialInv => KernelKnowsGeneration
  BY DEF SerialInv, NodeInv, GenInv
<1> QED
  BY <1>1, Serialised, PTL

\* A request without a reply names inodes that the map has.
LEMMA PinnedIsCached ==
  ASSUME SerialInv, NEW t \in Threads, pc[t] \notin {"idle", "forgets", "notify", "drop"},
         NEW n \in {node[t], parent[t]}
  PROVE  n = ROOT \/ Cached(n)
<1>1. Known(n)
  BY DEF SerialInv, NodeInv, PinInv
<1>2. TypeOK /\ NoDanglingInode
  BY CountMeansCached DEF SerialInv, TypeInv
<1> QED
  BY <1>1, <1>2, CountType DEF Known, NoDanglingInode, KernelHas

(***************************************************************************)
(* The inodes a handler was called with are not freed under it, however    *)
(* many threads handle FORGETs.  WriteBuf is left out: it calls            *)
(* NotifyPollEvent on its inode after its reply, when the kernel may       *)
(* already have forgotten the inode.                                       *)
(***************************************************************************)
THEOREM OperandsAreLive ==
  ASSUME "WriteBuf" \notin Ops
  PROVE  SerialSpec => []OperandLive
<1>1. SerialInv => OperandLive
  <2> SUFFICES ASSUME SerialInv, NEW t \in Threads,
                      pc[t] \in {"make", "find", "entry", "readdir", "names", "use", "notify"},
                      NEW n \in {node[t], parent[t]}
               PROVE  n = ROOT \/ Cached(n)
    BY DEF OperandLive
  <2>1. pc[t] # "notify"
    BY DEF SerialInv, NodeInv, OpInv
  <2> QED
    BY <2>1, PinnedIsCached
<1> QED
  BY <1>1, Serialised, PTL

-----------------------------------------------------------------------------
\* A step that neither binds nor hands out a node id.
LEMMA TableQuiet ==
  ASSUME UNCHANGED object, \A a \in Addrs : KernelHas(a)' = KernelHas(a)
  PROVE  UNCHANGED Table!vars
BY DEF Table!vars

\* Insert binds a node id if the map has no Inode for the number.
LEMMA TableInsert ==
  ASSUME SerialInv, NEW t \in Threads, InsertEntry(t)
  PROVE  [Table!Next]_(Table!vars)
<1>1. TypeOK
  BY DEF SerialInv, TypeInv
<1>2. PICK a \in Addrs : Insert(t, found[t], a)
  BY DEF InsertEntry
<1>3. found[t] \in Files
  BY InsertHasFile DEF SerialInv, InsertEntry, At
<1>4. \A b \in Addrs : KernelHas(b)' = KernelHas(b)
  BY DEF InsertEntry, kernelVars, KernelHas
<1>5. CASE object' = object
  BY <1>4, <1>5, TableQuiet
<1>6. CASE /\ inodes_[KeyOf[found[t]]] = NULL /\ object[a] = NULL
           /\ object' = [object EXCEPT ![a] = found[t]]
  <2>1. KernelHas(a) = 0
    <3>1. Count(a) = 0
      BY <1>6, CountType, <1>1 DEF SerialInv, CountInv, LiveInv
    <3> QED
      BY <1>1, <3>1, CountType DEF Count
  <2>2. \A b \in Addrs : object[b] # NULL => KeyOf[object[b]] # KeyOf[found[t]]
    BY <1>6 DEF SerialInv, CountInv, MapInv
  <2>3. Table!Bind(a, found[t])
    BY <1>4, <1>6, <2>1, <2>2 DEF Table!Bind
  <2> QED
    BY <1>3, <2>3 DEF Table!Next
<1> QED
  BY <1>2, <1>5, <1>6 DEF Insert

\* Commit frees a node id that is not out.
LEMMA TableCommit ==
  ASSUME SerialInv, NEW t \in Threads, CommitStep(t)
  PROVE  [Table!Next]_(Table!vars)
<1> DEFINE a == pendAddr[t]
<1>1. TypeOK
  BY DEF SerialInv, TypeInv
<1>2. a \in Addrs /\ pendVal[t] = Count(a)
  BY <1>1 DEF CommitStep, SerialInv, CountInv, RefcountExact, TypeOK, CacheTypeOK
<1>3. \A b \in Addrs : KernelHas(b)' = KernelHas(b)
  BY DEF CommitStep, kernelVars, KernelHas
<1>4. CASE pendVal[t] = 0
  <2>1. object[a] # NULL
    BY <1>2 DEF SerialInv, CountInv, LiveInv
  <2>2. KernelHas(a) = 0
    BY <1>1, <1>2, <1>4, CountType DEF Count
  <2>3. object' = [object EXCEPT ![a] = NULL]
    BY <1>4 DEF CommitStep, Commit
  <2> HIDE DEF a
  <2>4. Table!Free(a)
    BY <1>2, <1>3, <2>1, <2>2, <2>3 DEF Table!Free
  <2> QED
    BY <1>2, <2>4 DEF Table!Next
<1>5. CASE pendVal[t] # 0
  BY <1>3, <1>5, TableQuiet DEF CommitStep, Commit
<1> QED
  BY <1>4, <1>5

\* A reply hands out node ids that are bound.
LEMMA TableReply ==
  ASSUME SerialInv, NEW t \in Threads, Reply(t)
  PROVE  [Table!Next]_(Table!vars)
<1>1. TypeOK /\ NoDanglingInode
  BY CountMeansCached DEF SerialInv, TypeInv
<1>2. object' = object /\ forgets' = forgets
  BY DEF Reply, cacheVars
<1>3. CASE UNCHANGED <<nlookup, lost>>
  BY <1>2, <1>3, TableQuiet DEF KernelHas
<1>4. CASE /\ nlookup' = [a \in Addrs |-> nlookup[a] + Cardinality(HandedOver(t, a) \ dot)]
           /\ lost' = [a \in Addrs |-> lost[a] + Cardinality(HandedOver(t, a) \cap dot)]
  <2>1. ASSUME NEW a \in Addrs
        PROVE  /\ KernelHas(a)' \in Nat
               /\ KernelHas(a)' >= KernelHas(a)
               /\ KernelHas(a)' > KernelHas(a) => object[a] # NULL
    <3> DEFINE P == HandedOver(t, a) \ dot
               Q == HandedOver(t, a) \cap dot
    <3>1. Cardinality(P) \in Nat /\ Cardinality(Q) \in Nat
      BY SlotSubset DEF HandedOver
    <3>2. nlookup'[a] = nlookup[a] + Cardinality(P) /\ lost'[a] = lost[a] + Cardinality(Q)
      BY <1>4
    <3>3. P = {} /\ Q = {} => Cardinality(P) = 0 /\ Cardinality(Q) = 0
      BY FS_EmptySet
    <3>4. P # {} \/ Q # {} => object[a] # NULL
      BY <1>1 DEF HandedOver, NoDanglingInode, Cached
    <3> HIDE DEF P, Q
    <3>5. nlookup[a] \in Nat /\ lost[a] \in Nat /\ forgets[a] \in Nat
      BY <1>1, CountType
    <3> QED
      BY <1>2, <3>1, <3>2, <3>3, <3>4, <3>5 DEF KernelHas
  <2>2. Table!Grant
    BY <1>2, <2>1 DEF Table!Grant
  <2> QED
    BY <2>2 DEF Table!Next
<1> QED
  BY <1>3, <1>4 DEF Reply

\* A FORGET gives back a node id that was out.
LEMMA TableForget ==
  ASSUME SerialInv, NEW t \in Threads, Exclusive(t), NEW a \in Addrs,
         NEW n \in 1..forgets[a], Forget(t, a, n) \/ ForgetNext(t, a, n)
  PROVE  [Table!Next]_(Table!vars)
<1>1. TypeOK
  BY DEF SerialInv, TypeInv
<1>2. /\ forgets' = [forgets EXCEPT ![a] = forgets[a] - n]
      /\ UNCHANGED <<nlookup, lost, object>>
  BY ForgetEffect DEF SerialInv
<1>3. /\ forgets \in [Addrs -> Nat] /\ forgets[a] \in Nat /\ n \in Nat /\ 0 < n /\ n <= forgets[a]
      /\ nlookup[a] \in Nat /\ lost[a] \in Nat
  BY <1>1 DEF TypeOK
<1>4. KernelHas(a) > 0 /\ KernelHas(a)' < KernelHas(a)
  BY <1>2, <1>3 DEF KernelHas
<1>5. \A b \in Addrs \ {a} : KernelHas(b)' = KernelHas(b)
  BY <1>2, <1>3 DEF KernelHas
<1>6. Table!Return(a)
  BY <1>2, <1>4, <1>5 DEF Table!Return
<1> QED
  BY <1>6 DEF Table!Next

LEMMA TableStep ==
  ASSUME SerialInv, [SerialNext]_vars
  PROVE  [Table!Next]_(Table!vars)
<1>1. ASSUME NEW t \in Threads, ThreadStep(t), Exclusive(t)
      PROVE  [Table!Next]_(Table!vars)
  <2>quiet. ASSUME UNCHANGED object, UNCHANGED kernelVars
            PROVE  UNCHANGED Table!vars
    BY <2>quiet, TableQuiet DEF kernelVars, KernelHas
  <2>1. CASE Make(t) \/ FindEntry(t) \/ EntryParam(t) \/ GetGeneration(t) \/ ReadDirNext(t)
    BY <2>1, <2>quiet DEF Make, FindEntry, EntryParam, GetGeneration, ReadDirNext, cacheVars
  <2>2. CASE AddEntry(t) \/ RefEntry(t)
    BY <2>2, <2>quiet, UnrefKeeps DEF AddEntry, RefEntry, DropPtr, Ref, cacheVars
  <2>3. CASE RemoveName(t) \/ UseInode(t) \/ Notify(t) \/ Finish(t)
    BY <2>3, <2>quiet DEF RemoveName, UseInode, Notify, Finish, cacheVars
  <2>4. CASE ForgetDone(t) \/ ForgetMulti(t)
    BY <2>4, <2>quiet DEF ForgetDone, ForgetMulti, cacheVars
  <2>5. CASE Drop(t)
    BY <2>5, <2>quiet, DropKeeps DEF kernelVars
  <2>6. CASE \E o \in Ops, n \in Nodes, p \in Nodes : Receive(t, o, n, p)
    BY <2>6, <2>quiet DEF Receive, cacheVars
  <2> QED
    BY <1>1, <2>1, <2>2, <2>3, <2>4, <2>5, <2>6, TableInsert, TableCommit, TableReply, TableForget
    DEF ThreadStep, HandlerStep, ForgetStep
<1>2. CASE Environment
  BY <1>2, TableQuiet, NodeEnvironment
  DEF SerialInv, Environment, KernelForget, SourceChange, cacheVars
<1>3. CASE UNCHANGED vars
  BY <1>3, TableQuiet DEF vars, cacheVars, kernelVars, KernelHas
<1> QED
  BY <1>1, <1>2, <1>3 DEF SerialNext

(***************************************************************************)
(* PageAlignFS over InodeCache is a table of node ids as the kernel needs  *)
(* it, whatever fails and however many threads and addresses there are: a  *)
(* node id denotes one file from Insert to the Commit that erases it, is   *)
(* freed only when the kernel has it no more, and no two node ids denote   *)
(* files of one number.                                                    *)
(***************************************************************************)
THEOREM NodeTableIsImplemented == SerialSpec => ImplementsNodeTable
<1>1. Init => Table!Init
  BY DEF Init, CacheInit, Table!Init, KernelHas
<1>2. SerialInv /\ [SerialNext]_vars => [Table!Next]_(Table!vars)
  BY TableStep
<1> QED
  BY <1>1, <1>2, Serialised, PTL DEF SerialSpec, ImplementsNodeTable, Table!Spec
-----------------------------------------------------------------------------
\* With one thread every execution is serialised.
LEMMA OneThreadSpec ==
  ASSUME NEW u, Threads = {u}
  PROVE  Spec => SerialSpec
<1>1. [Next]_vars => [SerialNext]_vars
  BY OneThreadIsSerial
<1> QED
  BY <1>1, PTL DEF Spec, SerialSpec

(***************************************************************************)
(* With one thread (pafs -s) all of this holds of every execution.         *)
(***************************************************************************)
THEOREM SingleThreadedTable ==
  ASSUME NEW u, Threads = {u}
  PROVE  Spec => [](InsertFindsTheFileOpened /\ KernelKnowsGeneration) /\ ImplementsNodeTable
<1>1. Spec => SerialSpec
  BY OneThreadSpec
<1> QED
  BY <1>1, InsertIsRight, GenerationsAreKnown, NodeTableIsImplemented, PTL

\* With one thread the kernel's FORGET of the inode that WriteBuf notifies
\* has to wait for WriteBuf to return.
NotifyInv ==
  \A t \in Threads : pc[t] = "notify" =>
    \A n \in {node[t], parent[t]} : n = ROOT \/ (n \in Addrs /\ KernelHas(n) > 0)

(***************************************************************************)
(* With one thread the inodes a handler was called with are not freed      *)
(* under it, those of WriteBuf included.                                   *)
(***************************************************************************)
THEOREM SingleThreadedOperands ==
  ASSUME NEW u, Threads = {u}
  PROVE  Spec => []OperandLive
<1> DEFINE Inv == SerialInv /\ NotifyInv
<1>1. Init => Inv
  BY TypeInitially, CountInitially, NodeInitially DEF SerialInv, Init, NotifyInv
<1>2. Inv /\ [SerialNext]_vars => Inv'
  <2> SUFFICES ASSUME Inv, [SerialNext]_vars PROVE NotifyInv'
    BY NodeStep
  <2>1. CASE UNCHANGED <<pc, node, parent>> /\ \A a \in Addrs : KernelHas(a)' = KernelHas(a)
    BY <2>1 DEF NotifyInv
  <2>2. CASE Environment
    BY <2>1, <2>2, NodeEnvironment
    DEF SerialInv, Environment, KernelForget, SourceChange, threadVars
  <2>3. CASE UNCHANGED vars
    BY <2>1, <2>3 DEF vars, cacheVars, threadVars, kernelVars, KernelHas
  <2>4. CASE CommitStep(u)
    BY <2>1, <2>4 DEF CommitStep, threadVars, kernelVars, KernelHas
  <2>5. CASE Reply(u)
    <3>1. TypeInv /\ TypeOK /\ TypeOK' /\ PinInv
      BY NodeStep DEF SerialInv, NodeInv, TypeInv
    <3>2. Known(node[u]) /\ Known(parent[u])
      BY <2>5, <3>1 DEF Reply, At, PinInv
    <3>3. Known(node[u])' /\ Known(parent[u])'
      BY <2>5, <3>1, <3>2, LookupsStay DEF Reply, Known, ThreadStep, HandlerStep
    <3>4. \A a \in Addrs : nlookup'[a] > 0 => KernelHas(a)' > 0
      BY <3>1 DEF TypeOK, KernelHas
    <3> QED
      BY <3>3, <3>4 DEF NotifyInv, Known
  <2>6. CASE ThreadStep(u) /\ ~Reply(u) /\ ~CommitStep(u)
    <3>1. pc'[u] # "notify"
      <4> USE DEF SerialInv, TypeInv, TypeOK, At, Goto, Fail
      <4>1. CASE Make(u) \/ FindEntry(u) \/ InsertEntry(u) \/ EntryParam(u) \/ GetGeneration(u)
        BY <4>1 DEF Make, FindEntry, InsertEntry, EntryParam, GetGeneration, AfterParam
      <4>2. CASE AddEntry(u) \/ RefEntry(u) \/ ReadDirNext(u) \/ RemoveName(u) \/ UseInode(u)
        BY <4>2 DEF AddEntry, RefEntry, ReadDirNext, RemoveName, UseInode, NextEntry
      <4>3. CASE Notify(u) \/ Finish(u) \/ ForgetDone(u) \/ ForgetMulti(u)
        BY <4>3 DEF Notify, Finish, ForgetDone, ForgetMulti
      <4>4. CASE Drop(u)
        BY <4>4, DropKeeps DEF Drop
      <4>5. CASE \E a \in Addrs : \E n \in 1..forgets[a] : ForgetNext(u, a, n) \/ Forget(u, a, n)
        BY <4>5 DEF ForgetNext, Forget, threadVars
      <4>6. CASE \E o \in Ops, n \in Nodes, p \in Nodes : Receive(u, o, n, p)
        BY <4>6 DEF Receive, FirstPc
      <4> QED
        BY <2>6, <4>1, <4>2, <4>3, <4>4, <4>5, <4>6 DEF ThreadStep, HandlerStep, ForgetStep
    <3> QED
      BY <3>1 DEF NotifyInv
  <2> QED
    BY <2>2, <2>3, <2>4, <2>5, <2>6 DEF SerialNext
<1>3. Inv => OperandLive
  <2> SUFFICES ASSUME Inv, NEW t \in Threads,
                      pc[t] \in {"make", "find", "entry", "readdir", "names", "use", "notify"},
                      NEW n \in {node[t], parent[t]}
               PROVE  n = ROOT \/ Cached(n)
    BY DEF OperandLive
  <2>1. NoDanglingInode
    BY CountMeansCached DEF SerialInv, TypeInv
  <2>2. CASE pc[t] = "notify"
    BY <2>1, <2>2 DEF NotifyInv, NoDanglingInode
  <2> QED
    BY <2>2, PinnedIsCached
<1>4. Spec => SerialSpec
  BY OneThreadSpec
<1> QED
  BY <1>1, <1>2, <1>3, <1>4, PTL DEF SerialSpec
-----------------------------------------------------------------------------
\* How far a handler is from the destruction of its locals.
Distance(p) ==
  IF p \in {"make", "readdir"} THEN 10
  ELSE IF p = "find" THEN 9
  ELSE IF p = "insert" THEN 8
  ELSE IF p = "entry" THEN 7
  ELSE IF p = "gen" THEN 6
  ELSE IF p = "add" THEN 5
  ELSE IF p = "ref" THEN 4
  ELSE IF p \in {"names", "use"} THEN 3
  ELSE IF p = "reply" THEN 2
  ELSE IF p = "notify" THEN 1
  ELSE 0

\* The references among them.
OwnPtrs(t) == {i \in Idx : sharedPtr[<<t, i>>] # NULL}
OwnRefs(t) == {i \in Idx : kernelRef[<<t, i>>] # NULL}
Locals(t) == Cardinality(OwnPtrs(t)) + Cardinality(OwnRefs(t))

(***************************************************************************)
(* A step of the handler of a request ends it, goes on to the next         *)
(* directory entry, comes nearer to the end, destroys a local, or stores a *)
(* count; other threads, the kernel and other programs undo none of this.  *)
(***************************************************************************)
HandlerAdvances(t) ==
  pc[t] \notin {"idle", "forgets"} =>
    /\ HandlerStep(t) =>
         \/ pc'[t] = "idle"
         \/ idx'[t] > idx[t]
         \/ idx'[t] = idx[t] /\ Distance(pc'[t]) < Distance(pc[t])
         \/ /\ idx'[t] = idx[t]
            /\ pc'[t] = pc[t]
            /\ \/ Locals(t)' < Locals(t)
               \/ Locals(t)' = Locals(t) /\ pendAddr[t] # NULL /\ pendAddr'[t] = NULL
    /\ ~HandlerStep(t) =>
         /\ pc'[t] = pc[t] /\ idx'[t] = idx[t]
         /\ Locals(t)' = Locals(t) /\ pendAddr'[t] = pendAddr[t]

LEMMA OwnFinite ==
  ASSUME NEW t
  PROVE  /\ IsFiniteSet(OwnPtrs(t)) /\ IsFiniteSet(OwnRefs(t))
         /\ Cardinality(OwnPtrs(t)) \in Nat /\ Cardinality(OwnRefs(t)) \in Nat
         /\ Locals(t) \in Nat
<1>1. IsFiniteSet(Idx)
  BY FS_Interval DEF Idx
<1>2. OwnPtrs(t) \subseteq Idx /\ OwnRefs(t) \subseteq Idx
  BY DEF OwnPtrs, OwnRefs
<1>3. IsFiniteSet(OwnPtrs(t)) /\ IsFiniteSet(OwnRefs(t))
  BY <1>1, <1>2, FS_Subset
<1>4. Cardinality(OwnPtrs(t)) \in Nat /\ Cardinality(OwnRefs(t)) \in Nat
  BY <1>3, FS_CardinalityType
<1> QED
  BY <1>3, <1>4 DEF Locals

\* A destructor leaves one local fewer.
LEMMA OneLocalFewer ==
  ASSUME NEW t, NEW i \in Idx,
         \/ i \in OwnPtrs(t) /\ OwnPtrs(t)' = OwnPtrs(t) \ {i} /\ OwnRefs(t)' = OwnRefs(t)
         \/ i \in OwnRefs(t) /\ OwnRefs(t)' = OwnRefs(t) \ {i} /\ OwnPtrs(t)' = OwnPtrs(t)
  PROVE  Locals(t)' < Locals(t)
<1> DEFINE P == Cardinality(OwnPtrs(t))
           R == Cardinality(OwnRefs(t))
<1>1. P \in Nat /\ R \in Nat
  BY OwnFinite
<1>2. Locals(t) = P + R /\ Locals(t)' = Cardinality(OwnPtrs(t)') + Cardinality(OwnRefs(t)')
  BY DEF Locals
<1>3. CASE i \in OwnPtrs(t) /\ OwnPtrs(t)' = OwnPtrs(t) \ {i} /\ OwnRefs(t)' = OwnRefs(t)
  <2>0. Cardinality(OwnPtrs(t) \ {i}) = P - 1
    BY <1>3, OwnFinite, FS_RemoveElement
  <2>1. Cardinality(OwnPtrs(t)') = P - 1
    BY <1>3, <2>0
  <2>2. Locals(t)' = (P - 1) + R
    BY <2>1, <1>2, <1>3
  <2> HIDE DEF P, R
  <2> QED
    BY <2>2, <1>1, <1>2
<1>4. CASE i \in OwnRefs(t) /\ OwnRefs(t)' = OwnRefs(t) \ {i} /\ OwnPtrs(t)' = OwnPtrs(t)
  <2>0. Cardinality(OwnRefs(t) \ {i}) = R - 1
    BY <1>4, OwnFinite, FS_RemoveElement
  <2>1. Cardinality(OwnRefs(t)') = R - 1
    BY <1>4, <2>0
  <2>2. Locals(t)' = P + (R - 1)
    BY <2>1, <1>2, <1>4
  <2> HIDE DEF P, R
  <2> QED
    BY <2>2, <1>1, <1>2
<1> QED
  BY <1>3, <1>4

\* Every destructor of Drop takes its reference away.
LEMMA DropAdvances ==
  ASSUME TypeInv, NEW t \in Threads, Drop(t)
  PROVE  Locals(t)' < Locals(t)
<1> USE DEF TypeInv, TypeOK, Slots
<1>0. idx[t] \in Idx
  OBVIOUS
<1>1. ASSUME NEW i \in Idx, sharedPtr[<<t, i>>] # NULL, DropPtr(t, <<t, i>>), UNCHANGED kernelRef
      PROVE  Locals(t)' < Locals(t)
  <2>1. i \in OwnPtrs(t) /\ OwnPtrs(t)' = OwnPtrs(t) \ {i} /\ OwnRefs(t)' = OwnRefs(t)
    BY <1>1 DEF OwnPtrs, OwnRefs, DropPtr
  <2> QED
    BY <2>1, OneLocalFewer
<1>2. CASE DropLocal(t)
  BY <1>0, <1>1, <1>2 DEF DropLocal, Local, Here
<1>3. CASE DropSharedPtr(t)
  BY <1>1, <1>3 DEF DropSharedPtr
<1>4. CASE DropKernelRef(t)
  <2>1. PICK i \in Idx : /\ kernelRef[<<t, i>>] # NULL
                         /\ kernelRef' = [kernelRef EXCEPT ![<<t, i>>] = NULL]
                         /\ UNCHANGED sharedPtr
    BY <1>4 DEF DropKernelRef
  <2>2. i \in OwnRefs(t) /\ OwnRefs(t)' = OwnRefs(t) \ {i} /\ OwnPtrs(t)' = OwnPtrs(t)
    BY <2>1 DEF OwnPtrs, OwnRefs
  <2> QED
    BY <2>2, OneLocalFewer
<1> QED
  BY <1>2, <1>3, <1>4 DEF Drop

\* The steps of a handler that move its pc.
LEMMA MovesOn ==
  ASSUME TypeInv, NEW t \in Threads, pc[t] \notin {"idle", "forgets"}, HandlerStep(t)
  PROVE  \/ pc'[t] = "idle"
         \/ idx'[t] > idx[t]
         \/ idx'[t] = idx[t] /\ Distance(pc'[t]) < Distance(pc[t])
         \/ Drop(t)
         \/ CommitStep(t)
<1> USE DEF TypeInv, TypeOK, At, Goto, Fail
<1>1. CASE Make(t) \/ FindEntry(t)
  BY <1>1 DEF Make, FindEntry, Distance
<1>2. CASE InsertEntry(t)
  BY <1>2 DEF InsertEntry, Distance
<1>3. CASE EntryParam(t) \/ GetGeneration(t)
  BY <1>3 DEF EntryParam, GetGeneration, AfterParam, Distance
<1>4. CASE AddEntry(t)
  BY <1>4 DEF AddEntry, NextEntry, Distance, Idx
<1>5. CASE RefEntry(t)
  BY <1>5 DEF RefEntry, NextEntry, Distance, Idx
<1>6. CASE ReadDirNext(t) \/ RemoveName(t) \/ UseInode(t) \/ Notify(t)
  BY <1>6 DEF ReadDirNext, RemoveName, UseInode, Notify, Distance
<1>7. CASE Reply(t)
  BY <1>7 DEF Reply, Distance
<1>8. CASE Finish(t)
  BY <1>8 DEF Finish
<1>9. CASE ForgetDone(t) \/ \E a \in Addrs : \E n \in 1..forgets[a] : ForgetNext(t, a, n)
  BY <1>9 DEF ForgetDone, ForgetNext
<1> QED
  BY <1>1, <1>2, <1>3, <1>4, <1>5, <1>6, <1>7, <1>8, <1>9 DEF HandlerStep

LEMMA OwnHandlerAdvances ==
  ASSUME TypeInv, NEW t \in Threads, pc[t] \notin {"idle", "forgets"}, HandlerStep(t)
  PROVE  \/ pc'[t] = "idle"
         \/ idx'[t] > idx[t]
         \/ idx'[t] = idx[t] /\ Distance(pc'[t]) < Distance(pc[t])
         \/ /\ idx'[t] = idx[t]
            /\ pc'[t] = pc[t]
            /\ \/ Locals(t)' < Locals(t)
               \/ Locals(t)' = Locals(t) /\ pendAddr[t] # NULL /\ pendAddr'[t] = NULL
<1>1. CASE Drop(t)
  BY <1>1, DropAdvances, DropKeeps
<1>2. CASE CommitStep(t)
  <2>1. pc' = pc /\ idx' = idx /\ sharedPtr' = sharedPtr /\ kernelRef' = kernelRef
    BY <1>2 DEF CommitStep, threadVars, slotVars
  <2>2. Locals(t)' = Locals(t)
    BY <2>1 DEF Locals, OwnPtrs, OwnRefs
  <2>3. pendAddr[t] # NULL /\ pendAddr'[t] = NULL
    BY <1>2 DEF CommitStep, Commit, TypeInv, TypeOK, CacheTypeOK
  <2> QED
    BY <2>1, <2>2, <2>3
<1> QED
  BY <1>1, <1>2, MovesOn

\* What a thread is about to store is its own.
LEMMA StoresAlone ==
  ASSUME TypeInv, NEW t \in Threads, ThreadStep(t), NEW u \in Threads \ {t}
  PROVE  pendAddr'[u] = pendAddr[u]
<1> USE DEF TypeInv, TypeOK, CacheTypeOK
<1>0. ASSUME NEW a, NEW n, Unref(t, a, n) PROVE pendAddr'[u] = pendAddr[u]
  BY <1>0 DEF Unref, Store, cacheVars
<1>1. CASE Make(t) \/ FindEntry(t) \/ EntryParam(t) \/ GetGeneration(t) \/ ReadDirNext(t)
  BY <1>1 DEF Make, FindEntry, EntryParam, GetGeneration, ReadDirNext, cacheVars
<1>2. CASE InsertEntry(t)
  BY <1>2 DEF InsertEntry, Insert, Store
<1>3. CASE AddEntry(t)
  BY <1>3, <1>0 DEF AddEntry, DropPtr, cacheVars
<1>4. CASE RefEntry(t)
  BY <1>4 DEF RefEntry, Ref, Store, cacheVars
<1>5. CASE RemoveName(t) \/ UseInode(t) \/ Reply(t) \/ Notify(t) \/ Finish(t) \/ ForgetDone(t)
           \/ ForgetMulti(t)
  BY <1>5 DEF RemoveName, UseInode, Reply, Notify, Finish, ForgetDone, ForgetMulti, cacheVars
<1>6. CASE Drop(t)
  BY <1>6, <1>0 DEF Drop, DropLocal, DropKernelRef, DropSharedPtr, DropPtr
<1>7. CASE CommitStep(t)
  BY <1>7 DEF CommitStep, Commit
<1>8. CASE \E a \in Addrs : \E n \in 1..forgets[a] : ForgetNext(t, a, n) \/ Forget(t, a, n)
  BY <1>8, <1>0 DEF ForgetNext, Forget
<1>9. CASE \E o \in Ops, n \in Nodes, p \in Nodes : Receive(t, o, n, p)
  BY <1>9 DEF Receive, cacheVars
<1> QED
  BY <1>1, <1>2, <1>3, <1>4, <1>5, <1>6, <1>7, <1>8, <1>9 DEF ThreadStep, HandlerStep, ForgetStep

LEMMA OthersLeaveHandler ==
  ASSUME TypeInv, [Next]_vars, NEW t \in Threads, pc[t] \notin {"idle", "forgets"},
         ~HandlerStep(t)
  PROVE  /\ pc'[t] = pc[t] /\ idx'[t] = idx[t]
         /\ Locals(t)' = Locals(t) /\ pendAddr'[t] = pendAddr[t]
<1>1. /\ pc'[t] = pc[t] /\ idx'[t] = idx[t] /\ pendAddr'[t] = pendAddr[t]
      /\ \A i \in Idx : /\ sharedPtr'[<<t, i>>] = sharedPtr[<<t, i>>]
                        /\ kernelRef'[<<t, i>>] = kernelRef[<<t, i>>]
  <2>1. CASE Environment \/ UNCHANGED vars
    BY <2>1 DEF Environment, KernelForget, SourceChange, vars, cacheVars, threadVars, slotVars
  <2>2. ~ThreadStep(t)
    BY DEF ThreadStep, Receive, ForgetStep, Forget, ForgetMulti, At
  <2>3. CASE \E u \in Threads : ThreadStep(u)
    <3>1. PICK u \in Threads : ThreadStep(u)
      BY <2>3
    <3>2. t \in Threads \ {u}
      BY <2>2, <3>1
    <3> QED
      BY <3>1, <3>2, OthersAlone, StoresAlone
  <2> QED
    BY <2>1, <2>3 DEF Next
<1>2. OwnPtrs(t)' = OwnPtrs(t) /\ OwnRefs(t)' = OwnRefs(t)
  BY <1>1 DEF OwnPtrs, OwnRefs
<1> QED
  BY <1>1, <1>2 DEF Locals

(***************************************************************************)
(* The safety half of "every handler returns", in racing executions too:   *)
(* in the lexicographic order of the entry, the place in the handler, the  *)
(* locals to destroy and the store to make, every step of a handler goes   *)
(* down, and nothing that others do brings it up again.  So ReadDirInternal*)
(* does not go round for ever and every early return gets rid of what the  *)
(* handler holds in finitely many steps: what can hold a handler up is     *)
(* only a step that is not taken, as the open of a FIFO.                   *)
(***************************************************************************)
THEOREM HandlersAdvance ==
  Spec => /\ [](\A t \in Threads : idx[t] \in 1..(MaxEntries + 1) /\ Locals(t) \in Nat)
          /\ [][\A t \in Threads : HandlerAdvances(t)]_vars
<1>1. TypeInv /\ [Next]_vars => TypeInv'
  BY TypeStep, TypeStutter
<1>2. TypeInv => \A t \in Threads : idx[t] \in 1..(MaxEntries + 1) /\ Locals(t) \in Nat
  BY OwnFinite DEF TypeInv, TypeOK, Idx
<1>3. TypeInv /\ [Next]_vars => \A t \in Threads : HandlerAdvances(t)
  BY OwnHandlerAdvances, OthersLeaveHandler DEF HandlerAdvances
<1> QED
  BY <1>1, <1>2, <1>3, TypeInitially, PTL DEF Spec
=============================================================================
