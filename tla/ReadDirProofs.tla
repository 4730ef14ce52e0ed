--------------------------- MODULE ReadDirProofs ---------------------------
(***************************************************************************)
(* What a listing has seen: proofs about ReadDir.tla, for directories and  *)
(* buffers of any size, any read-ahead and any number of changes by others.*)
(***************************************************************************)
EXTENDS ReadDir, FiniteSetTheorems, TLAPS

\* Entries that the request has read and not yet replied with.
InHand(e) ==
  \/ e \in ahead
  \/ e = entry /\ entry # NULL
  \/ \E i \in 1..Len(buf_) : buf_[i] = e

\* Offsets up to which a request has packed entries.
Packed(p) == p <= kOff \/ \E i \in 1..Len(buf_) : p <= buf_[i].off

\* Where the handler is and what it has.
PlaceInv ==
  /\ OneSlotEach
  /\ pc # "idle" => listing = "reading"
  /\ entry # NULL <=> pc \in {"find", "add"}
  /\ pc = "idle" => buf_ = <<>>
  /\ buf_ = <<>> => used = 0

\* What is in hand is in the directory, but for names that were removed.
TrueInv ==
  pc # "idle" => \A e \in Dirent : InHand(e) /\ e.name \notin removed => slot[e.off] = e.name

\* Entries come in the order of their offsets.
OrderInv ==
  pc # "idle" =>
    /\ kOff <= dirPos
    /\ \A i \in 1..Len(buf_) : kOff < buf_[i].off /\ buf_[i].off <= dirPos
    /\ \A i, j \in 1..Len(buf_) : i < j => buf_[i].off < buf_[j].off
    /\ entry # NULL => ~Packed(entry.off) /\ entry.off <= dirPos
    /\ \A e \in ahead : ~Packed(e.off) /\ e.off <= dirPos /\ (entry # NULL => entry.off < e.off)
    /\ \A e, d \in ahead : e.off = d.off => e = d

\* Nothing that was there all the time is passed over.
CompleteInv ==
  /\ pc \in {"read", "find", "add"} =>
       \A p \in 1..Positions : slot[p] \in stable /\ kOff < p /\ p <= dirPos =>
         InHand([name |-> slot[p], off |-> p])
  /\ pc = "reply" =>
       \A p \in 1..Positions : slot[p] \in stable /\ kOff < p =>
         /\ buf_ # <<>>
         /\ Packed(p) => \E i \in 1..Len(buf_) : buf_[i] = [name |-> slot[p], off |-> p]

\* The names seen are those up to the offset that the kernel asks from.
SeenInv ==
  /\ stable \subseteq Present
  /\ stable \cap removed = {}
  /\ \A n \in Names \ removed : seen[n] <= 1 /\ (seen[n] = 1 => \E p \in 1..kOff : slot[p] = n)
  /\ \A p \in 1..Positions : slot[p] \in stable /\ p <= kOff => seen[slot[p]] = 1
  /\ listing = "ended" => \A p \in 1..Positions : slot[p] \in stable => p <= kOff

ListInv ==
  /\ TypeOK
  /\ PlaceInv
  /\ TrueInv
  /\ OrderInv
  /\ CompleteInv
  /\ SeenInv
-----------------------------------------------------------------------------
\* A set of numbers that is not empty has a least one.
LEMMA LeastNumber ==
  ASSUME NEW N \in Nat, NEW S \in SUBSET (0..N), S # {}
  PROVE  \E n \in S : \A m \in S : n <= m
<1> DEFINE Below(x) == {y \in S : y < x}
           Belows == {Below(x) : x \in S}
<1>1. IsFiniteSet(S)
  <2>1. IsFiniteSet(0..N)
    BY FS_Interval
  <2> QED
    BY <2>1, FS_Subset
<1>2. Belows \subseteq FiniteSubsetsOf(S)
  BY <1>1, FS_Subset DEF FiniteSubsetsOf
<1>0. Belows # {}
  OBVIOUS
<1> HIDE DEF Belows
<1>3. PICK b \in Belows : \A c \in Belows : <<c, b>> \notin StrictSubsetOrdering(S)
  BY <1>2, <1>0, FS_StrictSubsetOrderingWellFounded, WFMin
<1>4. PICK x \in S : b = Below(x)
  BY DEF Belows
<1>5. ASSUME NEW m \in S, m < x
      PROVE  FALSE
  <2>1. Below(m) \in Belows
    BY DEF Belows
  <2>2. m \in Below(x) /\ m \notin Below(m)
    BY <1>5
  <2>3. \A y \in Below(m) : y \in Below(x)
    BY <1>5
  <2>4. <<Below(m), Below(x)>> \in StrictSubsetOrdering(S)
    BY <2>2, <2>3 DEF StrictSubsetOrdering
  <2> QED
    BY <1>3, <1>4, <2>1, <2>4
<1> QED
  BY <1>5

LEMMA GreatestNumber ==
  ASSUME NEW N \in Nat, NEW S \in SUBSET (0..N), S # {}
  PROVE  \E n \in S : \A m \in S : m <= n
<1> DEFINE T == {k \in 0..N : N - k \in S}
<1>1. \A m \in S : N - m \in T
  OBVIOUS
<1>2. T # {}
  BY <1>1
<1> HIDE DEF T
<1>3. PICK k \in T : \A l \in T : k <= l
  BY <1>2, LeastNumber DEF T
<1>4. N - k \in S /\ k \in 0..N
  BY DEF T
<1>5. \A m \in S : m <= N - k
  BY <1>1, <1>3, <1>4
<1> QED
  BY <1>4, <1>5

LEMMA DirentFields == \A e \in Dirent : e.name \in Names /\ e.off \in 1..Positions
  BY DEF Dirent

LEMMA MadeDirent ==
  ASSUME NEW n \in Names, NEW p \in 1..Positions
  PROVE  LET e == [name |-> n, off |-> p] IN e \in Dirent /\ e.name = n /\ e.off = p
  BY DEF Dirent

\* The entry that is handed out next.
LEMMA FirstIsLowest ==
  ASSUME NEW S \in SUBSET Dirent, S # {}
  PROVE  First(S) \in S /\ \A d \in S : First(S).off <= d.off
<1> DEFINE O == {e.off : e \in S}
<1>1. O \in SUBSET (0..Positions) /\ O # {}
  BY DirentFields, ReadDirAssumption
<1>2. PICK n \in O : \A m \in O : n <= m
  BY <1>1, LeastNumber, ReadDirAssumption
<1>3. \E e \in S : \A d \in S : e.off <= d.off
  BY <1>2
<1> QED
  BY <1>3 DEF First

\* The offset that the C library has then read up to.
LEMMA LastIsHighest ==
  ASSUME NEW S \in SUBSET Dirent, S # {}
  PROVE  LET m == Max({e.off : e \in S})
         IN  m \in 1..Positions /\ (\A e \in S : e.off <= m) /\ \E e \in S : e.off = m
<1> DEFINE O == {e.off : e \in S}
<1>1. O \in SUBSET (0..Positions) /\ O # {}
  BY DirentFields, ReadDirAssumption
<1>2. \E n \in O : \A m \in O : n >= m
  <2>1. PICK n \in O : \A m \in O : m <= n
    BY <1>1, GreatestNumber, ReadDirAssumption
  <2> QED
    BY <1>1, <2>1, ReadDirAssumption
<1>3. Max(O) \in O /\ \A m \in O : Max(O) >= m
  BY <1>2 DEF Max
<1>4. \A e \in S : e.off \in O /\ e.off \in 1..Positions
  BY DirentFields
<1>5. \E e \in S : e.off = Max(O)
  BY <1>3
<1>6. Max(O) \in 1..Positions
  BY <1>4, <1>5
<1> HIDE DEF O
<1>7. \A e \in S : e.off <= Max(O)
  BY <1>3, <1>4, <1>6, ReadDirAssumption
<1> QED
  BY <1>5, <1>6, <1>7 DEF O

\* A batch is what is behind dirPos, up to some offset.
LEMMA GetdentsIsNext ==
  ASSUME TypeOK
  PROVE  /\ Getdents \subseteq Dirent
         /\ \A e \in Getdents : e.off > dirPos /\ slot[e.off] = e.name
         /\ \A e, d \in Getdents : e.off = d.off => e = d
         /\ Getdents = {} => Behind = {}
         /\ \A e \in Getdents : \A p \in Behind :
              p <= e.off => [name |-> slot[p], off |-> p] \in Getdents
<1> DEFINE Near == {q \in Behind : Cardinality({b \in Behind : b < q}) < Batch}
           D(p) == [name |-> slot[p], off |-> p]
<1>1. \A p \in Behind : p \in 1..Positions /\ p > dirPos /\ slot[p] \in Names
  BY DEF Behind, TypeOK
<1>2. \A p \in Behind : D(p) \in Dirent /\ D(p).name = slot[p] /\ D(p).off = p
  BY <1>1, MadeDirent
<1>3. Near \subseteq Behind /\ Getdents = {D(p) : p \in Near}
  BY DEF Getdents
<1>4. IsFiniteSet(Behind)
  <2>1. IsFiniteSet(1..Positions)
    BY FS_Interval, ReadDirAssumption
  <2>2. Behind \subseteq 1..Positions
    BY DEF Behind
  <2> QED
    BY <2>1, <2>2, FS_Subset
<1> HIDE DEF D
<1>5. Behind # {} => Near # {}
  <2> SUFFICES ASSUME Behind # {} PROVE Near # {}
    OBVIOUS
  <2>1. Behind \in SUBSET (0..Positions)
    BY <1>1
  <2>2. PICK n \in Behind : \A m \in Behind : n <= m
    BY <2>1, LeastNumber, ReadDirAssumption
  <2>3. {b \in Behind : b < n} = {}
    BY <1>1, <2>2
  <2>4. Cardinality({b \in Behind : b < n}) < Batch
    BY <2>3, FS_EmptySet, ReadDirAssumption
  <2> QED
    BY <2>2, <2>4
<1>6. ASSUME NEW q \in Near, NEW p \in Behind, p <= q PROVE p \in Near
  <2>1. {b \in Behind : b < p} \subseteq {b \in Behind : b < q}
    BY <1>1, <1>3, <1>6
  <2>2. IsFiniteSet({b \in Behind : b < q})
    BY <1>4, FS_Subset
  <2>3. /\ Cardinality({b \in Behind : b < p}) \in Nat
        /\ Cardinality({b \in Behind : b < q}) \in Nat
        /\ Cardinality({b \in Behind : b < p}) <= Cardinality({b \in Behind : b < q})
    BY <2>1, <2>2, FS_Subset, FS_CardinalityType
  <2>4. Cardinality({b \in Behind : b < q}) < Batch
    OBVIOUS
  <2> QED
    BY <2>3, <2>4, ReadDirAssumption
<1> HIDE DEF Near
<1>7. \A e \in Getdents : \A p \in Behind : p <= e.off => D(p) \in Getdents
  BY <1>2, <1>3, <1>6
<1>8. Getdents \subseteq Dirent
      /\ \A e \in Getdents : e.off > dirPos /\ slot[e.off] = e.name
  BY <1>1, <1>2, <1>3
<1>9. \A e, d \in Getdents : e.off = d.off => e = d
  BY <1>2, <1>3
<1>10. Getdents = {} => Behind = {}
  BY <1>3, <1>5
<1> QED
  BY <1>7, <1>8, <1>9, <1>10 DEF D
-----------------------------------------------------------------------------
LEMMA BufferTypes ==
  ASSUME TypeOK
  PROVE  /\ Len(buf_) \in Nat
         /\ \A i \in 1..Len(buf_) :
              buf_[i] \in Dirent /\ buf_[i].name \in Names /\ buf_[i].off \in 1..Positions
         /\ buf_ = <<>> <=> Len(buf_) = 0
  BY DirentFields DEF TypeOK

LEMMA NullIsNoDirent == NULL \notin Dirent
  BY ReadDirAssumption

LEMMA PresentNames == TypeOK => Present \subseteq Names
  BY DEF TypeOK, Present

\* An offset whose entry was there all the time holds an entry.
LEMMA StableSlots ==
  ASSUME TypeOK, NEW p \in 1..Positions, slot[p] \in stable
  PROVE  slot[p] \in Names /\ slot[p] # NULL
  BY ReadDirAssumption DEF TypeOK

LEMMA ListInitially == Init => ListInv
<1> SUFFICES ASSUME Init PROVE ListInv
  OBVIOUS
<1> USE DEF Init
<1>1. TypeOK
  <2>1. changes \in 0..MaxChanges /\ kOff \in 0..Positions /\ dirPos \in 0..Positions
        /\ used \in 0..BufSize /\ seen \in [Names -> 0..2]
    BY ReadDirAssumption
  <2>2. buf_ \in Seq(Dirent) /\ ahead \subseteq Dirent /\ entry \in Dirent \cup {NULL}
    OBVIOUS
  <2> QED
    BY <2>1, <2>2 DEF TypeOK
<1>2. PlaceInv /\ TrueInv /\ OrderInv /\ CompleteInv
  BY DEF PlaceInv, TrueInv, OrderInv, CompleteInv
<1>3. SeenInv
  BY ReadDirAssumption DEF SeenInv
<1> QED
  BY <1>1, <1>2, <1>3 DEF ListInv

LEMMA StartListingKeeps == ListInv /\ StartListing => ListInv'
<1> SUFFICES ASSUME ListInv, StartListing PROVE ListInv'
  OBVIOUS
<1> USE DEF ListInv
<1>1. TypeOK'
  BY PresentNames, ReadDirAssumption DEF TypeOK, StartListing, dirVars
<1>2. PlaceInv' /\ TrueInv' /\ OrderInv' /\ CompleteInv'
  BY DEF PlaceInv, TrueInv, OrderInv, CompleteInv, StartListing, dirVars, OneSlotEach
<1>3. SeenInv'
  <2>1. Present' = Present
    BY DEF Present, StartListing, dirVars
  <2>2. stable' = Present /\ removed' = {} /\ kOff' = 0 /\ listing' = "reading"
        /\ \A n \in Names : seen'[n] = 0
    BY DEF StartListing
  <2> QED
    BY <2>1, <2>2 DEF SeenInv
<1> QED
  BY <1>1, <1>2, <1>3

LEMMA ReceiveKeeps ==
  ASSUME ListInv, NEW p \in BOOLEAN, Receive(p)
  PROVE  ListInv'
<1> USE DEF ListInv
<1>1. TypeOK'
  BY ReadDirAssumption DEF TypeOK, Receive, dirVars, kernelVars
<1>2. entry' = NULL /\ buf_' = <<>> /\ ahead' = {} /\ pc' = "read" /\ dirPos' = kOff /\ kOff' = kOff
      /\ kOff \in Nat
  BY DEF PlaceInv, Receive, kernelVars, TypeOK
<1>3. PlaceInv'
  BY <1>2 DEF PlaceInv, Receive, kernelVars, dirVars, OneSlotEach
<1>4. TrueInv' /\ OrderInv'
  BY <1>2 DEF TrueInv, OrderInv, InHand
<1>5. CompleteInv'
  BY <1>2 DEF CompleteInv
<1>6. SeenInv'
  BY DEF SeenInv, Present, Receive, kernelVars, dirVars
<1> QED
  BY <1>1, <1>3, <1>4, <1>5, <1>6

LEMMA FailKeeps ==
  ASSUME ListInv, Fail
  PROVE  ListInv'
<1> USE DEF ListInv
<1>1. TypeOK'
  BY ReadDirAssumption DEF TypeOK, Fail, dirVars
<1>2. PlaceInv' /\ TrueInv' /\ OrderInv' /\ CompleteInv'
  BY DEF PlaceInv, TrueInv, OrderInv, CompleteInv, Fail, dirVars, OneSlotEach
<1>3. SeenInv'
  BY DEF SeenInv, Present, Fail, dirVars
<1> QED
  BY <1>1, <1>2, <1>3

LEMMA EntryFoundKeeps == ListInv /\ EntryFound => ListInv'
<1> SUFFICES ASSUME ListInv, EntryFound PROVE ListInv'
  OBVIOUS
<1> USE DEF ListInv, EntryFound, dirVars, kernelVars
<1>1. TypeOK'
  BY DEF TypeOK
<1>2. PlaceInv'
  BY DEF PlaceInv, OneSlotEach
<1>3. TrueInv' /\ OrderInv'
  BY DEF TrueInv, OrderInv, InHand, Packed
<1>4. CompleteInv'
  BY DEF CompleteInv, InHand
<1>5. SeenInv'
  BY DEF SeenInv, Present
<1> QED
  BY <1>1, <1>2, <1>3, <1>4, <1>5

(***************************************************************************)
(* readdir.  What is handed out, and what is left of it, is true, ordered  *)
(* and complete, whether it was read ahead or is a new batch.              *)
(***************************************************************************)
\* What the C library has, to hand out from M, having read up to offset x.
Supply(M, x) ==
  /\ M \subseteq Dirent
  /\ x \in 0..Positions
  /\ dirPos <= x
  /\ \A e \in M : e.name \notin removed => slot[e.off] = e.name
  /\ \A e \in M : ~Packed(e.off) /\ e.off <= x
  /\ \A e, d \in M : e.off = d.off => e = d
  /\ \A p \in 1..Positions : slot[p] \in stable /\ kOff < p /\ p <= x =>
       \/ [name |-> slot[p], off |-> p] \in M
       \/ \E i \in 1..Len(buf_) : buf_[i] = [name |-> slot[p], off |-> p]

LEMMA ReadAheadSupplies ==
  ASSUME ListInv, pc = "read"
  PROVE  Supply(ahead, dirPos)
<1> USE DEF ListInv
<1>1. entry = NULL
  BY DEF PlaceInv
<1>2. ahead \subseteq Dirent /\ dirPos \in 0..Positions /\ dirPos <= dirPos
  BY DEF TypeOK
<1>3. \A e \in ahead : e.name \notin removed => slot[e.off] = e.name
  BY <1>2 DEF TrueInv, InHand
<1>4. /\ \A e \in ahead : ~Packed(e.off) /\ e.off <= dirPos
      /\ \A e, d \in ahead : e.off = d.off => e = d
  BY DEF OrderInv
<1>5. \A p \in 1..Positions : slot[p] \in stable /\ kOff < p /\ p <= dirPos =>
         \/ [name |-> slot[p], off |-> p] \in ahead
         \/ \E i \in 1..Len(buf_) : buf_[i] = [name |-> slot[p], off |-> p]
  BY <1>1 DEF CompleteInv, InHand
<1> QED
  BY <1>2, <1>3, <1>4, <1>5 DEF Supply

LEMMA BatchSupplies ==
  ASSUME ListInv, pc = "read", ahead = {}, Getdents # {}
  PROVE  Supply(Getdents, Max({e.off : e \in Getdents}))
<1> USE DEF ListInv
<1> DEFINE x == Max({e.off : e \in Getdents})
<1>1. /\ Getdents \subseteq Dirent
      /\ \A e \in Getdents : e.off > dirPos /\ slot[e.off] = e.name
      /\ \A e, d \in Getdents : e.off = d.off => e = d
      /\ \A e \in Getdents : \A p \in Behind :
           p <= e.off => [name |-> slot[p], off |-> p] \in Getdents
  BY GetdentsIsNext
<1>2. x \in 1..Positions /\ (\A e \in Getdents : e.off <= x) /\ \E e \in Getdents : e.off = x
  BY <1>1, LastIsHighest
<1> HIDE DEF x
<1>3. kOff \in Nat /\ dirPos \in Nat /\ kOff <= dirPos /\ Positions \in Nat
      /\ \A i \in 1..Len(buf_) : buf_[i].off <= dirPos /\ buf_[i].off \in 1..Positions
  BY BufferTypes, ReadDirAssumption DEF TypeOK, OrderInv
<1>4. dirPos <= x /\ x \in 0..Positions
  BY <1>1, <1>2, <1>3
<1>5. \A e \in Getdents : ~Packed(e.off)
  BY <1>1, <1>3, DirentFields DEF Packed
<1>6. ASSUME NEW p \in 1..Positions, slot[p] \in stable, kOff < p, p <= x
      PROVE  \/ [name |-> slot[p], off |-> p] \in Getdents
             \/ \E i \in 1..Len(buf_) : buf_[i] = [name |-> slot[p], off |-> p]
  <2>1. CASE p <= dirPos
    BY <1>6, <2>1, ReadAheadSupplies DEF Supply
  <2>2. CASE ~(p <= dirPos)
    <3>1. p \in Behind
      BY <1>3, <1>6, <2>2, StableSlots DEF Behind
    <3> QED
      BY <1>1, <1>2, <1>6, <3>1
  <2> QED
    BY <2>1, <2>2
<1>7. Supply(Getdents, x)
  BY <1>1, <1>2, <1>4, <1>5, <1>6 DEF Supply
<1> QED
  BY <1>7 DEF x

LEMMA HandedOutKeeps ==
  ASSUME ListInv, NEW M, NEW x, Supply(M, x), M # {}, pc = "read", pc' = "find",
         entry' = First(M), ahead' = M \ {First(M)}, dirPos' = x,
         UNCHANGED <<dirVars, kernelVars, plus, buf_, used>>
  PROVE  ListInv'
<1> USE DEF ListInv
<1> DEFINE f == First(M)
<1>0. UNCHANGED <<slot, changes, listing, kOff, seen, stable, removed, plus, buf_, used>>
  BY DEF dirVars, kernelVars
<1>1. M \subseteq Dirent /\ f \in M /\ \A d \in M : f.off <= d.off
  BY FirstIsLowest DEF Supply
<1>2. f \in Dirent /\ f # NULL /\ f.off \in 1..Positions
  BY <1>1, DirentFields, NullIsNoDirent
<1> HIDE DEF f
<1>3. entry' = f /\ ahead' = M \ {f} /\ entry' # NULL
  BY <1>2 DEF f
<1>4. TypeOK'
  BY <1>0, <1>1, <1>2, <1>3 DEF TypeOK, Supply
<1>5. PlaceInv'
  BY <1>0, <1>3 DEF PlaceInv, OneSlotEach
<1>6. \A e : InHand(e)' <=> e \in M \/ \E i \in 1..Len(buf_) : buf_[i] = e
  BY <1>0, <1>1, <1>3 DEF InHand
<1>7. TrueInv'
  BY <1>0, <1>6 DEF TrueInv, InHand, Supply
<1>8. OrderInv'
  <2>1. \A p : Packed(p)' <=> Packed(p)
    BY <1>0 DEF Packed
  <2>2. kOff \in Nat /\ dirPos \in Nat /\ x \in Nat /\ dirPos <= x /\ kOff <= dirPos
        /\ \A i \in 1..Len(buf_) : buf_[i].off <= dirPos /\ buf_[i].off \in 1..Positions
    BY BufferTypes, ReadDirAssumption DEF TypeOK, OrderInv, Supply
  <2>3. kOff <= x /\ \A i \in 1..Len(buf_) : buf_[i].off <= x
    BY <2>2
  <2>4. /\ \A i \in 1..Len(buf_) : kOff < buf_[i].off
        /\ \A i, j \in 1..Len(buf_) : i < j => buf_[i].off < buf_[j].off
    BY DEF OrderInv
  <2>5. ~Packed(f.off) /\ f.off <= x
    BY <1>1 DEF Supply
  <2>6. ASSUME NEW e \in M, e # f
        PROVE  ~Packed(e.off) /\ e.off <= x /\ f.off < e.off
    <3>1. f.off <= e.off /\ e.off # f.off
      BY <1>1, <2>6 DEF Supply
    <3>2. e.off \in Nat /\ f.off \in Nat
      BY <1>1, <1>2, DirentFields
    <3> QED
      BY <3>1, <3>2 DEF Supply
  <2>7. \A e, d \in M : e.off = d.off => e = d
    BY DEF Supply
  <2> QED
    BY <1>0, <1>3, <2>1, <2>3, <2>4, <2>5, <2>6, <2>7 DEF OrderInv
<1>9. CompleteInv'
  BY <1>0, <1>6 DEF CompleteInv, Supply
<1>10. SeenInv'
  BY <1>0 DEF SeenInv, Present
<1> QED
  BY <1>4, <1>5, <1>7, <1>8, <1>9, <1>10

LEMMA ReadEntryKeeps == ListInv /\ ReadEntry => ListInv'
<1> SUFFICES ASSUME ListInv, ReadEntry PROVE ListInv'
  OBVIOUS
<1>0. pc = "read" /\ UNCHANGED <<dirVars, kernelVars, plus, buf_, used>>
  BY DEF ReadEntry
<1>1. CASE ahead # {}
  <2>1. pc' = "find" /\ entry' = First(ahead) /\ ahead' = ahead \ {First(ahead)} /\ dirPos' = dirPos
    BY <1>1 DEF ReadEntry
  <2> QED
    BY <1>0, <1>1, <2>1, ReadAheadSupplies, HandedOutKeeps
<1>2. CASE ahead = {} /\ Getdents # {}
  <2>1. /\ pc' = "find"
        /\ entry' = First(Getdents)
        /\ ahead' = Getdents \ {First(Getdents)}
        /\ dirPos' = Max({e.off : e \in Getdents})
    BY <1>2 DEF ReadEntry
  <2> QED
    BY <1>0, <1>2, <2>1, BatchSupplies, HandedOutKeeps
<1>3. CASE ahead = {} /\ Getdents = {}
  <2> USE DEF ListInv
  <2>1. pc' = "reply" /\ UNCHANGED <<slot, changes, listing, kOff, seen, stable, removed, plus,
                                     buf_, used, dirPos, ahead, entry>>
    BY <1>3 DEF ReadEntry, dirVars, kernelVars
  <2>2. TypeOK'
    BY <2>1 DEF TypeOK
  <2>3. PlaceInv'
    BY <1>0, <2>1 DEF PlaceInv, OneSlotEach
  <2>4. TrueInv' /\ OrderInv'
    BY <1>0, <2>1 DEF TrueInv, OrderInv, InHand, Packed
  <2>5. ASSUME NEW p \in 1..Positions, slot[p] \in stable, kOff < p
        PROVE  \E i \in 1..Len(buf_) : buf_[i] = [name |-> slot[p], off |-> p]
    <3>1. Behind = {}
      BY <1>3, GetdentsIsNext
    <3>2. p <= dirPos
      BY <2>5, <3>1, StableSlots DEF Behind, TypeOK
    <3> QED
      BY <1>0, <1>3, <2>5, <3>2, ReadAheadSupplies DEF Supply
  <2>6. CompleteInv'
    BY <2>1, <2>5, BufferTypes DEF CompleteInv
  <2>7. SeenInv'
    BY <2>1 DEF SeenInv, Present
  <2> QED
    BY <2>2, <2>3, <2>4, <2>6, <2>7
<1> QED
  BY <1>1, <1>2, <1>3

\* AddDirEntry: the entry in hand goes into the buffer, behind the others.
LEMMA AddedKeeps ==
  ASSUME ListInv, AddDirEntry, ~(Room(entry.name) + used > BufSize)
  PROVE  ListInv'
<1> USE DEF ListInv
<1>0. /\ pc = "add" /\ pc' = "read"
      /\ buf_' = Append(buf_, entry) /\ used' = used + Room(entry.name) /\ entry' = NULL
      /\ UNCHANGED <<slot, changes, listing, kOff, seen, stable, removed, plus, dirPos, ahead>>
  BY DEF AddDirEntry, dirVars, kernelVars
<1>1. entry \in Dirent /\ entry # NULL /\ entry.name \in Names /\ entry.off \in 1..Positions
  BY <1>0, DirentFields DEF PlaceInv, TypeOK
<1> DEFINE m == Len(buf_)
<1>2. /\ m \in Nat /\ Len(buf_') = m + 1 /\ buf_'[m + 1] = entry
      /\ \A i \in 1..m : buf_'[i] = buf_[i]
      /\ buf_' \in Seq(Dirent) /\ buf_' # <<>>
  BY <1>0, <1>1 DEF TypeOK
<1>3. \A i \in 1..m : buf_[i].off \in 1..Positions
  BY BufferTypes
<1>4. 1..Len(buf_') = (1..m) \cup {m + 1} /\ m + 1 \notin 1..m
  BY <1>2
<1> HIDE DEF m
<1>5. TypeOK'
  <2>1. Room(entry.name) \in Nat
    BY <1>1, ReadDirAssumption DEF Room, TypeOK
  <2>2. used' \in 0..BufSize
    BY <1>0, <2>1, ReadDirAssumption DEF TypeOK
  <2> QED
    BY <1>0, <1>2, <2>2 DEF TypeOK
<1>6. PlaceInv'
  BY <1>0, <1>2 DEF PlaceInv, OneSlotEach
<1>7. \A e \in Dirent : InHand(e)' <=> InHand(e)
  BY <1>0, <1>1, <1>2, <1>4 DEF InHand, m
<1>8. TrueInv'
  BY <1>0, <1>7 DEF TrueInv
<1>9. OrderInv'
  <2>1. \A p : Packed(p)' <=> Packed(p) \/ p <= entry.off
    BY <1>0, <1>2, <1>4 DEF Packed, m
  <2>2. ~Packed(entry.off) /\ entry.off <= dirPos /\ kOff <= dirPos
        /\ kOff \in Nat /\ dirPos \in Nat
    BY <1>0, <1>1 DEF OrderInv, TypeOK
  <2>3. kOff < entry.off /\ \A i \in 1..m : buf_[i].off < entry.off
    BY <1>1, <1>3, <2>2 DEF Packed, m
  <2>4. /\ \A i \in 1..m : kOff < buf_[i].off /\ buf_[i].off <= dirPos
        /\ \A i, j \in 1..m : i < j => buf_[i].off < buf_[j].off
    BY <1>0 DEF OrderInv, m
  <2>5. \A i \in 1..Len(buf_') : kOff < buf_'[i].off /\ buf_'[i].off <= dirPos
    BY <1>2, <1>4, <2>2, <2>3, <2>4
  <2>6. \A i, j \in 1..Len(buf_') : i < j => buf_'[i].off < buf_'[j].off
    <3> SUFFICES ASSUME NEW i \in 1..Len(buf_'), NEW j \in 1..Len(buf_'), i < j
                 PROVE  buf_'[i].off < buf_'[j].off
      OBVIOUS
    <3>1. i \in 1..m
      BY <1>2
    <3> QED
      BY <1>2, <1>4, <2>3, <2>4, <3>1
  <2>7. ASSUME NEW e \in ahead
        PROVE  ~(Packed(e.off) \/ e.off <= entry.off) /\ e.off <= dirPos
    <3>1. e.off \in Nat
      BY DirentFields DEF TypeOK
    <3> QED
      BY <1>0, <1>1, <3>1 DEF OrderInv
  <2>8. \A e, d \in ahead : e.off = d.off => e = d
    BY <1>0 DEF OrderInv
  <2> QED
    BY <1>0, <2>1, <2>2, <2>5, <2>6, <2>7, <2>8 DEF OrderInv
<1>10. CompleteInv'
  <2>1. \A p \in 1..Positions : slot[p] \in stable => [name |-> slot[p], off |-> p] \in Dirent
    BY StableSlots, MadeDirent
  <2> QED
    BY <1>0, <1>7, <2>1 DEF CompleteInv
<1>11. SeenInv'
  BY <1>0 DEF SeenInv, Present
<1> QED
  BY <1>5, <1>6, <1>8, <1>9, <1>10, <1>11

\* AddDirEntry: the entry does not fit.  Then something else is in the buffer.
LEMMA FullKeeps ==
  ASSUME ListInv, AddDirEntry, Room(entry.name) + used > BufSize
  PROVE  ListInv'
<1> USE DEF ListInv
<1>0. /\ pc = "add" /\ pc' = "reply" /\ entry' = NULL
      /\ UNCHANGED <<slot, changes, listing, kOff, seen, stable, removed, plus, dirPos, ahead, buf_, used>>
  BY DEF AddDirEntry, dirVars, kernelVars
<1>1. entry \in Dirent /\ entry # NULL /\ entry.name \in Names /\ entry.off \in 1..Positions
  BY <1>0, DirentFields DEF PlaceInv, TypeOK
<1>2. buf_ # <<>>
  <2>1. Room(entry.name) <= BufSize /\ Room(entry.name) \in Nat
    BY <1>1, ReadDirAssumption DEF Room, TypeOK
  <2>2. used # 0
    BY <2>1, ReadDirAssumption
  <2> QED
    BY <2>2 DEF PlaceInv
<1>3. TypeOK'
  BY <1>0 DEF TypeOK
<1>4. PlaceInv'
  BY <1>0 DEF PlaceInv, OneSlotEach
<1>5. TrueInv'
  BY <1>0 DEF TrueInv, InHand
<1>6. OrderInv'
  BY <1>0 DEF OrderInv, Packed
<1>7. ASSUME NEW p \in 1..Positions, slot[p] \in stable, kOff < p, Packed(p)
      PROVE  \E i \in 1..Len(buf_) : buf_[i] = [name |-> slot[p], off |-> p]
  <2> DEFINE e == [name |-> slot[p], off |-> p]
  <2>1. e \in Dirent /\ e.off = p
    BY <1>7, StableSlots, MadeDirent
  <2>2. kOff \in Nat /\ dirPos \in Nat /\ \A i \in 1..Len(buf_) : buf_[i].off \in Nat /\ buf_[i].off <= dirPos
    BY <1>0, BufferTypes DEF OrderInv, TypeOK
  <2>3. p <= dirPos
    BY <1>7, <2>2 DEF Packed
  <2>4. InHand(e)
    BY <1>0, <1>7, <2>3 DEF CompleteInv
  <2> HIDE DEF e
  <2>5. e \notin ahead /\ e # entry
    BY <1>0, <1>1, <1>7, <2>1 DEF OrderInv
  <2>6. \E i \in 1..Len(buf_) : buf_[i] = e
    BY <2>4, <2>5 DEF InHand
  <2> QED
    BY <2>6 DEF e
<1>8. CompleteInv'
  BY <1>0, <1>2, <1>7 DEF CompleteInv, Packed
<1>9. SeenInv'
  BY <1>0 DEF SeenInv, Present
<1> QED
  BY <1>3, <1>4, <1>5, <1>6, <1>8, <1>9

LEMMA ReplyEndKeeps == ListInv /\ ReplyEnd => ListInv'
<1> SUFFICES ASSUME ListInv, ReplyEnd PROVE ListInv'
  OBVIOUS
<1> USE DEF ListInv, ReplyEnd, dirVars
<1>1. TypeOK'
  BY DEF TypeOK
<1>2. PlaceInv' /\ TrueInv' /\ OrderInv' /\ CompleteInv'
  BY DEF PlaceInv, TrueInv, OrderInv, CompleteInv, OneSlotEach
<1>3. \A p \in 1..Positions : slot[p] \in stable => p <= kOff
  BY DEF CompleteInv, TypeOK
<1>4. SeenInv'
  BY <1>3 DEF SeenInv, Present
<1> QED
  BY <1>1, <1>2, <1>4

LEMMA RemoveKeeps ==
  ASSUME ListInv, NEW p \in 1..Positions, Remove(p)
  PROVE  ListInv'
<1> USE DEF ListInv
<1>0. /\ slot[p] # NULL /\ slot[p] \in Names /\ slot' = [slot EXCEPT ![p] = NULL]
      /\ stable' = stable \ {slot[p]} /\ removed' = removed \cup {slot[p]}
      /\ UNCHANGED <<listing, kOff, seen, pc, plus, dirPos, ahead, entry, buf_, used>>
  BY DEF Remove, TypeOK
<1>1. slot'[p] = NULL /\ \A q \in 1..Positions : q # p => slot'[q] = slot[q]
  BY <1>0 DEF TypeOK
<1>2. NULL \notin stable' /\ NULL \notin Names
  BY <1>0, ReadDirAssumption DEF TypeOK
<1>3. TypeOK'
  <2>1. changes' \in 0..MaxChanges
    BY ReadDirAssumption DEF Remove, TypeOK
  <2> QED
    BY <1>0, <2>1 DEF TypeOK
<1>4. PlaceInv'
  <2>1. OneSlotEach'
    BY <1>1 DEF PlaceInv, OneSlotEach
  <2> QED
    BY <1>0, <2>1 DEF PlaceInv
<1>5. TrueInv'
  BY <1>0, <1>1, DirentFields DEF TrueInv, InHand
<1>6. OrderInv'
  BY <1>0 DEF OrderInv, Packed
<1>7. \A q \in 1..Positions : slot'[q] \in stable' => slot'[q] = slot[q] /\ slot[q] \in stable
  BY <1>0, <1>1, <1>2
<1>8. CompleteInv'
  BY <1>0, <1>7 DEF CompleteInv, InHand, Packed
<1>9. SeenInv'
  <2>1. stable' \subseteq Present'
    <3> SUFFICES ASSUME NEW n \in stable, n # slot[p] PROVE n \in Present'
      BY <1>0
    <3>1. PICK q \in 1..Positions : slot[q] = n
      BY DEF SeenInv, Present
    <3> QED
      BY <1>1, <1>2, <3>1 DEF Present, TypeOK
  <2>2. stable' \cap removed' = {}
    BY <1>0 DEF SeenInv
  <2>3. ASSUME NEW n \in Names \ removed'
        PROVE  seen[n] <= 1 /\ (seen[n] = 1 => \E q \in 1..kOff : slot'[q] = n)
    <3>1. n \in Names \ removed /\ n # slot[p]
      BY <1>0
    <3>2. seen[n] <= 1 /\ (seen[n] = 1 => \E q \in 1..kOff : slot[q] = n)
      BY <3>1 DEF SeenInv
    <3>3. \A q \in 1..kOff : q \in 1..Positions
      BY ReadDirAssumption DEF TypeOK
    <3>4. \A q \in 1..kOff : slot[q] = n => slot'[q] = n
      BY <1>1, <3>1, <3>3
    <3> QED
      BY <3>2, <3>4
  <2> QED
    BY <1>0, <1>7, <2>1, <2>2, <2>3 DEF SeenInv
<1> QED
  BY <1>3, <1>4, <1>5, <1>6, <1>8, <1>9

LEMMA MakeKeeps ==
  ASSUME ListInv, NEW p \in 1..Positions, NEW n \in Names, Make(p, n)
  PROVE  ListInv'
<1> USE DEF ListInv
<1>0. /\ slot[p] = NULL /\ n \notin Present /\ slot' = [slot EXCEPT ![p] = n]
      /\ UNCHANGED <<listing, kOff, seen, stable, removed, pc, plus, dirPos, ahead, entry, buf_, used>>
  BY DEF Make, kernelVars
<1>1. slot'[p] = n /\ \A q \in 1..Positions : q # p => slot'[q] = slot[q]
  BY <1>0 DEF TypeOK
<1>2. NULL \notin Names /\ n \notin stable /\ \A q \in 1..Positions : slot[q] # n
  BY <1>0, ReadDirAssumption DEF SeenInv, Present
<1>3. TypeOK'
  <2>1. changes' \in 0..MaxChanges
    BY ReadDirAssumption DEF Make, TypeOK
  <2> QED
    BY <1>0, <2>1 DEF TypeOK
<1>4. PlaceInv'
  <2>1. OneSlotEach'
    BY <1>1, <1>2 DEF PlaceInv, OneSlotEach
  <2> QED
    BY <1>0, <2>1 DEF PlaceInv
<1>5. TrueInv'
  BY <1>0, <1>1, <1>2, DirentFields DEF TrueInv, InHand
<1>6. OrderInv'
  BY <1>0 DEF OrderInv, Packed
<1>7. \A q \in 1..Positions : slot'[q] \in stable' => slot'[q] = slot[q] /\ slot[q] \in stable
  BY <1>0, <1>1, <1>2
<1>8. CompleteInv'
  BY <1>0, <1>7 DEF CompleteInv, InHand, Packed
<1>9. SeenInv'
  <2>1. Present \subseteq Present'
    <3> SUFFICES ASSUME NEW q \in 1..Positions, slot[q] # NULL PROVE slot[q] \in Present'
      BY DEF Present
    <3> QED
      BY <1>0, <1>1 DEF Present
  <2>2. ASSUME NEW m \in Names \ removed
        PROVE  seen[m] <= 1 /\ (seen[m] = 1 => \E q \in 1..kOff : slot'[q] = m)
    <3>1. seen[m] <= 1 /\ (seen[m] = 1 => \E q \in 1..kOff : slot[q] = m)
      BY DEF SeenInv
    <3>2. \A q \in 1..kOff : slot[q] = m => slot'[q] = m
      BY <1>0, <1>1, <1>2 DEF TypeOK
    <3> QED
      BY <3>1, <3>2
  <2> QED
    BY <1>0, <1>7, <2>1, <2>2 DEF SeenInv
<1> QED
  BY <1>3, <1>4, <1>5, <1>6, <1>8, <1>9
-----------------------------------------------------------------------------
(***************************************************************************)
(* A reply hands the kernel entries behind those it has had.               *)
(***************************************************************************)
\* The entries of a reply that have name n.
Times(n, k) == {i \in 1..k : buf_[i].name = n}

LEMMA AtMostTwo ==
  ASSUME NEW c \in Nat
  PROVE  Min({2, c}) = IF c <= 2 THEN c ELSE 2
<1> DEFINE S == {2, c}
<1>1. CASE c <= 2
  <2>1. c \in S /\ (\A n \in S : c <= n) /\ \A m \in S : (\A n \in S : m <= n) => m = c
    BY <1>1
  <2> HIDE DEF S
  <2>2. Min(S) = c
    BY <2>1 DEF Min
  <2> QED
    BY <1>1, <2>2 DEF S
<1>2. CASE ~(c <= 2)
  <2>1. 2 \in S /\ (\A n \in S : 2 <= n) /\ \A m \in S : (\A n \in S : m <= n) => m = 2
    BY <1>2
  <2> HIDE DEF S
  <2>2. Min(S) = 2
    BY <2>1 DEF Min
  <2> QED
    BY <1>2, <2>2 DEF S
<1> QED
  BY <1>1, <1>2

LEMMA TimesFinite ==
  ASSUME NEW n, NEW k \in Nat
  PROVE  /\ Cardinality(Times(n, k)) \in Nat
         /\ Cardinality(Times(n, k)) = 0 <=> Times(n, k) = {}
         /\ \A i \in 1..k : Times(n, k) = {i} => Cardinality(Times(n, k)) = 1
<1>1. IsFiniteSet(1..k)
  BY FS_Interval
<1>2. Times(n, k) \subseteq 1..k
  BY DEF Times
<1>3. IsFiniteSet(Times(n, k))
  BY <1>1, <1>2, FS_Subset
<1>4. Cardinality(Times(n, k)) \in Nat
  BY <1>3, FS_CardinalityType
<1>5. Cardinality(Times(n, k)) = 0 <=> Times(n, k) = {}
  BY <1>3, FS_EmptySet
<1>6. \A i : Cardinality({i}) = 1
  BY FS_Singleton
<1> QED
  BY <1>4, <1>5, <1>6

\* A name that was not removed is in a reply at most once, and not at all if
\* the kernel has had it.
LEMMA OnceInReply ==
  ASSUME ListInv, pc = "reply", NEW n \in Names \ removed, NEW k \in 1..Len(buf_)
  PROVE  /\ \A i, j \in Times(n, k) : i = j
         /\ \A i \in Times(n, k) : slot[buf_[i].off] = n /\ kOff < buf_[i].off
         /\ seen[n] = 1 => Times(n, k) = {}
<1> USE DEF ListInv
<1>1. /\ Len(buf_) \in Nat
      /\ \A i \in 1..Len(buf_) :
           buf_[i] \in Dirent /\ buf_[i].name \in Names /\ buf_[i].off \in 1..Positions
  BY BufferTypes
<1>2. \A i \in Times(n, k) : i \in 1..Len(buf_) /\ buf_[i].name = n
  BY <1>1 DEF Times
<1>3. /\ \A i \in 1..Len(buf_) : kOff < buf_[i].off
      /\ \A i, j \in 1..Len(buf_) : i < j => buf_[i].off < buf_[j].off
  BY DEF OrderInv
<1>4. \A i \in Times(n, k) : slot[buf_[i].off] = n
  BY <1>1, <1>2 DEF TrueInv, InHand
<1>5. n # NULL
  BY ReadDirAssumption
<1>6. \A p, q \in 1..Positions : slot[p] = n /\ slot[q] = n => p = q
  BY <1>5 DEF PlaceInv, OneSlotEach
<1>7. ASSUME NEW i \in Times(n, k), NEW j \in Times(n, k)
      PROVE  i = j
  <2>1. buf_[i].off = buf_[j].off
    BY <1>1, <1>2, <1>4, <1>6
  <2>2. i \in 1..Len(buf_) /\ j \in 1..Len(buf_)
    BY <1>2
  <2>3. ~(i < j) /\ ~(j < i)
    BY <1>1, <1>3, <2>1, <2>2
  <2> QED
    BY <2>2, <2>3
<1>8. ASSUME seen[n] = 1, NEW i \in Times(n, k)
      PROVE  FALSE
  <2>1. PICK p \in 1..kOff : slot[p] = n
    BY <1>8 DEF SeenInv
  <2>2. p \in 1..Positions
    BY ReadDirAssumption DEF TypeOK
  <2>3. buf_[i].off = p
    BY <1>1, <1>2, <1>4, <1>6, <2>1, <2>2
  <2> QED
    BY <1>2, <1>3, <2>3 DEF TypeOK
<1> QED
  BY <1>2, <1>3, <1>4, <1>7, <1>8

LEMMA ReplyEntriesKeeps ==
  ASSUME ListInv, NEW k \in 1..Positions, ReplyEntries(k)
  PROVE  ListInv'
<1> USE DEF ListInv
<1>0. /\ pc = "reply" /\ pc' = "idle" /\ k \in 1..Len(buf_)
      /\ kOff' = buf_[k].off /\ buf_' = <<>> /\ used' = 0
      /\ seen' = [n \in Names |-> Min({2, seen[n] + Cardinality(Times(n, k))})]
      /\ UNCHANGED <<slot, changes, listing, stable, removed, plus, dirPos, ahead, entry>>
  BY BufferTypes DEF ReplyEntries, dirVars, Times
<1>1. kOff' \in 1..Positions /\ kOff < kOff' /\ kOff \in Nat
  BY <1>0, BufferTypes DEF OrderInv, TypeOK
<1>2. \A n \in Names : Cardinality(Times(n, k)) \in Nat /\ seen[n] \in 0..2
  BY TimesFinite DEF TypeOK
<1>3. \A n \in Names : LET c == seen[n] + Cardinality(Times(n, k))
                       IN  seen'[n] = IF c <= 2 THEN c ELSE 2
  BY <1>0, <1>2, AtMostTwo
<1>4. TypeOK'
  <2>1. \A n \in Names : Min({2, seen[n] + Cardinality(Times(n, k))}) \in 0..2
    BY <1>2, AtMostTwo
  <2>2. seen' \in [Names -> 0..2]
    BY <1>0, <2>1
  <2> QED
    BY <1>0, <1>1, <2>2, ReadDirAssumption DEF TypeOK
<1>5. PlaceInv' /\ TrueInv' /\ OrderInv' /\ CompleteInv'
  BY <1>0 DEF PlaceInv, TrueInv, OrderInv, CompleteInv, OneSlotEach
<1>6. ASSUME NEW n \in Names \ removed
      PROVE  seen'[n] <= 1 /\ (seen'[n] = 1 => \E p \in 1..kOff' : slot[p] = n)
  <2>1. seen[n] <= 1 /\ (seen[n] = 1 => \E p \in 1..kOff : slot[p] = n)
    BY DEF SeenInv
  <2>2. CASE Times(n, k) = {}
    <3>1. seen'[n] = seen[n]
      BY <1>2, <1>3, <2>2, TimesFinite
    <3>2. \A p \in 1..kOff : p \in 1..kOff'
      BY <1>1
    <3> QED
      BY <2>1, <3>1, <3>2
  <2>3. CASE Times(n, k) # {}
    <3>1. PICK i : i \in Times(n, k)
      BY <2>3
    <3>2. i \in 1..k
      BY <3>1 DEF Times
    <3>3. Times(n, k) = {i} /\ seen[n] # 1 /\ slot[buf_[i].off] = n
      BY <1>0, <2>3, <3>1, OnceInReply
    <3>4. Cardinality(Times(n, k)) = 1
      BY <3>2, <3>3, TimesFinite
    <3>5. seen'[n] = 1
      BY <1>2, <1>3, <2>1, <3>3, <3>4
    <3>6. buf_[i].off \in 1..kOff'
      BY <1>0, <3>2, BufferTypes DEF OrderInv
    <3> QED
      BY <3>3, <3>5, <3>6
  <2> QED
    BY <2>2, <2>3
<1>7. ASSUME NEW p \in 1..Positions, slot[p] \in stable, p <= kOff'
      PROVE  seen'[slot[p]] = 1
  <2> DEFINE n == slot[p]
  <2>1. n \in Names \ removed
    BY <1>7 DEF SeenInv, TypeOK
  <2>2. seen'[n] <= 1
    BY <1>6, <2>1
  <2>3. CASE p <= kOff
    <3>1. seen[n] = 1
      BY <1>7, <2>3 DEF SeenInv
    <3> HIDE DEF n
    <3>2. Times(n, k) = {}
      BY <1>0, <2>1, <3>1, OnceInReply
    <3>3. seen'[n] = 1
      BY <1>2, <1>3, <2>1, <3>1, <3>2, TimesFinite
    <3> QED
      BY <3>3 DEF n
  <2>4. CASE ~(p <= kOff)
    <3>1. kOff < p /\ Packed(p)
      BY <1>0, <1>1, <1>7, <2>4 DEF Packed
    <3>2. PICK i \in 1..Len(buf_) : buf_[i] = [name |-> n, off |-> p]
      BY <1>0, <1>7, <3>1 DEF CompleteInv
    <3>3. buf_[i].name = n /\ buf_[i].off = p
      BY <3>2
    <3>4. i \in 1..k
      <4>1. ~(k < i)
        BY <1>0, <1>1, <1>7, <3>3 DEF OrderInv
      <4> QED
        BY <1>0, <4>1
    <3>5. i \in Times(n, k)
      BY <3>3, <3>4 DEF Times
    <3> HIDE DEF n
    <3>6. Cardinality(Times(n, k)) # 0
      BY <3>5, TimesFinite
    <3>7. seen'[n] = 1
      BY <1>2, <1>3, <2>1, <2>2, <3>6
    <3> QED
      BY <3>7 DEF n
  <2> QED
    BY <2>3, <2>4
<1>8. SeenInv'
  <2>1. listing' = "reading"
    BY <1>0 DEF PlaceInv
  <2>2. Present' = Present /\ stable' = stable /\ removed' = removed /\ slot' = slot
    BY <1>0 DEF Present
  <2> QED
    BY <1>6, <1>7, <2>1, <2>2 DEF SeenInv
<1> QED
  BY <1>4, <1>5, <1>8
-----------------------------------------------------------------------------
LEMMA ListStep == ListInv /\ [Next]_vars => ListInv'
<1> SUFFICES ASSUME ListInv, [Next]_vars PROVE ListInv'
  OBVIOUS
<1>1. CASE Next
  <2>1. CASE ReadEntry
    BY <2>1, ReadEntryKeeps
  <2>2. CASE HandlerFails
    BY <2>2, FailKeeps DEF HandlerFails
  <2>3. CASE EntryFound
    BY <2>3, EntryFoundKeeps
  <2>4. CASE AddDirEntry
    BY <2>4, AddedKeeps, FullKeeps
  <2>5. CASE ReplyEnd
    BY <2>5, ReplyEndKeeps
  <2>6. CASE ReplyFails
    BY <2>6, FailKeeps DEF ReplyFails
  <2>7. ASSUME NEW k \in 1..Positions, ReplyEntries(k) PROVE ListInv'
    BY <2>7, ReplyEntriesKeeps
  <2>8. CASE StartListing
    BY <2>8, StartListingKeeps
  <2>9. ASSUME NEW p \in BOOLEAN, Receive(p) PROVE ListInv'
    BY <2>9, ReceiveKeeps
  <2>10. ASSUME NEW p \in 1..Positions, Remove(p) PROVE ListInv'
    BY <2>10, RemoveKeeps
  <2>11. ASSUME NEW p \in 1..Positions, NEW n \in Names, Make(p, n) PROVE ListInv'
    BY <2>11, MakeKeeps
  <2> QED
    BY <1>1, <2>1, <2>2, <2>3, <2>4, <2>5, <2>6, <2>7, <2>8, <2>9, <2>10, <2>11
       DEF Next, Handler, Ask
<1>2. CASE UNCHANGED vars
  <2> USE <1>2 DEF ListInv, vars, dirVars, kernelVars
  <2>1. TypeOK' /\ PlaceInv'
    BY DEF TypeOK, PlaceInv, OneSlotEach
  <2>2. TrueInv' /\ OrderInv'
    BY DEF TrueInv, OrderInv, InHand, Packed
  <2>3. CompleteInv'
    BY DEF CompleteInv, InHand, Packed
  <2>4. SeenInv'
    BY DEF SeenInv, Present
  <2> QED
    BY <2>1, <2>2, <2>3, <2>4
<1> QED
  BY <1>1, <1>2

LEMMA ListInvHolds == Spec => []ListInv
  BY ListInitially, ListStep, PTL DEF Spec

\* The listing's state keeps its types, in particular a buffer never holds
\* more than the kernel asked for.
THEOREM ListingTypeCorrect == Spec => []TypeOK
<1>1. ListInv => TypeOK
  BY DEF ListInv
<1> QED
  BY <1>1, ListInvHolds, PTL

(***************************************************************************)
(* A listing of any length, in any number of requests, has every entry     *)
(* that was there all the time exactly once when it comes to its end, and  *)
(* none twice that was not removed, although seekdir drops what was read   *)
(* ahead, although an entry that does not fit is read again, and whatever  *)
(* others add and remove between any two steps of ReadDirInternal.         *)
(***************************************************************************)
THEOREM ListingIsExact == Spec => []StableEntriesSeenOnce
<1>1. ListInv => StableEntriesSeenOnce
  <2> SUFFICES ASSUME ListInv PROVE StableEntriesSeenOnce
    OBVIOUS
  <2> USE DEF ListInv
  <2>1. ASSUME listing = "ended", NEW n \in stable PROVE seen[n] = 1
    <3>1. PICK p \in 1..Positions : slot[p] = n
      BY DEF SeenInv, Present
    <3> QED
      BY <2>1, <3>1 DEF SeenInv
  <2>2. \A n \in Names \ removed : seen[n] <= 1
    BY DEF SeenInv
  <2> QED
    BY <2>1, <2>2 DEF StableEntriesSeenOnce
<1> QED
  BY <1>1, ListInvHolds, PTL

(***************************************************************************)
(* FindOrCreateInode misses an entry that readdir has handed out only if   *)
(* the entry was removed since the listing began, however far the C        *)
(* library reads ahead.                                                    *)
(***************************************************************************)
THEOREM MissingWasRemoved == Spec => []MissingOnlyIfRemoved
<1>1. ListInv => MissingOnlyIfRemoved
  <2> SUFFICES ASSUME ListInv, pc = "find", entry.name \notin removed
               PROVE  entry.name \in Present
    BY DEF MissingOnlyIfRemoved
  <2> USE DEF ListInv
  <2>1. entry # NULL /\ entry \in Dirent
    BY DEF PlaceInv, TypeOK
  <2>2. entry.name \in Names /\ entry.off \in 1..Positions
    BY <2>1, DirentFields
  <2>3. slot[entry.off] = entry.name
    BY <2>1 DEF TrueInv, InHand
  <2> QED
    BY <2>2, <2>3, ReadDirAssumption DEF Present
<1> QED
  BY <1>1, ListInvHolds, PTL
-----------------------------------------------------------------------------
\* The offset of the newest entry that the request has in hand.
Reached ==
  IF entry # NULL THEN entry.off
  ELSE IF buf_ # <<>> THEN buf_[Len(buf_)].off
  ELSE kOff

\* At most so many steps of the handler, and of the kernel that asks for
\* more, are left before the reply to a request.
StepsLeft ==
  IF pc = "idle" THEN 3 * Positions + 3
  ELSE IF pc = "reply" THEN 0
  ELSE 3 * (Positions - Reached) + (IF pc = "read" THEN 2 ELSE IF pc = "find" THEN 4 ELSE 3)

(***************************************************************************)
(* A step of the handler or of the kernel ends the listing, moves the      *)
(* offset that the kernel asks from forward, or brings the reply nearer;   *)
(* others can undo none of this.                                           *)
(***************************************************************************)
Advance ==
  listing = "reading" =>
    /\ Handler \/ Ask =>
         \/ listing' # "reading"
         \/ kOff' > kOff
         \/ kOff' = kOff /\ StepsLeft' < StepsLeft
    /\ ~(Handler \/ Ask) => listing' = listing /\ kOff' = kOff /\ StepsLeft' = StepsLeft

LEMMA ReachedType == ListInv => Reached \in 0..Positions
<1> SUFFICES ASSUME ListInv PROVE Reached \in 0..Positions
  OBVIOUS
<1> USE DEF ListInv
<1>1. CASE entry # NULL
  <2>1. entry \in Dirent
    BY <1>1 DEF TypeOK
  <2> QED
    BY <1>1, <2>1, DirentFields, ReadDirAssumption DEF Reached
<1>2. CASE entry = NULL /\ buf_ # <<>>
  <2>1. buf_ \in Seq(Dirent)
    BY DEF TypeOK
  <2>2. Len(buf_) \in 1..Len(buf_)
    BY <1>2, <2>1
  <2>3. buf_[Len(buf_)] \in Dirent
    BY <2>1, <2>2
  <2> QED
    BY <1>2, <2>3, DirentFields, ReadDirAssumption DEF Reached
<1>3. CASE entry = NULL /\ buf_ = <<>>
  BY <1>3 DEF Reached, TypeOK
<1> QED
  BY <1>1, <1>2, <1>3

LEMMA ReachedTypeNext == ListInv' => (Reached \in 0..Positions)'
  BY ReachedType, PTL

LEMMA StepsLeftType == ListInv => StepsLeft \in Nat
  BY ReachedType, ReadDirAssumption DEF StepsLeft

\* An entry in hand comes after everything packed before it.
LEMMA EntryIsNew ==
  ListInv /\ pc # "idle" /\ entry # NULL =>
    kOff < entry.off /\ \A i \in 1..Len(buf_) : buf_[i].off < entry.off
<1> SUFFICES ASSUME ListInv, pc # "idle", entry # NULL
             PROVE  kOff < entry.off /\ \A i \in 1..Len(buf_) : buf_[i].off < entry.off
  OBVIOUS
<1> USE DEF ListInv
<1>1. entry \in Dirent /\ buf_ \in Seq(Dirent) /\ kOff \in 0..Positions
  BY DEF TypeOK
<1>2. entry.off \in 1..Positions
  BY <1>1, DirentFields
<1>3. \A i \in 1..Len(buf_) : buf_[i].off \in 1..Positions
  BY <1>1, DirentFields
<1>4. ~Packed(entry.off)
  BY DEF OrderInv
<1> QED
  BY <1>1, <1>2, <1>3, <1>4, ReadDirAssumption DEF Packed

LEMMA EntryIsNewNext ==
  ListInv' /\ (pc # "idle")' /\ (entry # NULL)' =>
    (kOff < entry.off /\ \A i \in 1..Len(buf_) : buf_[i].off < entry.off)'
  BY EntryIsNew, PTL

LEMMA ReadEntryAdvances ==
  ASSUME ListInv, ListInv', ReadEntry
  PROVE  kOff' = kOff /\ StepsLeft' < StepsLeft
<1>1. pc = "read" /\ kOff' = kOff /\ buf_' = buf_ /\ pc' \in {"reply", "find"}
  BY DEF ReadEntry, kernelVars
<1>2. entry = NULL
  BY <1>1 DEF ListInv, PlaceInv
<1>3. Reached \in 0..Positions /\ Reached' \in 0..Positions
  BY ReachedType, ReachedTypeNext
<1>4. StepsLeft = 3 * (Positions - Reached) + 2
  BY <1>1 DEF StepsLeft
<1>5. CASE pc' = "reply"
  <2>1. StepsLeft' = 0
    BY <1>5 DEF StepsLeft
  <2> QED
    BY <2>1, <1>1, <1>3, <1>4, ReadDirAssumption
<1>6. CASE pc' = "find"
  <2>1. StepsLeft' = 3 * (Positions - Reached') + 4
    BY <1>6 DEF StepsLeft
  <2>2. entry' # NULL
    BY <1>6 DEF ListInv, PlaceInv
  <2>3. kOff' < entry'.off /\ \A i \in 1..Len(buf_') : buf_'[i].off < entry'.off
    BY <2>2, <1>6, EntryIsNewNext
  <2>4. Reached' = entry'.off
    BY <2>2 DEF Reached
  <2>5. Reached < Reached'
    <3>1. CASE buf_ = <<>>
      BY <3>1, <2>3, <2>4, <1>1, <1>2 DEF Reached
    <3>2. CASE buf_ # <<>>
      <4>1. buf_ \in Seq(Dirent)
        BY DEF ListInv, TypeOK
      <4>2. Len(buf_) \in 1..Len(buf_)
        BY <3>2, <4>1
      <4>3. Reached = buf_[Len(buf_)].off
        BY <3>2, <1>2 DEF Reached
      <4> QED
        BY <4>2, <4>3, <2>3, <2>4, <1>1
    <3> QED
      BY <3>1, <3>2
  <2> QED
    <3>1. ASSUME NEW a \in 0..Positions, NEW b \in 0..Positions, a < b
          PROVE  3 * (Positions - b) + 4 < 3 * (Positions - a) + 2
      BY <3>1, ReadDirAssumption
    <3> QED
      BY <3>1, <2>1, <2>5, <1>1, <1>3, <1>4
<1> QED
  BY <1>1, <1>5, <1>6

LEMMA AddDirEntryAdvances ==
  ASSUME ListInv, AddDirEntry
  PROVE  kOff' = kOff /\ StepsLeft' < StepsLeft
<1>1. pc = "add" /\ kOff' = kOff /\ entry' = NULL /\ entry # NULL
  BY DEF AddDirEntry, kernelVars, ListInv, PlaceInv
<1>2. Reached \in 0..Positions /\ Reached = entry.off
  BY <1>1, ReachedType DEF Reached
<1>3. StepsLeft = 3 * (Positions - Reached) + 3
  BY <1>1 DEF StepsLeft
<1>4. CASE pc' = "reply"
  <2>1. StepsLeft' = 0
    BY <1>4 DEF StepsLeft
  <2> QED
    BY <2>1, <1>1, <1>2, <1>3, ReadDirAssumption
<1>5. CASE pc' = "read" /\ buf_' = Append(buf_, entry)
  <2>1. StepsLeft' = 3 * (Positions - Reached') + 2
    BY <1>5 DEF StepsLeft
  <2>2. buf_ \in Seq(Dirent) /\ entry \in Dirent
    BY <1>1 DEF ListInv, TypeOK
  <2>3. buf_' # <<>> /\ buf_'[Len(buf_')] = entry
    BY <2>2, <1>5
  <2>4. Reached' = entry.off
    BY <2>3, <1>1 DEF Reached
  <2> QED
    BY <2>1, <2>4, <1>1, <1>2, <1>3, ReadDirAssumption
<1> QED
  BY <1>4, <1>5 DEF AddDirEntry

LEMMA EntryFoundAdvances ==
  ASSUME ListInv, EntryFound
  PROVE  kOff' = kOff /\ StepsLeft' < StepsLeft
<1>1. /\ pc = "find" /\ pc' = "add"
      /\ kOff' = kOff /\ entry' = entry /\ buf_' = buf_
  BY DEF EntryFound, kernelVars
<1>2. Reached' = Reached
  BY <1>1 DEF Reached
<1>3. StepsLeft = 3 * (Positions - Reached) + 4 /\ StepsLeft' = 3 * (Positions - Reached') + 3
  BY <1>1 DEF StepsLeft
<1>4. Reached \in 0..Positions
  BY ReachedType
<1> QED
  BY <1>1, <1>2, <1>3, <1>4, ReadDirAssumption

LEMMA AskAdvances ==
  ASSUME ListInv, Ask
  PROVE  kOff' = kOff /\ StepsLeft' < StepsLeft
<1>1. /\ pc = "idle" /\ pc' = "read"
      /\ kOff' = kOff /\ entry' = entry /\ buf_' = <<>>
  BY DEF Ask, Receive, kernelVars
<1>2. Reached' = kOff
  BY <1>1 DEF Reached, ListInv, PlaceInv
<1>3. StepsLeft = 3 * Positions + 3 /\ StepsLeft' = 3 * (Positions - Reached') + 2
  BY <1>1 DEF StepsLeft
<1>4. kOff \in 0..Positions
  BY DEF ListInv, TypeOK
<1> QED
  BY <1>1, <1>2, <1>3, <1>4, ReadDirAssumption

LEMMA ReplyEntriesAdvances ==
  ASSUME ListInv, NEW k \in 1..Positions, ReplyEntries(k)
  PROVE  kOff' > kOff
<1>1. buf_ \in Seq(Dirent) /\ kOff \in 0..Positions
  BY DEF ListInv, TypeOK
<1>2. k \in 1..Len(buf_)
  BY <1>1, ReadDirAssumption DEF ReplyEntries
<1>3. kOff < buf_[k].off
  BY <1>2 DEF ReplyEntries, ListInv, OrderInv
<1>4. buf_[k] \in Dirent
  BY <1>1, <1>2
<1>5. buf_[k].off \in 1..Positions
  BY <1>4, DirentFields
<1> QED
  BY <1>1, <1>3, <1>5, ReadDirAssumption DEF ReplyEntries

LEMMA StepAdvances == ListInv /\ ListInv' /\ [Next]_vars => Advance
<1> SUFFICES ASSUME ListInv, ListInv', [Next]_vars, listing = "reading"
             PROVE  /\ Handler \/ Ask =>
                         \/ listing' # "reading"
                         \/ kOff' > kOff
                         \/ kOff' = kOff /\ StepsLeft' < StepsLeft
                    /\ ~(Handler \/ Ask) =>
                         listing' = listing /\ kOff' = kOff /\ StepsLeft' = StepsLeft
  BY DEF Advance
<1>1. CASE Handler \/ Ask
  <2>1. ASSUME Fail PROVE listing' # "reading"
    BY <2>1 DEF Fail
  <2>2. ASSUME ReplyEnd PROVE listing' # "reading"
    BY <2>2 DEF ReplyEnd
  <2> QED
    BY <1>1, <2>1, <2>2, ReadEntryAdvances, AddDirEntryAdvances, EntryFoundAdvances,
       AskAdvances, ReplyEntriesAdvances DEF Handler, HandlerFails, ReplyFails
<1>2. CASE ~(Handler \/ Ask)
  <2>1. listing' = listing /\ kOff' = kOff /\ pc' = pc /\ entry' = entry /\ buf_' = buf_
    BY <1>2 DEF Next, StartListing, Remove, Make, vars, kernelVars
  <2>2. StepsLeft' = StepsLeft
    BY <2>1 DEF StepsLeft, Reached
  <2> QED
    BY <2>1, <2>2, <1>2
<1> QED
  BY <1>1, <1>2

(***************************************************************************)
(* The safety half of "a listing ends": with the lexicographic order of    *)
(* what is left of the directory and the steps left before a reply, every  *)
(* step of ReadDirInternal and every request goes down, whatever others    *)
(* add and remove meanwhile and however small the buffers are.  A listing  *)
(* takes at most one request for each offset, and no request loops.        *)
(***************************************************************************)
THEOREM ListingsAdvance ==
  Spec => [](kOff \in 0..Positions /\ StepsLeft \in Nat) /\ [][Advance]_vars
<1>1. ListInv => kOff \in 0..Positions /\ StepsLeft \in Nat
  BY StepsLeftType DEF ListInv, TypeOK
<1> QED
  BY <1>1, ListInvHolds, StepAdvances, PTL DEF Spec
=============================================================================
