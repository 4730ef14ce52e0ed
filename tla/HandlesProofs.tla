--------------------------- MODULE HandlesProofs ---------------------------
(***************************************************************************)
(* Who owns a descriptor: proofs about Handles.tla, for any number of      *)
(* threads, descriptors, files and Directory objects.                      *)
(***************************************************************************)
EXTENDS Handles, FiniteSetTheorems, TLAPS

Opened == handles \cup Held

\* The FileDescriptor on the stack of t has a number that nobody else has.
OwnsFd(t) ==
  \/ pc[t] \in {"lookup", "fdopendir", "destroy"}
  \/ pc[t] = "reply" /\ op[t] # "OpenDir"

\* The Directory of t has not been handed over.
OwnsDir(t) == pc[t] = "reply" /\ op[t] = "OpenDir"

\* The request of t is about an open file.
Serves(t) ==
  \/ pc[t] \in {"dup", "use", "close"}
  \/ pc[t] = "destroy" /\ op[t] = "Flush"

\* What a thread has on its stack follows from where it is.
LocalInv ==
  \A t \in Threads :
    /\ fd_[t] # NULL <=> OwnsFd(t) \/ pc[t] = "release"
    /\ dir_[t] # NULL <=> OwnsDir(t)
    /\ cur[t] # NULL <=> Serves(t)
    /\ pc[t] = "open" => op[t] \in Openers
    /\ pc[t] = "lookup" => op[t] = "Create"
    /\ pc[t] = "fdopendir" => op[t] = "OpenDir"
    /\ pc[t] = "reply" => op[t] \in Openers
    /\ pc[t] \in {"release", "destroy"} => op[t] \in {"Open", "Create", "Flush"}
    /\ pc[t] = "dup" => op[t] = "Flush"
    /\ pc[t] = "close" => op[t] \in Releasers
    /\ Serves(t) => op[t] \in IF cur[t].kind = "file" THEN FileUsers ELSE DirUsers

\* The descriptors that are never closed, and the one of the Inode.
FixedInv ==
  /\ fdt[0] \in {"std", "root"}
  /\ \A n \in Fds : fdt[n] = "root" <=> n = rootFd
  /\ \A n \in Fds : fdt[n] = "inode" <=> n = inodeFd

\* The FileDescriptors on the stacks, each with a number of its own.
StackInv ==
  \A t \in Threads : OwnsFd(t) =>
    /\ fdt[fd_[t]] \in IF pc[t] = "fdopendir" THEN DirIds ELSE FileIds
    /\ \A u \in Threads \ {t} : OwnsFd(u) => fd_[u] # fd_[t]
    /\ \A h \in Opened : h.kind = "file" => h.fh # fd_[t]
    /\ \A a \in Addrs : dirs[a] # fd_[t]

\* The Directory objects, each with a descriptor of its own.
DirInv ==
  /\ \A a \in Addrs : dirs[a] # NULL => fdt[dirs[a]] \in DirIds
  /\ \A a, b \in Addrs : dirs[a] # NULL /\ dirs[a] = dirs[b] => a = b
  /\ \A t \in Threads : OwnsDir(t) =>
       /\ dirs[dir_[t]] # NULL
       /\ \A u \in Threads \ {t} : OwnsDir(u) => dir_[u] # dir_[t]
       /\ \A h \in Opened : h.kind = "dir" => h.fh # dir_[t]

\* The open files.  The one being released is nobody else's.
HandleInv ==
  /\ \A h \in Opened : IsOpenOn(h) /\ (h.kind = "file" => h.id \in FileIds)
  /\ \A t \in Threads : Serves(t) /\ pc[t] # "close" => cur[t] \in handles
  /\ \A t \in Threads : pc[t] = "close" =>
       cur[t] \notin handles /\ \A u \in Threads \ {t} : cur[u] # cur[t]

\* Somebody will close every file that is open.
ClosedInv ==
  \A n \in Fds : fdt[n] \in FileIds =>
    \/ \E t \in Threads : OwnsFd(t) /\ fd_[t] = n
    \/ \E h \in Opened : h.kind = "file" /\ h.fh = n

OwnerInv ==
  /\ TypeOK /\ LocalInv /\ FixedInv /\ StackInv /\ DirInv /\ HandleInv /\ ClosedInv

USE HandlesAssumption
-----------------------------------------------------------------------------
\* A set of numbers that is not empty has a least one.
LEMMA LeastNumber ==
  ASSUME NEW N \in Nat, NEW S \in SUBSET (0..N), S # {}
  PROVE  \E n \in S : \A m \in S : n <= m
<1> DEFINE Below(x) == {y \in S : y < x}
           Belows == {Below(x) : x \in S}
<1>1. IsFiniteSet(S)
  <2>1. IsFiniteSet(0..N)
    BY FS_Interval
  <2> QED
    BY <2>1, FS_Subset
<1>2. Belows \subseteq FiniteSubsetsOf(S)
  BY <1>1, FS_Subset DEF FiniteSubsetsOf
<1>0. Belows # {}
  OBVIOUS
<1> HIDE DEF Belows
<1>3. PICK b \in Belows : \A c \in Belows : <<c, b>> \notin StrictSubsetOrdering(S)
  BY <1>2, <1>0, FS_StrictSubsetOrderingWellFounded, WFMin
<1>4. PICK x \in S : b = Below(x)
  BY DEF Belows
<1>5. ASSUME NEW m \in S, m < x
      PROVE  FALSE
  <2>1. Below(m) \in Belows
    BY DEF Belows
  <2>2. m \in Below(x) /\ m \notin Below(m)
    BY <1>5
  <2>3. \A y \in Below(m) : y \in Below(x)
    BY <1>5
  <2>4. <<Below(m), Below(x)>> \in StrictSubsetOrdering(S)
    BY <2>2, <2>3 DEF StrictSubsetOrdering
  <2> QED
    BY <1>3, <1>4, <2>1, <2>4
<1> QED
  BY <1>5

\* The kernel gives out a number that is free.
LEMMA LowestIsFree ==
  ASSUME Free # {}
  PROVE  Lowest \in Fds /\ fdt[Lowest] = NULL
<1>1. \E n \in Free : \A m \in Free : n <= m
  BY LeastNumber DEF Free, Fds
<1> QED
  BY <1>1 DEF Lowest, Free
-----------------------------------------------------------------------------
\* The state the session loop starts in has an owner for everything.
LEMMA OwnerInitially == Init => OwnerInv
<1> SUFFICES ASSUME Init PROVE OwnerInv
  OBVIOUS
<1>1. Opened = {}
  BY DEF Init, Opened, Held
<1>2. TypeOK
  BY DEF Init, TypeOK, Fds, Openers
<1>3. LocalInv
  BY DEF Init, LocalInv, OwnsFd, OwnsDir, Serves
<1>4. FixedInv
  BY DEF Init, FixedInv, Fds
<1>5. StackInv /\ DirInv /\ HandleInv
  BY <1>1 DEF Init, StackInv, DirInv, HandleInv, OwnsFd, OwnsDir, Serves
<1>6. ClosedInv
  BY DEF Init, ClosedInv, Ids, Fds
<1> QED
  BY <1>2, <1>3, <1>4, <1>5, <1>6 DEF OwnerInv

\* An open file has a descriptor or a Directory of the right type.
LEMMA OpenedTyped ==
  ASSUME TypeOK, NEW h \in Opened
  PROVE  \/ h.kind = "file" /\ h.fh \in Fds
         \/ h.kind = "dir" /\ h.fh \in Addrs
<1>1. h \in Handle
  BY DEF Opened, Held, TypeOK
<1> QED
  BY <1>1 DEF Handle

\* A thread whose request is over held at most its own open file.
LEMMA ReturnOpened ==
  ASSUME TypeOK, NEW t \in Threads, Return(t), handles' = handles
  PROVE  Opened' \subseteq Opened /\ Opened \ {cur[t]} \subseteq Opened'
BY DEF Return, Opened, Held, TypeOK

\* A handler that returns and leaves the kernel and the heap as they are.
\* Only OpenDir does so with a descriptor nobody else has.
LEMMA OwnerReturn ==
  ASSUME OwnerInv, NEW t \in Threads, Return(t),
         UNCHANGED <<fdt, handles, dirs, rootFd, inodeFd>>,
         OwnsFd(t) => op[t] = "OpenDir",
         pc[t] # "close"
  PROVE  OwnerInv'
<1> USE DEF OwnerInv
<1>0. Opened' \subseteq Opened
  BY ReturnOpened
<1>1. TypeOK'
  BY DEF TypeOK, Return, Goto, Openers
<1>2. LocalInv'
  BY DEF TypeOK, Return, Goto, LocalInv, OwnsFd, OwnsDir, Serves, Openers
<1>3. FixedInv'
  BY DEF FixedInv
<1>4. StackInv'
  BY <1>0 DEF TypeOK, Return, Goto, StackInv, OwnsFd
<1>5. DirInv'
  BY <1>0 DEF TypeOK, Return, Goto, DirInv, OwnsDir
<1>6. HandleInv'
  BY <1>0 DEF TypeOK, Return, Goto, HandleInv, LocalInv, Serves, IsOpenOn
<1>7. ClosedInv'
  <2> SUFFICES ASSUME NEW n \in Fds, fdt[n] \in FileIds
               PROVE  \/ \E u \in Threads : OwnsFd(u)' /\ fd_'[u] = n
                      \/ \E h \in Opened' : h.kind = "file" /\ h.fh = n
    BY DEF ClosedInv
  <2>1. CASE \E u \in Threads : OwnsFd(u) /\ fd_[u] = n
    BY <2>1 DEF TypeOK, Return, Goto, LocalInv, StackInv, OwnsFd
  <2>2. CASE \E h \in Opened : h.kind = "file" /\ h.fh = n
    <3>1. cur[t] # NULL => cur[t] \in Opened'
      BY DEF HandleInv, LocalInv, Opened
    <3>2. NULL \notin Opened
      BY DEF Opened, Held, TypeOK
    <3> QED
      BY <2>2, <3>1, <3>2, ReturnOpened
  <2> QED
    BY <2>1, <2>2 DEF ClosedInv
<1> QED
  BY <1>1, <1>2, <1>3, <1>4, <1>5, <1>6, <1>7

\* A step on which no descriptor, Directory or open file changes hands.
LEMMA OwnerReceive ==
  ASSUME OwnerInv, NEW t \in Threads, NEW o \in Openers, Receive(t, o)
  PROVE  OwnerInv'
<1> USE DEF OwnerInv, Receive, Goto
<1>0. Opened' = Opened
  BY DEF Opened, Held
<1>1. TypeOK'
  BY DEF TypeOK
<1>2. LocalInv'
  BY DEF TypeOK, LocalInv, OwnsFd, OwnsDir, Serves
<1>3. FixedInv'
  BY DEF FixedInv
<1>4. StackInv'
  BY <1>0 DEF TypeOK, StackInv, OwnsFd
<1>5. DirInv'
  BY <1>0 DEF TypeOK, DirInv, OwnsDir
<1>6. HandleInv'
  BY <1>0 DEF TypeOK, HandleInv, Serves, IsOpenOn
<1>7. ClosedInv'
  BY <1>0 DEF TypeOK, ClosedInv, OwnsFd
<1> QED
  BY <1>1, <1>2, <1>3, <1>4, <1>5, <1>6, <1>7

\* A request about an open file: a Release takes it away from everybody else.
LEMMA OwnerReceiveOn ==
  ASSUME OwnerInv, NEW t \in Threads, NEW o \in FileUsers \cup DirUsers,
         NEW h \in handles, ReceiveOn(t, o, h)
  PROVE  OwnerInv'
<1> USE DEF OwnerInv, ReceiveOn, Goto
<1>a. h \in Handle /\ cur[t] = NULL
  BY DEF TypeOK, LocalInv, Serves
<1>0. Opened' = Opened
  BY <1>a DEF Opened, Held, TypeOK
<1>1. TypeOK'
  BY <1>a DEF TypeOK
<1>2. LocalInv'
  BY <1>a DEF TypeOK, LocalInv, OwnsFd, OwnsDir, Serves, FileUsers, DirUsers, Releasers
<1>3. FixedInv'
  BY DEF FixedInv
<1>4. StackInv'
  BY <1>0 DEF TypeOK, StackInv, OwnsFd
<1>5. DirInv'
  BY <1>0 DEF TypeOK, DirInv, OwnsDir
<1>6. HandleInv'
  <2>1. \A u \in Threads \ {t} : o \in Releasers => cur[u] # h
    BY <1>a DEF Held, TypeOK
  <2>2. \A u \in Threads \ {t} : pc[u] = "close" => cur[u] # h
    BY DEF HandleInv
  <2>3. \A g \in Opened' : IsOpenOn(g)' /\ (g.kind = "file" => g.id \in FileIds)
    BY <1>0 DEF HandleInv, IsOpenOn
  <2>4. \A u \in Threads : Serves(u)' /\ pc'[u] # "close" => cur'[u] \in handles'
    BY <2>1 DEF HandleInv, Serves, TypeOK, Releasers
  <2>5. \A u \in Threads : pc'[u] = "close" =>
          cur'[u] \notin handles' /\ \A v \in Threads \ {u} : cur'[v] # cur'[u]
    BY <2>1, <2>2 DEF HandleInv, Serves, TypeOK, Releasers
  <2> QED
    BY <2>3, <2>4, <2>5 DEF HandleInv
<1>7. ClosedInv'
  BY <1>0 DEF TypeOK, ClosedInv, OwnsFd
<1> QED
  BY <1>1, <1>2, <1>3, <1>4, <1>5, <1>6, <1>7

\* open and openat: the new number was nobody's.
LEMMA OwnerOpen ==
  ASSUME OwnerInv, NEW t \in Threads, NEW i \in Ids, OpenSucceeds(t, i)
  PROVE  OwnerInv'
<1> USE DEF OwnerInv, OpenSucceeds, Goto
<1> DEFINE n == Lowest
<1>a. n \in Fds /\ fdt[n] = NULL
  BY LowestIsFree
<1> HIDE DEF n
<1>b. /\ fdt' = [fdt EXCEPT ![n] = i]
      /\ fd_' = [fd_ EXCEPT ![t] = n]
  BY DEF n
<1>c. op[t] \in Openers
  BY DEF LocalInv
<1>d. pc' = [pc EXCEPT ![t] = IF op[t] = "Open" THEN "reply"
                              ELSE IF op[t] = "Create" THEN "lookup" ELSE "fdopendir"]
  <2>1. /\ AfterOpen["Open"] = "reply"
        /\ AfterOpen["Create"] = "lookup"
        /\ AfterOpen["OpenDir"] = "fdopendir"
    BY DEF AfterOpen
  <2> QED
    BY <1>c, <2>1 DEF Openers
<1>0. Opened' = Opened
  BY DEF Opened, Held
<1>1. TypeOK'
  BY <1>a, <1>b, <1>d DEF TypeOK
<1>2. LocalInv'
  BY <1>a, <1>b, <1>c, <1>d DEF TypeOK, LocalInv, OwnsFd, OwnsDir, Serves, Openers
<1>3. FixedInv'
  BY <1>a, <1>b DEF FixedInv, TypeOK, Ids, Fds
<1>e. \A h \in Opened : h.kind = "file" => h.fh # n
  BY <1>a DEF HandleInv, IsOpenOn, Ids
<1>f. \A a \in Addrs : dirs[a] # n
  BY <1>a DEF DirInv, Ids
<1>4. StackInv'
  BY <1>0, <1>a, <1>b, <1>c, <1>d, <1>e, <1>f DEF TypeOK, StackInv, OwnsFd, Openers, Ids
<1>5. DirInv'
  BY <1>0, <1>a, <1>b, <1>d, <1>f DEF TypeOK, DirInv, OwnsDir
<1>6. HandleInv'
  <2>1. \A h \in Opened' : IsOpenOn(h)' /\ (h.kind = "file" => h.id \in FileIds)
    BY <1>0, <1>a, <1>b, <1>e, <1>f, OpenedTyped DEF TypeOK, HandleInv, IsOpenOn
  <2> QED
    BY <2>1, <1>d, <1>c DEF TypeOK, HandleInv, Serves, Openers
<1>7. ClosedInv'
  BY <1>0, <1>a, <1>b, <1>d, <1>c DEF TypeOK, ClosedInv, OwnsFd, Openers
<1> QED
  BY <1>1, <1>2, <1>3, <1>4, <1>5, <1>6, <1>7

\* Create looks the new file up, and keeps its descriptor either way.
LEMMA OwnerLookUp ==
  ASSUME OwnerInv, NEW t \in Threads, LookUp(t)
  PROVE  OwnerInv'
<1> USE DEF OwnerInv
<1>a. /\ op[t] = "Create" /\ pc[t] = "lookup"
      /\ pc' = [pc EXCEPT ![t] = "reply"] \/ pc' = [pc EXCEPT ![t] = "destroy"]
      /\ UNCHANGED <<fdt, handles, dirs, rootFd, inodeFd, op, cur, fd_, dir_>>
  BY DEF LookUp, Goto, LocalInv
<1>0. Opened' = Opened
  BY <1>a DEF Opened, Held
<1>1. TypeOK'
  BY <1>a DEF TypeOK
<1>2. LocalInv'
  BY <1>a DEF TypeOK, LocalInv, OwnsFd, OwnsDir, Serves, Openers
<1>3. FixedInv'
  BY <1>a DEF FixedInv
<1>4. StackInv'
  BY <1>0, <1>a DEF TypeOK, StackInv, OwnsFd
<1>5. DirInv'
  BY <1>0, <1>a DEF TypeOK, DirInv, OwnsDir
<1>6. HandleInv'
  BY <1>0, <1>a DEF TypeOK, HandleInv, Serves, IsOpenOn
<1>7. ClosedInv'
  BY <1>0, <1>a DEF TypeOK, ClosedInv, OwnsFd
<1> QED
  BY <1>1, <1>2, <1>3, <1>4, <1>5, <1>6, <1>7

\* fdopendir: the descriptor goes from the stack to a new Directory.
LEMMA OwnerFdOpenDir ==
  ASSUME OwnerInv, NEW t \in Threads, NEW a \in Addrs, FdOpenDirSucceeds(t, a)
  PROVE  OwnerInv'
<1> USE DEF OwnerInv, FdOpenDirSucceeds, Goto
<1>a. op[t] = "OpenDir" /\ fd_[t] \in Fds /\ fdt[fd_[t]] \in DirIds
  BY DEF LocalInv, OwnsFd, StackInv, TypeOK
<1>0. Opened' = Opened
  BY DEF Opened, Held
<1>b. \A h \in Opened : h.kind = "dir" => h.fh # a
  BY DEF HandleInv, IsOpenOn
<1>1. TypeOK'
  BY <1>a DEF TypeOK
<1>2. LocalInv'
  BY <1>a DEF TypeOK, LocalInv, OwnsFd, OwnsDir, Serves, Openers
<1>3. FixedInv'
  BY DEF FixedInv
<1>4. StackInv'
  BY <1>0, <1>a DEF TypeOK, StackInv, OwnsFd
<1>5. DirInv'
  <2>1. \A b \in Addrs : dirs'[b] # NULL => fdt'[dirs'[b]] \in DirIds
    BY <1>a DEF TypeOK, DirInv
  <2>2. \A b, c \in Addrs : dirs'[b] # NULL /\ dirs'[b] = dirs'[c] => b = c
    BY <1>a DEF TypeOK, DirInv, StackInv, OwnsFd
  <2>3. \A u \in Threads : OwnsDir(u)' =>
          /\ dirs'[dir_'[u]] # NULL
          /\ \A v \in Threads \ {u} : OwnsDir(v)' => dir_'[v] # dir_'[u]
          /\ \A h \in Opened' : h.kind = "dir" => h.fh # dir_'[u]
    BY <1>0, <1>a, <1>b DEF TypeOK, DirInv, OwnsDir, LocalInv
  <2> QED
    BY <2>1, <2>2, <2>3 DEF DirInv
<1>6. HandleInv'
  <2>1. \A h \in Opened' : IsOpenOn(h)' /\ (h.kind = "file" => h.id \in FileIds)
    BY <1>0, <1>b, OpenedTyped DEF TypeOK, HandleInv, IsOpenOn
  <2> QED
    BY <2>1 DEF TypeOK, HandleInv, Serves
<1>7. ClosedInv'
  BY <1>0, <1>a DEF TypeOK, ClosedInv, OwnsFd
<1> QED
  BY <1>1, <1>2, <1>3, <1>4, <1>5, <1>6, <1>7

\* A reply that is sent: what was on the stack, or on the heap, is the
\* kernel's.
LEMMA OwnerReplySent ==
  ASSUME OwnerInv, NEW t \in Threads, ReplySent(t)
  PROVE  OwnerInv'
<1> USE DEF OwnerInv
<1> DEFINE g == Given(t)
<1>a. /\ pc[t] = "reply" /\ op[t] \in Openers /\ cur[t] = NULL
      /\ handles' = handles \cup {g}
      /\ UNCHANGED <<fdt, dirs, rootFd, inodeFd>>
  BY DEF ReplySent, LocalInv, Serves
<1>b. CASE op[t] = "OpenDir"
  <2>a. dir_[t] \in Addrs /\ dirs[dir_[t]] \in Fds /\ fdt[dirs[dir_[t]]] \in DirIds
    BY <1>a, <1>b DEF LocalInv, DirInv, OwnsDir, TypeOK
  <2>b. g = [id |-> fdt[dirs[dir_[t]]], kind |-> "dir", fh |-> dir_[t]]
    BY <1>b DEF Given
  <2>c. g \in Handle
    BY <2>a, <2>b DEF Handle, Ids
  <2>d. g.kind = "dir" /\ g.fh = dir_[t] /\ g.id = fdt[dirs[dir_[t]]]
    BY <2>b
  <2> HIDE DEF g
  <2>e. Return(t)
    BY <1>b DEF ReplySent
  <2>f. g \notin Opened
    BY <1>a, <1>b, <2>d DEF DirInv, OwnsDir
  <2>0. Opened' = Opened \cup {g}
    BY <1>a, <2>e DEF Opened, Held, Return, TypeOK
  <2>1. TypeOK'
    BY <1>a, <2>c, <2>e DEF TypeOK, Return, Goto, Openers
  <2>2. LocalInv'
    BY <1>a, <2>e DEF TypeOK, Return, Goto, LocalInv, OwnsFd, OwnsDir, Serves, Openers
  <2>3. FixedInv'
    BY <1>a DEF FixedInv
  <2>4. StackInv'
    BY <1>a, <2>0, <2>d, <2>e DEF TypeOK, Return, Goto, StackInv, OwnsFd
  <2>5. DirInv'
    BY <1>a, <1>b, <2>0, <2>d, <2>e DEF TypeOK, Return, Goto, DirInv, OwnsDir
  <2>6. HandleInv'
    <3>1. \A h \in Opened' : IsOpenOn(h)' /\ (h.kind = "file" => h.id \in FileIds)
      BY <1>a, <2>0, <2>a, <2>d DEF HandleInv, IsOpenOn
    <3>2. \A u \in Threads : pc[u] = "close" => cur[u] # g
      BY <2>f DEF Opened, Held, LocalInv, Serves
    <3> QED
      BY <3>1, <3>2, <1>a, <2>e DEF TypeOK, Return, Goto, HandleInv, Serves, LocalInv
  <2>7. ClosedInv'
    BY <1>a, <1>b, <2>0, <2>e DEF TypeOK, Return, Goto, ClosedInv, OwnsFd
  <2> QED
    BY <2>1, <2>2, <2>3, <2>4, <2>5, <2>6, <2>7
<1>c. CASE op[t] # "OpenDir"
  <2>a. fd_[t] \in Fds /\ fdt[fd_[t]] \in FileIds
    BY <1>a, <1>c DEF LocalInv, StackInv, OwnsFd, TypeOK
  <2>b. g = [id |-> fdt[fd_[t]], kind |-> "file", fh |-> fd_[t]]
    BY <1>c DEF Given
  <2>c. g \in Handle
    BY <2>a, <2>b DEF Handle, Ids
  <2>d. g.kind = "file" /\ g.fh = fd_[t] /\ g.id = fdt[fd_[t]]
    BY <2>b
  <2> HIDE DEF g
  <2>e. pc' = [pc EXCEPT ![t] = "release"] /\ UNCHANGED <<op, cur, fd_, dir_>>
    BY <1>c DEF ReplySent, Goto
  <2>f. g \notin Opened
    BY <1>a, <1>c, <2>d DEF StackInv, OwnsFd
  <2>0. Opened' = Opened \cup {g}
    BY <1>a, <2>e DEF Opened, Held
  <2>1. TypeOK'
    BY <1>a, <2>c, <2>e DEF TypeOK
  <2>2. LocalInv'
    BY <1>a, <1>c, <2>e DEF TypeOK, LocalInv, OwnsFd, OwnsDir, Serves, Openers
  <2>3. FixedInv'
    BY <1>a DEF FixedInv
  <2>4. StackInv'
    BY <1>a, <1>c, <2>0, <2>d, <2>e DEF TypeOK, StackInv, OwnsFd
  <2>5. DirInv'
    BY <1>a, <1>c, <2>0, <2>d, <2>e DEF TypeOK, DirInv, OwnsDir
  <2>6. HandleInv'
    <3>1. \A h \in Opened' : IsOpenOn(h)' /\ (h.kind = "file" => h.id \in FileIds)
      BY <1>a, <2>0, <2>a, <2>d DEF HandleInv, IsOpenOn
    <3>2. \A u \in Threads : pc[u] = "close" => cur[u] # g
      BY <2>f DEF Opened, Held, LocalInv, Serves
    <3> QED
      BY <3>1, <3>2, <1>a, <2>e DEF TypeOK, HandleInv, Serves
  <2>7. ClosedInv'
    BY <1>a, <2>0, <2>d, <2>e DEF TypeOK, ClosedInv, OwnsFd
  <2> QED
    BY <2>1, <2>2, <2>3, <2>4, <2>5, <2>6, <2>7
<1> QED
  BY <1>b, <1>c

\* A reply that fails: Open and Create still have their descriptor to close.
LEMMA OwnerReplyFails ==
  ASSUME OwnerInv, NEW t \in Threads, ReplyFails(t)
  PROVE  OwnerInv'
<1> USE DEF OwnerInv
<1>a. CASE op[t] = "OpenDir"
  BY <1>a, OwnerReturn DEF ReplyFails, OwnsFd
<1>b. CASE op[t] # "OpenDir"
  <2>a. /\ pc[t] = "reply" /\ op[t] \in {"Open", "Create"}
        /\ pc' = [pc EXCEPT ![t] = "destroy"]
        /\ UNCHANGED <<fdt, handles, dirs, rootFd, inodeFd, op, cur, fd_, dir_>>
    BY <1>b DEF ReplyFails, Goto, LocalInv, Openers
  <2>0. Opened' = Opened
    BY <2>a DEF Opened, Held
  <2>1. TypeOK'
    BY <2>a DEF TypeOK
  <2>2. LocalInv'
    BY <2>a DEF TypeOK, LocalInv, OwnsFd, OwnsDir, Serves, Openers
  <2>3. FixedInv'
    BY <2>a DEF FixedInv
  <2>4. StackInv'
    BY <2>0, <2>a DEF TypeOK, StackInv, OwnsFd
  <2>5. DirInv'
    BY <2>0, <2>a DEF TypeOK, DirInv, OwnsDir
  <2>6. HandleInv'
    BY <2>0, <2>a DEF TypeOK, HandleInv, Serves, IsOpenOn
  <2>7. ClosedInv'
    BY <2>0, <2>a DEF TypeOK, ClosedInv, OwnsFd
  <2> QED
    BY <2>1, <2>2, <2>3, <2>4, <2>5, <2>6, <2>7
<1> QED
  BY <1>a, <1>b

\* The destructor of a FileDescriptor closes a number nobody else has.
LEMMA OwnerDestroyFd ==
  ASSUME OwnerInv, NEW t \in Threads, DestroyFd(t)
  PROVE  OwnerInv'
<1> USE DEF OwnerInv, DestroyFd
<1> DEFINE n == fd_[t]
<1>a. /\ n \in Fds /\ fdt[n] \in FileIds
      /\ \A h \in Opened : h.kind = "file" => h.fh # n
      /\ \A a \in Addrs : dirs[a] # n
      /\ \A u \in Threads \ {t} : OwnsFd(u) => fd_[u] # n
  BY DEF LocalInv, StackInv, OwnsFd, TypeOK
<1>b. fdt' = [fdt EXCEPT ![n] = NULL]
  BY DEF Closed
<1>c. n # 0 /\ n # rootFd /\ n # inodeFd
  BY <1>a DEF FixedInv, Ids
<1>d. cur[t] # NULL => cur[t] \in handles
  BY DEF LocalInv, HandleInv
<1> HIDE DEF n
<1>0. Opened' = Opened
  <2>1. NULL \notin Opened
    BY DEF Opened, Held, TypeOK
  <2> QED
    BY <1>d, <2>1, ReturnOpened DEF Opened
<1>1. TypeOK'
  BY <1>a, <1>b DEF TypeOK, Return, Goto, Openers
<1>2. LocalInv'
  BY DEF TypeOK, Return, Goto, LocalInv, OwnsFd, OwnsDir, Serves, Openers
<1>3. FixedInv'
  BY <1>a, <1>b, <1>c DEF FixedInv, TypeOK, Fds
<1>4. StackInv'
  BY <1>0, <1>a, <1>b DEF TypeOK, Return, Goto, StackInv, OwnsFd, LocalInv
<1>5. DirInv'
  BY <1>0, <1>a, <1>b DEF TypeOK, Return, Goto, DirInv, OwnsDir
<1>6. HandleInv'
  <2>1. \A h \in Opened' : IsOpenOn(h)' /\ (h.kind = "file" => h.id \in FileIds)
    BY <1>0, <1>a, <1>b, OpenedTyped DEF TypeOK, HandleInv, IsOpenOn
  <2> QED
    BY <2>1 DEF TypeOK, Return, Goto, HandleInv, Serves, LocalInv
<1>7. ClosedInv'
  BY <1>0, <1>a, <1>b DEF TypeOK, Return, Goto, ClosedInv, OwnsFd, n, Ids
<1> QED
  BY <1>1, <1>2, <1>3, <1>4, <1>5, <1>6, <1>7

\* Flush: the duplicate has a number of its own.
LEMMA OwnerDup ==
  ASSUME OwnerInv, NEW t \in Threads, DupSucceeds(t)
  PROVE  OwnerInv'
<1> USE DEF OwnerInv, DupSucceeds, Goto
<1> DEFINE n == Lowest
           i == fdt[cur[t].fh]
<1>a. n \in Fds /\ fdt[n] = NULL
  BY LowestIsFree
<1> HIDE DEF n
<1>b. /\ fdt' = [fdt EXCEPT ![n] = i]
      /\ fd_' = [fd_ EXCEPT ![t] = n]
  BY DEF n
<1>c. op[t] = "Flush" /\ Serves(t)
  BY DEF LocalInv, Serves
<1>d. i \in FileIds
  <2>1. cur[t].kind = "file" /\ cur[t] \in Opened
    BY <1>c DEF LocalInv, Opened, Held, FileUsers, DirUsers
  <2> QED
    BY <2>1 DEF HandleInv, IsOpenOn
<1> HIDE DEF i
<1>0. Opened' = Opened
  BY DEF Opened, Held
<1>1. TypeOK'
  BY <1>a, <1>b, <1>d DEF TypeOK, Ids
<1>2. LocalInv'
  BY <1>a, <1>b, <1>c DEF TypeOK, LocalInv, OwnsFd, OwnsDir, Serves, Openers
<1>3. FixedInv'
  BY <1>a, <1>b, <1>d DEF FixedInv, TypeOK, Ids, Fds
<1>e. \A h \in Opened : h.kind = "file" => h.fh # n
  BY <1>a DEF HandleInv, IsOpenOn, Ids
<1>f. \A a \in Addrs : dirs[a] # n
  BY <1>a DEF DirInv, Ids
<1>4. StackInv'
  BY <1>0, <1>a, <1>b, <1>d, <1>e, <1>f DEF TypeOK, StackInv, OwnsFd, Ids
<1>5. DirInv'
  BY <1>0, <1>a, <1>b, <1>f DEF TypeOK, DirInv, OwnsDir
<1>6. HandleInv'
  <2>1. \A h \in Opened' : IsOpenOn(h)' /\ (h.kind = "file" => h.id \in FileIds)
    BY <1>0, <1>a, <1>b, <1>e, <1>f, OpenedTyped DEF TypeOK, HandleInv, IsOpenOn
  <2> QED
    BY <2>1, <1>c DEF TypeOK, HandleInv, Serves
<1>7. ClosedInv'
  BY <1>0, <1>a, <1>b DEF TypeOK, ClosedInv, OwnsFd
<1> QED
  BY <1>1, <1>2, <1>3, <1>4, <1>5, <1>6, <1>7

\* Release and ReleaseDir have the open file to themselves.
LEMMA ReleasedIsAlone ==
  ASSUME OwnerInv, NEW t \in Threads, pc[t] = "close", Return(t), handles' = handles
  PROVE  /\ cur[t] \in Opened /\ Opened' = Opened \ {cur[t]}
         /\ \A g \in Opened' : g.kind = cur[t].kind => g.fh # cur[t].fh
         /\ cur[t].kind = IF op[t] = "Release" THEN "file" ELSE "dir"
<1> USE DEF OwnerInv
<1>1. cur[t] # NULL /\ op[t] \in Releasers
  BY DEF LocalInv, Serves
<1>2. cur[t] \in Opened
  BY <1>1 DEF Opened, Held
<1>3. cur[t] \notin Opened'
  BY <1>1 DEF HandleInv, Opened, Held, Return, TypeOK
<1>4. Opened' = Opened \ {cur[t]}
  BY <1>3, ReturnOpened
<1>5. \A g \in Opened : g \in Handle
  BY DEF Opened, Held, TypeOK
<1>6. \A g \in Opened' : g.kind = cur[t].kind => g.fh # cur[t].fh
  <2> SUFFICES ASSUME NEW g \in Opened, g # cur[t], g.kind = cur[t].kind, g.fh = cur[t].fh
               PROVE  FALSE
    BY <1>4
  <2>1. g.id = cur[t].id
    BY <1>2 DEF HandleInv, IsOpenOn
  <2> QED
    BY <2>1, <1>2, <1>5 DEF Handle
<1>7. cur[t].kind \in {"file", "dir"}
  BY <1>2, OpenedTyped
<1> QED
  BY <1>1, <1>2, <1>4, <1>6, <1>7 DEF LocalInv, Serves, Releasers, FileUsers, DirUsers

\* Release closes the number of a handle, which nobody else has.
LEMMA OwnerCloseFile ==
  ASSUME OwnerInv, NEW t \in Threads, CloseFile(t)
  PROVE  OwnerInv'
<1> USE DEF OwnerInv, CloseFile
<1> DEFINE n == cur[t].fh
<1>a. cur[t] \in Opened /\ cur[t].kind = "file" /\ Opened' = Opened \ {cur[t]}
  BY ReleasedIsAlone
<1>b. \A g \in Opened' : g.kind = "file" => g.fh # n
  BY <1>a, ReleasedIsAlone
<1>c. n \in Fds /\ fdt[n] \in FileIds
  BY <1>a, OpenedTyped DEF HandleInv, IsOpenOn
<1>d. fdt' = [fdt EXCEPT ![n] = NULL]
  BY DEF Closed
<1>e. n # 0 /\ n # rootFd /\ n # inodeFd /\ \A a \in Addrs : dirs[a] # n
  BY <1>c DEF FixedInv, DirInv, Ids
<1>f. \A u \in Threads : OwnsFd(u) => fd_[u] # n
  BY <1>a DEF StackInv
<1> HIDE DEF n
<1>1. TypeOK'
  BY <1>c, <1>d DEF TypeOK, Return, Goto, Openers
<1>2. LocalInv'
  BY DEF TypeOK, Return, Goto, LocalInv, OwnsFd, OwnsDir, Serves, Openers
<1>3. FixedInv'
  BY <1>c, <1>d, <1>e DEF FixedInv, TypeOK, Fds
<1>4. StackInv'
  BY <1>a, <1>c, <1>d, <1>f DEF TypeOK, Return, Goto, StackInv, OwnsFd, LocalInv
<1>5. DirInv'
  BY <1>a, <1>c, <1>d, <1>e DEF TypeOK, Return, Goto, DirInv, OwnsDir
<1>6. HandleInv'
  <2>1. \A h \in Opened' : IsOpenOn(h)' /\ (h.kind = "file" => h.id \in FileIds)
    BY <1>a, <1>b, <1>c, <1>d, <1>e, OpenedTyped DEF TypeOK, HandleInv, IsOpenOn
  <2> QED
    BY <2>1 DEF TypeOK, Return, Goto, HandleInv, Serves, LocalInv
<1>7. ClosedInv'
  BY <1>a, <1>c, <1>d DEF TypeOK, Return, Goto, ClosedInv, OwnsFd, n, Ids
<1> QED
  BY <1>1, <1>2, <1>3, <1>4, <1>5, <1>6, <1>7

\* ReleaseDir closes the descriptor of a Directory, which nobody else has,
\* and frees the Directory.
LEMMA OwnerCloseDir ==
  ASSUME OwnerInv, NEW t \in Threads, CloseDir(t)
  PROVE  OwnerInv'
<1> USE DEF OwnerInv, CloseDir
<1> DEFINE a == cur[t].fh
           n == dirs[a]
<1>a. cur[t] \in Opened /\ cur[t].kind = "dir" /\ Opened' = Opened \ {cur[t]}
  BY ReleasedIsAlone
<1>b. \A g \in Opened' : g.kind = "dir" => g.fh # a
  BY <1>a, ReleasedIsAlone
<1>c. a \in Addrs /\ n \in Fds /\ fdt[n] \in DirIds
  BY <1>a, OpenedTyped DEF HandleInv, IsOpenOn, DirInv, TypeOK
<1>d. fdt' = [fdt EXCEPT ![n] = NULL] /\ dirs' = [dirs EXCEPT ![a] = NULL]
  BY DEF Closed
<1>e. n # 0 /\ n # rootFd /\ n # inodeFd
  BY <1>c DEF FixedInv, Ids
<1>f. \A u \in Threads : OwnsFd(u) => fd_[u] # n
  BY <1>c DEF StackInv
<1>g. \A b \in Addrs : b # a => dirs[b] # n
  BY <1>c DEF DirInv
<1>h. \A u \in Threads : OwnsDir(u) => dir_[u] # a
  BY <1>a DEF DirInv
<1>i. \A h \in Opened : h.kind = "file" => h.fh # n
  BY <1>c DEF HandleInv, IsOpenOn
<1> HIDE DEF a, n
<1>1. TypeOK'
  BY <1>c, <1>d DEF TypeOK, Return, Goto, Openers
<1>2. LocalInv'
  BY DEF TypeOK, Return, Goto, LocalInv, OwnsFd, OwnsDir, Serves, Openers
<1>3. FixedInv'
  BY <1>c, <1>d, <1>e DEF FixedInv, TypeOK, Fds
<1>4. StackInv'
  BY <1>a, <1>c, <1>d, <1>f DEF TypeOK, Return, Goto, StackInv, OwnsFd, LocalInv
<1>5. DirInv'
  BY <1>a, <1>c, <1>d, <1>g, <1>h DEF TypeOK, Return, Goto, DirInv, OwnsDir, LocalInv
<1>6. HandleInv'
  <2>1. \A h \in Opened' : IsOpenOn(h)' /\ (h.kind = "file" => h.id \in FileIds)
    BY <1>a, <1>b, <1>c, <1>d, <1>g, <1>i, OpenedTyped DEF TypeOK, HandleInv, IsOpenOn
  <2> QED
    BY <2>1 DEF TypeOK, Return, Goto, HandleInv, Serves, LocalInv
<1>7. ClosedInv'
  BY <1>a, <1>c, <1>d DEF TypeOK, Return, Goto, ClosedInv, OwnsFd, Ids
<1> QED
  BY <1>1, <1>2, <1>3, <1>4, <1>5, <1>6, <1>7

\* The InodeCache opens a descriptor ...
LEMMA OwnerInodeOpens == OwnerInv /\ InodeOpens => OwnerInv'
<1> SUFFICES ASSUME OwnerInv, InodeOpens PROVE OwnerInv'
  OBVIOUS
<1> USE DEF OwnerInv, InodeOpens, locals
<1> DEFINE n == Lowest
<1>a. n \in Fds /\ fdt[n] = NULL
  BY LowestIsFree
<1> HIDE DEF n
<1>b. fdt' = [fdt EXCEPT ![n] = "inode"] /\ inodeFd' = n
  BY DEF n
<1>0. Opened' = Opened
  BY DEF Opened, Held
<1>c. \A h \in Opened : h.kind = "file" => h.fh # n
  BY <1>a DEF HandleInv, IsOpenOn, Ids
<1>1. TypeOK'
  BY <1>a, <1>b DEF TypeOK
<1>2. LocalInv'
  BY DEF LocalInv, OwnsFd, OwnsDir, Serves
<1>3. FixedInv'
  BY <1>a, <1>b DEF FixedInv, TypeOK, Fds
<1>4. StackInv'
  BY <1>0, <1>a, <1>b DEF TypeOK, StackInv, OwnsFd, Ids
<1>5. DirInv'
  BY <1>0, <1>a, <1>b DEF TypeOK, DirInv, OwnsDir, Ids
<1>6. HandleInv'
  <2>1. \A h \in Opened' : IsOpenOn(h)' /\ (h.kind = "file" => h.id \in FileIds)
    BY <1>0, <1>a, <1>b, <1>c, OpenedTyped DEF TypeOK, HandleInv, IsOpenOn, DirInv, Ids
  <2> QED
    BY <2>1 DEF HandleInv, Serves
<1>7. ClosedInv'
  BY <1>0, <1>a, <1>b DEF TypeOK, ClosedInv, OwnsFd, Ids
<1> QED
  BY <1>1, <1>2, <1>3, <1>4, <1>5, <1>6, <1>7

\* ... and closes it again.
LEMMA OwnerInodeCloses == OwnerInv /\ InodeCloses => OwnerInv'
<1> SUFFICES ASSUME OwnerInv, InodeCloses PROVE OwnerInv'
  OBVIOUS
<1> USE DEF OwnerInv, InodeCloses, locals
<1>a. inodeFd \in Fds /\ fdt[inodeFd] = "inode" /\ fdt' = [fdt EXCEPT ![inodeFd] = NULL]
  BY DEF FixedInv, TypeOK, Closed
<1>0. Opened' = Opened
  BY DEF Opened, Held
<1>1. TypeOK'
  BY <1>a DEF TypeOK
<1>2. LocalInv'
  BY DEF LocalInv, OwnsFd, OwnsDir, Serves
<1>3. FixedInv'
  BY <1>a DEF FixedInv, TypeOK, Fds
<1>4. StackInv'
  BY <1>0, <1>a DEF TypeOK, StackInv, OwnsFd, Ids
<1>5. DirInv'
  BY <1>0, <1>a DEF TypeOK, DirInv, OwnsDir, Ids
<1>6. HandleInv'
  <2>1. \A h \in Opened' : IsOpenOn(h)' /\ (h.kind = "file" => h.id \in FileIds)
    BY <1>0, <1>a, OpenedTyped DEF TypeOK, HandleInv, IsOpenOn, DirInv, Ids
  <2> QED
    BY <2>1 DEF HandleInv, Serves
<1>7. ClosedInv'
  BY <1>0, <1>a DEF TypeOK, ClosedInv, OwnsFd, Ids
<1> QED
  BY <1>1, <1>2, <1>3, <1>4, <1>5, <1>6, <1>7
-----------------------------------------------------------------------------
\* Every step of every thread keeps the owners apart.
LEMMA OwnerStep == OwnerInv /\ [Next]_vars => OwnerInv'
<1> SUFFICES ASSUME OwnerInv, [Next]_vars PROVE OwnerInv'
  OBVIOUS
<1>1. ASSUME NEW t \in Threads, ThreadStep(t) PROVE OwnerInv'
  <2>1. CASE OpenFails(t)
    BY <2>1, OwnerReturn DEF OpenFails, OwnsFd
  <2>2. CASE FdOpenDirFails(t)
    BY <2>2, OwnerReturn DEF FdOpenDirFails, OwnerInv, LocalInv
  <2>3. CASE ReleaseFd(t)
    BY <2>3, OwnerReturn DEF ReleaseFd, OwnsFd
  <2>4. CASE DupFails(t)
    BY <2>4, OwnerReturn DEF DupFails, OwnsFd
  <2>5. CASE Use(t)
    BY <2>5, OwnerReturn DEF Use, OwnsFd
  <2> QED
    BY <1>1, <2>1, <2>2, <2>3, <2>4, <2>5, OwnerOpen, OwnerLookUp, OwnerFdOpenDir,
       OwnerReplySent, OwnerReplyFails, OwnerDestroyFd, OwnerDup, OwnerCloseFile,
       OwnerCloseDir DEF ThreadStep
<1>2. CASE UNCHANGED vars
  <2>1. Opened' = Opened
    BY <1>2 DEF vars, locals, Opened, Held
  <2> QED
    BY <1>2, <2>1 DEF vars, locals, OwnerInv, TypeOK, LocalInv, FixedInv, StackInv, DirInv,
       HandleInv, ClosedInv, IsOpenOn, OwnsFd, OwnsDir, Serves
<1> QED
  BY <1>1, <1>2, OwnerReceive, OwnerReceiveOn, OwnerInodeOpens, OwnerInodeCloses DEF Next

\* The invariant behind the theorems below.
LEMMA Owners == Spec => []OwnerInv
  BY OwnerInitially, OwnerStep, PTL DEF Spec

(***************************************************************************)
(* Type correctness of the handles: a handle of a file is a descriptor,    *)
(* that of a directory the address of a Directory.                         *)
(***************************************************************************)
THEOREM HandlesTypeCorrect == Spec => []TypeOK
<1>1. OwnerInv => TypeOK
  BY DEF OwnerInv
<1> QED
  BY <1>1, Owners, PTL

(***************************************************************************)
(* Whatever is opened, released and reused on any number of threads, the   *)
(* fh of an open file leads to the file it was made for until its own      *)
(* Release closes it: Open, Create, OpenDir, Flush, Release, ReleaseDir    *)
(* and the Inodes never close a number twice or one that has been given    *)
(* to somebody else.                                                       *)
(***************************************************************************)
THEOREM DescriptorsAreKept == Spec => []DescriptorsKeepTheirFiles
<1>1. OwnerInv => DescriptorsKeepTheirFiles
  <2> SUFFICES ASSUME OwnerInv PROVE DescriptorsKeepTheirFiles
    OBVIOUS
  <2>1. \A h \in handles \cup Held : IsOpenOn(h)
    BY DEF OwnerInv, HandleInv, Opened
  <2>2. \A t \in Threads : pc[t] \in {"destroy", "fdopendir"} => fdt[fd_[t]] \in Ids
    BY DEF OwnerInv, StackInv, OwnsFd, Ids
  <2>3. fdt[rootFd] = "root" /\ (inodeFd # NULL => fdt[inodeFd] = "inode")
    BY DEF OwnerInv, FixedInv, TypeOK
  <2> QED
    BY <2>1, <2>2, <2>3 DEF DescriptorsKeepTheirFiles
<1> QED
  BY <1>1, Owners, PTL

(***************************************************************************)
(* SetAttr's "if (fi.fh)" (page_align_fs.cc line 88) never takes an open   *)
(* file for one that is not open.                                          *)
(***************************************************************************)
THEOREM HandlesAreNotZero == Spec => []NoHandleIsZero
<1>1. OwnerInv => NoHandleIsZero
  <2> SUFFICES ASSUME OwnerInv, NEW h \in Opened PROVE h.fh # 0
    BY DEF NoHandleIsZero, Opened
  <2>1. h.kind = "file" => fdt[h.fh] \in FileIds
    BY DEF OwnerInv, HandleInv, IsOpenOn
  <2>2. fdt[0] \notin FileIds
    BY DEF OwnerInv, FixedInv, Ids
  <2> QED
    BY <2>1, <2>2, OpenedTyped DEF OwnerInv
<1> QED
  BY <1>1, Owners, PTL

(***************************************************************************)
(* Whatever fails in Open, Create, Flush and Release, someone is left to   *)
(* close the descriptor: only those OpenDir opened are ever leaked.        *)
(***************************************************************************)
THEOREM LeaksAreOfOpenDir == Spec => []OnlyOpenDirLeaks
<1>1. OwnerInv => OnlyOpenDirLeaks
  <2> SUFFICES ASSUME OwnerInv, NEW n \in Leaked, fdt[n] \notin DirIds PROVE FALSE
    BY DEF OnlyOpenDirLeaks
  <2>1. n \in Fds /\ n \notin Reachable /\ fdt[n] \in FileIds \cup {"root", "inode"}
    BY DEF Leaked, OwnerInv, TypeOK, Ids
  <2>2. n # rootFd /\ n # inodeFd /\ \A t \in Threads : fd_[t] # n
    BY <2>1 DEF Reachable
  <2>3. \A h \in Opened : h.kind = "file" => h.fh # n
    BY <2>1 DEF Reachable, Opened
  <2> QED
    BY <2>1, <2>2, <2>3 DEF OwnerInv, FixedInv, ClosedInv
<1> QED
  BY <1>1, Owners, PTL
=============================================================================
