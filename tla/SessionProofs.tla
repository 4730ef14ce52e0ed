--------------------------- MODULE SessionProofs ---------------------------
(***************************************************************************)
(* What Main leaves behind: proofs about Session.tla, for any number of    *)
(* threads, processes and descriptors.                                     *)
(***************************************************************************)
EXTENDS Session, SequenceTheorems, TLAPS

\* The resources that are given back, in the order in which they are taken.
Chain == <<"args", "opts", "root", "session", "signals", "mount", "config">>

\* What Main may hold, as SessionTypeOK has it.
Holdable == {Setup[k] : k \in 1..Len(Setup)} \ {"daemon"}

\* Every way through Main holds an initial part of the chain.
ChainInv ==
  /\ Len(held) <= 7
  /\ \A k \in 1..Len(held) : held[k] = Chain[k]
  /\ stage = "setup" => next <= 8 /\ Len(held) = IF next = 8 THEN 6 ELSE next - 1
  /\ stage = "loop" => Len(held) >= 6
  /\ mounted /\ stage # "ended" => Len(held) >= 6

\* Before the mount few descriptors are open, and 3 and 4 are free in turn.
SetupInv ==
  stage = "setup" =>
    /\ Len(held) < 3 => \A n \in Fds : IF n \in Std THEN fdt[n] = NOFD => closedAtStart
                                       ELSE fdt[n] = NOFD
    /\ Len(held) < 6 => \A n \in Fds \ 0..3 : fdt[n] = NOFD

\* The descriptor of root_, as long as there is one.
RootInv ==
  stage # "ended" =>
    IF Len(held) < 3 THEN rootFd = NOFD
    ELSE /\ rootFd \in 0..3
         /\ rootFd \in Std => closedAtStart
         /\ \/ fdt[rootFd] = "source"
            \/ fdt[rootFd] = "null" /\ rootFd \in Std /\ ~foreground

\* No descriptor of the program outlives the resource it belongs to.
FdInv ==
  stage # "ended" => \A n \in Fds :
    /\ fdt[n] # "fuse root"
    /\ fdt[n] = "source" => n = rootFd
    /\ fdt[n] = "/dev/fuse" => Len(held) >= 4

SessionInv ==
  /\ SessionTypeOK
  /\ ChainInv
  /\ SetupInv
  /\ RootInv
  /\ FdInv
  /\ NothingIsLeft
-----------------------------------------------------------------------------
LEMMA Resources ==
  Holdable
    = {"args", "opts", "root", "session", "signals", "mount", "config"}
<1>1. \A r : r \in {Setup[k] : k \in 1..Len(Setup)} <=> \E k \in 1..8 : r = Setup[k]
  BY DEF Setup
<1> QED
  BY <1>1 DEF Setup, Holdable

LEMMA FdsAre == MaxFd \in Nat /\ MaxFd >= 4 /\ 0..4 \subseteq Fds /\ \A n \in Fds : n \in Nat
<1>1. MaxFd \in Nat /\ MaxFd \notin 0..3
  BY SessionAssumption
<1>2. MaxFd >= 4
  BY <1>1
<1> QED
  BY <1>1, <1>2 DEF Fds

\* One of the first five descriptors is always free when Main opens one.
LEMMA LowestIsFree ==
  ASSUME NEW f, NEW n \in 0..4, f[n] = NOFD
  PROVE  Lowest(f) \in 0..n /\ f[Lowest(f)] = NOFD
<1>1. \E m \in 0..4 : f[m] = NOFD /\ \A k \in 0..4 : f[k] = NOFD => m <= k
  BY SMTT(20)
<1>2. \E m \in Free(f) : \A k \in Free(f) : m <= k
  BY <1>1, FdsAre DEF Free
<1>3. Lowest(f) \in Free(f) /\ \A k \in Free(f) : Lowest(f) <= k
  BY <1>2 DEF Lowest
<1> QED
  BY <1>3, FdsAre DEF Free

\* The number of a step of Main.
LEMMA AtNumber ==
  ASSUME SessionTypeOK, NEW r, At(r)
  PROVE  /\ next \in 1..8
         /\ r = "args" => next = 1
         /\ r = "opts" => next = 2
         /\ r = "root" => next = 3
         /\ r = "session" => next = 4
         /\ r = "signals" => next = 5
         /\ r = "mount" => next = 6
         /\ r = "daemon" => next = 7
         /\ r = "config" => next = 8
<1>1. Len(Setup) = 8
  BY DEF Setup
<1>2. next \in 1..8 /\ Setup[next] = r
  <2>1. next \in 1..(Len(Setup) + 1)
    BY DEF SessionTypeOK
  <2>2. next <= Len(Setup) /\ Setup[next] = r
    BY DEF At
  <2> QED
    BY <1>1, <2>1, <2>2
<1> QED
  BY <1>2 DEF Setup

\* Taking the next resource adds to the chain.
LEMMA TakeChain ==
  ASSUME SessionInv, NEW r \in {"args", "opts", "root", "session", "signals", "mount"}, Take(r)
  PROVE  /\ held' \in Seq(Holdable)
         /\ Len(held') = Len(held) + 1
         /\ Len(held) = next - 1
         /\ \A k \in 1..Len(held') : held'[k] = Chain[k]
         /\ next' \in 2..7 /\ next' = next + 1
<1>1. next \in 1..6 /\ r = Chain[next]
  BY AtNumber DEF SessionInv, Take, Chain
<1>2. Len(held) = next - 1 /\ held \in Seq(Holdable)
  <2>1. stage = "setup"
    BY DEF Take, At
  <2>2. held \in Seq(Holdable)
    BY DEF SessionInv, SessionTypeOK, Holdable
  <2> QED
    BY <1>1, <2>1, <2>2 DEF SessionInv, ChainInv
<1>3. held' = Append(held, r)
  BY DEF Take
<1>4. r \in Holdable
  BY Resources
<1>5. held' \in Seq(Holdable) /\ Len(held') = Len(held) + 1
  BY <1>2, <1>3, <1>4
<1>6. ASSUME NEW k \in 1..Len(held') PROVE held'[k] = Chain[k]
  <2>1. CASE k = next
    BY <1>1, <1>2, <1>3, <2>1
  <2>2. CASE k \in 1..Len(held)
    BY <1>2, <1>3, <2>2 DEF SessionInv, ChainInv
  <2> QED
    BY <1>1, <1>2, <1>5, <2>1, <2>2
<1> QED
  BY <1>1, <1>2, <1>5, <1>6 DEF Take

\* Giving one back takes from its end.
LEMMA GiveBackChain ==
  ASSUME SessionInv, NEW r, GiveBack(r)
  PROVE  /\ held' \in Seq(Holdable)
         /\ Len(held) \in 1..7 /\ r = Chain[Len(held)]
         /\ Len(held') = Len(held) - 1
         /\ \A k \in 1..Len(held') : held'[k] = Chain[k]
<1> DEFINE n == Len(held)
           m == n - 1
<1>1. held \in Seq(Holdable) /\ held # <<>>
  BY DEF SessionInv, SessionTypeOK, Holdable, GiveBack
<1>2. n \in Nat \ {0}
  BY <1>1, EmptySeq
<1>3. n <= 7
  BY DEF SessionInv, ChainInv
<1>4. \A k \in 1..n : held[k] = Chain[k]
  BY DEF SessionInv, ChainInv
<1>5. held[n] = r /\ held' = SubSeq(held, 1, m)
  BY DEF GiveBack
<1>6. \A k \in 1..n : held[k] \in Holdable
  BY <1>1, LenProperties
<1> HIDE DEF n
<1>7. n \in 1..7 /\ m \in 0..6
  BY <1>2, <1>3
<1>8. \A k \in 1..m : held[k] \in Holdable
  BY <1>6, <1>7
<1> HIDE DEF m
<1>9. /\ SubSeq(held, 1, m) \in Seq(Holdable)
      /\ Len(SubSeq(held, 1, m)) = IF 1 <= m THEN m - 1 + 1 ELSE 0
      /\ \A k \in 1..(m - 1 + 1) : SubSeq(held, 1, m)[k] = held[1 + k - 1]
  BY <1>7, <1>8, SubSeqProperties
<1>10. m - 1 + 1 = m /\ (IF 1 <= m THEN m - 1 + 1 ELSE 0) = m /\ \A k \in 1..m : 1 + k - 1 = k
  BY <1>7
<1>11. held' \in Seq(Holdable) /\ Len(held') = m /\ \A k \in 1..m : held'[k] = held[k]
  BY <1>5, <1>9, <1>10
<1>12. \A k \in 1..m : k \in 1..n
  BY <1>7 DEF m
<1>13. r = Chain[n]
  BY <1>4, <1>5, <1>7
<1> QED
  BY <1>4, <1>7, <1>11, <1>12, <1>13 DEF m, n

LEMMA SessionInitially == SessionInit => SessionInv
<1> SUFFICES ASSUME SessionInit PROVE SessionInv
  OBVIOUS
<1>1. PICK S \in SUBSET Std : /\ fdt = [n \in Fds |-> IF n \in S THEN "std" ELSE NOFD]
                              /\ closedAtStart = (S # Std)
  BY DEF SessionInit
<1>2. Len(held) = 0 /\ held \in Seq(Holdable)
  BY DEF SessionInit
<1>3. SessionTypeOK
  <2>1. 1 \in 1..(Len(Setup) + 1)
    BY DEF Setup
  <2> QED
    BY <1>1, <1>2, <2>1 DEF SessionInit, SessionTypeOK, opts, Holdable
<1>4. ChainInv
  BY <1>2 DEF SessionInit, ChainInv
<1>5. SetupInv
  BY <1>1, FdsAre DEF SetupInv, Std
<1>6. RootInv /\ NothingIsLeft
  BY <1>2 DEF SessionInit, RootInv, NothingIsLeft
<1>7. FdInv
  BY <1>1, SessionAssumption DEF FdInv
<1> QED
  BY <1>3, <1>4, <1>5, <1>6, <1>7 DEF SessionInv

LEMMA SessionFail == ASSUME SessionInv, Fail PROVE SessionInv'
<1>1. SessionTypeOK'
  BY DEF Fail, SessionInv, SessionTypeOK, opts
<1>2. ChainInv' /\ SetupInv' /\ RootInv' /\ FdInv' /\ NothingIsLeft'
  BY DEF Fail, SessionInv, ChainInv, SetupInv, RootInv, FdInv, NothingIsLeft, opts
<1> QED
  BY <1>1, <1>2 DEF SessionInv

LEMMA SessionTakeOther == ASSUME SessionInv, TakeOther PROVE SessionInv'
<1>1. PICK r \in {"args", "opts", "session", "signals"} : Take(r)
  BY DEF TakeOther
<1>2. stage = "setup"
  BY <1>1 DEF Take, At
<1>3. /\ held' \in Seq(Holdable)
      /\ Len(held') = Len(held) + 1
      /\ Len(held) = next - 1
      /\ \A k \in 1..Len(held') : held'[k] = Chain[k]
      /\ next' \in 2..7 /\ next' = next + 1
  BY <1>1, TakeChain
<1>4. Len(held) \in {0, 1, 3, 4}
  BY <1>1, <1>3, AtNumber DEF Take, SessionInv
<1>5. SessionTypeOK'
  <2>1. next' \in 1..(Len(Setup) + 1)
    BY <1>3 DEF Setup
  <2> QED
    BY <1>3, <2>1 DEF TakeOther, SessionInv, SessionTypeOK, Holdable, opts
<1>6. ChainInv'
  BY <1>2, <1>3, <1>4 DEF TakeOther, SessionInv, ChainInv
<1>7. SetupInv'
  BY <1>2, <1>3, <1>4 DEF TakeOther, SessionInv, SetupInv, opts
<1>8. RootInv'
  BY <1>2, <1>3, <1>4 DEF TakeOther, SessionInv, RootInv, opts
<1>9. FdInv'
  <2>1. Len(held) >= 4 => Len(held') >= 4
    BY <1>3, <1>4
  <2> QED
    BY <1>2, <2>1 DEF TakeOther, SessionInv, FdInv
<1>10. NothingIsLeft'
  BY <1>2 DEF TakeOther, NothingIsLeft
<1> QED
  BY <1>5, <1>6, <1>7, <1>8, <1>9, <1>10 DEF SessionInv

(***************************************************************************)
(* PageAlignFS::Create: the mount point is not covered yet, and the        *)
(* descriptor is a standard stream's only if one was closed.               *)
(***************************************************************************)
LEMMA SessionTakeRoot == ASSUME SessionInv, TakeRoot PROVE SessionInv'
<1>1. stage = "setup" /\ Take("root")
  BY DEF TakeRoot, Take, At
<1>2. /\ held' \in Seq(Holdable)
      /\ Len(held') = Len(held) + 1
      /\ Len(held) = next - 1
      /\ \A k \in 1..Len(held') : held'[k] = Chain[k]
      /\ next' \in 2..7 /\ next' = next + 1
  BY <1>1, TakeChain
<1>3. Len(held) = 2 /\ Len(held') = 3 /\ next' = 4
  BY <1>1, <1>2, AtNumber DEF Take, SessionInv
<1>4. fdt[3] = NOFD
  BY <1>1, <1>3, FdsAre DEF SessionInv, SetupInv, Std
<1>5. rootFd' \in 0..3 /\ fdt[rootFd'] = NOFD
  <2>1. Lowest(fdt) \in 0..3 /\ fdt[Lowest(fdt)] = NOFD
    BY <1>4, LowestIsFree
  <2> QED
    BY <2>1 DEF TakeRoot
<1>6. rootFd' \in Std => closedAtStart
  BY <1>1, <1>3, <1>5, FdsAre DEF SessionInv, SetupInv, Std
<1>7. ~mounted
  BY <1>1, <1>3 DEF SessionInv, ChainInv
<1>8. fdt' = [fdt EXCEPT ![rootFd'] = "source"] /\ rootFd' \in Fds
  BY <1>5, <1>7, FdsAre DEF TakeRoot
<1>9. \A n \in Fds : fdt'[n] = IF n = rootFd' THEN "source" ELSE fdt[n]
  BY <1>8 DEF SessionInv, SessionTypeOK
<1>a. stage' = "setup" /\ mounted' = FALSE /\ UNCHANGED opts
  BY <1>1, <1>7 DEF TakeRoot
<1>10. SessionTypeOK'
  <2>1. next' \in 1..(Len(Setup) + 1)
    BY <1>3 DEF Setup
  <2> QED
    BY <1>2, <1>8, <2>1 DEF TakeRoot, SessionInv, SessionTypeOK, Holdable, opts
<1>11. ChainInv'
  <2>1. \A k \in 1..Len(held') : held'[k] = Chain[k]
    BY <1>2
  <2> QED
    BY <1>3, <1>a, <2>1 DEF ChainInv
<1>12. SetupInv'
  <2>1. \A n \in Fds \ 0..3 : fdt[n] = NOFD /\ n # rootFd'
    BY <1>1, <1>3, <1>5 DEF SessionInv, SetupInv
  <2> QED
    BY <1>3, <1>9, <2>1 DEF SetupInv
<1>13. RootInv'
  <2>1. fdt'[rootFd'] = "source"
    BY <1>8, <1>9
  <2> QED
    BY <1>3, <1>5, <1>6, <1>a, <2>1 DEF RootInv, opts
<1>14. FdInv'
  <2>1. \A n \in Fds : fdt[n] \notin {"fuse root", "source", "/dev/fuse"}
    <3>1. rootFd \notin Fds
      <4>1. rootFd = NOFD
        BY <1>1, <1>3 DEF SessionInv, RootInv
      <4> QED
        BY <4>1, SessionAssumption DEF Fds
    <3>2. ~(Len(held) >= 4)
      BY <1>3
    <3> QED
      BY <1>1, <3>1, <3>2 DEF SessionInv, FdInv
  <2> QED
    BY <1>9, <2>1 DEF FdInv
<1>15. NothingIsLeft'
  BY <1>1 DEF TakeRoot, NothingIsLeft
<1> QED
  BY <1>10, <1>11, <1>12, <1>13, <1>14, <1>15 DEF SessionInv

(***************************************************************************)
(* fuse_session_mount: neither the standard streams that it opens nor      *)
(* /dev/fuse take the place of root_.                                      *)
(***************************************************************************)
LEMMA SessionTakeMount == ASSUME SessionInv, TakeMount PROVE SessionInv'
<1> DEFINE f == Lowest(StdOpened)
<1>1. stage = "setup" /\ Take("mount")
  BY DEF TakeMount, Take, At
<1>2. /\ held' \in Seq(Holdable)
      /\ Len(held') = Len(held) + 1
      /\ Len(held) = next - 1
      /\ \A k \in 1..Len(held') : held'[k] = Chain[k]
      /\ next' \in 2..7 /\ next' = next + 1
  BY <1>1, TakeChain
<1>3. Len(held) = 5 /\ Len(held') = 6 /\ next' = 7
  BY <1>1, <1>2, AtNumber DEF Take, SessionInv
<1>4. \A n \in Fds : StdOpened[n] = IF n \in Std /\ fdt[n] = NOFD THEN "null" ELSE fdt[n]
  BY DEF StdOpened
<1>5. StdOpened[4] = NOFD
  BY <1>1, <1>3, <1>4, FdsAre DEF SessionInv, SetupInv, Std
<1>6. f \in Fds /\ StdOpened[f] = NOFD
  BY <1>5, LowestIsFree, FdsAre
<1> HIDE DEF f
<1>7. \A n \in Fds : fdt'[n] = IF n = f THEN "/dev/fuse" ELSE StdOpened[n]
  <2>1. fdt' = [StdOpened EXCEPT ![f] = "/dev/fuse"]
    BY DEF TakeMount, f
  <2> QED
    BY <1>6, <2>1 DEF StdOpened
<1>8. fdt[rootFd] # NOFD /\ rootFd \in Fds
  <2>1. rootFd \in 0..3 /\ fdt[rootFd] \in {"source", "null"}
    BY <1>1, <1>3 DEF SessionInv, RootInv
  <2>2. NOFD \notin {"source", "null"}
    BY SessionAssumption
  <2> QED
    BY <2>1, <2>2, FdsAre
<1>9. fdt'[rootFd] = fdt[rootFd]
  BY <1>4, <1>6, <1>7, <1>8
<1>a. stage' = "setup" /\ UNCHANGED <<rootFd, opts>>
  BY <1>1 DEF TakeMount
<1>10. SessionTypeOK'
  <2>1. next' \in 1..(Len(Setup) + 1)
    BY <1>3 DEF Setup
  <2>2. StdOpened \in [Fds -> {"std", "null", "source", "fuse root", "/dev/fuse", NOFD}]
    BY DEF StdOpened, SessionInv, SessionTypeOK
  <2>3. fdt' \in [Fds -> {"std", "null", "source", "fuse root", "/dev/fuse", NOFD}]
    BY <2>2 DEF TakeMount
  <2> QED
    BY <1>2, <2>1, <2>3 DEF TakeMount, SessionInv, SessionTypeOK, Holdable, opts
<1>11. ChainInv'
  <2>1. \A k \in 1..Len(held') : held'[k] = Chain[k]
    BY <1>2
  <2> QED
    BY <1>3, <1>a, <2>1 DEF ChainInv
<1>12. SetupInv'
  BY <1>3 DEF SetupInv
<1>13. RootInv'
  BY <1>1, <1>3, <1>9, <1>a DEF SessionInv, RootInv, opts
<1>14. FdInv'
  <2>1. \A n \in Fds : fdt'[n] # "fuse root" /\ (fdt'[n] = "source" => n = rootFd)
    BY <1>1, <1>4, <1>7 DEF SessionInv, FdInv
  <2>2. Len(held') >= 4
    BY <1>3
  <2> QED
    BY <1>a, <2>1, <2>2 DEF FdInv
<1>15. NothingIsLeft'
  BY <1>1 DEF TakeMount, NothingIsLeft
<1> QED
  BY <1>10, <1>11, <1>12, <1>13, <1>14, <1>15 DEF SessionInv

(***************************************************************************)
(* fuse_daemonize: /dev/null takes the place of root_ only if that is one  *)
(* of the standard streams.                                                *)
(***************************************************************************)
LEMMA SessionDaemonize == ASSUME SessionInv, Daemonize PROVE SessionInv'
<1>1. stage = "setup" /\ At("daemon")
  BY DEF Daemonize, At
<1>2. next = 7 /\ next' = 8
  BY <1>1, AtNumber DEF Daemonize, SessionInv
<1>3. Len(held) = 6
  BY <1>1, <1>2 DEF SessionInv, ChainInv
<1>4. \A n \in Fds : fdt'[n] = fdt[n] \/ (~foreground /\ n \in Std /\ fdt'[n] = "null")
  BY DEF Daemonize
<1>5. SessionTypeOK'
  <2>1. next' \in 1..(Len(Setup) + 1)
    BY <1>2 DEF Setup
  <2>2. fdt' \in [Fds -> {"std", "null", "source", "fuse root", "/dev/fuse", NOFD}]
    BY DEF Daemonize, SessionInv, SessionTypeOK
  <2> QED
    BY <2>1, <2>2 DEF Daemonize, SessionInv, SessionTypeOK, opts
<1>6. ChainInv'
  BY <1>1, <1>2, <1>3 DEF Daemonize, SessionInv, ChainInv
<1>7. SetupInv'
  BY <1>3 DEF Daemonize, SetupInv
<1>8. RootInv'
  <2>1. rootFd \in Fds
    BY <1>1, <1>3, FdsAre DEF SessionInv, RootInv
  <2> QED
    BY <1>1, <1>3, <1>4, <2>1 DEF Daemonize, SessionInv, RootInv, opts
<1>9. FdInv'
  BY <1>1, <1>4 DEF Daemonize, SessionInv, FdInv
<1>10. NothingIsLeft'
  BY <1>1 DEF Daemonize, NothingIsLeft
<1> QED
  BY <1>5, <1>6, <1>7, <1>8, <1>9, <1>10 DEF SessionInv

LEMMA SessionStartLoop == ASSUME SessionInv, StartLoop PROVE SessionInv'
<1>1. stage = "setup" /\ stage' = "loop" /\ At("config")
  BY DEF StartLoop, At
<1>2. next = 8 /\ next' = 9
  BY <1>1, AtNumber DEF StartLoop, SessionInv
<1>3. Len(held) = 6 /\ \A k \in 1..6 : held[k] = Chain[k]
  BY <1>1, <1>2 DEF SessionInv, ChainInv
<1>4. held \in Seq(Holdable) /\ "config" \in Holdable
  BY Resources DEF SessionInv, SessionTypeOK, Holdable
<1>5. /\ held' \in Seq(Holdable)
      /\ Len(held') \in {6, 7}
      /\ \A k \in 1..Len(held') : held'[k] = Chain[k]
  <2>1. CASE held' = held
    BY <1>3, <1>4, <2>1
  <2>2. CASE held' = Append(held, "config")
    <3>1. /\ Append(held, "config") \in Seq(Holdable)
          /\ Len(Append(held, "config")) = Len(held) + 1
          /\ \A k \in 1..Len(held) : Append(held, "config")[k] = held[k]
          /\ Append(held, "config")[Len(held) + 1] = "config"
      BY <1>4, AppendProperties
    <3>2. /\ held' \in Seq(Holdable) /\ Len(held') = 7
          /\ held'[7] = "config" /\ \A k \in 1..6 : held'[k] = held[k]
      BY <1>3, <2>2, <3>1
    <3>3. Chain[7] = "config"
      BY DEF Chain
    <3>4. \A k \in 1..7 : k \in 1..6 \/ k = 7
      OBVIOUS
    <3> QED
      BY <1>3, <3>2, <3>3, <3>4
  <2> QED
    BY <2>1, <2>2 DEF StartLoop
<1>a. Len(held') <= 7 /\ Len(held') >= 6 /\ Len(held') >= 4 /\ ~(Len(held') < 3)
  <2>1. CASE Len(held') = 6
    BY <2>1
  <2>2. CASE Len(held') = 7
    BY <2>2
  <2> QED
    BY <1>5, <2>1, <2>2
<1>6. SessionTypeOK'
  <2>1. next' \in 1..(Len(Setup) + 1)
    BY <1>2 DEF Setup
  <2> QED
    BY <1>1, <1>5, <2>1 DEF StartLoop, SessionInv, SessionTypeOK, Holdable, opts
<1>7. ChainInv'
  BY <1>1, <1>5, <1>a DEF ChainInv
<1>8. SetupInv' /\ NothingIsLeft'
  BY <1>1 DEF SetupInv, NothingIsLeft
<1>9. RootInv'
  BY <1>1, <1>3, <1>a DEF StartLoop, SessionInv, RootInv, opts
<1>10. FdInv'
  BY <1>1, <1>a DEF StartLoop, SessionInv, FdInv
<1> QED
  BY <1>6, <1>7, <1>8, <1>9, <1>10 DEF SessionInv

\* Requests come and go without touching what Main holds.
LEMMA SessionServe ==
  ASSUME SessionInv, NEW p \in Procs,
         Ask(p) \/ Serve(p) \/ WriterComes(p) \/ \E w \in Workers : Receive(w, p)
  PROVE  SessionInv'
<1>1. UNCHANGED <<stage, held, next, exited, mounted, fdt, rootFd, opts, killed>>
  BY DEF Ask, Serve, WriterComes, Receive
<1>2. proc' \in [Procs -> {"quiet", "queued"} \cup Workers]
  BY DEF Ask, Serve, WriterComes, Receive, SessionInv, SessionTypeOK
<1>3. SessionTypeOK'
  BY <1>1, <1>2 DEF SessionInv, SessionTypeOK, opts
<1>4. ChainInv' /\ SetupInv' /\ RootInv' /\ FdInv' /\ NothingIsLeft'
  BY <1>1 DEF SessionInv, ChainInv, SetupInv, RootInv, FdInv, NothingIsLeft, opts
<1> QED
  BY <1>3, <1>4 DEF SessionInv

(***************************************************************************)
(* A signal that ends the program at once finds it without the handlers,   *)
(* which are set before the mount and removed after it.                    *)
(***************************************************************************)
LEMMA SessionSignal == ASSUME SessionInv, Signal PROVE SessionInv'
<1>1. CASE "signals" \in {held[k] : k \in 1..Len(held)}
  <2>1. UNCHANGED <<stage, held, next, mounted, fdt, rootFd, opts, killed>> /\ exited' = TRUE
    BY <1>1 DEF Signal
  <2>2. proc' \in [Procs -> {"quiet", "queued"} \cup Workers]
    BY <1>1 DEF Signal, SessionInv, SessionTypeOK
  <2>3. SessionTypeOK'
    BY <2>1, <2>2 DEF SessionInv, SessionTypeOK, opts
  <2>4. ChainInv' /\ SetupInv' /\ RootInv' /\ FdInv' /\ NothingIsLeft'
    BY <2>1 DEF SessionInv, ChainInv, SetupInv, RootInv, FdInv, NothingIsLeft, opts
  <2> QED
    BY <2>3, <2>4 DEF SessionInv
<1>2. CASE "signals" \notin {held[k] : k \in 1..Len(held)}
  <2>1. /\ stage # "ended" /\ stage' = "ended"
        /\ fdt' = [n \in Fds |-> NOFD] /\ rootFd' = NOFD /\ killed' = TRUE
        /\ UNCHANGED <<held, next, exited, mounted, opts, proc>>
    BY <1>2 DEF Signal
  <2>2. ~(Len(held) >= 6)
    <3> SUFFICES ASSUME Len(held) >= 6 PROVE FALSE
      OBVIOUS
    <3>1. Len(held) \in Nat
      BY LenProperties DEF SessionInv, SessionTypeOK
    <3>2. 5 \in 1..Len(held)
      BY <3>1
    <3>3. held[5] = Chain[5]
      BY <3>2 DEF SessionInv, ChainInv
    <3> QED
      BY <1>2, <3>2, <3>3 DEF Chain
  <2>3. ~mounted
    BY <2>1, <2>2 DEF SessionInv, ChainInv
  <2>4. SessionTypeOK'
    BY <2>1 DEF SessionInv, SessionTypeOK, opts
  <2>5. ChainInv' /\ SetupInv' /\ RootInv' /\ FdInv'
    BY <2>1 DEF SessionInv, ChainInv, SetupInv, RootInv, FdInv
  <2>6. NothingIsLeft'
    BY <2>1, <2>3 DEF NothingIsLeft
  <2> QED
    BY <2>4, <2>5, <2>6 DEF SessionInv
<1> QED
  BY <1>1, <1>2

LEMMA SessionUnmount == ASSUME SessionInv, Unmount PROVE SessionInv'
<1>1. SessionTypeOK'
  BY DEF Unmount, SessionInv, SessionTypeOK, opts
<1>2. ChainInv' /\ SetupInv' /\ RootInv' /\ FdInv' /\ NothingIsLeft'
  BY DEF Unmount, SessionInv, ChainInv, SetupInv, RootInv, FdInv, NothingIsLeft, opts
<1> QED
  BY <1>1, <1>2 DEF SessionInv

LEMMA SessionEndLoop == ASSUME SessionInv, EndLoop PROVE SessionInv'
<1>1. SessionTypeOK'
  BY DEF EndLoop, SessionInv, SessionTypeOK, opts
<1>2. ChainInv' /\ SetupInv' /\ RootInv' /\ FdInv' /\ NothingIsLeft'
  BY DEF EndLoop, SessionInv, ChainInv, SetupInv, RootInv, FdInv, NothingIsLeft, opts
<1> QED
  BY <1>1, <1>2 DEF SessionInv

\* The part of the chain that is left when a resource has been given back.
LEMMA GiveBackNumber ==
  ASSUME SessionInv, NEW r, GiveBack(r)
  PROVE  /\ stage = "cleanup" /\ stage' = "cleanup"
         /\ r = "config" => Len(held) = 7 /\ Len(held') = 6
         /\ r = "mount" => Len(held) = 6 /\ Len(held') = 5
         /\ r = "signals" => Len(held) = 5 /\ Len(held') = 4
         /\ r = "session" => Len(held) = 4 /\ Len(held') = 3
         /\ r = "root" => Len(held) = 3 /\ Len(held') = 2
         /\ r = "opts" => Len(held) = 2 /\ Len(held') = 1
         /\ r = "args" => Len(held) = 1 /\ Len(held') = 0
<1> DEFINE n == Len(held)
<1>1. n \in 1..7 /\ r = Chain[n]
  BY GiveBackChain
<1>2. Len(held') = n - 1
  BY GiveBackChain
<1>3. Chain[1] = "args" /\ Chain[2] = "opts" /\ Chain[3] = "root" /\ Chain[4] = "session"
      /\ Chain[5] = "signals" /\ Chain[6] = "mount" /\ Chain[7] = "config"
  BY DEF Chain
<1>4. stage = "cleanup" /\ stage' = "cleanup"
  BY DEF GiveBack
<1> HIDE DEF n
<1>5. n = 1 \/ n = 2 \/ n = 3 \/ n = 4 \/ n = 5 \/ n = 6 \/ n = 7
  BY <1>1
<1>6. /\ r = "config" => n = 7
      /\ r = "mount" => n = 6
      /\ r = "signals" => n = 5
      /\ r = "session" => n = 4
      /\ r = "root" => n = 3
      /\ r = "opts" => n = 2
      /\ r = "args" => n = 1
  BY <1>1, <1>3, <1>5
<1> QED
  BY <1>2, <1>4, <1>6 DEF n

LEMMA OneLess ==
  ASSUME NEW n \in 1..7
  PROVE  n - 1 <= 7 /\ (n >= 6 /\ n # 6 => n - 1 >= 6)
  OBVIOUS

\* What giving something back does to the chain and to the types.
LEMMA GiveBackKeeps ==
  ASSUME SessionInv, NEW r, GiveBack(r),
         mounted' \in BOOLEAN, mounted' => mounted /\ r # "mount",
         fdt' \in [Fds -> {"std", "null", "source", "fuse root", "/dev/fuse", NOFD}],
         rootFd' \in Fds \cup {NOFD},
         proc' \in [Procs -> {"quiet", "queued"} \cup Workers]
  PROVE  SessionTypeOK' /\ ChainInv' /\ SetupInv' /\ NothingIsLeft'
<1>1. held' \in Seq(Holdable) /\ \A k \in 1..Len(held') : held'[k] = Chain[k]
  BY GiveBackChain
<1>2. stage = "cleanup" /\ stage' = "cleanup" /\ UNCHANGED <<next, exited, opts, killed>>
  BY DEF GiveBack
<1>4. SessionTypeOK'
  BY <1>1, <1>2 DEF SessionInv, SessionTypeOK, Holdable, opts
<1>5. Len(held') <= 7 /\ (mounted' => Len(held') >= 6)
  <2>1. Len(held) \in 1..7 /\ Len(held') = Len(held) - 1
    BY GiveBackChain
  <2>2. mounted' => Len(held) >= 6 /\ r # "mount"
    BY <1>2 DEF SessionInv, ChainInv
  <2>3. Len(held) = 6 => r = "mount"
    <3>1. Len(held) = 6 => r = Chain[6]
      BY GiveBackChain
    <3> QED
      BY <3>1 DEF Chain
  <2>4. Len(held) - 1 <= 7 /\ (Len(held) >= 6 /\ Len(held) # 6 => Len(held) - 1 >= 6)
    BY <2>1, OneLess
  <2> QED
    BY <2>1, <2>2, <2>3, <2>4
<1>6. ChainInv'
  BY <1>1, <1>2, <1>5 DEF ChainInv
<1> QED
  BY <1>2, <1>4, <1>6 DEF SetupInv, NothingIsLeft

LEMMA SessionGiveBackMount == ASSUME SessionInv, GiveBackMount PROVE SessionInv'
<1>1. GiveBack("mount") /\ mounted' = FALSE /\ UNCHANGED <<fdt, rootFd>>
  BY DEF GiveBackMount
<1>2. stage = "cleanup" /\ stage' = "cleanup" /\ Len(held) = 6 /\ Len(held') = 5 /\ UNCHANGED opts
  BY <1>1, GiveBackNumber DEF GiveBack
<1>3. SessionTypeOK' /\ ChainInv' /\ SetupInv' /\ NothingIsLeft'
  <2>1. proc' \in [Procs -> {"quiet", "queued"} \cup Workers]
    BY DEF GiveBackMount
  <2>2. /\ fdt' \in [Fds -> {"std", "null", "source", "fuse root", "/dev/fuse", NOFD}]
        /\ rootFd' \in Fds \cup {NOFD}
    BY <1>1 DEF SessionInv, SessionTypeOK
  <2> QED
    BY <1>1, <2>1, <2>2, GiveBackKeeps
<1>4. RootInv'
  BY <1>1, <1>2 DEF SessionInv, RootInv, opts
<1>5. FdInv'
  <2>1. Len(held') >= 4
    BY <1>2
  <2> QED
    BY <1>1, <1>2, <2>1 DEF SessionInv, FdInv
<1> QED
  BY <1>3, <1>4, <1>5 DEF SessionInv

LEMMA SessionGiveBackSession == ASSUME SessionInv, GiveBackSession PROVE SessionInv'
<1>1. GiveBack("session") /\ UNCHANGED <<mounted, proc, rootFd>>
  BY DEF GiveBackSession
<1>2. stage = "cleanup" /\ stage' = "cleanup" /\ Len(held) = 4 /\ Len(held') = 3 /\ UNCHANGED opts
  BY <1>1, GiveBackNumber DEF GiveBack
<1>3. \A n \in Fds : fdt'[n] = IF fdt[n] = "/dev/fuse" THEN NOFD ELSE fdt[n]
  BY DEF GiveBackSession
<1>4. SessionTypeOK' /\ ChainInv' /\ SetupInv' /\ NothingIsLeft'
  <2>1. fdt' \in [Fds -> {"std", "null", "source", "fuse root", "/dev/fuse", NOFD}]
    BY DEF GiveBackSession, SessionInv, SessionTypeOK
  <2>2. /\ proc' \in [Procs -> {"quiet", "queued"} \cup Workers]
        /\ rootFd' \in Fds \cup {NOFD}
        /\ mounted' \in BOOLEAN
    BY <1>1 DEF SessionInv, SessionTypeOK
  <2> QED
    BY <1>1, <2>1, <2>2, GiveBackKeeps
<1>5. RootInv'
  <2>1. rootFd \in Fds /\ fdt[rootFd] # "/dev/fuse"
    BY <1>2, FdsAre DEF SessionInv, RootInv
  <2> QED
    BY <1>1, <1>2, <1>3, <2>1 DEF SessionInv, RootInv, opts
<1>6. FdInv'
  <2>1. \A n \in Fds : fdt'[n] \notin {"/dev/fuse", "fuse root"} /\ (fdt'[n] = "source" => n = rootFd)
    BY <1>2, <1>3, SessionAssumption DEF SessionInv, FdInv
  <2> QED
    BY <1>1, <2>1 DEF FdInv
<1> QED
  BY <1>4, <1>5, <1>6 DEF SessionInv

LEMMA SessionGiveBackRoot == ASSUME SessionInv, GiveBackRoot PROVE SessionInv'
<1>1. GiveBack("root") /\ rootFd' = NOFD /\ UNCHANGED <<mounted, proc>>
  BY DEF GiveBackRoot
<1>2. stage = "cleanup" /\ stage' = "cleanup" /\ Len(held) = 3 /\ Len(held') = 2
  BY <1>1, GiveBackNumber
<1>3. rootFd \in Fds
  BY <1>2, FdsAre DEF SessionInv, RootInv
<1>4. \A n \in Fds : fdt'[n] = IF n = rootFd THEN NOFD ELSE fdt[n]
  BY <1>3 DEF GiveBackRoot, SessionInv, SessionTypeOK
<1>5. SessionTypeOK' /\ ChainInv' /\ SetupInv' /\ NothingIsLeft'
  <2>1. fdt' \in [Fds -> {"std", "null", "source", "fuse root", "/dev/fuse", NOFD}]
    BY <1>3 DEF GiveBackRoot, SessionInv, SessionTypeOK
  <2>2. /\ proc' \in [Procs -> {"quiet", "queued"} \cup Workers]
        /\ mounted' \in BOOLEAN
    BY <1>1 DEF SessionInv, SessionTypeOK
  <2> QED
    BY <1>1, <2>1, <2>2, GiveBackKeeps
<1>6. RootInv'
  BY <1>1, <1>2 DEF RootInv
<1>7. FdInv'
  <2>1. ~(Len(held) >= 4)
    BY <1>2
  <2>2. \A n \in Fds : fdt'[n] \notin {"/dev/fuse", "fuse root", "source"}
    BY <1>2, <1>4, <2>1, SessionAssumption DEF SessionInv, FdInv
  <2> QED
    BY <2>2 DEF FdInv
<1> QED
  BY <1>5, <1>6, <1>7 DEF SessionInv

LEMMA SessionGiveBackOther == ASSUME SessionInv, GiveBackOther PROVE SessionInv'
<1>1. PICK r \in {"config", "signals", "opts", "args"} : GiveBack(r)
  BY DEF GiveBackOther
<1>2. UNCHANGED <<mounted, fdt, rootFd, proc, opts>>
  BY <1>1 DEF GiveBackOther, GiveBack
<1>3. (Len(held) < 3 <=> Len(held') < 3) /\ (Len(held) >= 4 => Len(held') >= 4)
  <2>1. CASE r = "config"
    <3>1. Len(held) = 7 /\ Len(held') = 6
      BY <1>1, <2>1, GiveBackNumber
    <3> QED
      BY <3>1
  <2>2. CASE r = "signals"
    <3>1. Len(held) = 5 /\ Len(held') = 4
      BY <1>1, <2>2, GiveBackNumber
    <3> QED
      BY <3>1
  <2>3. CASE r = "opts"
    <3>1. Len(held) = 2 /\ Len(held') = 1
      BY <1>1, <2>3, GiveBackNumber
    <3> QED
      BY <3>1
  <2>4. CASE r = "args"
    <3>1. Len(held) = 1 /\ Len(held') = 0
      BY <1>1, <2>4, GiveBackNumber
    <3> QED
      BY <3>1
  <2> QED
    BY <2>1, <2>2, <2>3, <2>4
<1>a. stage = "cleanup" /\ stage' = "cleanup"
  BY <1>1 DEF GiveBack
<1>4. SessionTypeOK' /\ ChainInv' /\ SetupInv' /\ NothingIsLeft'
  <2>1. /\ fdt' \in [Fds -> {"std", "null", "source", "fuse root", "/dev/fuse", NOFD}]
        /\ rootFd' \in Fds \cup {NOFD}
        /\ proc' \in [Procs -> {"quiet", "queued"} \cup Workers]
        /\ mounted' \in BOOLEAN
    BY <1>1, <1>2 DEF SessionInv, SessionTypeOK
  <2> QED
    BY <1>1, <1>2, <2>1, GiveBackKeeps
<1>5. RootInv'
  BY <1>2, <1>3, <1>a DEF SessionInv, RootInv, opts
<1>6. FdInv'
  BY <1>2, <1>3, <1>a DEF SessionInv, FdInv
<1> QED
  BY <1>4, <1>5, <1>6 DEF SessionInv

LEMMA SessionReturn == ASSUME SessionInv, ReturnFromMain PROVE SessionInv'
<1>1. /\ stage = "cleanup" /\ stage' = "ended"
      /\ UNCHANGED <<held, next, exited, mounted, fdt, rootFd, opts, proc, killed>>
  BY DEF ReturnFromMain
<1>2. Len(held) = 0
  BY DEF ReturnFromMain
<1>3. SessionTypeOK'
  BY <1>1 DEF SessionInv, SessionTypeOK, opts
<1>4. ChainInv' /\ SetupInv' /\ RootInv' /\ FdInv'
  BY <1>1 DEF SessionInv, ChainInv, SetupInv, RootInv, FdInv
<1>5. NothingIsLeft'
  <2>a. Len(held) < 3 /\ ~(Len(held) >= 4) /\ ~(Len(held) >= 6)
    BY <1>2
  <2>1. ~mounted /\ rootFd \notin Fds
    <3>1. ~mounted
      BY <1>1, <2>a DEF SessionInv, ChainInv
    <3>2. rootFd = NOFD
      BY <1>1, <2>a DEF SessionInv, RootInv
    <3> QED
      BY <3>1, <3>2, SessionAssumption DEF Fds
  <2>2. \A n \in Fds : fdt[n] \notin {"source", "fuse root", "/dev/fuse"}
    BY <1>1, <2>a, <2>1 DEF SessionInv, FdInv
  <2> QED
    BY <1>1, <2>1, <2>2 DEF SessionInv, SessionTypeOK, NothingIsLeft
<1> QED
  BY <1>3, <1>4, <1>5 DEF SessionInv

LEMMA SessionStep == ASSUME SessionInv, [SessionNext]_sessionVars PROVE SessionInv'
<1>1. CASE UNCHANGED sessionVars
  <2>1. SessionTypeOK'
    BY <1>1 DEF sessionVars, SessionInv, SessionTypeOK, opts
  <2>2. ChainInv' /\ SetupInv' /\ RootInv' /\ FdInv' /\ NothingIsLeft'
    BY <1>1 DEF sessionVars, SessionInv, ChainInv, SetupInv, RootInv, FdInv, NothingIsLeft, opts
  <2> QED
    BY <2>1, <2>2 DEF SessionInv
<1>2. CASE Main
  BY <1>2, SessionFail, SessionTakeOther, SessionTakeRoot, SessionTakeMount, SessionDaemonize,
     SessionStartLoop, SessionEndLoop, SessionReturn, SessionGiveBackMount,
     SessionGiveBackSession, SessionGiveBackRoot, SessionGiveBackOther DEF Main
<1> QED
  BY <1>1, <1>2, SessionSignal, SessionUnmount, SessionServe DEF SessionNext

\* The invariant behind the theorems below.
LEMMA SessionKept == SessionSpec => []SessionInv
  BY SessionInitially, SessionStep, PTL DEF SessionSpec

(***************************************************************************)
(* Type correctness of Main: it never gives back what it does not hold.    *)
(***************************************************************************)
THEOREM SessionTypeCorrect == SessionSpec => []SessionTypeOK
<1>1. SessionInv => SessionTypeOK
  BY DEF SessionInv
<1> QED
  BY <1>1, SessionKept, PTL

(***************************************************************************)
(* However Main ends, at whatever step it fails and whenever a signal      *)
(* comes, the mount point is not left covered and its descriptors are      *)
(* closed: the handlers are set before the mount and removed after it, and *)
(* what is taken is given back in reverse.                                 *)
(***************************************************************************)
THEOREM MainLeavesNothing == SessionSpec => []NothingIsLeft
<1>1. SessionInv => NothingIsLeft
  BY DEF SessionInv
<1> QED
  BY <1>1, SessionKept, PTL

(***************************************************************************)
(* The loop serves the source directory, which was opened before the mount *)
(* covered it, unless a standard stream was closed at the start and the    *)
(* program went to the background: no other descriptor ever takes the      *)
(* number of root_.                                                        *)
(***************************************************************************)
THEOREM RootStaysTheSource == SessionSpec => []RootIsTheSource
<1>1. SessionInv => RootIsTheSource
  <2> SUFFICES ASSUME SessionInv, stage = "loop"
               PROVE  fdt[rootFd] = "source" \/ (closedAtStart /\ ~foreground /\ rootFd \in Std)
    BY DEF RootIsTheSource
  <2>1. Len(held) >= 6 /\ held \in Seq(Holdable)
    BY DEF SessionInv, ChainInv, SessionTypeOK, Holdable
  <2>2. ~(Len(held) < 3)
    BY <2>1, LenProperties
  <2> QED
    BY <2>2 DEF SessionInv, RootInv
<1> QED
  BY <1>1, SessionKept, PTL
-----------------------------------------------------------------------------
\* The stages that are left.
StagesLeft ==
  IF stage = "setup" THEN 3 ELSE IF stage = "loop" THEN 2 ELSE IF stage = "cleanup" THEN 1 ELSE 0

\* The processes whose request a thread has taken.
InService == {p \in Procs : proc[p] \in Workers}

(***************************************************************************)
(* The session is to exit.  It stays so; no request is taken any more, and *)
(* nobody leads the program back: a step of Main begins a later stage, or  *)
(* takes or gives back one thing more, and a thread that comes back serves *)
(* nobody any longer.                                                      *)
(***************************************************************************)
EndAdvances ==
  exited =>
    /\ exited'
    /\ InService' \subseteq InService
    /\ StagesLeft' <= StagesLeft
    /\ stage = "setup" /\ stage' = stage => next' >= next
    /\ stage = "cleanup" /\ stage' = stage => Len(held') <= Len(held)
    /\ Main => \/ StagesLeft' < StagesLeft
               \/ stage = "setup" /\ stage' = stage /\ next' > next
               \/ stage = "cleanup" /\ stage' = stage /\ Len(held') < Len(held)
    /\ (\E p \in Procs : Serve(p) \/ WriterComes(p)) => InService' # InService

\* Giving a resource back leaves one fewer.
LEMMA GiveBackShortens ==
  ASSUME SessionInv, NEW r, GiveBack(r)
  PROVE  /\ stage = "cleanup" /\ stage' = stage /\ exited' = exited
         /\ Len(held') < Len(held) /\ Len(held') <= Len(held)
<1>1. Len(held) \in 1..7 /\ Len(held') = Len(held) - 1
  BY GiveBackChain
<1>2. Len(held') < Len(held) /\ Len(held') <= Len(held)
  BY <1>1
<1> QED
  BY <1>2 DEF GiveBack

\* Main goes on.
LEMMA MainAdvances ==
  ASSUME SessionInv, Main
  PROVE  /\ exited' = exited
         /\ \/ StagesLeft' < StagesLeft
            \/ stage = "setup" /\ stage' = stage /\ next' > next
            \/ stage = "cleanup" /\ stage' = stage /\ Len(held') < Len(held)
<1>0. next \in Nat
  <2>1. next \in 1..(Len(Setup) + 1) /\ Len(Setup) = 8
    BY DEF SessionInv, SessionTypeOK, Setup
  <2> QED
    BY <2>1
<1>1. CASE Fail \/ StartLoop \/ EndLoop \/ ReturnFromMain
  BY <1>1 DEF Fail, StartLoop, EndLoop, ReturnFromMain, At, StagesLeft
<1>2. CASE TakeOther \/ TakeRoot \/ TakeMount \/ Daemonize
  <2>1. stage = "setup" /\ stage' = stage /\ next' = next + 1 /\ exited' = exited
    BY <1>2 DEF TakeOther, TakeRoot, TakeMount, Daemonize, Take, At
  <2> QED
    BY <1>0, <2>1
<1>3. CASE GiveBackMount \/ GiveBackSession \/ GiveBackRoot \/ GiveBackOther
  BY <1>3, GiveBackShortens DEF GiveBackMount, GiveBackSession, GiveBackRoot, GiveBackOther
<1> QED
  BY <1>1, <1>2, <1>3 DEF Main

\* Main takes no request.
LEMMA MainServesNobody ==
  ASSUME SessionInv, Main
  PROVE  InService' \subseteq InService
  BY SessionAssumption
     DEF Main, Fail, TakeOther, TakeRoot, TakeMount, Daemonize, StartLoop, EndLoop, ReturnFromMain,
         GiveBackMount, GiveBackSession, GiveBackRoot, GiveBackOther, InService, SessionInv, SessionTypeOK

\* A thread that comes back serves nobody any longer.
LEMMA ThreadComesBack ==
  ASSUME SessionInv, NEW p \in Procs, Serve(p) \/ WriterComes(p)
  PROVE  /\ exited' = exited /\ stage' = stage /\ next' = next /\ held' = held
         /\ InService' \subseteq InService /\ InService' # InService
<1>1. proc[p] \in Workers /\ proc' = [proc EXCEPT ![p] = "quiet"]
  BY DEF Serve, WriterComes
<1>2. p \in InService /\ p \notin InService' /\ InService' \subseteq InService
  BY <1>1, SessionAssumption DEF InService, SessionInv, SessionTypeOK
<1> QED
  BY <1>2 DEF Serve, WriterComes

\* What no step does once the session is to exit.
LEMMA NothingGoesBack ==
  ASSUME SessionInv, [SessionNext]_sessionVars, exited
  PROVE  /\ exited'
         /\ InService' \subseteq InService
         /\ StagesLeft' <= StagesLeft
         /\ stage = "setup" /\ stage' = stage => next' >= next
         /\ stage = "cleanup" /\ stage' = stage => Len(held') <= Len(held)
<1>0. next \in Nat /\ Len(held) \in Nat
  <2>1. next \in 1..(Len(Setup) + 1) /\ Len(Setup) = 8
    BY DEF SessionInv, SessionTypeOK, Setup
  <2>2. held \in Seq(Holdable)
    BY DEF SessionInv, SessionTypeOK, Holdable
  <2> QED
    BY <2>1, <2>2
<1>1. StagesLeft \in Nat /\ StagesLeft' \in Nat /\ (stage' = stage => StagesLeft' = StagesLeft)
  BY DEF StagesLeft
<1>2. CASE Main
  <2>1. InService' \subseteq InService
    BY <1>2, MainServesNobody
  <2>2. CASE StagesLeft' < StagesLeft
    BY <1>1, <1>2, <2>1, <2>2, MainAdvances
  <2>3. CASE stage = "setup" /\ stage' = stage /\ next' > next
    <3>1. next' = next + 1
      BY <1>2, <2>3, <1>1
         DEF Main, Fail, StartLoop, EndLoop, ReturnFromMain, TakeOther, TakeRoot, TakeMount, Daemonize, Take,
             GiveBackMount, GiveBackSession, GiveBackRoot, GiveBackOther, GiveBack
    <3> QED
      BY <1>0, <1>1, <1>2, <2>1, <2>3, <3>1, MainAdvances
  <2>4. CASE stage = "cleanup" /\ stage' = stage /\ Len(held') < Len(held)
    <3>1. PICK r : GiveBack(r)
      BY <1>2, <2>4
         DEF Main, Fail, StartLoop, EndLoop, ReturnFromMain, TakeOther, TakeRoot, TakeMount, Daemonize, Take,
             At, GiveBackMount, GiveBackSession, GiveBackRoot, GiveBackOther
    <3>2. Len(held') <= Len(held)
      BY <3>1, GiveBackShortens
    <3> QED
      BY <1>1, <1>2, <2>1, <2>4, <3>2, MainAdvances
  <2> QED
    BY <1>2, <2>2, <2>3, <2>4, MainAdvances
<1>3. CASE Signal
  <2>1. exited' /\ next' = next /\ held' = held /\ (stage' = stage \/ stage' = "ended")
    BY <1>3 DEF Signal
  <2>2. InService' \subseteq InService
    BY <1>3, SessionAssumption DEF Signal, InService, SessionInv, SessionTypeOK
  <2>3. StagesLeft' <= StagesLeft
    BY <1>1, <2>1 DEF StagesLeft
  <2> QED
    BY <1>0, <2>1, <2>2, <2>3
<1>4. CASE Unmount \/ UNCHANGED sessionVars
  <2>1. exited' /\ next' = next /\ held' = held /\ stage' = stage /\ proc' = proc
    BY <1>4 DEF Unmount, sessionVars
  <2> QED
    BY <1>0, <1>1, <2>1 DEF InService
<1>5. ASSUME NEW p \in Procs, Ask(p) \/ Serve(p) \/ WriterComes(p)
      PROVE  exited' /\ next' = next /\ held' = held /\ stage' = stage /\ InService' \subseteq InService
  <2>1. CASE Ask(p)
    BY <2>1, SessionAssumption DEF Ask, InService, SessionInv, SessionTypeOK
  <2> QED
    BY <1>5, <2>1, ThreadComesBack
<1>6. ~(\E p \in Procs : \E w \in Workers : Receive(w, p))
  BY DEF Receive
<1> QED
  BY <1>0, <1>1, <1>2, <1>3, <1>4, <1>5, <1>6 DEF SessionNext

(***************************************************************************)
(* The safety half of "a signal ends the program": from the moment the     *)
(* session is to exit every step of Main, and every thread that comes      *)
(* back, brings the end nearer, no request is taken any more, and neither  *)
(* processes that go on asking nor another signal undo any of this.  Only  *)
(* a thread that does not come back from a FIFO can hold the program.      *)
(***************************************************************************)
THEOREM SignalLeadsToTheEnd == SessionSpec => [][EndAdvances]_sessionVars
<1>1. SessionInv /\ [SessionNext]_sessionVars => EndAdvances
  <2> SUFFICES ASSUME SessionInv, [SessionNext]_sessionVars, exited PROVE EndAdvances
    BY DEF EndAdvances
  <2>1. Main => \/ StagesLeft' < StagesLeft
                \/ stage = "setup" /\ stage' = stage /\ next' > next
                \/ stage = "cleanup" /\ stage' = stage /\ Len(held') < Len(held)
    BY MainAdvances
  <2>2. (\E p \in Procs : Serve(p) \/ WriterComes(p)) => InService' # InService
    BY ThreadComesBack
  <2> QED
    BY <2>1, <2>2, NothingGoesBack DEF EndAdvances
<1> QED
  BY <1>1, SessionKept, PTL DEF SessionSpec
=============================================================================
