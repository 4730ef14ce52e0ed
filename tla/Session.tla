------------------------------ MODULE Session ------------------------------
(***************************************************************************)
(* The life of the program: Main (main.cc), PageAlignFS::Create, and the   *)
(* session loop with the one call of its handlers that may wait for ever.  *)
(*                                                                         *)
(* Main takes resources one after the other and gives them back in reverse *)
(* on every way out (absl::Cleanup and destructors).  The source directory *)
(* is the mount point itself, opened before the mount covers it.  libfuse  *)
(* opens the standard streams if they are closed, and puts /dev/null into  *)
(* their place when it sends the program to the background.  A signal ends *)
(* the loop once the handlers are set, and the program before that.        *)
(*                                                                         *)
(* A Lookup opens the file to ask for its generation (inode.cc), without   *)
(* O_NONBLOCK: if it is a FIFO the thread waits for somebody to open it    *)
(* for writing.  A loop of several threads waits for all of them before it *)
(* ends; on one thread the signal interrupts the call.                     *)
(***************************************************************************)
EXTENDS Naturals, Sequences, FiniteSets

CONSTANTS
  Workers,    \* threads of the loop, if it has several
  Procs,      \* processes that use the mount
  FifoProcs,  \* those of them that look up a FIFO, each its own
  MaxFd,      \* the highest descriptor number
  NOFD        \* no descriptor, no worker

ASSUME SessionAssumption ==
  /\ IsFiniteSet(Workers)
  /\ Workers \cap {"quiet", "queued"} = {}
  /\ FifoProcs \subseteq Procs
  /\ MaxFd \in Nat \ 0..3
  /\ NOFD \notin 0..MaxFd
  /\ NOFD \notin {"std", "null", "source", "fuse root", "/dev/fuse"}

Fds == 0..MaxFd
Std == 0..2

VARIABLES
  stage,         \* "setup", "loop", "cleanup" or "ended"
  held,          \* the resources taken, in this order
  next,          \* the number of the next step of Setup
  exited,        \* fuse_session_exited
  mounted,       \* the mount point is covered
  fdt,           \* what each descriptor leads to
  rootFd,        \* the descriptor of root_, NOFD if there is none
  closedAtStart, \* a standard stream was closed when the program started
  foreground,    \* -f
  singlethread,  \* -s
  proc,          \* process: "quiet" or "queued", or the worker that serves it
  killed         \* history: a signal ended the program at once

opts == <<closedAtStart, foreground, singlethread>>
sessionVars == <<stage, held, next, exited, mounted, fdt, rootFd, opts, proc, killed>>

\* What Main takes, in this order; the loop follows.
SetupSignalsLate == <<"args", "opts", "root", "session", "mount", "signals", "daemon", "config">>

SetupRootLate == <<"args", "opts", "session", "signals", "mount", "root", "daemon", "config">>

Setup == <<"args", "opts", "root", "session", "signals", "mount", "daemon", "config">>

(***************************************************************************)
(* Types of the state.                                                     *)
(***************************************************************************)
SessionTypeOK ==
  /\ stage \in {"setup", "loop", "cleanup", "ended"}
  /\ held \in Seq({Setup[k] : k \in 1..Len(Setup)} \ {"daemon"})
  /\ next \in 1..(Len(Setup) + 1)
  /\ exited \in BOOLEAN
  /\ mounted \in BOOLEAN
  /\ fdt \in [Fds -> {"std", "null", "source", "fuse root", "/dev/fuse", NOFD}]
  /\ rootFd \in Fds \cup {NOFD}
  /\ opts \in BOOLEAN \X BOOLEAN \X BOOLEAN
  /\ proc \in [Procs -> {"quiet", "queued"} \cup Workers]
  /\ killed \in BOOLEAN

SessionInit ==
  /\ stage = "setup"
  /\ held = <<>>
  /\ next = 1
  /\ exited = FALSE
  /\ mounted = FALSE
  /\ \E S \in SUBSET Std :
       /\ fdt = [n \in Fds |-> IF n \in S THEN "std" ELSE NOFD]
       /\ closedAtStart = (S # Std)
  /\ rootFd = NOFD
  /\ foreground \in BOOLEAN
  /\ singlethread \in BOOLEAN
  /\ proc = [p \in Procs |-> "quiet"]
  /\ killed = FALSE
-----------------------------------------------------------------------------
Free(f) == {n \in Fds : f[n] = NOFD}

Lowest(f) == CHOOSE n \in Free(f) : \A m \in Free(f) : n <= m

At(step) == stage = "setup" /\ next <= Len(Setup) /\ Setup[next] = step

\* A step succeeds and leaves a resource to be given back.
Take(step) ==
  /\ At(step)
  /\ held' = Append(held, step)
  /\ next' = next + 1

(***************************************************************************)
(* A step fails, the arguments ask for help or have no mount point, or the *)
(* mount point is not a directory: Main returns.                           *)
(***************************************************************************)
Fail ==
  /\ stage = "setup"
  /\ Setup[next] \in {"args", "opts", "root", "session", "signals", "mount"}
  /\ stage' = "cleanup"
  /\ UNCHANGED <<held, next, exited, mounted, fdt, rootFd, opts, proc, killed>>

\* The arguments, the fuse_session and the handlers take no descriptor.
TakeOther ==
  /\ \E r \in {"args", "opts", "session", "signals"} : Take(r)
  /\ UNCHANGED <<stage, exited, mounted, fdt, rootFd, opts, proc, killed>>

\* PageAlignFS::Create opens what is at the mount point.
TakeRoot ==
  /\ Take("root")
  /\ rootFd' = Lowest(fdt)
  /\ fdt' = [fdt EXCEPT ![Lowest(fdt)] = IF mounted THEN "fuse root" ELSE "source"]
  /\ UNCHANGED <<stage, exited, mounted, opts, proc, killed>>

\* fuse_session_mount opens the standard streams that are closed, and then
\* /dev/fuse.
StdOpened == [n \in Fds |-> IF n \in Std /\ fdt[n] = NOFD THEN "null" ELSE fdt[n]]

TakeMount ==
  /\ Take("mount")
  /\ mounted' = TRUE
  /\ fdt' = [StdOpened EXCEPT ![Lowest(StdOpened)] = "/dev/fuse"]
  /\ UNCHANGED <<stage, exited, rootFd, opts, proc, killed>>

\* fuse_daemonize.  Main does not look at its result: when it fails nothing
\* is done and the program stays where it is.
Daemonize ==
  /\ At("daemon")
  /\ next' = next + 1
  /\ \/ fdt' = fdt
     \/ ~foreground /\ fdt' = [n \in Fds |-> IF n \in Std THEN "null" ELSE fdt[n]]
  /\ UNCHANGED <<stage, held, exited, mounted, rootFd, opts, proc, killed>>

\* fuse_session_loop needs no configuration, fuse_session_loop_mt does.
StartLoop ==
  /\ At("config")
  /\ held' = IF singlethread THEN held ELSE Append(held, "config")
  /\ next' = next + 1
  /\ stage' = "loop"
  /\ UNCHANGED <<exited, mounted, fdt, rootFd, opts, proc, killed>>
-----------------------------------------------------------------------------
\* The threads the loop has.
LoopThreads == IF singlethread THEN {CHOOSE w \in Workers : TRUE} ELSE Workers

Busy == {proc[p] : p \in Procs} \cap Workers

\* A process asks for something: a Lookup of a FIFO, or anything else.
Ask(p) ==
  /\ mounted
  /\ stage = "loop"
  /\ proc[p] = "quiet"
  /\ proc' = [proc EXCEPT ![p] = "queued"]
  /\ UNCHANGED <<stage, held, next, exited, mounted, fdt, rootFd, opts, killed>>

\* A thread that is not busy takes a request, unless the loop is to end.
Receive(w, p) ==
  /\ stage = "loop"
  /\ ~exited
  /\ w \in LoopThreads \ Busy
  /\ proc[p] = "queued"
  /\ proc' = [proc EXCEPT ![p] = w]
  /\ UNCHANGED <<stage, held, next, exited, mounted, fdt, rootFd, opts, killed>>

\* GetFileVersionFromPathFD: open returns at once, unless the file is a FIFO
\* that nobody has open for writing.
WaitsForWriterAlways(p) == TRUE

WaitsForWriter(p) == p \in FifoProcs

Serve(p) ==
  /\ proc[p] \in Workers
  /\ ~WaitsForWriter(p)
  /\ proc' = [proc EXCEPT ![p] = "quiet"]
  /\ UNCHANGED <<stage, held, next, exited, mounted, fdt, rootFd, opts, killed>>

\* Somebody opens the FIFO in the source for writing.
WriterComes(p) ==
  /\ proc[p] \in Workers
  /\ WaitsForWriter(p)
  /\ proc' = [proc EXCEPT ![p] = "quiet"]
  /\ UNCHANGED <<stage, held, next, exited, mounted, fdt, rootFd, opts, killed>>

\* SIGHUP, SIGINT or SIGTERM: the handler makes the session exit.  On one
\* thread it interrupts a call that waits; other threads block the signal.
Signal ==
  /\ stage \in {"setup", "loop", "cleanup"}
  /\ IF "signals" \in {held[k] : k \in 1..Len(held)}
       THEN /\ exited' = TRUE
            /\ proc' = [p \in Procs |->
                          IF singlethread /\ proc[p] \in Workers THEN "quiet" ELSE proc[p]]
            /\ UNCHANGED <<stage, fdt, rootFd, killed>>
       ELSE /\ stage' = "ended"
            /\ killed' = TRUE
            /\ fdt' = [n \in Fds |-> NOFD]
            /\ rootFd' = NOFD
            /\ UNCHANGED <<exited, proc>>
  /\ UNCHANGED <<held, next, mounted, opts>>

\* Somebody unmounts the file system.
Unmount ==
  /\ stage = "loop"
  /\ mounted
  /\ mounted' = FALSE
  /\ exited' = TRUE
  /\ UNCHANGED <<stage, held, next, fdt, rootFd, opts, proc, killed>>

\* The loop ends when all its threads have come back.
EndLoop ==
  /\ stage = "loop"
  /\ exited
  /\ Busy = {}
  /\ stage' = "cleanup"
  /\ UNCHANGED <<held, next, exited, mounted, fdt, rootFd, opts, proc, killed>>

(***************************************************************************)
(* Main returns: the last resource taken is given back first.  The         *)
(* descriptor of the session is closed with it.  When the mount is gone    *)
(* the processes that still wait get an error.                             *)
(***************************************************************************)
GiveBack(r) ==
  /\ stage = "cleanup"
  /\ held # <<>>
  /\ held[Len(held)] = r
  /\ held' = SubSeq(held, 1, Len(held) - 1)
  /\ UNCHANGED <<stage, next, exited, opts, killed>>

GiveBackMount ==
  /\ GiveBack("mount")
  /\ mounted' = FALSE
  /\ proc' = [p \in Procs |-> "quiet"]
  /\ UNCHANGED <<fdt, rootFd>>

GiveBackSession ==
  /\ GiveBack("session")
  /\ fdt' = [n \in Fds |-> IF fdt[n] = "/dev/fuse" THEN NOFD ELSE fdt[n]]
  /\ UNCHANGED <<mounted, proc, rootFd>>

GiveBackRoot ==
  /\ GiveBack("root")
  /\ fdt' = [fdt EXCEPT ![rootFd] = NOFD]
  /\ rootFd' = NOFD
  /\ UNCHANGED <<mounted, proc>>

GiveBackOther ==
  /\ \E r \in {"config", "signals", "opts", "args"} : GiveBack(r)
  /\ UNCHANGED <<mounted, fdt, rootFd, proc>>

ReturnFromMain ==
  /\ stage = "cleanup"
  /\ held = <<>>
  /\ stage' = "ended"
  /\ UNCHANGED <<held, next, exited, mounted, fdt, rootFd, opts, proc, killed>>

Main ==
  \/ Fail \/ TakeOther \/ TakeRoot \/ TakeMount \/ Daemonize \/ StartLoop
  \/ EndLoop \/ ReturnFromMain
  \/ GiveBackMount \/ GiveBackSession \/ GiveBackRoot \/ GiveBackOther

SessionNext ==
  \/ Main
  \/ Signal \/ Unmount
  \/ \E p \in Procs : Ask(p) \/ Serve(p) \/ WriterComes(p) \/ \E w \in Workers : Receive(w, p)

SessionSpec == SessionInit /\ [][SessionNext]_sessionVars

(***************************************************************************)
(* Fairness: Main and the threads go on, and a thread that is not busy     *)
(* takes every request in the end.  Nobody has to open a FIFO.             *)
(***************************************************************************)
FairSessionSpec ==
  /\ SessionSpec
  /\ WF_sessionVars(Main)
  /\ \A p \in Procs : WF_sessionVars(Serve(p)) /\ SF_sessionVars(\E w \in Workers : Receive(w, p))
-----------------------------------------------------------------------------
(***************************************************************************)
(* While requests are served, the descriptor of root_ leads to the source  *)
(* directory and not to the file system that has been mounted over it:     *)
(* unless a standard stream was closed when the program started and it     *)
(* went to the background, where /dev/null takes the place of root_.       *)
(***************************************************************************)
RootIsTheSource ==
  stage = "loop" => fdt[rootFd] = "source" \/ (closedAtStart /\ ~foreground /\ rootFd \in Std)

(***************************************************************************)
(* However the program ends, by an error in any step, an unmount or a      *)
(* signal at any moment, it does not leave the mount point covered, and    *)
(* when it returns no descriptor of its own is left open.                  *)
(***************************************************************************)
NothingIsLeft ==
  stage = "ended" => ~mounted /\ \A n \in Fds : fdt[n] \in {"std", "null", NOFD}

(***************************************************************************)
(* As long as there are more threads than FIFOs that somebody looks up,    *)
(* requests about other files are served, or the program ends.             *)
(***************************************************************************)
OthersAreServed ==
  \A p \in Procs \ FifoProcs :
    proc[p] = "queued" /\ Cardinality(FifoProcs) < Cardinality(LoopThreads)
      ~> proc[p] = "quiet" \/ exited

(***************************************************************************)
(* A signal, or an unmount, ends the program although requests keep        *)
(* coming, unless a thread waits for ever for the writer of a FIFO.        *)
(***************************************************************************)
SignalEndsProgram ==
  (exited ~> stage = "ended") \/ <>[](\E p \in FifoProcs : proc[p] \in Workers)
=============================================================================
