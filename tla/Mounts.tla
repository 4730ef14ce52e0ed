------------------------------- MODULE Mounts -------------------------------
(***************************************************************************)
(* Class Mount (mount.cc) with syscalls::mount and umount (syscalls.cc): a *)
(* mount that is undone when its owner is destroyed.                       *)
(*                                                                         *)
(* A Mount holds the target, or the empty string.  Moving one exchanges    *)
(* the targets.  The destructor passes itself on to umount, by value; when *)
(* umount2 fails, that parameter still holds the target when it is         *)
(* destroyed, and its destructor calls umount again: one level deeper, and *)
(* so on until umount2 succeeds or the stack is used up.  Others may       *)
(* unmount a target too.  No part of the program makes a Mount yet.        *)
(***************************************************************************)
EXTENDS Naturals, FiniteSets

CONSTANTS
  Objs,       \* variables of type Mount
  Targets,    \* mount points
  MaxMounts,  \* bound: mounts made
  MaxDepth,   \* calls of umount that the stack has room for
  NONE        \* the empty string

ASSUME MountsAssumption ==
  /\ MaxMounts \in Nat
  /\ MaxDepth \in Nat \ {0}
  /\ IsFiniteSet(Objs)
  /\ NONE \notin Targets

VARIABLES
  target,   \* Mount::target_ of each variable
  mounts,   \* kernel: how many mounts there are on each target
  made,     \* mounts made so far
  param,    \* the target of the parameter of umount, NONE outside umount
  depth,    \* calls of umount on the stack
  outside,  \* history: a mount of ours was undone by others
  crashed   \* the stack is used up

mountVars == <<target, mounts, made, param, depth, outside, crashed>>

(***************************************************************************)
(* Types of the state.                                                     *)
(***************************************************************************)
MountsTypeOK ==
  /\ target \in [Objs -> Targets \cup {NONE}]
  /\ mounts \in [Targets -> 0..MaxMounts]
  /\ made \in 0..MaxMounts
  /\ param \in Targets \cup {NONE}
  /\ depth \in 0..MaxDepth
  /\ outside \in BOOLEAN
  /\ crashed \in BOOLEAN

MountsInit ==
  /\ target = [o \in Objs |-> NONE]
  /\ mounts = [m \in Targets |-> 0]
  /\ made = 0
  /\ param = NONE
  /\ depth = 0
  /\ outside = FALSE
  /\ crashed = FALSE

Runs == param = NONE /\ ~crashed
-----------------------------------------------------------------------------
\* A new Mount is assigned to a variable that has none.
Mount(o, m) ==
  /\ Runs
  /\ made < MaxMounts
  /\ target[o] = NONE
  /\ target' = [target EXCEPT ![o] = m]
  /\ mounts' = [mounts EXCEPT ![m] = @ + 1]
  /\ made' = made + 1
  /\ UNCHANGED <<param, depth, outside, crashed>>

\* o = std::move(p), by a swap.
MoveCopies(o, p) ==
  /\ Runs
  /\ target' = [target EXCEPT ![o] = target[p]]
  /\ UNCHANGED <<mounts, made, param, depth, outside, crashed>>

Move(o, p) ==
  /\ Runs
  /\ target' = [target EXCEPT ![o] = target[p], ![p] = target[o]]
  /\ UNCHANGED <<mounts, made, param, depth, outside, crashed>>

\* ~Mount, or umount(std::move(o)): the target moves to the parameter.
DestroyMount(o) ==
  /\ Runs
  /\ target[o] # NONE
  /\ param' = target[o]
  /\ depth' = 1
  /\ target' = [target EXCEPT ![o] = NONE]
  /\ UNCHANGED <<mounts, made, outside, crashed>>

\* umount2 succeeds; every Mount on the stack is empty then.
Umount ==
  /\ param # NONE
  /\ ~crashed
  /\ mounts[param] > 0
  /\ mounts' = [mounts EXCEPT ![param] = @ - 1]
  /\ param' = NONE
  /\ depth' = 0
  /\ UNCHANGED <<target, made, outside, crashed>>

\* umount2 fails, because the target is in use or is no mount point any more:
\* the destructor of the parameter calls umount again.
UmountFails ==
  /\ param # NONE
  /\ ~crashed
  /\ crashed' = (depth = MaxDepth)
  /\ depth' = IF depth = MaxDepth THEN depth ELSE depth + 1
  /\ UNCHANGED <<target, mounts, made, param, outside>>

OthersUnmount(m) ==
  /\ mounts[m] > 0
  /\ mounts' = [mounts EXCEPT ![m] = @ - 1]
  /\ outside' = TRUE
  /\ UNCHANGED <<target, made, param, depth, crashed>>

MountsNext ==
  \/ \E o \in Objs :
       \/ \E m \in Targets : Mount(o, m)
       \/ \E p \in Objs \ {o} : Move(o, p)
       \/ DestroyMount(o)
  \/ Umount \/ UmountFails
  \/ \E m \in Targets : OthersUnmount(m)

MountsSpec == MountsInit /\ [][MountsNext]_mountVars
-----------------------------------------------------------------------------
Owners(m) == Cardinality({o \in Objs : target[o] = m}) + (IF param = m THEN 1 ELSE 0)

(***************************************************************************)
(* Every mount has one owner that will undo it, and unless others unmount  *)
(* a target no owner stands for a mount that is gone: however Mounts are   *)
(* moved, none is unmounted twice and none is forgotten, before the        *)
(* program returns or crashes.                                             *)
(***************************************************************************)
EveryMountHasOneOwner ==
  \A m \in Targets : mounts[m] <= Owners(m) /\ (~outside => mounts[m] = Owners(m))
=============================================================================
