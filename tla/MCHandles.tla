----------------------------- MODULE MCHandles -----------------------------
(***************************************************************************)
(* Small instances of Handles for TLC.                                     *)
(***************************************************************************)
EXTENDS Handles, TLC

CONSTANTS t1, t2, i1, i2, i3, j1, j2, j3, a1, a2

\* Threads, descriptions and addresses are only ever compared.
Symmetric == Permutations(Threads) \cup Permutations(FileIds)
               \cup Permutations(DirIds) \cup Permutations(Addrs)
=============================================================================
