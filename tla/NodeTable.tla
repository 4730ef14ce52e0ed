------------------------------ MODULE NodeTable ------------------------------
(***************************************************************************)
(* What the kernel relies on when it uses node ids: the abstract           *)
(* specification that PageAlignFS and InodeCache implement.  A node id     *)
(* denotes one file from the moment it is bound until it is freed, is only *)
(* handed out while it is bound, is freed only when it is not out, and no  *)
(* two node ids denote files with one number at the same time.             *)
(***************************************************************************)
EXTENDS Naturals

CONSTANTS Addrs, Files, KeyOf, NULL

VARIABLES
  file,  \* the file a node id denotes, NULL if none
  out    \* how often the node id is out

vars == <<file, out>>

Init ==
  /\ file = [a \in Addrs |-> NULL]
  /\ out = [a \in Addrs |-> 0]

Bind(a, f) ==
  /\ file[a] = NULL
  /\ out[a] = 0
  /\ \A b \in Addrs : file[b] # NULL => KeyOf[file[b]] # KeyOf[f]
  /\ file' = [file EXCEPT ![a] = f]
  /\ UNCHANGED out

Free(a) ==
  /\ file[a] # NULL
  /\ out[a] = 0
  /\ file' = [file EXCEPT ![a] = NULL]
  /\ UNCHANGED out

\* One reply hands out any number of bound node ids.
Grant ==
  /\ \A a \in Addrs : out'[a] \in Nat /\ out'[a] >= out[a]
  /\ \A a \in Addrs : out'[a] > out[a] => file[a] # NULL
  /\ out' = [a \in Addrs |-> out'[a]]
  /\ UNCHANGED file

Return(a) ==
  /\ out[a] > 0
  /\ out'[a] < out[a]
  /\ out' = [out EXCEPT ![a] = out'[a]]
  /\ UNCHANGED file

Next ==
  \/ Grant
  \/ \E a \in Addrs : Free(a) \/ Return(a) \/ \E f \in Files : Bind(a, f)

Spec == Init /\ [][Next]_vars
=============================================================================
