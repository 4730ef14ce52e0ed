----------------------------- MODULE MCReadDir -----------------------------
(***************************************************************************)
(* Small instances of ReadDir for TLC.                                     *)
(***************************************************************************)
EXTENDS ReadDir

CONSTANTS n1, n2, n3

\* A long name and short ones: two short entries fill the buffer, or the long
\* one, or a short one with its attributes, with and without room to spare.
Sizes == [n \in Names |-> IF n = n1 THEN 2 ELSE 1]
=============================================================================
