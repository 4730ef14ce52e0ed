------------------------------ MODULE MCXAttr ------------------------------
(***************************************************************************)
(* Small instances of XAttr for TLC.                                       *)
(***************************************************************************)
EXTENDS XAttr

CONSTANTS a, b

\* Two names that together take the 8 bytes of a fuse_getxattr_out.
Lens == [n \in Names |-> IF n = a THEN 3 ELSE 5]

\* Every errno of Linux, the two numbers without a name, and ENOTSUPP (524),
\* which some file systems of the kernel return although it is not in the list.
LinuxErrnos == (1..133) \cup {524}
=============================================================================
