--------------------------- MODULE MCPageAlignFS ---------------------------
(***************************************************************************)
(* Small instances of PageAlignFS for TLC.                                 *)
(***************************************************************************)
EXTENDS PageAlignFS, TLC

CONSTANTS t1, t2, a1, a2, a3, root, reg, dir, fifo, mnt

(***************************************************************************)
(* The files: the source directory; a regular file, and a directory and a  *)
(* FIFO that are given its number once it is gone; and the root of another *)
(* file system mounted in the tree.                                        *)
(***************************************************************************)
KeyOfSmall == root :> 1 @@ reg :> 2 @@ dir :> 2
KeyOfFifo == KeyOfSmall @@ fifo :> 2
KeyOfTwo == root :> 1 @@ reg :> 2 @@ mnt :> 4
DevOfSmall == 1 :> 1 @@ 2 :> 1
DevOfTwo == 1 :> 1 @@ 2 :> 1 @@ 4 :> 2

\* One of each kind of handler, all but the one that uses its inode after its
\* reply.
ThreadOps == {"Lookup", "ReadDirPlus", "Create", "Unlink", "GetAttr"}
LookupOnly == {"Lookup"}
AllOps == EntryOps \cup DirOps \cup NameOps \cup UseOps

\* Threads and addresses are only ever compared.
Symmetric == Permutations(Threads) \cup Permutations(Addrs)
=============================================================================
