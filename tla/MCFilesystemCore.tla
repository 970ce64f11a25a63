-------------------------- MODULE MCFilesystemCore --------------------------
(***************************************************************************)
(* Three inodes and two clusters are enough for one inode to shrink, a     *)
(* second to take its cluster and a third to be created or freed meantime, *)
(* with a slot less in the short list than there are inodes, and for the   *)
(* list to run out while all of them are open.  Two holders of an inode    *)
(* are as many as a rescan in that position makes.                         *)
(***************************************************************************)
EXTENDS FilesystemCore, TLC

\* Clusters are interchangeable: no action compares or orders them.
Symmetry == Permutations(Cluster)

\* The slots of s_inode behind s_ttinode are not looked at: nothing reads one
\* before the step that lists it again has written it.
View == <<itable, [k \in 0 .. (sblock.ttinode - 1) |-> sblock.list[k]],
          sblock.tinode, sblock.ttinode, free, icache, pc, arg, history>>

=============================================================================
