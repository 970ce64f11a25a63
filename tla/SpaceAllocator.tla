--------------------------- MODULE SpaceAllocator ---------------------------
(***************************************************************************)
(* What the cluster allocator of FilesystemCore promises to the code above *)
(* it (FileblockAllocator and, through it, every inode): each data cluster *)
(* is free or owned by exactly one caller, allocate_cluster hands out a    *)
(* cluster nobody owns, free_cluster takes it back, and nothing else, a    *)
(* crash included, moves a cluster.                                        *)
(***************************************************************************)

CONSTANT Clusters       \* the data clusters of the drive

VARIABLES free,         \* the clusters a caller may be given
          owned         \* the clusters handed out and not given back

vars == <<free, owned>>

Init == free = Clusters /\ owned = {}

Allocate(c) ==
  /\ c \in free
  /\ free' = free \ {c}
  /\ owned' = owned \cup {c}

Release(c) ==
  /\ c \in owned
  /\ owned' = owned \ {c}
  /\ free' = free \cup {c}

Next == \E c \in Clusters : Allocate(c) \/ Release(c)

Spec == Init /\ [][Next]_vars

=============================================================================
