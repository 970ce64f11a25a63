---------------------------- MODULE ClusterTable ----------------------------
(***************************************************************************)
(* The stack of free clusters (cluster.cpp) and the two operations of      *)
(* FilesystemCore that use it, allocate_cluster and free_cluster.          *)
(*                                                                         *)
(* The stack lives on the drive, its height lives in the superblock, and   *)
(* both have copies in memory.  An operation writes the drive in separate  *)
(* steps and the process may die between them: every write to the drive is *)
(* a step of its own here, so that Crash can come between any two.         *)
(***************************************************************************)
EXTENDS Integers, FiniteSets

CONSTANTS FSize,        \* superblock s_fsize: clusters of the drive
          Busy          \* s_isize + s_asize: the clusters before the data

ASSUME LayoutAssumption ==
  /\ FSize \in Nat
  /\ Busy \in 1 .. (FSize - 1)

Address  == 0 .. (FSize - 1)
Clusters == Busy .. (FSize - 1)

VARIABLES
  table,        \* on the drive: the slots of the cluster table
  d_tfree,      \* on the drive: s_tfree of the superblock
  s_tfree,      \* in memory: m_sblock.s_tfree
  m_tfree,      \* in memory: ClusterTable::m_tfree, the height of the stack
  m_fvalue,     \* in memory: ClusterTable::m_fvalue, its cached top
  pc,           \* where the running operation is
  arg,          \* the cluster it works on
  owned         \* history: clusters handed to callers and not taken back

disk == <<table, d_tfree>>
mem  == <<s_tfree, m_tfree, m_fvalue>>
vars == <<table, d_tfree, s_tfree, m_tfree, m_fvalue, pc, arg, owned>>

(***************************************************************************)
(* format() pushed FSize-1, FSize-2, ..., Busy on the empty stack and left *)
(* the slots above them as they were on the drive.                         *)
(***************************************************************************)
Formatted ==
  { t \in [Address -> Address] :
      \A i \in 0 .. (FSize - Busy - 1) : t[i] = FSize - 1 - i }

Init ==
  /\ table \in Formatted
  /\ d_tfree = FSize - Busy
  /\ s_tfree = 0 /\ m_tfree = 0 /\ m_fvalue = 0
  /\ pc = "down" /\ arg = 0
  /\ owned = {}

\* What sync() leaves in m_fvalue for a stack of height n: an empty stack
\* returns early and keeps the old value.
Synced(n) == IF n = 0 THEN m_fvalue ELSE table[n - 1]

\* The constructors of FilesystemCore and ClusterTable.
Mount ==
  /\ pc = "down"
  /\ pc' = "idle"
  /\ s_tfree' = d_tfree
  /\ m_tfree' = d_tfree
  /\ m_fvalue' = Synced(d_tfree)
  /\ UNCHANGED <<disk, arg, owned>>

\* Slip: allocate_cluster without pop().
AllocatePopNoPop ==
  /\ pc = "idle"
  /\ m_tfree # 0
  /\ pc' = "allocate"
  /\ arg' = m_fvalue
  /\ s_tfree' = s_tfree - 1
  /\ UNCHANGED <<disk, m_tfree, m_fvalue, owned>>

\* allocate_cluster up to write_superblock: front(), pop(), s_tfree--.
AllocatePop ==
  /\ pc = "idle"
  /\ m_tfree # 0
  /\ pc' = "allocate"
  /\ arg' = m_fvalue
  /\ m_tfree' = m_tfree - 1
  /\ m_fvalue' = Synced(m_tfree - 1)
  /\ s_tfree' = s_tfree - 1
  /\ UNCHANGED <<disk, owned>>

\* Slip: allocate_cluster without write_superblock.
AllocateSaveForgotten ==
  /\ pc = "allocate"
  /\ pc' = "idle"
  /\ owned' = owned \cup {arg}
  /\ UNCHANGED <<disk, mem, arg>>

\* allocate_cluster: write_superblock, and the address goes to the caller.
AllocateSave ==
  /\ pc = "allocate"
  /\ pc' = "idle"
  /\ d_tfree' = s_tfree
  /\ owned' = owned \cup {arg}
  /\ UNCHANGED <<table, mem, arg>>

\* Slip: push() without its sync of the cached top.
FreePushUnsynced(a) ==
  /\ pc = "idle"
  /\ a \in owned
  /\ m_tfree # FSize
  /\ pc' = "free"
  /\ arg' = a
  /\ table' = [table EXCEPT ![m_tfree] = a]
  /\ m_tfree' = m_tfree + 1
  /\ s_tfree' = s_tfree + 1
  /\ UNCHANGED <<d_tfree, m_fvalue, owned>>

\* free_cluster up to write_superblock: push() writes the slot, s_tfree++.
FreePush(a) ==
  /\ pc = "idle"
  /\ a \in owned
  /\ m_tfree # FSize
  /\ pc' = "free"
  /\ arg' = a
  /\ table' = [table EXCEPT ![m_tfree] = a]
  /\ m_tfree' = m_tfree + 1
  /\ m_fvalue' = a
  /\ s_tfree' = s_tfree + 1
  /\ UNCHANGED <<d_tfree, owned>>

\* Slip: free_cluster without write_superblock.
FreeSaveForgotten ==
  /\ pc = "free"
  /\ pc' = "idle"
  /\ owned' = owned \ {arg}
  /\ UNCHANGED <<disk, mem, arg>>

\* free_cluster: write_superblock.
FreeSave ==
  /\ pc = "free"
  /\ pc' = "idle"
  /\ d_tfree' = s_tfree
  /\ owned' = owned \ {arg}
  /\ UNCHANGED <<table, mem, arg>>

\* The process dies; what was in memory is gone.
Crash ==
  /\ pc # "down"
  /\ pc' = "down"
  /\ s_tfree' = 0 /\ m_tfree' = 0 /\ m_fvalue' = 0 /\ arg' = 0
  /\ UNCHANGED <<disk, owned>>

Next ==
  \/ Mount
  \/ AllocatePop
  \/ AllocateSave
  \/ \E a \in owned : FreePush(a)
  \/ FreeSave
  \/ Crash

Spec == Init /\ [][Next]_vars

-----------------------------------------------------------------------------

TypeOK ==
  /\ table \in [Address -> Address]
  /\ d_tfree \in 0 .. FSize
  /\ s_tfree \in 0 .. FSize
  /\ m_tfree \in 0 .. FSize
  /\ m_fvalue \in Address
  /\ pc \in {"down", "idle", "allocate", "free"}
  /\ arg \in Address
  /\ owned \in SUBSET Clusters

\* The clusters the drive itself calls free: the slots below s_tfree.
FreeOnDisk == { table[i] : i \in 0 .. (d_tfree - 1) }

\* The free list on the drive is exact at every instant a crash can come:
\* no cluster is listed twice, and a data cluster is listed if and only if
\* no caller owns it.  This is why allocate_cluster may write the superblock
\* only, and free_cluster must write the slot before the superblock.
FreeListExact ==
  /\ \A i, j \in 0 .. (d_tfree - 1) : table[i] = table[j] => i = j
  /\ FreeOnDisk = Clusters \ owned

\* m_fvalue, which front() returns without reading the drive, is the top of
\* the stack after every push, pop and constructor.
TopCached == (pc # "down" /\ m_tfree > 0) => m_fvalue = table[m_tfree - 1]

\* The three copies of the height agree between operations.
HeightsAgree == pc = "idle" => (m_tfree = s_tfree /\ s_tfree = d_tfree)

\* push() never reaches its "There are no free space in the table": a caller
\* that owns a cluster finds a slot for it.
PushHasRoom == (pc = "idle" /\ owned # {}) => m_tfree < FSize

\* Crash included, the table implements the allocator its callers rely on;
\* the superblock write is the instant an operation takes effect.
Allocator == INSTANCE SpaceAllocator WITH free <- FreeOnDisk
Implements == Allocator!Spec

=============================================================================
