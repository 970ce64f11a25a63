--------------------------- MODULE FilesystemCore ---------------------------
(***************************************************************************)
(* FilesystemCore (filesystem_core.cpp): the inode table on the drive, the *)
(* superblock's short list of free inodes, and the cache of open inodes.   *)
(*                                                                         *)
(* An inode lives in the cache while it is open; close_inode writes it to  *)
(* the table.  Clusters are allocated and freed on the drive at once, by   *)
(* the allocator SpaceAllocator specifies, so the two disagree while an    *)
(* inode is open: Crash comes between any two writes to the drive.         *)
(*                                                                         *)
(* An inode's clusters are a set here; Fileblock models how i_blocks       *)
(* addresses them, and FileIO models i_size and the bytes.                 *)
(*                                                                         *)
(* A rescan of the table takes an inode that is open and was never closed  *)
(* for a free one, and create_inode then hands it to a second caller.      *)
(* Filesystem::open returns such inodes, so the program's own callers meet *)
(* this: relisted and dropped record it, and the properties say how far it *)
(* reaches.                                                                *)
(***************************************************************************)
EXTENDS Integers, FiniteSets

CONSTANTS Total,        \* INodeTable::total_nodes()
          TableSize,    \* INODE_TABLE_SIZE: slots of s_inode
          Cluster,      \* the data clusters
          MaxSize,      \* bound: the largest file, in clusters
          MaxLinks,     \* bound: the most links of an inode
          MaxHandles    \* bound: the most callers that hold one inode

ASSUME CoreAssumption ==
  /\ Total \in Nat \ {0} /\ TableSize \in Nat \ {0}
  /\ IsFiniteSet(Cluster)
  /\ MaxSize \in Nat /\ MaxLinks \in Nat /\ MaxHandles \in Nat \ {0}

Inode == 0 .. (Total - 1)
Slot  == 0 .. (TableSize - 1)

VARIABLES
  itable,       \* on the drive: the inode table
  sblock,       \* the superblock's inode part; memory and drive agree
  free,         \* the clusters the cluster table lists
  icache,       \* in memory: m_icache, the records of the open inodes
  pc,           \* where create_inode or free_inode is, or "idle", "down"
  arg,          \* the inode free_inode works on
  handles,      \* history: callers that hold each inode
  relisted,     \* history: inodes a rescan listed while they were open
  dropped,      \* history, until a crash: clusters of saved inodes that
                \* create_inode gave out again
  crashed       \* history: the process died at least once

history == <<handles, relisted, dropped, crashed>>
vars == <<itable, sblock, free, icache, pc, arg, history>>

\* What the properties tell apart of an inode: is it in use (the deleted bit
\* of i_attr), i_links and the clusters of i_blocks.
Node == [live : BOOLEAN, links : 0 .. MaxLinks, blocks : SUBSET Cluster]
Empty == [live |-> FALSE, links |-> 0, blocks |-> {}]
Fresh == [live |-> TRUE, links |-> 0, blocks |-> {}]

Open       == DOMAIN icache
Drop(i)    == [j \in Open \ {i} |-> icache[j]]
Keep(i, r) == [j \in Open \cup {i} |-> IF j = i THEN r ELSE icache[j]]
Record(n, m) == [node |-> n, modified |-> m]    \* fs_inode_record

\* Who has an inode: nobody may be handed it.
Saved == { i \in Inode : itable[i].live }
Taken == Open \cup Saved

Least(a, b) == IF a < b THEN a ELSE b

\* to_super_block lists the low indexes, the lowest on top.
Init ==
  /\ itable = [i \in Inode |-> Empty]
  /\ LET n == Least(Total, TableSize) IN
       sblock = [list |-> [k \in Slot |-> IF k < n THEN n - 1 - k ELSE 0],
                 tinode |-> Total, ttinode |-> n]
  /\ free = Cluster
  /\ icache = [i \in {} |-> Record(Empty, FALSE)]
  /\ pc = "idle" /\ arg = 0
  /\ handles = [i \in Inode |-> 0]
  /\ relisted = {} /\ dropped = {} /\ crashed = FALSE

-----------------------------------------------------------------------------
\* The list of free inodes.

\* Slip: the rescan takes an inode without links for a free one.
DeadIfUnlinked == { i \in Inode : itable[i].links = 0 }

Dead == { i \in Inode : ~itable[i].live }

\* rescan_itable: the dead inodes of the table, from the highest index down;
\* the count covers all of them, the list as many as fit.
Above(i) == { j \in Dead : j > i }

Rescanned ==
  LET n == Cardinality(Dead) IN
  [list |-> [k \in Slot |-> IF k < n THEN CHOOSE i \in Dead : Cardinality(Above(i)) = k
                            ELSE sblock.list[k]],
   tinode |-> n, ttinode |-> Least(n, TableSize)]

\* front_inode on an empty short list: the rescan is written to the drive
\* before the index is taken.  create_inode throws if it finds nothing.
Rescan ==
  /\ pc = "idle"
  /\ sblock.tinode # 0 /\ sblock.ttinode = 0
  /\ sblock' = Rescanned
  /\ pc' = IF Dead = {} THEN "idle" ELSE "create"
  /\ relisted' = relisted \cup (Open \ Saved)
  /\ UNCHANGED <<itable, free, icache, arg, handles, dropped, crashed>>

\* create_inode: front_inode, pop_inode; m_icache.emplace keeps a record that
\* is already there.  An inode that was listed while it was open and has been
\* closed since starts again without its clusters.
Create ==
  LET i == sblock.list[sblock.ttinode - 1] IN
  /\ pc \in {"idle", "create"}
  /\ sblock.tinode # 0 /\ sblock.ttinode # 0
  /\ handles[i] < MaxHandles
  /\ sblock' = [sblock EXCEPT !.tinode = @ - 1, !.ttinode = @ - 1]
  /\ icache' = IF i \in Open THEN icache ELSE Keep(i, Record(Fresh, TRUE))
  /\ handles' = [handles EXCEPT ![i] = @ + 1]
  /\ dropped' = dropped \cup (IF i \in Saved \ Open /\ ~crashed THEN itable[i].blocks ELSE {})
  /\ pc' = "idle"
  /\ UNCHANGED <<itable, free, arg, relisted, crashed>>

\* Slip: open_inode without its "inode is already opened".
OpenInodeTwice(i) ==
  /\ pc = "idle" /\ handles[i] < MaxHandles
  /\ itable[i].live
  /\ icache' = IF i \in Open THEN icache ELSE Keep(i, Record(itable[i], FALSE))
  /\ handles' = [handles EXCEPT ![i] = @ + 1]
  /\ UNCHANGED <<itable, sblock, free, pc, arg, relisted, dropped, crashed>>

OpenInode(i) ==
  /\ pc = "idle" /\ handles[i] < MaxHandles
  /\ i \notin Open
  /\ itable[i].live
  /\ icache' = Keep(i, Record(itable[i], FALSE))
  /\ handles' = [handles EXCEPT ![i] = @ + 1]
  /\ UNCHANGED <<itable, sblock, free, pc, arg, relisted, dropped, crashed>>

\* link_inode, unlink_inode and touch_inode; unlink_inode throws at 0.
SetLinks(i) ==
  /\ pc = "idle" /\ i \in Open
  /\ \E n \in { icache[i].node.links + d : d \in {-1, 0, 1} } \cap (0 .. MaxLinks) :
       icache' = Keep(i, Record([icache[i].node EXCEPT !.links = n], TRUE))
  /\ UNCHANGED <<itable, sblock, free, pc, arg, history>>

\* The outcome of FileblockAllocator::resize on the clusters b: extend takes
\* what there is and then throws; shrink gives back what is too much.
Resized(b, n) ==
  LET m == Cardinality(b) IN
  IF n >= m
  THEN { b \cup s : s \in { s \in SUBSET free :
            Cardinality(s) = Least(n - m, Cardinality(free)) } }
  ELSE { s \in SUBSET b : Cardinality(s) = n }

\* Slip: resize_inode does not mark the record.
ResizeUnmarked(i, n) ==
  /\ pc = "idle" /\ i \in Open
  /\ LET node == icache[i].node IN
     \E b \in Resized(node.blocks, n) :
       /\ icache' = Keep(i, [icache[i] EXCEPT !.node.blocks = b])
       /\ free' = (free \cup node.blocks) \ b
  /\ UNCHANGED <<itable, sblock, pc, arg, history>>

\* Slip: a cluster taken stays on the list.
ResizeTakesNone(i, n) ==
  /\ pc = "idle" /\ i \in Open
  /\ LET node == icache[i].node IN
     \E b \in Resized(node.blocks, n) :
       /\ icache' = Keep(i, Record([node EXCEPT !.blocks = b], TRUE))
       /\ free' = free \cup (node.blocks \ b)
  /\ UNCHANGED <<itable, sblock, pc, arg, history>>

\* resize_inode, also as write calls it.
Resize(i, n) ==
  /\ pc = "idle" /\ i \in Open
  /\ LET node == icache[i].node IN
     \E b \in Resized(node.blocks, n) :
       /\ icache' = Keep(i, Record([node EXCEPT !.blocks = b], TRUE))
       /\ free' = (free \cup node.blocks) \ b
  /\ UNCHANGED <<itable, sblock, pc, arg, history>>

\* close_inode: one write to the table, if the record was modified.
Close(i) ==
  /\ pc = "idle" /\ i \in Open
  /\ itable' = IF icache[i].modified
               THEN [itable EXCEPT ![i] = icache[i].node] ELSE itable
  /\ icache' = Drop(i)
  /\ handles' = [handles EXCEPT ![i] = @ - 1]
  /\ UNCHANGED <<sblock, free, pc, arg, relisted, dropped, crashed>>

\* The second of two callers closes, or uses, an inode the first has closed:
\* get_cache_iterator throws, and this caller is done with it.
CloseThrows(i) ==
  /\ pc = "idle"
  /\ i \notin Open /\ handles[i] > 0
  /\ handles' = [handles EXCEPT ![i] = @ - 1]
  /\ UNCHANGED <<itable, sblock, free, icache, pc, arg, relisted, dropped, crashed>>

\* Slip: free_inode forgets resize(0).
FreeClustersKept(i) ==
  /\ pc = "idle"
  /\ i \notin Open
  /\ itable[i].live
  /\ pc' = "write" /\ arg' = i
  /\ UNCHANGED <<itable, sblock, free, icache, history>>

\* free_inode, called for an inode some catalog listed: its clusters go back
\* to the drive ...
FreeClusters(i) ==
  /\ pc = "idle"
  /\ i \notin Open
  /\ itable[i].live
  /\ free' = free \cup itable[i].blocks
  /\ pc' = "write" /\ arg' = i
  /\ UNCHANGED <<itable, sblock, icache, history>>

\* ... then the table says it is deleted ...
FreeWrite ==
  /\ pc = "write"
  /\ itable' = [itable EXCEPT ![arg].live = FALSE, ![arg].blocks = {}]
  /\ pc' = "push"
  /\ UNCHANGED <<sblock, free, icache, arg, history>>

\* Slip: push_inode without s_tinode++.
FreePushUncounted ==
  /\ pc = "push"
  /\ sblock' = IF sblock.ttinode = TableSize THEN sblock
               ELSE [sblock EXCEPT !.list[sblock.ttinode] = arg]
  /\ pc' = "idle" /\ arg' = 0
  /\ UNCHANGED <<itable, free, icache, history>>

\* ... then push_inode: the slot and s_tinode change, s_ttinode does not.
FreePush ==
  /\ pc = "push"
  /\ sblock' = IF sblock.ttinode = TableSize THEN sblock
               ELSE [sblock EXCEPT !.list[sblock.ttinode] = arg, !.tinode = @ + 1]
  /\ pc' = "idle" /\ arg' = 0
  /\ UNCHANGED <<itable, free, icache, history>>

-----------------------------------------------------------------------------
\* Restarts.

\* An inode of the table lists a cluster the drive calls free or another
\* inode of the table lists too.
Damaged ==
  \E i \in Inode : itable[i].live /\
     \/ itable[i].blocks \cap free # {}
     \/ \E j \in Inode \ {i} : itable[j].live /\ itable[i].blocks \cap itable[j].blocks # {}

\* The process dies, or ends without closing what is open.
Crash ==
  /\ pc # "down"
  /\ pc' = "down" /\ arg' = 0
  /\ icache' = [i \in {} |-> Record(Empty, FALSE)]
  /\ handles' = [i \in Inode |-> 0]
  /\ dropped' = {} /\ crashed' = TRUE
  /\ UNCHANGED <<itable, sblock, free, relisted>>

\* The constructor; a damaged drive mounts too, but the model ends there.
Mount ==
  /\ pc = "down"
  /\ pc' = IF Damaged THEN "damaged" ELSE "idle"
  /\ UNCHANGED <<itable, sblock, free, icache, arg, history>>

End == pc = "damaged" /\ UNCHANGED vars

Next ==
  \/ Rescan
  \/ Create
  \/ \E i \in Inode : OpenInode(i)
  \/ \E i \in Inode : SetLinks(i)
  \/ \E i \in Inode, n \in 0 .. MaxSize : Resize(i, n)
  \/ \E i \in Inode : Close(i)
  \/ \E i \in Inode : CloseThrows(i)
  \/ \E i \in Inode : FreeClusters(i)
  \/ FreeWrite
  \/ FreePush
  \/ Crash
  \/ Mount
  \/ End

Spec == Init /\ [][Next]_vars

-----------------------------------------------------------------------------

TypeOK ==
  /\ itable \in [Inode -> Node]
  /\ sblock \in [list : [Slot -> Inode], tinode : Nat, ttinode : 0 .. TableSize]
  /\ free \in SUBSET Cluster
  /\ Open \in SUBSET Inode
  /\ icache \in [Open -> [node : Node, modified : BOOLEAN]]
  /\ pc \in {"idle", "create", "write", "push", "down", "damaged"}
  /\ arg \in Inode
  /\ handles \in [Inode -> Nat]
  /\ relisted \in SUBSET Inode
  /\ dropped \in SUBSET Cluster
  /\ crashed \in BOOLEAN

Mounted == pc \notin {"down", "damaged"}

\* What s_inode lists, "List of free inode indexes" (blocks.h), are distinct
\* inodes, and nobody has one of them unless a rescan found it open: although
\* create_inode takes an index off the list long before the table says the
\* inode is in use, although an inode found open may be closed, freed, opened
\* and listed again, and although a crash may come between.
OnList == { sblock.list[k] : k \in 0 .. (sblock.ttinode - 1) }

ListedAreFree ==
  /\ \A m, n \in 0 .. (sblock.ttinode - 1) : sblock.list[m] = sblock.list[n] => m = n
  /\ OnList \cap Taken \subseteq relisted

\* The cache holds an inode for exactly one caller: create_inode and
\* open_inode never give out an index somebody else works on, except one that
\* a rescan listed while it was open.  What is in the cache has a holder.
OneHandle ==
  /\ \A i \in Open : handles[i] > 0
  /\ \A i \in Inode \ relisted : handles[i] = IF i \in Open THEN 1 ELSE 0

\* s_tinode, the "free inode count" (blocks.h), promises at most one inode too
\* many for each that a rescan found open, so that otherwise create_inode, once
\* past its first check, finds an inode; and until a crash it never promises too
\* few: no inode is free and never given out again.
CountExact ==
  /\ sblock.tinode <= Cardinality(Inode \ Taken) + Cardinality(relisted)
  /\ pc = "idle" /\ ~crashed => Cardinality(Inode \ Taken) <= sblock.tinode

\* The clusters of the inode as callers see it.
Blocks(i) == IF i \in Open THEN icache[i].node.blocks ELSE itable[i].blocks
InUse == IF pc = "write" THEN Taken \ {arg} ELSE Taken

\* On a running system no cluster belongs to two inodes or is also free,
\* open inodes counted as the cache has them.
ClustersExclusive ==
  Mounted => \A i \in InUse :
    /\ Blocks(i) \cap free = {}
    /\ \A j \in InUse \ {i} : Blocks(i) \cap Blocks(j) = {}

\* Until a crash, no cluster is lost by any sequence of calls but those of an
\* inode that a rescan found open, that was closed and then created again.
NothingLeaks ==
  (pc = "idle" /\ ~crashed) =>
    /\ free \cup dropped \cup UNION { Blocks(i) : i \in InUse } = Cluster
    /\ relisted = {} => dropped = {}

\* A process that dies while no inode is open and none is being freed leaves
\* a sound drive: the window in which a crash does damage is exactly the time
\* an inode is open with changes or is being freed.
QuietCrashIsHarmless ==
  (pc = "idle" /\ \A i \in Open : ~icache[i].modified) => ~Damaged

=============================================================================
