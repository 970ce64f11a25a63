----------------------------- MODULE Fileblock ------------------------------
(***************************************************************************)
(* FileblockAllocator (fileblock.cpp): how an inode addresses the clusters *)
(* of its file.  The first Direct clusters are listed in the inode; the    *)
(* next ACount are listed in an indirect cluster; the next ACount^2 are    *)
(* reached through a cluster that lists indirect clusters.                 *)
(*                                                                         *)
(* m_allocate and m_free are the allocator SpaceAllocator specifies: which *)
(* free cluster is offered is left to Offer, and m_allocate throws when    *)
(* none is left.  Each m_allocate is a step, because each may throw and    *)
(* leave the inode as the earlier ones made it.                            *)
(*                                                                         *)
(* A cluster that lists addresses holds them; any other one, free or data, *)
(* holds Text, bytes that are no address, and no step may follow it.  What *)
(* bytes those are is left out, and with it the argument clear of resize.  *)
(*                                                                         *)
(* Files never reach levels 3 and 4 here.                                  *)
(***************************************************************************)
EXTENDS Integers, FiniteSets

CONSTANTS File,         \* the inodes
          Cluster,      \* the data clusters of the drive
          Zero,         \* the address 0: no cluster
          Text,         \* bytes that were not written as an address
          Direct,       \* INODE_DIRECT_ADDRESSABLE
          ACount,       \* m_acount: addresses in a cluster
          MaxSize,      \* bound: the largest size of each file, in clusters
          Offer(_)      \* the clusters m_allocate may return of a free set

ASSUME BlockAssumption ==
  /\ IsFiniteSet(Cluster)
  /\ Zero \notin Cluster /\ Text \notin Cluster /\ Zero # Text
  /\ Direct \in Nat /\ ACount \in Nat \ {0}
  /\ MaxSize \in [File -> 0 .. (Direct + ACount + ACount * ACount)]

ASSUME OfferAssumption ==
  \A S \in SUBSET Cluster : Offer(S) \subseteq S /\ (S # {} => Offer(S) # {})

Slot    == 0 .. (ACount - 1)
Address == Cluster \cup {Zero}
Blank   == [s \in Slot |-> Zero]        \* what m_clear writes
Bytes   == [s \in Slot |-> Text]        \* what a file or nobody wrote

VARIABLES
  free,         \* the clusters m_allocate may return
  content,      \* on the drive: each cluster, read as a list of addresses
  fsize,        \* inode.i_fsize
  blocks,       \* inode.i_blocks: direct addresses, then one per level
  pc,           \* where the running resize is
  cur,          \* the inode it works on
  left,         \* the iterations its loop has left
  addr,         \* extend's address: the data cluster to be set
  child,        \* caddress: the indirect cluster one level down
  given,        \* history: the address set_cluster was given for an index
  lost          \* history: clusters a throwing m_allocate left unreachable

inodes    == <<fsize, blocks>>
job       == <<pc, cur, left, addr, child>>
blockVars == <<free, content, fsize, blocks, pc, cur, left, addr, child, given, lost>>

BlockInit ==
  /\ free = Cluster
  /\ content = [c \in Cluster |-> Bytes]
  /\ fsize = [f \in File |-> 0]
  /\ blocks = [f \in File |-> [b \in 0 .. (Direct + 1) |-> Zero]]
  /\ pc = "idle" /\ cur \in File /\ left = 0
  /\ addr = Zero /\ child = Zero
  /\ given = [f \in File |-> [i \in 0 .. (MaxSize[f] - 1) |-> Zero]]
  /\ lost = {}

-----------------------------------------------------------------------------
\* Where an index lives.

First(level) == IF level = 1 THEN Direct ELSE Direct + ACount

\* Slip: <= for < in get_indirection_level.
LevelOffByOne(i) ==
  IF i <= Direct THEN 0 ELSE IF i < Direct + ACount THEN 1 ELSE 2

Level(i) ==
  IF i < Direct THEN 0 ELSE IF i < Direct + ACount THEN 1 ELSE 2

Top(f, level) == blocks[f][Direct + level - 1]

\* At level 2: which child of the top, and which slot of that child.
Outer(i) == (i - First(2)) \div ACount
Inner(i) == (i - First(2)) % ACount

\* get_cluster
Get(f, i) ==
  CASE Level(i) = 0 -> blocks[f][i]
    [] Level(i) = 1 -> content[Top(f, 1)][i - First(1)]
    [] Level(i) = 2 -> content[content[Top(f, 2)][Outer(i)]][Inner(i)]

-----------------------------------------------------------------------------
\* resize, entered from resize_inode or, with size 0, from free_inode.
Resize(f, size) ==
  /\ pc = "idle"
  /\ size # fsize[f]
  /\ cur' = f
  /\ IF size > fsize[f]
     THEN pc' = "extend" /\ left' = size - fsize[f]
     ELSE pc' = "shrink" /\ left' = fsize[f] - size
  /\ UNCHANGED <<free, content, inodes, addr, child, given, lost>>

\* The loops count i up to count; the last iteration ends the resize.
Iterated(loop) ==
  /\ left' = left - 1
  /\ pc' = IF left = 1 THEN "idle" ELSE loop

\* extend: the data cluster of the next index.
AllocateData ==
  /\ pc = "extend"
  /\ \E c \in Offer(free) :
       /\ addr' = c
       /\ free' = free \ {c}
  /\ pc' = "set"
  /\ UNCHANGED <<content, inodes, cur, left, child, given, lost>>

\* The index set_cluster works on and its level.
Index == fsize[cur]
Lv    == Level(Index)

\* Slip: the top of a level is allocated for its second index too.
NeedsTopTwice == pc = "set" /\ Lv > 0 /\ Index <= First(Lv) + 1

NeedsTop   == pc = "set" /\ Lv > 0 /\ Index <= First(Lv)
HasTop     == (pc = "set" /\ Lv > 0 /\ Index > First(Lv)) \/ pc = "top"
NeedsChild == HasTop /\ Lv = 2 /\ content[Top(cur, 2)][Outer(Index)] = Zero

\* set_indirection_cluster: the indirect cluster of a level just entered.
AllocateTop ==
  /\ NeedsTop
  /\ \E c \in Offer(free) :
       /\ free' = free \ {c}
       /\ content' = [content EXCEPT ![c] = Blank]
       /\ blocks' = [blocks EXCEPT ![cur][Direct + Lv - 1] = c]
  /\ pc' = "top"
  /\ UNCHANGED <<fsize, cur, left, addr, child, given, lost>>

\* set_indirection_cluster_address at level 2: a slot that holds 0.
AllocateChild ==
  /\ NeedsChild
  /\ \E c \in Offer(free) :
       /\ free' = free \ {c}
       /\ content' = [content EXCEPT ![c] = Blank]
       /\ child' = c
  /\ pc' = "child"
  /\ UNCHANGED <<inodes, cur, left, addr, given, lost>>

\* set_indirection_cluster_address at level 2: a slot that holds an address.
FindChild ==
  /\ HasTop /\ Lv = 2 /\ ~NeedsChild
  /\ child' = content[Top(cur, 2)][Outer(Index)]
  /\ pc' = "child"
  /\ UNCHANGED <<free, content, inodes, cur, left, addr, given, lost>>

\* The address goes to its slot and i_fsize grows; at level 2 the child is
\* written before its own address is.
Store ==
  /\ \/ pc = "set" /\ Lv = 0
        /\ blocks' = [blocks EXCEPT ![cur][Index] = addr]
        /\ UNCHANGED content
     \/ HasTop /\ Lv = 1
        /\ content' = [content EXCEPT ![Top(cur, 1)][Index - First(1)] = addr]
        /\ UNCHANGED blocks
     \/ pc = "child"
        /\ content' = [content EXCEPT ![child][Inner(Index)] = addr,
                                      ![Top(cur, 2)][Outer(Index)] = child]
        /\ UNCHANGED blocks
  /\ fsize' = [fsize EXCEPT ![cur] = Index + 1]
  /\ given' = [given EXCEPT ![cur][Index] = addr]
  /\ addr' = Zero /\ child' = Zero
  /\ Iterated("extend")
  /\ UNCHANGED <<free, cur, lost>>

\* m_allocate throws: the exception leaves resize with the inode as it is.
\* A data cluster already taken, and a top not yet counted, are lost.
AllocateThrows ==
  /\ free = {}
  /\ pc = "extend" \/ NeedsTop \/ NeedsChild
  /\ pc' = "idle" /\ left' = 0 /\ addr' = Zero
  /\ lost' = lost \cup ({addr} \ {Zero})
                  \cup (IF pc = "top" THEN {Top(cur, 2)} ELSE {})
  /\ UNCHANGED <<free, content, inodes, cur, child, given>>

\* Slip: only the data cluster goes.
GivenBackDataOnly(f, i) == {Get(f, i)}

\* What free_indirection_cluster gives back with index i: an indirect
\* cluster goes with the lowest index it serves.
GivenBack(f, i) ==
  CASE Level(i) = 0 -> {Get(f, i)}
    [] Level(i) = 1 ->
         {Get(f, i)} \cup (IF i = First(1) THEN {Top(f, 1)} ELSE {})
    [] Level(i) = 2 ->
         {Get(f, i)}
           \cup (IF Inner(i) = 0 THEN {content[Top(f, 2)][Outer(i)]} ELSE {})
           \cup (IF i = First(2) THEN {Top(f, 2)} ELSE {})

\* shrink: one iteration, from the end of the file.  Only a direct address
\* is set to 0; the addresses of what is given back stay in i_blocks and in
\* the indirect clusters that remain.
Shrink ==
  LET i == fsize[cur] - 1 IN
  /\ pc = "shrink"
  /\ free' = free \cup GivenBack(cur, i)
  /\ fsize' = [fsize EXCEPT ![cur] = i]
  /\ content' = [c \in Cluster |-> IF c \in GivenBack(cur, i) THEN Bytes ELSE content[c]]
  /\ blocks' = IF Level(i) = 0 THEN [blocks EXCEPT ![cur][i] = Zero] ELSE blocks
  /\ given' = [given EXCEPT ![cur][i] = Zero]
  /\ Iterated("shrink")
  /\ UNCHANGED <<cur, addr, child, lost>>

BlockNext ==
  \/ \E f \in File : \E size \in 0 .. MaxSize[f] : Resize(f, size)
  \/ AllocateData
  \/ AllocateTop
  \/ AllocateChild
  \/ FindChild
  \/ Store
  \/ AllocateThrows
  \/ Shrink

BlockSpec == BlockInit /\ [][BlockNext]_blockVars

-----------------------------------------------------------------------------

BlockTypeOK ==
  /\ free \in SUBSET Cluster
  /\ content \in [Cluster -> [Slot -> Address \cup {Text}]]
  /\ fsize \in [File -> Nat] /\ DOMAIN given = File
  /\ \A f \in File : /\ fsize[f] \in 0 .. MaxSize[f]
                     /\ given[f] \in [0 .. (MaxSize[f] - 1) -> Address]
  /\ blocks \in [File -> [0 .. (Direct + 1) -> Address]]
  /\ pc \in {"idle", "extend", "set", "top", "child", "shrink"}
  /\ cur \in File
  /\ left \in 0 .. MaxSize[cur]
  /\ addr \in Address /\ child \in Address
  /\ lost \in SUBSET Cluster

\* The uses a file of n clusters makes of clusters: its data, the top of
\* each level it has entered, the children of the level-2 top.
Uses(f) ==
  LET n == fsize[f] IN
       { <<f, "data", i>> : i \in 0 .. (n - 1) }
  \cup { <<f, "top", l>> : l \in { k \in 1 .. 2 : n > First(k) } }
  \cup { <<f, "child", k>> : k \in { k \in Slot : n > First(2) + k * ACount } }

Use == UNION { Uses(f) : f \in File }

At(u) ==
  CASE u[2] = "data"  -> Get(u[1], u[3])
    [] u[2] = "top"   -> Top(u[1], u[3])
    [] u[2] = "child" -> content[Top(u[1], 2)][u[3]]

Used == { At(u) : u \in Use }

\* No cluster serves two purposes: not two files, not two indexes of a file,
\* not data and addresses; and none is offered to anybody else as free.
NoSharing ==
  /\ \A u, v \in Use : At(u) = At(v) => u = v
  /\ Used \cap free = {}

\* Between resizes every cluster is free, used, or one of those a throwing
\* m_allocate dropped: no sequence of resizes leaks a cluster otherwise, and
\* shrinking to 0 gives everything back.
Accounted ==
  pc = "idle" => /\ free \cup Used \cup lost = Cluster
                 /\ lost \cap (free \cup Used) = {}

\* get_cluster returns, for every index of every file, the address
\* set_cluster was given for it, whatever was resized since.
GetReturnsSet ==
  \A f \in File : \A i \in 0 .. (fsize[f] - 1) : Get(f, i) = given[f][i]

=============================================================================
