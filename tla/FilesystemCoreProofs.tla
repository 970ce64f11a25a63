------------------------ MODULE FilesystemCoreProofs ------------------------
(***************************************************************************)
(* Proofs about FilesystemCore, for tables and lists of any size.          *)
(***************************************************************************)
EXTENDS FilesystemCore, FiniteSetTheorems, TLAPS

USE DEF history

\* A record in the cache is of an inode in use, is what the table has unless it
\* is marked, and has a holder.
CacheSound ==
  \A i \in Open :
    /\ icache[i].node.live
    /\ ~icache[i].modified => icache[i].node = itable[i]
    /\ handles[i] > 0

\* The inode free_inode works on is not open, and deleted after the write.
Freeing ==
  pc \in {"write", "push"} => arg \notin Open /\ (itable[arg].live <=> pc = "write")

\* While the process is down nothing is open.
DownIsEmpty == ~Mounted => Open = {}

DriveInv == TypeOK /\ CacheSound /\ Freeing /\ DownIsEmpty /\ ClustersExclusive

-----------------------------------------------------------------------------
\* The rescan.

LEMMA InodesFinite ==
  /\ IsFiniteSet(Inode) /\ Cardinality(Inode) = Total
  /\ \A S \in SUBSET Inode : IsFiniteSet(S) /\ Cardinality(S) \in 0 .. Total
<1>1. IsFiniteSet(Inode) /\ Cardinality(Inode) = Total
  BY FS_Interval, CoreAssumption DEF Inode
<1>2. ASSUME NEW S \in SUBSET Inode PROVE IsFiniteSet(S) /\ Cardinality(S) \in 0 .. Total
  <2>1. IsFiniteSet(S) /\ Cardinality(S) <= Total
    BY <1>1, FS_Subset
  <2>2. Cardinality(S) \in Nat
    BY <2>1, FS_CardinalityType
  <2> QED BY <2>1, <2>2, CoreAssumption
<1> QED BY <1>1, <1>2

\* Ranked from the highest index down, the dead inodes have the ranks from 0 on,
\* each rank once: the rescan's walk over the table.
LEMMA RanksAreDistinct ==
  \A a, b \in Dead : Cardinality(Above(a)) = Cardinality(Above(b)) => a = b
<1>1. Dead \in SUBSET Inode /\ Inode \subseteq Int
  BY CoreAssumption DEF Dead, Inode
<1>2. \A a \in Dead : Above(a) \in SUBSET Inode
  BY <1>1 DEF Above
<1>3. ASSUME NEW a \in Dead, NEW b \in Dead, a < b
      PROVE  Cardinality(Above(a)) # Cardinality(Above(b))
  <2>0. a \in Int /\ b \in Int
    BY <1>1
  <2>1. \A c \in Dead : c > b => c > a
    BY <1>1, <1>3, <2>0
  <2>2. Above(b) \subseteq Above(a)
    BY <2>1 DEF Above
  <2>3. b \in Above(a) /\ b \notin Above(b)
    BY <1>3, <2>0 DEF Above
  <2>4. IsFiniteSet(Above(a))
    BY <1>2, InodesFinite
  <2> QED BY <2>2, <2>3, <2>4, FS_Subset
<1> QED BY <1>1, <1>3

LEMMA RanksAreAll ==
  ASSUME NEW k \in 0 .. (Cardinality(Dead) - 1)
  PROVE  \E i \in Dead : Cardinality(Above(i)) = k
<1> DEFINE n == Cardinality(Dead)
           f == [i \in Dead |-> Cardinality(Above(i))]
<1>1. Dead \in SUBSET Inode
  BY DEF Dead
<1>2. IsFiniteSet(Dead) /\ n \in Nat
  BY <1>1, InodesFinite
<1>3. ASSUME NEW i \in Dead PROVE f[i] \in 0 .. (n - 1)
  <2>1. Above(i) \in SUBSET (Dead \ {i})
    BY <1>1, CoreAssumption DEF Above, Inode
  <2>2. IsFiniteSet(Dead \ {i}) /\ Cardinality(Dead \ {i}) = n - 1
    BY <1>2, FS_RemoveElement
  <2>3. IsFiniteSet(Above(i)) /\ Cardinality(Above(i)) <= n - 1
    BY <2>1, <2>2, FS_Subset
  <2>4. Cardinality(Above(i)) \in Nat
    BY <2>3, FS_CardinalityType
  <2> QED BY <1>2, <2>3, <2>4
<1>4. f \in Injection(Dead, 0 .. (n - 1))
  BY <1>3, RanksAreDistinct DEF Injection, IsInjective
<1>5. IsFiniteSet(0 .. (n - 1)) /\ Cardinality(0 .. (n - 1)) = n
  BY <1>2, FS_Interval
<1>6. f \in Surjection(Dead, 0 .. (n - 1))
  BY <1>4, <1>5, FS_Injection
<1> QED BY <1>6 DEF Surjection

-----------------------------------------------------------------------------
\* The cache after an inode is kept in it or dropped.

LEMMA KeepFacts ==
  ASSUME NEW i, NEW r, icache' = Keep(i, r)
  PROVE  /\ Open' = Open \cup {i}
         /\ icache'[i] = r
         /\ \A j \in Open \ {i} : icache'[j] = icache[j]
         /\ icache' = [j \in Open' |-> icache'[j]]
  BY DEF Keep, Open

LEMMA DropFacts ==
  ASSUME NEW i, icache' = Drop(i)
  PROVE  /\ Open' = Open \ {i}
         /\ \A j \in Open' : icache'[j] = icache[j]
         /\ icache' = [j \in Open' |-> icache'[j]]
  BY DEF Drop, Open

\* What a list that is rescanned holds.
LEMMA RescannedFacts ==
  ASSUME TypeOK
  PROVE  /\ Cardinality(Dead) \in 0 .. Total
         /\ Rescanned.tinode = Cardinality(Dead)
         /\ Rescanned.ttinode = Least(Cardinality(Dead), TableSize)
         /\ Rescanned \in [list : [Slot -> Inode], tinode : 0 .. Total, ttinode : 0 .. TableSize]
         /\ \A k \in Slot : k < Cardinality(Dead) =>
              /\ Rescanned.list[k] \in Dead
              /\ Cardinality(Above(Rescanned.list[k])) = k
<1> DEFINE n == Cardinality(Dead)
           nth(k) == CHOOSE i \in Dead : Cardinality(Above(i)) = k
           list == [k \in Slot |-> IF k < n THEN nth(k) ELSE sblock.list[k]]
<1>1. Dead \in SUBSET Inode /\ n \in 0 .. Total
  BY InodesFinite DEF Dead
<1>2. Rescanned = [list |-> list, tinode |-> n, ttinode |-> Least(n, TableSize)]
  BY DEF Rescanned
<1>3. ASSUME NEW k \in Slot, k < n
      PROVE  nth(k) \in Dead /\ Cardinality(Above(nth(k))) = k
  <2>1. k \in 0 .. (n - 1)
    BY <1>1, <1>3, CoreAssumption DEF Slot
  <2>2. \E i \in Dead : Cardinality(Above(i)) = k
    BY <2>1, RanksAreAll
  <2> QED BY <2>2
<1>4. \A k \in Slot : k < n => list[k] \in Dead /\ Cardinality(Above(list[k])) = k
  BY <1>3
<1>5. list \in [Slot -> Inode]
  BY <1>1, <1>3 DEF TypeOK
<1>6. Least(n, TableSize) \in 0 .. TableSize
  BY <1>1, CoreAssumption DEF Least
<1> QED BY <1>1, <1>2, <1>4, <1>5, <1>6

-----------------------------------------------------------------------------
\* The drive and the cache: DriveInv, whatever the callers do.

LEMMA DriveInit == Init => DriveInv
<1> SUFFICES ASSUME Init PROVE DriveInv
  OBVIOUS
<1> USE CoreAssumption
<1>1. Open = {}
  BY DEF Init, Open
<1>2. Least(Total, TableSize) \in 1 .. TableSize /\ Least(Total, TableSize) <= Total
  BY DEF Least
<1>3. Empty \in Node
  BY DEF Empty, Node
<1>4. sblock \in [list : [Slot -> Inode], tinode : Nat, ttinode : 0 .. TableSize]
  BY <1>2 DEF Init, Slot, Inode
<1>5. TypeOK
  <2>1. itable \in [Inode -> Node] /\ handles \in [Inode -> Nat] /\ arg \in Inode
    BY <1>3 DEF Init, Inode
  <2>2. icache \in [Open -> [node : Node, modified : BOOLEAN]]
    BY <1>1 DEF Init
  <2> QED BY <1>1, <1>4, <2>1, <2>2 DEF Init, TypeOK
<1>6. Taken = {}
  BY <1>1 DEF Init, Taken, Saved, Empty
<1> QED BY <1>1, <1>5, <1>6 DEF Init, DriveInv, CacheSound, Freeing, DownIsEmpty, Mounted,
                               ClustersExclusive, InUse

LEMMA DriveRescan == DriveInv /\ Rescan => DriveInv'
<1> SUFFICES ASSUME DriveInv, Rescan PROVE DriveInv'
  OBVIOUS
<1>1. sblock' \in [list : [Slot -> Inode], tinode : Nat, ttinode : 0 .. TableSize]
  BY RescannedFacts DEF DriveInv, Rescan
<1>2. TypeOK'
  BY <1>1 DEF DriveInv, TypeOK, Rescan, Open
<1> QED BY <1>2 DEF DriveInv, Rescan, CacheSound, Freeing, DownIsEmpty, Mounted,
                  ClustersExclusive, InUse, Taken, Saved, Blocks, Open

\* The index create_inode takes off the list.
TopInode == sblock.list[sblock.ttinode - 1]

LEMMA TopIsInode ==
  ASSUME TypeOK, sblock.ttinode # 0
  PROVE  sblock.ttinode - 1 \in Slot /\ TopInode \in Inode
  BY CoreAssumption DEF TypeOK, Slot, TopInode

LEMMA FreshFacts ==
  /\ Fresh \in Node /\ Fresh.live /\ Fresh.blocks = {}
  /\ Record(Fresh, TRUE) \in [node : Node, modified : BOOLEAN]
  /\ Record(Fresh, TRUE).node = Fresh /\ Record(Fresh, TRUE).modified
  BY CoreAssumption DEF Fresh, Node, Record

LEMMA PopKeepsShape ==
  ASSUME TypeOK, Create
  PROVE  /\ sblock' \in [list : [Slot -> Inode], tinode : Nat, ttinode : 0 .. TableSize]
         /\ sblock'.tinode = sblock.tinode - 1 /\ sblock'.ttinode = sblock.ttinode - 1
         /\ sblock'.list = sblock.list
<1>1. sblock' = [list |-> sblock.list, tinode |-> sblock.tinode - 1,
                 ttinode |-> sblock.ttinode - 1]
  BY DEF TypeOK, Create
<1>2. /\ sblock.tinode # 0 /\ sblock.ttinode # 0
      /\ sblock \in [list : [Slot -> Inode], tinode : Nat, ttinode : 0 .. TableSize]
  BY DEF Create, TypeOK
<1>3. /\ sblock.list \in [Slot -> Inode]
      /\ sblock.tinode - 1 \in Nat /\ sblock.ttinode - 1 \in 0 .. TableSize
  BY <1>2, CoreAssumption
<1> QED BY <1>1, <1>3

LEMMA DriveCreate == DriveInv /\ Create => DriveInv'
<1> SUFFICES ASSUME DriveInv, Create PROVE DriveInv'
  OBVIOUS
<1> PICK i \in Inode : i = TopInode
  BY TopIsInode DEF DriveInv, Create
<1>2. /\ icache' = IF i \in Open THEN icache ELSE Keep(i, Record(Fresh, TRUE))
      /\ handles' = [handles EXCEPT ![i] = @ + 1]
      /\ UNCHANGED <<itable, free, arg, relisted, crashed>>
      /\ pc' = "idle" /\ pc \in {"idle", "create"}
  BY DEF Create, TopInode
<1>3. /\ Open' = Open \cup {i}
      /\ icache'[i] = IF i \in Open THEN icache[i] ELSE Record(Fresh, TRUE)
      /\ \A j \in Open \ {i} : icache'[j] = icache[j]
      /\ icache' = [j \in Open' |-> icache'[j]]
  <2>1. CASE i \in Open
    <3>1. icache' = icache
      BY <1>2, <2>1
    <3>2. icache = [j \in Open |-> icache[j]]
      BY DEF DriveInv, TypeOK
    <3> QED BY <2>1, <3>1, <3>2 DEF Open
  <2>2. CASE i \notin Open
    BY <1>2, <2>2, KeepFacts
  <2> QED BY <2>1, <2>2
<1>6. TypeOK'
  <2>1. icache' \in [Open' -> [node : Node, modified : BOOLEAN]]
    BY <1>3, FreshFacts DEF DriveInv, TypeOK
  <2>2. Open' \in SUBSET Inode /\ handles' \in [Inode -> Nat]
    BY <1>2, <1>3 DEF DriveInv, TypeOK
  <2>3. UNCHANGED <<itable, free, arg, relisted, crashed>> /\ dropped' \in SUBSET Cluster
    <3>1. itable[i].blocks \in SUBSET Cluster /\ dropped \in SUBSET Cluster
      BY DEF DriveInv, TypeOK, Node
    <3> QED BY <1>2, <3>1 DEF Create, TopInode
  <2> QED BY <1>2, <2>1, <2>2, <2>3, PopKeepsShape DEF DriveInv, TypeOK
<1>7. CacheSound'
  <2>1. \A j \in Inode : handles'[j] \in Nat /\ handles[j] \in Nat
                       /\ (handles[j] > 0 \/ j = i => handles'[j] > 0)
    BY <1>2 DEF DriveInv, TypeOK
  <2>2. \A j \in Open' : /\ j \in Inode
                         /\ \/ j \in Open /\ icache'[j] = icache[j]
                            \/ j = i /\ icache'[j] = Record(Fresh, TRUE)
    BY <1>3 DEF DriveInv, TypeOK
  <2>3. ASSUME NEW j \in Open', j \in Open, icache'[j] = icache[j]
        PROVE  /\ icache'[j].node.live /\ handles'[j] > 0
               /\ ~icache'[j].modified => icache'[j].node = itable'[j]
    BY <1>2, <2>1, <2>2, <2>3 DEF DriveInv, CacheSound
  <2>4. ASSUME icache'[i] = Record(Fresh, TRUE)
        PROVE  /\ icache'[i].node.live /\ handles'[i] > 0
               /\ ~icache'[i].modified => icache'[i].node = itable'[i]
    BY <2>1, <2>4, FreshFacts
  <2> QED BY <2>2, <2>3, <2>4 DEF CacheSound
<1>8. Freeing' /\ DownIsEmpty'
  BY <1>2 DEF Freeing, DownIsEmpty, Mounted
<1>9. ClustersExclusive'
  <2>1. InUse' = InUse \cup {i}
    BY <1>2, <1>3 DEF InUse, Taken, Saved
  <2>2. \A a \in InUse' : Blocks(a)' = {} \/ (a \in InUse /\ Blocks(a)' = Blocks(a))
    <3> SUFFICES ASSUME NEW a \in InUse'
                 PROVE  Blocks(a)' = {} \/ (a \in InUse /\ Blocks(a)' = Blocks(a))
      OBVIOUS
    <3>1. CASE a # i
      BY <1>2, <1>3, <2>1, <3>1 DEF Blocks
    <3>2. CASE a = i /\ i \in Open
      BY <1>2, <1>3, <3>2 DEF Blocks, InUse, Taken, Saved
    <3>3. CASE a = i /\ i \notin Open
      BY <1>3, <3>3, FreshFacts DEF Blocks
    <3> QED BY <3>1, <3>2, <3>3
  <2> QED BY <1>2, <2>2 DEF DriveInv, ClustersExclusive, Mounted
<1> QED BY <1>6, <1>7, <1>8, <1>9 DEF DriveInv

\* The record of one inode that is in use changes, and with it perhaps what is
\* free, to the gain of nobody else.
LEMMA DriveKeep ==
  ASSUME DriveInv, pc = "idle", NEW i \in Inode, i \in Taken,
         NEW r \in [node : Node, modified : BOOLEAN], icache' = Keep(i, r),
         r.node.live, ~r.modified => r.node = itable[i],
         free' \cup r.node.blocks \subseteq free \cup Blocks(i),
         free' \cap r.node.blocks = {}, free' \in SUBSET Cluster,
         handles' \in [Inode -> Nat], handles'[i] > 0,
         \A j \in Inode \ {i} : handles'[j] = handles[j],
         UNCHANGED <<itable, sblock, pc, arg, relisted, dropped, crashed>>
  PROVE  DriveInv'
<1>1. /\ Open' = Open \cup {i} /\ icache'[i] = r
      /\ \A j \in Open \ {i} : icache'[j] = icache[j]
      /\ icache' = [j \in Open' |-> icache'[j]]
  BY KeepFacts
<1>2. TypeOK'
  <2>1. Open' \in SUBSET Inode
    BY <1>1 DEF DriveInv, TypeOK
  <2>2. icache' \in [Open' -> [node : Node, modified : BOOLEAN]]
    BY <1>1 DEF DriveInv, TypeOK
  <2> QED BY <2>1, <2>2 DEF DriveInv, TypeOK
<1>3. CacheSound'
  BY <1>1 DEF DriveInv, CacheSound, TypeOK
<1>4. Freeing' /\ DownIsEmpty'
  BY DEF Freeing, DownIsEmpty, Mounted
<1>5. ClustersExclusive'
  <2>1. InUse' = Taken /\ InUse = Taken
    BY <1>1 DEF InUse, Taken, Saved
  <2>2. Blocks(i)' = r.node.blocks
    BY <1>1 DEF Blocks
  <2>3. \A a \in Taken \ {i} : Blocks(a)' = Blocks(a)
    BY <1>1 DEF Blocks
  <2>4. \A a \in Taken : /\ Blocks(a) \cap free = {}
                         /\ \A b \in Taken \ {a} : Blocks(a) \cap Blocks(b) = {}
    BY <2>1 DEF DriveInv, ClustersExclusive, Mounted
  <2>5. \A a \in Taken \ {i} : Blocks(a)' \cap (free' \cup r.node.blocks) = {}
    BY <2>3, <2>4
  <2>6. \A a \in Taken : /\ Blocks(a)' \cap free' = {}
                         /\ \A b \in Taken \ {a} : Blocks(a)' \cap Blocks(b)' = {}
    BY <2>2, <2>3, <2>4, <2>5
  <2> QED BY <2>1, <2>6 DEF ClustersExclusive
<1> QED BY <1>2, <1>3, <1>4, <1>5 DEF DriveInv

LEMMA DriveOpen == DriveInv /\ (\E i \in Inode : OpenInode(i)) => DriveInv'
<1> SUFFICES ASSUME DriveInv, NEW i \in Inode, OpenInode(i) PROVE DriveInv'
  OBVIOUS
<1> DEFINE r == Record(itable[i], FALSE)
<1>1. r \in [node : Node, modified : BOOLEAN] /\ r.node = itable[i] /\ ~r.modified
  BY DEF DriveInv, TypeOK, Record
<1>2. i \in Taken /\ Blocks(i) = itable[i].blocks
  BY DEF OpenInode, Taken, Saved, Blocks
<1>3. Blocks(i) \cap free = {}
  BY <1>2 DEF DriveInv, ClustersExclusive, Mounted, InUse, OpenInode
<1>4. /\ handles' \in [Inode -> Nat] /\ handles'[i] > 0
      /\ \A j \in Inode \ {i} : handles'[j] = handles[j]
  BY DEF DriveInv, TypeOK, OpenInode
<1>5. /\ free' = free /\ free \in SUBSET Cluster /\ icache' = Keep(i, r)
      /\ itable[i].live /\ pc = "idle" /\ UNCHANGED <<itable, sblock, pc, arg, relisted, dropped, crashed>>
  BY DEF DriveInv, TypeOK, OpenInode
<1> QED BY <1>1, <1>2, <1>3, <1>4, <1>5, DriveKeep

\* What SetLinks and Resize have in common.
LEMMA DriveChange ==
  ASSUME DriveInv, pc = "idle", NEW i \in Open, NEW n \in Node,
         icache' = Keep(i, Record(n, TRUE)), n.live,
         free' \cup n.blocks \subseteq free \cup icache[i].node.blocks,
         free' \cap n.blocks = {}, free' \in SUBSET Cluster,
         UNCHANGED <<itable, sblock, pc, arg, history>>
  PROVE  DriveInv'
<1>1. Record(n, TRUE) \in [node : Node, modified : BOOLEAN]
      /\ Record(n, TRUE).node = n /\ Record(n, TRUE).modified
  BY DEF Record
<1>2. i \in Inode /\ i \in Taken /\ Blocks(i) = icache[i].node.blocks
  BY DEF DriveInv, TypeOK, Taken, Saved, Blocks
<1>3. handles' \in [Inode -> Nat] /\ handles'[i] > 0
  BY DEF DriveInv, TypeOK, CacheSound
<1> QED BY <1>1, <1>2, <1>3, DriveKeep

LEMMA DriveSetLinks == DriveInv /\ (\E i \in Inode : SetLinks(i)) => DriveInv'
<1> SUFFICES ASSUME DriveInv, NEW i \in Inode, SetLinks(i) PROVE DriveInv'
  OBVIOUS
<1> DEFINE node == icache[i].node
<1>1. PICK n \in 0 .. MaxLinks : icache' = Keep(i, Record([node EXCEPT !.links = n], TRUE))
  BY DEF SetLinks
<1>2. i \in Open /\ node \in Node /\ node.live
  BY DEF DriveInv, TypeOK, CacheSound, SetLinks
<1>3. [node EXCEPT !.links = n] \in Node /\ [node EXCEPT !.links = n].live
      /\ [node EXCEPT !.links = n].blocks = node.blocks
  BY <1>2 DEF Node
<1>4. node.blocks \cap free = {}
  BY <1>2 DEF DriveInv, ClustersExclusive, Mounted, InUse, Taken, Saved, Blocks, SetLinks
<1>5. /\ free' = free /\ free \in SUBSET Cluster /\ pc = "idle"
      /\ UNCHANGED <<itable, sblock, pc, arg, history>>
  BY DEF DriveInv, TypeOK, SetLinks
<1> QED BY <1>1, <1>2, <1>3, <1>4, <1>5, DriveChange

\* extend takes clusters that are free, shrink gives back the inode's own.
LEMMA ResizedFacts ==
  ASSUME NEW b, NEW n, NEW s \in Resized(b, n)
  PROVE  s \subseteq b \cup free
  BY DEF Resized

LEMMA DriveResize == DriveInv /\ (\E i \in Inode, n \in 0 .. MaxSize : Resize(i, n)) => DriveInv'
<1> SUFFICES ASSUME DriveInv, NEW i \in Inode, NEW n \in 0 .. MaxSize, Resize(i, n)
             PROVE  DriveInv'
  OBVIOUS
<1> DEFINE node == icache[i].node
<1>1. PICK b \in Resized(node.blocks, n) :
        /\ icache' = Keep(i, Record([node EXCEPT !.blocks = b], TRUE))
        /\ free' = (free \cup node.blocks) \ b
  BY DEF Resize
<1>2. i \in Open /\ node \in Node /\ node.live /\ free \in SUBSET Cluster
  BY DEF DriveInv, TypeOK, CacheSound, Resize
<1>3. b \subseteq node.blocks \cup free /\ node.blocks \in SUBSET Cluster
  BY <1>2, ResizedFacts DEF Node
<1>4. [node EXCEPT !.blocks = b] \in Node /\ [node EXCEPT !.blocks = b].live
      /\ [node EXCEPT !.blocks = b].blocks = b
  BY <1>2, <1>3 DEF Node
<1>5. pc = "idle" /\ UNCHANGED <<itable, sblock, pc, arg, history>>
  BY DEF Resize
<1> QED BY <1>1, <1>2, <1>3, <1>4, <1>5, DriveChange

LEMMA DriveClose == DriveInv /\ (\E i \in Inode : Close(i)) => DriveInv'
<1> SUFFICES ASSUME DriveInv, NEW i \in Inode, Close(i) PROVE DriveInv'
  OBVIOUS
<1>1. /\ Open' = Open \ {i}
      /\ \A j \in Open' : icache'[j] = icache[j]
      /\ icache' = [j \in Open' |-> icache'[j]]
  BY DropFacts DEF Close
<1>2. /\ i \in Open /\ pc = "idle" /\ pc' = "idle"
      /\ handles' = [handles EXCEPT ![i] = @ - 1]
      /\ UNCHANGED <<sblock, free, arg, relisted, dropped, crashed>>
  BY DEF Close
<1>3. icache[i].node \in Node /\ icache[i].node.live /\ handles[i] \in Nat \ {0}
  BY <1>2 DEF DriveInv, TypeOK, CacheSound
<1>4. itable' = [itable EXCEPT ![i] = icache[i].node]
  <2>1. CASE icache[i].modified
    BY <2>1 DEF Close
  <2>2. CASE ~icache[i].modified
    <3>1. itable' = itable /\ icache[i].node = itable[i]
      BY <1>2, <2>2 DEF Close, DriveInv, CacheSound
    <3> QED BY <3>1 DEF DriveInv, TypeOK
  <2> QED BY <2>1, <2>2
<1>5. TypeOK'
  <2>1. icache' \in [Open' -> [node : Node, modified : BOOLEAN]] /\ Open' \in SUBSET Inode
    BY <1>1 DEF DriveInv, TypeOK
  <2>2. itable' \in [Inode -> Node] /\ handles' \in [Inode -> Nat]
    BY <1>2, <1>3, <1>4 DEF DriveInv, TypeOK
  <2> QED BY <1>2, <2>1, <2>2 DEF DriveInv, TypeOK
<1>6. CacheSound'
  BY <1>1, <1>2, <1>4 DEF DriveInv, CacheSound, TypeOK
<1>7. Freeing' /\ DownIsEmpty'
  BY <1>2 DEF Freeing, DownIsEmpty, Mounted
<1>8. ClustersExclusive'
  <2>1. InUse' = InUse
    BY <1>1, <1>2, <1>3, <1>4 DEF InUse, Taken, Saved, DriveInv, TypeOK
  <2>2. \A a \in InUse : a \in Inode /\ Blocks(a)' = Blocks(a)
    <3> SUFFICES ASSUME NEW a \in InUse PROVE a \in Inode /\ Blocks(a)' = Blocks(a)
      OBVIOUS
    <3>1. a \in Inode
      BY DEF InUse, Taken, Saved, DriveInv, TypeOK
    <3>2. CASE a = i
      BY <1>1, <1>2, <1>4, <3>2 DEF Blocks, DriveInv, TypeOK
    <3>3. CASE a # i
      BY <1>1, <1>4, <3>1, <3>3 DEF Blocks, DriveInv, TypeOK
    <3> QED BY <3>1, <3>2, <3>3
  <2> QED BY <1>2, <2>1, <2>2 DEF DriveInv, ClustersExclusive, Mounted
<1> QED BY <1>5, <1>6, <1>7, <1>8 DEF DriveInv

\* The caller whose close throws holds no record of the cache.
LEMMA DriveCloseThrows == DriveInv /\ (\E i \in Inode : CloseThrows(i)) => DriveInv'
<1> SUFFICES ASSUME DriveInv, NEW i \in Inode, CloseThrows(i) PROVE DriveInv'
  OBVIOUS
<1>1. /\ i \notin Open /\ handles[i] > 0 /\ handles' = [handles EXCEPT ![i] = @ - 1]
      /\ UNCHANGED <<itable, sblock, free, icache, pc, arg, relisted, dropped, crashed>>
  BY DEF CloseThrows
<1>2. Open' = Open /\ InUse' = InUse /\ \A a : Blocks(a)' = Blocks(a)
  BY <1>1 DEF Open, InUse, Taken, Saved, Blocks
<1>3. handles' \in [Inode -> Nat] /\ \A j \in Open : handles'[j] = handles[j]
  BY <1>1 DEF DriveInv, TypeOK
<1> QED BY <1>1, <1>2, <1>3 DEF DriveInv, TypeOK, CacheSound, Freeing, DownIsEmpty,
                               Mounted, ClustersExclusive

LEMMA DriveFreeClusters == DriveInv /\ (\E i \in Inode : FreeClusters(i)) => DriveInv'
<1> SUFFICES ASSUME DriveInv, NEW i \in Inode, FreeClusters(i) PROVE DriveInv'
  OBVIOUS
<1>1. /\ pc = "idle" /\ pc' = "write" /\ arg' = i /\ i \notin Open /\ itable[i].live
      /\ free' = free \cup itable[i].blocks
      /\ UNCHANGED <<itable, sblock, icache, history>>
  BY DEF FreeClusters
<1>2. Open' = Open
  BY <1>1 DEF Open
<1>3. TypeOK'
  <2>1. itable[i].blocks \in SUBSET Cluster
    BY DEF DriveInv, TypeOK, Node
  <2> QED BY <1>1, <1>2, <2>1 DEF DriveInv, TypeOK
<1>4. CacheSound' /\ Freeing' /\ DownIsEmpty'
  BY <1>1, <1>2 DEF DriveInv, CacheSound, Freeing, DownIsEmpty, Mounted
<1>5. ClustersExclusive'
  <2>1. InUse' = Taken \ {i} /\ InUse = Taken /\ i \in Taken
    BY <1>1, <1>2 DEF InUse, Taken, Saved
  <2>2. \A a : Blocks(a)' = Blocks(a)
    BY <1>1, <1>2 DEF Blocks
  <2>3. Blocks(i) = itable[i].blocks
    BY <1>1 DEF Blocks
  <2> QED BY <1>1, <2>1, <2>2, <2>3 DEF DriveInv, ClustersExclusive, Mounted
<1> QED BY <1>3, <1>4, <1>5 DEF DriveInv

LEMMA DriveFreeWrite == DriveInv /\ FreeWrite => DriveInv'
<1> SUFFICES ASSUME DriveInv, FreeWrite PROVE DriveInv'
  OBVIOUS
<1>1. /\ pc = "write" /\ pc' = "push" /\ arg \notin Open /\ arg \in Inode
      /\ itable' = [itable EXCEPT ![arg].live = FALSE, ![arg].blocks = {}]
      /\ UNCHANGED <<sblock, free, icache, arg, history>>
  BY DEF FreeWrite, DriveInv, Freeing, TypeOK
<1>2. Open' = Open
  BY <1>1 DEF Open
<1>3. /\ itable'[arg] = [live |-> FALSE, links |-> itable[arg].links, blocks |-> {}]
      /\ \A j \in Inode \ {arg} : itable'[j] = itable[j]
      /\ itable' = [j \in Inode |-> itable'[j]]
  BY <1>1 DEF DriveInv, TypeOK, Node
<1>4. TypeOK'
  <2>0. itable[arg].links \in 0 .. MaxLinks
    BY <1>1 DEF DriveInv, TypeOK, Node
  <2>1. itable'[arg] \in Node
    BY <1>3, <2>0 DEF Node
  <2>2. itable' \in [Inode -> Node]
    BY <1>3, <2>1 DEF DriveInv, TypeOK
  <2> QED BY <1>1, <1>2, <2>2 DEF DriveInv, TypeOK
<1>5. CacheSound' /\ Freeing' /\ DownIsEmpty'
  BY <1>1, <1>2, <1>3 DEF DriveInv, CacheSound, Freeing, DownIsEmpty, Mounted, TypeOK
<1>6. ClustersExclusive'
  <2>1. InUse' = InUse
    <3>1. \A j \in Inode : itable'[j].live <=> (itable[j].live /\ j # arg)
      BY <1>1, <1>3
    <3>2. Taken' = Open \cup { j \in Inode : itable'[j].live } /\ InUse' = Taken' /\ InUse = Taken \ {arg}
      BY <1>1, <1>2 DEF InUse, Taken, Saved
    <3> QED BY <1>1, <3>1, <3>2 DEF Taken, Saved
  <2>2. \A a \in InUse : Blocks(a)' = Blocks(a)
    BY <1>1, <1>2, <1>3 DEF Blocks, InUse, Taken, Saved, DriveInv, TypeOK
  <2> QED BY <1>1, <2>1, <2>2 DEF DriveInv, ClustersExclusive, Mounted
<1> QED BY <1>4, <1>5, <1>6 DEF DriveInv

LEMMA PushFacts ==
  ASSUME TypeOK, FreePush
  PROVE  /\ sblock' \in [list : [Slot -> Inode], tinode : Nat, ttinode : 0 .. TableSize]
         /\ sblock'.ttinode = sblock.ttinode
         /\ sblock.ttinode = TableSize => sblock' = sblock
         /\ sblock.ttinode # TableSize =>
              /\ sblock.ttinode \in Slot
              /\ sblock'.list = [sblock.list EXCEPT ![sblock.ttinode] = arg]
              /\ sblock'.tinode = sblock.tinode + 1
<1>1. CASE sblock.ttinode = TableSize
  BY <1>1 DEF FreePush, TypeOK
<1>2. CASE sblock.ttinode # TableSize
  <2>1. sblock' = [list |-> [sblock.list EXCEPT ![sblock.ttinode] = arg],
                   tinode |-> sblock.tinode + 1, ttinode |-> sblock.ttinode]
    BY <1>2 DEF FreePush, TypeOK
  <2>2. sblock.ttinode \in Slot
    BY <1>2, CoreAssumption DEF TypeOK, Slot
  <2>3. /\ sblock.list \in [Slot -> Inode] /\ arg \in Inode
        /\ sblock.tinode + 1 \in Nat /\ sblock.ttinode \in 0 .. TableSize
    BY DEF TypeOK
  <2> QED BY <1>2, <2>1, <2>2, <2>3
<1> QED BY <1>1, <1>2

LEMMA DriveFreePush == DriveInv /\ FreePush => DriveInv'
<1> SUFFICES ASSUME DriveInv, FreePush PROVE DriveInv'
  OBVIOUS
<1>1. /\ pc = "push" /\ pc' = "idle" /\ arg' = 0
      /\ UNCHANGED <<itable, free, icache, history>>
  BY DEF FreePush
<1>2. Open' = Open /\ InUse' = Taken /\ InUse = Taken /\ \A a : Blocks(a)' = Blocks(a)
  BY <1>1 DEF Open, InUse, Taken, Saved, Blocks
<1>3. TypeOK'
  <2>1. sblock' \in [list : [Slot -> Inode], tinode : Nat, ttinode : 0 .. TableSize]
    BY PushFacts DEF DriveInv
  <2>2. 0 \in Inode
    BY CoreAssumption DEF Inode
  <2> QED BY <1>1, <1>2, <2>1, <2>2 DEF DriveInv, TypeOK
<1>4. CacheSound' /\ Freeing' /\ DownIsEmpty'
  BY <1>1, <1>2 DEF DriveInv, CacheSound, Freeing, DownIsEmpty, Mounted
<1>5. ClustersExclusive'
  BY <1>1, <1>2 DEF DriveInv, ClustersExclusive, Mounted
<1> QED BY <1>3, <1>4, <1>5 DEF DriveInv

LEMMA DriveCrash == DriveInv /\ Crash => DriveInv'
<1> SUFFICES ASSUME DriveInv, Crash PROVE DriveInv'
  OBVIOUS
<1>1. /\ pc' = "down" /\ arg' = 0 /\ crashed' = TRUE
      /\ icache' = [i \in {} |-> Record(Empty, FALSE)]
      /\ handles' = [i \in Inode |-> 0]
      /\ dropped' = {} /\ UNCHANGED <<itable, sblock, free, relisted>>
  BY DEF Crash
<1>2. Open' = {}
  BY <1>1 DEF Open
<1>3. icache' \in [Open' -> [node : Node, modified : BOOLEAN]]
  BY <1>1, <1>2
<1>4. TypeOK'
  BY <1>1, <1>2, <1>3, CoreAssumption DEF DriveInv, TypeOK, Inode
<1>5. CacheSound' /\ Freeing' /\ DownIsEmpty' /\ ClustersExclusive'
  BY <1>1, <1>2 DEF CacheSound, Freeing, DownIsEmpty, ClustersExclusive, Mounted
<1> QED BY <1>4, <1>5 DEF DriveInv

\* The constructor goes on only with a drive that is not damaged.
LEMMA DriveMount == DriveInv /\ Mount => DriveInv'
<1> SUFFICES ASSUME DriveInv, Mount PROVE DriveInv'
  OBVIOUS
<1>1. /\ pc = "down" /\ pc' = (IF Damaged THEN "damaged" ELSE "idle")
      /\ UNCHANGED <<itable, sblock, free, icache, arg, history>>
  BY DEF Mount
<1>2. Open = {} /\ Open' = {}
  BY <1>1 DEF DriveInv, DownIsEmpty, Mounted, Open
<1>3. TypeOK'
  BY <1>1, <1>2 DEF DriveInv, TypeOK
<1>4. CacheSound' /\ Freeing' /\ DownIsEmpty'
  BY <1>1, <1>2 DEF CacheSound, Freeing, DownIsEmpty
<1>5. ClustersExclusive'
  <2> SUFFICES ASSUME Mounted' PROVE ~Damaged /\ ClustersExclusive'
    BY DEF ClustersExclusive
  <2>1. ~Damaged
    BY <1>1 DEF Mounted
  <2>2. InUse' = { i \in Inode : itable[i].live } /\ \A a : Blocks(a)' = itable[a].blocks
    BY <1>1, <1>2 DEF InUse, Taken, Saved, Blocks
  <2> QED BY <1>1, <2>1, <2>2 DEF ClustersExclusive, Damaged
<1> QED BY <1>3, <1>4, <1>5 DEF DriveInv

LEMMA DriveStutter == DriveInv /\ UNCHANGED vars => DriveInv'
  BY DEF vars, DriveInv, TypeOK, CacheSound, Freeing, DownIsEmpty, ClustersExclusive,
         Mounted, InUse, Taken, Saved, Blocks, Open

LEMMA DriveNext == DriveInv /\ [Next]_vars => DriveInv'
  BY DriveRescan, DriveCreate, DriveOpen, DriveSetLinks, DriveResize, DriveClose,
     DriveCloseThrows,
     DriveFreeClusters, DriveFreeWrite, DriveFreePush, DriveCrash, DriveMount, DriveStutter
  DEF Next, End

THEOREM DriveInvAlways == Spec => []DriveInv
  BY DriveInit, DriveNext, PTL DEF Spec

\* On a running system no cluster belongs to two inodes or is also free, for
\* every mix of calls, crashes and mounts, and also when a rescan finds inodes
\* that are open and not saved and create_inode gives them out again.
THEOREM ClustersExclusiveAlways == Spec => []ClustersExclusive
<1>1. DriveInv => ClustersExclusive
  BY DEF DriveInv
<1> QED BY <1>1, DriveInvAlways, PTL

\* A process that dies with nothing modified and nothing half freed leaves a
\* drive that mounts: what the cache says of an inode then is what the table says.
THEOREM QuietCrashIsHarmlessAlways == Spec => []QuietCrashIsHarmless
<1>1. DriveInv => QuietCrashIsHarmless
  <2> SUFFICES ASSUME DriveInv, pc = "idle", \A i \in Open : ~icache[i].modified
               PROVE  ~Damaged
    BY DEF QuietCrashIsHarmless
  <2>1. \A i \in Inode : itable[i].live => i \in InUse /\ Blocks(i) = itable[i].blocks
    BY DEF InUse, Taken, Saved, Blocks, DriveInv, CacheSound
  <2> QED BY <2>1 DEF DriveInv, ClustersExclusive, Mounted, Damaged
<1> QED BY <1>1, DriveInvAlways, PTL

-----------------------------------------------------------------------------
\* The short list, its count and the holders of inodes: CallerInv.

Available == Inode \ Taken

\* What s_tinode has to count.
Wanted == Available \cup OnList

\* s_tinode is at most one too high for each inode a rescan found open and, until
\* a crash, counts all that is available or listed; in the middle of free_inode
\* there is one more.  That push_inode finds room in the list, and so counts, is
\* because an inode is in use, and so was taken off the list: except after a
\* crash behind a rescan.
Counted ==
  /\ sblock.tinode + (IF pc = "push" THEN 1 ELSE 0)
       <= Cardinality(Available) + Cardinality(relisted)
  /\ ~crashed =>
       /\ Mounted
       /\ Cardinality(Wanted) <= sblock.tinode + (IF pc = "push" THEN 1 ELSE 0)
       /\ pc = "push" \/ (pc # "create" /\ Taken # {}) => sblock.ttinode < TableSize

\* NothingLeaks at every step, cluster by cluster.
AllThere ==
  /\ ~crashed => \A c \in Cluster :
       c \in free \/ c \in dropped \/ \E i \in InUse : c \in Blocks(i)
  /\ relisted = {} => dropped = {}

CallerInv == DriveInv /\ ListedAreFree /\ Counted /\ OneHandle /\ AllThere

LEMMA AvailableFinite ==
  /\ IsFiniteSet(Available) /\ Cardinality(Available) \in 0 .. Total
  /\ IsFiniteSet(Available') /\ Cardinality(Available') \in 0 .. Total
<1>1. Available \in SUBSET Inode /\ Available' \in SUBSET Inode
  BY DEF Available
<1> QED BY <1>1, InodesFinite

\* The list in use is of inodes, and so are the other sets that are counted.
LEMMA CountsFinite ==
  ASSUME TypeOK
  PROVE  /\ OnList \in SUBSET Inode /\ Wanted \in SUBSET Inode
         /\ IsFiniteSet(Wanted) /\ Cardinality(Wanted) \in Nat
         /\ IsFiniteSet(relisted) /\ Cardinality(relisted) \in Nat
<1>1. \A k \in 0 .. (sblock.ttinode - 1) : k \in Slot
  BY CoreAssumption DEF TypeOK, Slot
<1>2. OnList \in SUBSET Inode
  BY <1>1 DEF OnList, TypeOK
<1>3. Wanted \in SUBSET Inode /\ relisted \in SUBSET Inode
  BY <1>2 DEF Wanted, Available, TypeOK
<1> QED BY <1>2, <1>3, InodesFinite, CoreAssumption

LEMMA CountsFiniteThen ==
  ASSUME TypeOK'
  PROVE  /\ OnList' \in SUBSET Inode /\ Wanted' \in SUBSET Inode
         /\ IsFiniteSet(Wanted') /\ Cardinality(Wanted') \in Nat
         /\ IsFiniteSet(relisted') /\ Cardinality(relisted') \in Nat
<1>1. \A k \in 0 .. (sblock'.ttinode - 1) : k \in Slot
  BY CoreAssumption DEF TypeOK, Slot
<1>2. OnList' \in SUBSET Inode
  BY <1>1 DEF OnList, TypeOK
<1>3. Wanted' \in SUBSET Inode /\ relisted' \in SUBSET Inode
  BY <1>2 DEF Wanted, Available, TypeOK
<1> QED BY <1>2, <1>3, InodesFinite, CoreAssumption

LEMMA CallerInit == Init => CallerInv
<1> SUFFICES ASSUME Init PROVE CallerInv
  OBVIOUS
<1>1. Open = {} /\ Taken = {}
  BY DEF Init, Open, Taken, Saved, Empty
<1>2. Available = Inode
  BY <1>1 DEF Available
<1> DEFINE n == Least(Total, TableSize)
<1>3. n \in 1 .. TableSize /\ n <= Total
  BY CoreAssumption DEF Least
<1>4. /\ sblock.ttinode = n /\ sblock.tinode = Total
      /\ \A k \in Slot : sblock.list[k] = IF k < n THEN n - 1 - k ELSE 0
  BY DEF Init
<1>5. \A k \in 0 .. (n - 1) : sblock.list[k] = n - 1 - k
  BY <1>3, <1>4, CoreAssumption DEF Slot
<1>6. ListedAreFree
  <2> HIDE DEF n
  <2>1. \A k \in 0 .. (sblock.ttinode - 1) : sblock.list[k] = n - 1 - k
    BY <1>4, <1>5
  <2>2. \A k, m \in 0 .. (sblock.ttinode - 1) : sblock.list[k] = sblock.list[m] => k = m
    BY <2>1, <1>3, <1>4
  <2> QED BY <1>1, <2>2 DEF ListedAreFree
<1>7. Counted
  <2>1. TypeOK
    BY DriveInit DEF DriveInv
  <2>2. Cardinality(Wanted) <= Total
    BY <2>1, CountsFinite, InodesFinite
  <2>3. Cardinality(relisted) = 0
    BY FS_EmptySet DEF Init
  <2> QED BY <1>1, <1>2, <1>4, <2>2, <2>3, InodesFinite, CoreAssumption DEF Init, Counted, Mounted
<1>8. OneHandle /\ AllThere
  BY <1>1 DEF Init, OneHandle, AllThere
<1> QED BY <1>6, <1>7, <1>8, DriveInit DEF CallerInv

\* Steps that take nobody's inode and list none.
LEMMA SameTaken ==
  ASSUME ListedAreFree, Counted, Taken' = Taken, pc # "push", pc' = pc,
         UNCHANGED <<sblock, relisted, crashed>>
  PROVE  ListedAreFree' /\ Counted'
<1>1. Available' = Available /\ OnList' = OnList /\ Wanted' = Wanted
  BY DEF Available, OnList, Wanted
<1> QED BY <1>1 DEF ListedAreFree, Counted, Mounted

LEMMA CallerOpen == CallerInv /\ (\E i \in Inode : OpenInode(i)) => CallerInv'
<1> SUFFICES ASSUME CallerInv, NEW i \in Inode, OpenInode(i) PROVE CallerInv'
  OBVIOUS
<1>1. /\ pc = "idle" /\ i \notin Open /\ itable[i].live
      /\ icache' = Keep(i, Record(itable[i], FALSE))
      /\ handles' = [handles EXCEPT ![i] = @ + 1]
      /\ UNCHANGED <<itable, sblock, free, pc, arg, relisted, dropped, crashed>>
  BY DEF OpenInode
<1>2. /\ Open' = Open \cup {i} /\ icache'[i] = Record(itable[i], FALSE)
      /\ \A j \in Open \ {i} : icache'[j] = icache[j]
  BY <1>1, KeepFacts
<1>3. Taken' = Taken /\ InUse' = Taken /\ InUse = Taken
  BY <1>1, <1>2 DEF Taken, Saved, InUse
<1>4. ListedAreFree' /\ Counted'
  BY <1>1, <1>3, SameTaken DEF CallerInv
<1>5. OneHandle'
  BY <1>1, <1>2 DEF CallerInv, OneHandle, DriveInv, TypeOK
<1>6. \A a \in Taken : Blocks(a)' = Blocks(a)
  <2> SUFFICES ASSUME NEW a \in Taken PROVE Blocks(a)' = Blocks(a)
    OBVIOUS
  <2>1. Record(itable[i], FALSE).node = itable[i]
    BY DEF Record
  <2>2. CASE a = i
    BY <1>1, <1>2, <2>1, <2>2 DEF Blocks
  <2>3. CASE a # i
    BY <1>1, <1>2, <2>3 DEF Blocks
  <2> QED BY <2>2, <2>3
<1>7. AllThere'
  BY <1>1, <1>3, <1>6 DEF CallerInv, AllThere
<1> QED BY <1>4, <1>5, <1>7, DriveOpen DEF CallerInv

\* What SetLinks and Resize have in common.
LEMMA CallerChange ==
  ASSUME CallerInv, pc = "idle", NEW i \in Open, NEW r, icache' = Keep(i, r),
         free' \cup r.node.blocks = free \cup icache[i].node.blocks,
         UNCHANGED <<itable, sblock, pc, arg, history>>
  PROVE  ListedAreFree' /\ Counted' /\ OneHandle' /\ AllThere'
<1>1. /\ Open' = Open /\ icache'[i] = r
      /\ \A j \in Open \ {i} : icache'[j] = icache[j]
  BY KeepFacts
<1>2. Taken' = Taken /\ InUse' = Taken /\ InUse = Taken /\ i \in Taken
  BY <1>1 DEF Taken, Saved, InUse
<1>3. ListedAreFree' /\ Counted'
  BY <1>2, SameTaken DEF CallerInv
<1>4. OneHandle'
  BY <1>1 DEF CallerInv, OneHandle
<1>5. /\ Blocks(i) = icache[i].node.blocks /\ Blocks(i)' = r.node.blocks
      /\ \A a \in Taken \ {i} : Blocks(a)' = Blocks(a)
  BY <1>1 DEF Blocks
<1>6. AllThere'
  BY <1>2, <1>5 DEF CallerInv, AllThere
<1> QED BY <1>3, <1>4, <1>6

LEMMA CallerSetLinks == CallerInv /\ (\E i \in Inode : SetLinks(i)) => CallerInv'
<1> SUFFICES ASSUME CallerInv, NEW i \in Inode, SetLinks(i) PROVE CallerInv'
  OBVIOUS
<1> DEFINE node == icache[i].node
<1>1. PICK n \in 0 .. MaxLinks : icache' = Keep(i, Record([node EXCEPT !.links = n], TRUE))
  BY DEF SetLinks
<1>2. i \in Open /\ node \in Node
  BY DEF CallerInv, DriveInv, TypeOK, SetLinks
<1>3. Record([node EXCEPT !.links = n], TRUE).node.blocks = node.blocks
  BY <1>2 DEF Node, Record
<1>4. free' = free /\ pc = "idle" /\ UNCHANGED <<itable, sblock, pc, arg, history>>
  BY DEF SetLinks
<1> QED BY <1>1, <1>2, <1>3, <1>4, CallerChange, DriveSetLinks DEF CallerInv

LEMMA CallerResize ==
  CallerInv /\ (\E i \in Inode, n \in 0 .. MaxSize : Resize(i, n)) => CallerInv'
<1> SUFFICES ASSUME CallerInv, NEW i \in Inode, NEW n \in 0 .. MaxSize, Resize(i, n)
             PROVE  CallerInv'
  OBVIOUS
<1> DEFINE node == icache[i].node
<1>1. PICK b \in Resized(node.blocks, n) :
        /\ icache' = Keep(i, Record([node EXCEPT !.blocks = b], TRUE))
        /\ free' = (free \cup node.blocks) \ b
  BY DEF Resize
<1>2. i \in Open /\ node \in Node
  BY DEF CallerInv, DriveInv, TypeOK, Resize
<1>3. Record([node EXCEPT !.blocks = b], TRUE).node.blocks = b
  BY <1>2 DEF Node, Record
<1>4. free' \cup b = free \cup node.blocks
  BY <1>1, ResizedFacts
<1>5. pc = "idle" /\ UNCHANGED <<itable, sblock, pc, arg, history>>
  BY DEF Resize
<1> QED BY <1>1, <1>2, <1>3, <1>4, <1>5, CallerChange, DriveResize DEF CallerInv

LEMMA CallerClose == CallerInv /\ (\E i \in Inode : Close(i)) => CallerInv'
<1> SUFFICES ASSUME CallerInv, NEW i \in Inode, Close(i) PROVE CallerInv'
  OBVIOUS
<1>1. Open' = Open \ {i} /\ \A j \in Open' : icache'[j] = icache[j]
  BY DropFacts DEF Close
<1>2. /\ i \in Open /\ pc = "idle" /\ pc' = "idle"
      /\ handles' = [handles EXCEPT ![i] = @ - 1]
      /\ UNCHANGED <<sblock, free, arg, relisted, dropped, crashed>>
  BY DEF Close
<1>3. /\ itable'[i] = icache[i].node /\ icache[i].node.live
      /\ \A j \in Inode \ {i} : itable'[j] = itable[j]
  BY <1>2 DEF Close, CallerInv, DriveInv, CacheSound, TypeOK
<1>4. Taken' = Taken /\ InUse' = Taken /\ InUse = Taken /\ Taken \subseteq Inode
  BY <1>1, <1>2, <1>3 DEF Taken, Saved, InUse, CallerInv, DriveInv, TypeOK
<1>5. ListedAreFree' /\ Counted'
  BY <1>2, <1>4, SameTaken DEF CallerInv
<1>6. OneHandle'
  BY <1>1, <1>2 DEF CallerInv, OneHandle, DriveInv, TypeOK
<1>7. \A a \in Taken : Blocks(a)' = Blocks(a)
  BY <1>1, <1>2, <1>3, <1>4 DEF Blocks
<1>8. AllThere'
  BY <1>2, <1>4, <1>7 DEF CallerInv, AllThere
<1> QED BY <1>5, <1>6, <1>8, DriveClose DEF CallerInv

LEMMA CallerCloseThrows == CallerInv /\ (\E i \in Inode : CloseThrows(i)) => CallerInv'
<1> SUFFICES ASSUME CallerInv, NEW i \in Inode, CloseThrows(i) PROVE CallerInv'
  OBVIOUS
<1>1. /\ pc = "idle" /\ i \notin Open /\ handles[i] > 0
      /\ handles' = [handles EXCEPT ![i] = @ - 1]
      /\ UNCHANGED <<itable, sblock, free, icache, pc, arg, relisted, dropped, crashed>>
  BY DEF CloseThrows
<1>2. /\ Open' = Open /\ Taken' = Taken /\ InUse' = InUse
      /\ \A a : Blocks(a)' = Blocks(a)
  BY <1>1 DEF Open, InUse, Taken, Saved, Blocks
<1>3. ListedAreFree' /\ Counted'
  BY <1>1, <1>2, SameTaken DEF CallerInv
<1>4. i \in relisted
  BY <1>1 DEF CallerInv, OneHandle
<1>5. OneHandle'
  BY <1>1, <1>2, <1>4 DEF CallerInv, OneHandle, DriveInv, TypeOK
<1>6. AllThere'
  BY <1>1, <1>2 DEF CallerInv, AllThere
<1> QED BY <1>3, <1>5, <1>6, DriveCloseThrows DEF CallerInv

\* The dead inodes of the table are those nobody has and those that are open and
\* were never closed; these the rescan records.
LEMMA CallerRescan == CallerInv /\ Rescan => CallerInv'
<1> SUFFICES ASSUME CallerInv, Rescan PROVE CallerInv'
  OBVIOUS
<1>1. /\ sblock' = Rescanned /\ pc = "idle"
      /\ pc' = (IF Dead = {} THEN "idle" ELSE "create")
      /\ relisted' = relisted \cup (Open \ Saved)
      /\ UNCHANGED <<itable, free, icache, arg, handles, dropped, crashed>>
  BY DEF Rescan
<1>2. Open' = Open /\ Saved' = Saved /\ Taken' = Taken /\ InUse' = Taken /\ InUse = Taken
  BY <1>1 DEF Open, Taken, Saved, InUse
<1>3. /\ Available' = Available /\ Available \subseteq Dead
      /\ Dead \subseteq Available \cup relisted' /\ Dead \cap Taken \subseteq relisted'
  BY <1>1, <1>2 DEF Dead, Available, Taken, Saved
<1>4. TypeOK /\ TypeOK'
  BY DriveRescan DEF CallerInv, DriveInv
<1> DEFINE n == Cardinality(Dead)
<1>5. /\ n \in Nat /\ sblock'.tinode = n /\ sblock'.ttinode = Least(n, TableSize)
      /\ \A k \in Slot : k < n => /\ sblock'.list[k] \in Dead
                                 /\ Cardinality(Above(sblock'.list[k])) = k
  BY <1>1, <1>4, RescannedFacts
<1>6. IsFiniteSet(Dead)
  BY InodesFinite DEF Dead
<1>7. \A k \in 0 .. (sblock'.ttinode - 1) : k \in Slot /\ k < n
  <2> HIDE DEF n
  <2> QED BY <1>5, CoreAssumption DEF Least, Slot
<1>8. OnList' \subseteq Dead
  BY <1>5, <1>7 DEF OnList
<1>9. ListedAreFree'
  <2>1. \A k \in 0 .. (sblock'.ttinode - 1) : Cardinality(Above(sblock'.list[k])) = k
    BY <1>5, <1>7
  <2>2. OnList' \cap Taken' \subseteq relisted'
    BY <1>2, <1>3, <1>8
  <2> QED BY <2>1, <2>2 DEF ListedAreFree
<1>10. Counted'
  <2>1. n <= Cardinality(Available) + Cardinality(relisted')
    <3>1. /\ IsFiniteSet(Available \cup relisted')
          /\ Cardinality(Available \cup relisted') <= Cardinality(Available) + Cardinality(relisted')
      <4>1. Cardinality(Available \cap relisted') \in Nat
        BY AvailableFinite, FS_Intersection, FS_CardinalityType
      <4>2. /\ IsFiniteSet(Available) /\ Cardinality(Available) \in Nat
            /\ IsFiniteSet(relisted') /\ Cardinality(relisted') \in Nat
        BY <1>4, AvailableFinite, CountsFiniteThen
      <4>3. /\ IsFiniteSet(Available \cup relisted')
            /\ Cardinality(Available \cup relisted') = Cardinality(Available)
                 + Cardinality(relisted') - Cardinality(Available \cap relisted')
        BY <4>2, FS_Union
      <4> HIDE DEF n
      <4> QED BY <4>1, <4>2, <4>3
    <3>2. n <= Cardinality(Available \cup relisted')
      BY <1>3, <3>1, FS_Subset
    <3>3. /\ Cardinality(Available \cup relisted') \in Nat /\ Cardinality(Available) \in Nat
          /\ Cardinality(relisted') \in Nat
      BY <1>4, <3>1, AvailableFinite, CountsFiniteThen, FS_CardinalityType
    <3> HIDE DEF n
    <3> QED BY <1>5, <3>1, <3>2, <3>3
  <2>2. Cardinality(Wanted') <= n
    <3>1. Wanted' \subseteq Dead
      BY <1>3, <1>8 DEF Wanted
    <3> QED BY <1>6, <3>1, FS_Subset
  <2>3. pc' = "idle" => n = 0
    BY <1>1, FS_EmptySet
  <2> HIDE DEF n
  <2>4. pc' = "idle" => sblock'.ttinode < TableSize
    BY <1>5, <2>3, CoreAssumption DEF Least
  <2>5. pc' # "push" /\ Mounted' /\ (pc' = "idle" \/ pc' = "create")
    BY <1>1 DEF Mounted
  <2> QED BY <1>3, <1>5, <2>1, <2>2, <2>4, <2>5 DEF Counted
<1>11. OneHandle' /\ AllThere'
  BY <1>1, <1>2 DEF CallerInv, OneHandle, AllThere, Blocks
<1> QED BY <1>9, <1>10, <1>11, DriveRescan DEF CallerInv

\* An inode taken off the list is free, or one that a rescan found open; this may
\* be open still or closed.
LEMMA CallerCreate == CallerInv /\ Create => CallerInv'
<1> SUFFICES ASSUME CallerInv, Create PROVE CallerInv'
  OBVIOUS
<1>0. TypeOK /\ TypeOK'
  BY DriveCreate DEF CallerInv, DriveInv
<1> PICK i \in Inode : i = TopInode
  BY <1>0, TopIsInode DEF Create
<1>1. /\ sblock.ttinode - 1 \in 0 .. (sblock.ttinode - 1) /\ sblock.ttinode \in 1 .. TableSize
      /\ i \in OnList
  BY <1>0, CoreAssumption DEF Create, TypeOK, OnList, TopInode
<1>2. i \in Taken => i \in relisted
  BY <1>1 DEF CallerInv, ListedAreFree
<1>3. /\ icache' = IF i \in Open THEN icache ELSE Keep(i, Record(Fresh, TRUE))
      /\ handles' = [handles EXCEPT ![i] = @ + 1]
      /\ dropped' = dropped \cup (IF i \in Saved \ Open /\ ~crashed THEN itable[i].blocks ELSE {})
      /\ UNCHANGED <<itable, free, arg, relisted, crashed>>
      /\ pc' = "idle" /\ pc \in {"idle", "create"}
  BY DEF Create, TopInode
<1>4. Open' = Open \cup {i} /\ \A j \in Open : icache'[j] = icache[j]
  <2>1. CASE i \in Open
    BY <1>3, <2>1 DEF Open
  <2>2. CASE i \notin Open
    BY <1>3, <2>2, KeepFacts
  <2> QED BY <2>1, <2>2
<1>5. Taken' = Taken \cup {i} /\ InUse' = Taken' /\ InUse = Taken
  BY <1>3, <1>4 DEF Taken, Saved, InUse
<1>6. /\ sblock'.tinode = sblock.tinode - 1 /\ sblock'.ttinode = sblock.ttinode - 1
      /\ sblock'.list = sblock.list
      /\ sblock.tinode \in Nat /\ sblock'.tinode \in Nat
  BY <1>0, PopKeepsShape DEF TypeOK
<1>7. \A k \in 0 .. (sblock'.ttinode - 1) :
        /\ k \in 0 .. (sblock.ttinode - 1) /\ k # sblock.ttinode - 1
        /\ sblock'.list[k] = sblock.list[k]
  BY <1>1, <1>6
<1>8. OnList' \subseteq OnList \ {i}
  <2>1. \A k \in 0 .. (sblock'.ttinode - 1) : sblock'.list[k] \in OnList /\ sblock'.list[k] # i
    BY <1>1, <1>7 DEF CallerInv, ListedAreFree, TopInode, OnList
  <2> QED BY <2>1 DEF OnList
<1>9. ListedAreFree'
  <2>1. OnList' \cap Taken' \subseteq relisted'
    BY <1>3, <1>5, <1>8 DEF CallerInv, ListedAreFree
  <2>2. \A k, m \in 0 .. (sblock'.ttinode - 1) : sblock'.list[k] = sblock'.list[m] => k = m
    BY <1>7 DEF CallerInv, ListedAreFree
  <2> QED BY <2>1, <2>2 DEF ListedAreFree
<1>10. Counted'
  <2>1. Cardinality(Available') >= Cardinality(Available) - 1
    <3>1. CASE i \in Available
      <4>1. Available' = Available \ {i}
        BY <1>5 DEF Available
      <4> QED BY <3>1, <4>1, AvailableFinite, FS_RemoveElement
    <3>2. CASE i \notin Available
      <4>1. Available' = Available
        BY <1>5, <3>2 DEF Available
      <4> QED BY <4>1, AvailableFinite
    <3> QED BY <3>1, <3>2
  <2>2. Cardinality(Wanted') <= Cardinality(Wanted) - 1
    <3>1. i \in Wanted /\ Wanted' \subseteq Wanted \ {i}
      BY <1>1, <1>5, <1>8 DEF Wanted, Available
    <3>2. IsFiniteSet(Wanted \ {i}) /\ Cardinality(Wanted \ {i}) = Cardinality(Wanted) - 1
      BY <1>0, <3>1, CountsFinite, FS_RemoveElement
    <3> QED BY <3>1, <3>2, FS_Subset
  <2>3. /\ Cardinality(Available) \in Nat /\ Cardinality(Available') \in Nat
        /\ Cardinality(Wanted) \in Nat /\ Cardinality(Wanted') \in Nat
        /\ Cardinality(relisted) \in Nat
    BY <1>0, AvailableFinite, CountsFinite, CountsFiniteThen
  <2>4. sblock'.ttinode < TableSize
    BY <1>1, <1>6, CoreAssumption
  <2> QED BY <1>3, <1>6, <2>1, <2>2, <2>3, <2>4 DEF CallerInv, Counted, Mounted
<1>11. OneHandle'
  <2>1. \A j \in Inode : /\ handles[j] \in Nat
                         /\ handles'[j] = IF j = i THEN handles[j] + 1 ELSE handles[j]
    BY <1>0, <1>3 DEF TypeOK
  <2>2. Open \subseteq Inode /\ (i \in Open => i \in relisted)
    BY <1>0, <1>2 DEF TypeOK, Taken
  <2> QED BY <1>3, <1>4, <2>1, <2>2 DEF CallerInv, OneHandle
<1>12. AllThere'
  <2>1. \A a \in Taken \ {i} : Blocks(a)' = Blocks(a)
    BY <1>3, <1>4 DEF Blocks
  <2>2. CASE i \in Open
    <3>1. Blocks(i)' = Blocks(i)
      BY <1>3, <2>2, <1>4 DEF Blocks
    <3>2. dropped' = dropped
      BY <1>3, <2>2
    <3> QED BY <1>3, <1>5, <2>1, <3>1, <3>2 DEF CallerInv, AllThere
  <2>3. CASE i \in Saved \ Open
    <3>1. Blocks(i) = itable[i].blocks /\ i \in relisted
      BY <1>2, <2>3 DEF Blocks, Taken
    <3>2. ~crashed => Blocks(i) \subseteq dropped' /\ dropped \subseteq dropped'
      BY <1>3, <2>3, <3>1
    <3> QED BY <1>3, <1>5, <2>1, <3>1, <3>2 DEF CallerInv, AllThere
  <2>4. CASE i \notin Taken
    <3>1. dropped' = dropped
      BY <1>3, <2>4 DEF Taken
    <3> QED BY <1>3, <1>5, <2>1, <2>4, <3>1 DEF CallerInv, AllThere
  <2> QED BY <2>2, <2>3, <2>4 DEF Taken
<1> QED BY <1>9, <1>10, <1>11, <1>12, DriveCreate DEF CallerInv

LEMMA CallerFreeClusters == CallerInv /\ (\E i \in Inode : FreeClusters(i)) => CallerInv'
<1> SUFFICES ASSUME CallerInv, NEW i \in Inode, FreeClusters(i) PROVE CallerInv'
  OBVIOUS
<1>1. /\ pc = "idle" /\ pc' = "write" /\ arg' = i /\ i \notin Open /\ itable[i].live
      /\ free' = free \cup itable[i].blocks
      /\ UNCHANGED <<itable, sblock, icache, history>>
  BY DEF FreeClusters
<1>2. /\ Open' = Open /\ Taken' = Taken /\ i \in Taken /\ Available' = Available
      /\ InUse' = Taken \ {i} /\ InUse = Taken
  BY <1>1 DEF Open, Taken, Saved, InUse, Available
<1>3. ListedAreFree' /\ Counted'
  BY <1>1, <1>2 DEF CallerInv, ListedAreFree, OnList, Wanted, Counted, Mounted
<1>4. OneHandle'
  BY <1>1, <1>2 DEF CallerInv, OneHandle
<1>5. (\A a : Blocks(a)' = Blocks(a)) /\ Blocks(i) = itable[i].blocks
  BY <1>1, <1>2 DEF Blocks
<1>6. AllThere'
  BY <1>1, <1>2, <1>5 DEF CallerInv, AllThere
<1> QED BY <1>3, <1>4, <1>6, DriveFreeClusters DEF CallerInv

LEMMA CallerFreeWrite == CallerInv /\ FreeWrite => CallerInv'
<1> SUFFICES ASSUME CallerInv, FreeWrite PROVE CallerInv'
  OBVIOUS
<1>1. /\ pc = "write" /\ pc' = "push" /\ arg \notin Open /\ arg \in Inode /\ itable[arg].live
      /\ itable' = [itable EXCEPT ![arg].live = FALSE, ![arg].blocks = {}]
      /\ UNCHANGED <<sblock, free, icache, arg, history>>
  BY DEF FreeWrite, CallerInv, DriveInv, Freeing, TypeOK
<1>2. ~itable'[arg].live /\ \A j \in Inode \ {arg} : itable'[j] = itable[j]
  BY <1>1 DEF CallerInv, DriveInv, TypeOK, Node
<1>3. /\ Open' = Open /\ arg \in Taken /\ Taken' = Taken \ {arg}
      /\ InUse' = InUse /\ InUse = Taken \ {arg}
  BY <1>1, <1>2 DEF Open, Taken, Saved, InUse
<1>4. OnList' = OnList /\ ListedAreFree'
  BY <1>1, <1>3 DEF CallerInv, ListedAreFree, OnList
<1>5. Counted'
  <2>1. Available' = Available \cup {arg} /\ arg \notin Available
    BY <1>1, <1>3 DEF Available
  <2>2. Cardinality(Available') = Cardinality(Available) + 1
    BY <2>1, AvailableFinite, FS_AddElement
  <2>3. /\ TypeOK /\ arg \in Inode /\ sblock.tinode \in Nat
        /\ Cardinality(Available) \in Nat /\ Cardinality(relisted) \in Nat
        /\ IsFiniteSet(Wanted) /\ Cardinality(Wanted) \in Nat
    BY AvailableFinite, CountsFinite DEF CallerInv, DriveInv, TypeOK
  <2>4. Wanted' = Wanted \cup {arg}
    BY <1>4, <2>1 DEF Wanted
  <2>5. Cardinality(Wanted') \in Nat /\ Cardinality(Wanted') <= Cardinality(Wanted) + 1
    BY <2>3, <2>4, FS_AddElement
  <2> QED BY <1>1, <1>3, <2>2, <2>3, <2>5 DEF CallerInv, Counted, Mounted
<1>6. OneHandle'
  BY <1>1, <1>3 DEF CallerInv, OneHandle
<1>7. \A a \in InUse : Blocks(a)' = Blocks(a)
  BY <1>1, <1>2, <1>3 DEF Blocks, Taken, Saved, CallerInv, DriveInv, TypeOK
<1>8. AllThere'
  BY <1>1, <1>3, <1>7 DEF CallerInv, AllThere
<1> QED BY <1>4, <1>5, <1>6, <1>8, DriveFreeWrite DEF CallerInv

\* push_inode writes to the slot behind the list; where there is none it does not
\* count either.
LEMMA CallerFreePush == CallerInv /\ FreePush => CallerInv'
<1> SUFFICES ASSUME CallerInv, FreePush PROVE CallerInv'
  OBVIOUS
<1>1. /\ pc = "push" /\ pc' = "idle" /\ arg' = 0
      /\ UNCHANGED <<itable, free, icache, history>>
  BY DEF FreePush
<1>2. /\ Open' = Open /\ Taken' = Taken /\ InUse' = Taken /\ InUse = Taken
      /\ Available' = Available /\ \A a : Blocks(a)' = Blocks(a)
  BY <1>1 DEF Open, InUse, Taken, Saved, Available, Blocks
<1>3. TypeOK
  BY DEF CallerInv, DriveInv
<1>4. /\ sblock'.ttinode = sblock.ttinode /\ sblock.ttinode \in 0 .. TableSize
      /\ \A k \in 0 .. (sblock.ttinode - 1) : sblock'.list[k] = sblock.list[k]
  <2>1. CASE sblock.ttinode = TableSize
    BY <1>3, <2>1, PushFacts DEF TypeOK
  <2>2. CASE sblock.ttinode # TableSize
    <3>1. /\ sblock'.ttinode = sblock.ttinode /\ sblock.ttinode \in Slot
          /\ sblock'.list = [sblock.list EXCEPT ![sblock.ttinode] = arg]
          /\ sblock.list \in [Slot -> Inode]
      BY <1>3, <2>2, PushFacts DEF TypeOK
    <3>2. \A k \in 0 .. (sblock.ttinode - 1) : k \in Slot /\ k # sblock.ttinode
      BY <3>1, CoreAssumption DEF Slot
    <3> QED BY <1>3, <3>1, <3>2 DEF TypeOK
  <2> QED BY <2>1, <2>2
<1>5. OnList' = OnList /\ Wanted' = Wanted /\ ListedAreFree'
  BY <1>1, <1>2, <1>4 DEF CallerInv, ListedAreFree, OnList, Wanted
<1>6. Counted'
  <2>1. /\ Cardinality(Available) \in Nat /\ sblock.tinode \in Nat
        /\ Cardinality(relisted) \in Nat /\ Cardinality(Wanted) \in Nat
    BY <1>3, AvailableFinite, CountsFinite DEF TypeOK
  <2>2. CASE sblock.ttinode = TableSize
    BY <1>1, <1>2, <1>3, <1>5, <2>1, <2>2, PushFacts DEF CallerInv, Counted, Mounted
  <2>3. CASE sblock.ttinode # TableSize
    <3>1. sblock'.tinode = sblock.tinode + 1
      BY <1>3, <2>3, PushFacts
    <3>2. sblock'.ttinode < TableSize
      BY <1>4, <2>3, CoreAssumption
    <3> QED BY <1>1, <1>2, <1>5, <2>1, <3>1, <3>2 DEF CallerInv, Counted, Mounted, FreePush
  <2> QED BY <2>2, <2>3
<1>7. OneHandle' /\ AllThere'
  BY <1>1, <1>2 DEF CallerInv, OneHandle, AllThere, FreePush
<1> QED BY <1>5, <1>6, <1>7, DriveFreePush DEF CallerInv

LEMMA CallerCrash == CallerInv /\ Crash => CallerInv'
<1> SUFFICES ASSUME CallerInv, Crash PROVE CallerInv'
  OBVIOUS
<1>1. /\ pc' = "down" /\ crashed' = TRUE
      /\ icache' = [i \in {} |-> Record(Empty, FALSE)]
      /\ handles' = [i \in Inode |-> 0]
      /\ dropped' = {} /\ UNCHANGED <<itable, sblock, free, relisted>>
  BY DEF Crash
<1>2. Open' = {} /\ Taken' \subseteq Taken
  BY <1>1 DEF Open, Taken, Saved
<1>3. ListedAreFree'
  BY <1>1, <1>2 DEF CallerInv, ListedAreFree, OnList
<1>4. Counted'
  <2>1. Available \subseteq Available'
    BY <1>2 DEF Available
  <2>2. Cardinality(Available) <= Cardinality(Available')
    BY <2>1, AvailableFinite, FS_Subset
  <2>3. /\ Cardinality(Available) \in Nat /\ Cardinality(Available') \in Nat
        /\ sblock.tinode \in Nat /\ Cardinality(relisted) \in Nat
    BY AvailableFinite, CountsFinite DEF CallerInv, DriveInv, TypeOK
  <2> QED BY <1>1, <2>2, <2>3 DEF CallerInv, Counted
<1>5. OneHandle' /\ AllThere'
  BY <1>1, <1>2 DEF OneHandle, AllThere
<1> QED BY <1>3, <1>4, <1>5, DriveCrash DEF CallerInv

LEMMA CallerMount == CallerInv /\ Mount => CallerInv'
<1> SUFFICES ASSUME CallerInv, Mount PROVE CallerInv'
  OBVIOUS
<1>1. /\ pc = "down" /\ pc' \in {"damaged", "idle"} /\ crashed
      /\ UNCHANGED <<itable, sblock, free, icache, arg, history>>
  BY DEF Mount, CallerInv, Counted, Mounted
<1>2. Open' = Open /\ Taken' = Taken /\ Available' = Available
  BY <1>1 DEF Open, Taken, Saved, Available
<1>3. ListedAreFree' /\ Counted'
  BY <1>1, <1>2 DEF CallerInv, ListedAreFree, OnList, Counted
<1>4. OneHandle' /\ AllThere'
  BY <1>1, <1>2 DEF CallerInv, OneHandle, AllThere
<1> QED BY <1>3, <1>4, DriveMount DEF CallerInv

LEMMA CallerStutter == CallerInv /\ UNCHANGED vars => CallerInv'
<1> SUFFICES ASSUME CallerInv, UNCHANGED vars PROVE CallerInv'
  OBVIOUS
<1>1. /\ Open' = Open /\ Taken' = Taken /\ InUse' = InUse /\ Available' = Available
      /\ \A a : Blocks(a)' = Blocks(a)
  BY DEF vars, Open, Taken, Saved, InUse, Available, Blocks
<1> QED BY <1>1, DriveStutter DEF vars, CallerInv, ListedAreFree, OnList, Wanted, Counted, Mounted,
                                  OneHandle, AllThere

LEMMA CallerNext == CallerInv /\ [Next]_vars => CallerInv'
  BY CallerRescan, CallerCreate, CallerOpen, CallerSetLinks, CallerResize, CallerClose,
     CallerCloseThrows, CallerFreeClusters, CallerFreeWrite, CallerFreePush, CallerCrash,
     CallerMount, CallerStutter DEF Next, End

THEOREM CallerInvAlways == Spec => []CallerInv
<1>1. CallerInv /\ [Next]_vars => CallerInv'
  BY CallerNext
<1> QED BY <1>1, CallerInit, PTL DEF Spec

\* The short list of the superblock holds, each once, inodes that nobody has, but
\* for those a rescan found open.
THEOREM ListedAreFreeAlways == Spec => []ListedAreFree
<1>1. CallerInv => ListedAreFree
  BY DEF CallerInv
<1> QED BY <1>1, CallerInvAlways, PTL

\* create_inode and open_inode never hand out an inode somebody else works on,
\* but for those a rescan found open.
THEOREM OneHandleAlways == Spec => []OneHandle
<1>1. CallerInv => OneHandle
  BY DEF CallerInv
<1> QED BY <1>1, CallerInvAlways, PTL

\* s_tinode promises at most one inode too many for each that a rescan found open,
\* and until a crash never too few.
THEOREM CountExactAlways == Spec => []CountExact
<1>1. CallerInv => CountExact
  <2> SUFFICES ASSUME CallerInv PROVE CountExact
    OBVIOUS
  <2>1. /\ Cardinality(Available) \in Nat /\ sblock.tinode \in Nat
        /\ IsFiniteSet(Wanted) /\ Cardinality(Wanted) \in Nat
        /\ Cardinality(relisted) \in Nat
    BY AvailableFinite, CountsFinite DEF CallerInv, DriveInv, TypeOK
  <2>2. Cardinality(Available) <= Cardinality(Wanted)
    BY <2>1, FS_Subset DEF Wanted
  <2>3. Available = Inode \ Taken
    BY DEF Available
  <2> QED BY <2>1, <2>2, <2>3 DEF CallerInv, Counted, CountExact
<1> QED BY <1>1, CallerInvAlways, PTL

\* Until a crash every cluster is free, belongs to an inode in use, or belonged to
\* an inode that a rescan found open and that was closed and created again.
THEOREM NothingLeaksAlways == Spec => []NothingLeaks
<1>1. CallerInv => NothingLeaks
  <2> SUFFICES ASSUME CallerInv, pc = "idle", ~crashed
               PROVE  /\ free \cup dropped \cup UNION { Blocks(i) : i \in InUse } = Cluster
                      /\ relisted = {} => dropped = {}
    BY DEF NothingLeaks
  <2>1. \A i \in InUse : Blocks(i) \subseteq Cluster
    BY DEF CallerInv, DriveInv, TypeOK, Blocks, InUse, Taken, Saved, Node
  <2>2. free \subseteq Cluster /\ dropped \subseteq Cluster
    BY DEF CallerInv, DriveInv, TypeOK
  <2> QED BY <2>1, <2>2 DEF CallerInv, AllThere
<1> QED BY <1>1, CallerInvAlways, PTL

\* Type correctness.
THEOREM CoreTypeCorrect == Spec => []TypeOK
<1>1. DriveInv => TypeOK
  BY DEF DriveInv
<1> QED BY <1>1, DriveInvAlways, PTL

=============================================================================
