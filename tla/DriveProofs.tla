----------------------------- MODULE DriveProofs ----------------------------
(***************************************************************************)
(* Proofs about the drive, of any size: ClusterTable, the stack of free    *)
(* clusters, and then Format, the layout that the stack lies in.  The two  *)
(* share no state: Format has the drive cell by cell.                      *)
(*                                                                         *)
(* ClusterTable: the inductive invariant joins to FreeListExact what an    *)
(* operation has done so far (Progress) and a count of the clusters        *)
(* (Conservation).  The count is what bounds the height of the stack: a    *)
(* caller that gives a cluster back owns one, so at least one slot is      *)
(* empty.                                                                  *)
(***************************************************************************)
EXTENDS ClusterTable, Format, FiniteSetTheorems, TLAPS

Count == FSize - Busy

Progress ==
  /\ pc = "idle" => m_tfree = d_tfree /\ s_tfree = d_tfree
  /\ pc = "allocate" =>
       /\ d_tfree > 0
       /\ m_tfree = d_tfree - 1 /\ s_tfree = d_tfree - 1
       /\ arg = table[d_tfree - 1]
  /\ pc = "free" =>
       /\ d_tfree < Count
       /\ m_tfree = d_tfree + 1 /\ s_tfree = d_tfree + 1
       /\ arg = table[d_tfree]
       /\ arg \in owned

Conservation == d_tfree \in 0 .. Count /\ Cardinality(owned) = Count - d_tfree

IInv == TypeOK /\ FreeListExact /\ TopCached /\ Progress /\ Conservation

\* Clusters is finite, and so is every set of owned clusters.
LEMMA ClustersFinite ==
  /\ IsFiniteSet(Clusters)
  /\ Cardinality(Clusters) = Count
  /\ \A S \in SUBSET Clusters : IsFiniteSet(S)
<1>1. Busy \in Int /\ FSize - 1 \in Int /\ Busy <= FSize - 1
  BY LayoutAssumption
<1>2. IsFiniteSet(Clusters) /\ Cardinality(Clusters) = Count
  BY <1>1, FS_Interval, LayoutAssumption DEF Clusters, Count
<1>3. \A S \in SUBSET Clusters : IsFiniteSet(S)
  BY <1>2, FS_Subset
<1> QED BY <1>2, <1>3

\* An owner, and so an operation that frees, leaves a slot empty.
LEMMA RoomForOwned ==
  ASSUME TypeOK, Conservation, NEW a \in owned
  PROVE  d_tfree < Count
<1>1. IsFiniteSet(owned)
  BY ClustersFinite DEF TypeOK
<1>2. Cardinality(owned) \in Nat /\ Cardinality(owned) # 0
  BY <1>1, FS_CardinalityType, FS_EmptySet
<1> QED BY <1>2, LayoutAssumption DEF Conservation, Count

LEMMA InitIInv == Init => IInv
<1> SUFFICES ASSUME Init PROVE IInv
  OBVIOUS
<1> USE LayoutAssumption
<1>1. TypeOK
  BY DEF Init, Formatted, TypeOK, Address, Clusters
<1>2. FreeListExact
  <2>1. \A i \in 0 .. (d_tfree - 1) : table[i] = FSize - 1 - i
    BY DEF Init, Formatted
  <2>2. \A i, j \in 0 .. (d_tfree - 1) : table[i] = table[j] => i = j
    BY <2>1 DEF Init
  <2>3. FreeOnDisk \subseteq Clusters
    BY <2>1 DEF Init, FreeOnDisk, Clusters
  <2>4. ASSUME NEW c \in Clusters PROVE c \in FreeOnDisk
    <3>1. FSize - 1 - c \in 0 .. (d_tfree - 1)
      BY DEF Init, Clusters
    <3>2. table[FSize - 1 - c] = c
      BY <3>1, <2>1 DEF Clusters
    <3> QED BY <3>1, <3>2 DEF FreeOnDisk
  <2> QED BY <2>2, <2>3, <2>4 DEF FreeListExact, Init
<1>3. TopCached /\ Progress
  BY DEF Init, TopCached, Progress
<1>4. Conservation
  BY FS_EmptySet DEF Init, Conservation, Count
<1> QED BY <1>1, <1>2, <1>3, <1>4 DEF IInv

LEMMA MountStep == IInv /\ Mount => IInv'
<1> SUFFICES ASSUME IInv, Mount PROVE IInv'
  OBVIOUS
<1> USE LayoutAssumption
<1>1. TypeOK'
  BY DEF IInv, TypeOK, Mount, Synced, disk, Address
<1>2. FreeListExact'
  BY DEF IInv, FreeListExact, FreeOnDisk, Mount, disk
<1>3. TopCached' /\ Progress'
  BY DEF IInv, TypeOK, TopCached, Progress, Mount, Synced, disk
<1>4. Conservation'
  BY DEF IInv, Conservation, Mount, disk
<1> QED BY <1>1, <1>2, <1>3, <1>4 DEF IInv

LEMMA AllocatePopStep == IInv /\ AllocatePop => IInv'
<1> SUFFICES ASSUME IInv, AllocatePop PROVE IInv'
  OBVIOUS
<1> USE LayoutAssumption
<1>0. m_tfree = d_tfree /\ s_tfree = d_tfree /\ d_tfree > 0 /\ d_tfree <= FSize
  BY DEF IInv, TypeOK, Progress, AllocatePop
<1>1. TypeOK'
  BY <1>0 DEF IInv, TypeOK, AllocatePop, Synced, disk, Address
<1>2. FreeListExact'
  BY DEF IInv, FreeListExact, FreeOnDisk, AllocatePop, disk
<1>3. TopCached' /\ Progress'
  BY <1>0 DEF IInv, TypeOK, TopCached, Progress, AllocatePop, Synced, disk
<1>4. Conservation'
  BY DEF IInv, Conservation, AllocatePop, disk
<1> QED BY <1>1, <1>2, <1>3, <1>4 DEF IInv

LEMMA AllocateSaveStep == IInv /\ AllocateSave => IInv'
<1> SUFFICES ASSUME IInv, AllocateSave PROVE IInv'
  OBVIOUS
<1> USE LayoutAssumption
<1>0. /\ d_tfree \in 1 .. FSize /\ m_tfree = d_tfree - 1 /\ d_tfree' = d_tfree - 1
      /\ arg = table[d_tfree - 1]
      /\ owned' = owned \cup {arg}
      /\ table' = table /\ arg' = arg
  BY DEF IInv, TypeOK, Progress, AllocateSave
<1>1. arg \in Clusters /\ arg \notin owned
  BY <1>0 DEF IInv, FreeListExact, FreeOnDisk
<1>2. TypeOK'
  BY <1>0, <1>1 DEF IInv, TypeOK, AllocateSave, mem
<1>3. FreeListExact'
  <2>1. \A i, j \in 0 .. (d_tfree' - 1) : table'[i] = table'[j] => i = j
    BY <1>0 DEF IInv, FreeListExact
  <2>2. FreeOnDisk' = FreeOnDisk \ {arg}
    BY <1>0 DEF IInv, FreeListExact, FreeOnDisk
  <2> QED BY <2>1, <2>2, <1>0 DEF IInv, FreeListExact
<1>4. TopCached' /\ Progress'
  BY <1>0 DEF IInv, TypeOK, TopCached, Progress, AllocateSave, mem
<1>5. Conservation'
  <2>1. IsFiniteSet(owned)
    BY ClustersFinite DEF IInv, TypeOK
  <2>2. Cardinality(owned') = Cardinality(owned) + 1
    BY <1>0, <1>1, <2>1, FS_AddElement
  <2> QED BY <1>0, <2>2 DEF IInv, Conservation, Count
<1> QED BY <1>2, <1>3, <1>4, <1>5 DEF IInv

LEMMA FreePushStep == IInv /\ (\E a \in owned : FreePush(a)) => IInv'
<1> SUFFICES ASSUME IInv, NEW a \in owned, FreePush(a) PROVE IInv'
  OBVIOUS
<1> USE LayoutAssumption
<1>0. /\ m_tfree = d_tfree /\ s_tfree = d_tfree /\ d_tfree \in 0 .. FSize
      /\ a \in Clusters
      /\ table' = [table EXCEPT ![d_tfree] = a] /\ d_tfree' = d_tfree
      /\ owned' = owned /\ arg' = a
  BY DEF IInv, TypeOK, Progress, FreePush
<1>1. d_tfree < Count
  BY RoomForOwned DEF IInv
<1>2. TypeOK'
  BY <1>0, <1>1 DEF IInv, TypeOK, FreePush, Address, Clusters, Count
<1>3. \A i \in 0 .. (d_tfree - 1) : table'[i] = table[i]
  BY <1>0, <1>1 DEF IInv, TypeOK, Address, Count
<1>4. table'[d_tfree] = a
  BY <1>0, <1>1 DEF IInv, TypeOK, Address, Count
<1>5. FreeListExact'
  BY <1>0, <1>3 DEF IInv, FreeListExact, FreeOnDisk
<1>6. TopCached' /\ Progress'
  BY <1>0, <1>1, <1>4 DEF IInv, TypeOK, TopCached, Progress, FreePush
<1>7. Conservation'
  BY <1>0 DEF IInv, Conservation
<1> QED BY <1>2, <1>5, <1>6, <1>7 DEF IInv

LEMMA FreeSaveStep == IInv /\ FreeSave => IInv'
<1> SUFFICES ASSUME IInv, FreeSave PROVE IInv'
  OBVIOUS
<1> USE LayoutAssumption
<1>0. /\ d_tfree \in 0 .. FSize /\ d_tfree < Count
      /\ m_tfree = d_tfree + 1 /\ d_tfree' = d_tfree + 1
      /\ arg = table[d_tfree] /\ arg \in owned
      /\ owned' = owned \ {arg}
      /\ table' = table /\ arg' = arg
  BY DEF IInv, TypeOK, Progress, FreeSave
<1>1. arg \in Clusters /\ arg \notin FreeOnDisk
  BY <1>0 DEF IInv, TypeOK, FreeListExact
<1>2. TypeOK'
  BY <1>0 DEF IInv, TypeOK, FreeSave, mem, Count
<1>3. FreeListExact'
  <2>1. \A i \in 0 .. (d_tfree - 1) : table[i] # arg
    BY <1>1 DEF FreeOnDisk
  <2>2. \A i, j \in 0 .. (d_tfree' - 1) : table'[i] = table'[j] => i = j
    BY <1>0, <2>1 DEF IInv, FreeListExact
  <2>3. FreeOnDisk' = FreeOnDisk \cup {arg}
    BY <1>0 DEF FreeOnDisk
  <2> QED BY <2>2, <2>3, <1>0, <1>1 DEF IInv, FreeListExact
<1>4. TopCached' /\ Progress'
  BY <1>0 DEF IInv, TypeOK, TopCached, Progress, FreeSave, mem
<1>5. Conservation'
  <2>1. IsFiniteSet(owned)
    BY ClustersFinite DEF IInv, TypeOK
  <2>2. Cardinality(owned') = Cardinality(owned) - 1
    BY <1>0, <2>1, FS_RemoveElement
  <2> QED BY <1>0, <2>2 DEF IInv, Conservation, Count
<1> QED BY <1>2, <1>3, <1>4, <1>5 DEF IInv

LEMMA CrashStep == IInv /\ Crash => IInv'
<1> SUFFICES ASSUME IInv, Crash PROVE IInv'
  OBVIOUS
<1> USE LayoutAssumption
<1>1. TypeOK'
  BY DEF IInv, TypeOK, Crash, disk, Address
<1>2. FreeListExact'
  BY DEF IInv, FreeListExact, FreeOnDisk, Crash, disk
<1>3. TopCached' /\ Progress'
  BY DEF TopCached, Progress, Crash
<1>4. Conservation'
  BY DEF IInv, Conservation, Crash, disk
<1> QED BY <1>1, <1>2, <1>3, <1>4 DEF IInv

LEMMA NextIInv == IInv /\ [Next]_vars => IInv'
<1>1. IInv /\ UNCHANGED vars => IInv'
  BY DEF IInv, TypeOK, FreeListExact, FreeOnDisk, TopCached, Progress,
         Conservation, vars
<1> QED BY <1>1, MountStep, AllocatePopStep, AllocateSaveStep, FreePushStep,
           FreeSaveStep, CrashStep DEF Next

LEMMA Invariance == Spec => []IInv
BY InitIInv, NextIInv, PTL DEF Spec

\* Every variable keeps its type on a drive of any size.
THEOREM TypeCorrect == Spec => []TypeOK
BY Invariance, PTL DEF IInv

\* At every instant, a crash included, the slots below s_tfree list exactly
\* the data clusters nobody owns, each once.
THEOREM FreeListExactAlways == Spec => []FreeListExact
BY Invariance, PTL DEF IInv

\* front() may return m_fvalue without reading the drive.
THEOREM TopCachedAlways == Spec => []TopCached
BY Invariance, PTL DEF IInv

\* Between operations m_tfree, s_tfree and the superblock on the drive agree.
THEOREM HeightsAgreeAlways == Spec => []HeightsAgree
<1>1. IInv => HeightsAgree
  BY DEF IInv, Progress, HeightsAgree
<1> QED BY <1>1, Invariance, PTL

\* push() never throws for a caller that owns what it gives back.
THEOREM PushNeverThrows == Spec => []PushHasRoom
<1>1. IInv => PushHasRoom
  <2> SUFFICES ASSUME IInv, pc = "idle", NEW a \in owned PROVE m_tfree < FSize
    BY DEF PushHasRoom
  <2>1. d_tfree < Count
    BY RoomForOwned DEF IInv
  <2> QED BY <2>1, LayoutAssumption DEF IInv, TypeOK, Progress, Count
<1> QED BY <1>1, Invariance, PTL

\* Stepwise writes and crashes notwithstanding, the cluster table implements
\* the abstract allocator: each superblock write is one Allocate or one
\* Release, and every other step changes nothing a caller can see.
THEOREM Refinement == Spec => Implements
<1>1. Init => Allocator!Init
  <2> SUFFICES ASSUME Init PROVE Allocator!Init
    OBVIOUS
  <2> QED BY InitIInv DEF Init, IInv, FreeListExact, Allocator!Init
<1>2. IInv /\ IInv' /\ [Next]_vars => [Allocator!Next]_(Allocator!vars)
  <2> SUFFICES ASSUME IInv, IInv', [Next]_vars
               PROVE  Allocator!Next \/ UNCHANGED Allocator!vars
    OBVIOUS
  <2> DEFINE Same == UNCHANGED <<table, d_tfree, owned>>
  <2>0. Same => UNCHANGED Allocator!vars
    BY DEF Allocator!vars, FreeOnDisk
  <2>1. CASE Mount \/ AllocatePop \/ Crash
    BY <2>0, <2>1 DEF Mount, AllocatePop, Crash, disk
  <2>2. CASE AllocateSave
    <3>1. arg \in Clusters /\ arg \in FreeOnDisk
      BY <2>2 DEF IInv, TypeOK, Progress, FreeListExact, FreeOnDisk, AllocateSave
    <3>2. FreeOnDisk' = FreeOnDisk \ {arg} /\ owned' = owned \cup {arg}
      BY <2>2 DEF IInv, FreeListExact, AllocateSave
    <3> QED BY <3>1, <3>2 DEF Allocator!Next, Allocator!Allocate
  <2>3. CASE \E a \in owned : FreePush(a)
    <3>1. PICK a \in owned : FreePush(a)
      BY <2>3
    <3>2. FreeOnDisk' = FreeOnDisk /\ owned' = owned
      BY <3>1 DEF IInv, FreeListExact, FreePush
    <3> QED BY <3>2 DEF Allocator!vars
  <2>4. CASE FreeSave
    <3>1. arg \in Clusters /\ arg \in owned
      BY <2>4 DEF IInv, TypeOK, Progress, FreeSave
    <3>2. owned' = owned \ {arg}
      BY <2>4 DEF FreeSave
    <3>3. FreeOnDisk' = FreeOnDisk \cup {arg}
      BY <3>1, <3>2 DEF IInv, FreeListExact
    <3> QED BY <3>1, <3>2, <3>3 DEF Allocator!Next, Allocator!Release
  <2>5. CASE UNCHANGED vars
    BY <2>0, <2>5 DEF vars
  <2> QED BY <2>1, <2>2, <2>3, <2>4, <2>5 DEF Next
<1> QED BY <1>1, <1>2, Invariance, PTL DEF Spec, Implements, Allocator!Spec

-----------------------------------------------------------------------------
(***************************************************************************)
(* Format, for sectors, clusters, tables and inodes of any size.           *)
(*                                                                         *)
(* First the geometry: no two things of a drive share a cell, nor with the *)
(* superblock, and all end before the drive does (PlacesApart,             *)
(* PlaceOnDrive).  From then on a write to one leaves the others alone     *)
(* (WriteToPlace), and the invariant says what each step of format has     *)
(* made so far.                                                            *)
(***************************************************************************)

\* format does not look whether its tables fit the drive, nor an inode a
\* cluster: with options of which one does not, it writes past the end.
TablesFit ==
  \A o \in Option : o.bsize % o.sec = 0 /\ o.sec <= o.bsize =>
    InodeSize <= o.bsize /\ BusyClusters(o) <= Fsize(o)

DataClusters == BusyClusters(opts) .. (Fsize(opts) - 1)
DataCount    == Fsize(opts) - BusyClusters(opts)

SlotThings(n) == { <<"slot", k>> : k \in 0 .. (n - 1) }
InodeThings   == { <<"inode", i>> : i \in 0 .. (Inodes(opts) - 1) }
DataThings    == { <<"cluster", c>> : c \in DataClusters }
Things        == InodeThings \cup SlotThings(DataCount) \cup DataThings

-----------------------------------------------------------------------------
\* The inductive invariant, part by part.

Drive ==
  /\ opts \in Option
  /\ DOMAIN cell = 0 .. (opts.sec * opts.size - 1)
  /\ phase \in {"blank", "zeroing", "pushing", "ready", "refused"}
  /\ ~missed

Untouched == phase \in {"blank", "refused"} => tfree = 0 /\ done = 0 /\ pos = 0 /\ DOMAIN last = {}

\* From the superblock on, and behind it one cluster of zeros after another.
Zeroing ==
  phase = "zeroing" =>
    /\ done \in 0 .. (opts.isize - 1) /\ pos = 1 + done * Bcoef(opts)
    /\ \A a \in opts.sec .. (opts.sec + done * opts.bsize - 1) : cell[a] = <<"zero">>
    /\ tfree = 0 /\ DOMAIN last = {}

Headed ==
  phase \in {"zeroing", "pushing", "ready"} =>
    ValidSize /\ \A a \in 0 .. (opts.sec - 1) : cell[a] = <<"super">>

\* What was written is where it was written, and an inode nobody wrote is zero.
Holds ==
  /\ DOMAIN last \subseteq Things
  /\ \A x \in DOMAIN last : \A a \in Place(x) : cell[a] = last[x]
  /\ \A x \in InodeThings \ DOMAIN last : \A a \in Place(x) : cell[a] = <<"zero">>

\* The stack lists data, no cluster twice.
Stacked ==
  /\ tfree \in 0 .. DataCount /\ SlotThings(tfree) \subseteq DOMAIN last
  /\ \A k \in 0 .. (DataCount - 1) : <<"slot", k>> \in DOMAIN last =>
       \E c \in DataClusters : last[<<"slot", k>>] = <<"address", c>>
  /\ \A j, k \in 0 .. (tfree - 1) : last[<<"slot", j>>] = last[<<"slot", k>>] => j = k

Pushing ==
  phase = "pushing" =>
    /\ DOMAIN last = SlotThings(tfree)
    /\ \A k \in 0 .. (tfree - 1) : last[<<"slot", k>>] = <<"address", Fsize(opts) - 1 - k>>

\* Every slot was written, and a cluster of data is listed or was.
Ready ==
  phase = "ready" =>
    /\ SlotThings(DataCount) \subseteq DOMAIN last
    /\ \A c \in DataClusters :
         \/ <<"cluster", c>> \in DOMAIN last
         \/ \E k \in 0 .. (tfree - 1) : last[<<"slot", k>>] = <<"address", c>>

FormatInv ==
  /\ Drive /\ Untouched /\ Zeroing /\ Headed
  /\ phase \in {"pushing", "ready"} => Holds /\ Stacked
  /\ Pushing /\ Ready

-----------------------------------------------------------------------------
\* Arithmetic.

LEMMA Division ==
  ASSUME NEW a \in Nat, NEW b \in Nat \ {0}
  PROVE  /\ (a \div b) \in Nat /\ (a % b) \in 0 .. (b - 1)
         /\ a = (a \div b) * b + (a % b)
<1>1. a = b * (a \div b) + (a % b)
  OBVIOUS
<1>2. (a % b) \in 0 .. (b - 1)
  OBVIOUS
<1>3. PICK q \in Int : q = a \div b
  OBVIOUS
<1>4. PICK r \in 0 .. (b - 1) : r = a % b
  BY <1>2
<1>5. a = b * q + r
  BY <1>1, <1>3, <1>4
<1>6. q >= 0
  <2> SUFFICES ASSUME q < 0 PROVE FALSE
    OBVIOUS
  <2>1. q + 1 <= 0 /\ b * (q + 1) <= 0
    OBVIOUS
  <2>2. b * (q + 1) = b * q + b
    OBVIOUS
  <2> QED BY <1>4, <1>5, <2>1, <2>2
<1>7. b * q = q * b
  OBVIOUS
<1> QED BY <1>3, <1>4, <1>5, <1>6, <1>7

LEMMA TimesMonotone ==
  ASSUME NEW a \in Nat, NEW b \in Nat, NEW c \in Nat, a <= b
  PROVE  a * c \in Nat /\ b * c \in Nat /\ a * c <= b * c
<1>1. PICK d \in Nat : b = a + d
  <2>1. b - a \in Nat /\ b = a + (b - a)
    OBVIOUS
  <2> QED BY <2>1
<1>2. (a + d) * c = a * c + d * c /\ d * c \in Nat /\ a * c \in Nat
  OBVIOUS
<1> QED BY <1>1, <1>2

\* The distance of rows: below n rows of c cells, the next begins behind.
LEMMA NextRow ==
  ASSUME NEW a \in Nat, NEW b \in Nat, NEW c \in Nat, a < b
  PROVE  a * c \in Nat /\ b * c \in Nat /\ a * c + c <= b * c
<1>1. (a + 1) * c = a * c + c
  OBVIOUS
<1>2. a + 1 <= b /\ a + 1 \in Nat
  OBVIOUS
<1> QED BY <1>1, <1>2, TimesMonotone

LEMMA QuotientBelow ==
  ASSUME NEW a \in Nat, NEW b \in Nat \ {0}, NEW n \in Nat, a < n * b
  PROVE  (a \div b) < n
<1>1. PICK q \in Nat, r \in 0 .. (b - 1) : q = a \div b /\ r = a % b /\ a = q * b + r
  BY Division
<1>2. SUFFICES ASSUME n <= q PROVE FALSE
  BY <1>1
<1>3. n * b <= q * b /\ n * b \in Nat /\ q * b \in Nat
  BY <1>2, TimesMonotone
<1> QED BY <1>1, <1>3

\* Rounding up leaves room for all.
LEMMA CeilSuffices ==
  ASSUME NEW a \in Nat, NEW b \in Nat \ {0}
  PROVE  Ceil(a, b) \in Nat /\ a <= Ceil(a, b) * b
<1>1. a + b - 1 \in Nat
  OBVIOUS
<1>2. PICK q \in Nat, r \in 0 .. (b - 1) : q = (a + b - 1) \div b /\ a + b - 1 = q * b + r
  BY <1>1, Division
<1>3. q * b \in Nat
  OBVIOUS
<1>4. a <= q * b
  BY <1>2, <1>3
<1> QED BY <1>2, <1>4 DEF Ceil

-----------------------------------------------------------------------------
\* Geometry.

Start(c) == opts.sec + c * opts.bsize

LEMMA OptionFacts ==
  ASSUME opts \in Option
  PROVE  /\ opts.sec \in Nat \ {0} /\ opts.size \in Nat \ {0}
         /\ opts.bsize \in Nat \ {0} /\ opts.isize \in Nat \ {0}
         /\ InodeSize \in Nat \ {0} /\ opts.sec * opts.size < Word /\ Word \in Nat \ {0}
  BY FormatAssumption

\* The tables and the data, cluster by cluster.
LEMMA Geometry ==
  ASSUME TablesFit, opts \in Option, ValidSize
  PROVE  /\ Bcoef(opts) \in Nat \ {0} /\ opts.bsize = Bcoef(opts) * opts.sec
         /\ Fsize(opts) \in Nat /\ Fsize(opts) * Bcoef(opts) <= opts.size - 1
         /\ Asize(opts) \in Nat /\ Fsize(opts) <= Asize(opts) * opts.bsize
         /\ BusyClusters(opts) \in Nat /\ BusyClusters(opts) = opts.isize + Asize(opts)
         /\ BusyClusters(opts) <= Fsize(opts)
         /\ DataCount \in Nat
<1>1. PICK s \in Nat \ {0}, b \in Nat \ {0}, n \in Nat \ {0}, i \in Nat \ {0} :
        s = opts.sec /\ b = opts.bsize /\ n = opts.size /\ i = opts.isize
  BY OptionFacts
<1>2. b % s = 0 /\ s <= b
  BY <1>1 DEF ValidSize
<1>3. PICK B \in Nat : B = b \div s /\ b = B * s
  <2>1. (b \div s) \in Nat /\ b = (b \div s) * s + (b % s)
    BY Division
  <2>2. PICK q \in Nat : q = b \div s
    BY <2>1
  <2>3. b = q * s /\ q * s \in Nat
    BY <1>2, <2>1, <2>2
  <2> QED BY <2>2, <2>3
<1>4. B # 0
  BY <1>3
<1>5. B = Bcoef(opts)
  BY <1>1, <1>3 DEF Bcoef
<1>6. PICK f \in Nat, r \in 0 .. (B - 1) : f = (n - 1) \div B /\ n - 1 = f * B + r
  BY <1>4, Division
<1>7. f = Fsize(opts)
  BY <1>1, <1>5, <1>6 DEF Fsize
<1>8. f * B <= n - 1
  <2>1. f * B \in Nat
    OBVIOUS
  <2> QED BY <1>6, <2>1
<1>9. Asize(opts) = Ceil(f, b) /\ Ceil(f, b) \in Nat /\ f <= Ceil(f, b) * b
  BY <1>1, <1>7, CeilSuffices DEF Asize
<1>10. BusyClusters(opts) = i + Ceil(f, b) /\ BusyClusters(opts) \in Nat
  BY <1>1, <1>9 DEF BusyClusters
<1>11. BusyClusters(opts) <= Fsize(opts)
  BY <1>1, <1>2 DEF TablesFit
<1>12. DataCount \in Nat
  BY <1>7, <1>10, <1>11 DEF DataCount
<1> QED BY <1>1, <1>3, <1>4, <1>5, <1>7, <1>8, <1>9, <1>10, <1>11, <1>12

\* A cluster of format ends before the drive does.
LEMMA ClusterOnDrive ==
  ASSUME TablesFit, opts \in Option, ValidSize, NEW c \in Nat, c < Fsize(opts)
  PROVE  /\ Start(c) \in Nat /\ opts.sec <= Start(c)
         /\ Start(c) + opts.bsize <= opts.sec * opts.size
<1>1. PICK s \in Nat \ {0}, n \in Nat \ {0}, B \in Nat \ {0}, f \in Nat :
        /\ s = opts.sec /\ n = opts.size /\ B = Bcoef(opts) /\ f = Fsize(opts)
        /\ opts.bsize = B * s /\ f * B <= n - 1
  BY OptionFacts, Geometry
<1>2. c * B + B <= f * B /\ c * B \in Nat /\ f * B \in Nat
  BY <1>1, NextRow
<1>3. 1 + c * B + B <= n
  BY <1>1, <1>2
<1>4. (1 + c * B + B) * s <= n * s
  BY <1>2, <1>3, TimesMonotone
<1>5. (1 + c * B + B) * s = s + c * (B * s) + B * s /\ n * s = s * n
  OBVIOUS
<1>6. c * (B * s) \in Nat /\ B * s \in Nat
  OBVIOUS
<1> QED BY <1>1, <1>4, <1>5, <1>6 DEF Start

LEMMA IntervalsApart ==
  ASSUME NEW a \in Int, NEW b \in Int, NEW c \in Int, NEW d \in Int, b < c
  PROVE  (a .. b) \cap (c .. d) = {}
OBVIOUS

LEMMA StartIsNat ==
  ASSUME opts \in Option, NEW c \in Nat
  PROVE  Start(c) \in Nat
<1>1. PICK s \in Nat, b \in Nat : s = opts.sec /\ b = opts.bsize
  BY OptionFacts
<1>2. c * b \in Nat
  OBVIOUS
<1> QED BY <1>1, <1>2 DEF Start

\* Two clusters share no cell.
LEMMA ClustersApart ==
  ASSUME opts \in Option, NEW c \in Nat, NEW d \in Nat, c < d
  PROVE  Start(c) \in Nat /\ Start(d) \in Nat /\ Start(c) + opts.bsize <= Start(d)
<1>1. PICK s \in Nat, b \in Nat : s = opts.sec /\ b = opts.bsize
  BY OptionFacts
<1>2. c * b \in Nat /\ d * b \in Nat /\ c * b + b <= d * b
  BY NextRow
<1> QED BY <1>1, <1>2 DEF Start

LEMMA CellIs ==
  ASSUME TablesFit, opts \in Option, ValidSize, NEW c \in Nat, NEW rel \in Nat
  PROVE  CellOf(c, rel) = Start(c) + rel
<1>1. PICK s \in Nat, B \in Nat : s = opts.sec /\ B = Bcoef(opts) /\ opts.bsize = B * s
  BY OptionFacts, Geometry
<1>2. (c * B + 1) * s = s + c * (B * s)
  OBVIOUS
<1> QED BY <1>1, <1>2 DEF CellOf, Sector, Start

\* An inode lies in a cluster of its table, behind those of a lower number.
InodeLies(i, p, q, r) ==
  /\ i = q * p + r /\ r < p
  /\ r * InodeSize \in Nat /\ r * InodeSize + InodeSize <= opts.bsize
  /\ Place(<<"inode", i>>) =
       (Start(q) + r * InodeSize) .. (Start(q) + r * InodeSize + InodeSize - 1)

LEMMA InodePlace ==
  ASSUME TablesFit, opts \in Option, ValidSize, NEW i \in 0 .. (Inodes(opts) - 1)
  PROVE  \E p \in Nat \ {0}, q \in 0 .. (opts.isize - 1), r \in Nat :
           p = opts.bsize \div InodeSize /\ InodeLies(i, p, q, r)
<1>1. PICK b \in Nat \ {0}, z \in Nat \ {0}, n \in Nat \ {0} :
        b = opts.bsize /\ z = InodeSize /\ n = opts.isize
  BY OptionFacts
<1>2. z <= b
  BY <1>1 DEF TablesFit, ValidSize
<1>3. PICK p \in Nat, w \in 0 .. (z - 1) : p = b \div z /\ b = p * z + w
  BY Division
<1>4. p # 0 /\ p * z \in Nat /\ p * z <= b
  BY <1>2, <1>3
<1>5. i < p * n /\ i \in Nat
  BY <1>1, <1>3 DEF Inodes
<1>6. PICK q \in Nat, r \in 0 .. (p - 1) : q = i \div p /\ r = i % p /\ i = q * p + r
  <2>1. (i \div p) \in Nat /\ (i % p) \in 0 .. (p - 1) /\ i = (i \div p) * p + (i % p)
    BY <1>4, <1>5, Division
  <2> QED BY <2>1
<1>7. q < n
  <2>1. p * n = n * p
    OBVIOUS
  <2> QED BY <1>4, <1>5, <1>6, <2>1, QuotientBelow
<1>8. r * z \in Nat /\ r * z + z <= b
  <2>1. r * z \in Nat /\ r * z + z <= p * z
    BY <1>6, NextRow
  <2> QED BY <1>4, <2>1
<1>9. Place(<<"inode", i>>) =
        CellOf(q, r * z) .. (CellOf(q, r * z) + z - 1)
  <2>1. p = opts.bsize \div InodeSize
    BY <1>1, <1>3
  <2>2. ClusterIndex(i, InodeSize, 0) = q + 0
    BY <1>6, <2>1 DEF ClusterIndex
  <2>3. RelativeIndex(i, InodeSize) = r * z
    BY <1>1, <1>6, <2>1 DEF RelativeIndex
  <2>4. q + 0 = q
    OBVIOUS
  <2> QED BY <1>1, <2>2, <2>3, <2>4 DEF Place
<1>10. CellOf(q, r * z) = Start(q) + r * z
  BY <1>8, CellIs
<1>11. InodeLies(i, p, q, r)
  <2>1. r < p /\ r * InodeSize = r * z /\ InodeSize = z
    BY <1>1, <1>6
  <2> QED BY <1>1, <1>6, <1>8, <1>9, <1>10, <2>1 DEF InodeLies
<1>12. p \in Nat \ {0} /\ p = opts.bsize \div InodeSize /\ q \in 0 .. (opts.isize - 1) /\ r \in Nat
  BY <1>1, <1>3, <1>4, <1>6, <1>7
<1> QED BY <1>11, <1>12

SlotLies(k, q, r) ==
  /\ opts.isize <= q /\ q < BusyClusters(opts)
  /\ k = (q - opts.isize) * opts.bsize + r
  /\ Place(<<"slot", k>>) = {Start(q) + r}

LEMMA SlotPlace ==
  ASSUME TablesFit, opts \in Option, ValidSize, NEW k \in 0 .. (DataCount - 1)
  PROVE  \E q \in Nat, r \in 0 .. (opts.bsize - 1) : SlotLies(k, q, r)
<1>1. PICK b \in Nat \ {0}, n \in Nat \ {0}, a \in Nat, f \in Nat :
        /\ b = opts.bsize /\ n = opts.isize /\ a = Asize(opts) /\ f = Fsize(opts)
        /\ BusyClusters(opts) = n + a /\ f <= a * b
  BY OptionFacts, Geometry
<1>2. k \in Nat /\ k < a * b
  <2>1. k \in Nat /\ k < f /\ a * b \in Nat
    BY <1>1, Geometry DEF DataCount
  <2> QED BY <1>1, <2>1
<1>3. PICK u \in Nat, r \in 0 .. (b - 1) : u = k \div b /\ r = k % b /\ k = u * b + r
  BY <1>2, Division
<1>4. u < a
  BY <1>2, <1>3, QuotientBelow
<1>5. b \div 1 = b
  OBVIOUS
<1>6. ClusterIndex(k, 1, opts.isize) = u + n /\ RelativeIndex(k, 1) = r
  BY <1>1, <1>3, <1>5 DEF ClusterIndex, RelativeIndex
<1>7. Place(<<"slot", k>>) = {CellOf(u + n, r)}
  BY <1>6 DEF Place
<1>8. CellOf(u + n, r) = Start(u + n) + r
  BY CellIs
<1>9. PICK q \in Nat : q = u + n
  OBVIOUS
<1>10. q - n = u /\ n <= q /\ q < n + a
  BY <1>4, <1>9
<1>11. Place(<<"slot", k>>) = {Start(q) + r}
  BY <1>7, <1>8, <1>9
<1>12. SlotLies(k, q, r)
  BY <1>1, <1>3, <1>10, <1>11 DEF SlotLies
<1> QED BY <1>1, <1>12

LEMMA ClusterPlace ==
  ASSUME TablesFit, opts \in Option, ValidSize, NEW c \in Nat
  PROVE  Place(<<"cluster", c>>) = Start(c) .. (Start(c) + opts.bsize - 1)
<1>1. CellOf(c, 0) = Start(c) + 0 /\ Start(c) + 0 = Start(c)
  BY CellIs, OptionFacts DEF Start
<1> QED BY <1>1 DEF Place

\* The cells of a cluster, and of the clusters of a table.
Extent(c) == Start(c) .. (Start(c) + opts.bsize - 1)

LEMMA ExtentsApart ==
  ASSUME opts \in Option, NEW c \in Nat, NEW d \in Nat, c # d
  PROVE  Extent(c) \cap Extent(d) = {}
<1>1. c < d \/ d < c
  OBVIOUS
<1>2. opts.bsize \in Nat
  BY OptionFacts
<1>3. CASE c < d
  BY <1>2, <1>3, ClustersApart DEF Extent
<1>4. CASE d < c
  BY <1>2, <1>4, ClustersApart DEF Extent
<1> QED BY <1>1, <1>3, <1>4

\* Where a thing is: in a cluster of its table, or of the data.
Home(x, c) ==
  /\ Place(x) # {} /\ Place(x) \subseteq Extent(c)
  /\ x \in InodeThings <=> c < opts.isize
  /\ x \in SlotThings(DataCount) <=> opts.isize <= c /\ c < BusyClusters(opts)
  /\ x \in DataThings <=> BusyClusters(opts) <= c

LEMMA ThingHome ==
  ASSUME TablesFit, opts \in Option, ValidSize, NEW x \in Things
  PROVE  \E c \in 0 .. (Fsize(opts) - 1) : Home(x, c)
<1>1. PICK n \in Nat \ {0}, m \in Nat, f \in Nat, b \in Nat \ {0} :
        /\ n = opts.isize /\ m = BusyClusters(opts) /\ f = Fsize(opts) /\ b = opts.bsize
        /\ n <= m /\ m <= f
  <2>1. /\ BusyClusters(opts) \in Nat /\ Fsize(opts) \in Nat /\ Asize(opts) \in Nat
        /\ BusyClusters(opts) = opts.isize + Asize(opts) /\ BusyClusters(opts) <= Fsize(opts)
    BY Geometry
  <2>2. opts.isize \in Nat \ {0} /\ opts.bsize \in Nat \ {0}
    BY OptionFacts
  <2>3. opts.isize <= BusyClusters(opts)
    BY <2>1, <2>2
  <2> QED BY <2>1, <2>2, <2>3
<1>2. CASE x \in InodeThings
  <2>1. PICK i \in 0 .. (Inodes(opts) - 1) : x = <<"inode", i>>
    BY <1>2 DEF InodeThings
  <2>2. PICK p \in Nat \ {0}, q \in 0 .. (n - 1), r \in Nat : InodeLies(i, p, q, r)
    BY <1>1, InodePlace
  <2>3. PICK s \in Nat, z \in Nat \ {0}, t \in Nat :
          s = Start(q) /\ z = InodeSize /\ t = r * InodeSize
    <3>1. InodeSize \in Nat \ {0} /\ r * InodeSize \in Nat
      BY <2>2, OptionFacts DEF InodeLies
    <3>2. q \in Nat
      BY <1>1
    <3>3. Start(q) \in Nat
      BY <3>2, StartIsNat
    <3> QED BY <3>1, <3>3
  <2>4. t + z <= b /\ Place(x) = (s + t) .. (s + t + z - 1)
    BY <1>1, <2>1, <2>2, <2>3 DEF InodeLies
  <2>5. Place(x) # {} /\ Place(x) \subseteq Extent(q)
    <3>1. s + t \in Place(x)
      BY <2>3, <2>4
    <3>2. Extent(q) = s .. (s + b - 1)
      BY <1>1, <2>3 DEF Extent
    <3>3. (s + t) .. (s + t + z - 1) \subseteq s .. (s + b - 1)
      BY <2>4
    <3> QED BY <2>4, <3>1, <3>2, <3>3
  <2>6. x \notin SlotThings(DataCount) /\ x \notin DataThings
    BY <2>1 DEF SlotThings, DataThings
  <2>7. q \in 0 .. (f - 1) /\ q < n /\ ~(n <= q) /\ ~(m <= q)
    BY <1>1
  <2>8. Home(x, q)
    BY <1>1, <1>2, <2>5, <2>6, <2>7 DEF Home
  <2> QED BY <1>1, <2>7, <2>8
<1>3. CASE x \in SlotThings(DataCount)
  <2>1. PICK k \in 0 .. (DataCount - 1) : x = <<"slot", k>>
    BY <1>3 DEF SlotThings
  <2>2. PICK q \in Nat, r \in 0 .. (b - 1) : SlotLies(k, q, r)
    BY <1>1, SlotPlace
  <2>3. n <= q /\ q < m /\ q < f
    BY <1>1, <2>2 DEF SlotLies
  <2>4. PICK s \in Nat : s = Start(q)
    BY <1>1, <2>3, ClusterOnDrive
  <2>5. Place(x) = {s + r}
    BY <2>1, <2>2, <2>4 DEF SlotLies
  <2>6. Place(x) # {} /\ Place(x) \subseteq Extent(q)
    BY <1>1, <2>4, <2>5 DEF Extent
  <2>7. x \notin InodeThings /\ x \notin DataThings
    BY <2>1 DEF InodeThings, DataThings
  <2>8. Home(x, q)
    BY <1>1, <1>3, <2>3, <2>6, <2>7 DEF Home
  <2> QED BY <1>1, <2>3, <2>8
<1>4. CASE x \in DataThings
  <2>1. PICK c \in DataClusters : x = <<"cluster", c>>
    BY <1>4 DEF DataThings
  <2>2. c \in Nat /\ m <= c /\ c < f /\ ~(c < n) /\ ~(c < m)
    BY <1>1 DEF DataClusters
  <2>3. PICK s \in Nat : s = Start(c)
    BY <1>1, <2>2, ClusterOnDrive
  <2>4. Place(x) = Extent(c)
    BY <2>1, <2>2, ClusterPlace DEF Extent
  <2>5. Place(x) # {}
    <3>1. s \in Extent(c)
      BY <1>1, <2>3 DEF Extent
    <3> QED BY <2>4, <3>1
  <2>6. x \notin InodeThings /\ x \notin SlotThings(DataCount)
    BY <2>1 DEF InodeThings, SlotThings
  <2>7. Home(x, c)
    BY <1>1, <1>4, <2>2, <2>4, <2>5, <2>6 DEF Home
  <2> QED BY <1>1, <2>2, <2>7
<1> QED BY <1>2, <1>3, <1>4 DEF Things

\* Things are on the drive, behind the superblock.
LEMMA PlaceOnDrive ==
  ASSUME TablesFit, opts \in Option, ValidSize, NEW x \in Things
  PROVE  /\ Place(x) # {}
         /\ \A a \in Place(x) : a \in Nat /\ opts.sec <= a /\ a < opts.sec * opts.size
<1>1. PICK c \in 0 .. (Fsize(opts) - 1) : Home(x, c)
  BY ThingHome
<1>2. c \in Nat /\ c < Fsize(opts)
  BY Geometry
<1>3. PICK s \in Nat, b \in Nat, h \in Nat, e \in Nat :
        /\ s = Start(c) /\ b = opts.bsize /\ h = opts.sec /\ e = opts.sec * opts.size
        /\ h <= s /\ s + b <= e
  <2>1. opts.sec * opts.size \in Nat
    BY OptionFacts
  <2> QED BY <1>2, <2>1, ClusterOnDrive, OptionFacts
<1>4. Place(x) \subseteq s .. (s + b - 1)
  BY <1>1, <1>3 DEF Home, Extent
<1> QED BY <1>1, <1>3, <1>4 DEF Home

LEMMA InodesApart ==
  ASSUME TablesFit, opts \in Option, ValidSize,
         NEW i \in 0 .. (Inodes(opts) - 1), NEW j \in 0 .. (Inodes(opts) - 1), i < j
  PROVE  Place(<<"inode", i>>) \cap Place(<<"inode", j>>) = {}
<1>1. PICK p \in Nat \ {0}, q \in 0 .. (opts.isize - 1), r \in Nat :
        p = opts.bsize \div InodeSize /\ InodeLies(i, p, q, r)
  BY InodePlace
<1>2. PICK u \in 0 .. (opts.isize - 1), v \in Nat : InodeLies(j, p, u, v)
  BY <1>1, InodePlace
<1>3. PICK z \in Nat \ {0}, b \in Nat \ {0} : z = InodeSize /\ b = opts.bsize
  BY OptionFacts
<1>4. q \in Nat /\ u \in Nat /\ i \in Nat /\ j \in Nat
  BY OptionFacts
<1>5. /\ i = q * p + r /\ r < p /\ j = u * p + v /\ v < p
      /\ r * z \in Nat /\ r * z + z <= b /\ v * z \in Nat /\ v * z + z <= b
      /\ Place(<<"inode", i>>) = (Start(q) + r * z) .. (Start(q) + r * z + z - 1)
      /\ Place(<<"inode", j>>) = (Start(u) + v * z) .. (Start(u) + v * z + z - 1)
  BY <1>1, <1>2, <1>3 DEF InodeLies
<1>6. q <= u
  <2> SUFFICES ASSUME u < q PROVE FALSE
    BY <1>4
  <2>1. u * p \in Nat /\ q * p \in Nat /\ u * p + p <= q * p
    BY <1>4, NextRow
  <2> QED BY <1>5, <2>1
<1>7. CASE q < u
  <2>1. PICK s \in Nat, t \in Nat : s = Start(q) /\ t = Start(u) /\ s + b <= t
    BY <1>3, <1>4, <1>7, ClustersApart
  <2>2. PICK e \in Nat, d \in Nat : e = r * z /\ d = v * z /\ e + z <= b
    BY <1>5
  <2>3. Place(<<"inode", i>>) = (s + e) .. (s + e + z - 1)
    BY <1>5, <2>1, <2>2
  <2>4. Place(<<"inode", j>>) = (t + d) .. (t + d + z - 1)
    BY <1>5, <2>1, <2>2
  <2>5. s + e + z - 1 < t + d
    BY <2>1, <2>2
  <2> QED BY <2>3, <2>4, <2>5, IntervalsApart
<1>8. CASE q = u
  <2>1. r < v
    BY <1>5, <1>8
  <2>2. r * z + z <= v * z
    BY <2>1, NextRow
  <2>3. PICK e \in Nat, d \in Nat : e = r * z /\ d = v * z /\ e + z <= d
    BY <1>5, <2>2
  <2>4. PICK s : s = Start(q) /\ s = Start(u)
    BY <1>8
  <2>5. s \in Nat
    <3>1. q * b \in Nat
      BY <1>4
    <3> QED BY <1>3, <2>4, <3>1, OptionFacts DEF Start
  <2>6. Place(<<"inode", i>>) = (s + e) .. (s + e + z - 1)
    BY <1>5, <2>3, <2>4
  <2>7. Place(<<"inode", j>>) = (s + d) .. (s + d + z - 1)
    BY <1>5, <2>3, <2>4
  <2>8. s + e + z - 1 < s + d
    BY <2>3, <2>5
  <2> QED BY <2>5, <2>6, <2>7, <2>8, IntervalsApart
<1>9. q < u \/ q = u
  BY <1>4, <1>6
<1> QED BY <1>7, <1>8, <1>9

LEMMA SlotsApart ==
  ASSUME TablesFit, opts \in Option, ValidSize,
         NEW j \in 0 .. (DataCount - 1), NEW k \in 0 .. (DataCount - 1), j # k
  PROVE  Place(<<"slot", j>>) \cap Place(<<"slot", k>>) = {}
<1>1. PICK b \in Nat \ {0}, n \in Nat : b = opts.bsize /\ n = opts.isize
  BY OptionFacts
<1>2. PICK q \in Nat, r \in 0 .. (b - 1) : SlotLies(j, q, r)
  BY <1>1, SlotPlace
<1>3. PICK u \in Nat, v \in 0 .. (b - 1) : SlotLies(k, u, v)
  BY <1>1, SlotPlace
<1>4. PICK s \in Nat, t \in Nat : s = Start(q) /\ t = Start(u)
  <2>1. q * b \in Nat /\ u * b \in Nat
    OBVIOUS
  <2> QED BY <1>1, <2>1, OptionFacts DEF Start
<1>5. Place(<<"slot", j>>) = {s + r} /\ Place(<<"slot", k>>) = {t + v}
  BY <1>2, <1>3, <1>4 DEF SlotLies
<1>6. j = (q - n) * b + r /\ k = (u - n) * b + v
  BY <1>1, <1>2, <1>3 DEF SlotLies
<1>7. CASE q = u
  <2>1. r # v
    BY <1>6, <1>7
  <2>2. s + r # t + v
    BY <1>4, <1>7, <2>1
  <2> QED BY <1>5, <2>2
<1>8. CASE q # u
  <2>1. s + r \in Extent(q) /\ t + v \in Extent(u)
    BY <1>1, <1>4 DEF Extent
  <2>2. Extent(q) \cap Extent(u) = {}
    BY <1>8, ExtentsApart
  <2> QED BY <1>5, <2>1, <2>2
<1> QED BY <1>7, <1>8

\* No two things share a cell.
LEMMA PlacesApart ==
  ASSUME TablesFit, opts \in Option, ValidSize, NEW x \in Things, NEW y \in Things, x # y
  PROVE  Place(x) \cap Place(y) = {}
<1>1. PICK c \in 0 .. (Fsize(opts) - 1) : Home(x, c)
  BY ThingHome
<1>2. PICK d \in 0 .. (Fsize(opts) - 1) : Home(y, d)
  BY ThingHome
<1>3. c \in Nat /\ d \in Nat
  BY Geometry
<1>4. CASE c # d
  BY <1>1, <1>2, <1>3, <1>4, ExtentsApart DEF Home
<1>5. CASE c = d
  <2>1. CASE x \in InodeThings
    <3>1. y \in InodeThings
      BY <1>1, <1>2, <1>5, <2>1 DEF Home
    <3>2. PICK i \in 0 .. (Inodes(opts) - 1), j \in 0 .. (Inodes(opts) - 1) :
            x = <<"inode", i>> /\ y = <<"inode", j>>
      BY <2>1, <3>1 DEF InodeThings
    <3>3. i < j \/ j < i
      <4>1. i \in Int /\ j \in Int /\ i # j
        BY <3>2
      <4> QED BY <4>1
    <3>4. CASE i < j
      BY <3>2, <3>4, InodesApart
    <3>5. CASE j < i
      BY <3>2, <3>5, InodesApart
    <3> QED BY <3>3, <3>4, <3>5
  <2>2. CASE x \in SlotThings(DataCount)
    <3>1. y \in SlotThings(DataCount)
      BY <1>1, <1>2, <1>5, <2>2 DEF Home
    <3>2. PICK i \in 0 .. (DataCount - 1), j \in 0 .. (DataCount - 1) :
            x = <<"slot", i>> /\ y = <<"slot", j>>
      BY <2>2, <3>1 DEF SlotThings
    <3> QED BY <3>2, SlotsApart
  <2>3. CASE x \in DataThings
    <3>1. y \in DataThings
      BY <1>1, <1>2, <1>5, <2>3 DEF Home
    <3>2. PICK i \in DataClusters, j \in DataClusters :
            x = <<"cluster", i>> /\ y = <<"cluster", j>>
      BY <2>3, <3>1 DEF DataThings
    <3>3. i \in Nat /\ j \in Nat /\ i # j
      BY <3>2, Geometry DEF DataClusters
    <3>4. Place(x) = Extent(i) /\ Place(y) = Extent(j)
      BY <3>2, <3>3, ClusterPlace DEF Extent
    <3> QED BY <3>3, <3>4, ExtentsApart
  <2> QED BY <2>1, <2>2, <2>3 DEF Things
<1> QED BY <1>4, <1>5

-----------------------------------------------------------------------------
\* Writing.

LEMMA OptionsStay ==
  ASSUME opts' = opts
  PROVE  /\ ValidSize' = ValidSize
         /\ \A x : Place(x)' = Place(x)
         /\ Things' = Things /\ InodeThings' = InodeThings /\ DataThings' = DataThings
         /\ DataClusters' = DataClusters /\ DataCount' = DataCount
         /\ \A n : SlotThings(n)' = SlotThings(n)
<1>1. Fsize(opts)' = Fsize(opts) /\ BusyClusters(opts)' = BusyClusters(opts)
  BY DEF Fsize, BusyClusters, Asize, Bcoef
<1>2. DataClusters' = DataClusters /\ DataCount' = DataCount
  BY <1>1 DEF DataClusters, DataCount
<1>3. InodeThings' = InodeThings /\ DataThings' = DataThings
  BY <1>2 DEF InodeThings, Inodes, DataThings
<1>4. \A n : SlotThings(n)' = SlotThings(n)
  BY DEF SlotThings
<1>5. Things' = Things
  BY <1>2, <1>3 DEF Things, SlotThings
<1>6. \A x : Place(x)' = Place(x)
  BY DEF Place, CellOf, ClusterIndex, RelativeIndex, Sector, Bcoef
<1>7. ValidSize' = ValidSize
  BY DEF ValidSize
<1> QED BY <1>2, <1>3, <1>4, <1>5, <1>6, <1>7

LEMMA SlotFacts ==
  ASSUME NEW n \in Nat
  PROVE  /\ SlotThings(n + 1) = SlotThings(n) \cup {<<"slot", n>>}
         /\ \A k : <<"slot", k>> \in SlotThings(n) <=> k \in 0 .. (n - 1)
<1>1. \A k : <<"slot", k>> \in SlotThings(n) <=> k \in 0 .. (n - 1)
  BY DEF SlotThings
<1>2. 0 .. (n + 1 - 1) = 0 .. (n - 1) \cup {n}
  OBVIOUS
<1>3. SlotThings(n + 1) = SlotThings(n) \cup {<<"slot", n>>}
  BY <1>2 DEF SlotThings
<1> QED BY <1>1, <1>3

LEMMA WrittenFacts ==
  ASSUME NEW S \in SUBSET DOMAIN cell, NEW v, ~missed, Written(S, v)
  PROVE  /\ DOMAIN cell' = DOMAIN cell /\ ~missed'
         /\ \A a \in S : cell'[a] = v
         /\ \A a \in DOMAIN cell \ S : cell'[a] = cell[a]
  BY DEF Written

Super == \A a \in 0 .. (opts.sec - 1) : cell[a] = <<"super">>

\* A write to the place of a thing leaves every other thing alone.
LEMMA WriteToPlace ==
  ASSUME TablesFit, Drive, ValidSize, Super, opts' = opts,
         NEW x \in Things, NEW v, Written(Place(x), v)
  PROVE  /\ DOMAIN cell' = DOMAIN cell /\ ~missed' /\ Super'
         /\ \A a \in Place(x) : cell'[a] = v
         /\ \A y \in Things \ {x} : \A a \in Place(y) : cell'[a] = cell[a]
<1>1. PICK h \in Nat \ {0}, e \in Nat : h = opts.sec /\ e = opts.sec * opts.size
  <2>1. opts.sec * opts.size \in Nat
    BY OptionFacts DEF Drive
  <2> QED BY <2>1, OptionFacts DEF Drive
<1>2. DOMAIN cell = 0 .. (e - 1)
  BY <1>1 DEF Drive
<1>3. \A y \in Things : \A a \in Place(y) : a \in Nat /\ h <= a /\ a < e
  BY <1>1, PlaceOnDrive DEF Drive
<1>4. Place(x) \in SUBSET DOMAIN cell
  BY <1>2, <1>3
<1>5. /\ DOMAIN cell' = DOMAIN cell /\ ~missed'
      /\ \A a \in Place(x) : cell'[a] = v
      /\ \A a \in DOMAIN cell \ Place(x) : cell'[a] = cell[a]
  BY <1>4, WrittenFacts DEF Drive
<1>6. \A y \in Things \ {x} : \A a \in Place(y) : cell'[a] = cell[a]
  <2> SUFFICES ASSUME NEW y \in Things, y # x, NEW a \in Place(y) PROVE cell'[a] = cell[a]
    OBVIOUS
  <2>1. a \notin Place(x)
    BY PlacesApart DEF Drive
  <2>2. a \in DOMAIN cell
    BY <1>2, <1>3
  <2> QED BY <1>5, <2>1, <2>2
<1>7. Super'
  <2> SUFFICES ASSUME NEW a \in 0 .. (h - 1) PROVE cell'[a] = <<"super">>
    BY <1>1 DEF Super
  <2>1. a \in 0 .. (opts.sec - 1) /\ cell[a] = <<"super">>
    BY <1>1 DEF Super
  <2>2. a \notin Place(x)
    BY <1>3
  <2>3. h <= e
    <3>1. PICK z \in Place(x) : TRUE
      BY PlaceOnDrive DEF Drive
    <3> QED BY <1>1, <1>3, <3>1
  <2>4. a \in DOMAIN cell
    BY <1>1, <1>2, <2>3
  <2> QED BY <1>5, <2>1, <2>2, <2>4
<1> QED BY <1>5, <1>6, <1>7

\* What is known of the drive after such a write, if the history follows it.
LEMMA HoldsOn ==
  ASSUME TablesFit, Drive, ValidSize, Super, Holds, opts' = opts,
         NEW x \in Things, NEW v, Written(Place(x), v),
         DOMAIN last' \subseteq DOMAIN last \cup {x}, x \in DOMAIN last', last'[x] = v,
         InodeThings \cap DOMAIN last \subseteq DOMAIN last',
         \A y \in DOMAIN last' \ {x} : last'[y] = last[y]
  PROVE  Holds'
<1>1. /\ \A a \in Place(x) : cell'[a] = v
      /\ \A y \in Things \ {x} : \A a \in Place(y) : cell'[a] = cell[a]
  BY WriteToPlace
<1>2. /\ DOMAIN last \subseteq Things
      /\ \A y \in DOMAIN last : \A a \in Place(y) : cell[a] = last[y]
      /\ \A y \in InodeThings \ DOMAIN last : \A a \in Place(y) : cell[a] = <<"zero">>
  BY DEF Holds
<1>3. DOMAIN last' \subseteq Things
  BY <1>2
<1>4. \A y \in DOMAIN last' : \A a \in Place(y) : cell'[a] = last'[y]
  <2> SUFFICES ASSUME NEW y \in DOMAIN last', NEW a \in Place(y) PROVE cell'[a] = last'[y]
    OBVIOUS
  <2>1. CASE y = x
    BY <1>1, <2>1
  <2>2. CASE y # x
    <3>1. y \in DOMAIN last /\ y \in Things /\ last'[y] = last[y]
      BY <1>2, <2>2
    <3> QED BY <1>1, <1>2, <2>2, <3>1
  <2> QED BY <2>1, <2>2
<1>5. \A y \in InodeThings \ DOMAIN last' : \A a \in Place(y) : cell'[a] = <<"zero">>
  <2> SUFFICES ASSUME NEW y \in InodeThings, y \notin DOMAIN last', NEW a \in Place(y)
               PROVE  cell'[a] = <<"zero">>
    OBVIOUS
  <2>1. y # x /\ y \notin DOMAIN last /\ y \in Things
    BY DEF Things
  <2> QED BY <1>1, <1>2, <2>1
<1> QED BY <1>3, <1>4, <1>5, OptionsStay DEF Holds

\* The top of the stack is read where it was written.
LEMMA ListedIs ==
  ASSUME TablesFit, Drive, ValidSize, Holds, Stacked, NEW k \in 0 .. (tfree - 1)
  PROVE  \E c \in DataClusters : last[<<"slot", k>>] = <<"address", c>> /\ Listed(tfree)[k] = c
<1>1. PICK x : x = <<"slot", k>>
  OBVIOUS
<1>2. tfree \in Nat /\ tfree <= DataCount /\ DataCount \in Nat
  BY Geometry DEF Stacked, Drive
<1>3. x \in SlotThings(tfree) /\ k \in 0 .. (DataCount - 1)
  BY <1>1, <1>2, SlotFacts
<1>4. x \in DOMAIN last /\ x \in Things
  BY <1>3 DEF Stacked, Holds
<1>5. PICK c \in DataClusters : last[x] = <<"address", c>>
  BY <1>1, <1>3, <1>4 DEF Stacked
<1>6. PICK a : a = CHOOSE z \in Place(x) : TRUE
  OBVIOUS
<1>7. a \in Place(x)
  BY <1>4, <1>6, PlaceOnDrive DEF Drive
<1>8. cell[a] = <<"address", c>>
  BY <1>4, <1>5, <1>7 DEF Holds
<1>9. Listed(tfree)[k] = cell[a][2]
  BY <1>1, <1>6 DEF Listed
<1> QED BY <1>1, <1>5, <1>8, <1>9

-----------------------------------------------------------------------------
\* One lemma per step of format and of its callers.

LEMMA FormatInitInv == FormatInit => FormatInv
<1> SUFFICES ASSUME FormatInit PROVE FormatInv
  OBVIOUS
<1>1. Drive
  BY DEF FormatInit, Drive
<1>2. DOMAIN last = {} /\ tfree = 0 /\ done = 0 /\ pos = 0 /\ phase = "blank"
  BY DEF FormatInit
<1> QED BY <1>1, <1>2 DEF FormatInv, Untouched, Zeroing, Headed, Pushing, Ready

LEMMA RefuseKeeps == FormatInv /\ Refuse => FormatInv'
<1> SUFFICES ASSUME FormatInv, Refuse PROVE FormatInv'
  OBVIOUS
<1>1. phase' = "refused" /\ Drive'
  BY DEF FormatInv, Refuse, Drive
<1>2. Untouched'
  BY DEF FormatInv, Refuse, Untouched
<1> QED BY <1>1, <1>2 DEF FormatInv, Zeroing, Headed, Pushing, Ready

LEMMA WriteSuperKeeps == ASSUME TablesFit PROVE FormatInv /\ WriteSuper => FormatInv'
<1> SUFFICES ASSUME FormatInv, WriteSuper PROVE FormatInv'
  OBVIOUS
<1>1. PICK h \in Nat \ {0}, n \in Nat \ {0} : h = opts.sec /\ n = opts.size
  BY OptionFacts DEF FormatInv, Drive
<1>2. h * n \in Nat /\ h <= h * n
  <2>1. 1 * h <= n * h
    BY TimesMonotone
  <2> QED BY <2>1
<1>3. /\ opts' = opts /\ phase' = "zeroing" /\ pos' = 1 /\ done' = done /\ done = 0
      /\ tfree' = 0 /\ last' = last /\ DOMAIN last = {} /\ ValidSize
      /\ Written(0 .. (h - 1), <<"super">>)
  BY <1>1 DEF FormatInv, WriteSuper, Untouched
<1>4. 0 .. (h - 1) \in SUBSET DOMAIN cell
  BY <1>1, <1>2 DEF FormatInv, Drive
<1>5. DOMAIN cell' = DOMAIN cell /\ ~missed' /\ \A a \in 0 .. (h - 1) : cell'[a] = <<"super">>
  BY <1>3, <1>4, WrittenFacts DEF FormatInv, Drive
<1>6. Drive'
  BY <1>3, <1>5 DEF FormatInv, Drive
<1>7. Headed'
  BY <1>1, <1>3, <1>5, OptionsStay DEF Headed
<1>8. Zeroing'
  <2>1. opts.isize \in Nat \ {0} /\ opts.bsize \in Nat
    BY OptionFacts DEF FormatInv, Drive
  <2>2. Bcoef(opts) \in Nat
    BY <1>3, Geometry DEF FormatInv, Drive
  <2>3. done' \in 0 .. (opts'.isize - 1)
    BY <1>3, <2>1
  <2>4. pos' = 1 + done' * Bcoef(opts)' 
    BY <1>3, <2>2 DEF Bcoef
  <2>5. opts'.sec .. (opts'.sec + done' * opts'.bsize - 1) = {}
    BY <1>1, <1>3, <2>1
  <2> QED BY <1>3, <2>3, <2>4, <2>5 DEF Zeroing
<1> QED BY <1>3, <1>6, <1>7, <1>8 DEF FormatInv, Untouched, Pushing, Ready

\* The cells of the inode table, when its clusters are zero.
LEMMA InodesZero ==
  ASSUME TablesFit, opts \in Option, ValidSize, NEW f,
         \A a \in opts.sec .. (opts.sec + opts.isize * opts.bsize - 1) : f[a] = <<"zero">>
  PROVE  \A x \in InodeThings : \A a \in Place(x) : f[a] = <<"zero">>
<1> SUFFICES ASSUME NEW x \in InodeThings, NEW a \in Place(x) PROVE f[a] = <<"zero">>
  OBVIOUS
<1>1. x \in Things
  BY DEF Things
<1>2. PICK c \in 0 .. (Fsize(opts) - 1) : Home(x, c)
  BY <1>1, ThingHome
<1>3. PICK h \in Nat, b \in Nat, n \in Nat :
        h = opts.sec /\ b = opts.bsize /\ n = opts.isize
  BY OptionFacts
<1>4. c \in Nat /\ c < n
  BY <1>2, <1>3, Geometry DEF Home
<1>5. a \in Start(c) .. (Start(c) + b - 1)
  BY <1>2, <1>3 DEF Home, Extent
<1>6. PICK k \in Nat : k = c * b
  OBVIOUS
<1>7. k + b <= n * b /\ n * b \in Nat
  BY <1>4, <1>6, NextRow
<1>8. Start(c) = h + k
  BY <1>3, <1>6 DEF Start
<1>9. a \in h .. (h + n * b - 1)
  BY <1>5, <1>7, <1>8
<1> QED BY <1>3, <1>9

LEMMA ZeroClusterKeeps == ASSUME TablesFit PROVE FormatInv /\ ZeroCluster => FormatInv'
<1> SUFFICES ASSUME FormatInv, ZeroCluster PROVE FormatInv'
  OBVIOUS
<1>1. /\ phase = "zeroing" /\ opts' = opts /\ tfree' = tfree /\ last' = last
      /\ done' = done + 1 /\ pos' = pos + Bcoef(opts)
      /\ phase' = IF done' = opts.isize THEN "pushing" ELSE "zeroing"
  BY DEF ZeroCluster
<1>2. opts \in Option /\ ValidSize /\ Super /\ ~missed
  BY <1>1 DEF FormatInv, Drive, Headed, Super
<1>3. PICK h \in Nat \ {0}, b \in Nat \ {0}, n \in Nat \ {0}, B \in Nat \ {0}, e \in Nat :
        /\ h = opts.sec /\ b = opts.bsize /\ n = opts.isize /\ B = Bcoef(opts) /\ b = B * h
        /\ e = opts.sec * opts.size /\ DOMAIN cell = 0 .. (e - 1)
  <2>1. opts.sec * opts.size \in Nat
    BY <1>2, OptionFacts
  <2>2. DOMAIN cell = 0 .. (opts.sec * opts.size - 1)
    BY DEF FormatInv, Drive
  <2> QED BY <1>2, <2>1, <2>2, OptionFacts, Geometry
<1>4. /\ done \in 0 .. (n - 1) /\ pos = 1 + done * B /\ tfree = 0 /\ DOMAIN last = {}
      /\ \A a \in h .. (h + done * b - 1) : cell[a] = <<"zero">>
  BY <1>1, <1>3 DEF FormatInv, Zeroing
<1>5. PICK d \in Nat, s \in Nat : d = done /\ s = d * b /\ d < n
  <2>1. done \in Nat /\ done < n
    BY <1>4
  <2> QED BY <2>1
<1>6. pos * h = h + s
  <2>1. (1 + d * B) * h = h + d * (B * h)
    OBVIOUS
  <2> QED BY <1>3, <1>4, <1>5, <2>1
<1>7. Start(d) = h + s
  BY <1>3, <1>5 DEF Start
<1>8. h + s + b <= e
  <2>1. n <= Fsize(opts) /\ Fsize(opts) \in Nat
    <3>1. PICK a \in Nat, f \in Nat :
            a = Asize(opts) /\ f = Fsize(opts) /\ opts.isize + a <= f
      BY <1>2, Geometry
    <3>2. n + a <= f
      BY <1>3, <3>1
    <3> QED BY <3>1, <3>2
  <2>2. d < Fsize(opts)
    BY <1>5, <2>1
  <2> QED BY <1>2, <1>3, <1>7, <2>2, ClusterOnDrive
<1>9. PICK S : S = (h + s) .. (h + s + b - 1)
  OBVIOUS
<1>9a. DOMAIN cell = 0 .. (e - 1)
  BY <1>3
<1>10. Written(S, <<"zero">>)
  BY <1>3, <1>6, <1>9 DEF ZeroCluster
<1>11. S \in SUBSET DOMAIN cell
  BY <1>8, <1>9, <1>9a
<1>12. /\ DOMAIN cell' = DOMAIN cell /\ ~missed'
       /\ \A a \in S : cell'[a] = <<"zero">>
       /\ \A a \in DOMAIN cell \ S : cell'[a] = cell[a]
  BY <1>2, <1>10, <1>11, WrittenFacts
<1>13. Drive'
  BY <1>1, <1>12 DEF FormatInv, Drive
<1>14. Headed'
  <2>1. \A a \in 0 .. (h - 1) : cell'[a] = <<"super">>
    <3> SUFFICES ASSUME NEW a \in 0 .. (h - 1) PROVE cell'[a] = <<"super">>
      OBVIOUS
    <3>1. a \in DOMAIN cell \ S
      BY <1>8, <1>9, <1>9a
    <3> QED BY <1>2, <1>3, <1>12, <3>1 DEF Super
  <2> QED BY <1>1, <1>2, <1>3, <2>1, OptionsStay DEF Headed
<1>15. (d + 1) * b = s + b
  BY <1>5
<1>16. \A a \in h .. (h + (d + 1) * b - 1) : cell'[a] = <<"zero">>
  <2> SUFFICES ASSUME NEW a \in h .. (h + s + b - 1) PROVE cell'[a] = <<"zero">>
    BY <1>15
  <2>1. CASE a \in S
    BY <1>12, <2>1
  <2>2. CASE a \notin S
    <3>1. a \in h .. (h + s - 1) /\ a \in DOMAIN cell \ S
      BY <1>8, <1>9, <1>9a, <2>2
    <3>2. cell[a] = <<"zero">>
      BY <1>4, <1>5, <3>1
    <3> QED BY <1>12, <3>1, <3>2
  <2> QED BY <2>1, <2>2
<1>17. done' = d + 1 /\ tfree' = 0 /\ DOMAIN last' = {}
  BY <1>1, <1>4, <1>5
<1>18. CASE d + 1 # n
  <2>1. phase' = "zeroing"
    BY <1>1, <1>3, <1>17, <1>18
  <2>2. done' \in 0 .. (n - 1)
    BY <1>5, <1>17, <1>18
  <2>3. pos' = 1 + done' * B
    <3>1. (d + 1) * B = d * B + B /\ d * B \in Nat
      OBVIOUS
    <3> QED BY <1>1, <1>3, <1>4, <1>5, <1>17, <3>1
  <2>4. Bcoef(opts)' = B
    BY <1>1, <1>3 DEF Bcoef
  <2>5. Zeroing'
    BY <1>1, <1>3, <1>16, <1>17, <2>2, <2>3, <2>4 DEF Zeroing
  <2> QED BY <1>13, <1>14, <2>1, <2>5 DEF FormatInv, Untouched, Pushing, Ready
<1>19. CASE d + 1 = n
  <2>1. phase' = "pushing"
    BY <1>1, <1>3, <1>17, <1>19
  <2>2. opts' \in Option /\ ValidSize'
    BY <1>1, <1>2, OptionsStay
  <2>3. \A x \in InodeThings : \A a \in Place(x) : cell'[a] = <<"zero">>
    <3>1. PICK f : f = cell'
      OBVIOUS
    <3>2. \A a \in opts.sec .. (opts.sec + opts.isize * opts.bsize - 1) : f[a] = <<"zero">>
      BY <1>3, <1>16, <1>19, <3>1
    <3>3. \A x \in InodeThings : \A a \in Place(x) : f[a] = <<"zero">>
      BY <1>2, <3>2, InodesZero
    <3> QED BY <3>1, <3>3
  <2>4. Holds'
    BY <1>1, <1>17, <2>3, OptionsStay DEF Holds
  <2>5. DataCount' \in Nat
    BY <1>1, <1>2, Geometry, OptionsStay
  <2>6. SlotThings(0)' = {}
    BY DEF SlotThings
  <2>7. Stacked'
    BY <1>17, <2>5, <2>6 DEF Stacked
  <2>8. Pushing'
    BY <1>17, <2>6 DEF Pushing
  <2> QED BY <1>13, <1>14, <2>1, <2>4, <2>7, <2>8 DEF FormatInv, Untouched, Zeroing, Ready
<1> QED BY <1>18, <1>19

\* What the steps after the tables have in common.
LEMMA Mounted ==
  ASSUME TablesFit, FormatInv, phase \in {"pushing", "ready"}
  PROVE  /\ opts \in Option /\ ValidSize /\ Super /\ Drive /\ Holds /\ Stacked
         /\ DataCount \in Nat /\ tfree \in Nat /\ tfree <= DataCount
         /\ BusyClusters(opts) \in Nat /\ Fsize(opts) \in Nat
         /\ DataCount = Fsize(opts) - BusyClusters(opts)
<1>1. opts \in Option /\ ValidSize /\ Super /\ Drive /\ Holds /\ Stacked
  BY DEF FormatInv, Drive, Headed, Super
<1> QED BY <1>1, Geometry DEF Stacked, DataCount

\* The parts of the invariant that a write to a thing leaves to show.
LEMMA AfterWrite ==
  ASSUME TablesFit, FormatInv, phase \in {"pushing", "ready"}, opts' = opts,
         phase' \in {"pushing", "ready"},
         NEW x \in Things, NEW v, Written(Place(x), v),
         DOMAIN last' \subseteq DOMAIN last \cup {x}, x \in DOMAIN last', last'[x] = v,
         InodeThings \cap DOMAIN last \subseteq DOMAIN last',
         \A y \in DOMAIN last' \ {x} : last'[y] = last[y],
         Stacked', Pushing', Ready'
  PROVE  FormatInv'
<1>1. opts \in Option /\ ValidSize /\ Super /\ Drive /\ Holds
  BY Mounted
<1>2. DOMAIN cell' = DOMAIN cell /\ ~missed' /\ Super'
  BY <1>1, WriteToPlace
<1>3. Drive'
  BY <1>1, <1>2 DEF Drive
<1>4. Headed'
  BY <1>1, <1>2, OptionsStay DEF Headed, Super
<1>5. Holds'
  BY <1>1, HoldsOn
<1> QED BY <1>3, <1>4, <1>5 DEF FormatInv, Untouched, Zeroing

LEMMA PushFreeKeeps == ASSUME TablesFit PROVE FormatInv /\ PushFree => FormatInv'
<1> SUFFICES ASSUME FormatInv, PushFree PROVE FormatInv'
  OBVIOUS
<1>1. phase = "pushing" /\ opts' = opts /\ done' = done /\ pos' = pos
  BY DEF PushFree
<1>2. PICK n \in Nat, t \in Nat, m \in Nat, f \in Nat :
        /\ n = DataCount /\ t = tfree /\ m = BusyClusters(opts) /\ f = Fsize(opts)
        /\ n = f - m /\ t <= n
  BY <1>1, Mounted
<1>3. DOMAIN last = SlotThings(t) /\ \A k \in 0 .. (t - 1) : last[<<"slot", k>>] = <<"address", f - 1 - k>>
  BY <1>1, <1>2 DEF FormatInv, Pushing
<1>4. PICK c : c = f - 1 - t
  OBVIOUS
<1>5. c \in Int /\ LastPushed = m
  BY <1>2, <1>4 DEF LastPushed
<1>6. CASE c >= LastPushed
  <2>1. phase' = phase /\ tfree' = t + 1 /\ Put(<<"slot", t>>, <<"address", c>>)
    BY <1>2, <1>4, <1>6 DEF PushFree
  <2>2. c \in DataClusters /\ t \in 0 .. (n - 1)
    BY <1>2, <1>4, <1>5, <1>6 DEF DataClusters
  <2>3. PICK x : x = <<"slot", t>>
    OBVIOUS
  <2>4. x \in Things
    BY <1>2, <2>2, <2>3, SlotFacts DEF Things
  <2>5. /\ Written(Place(x), <<"address", c>>)
        /\ last' = [y \in DOMAIN last \cup {x} |-> IF y = x THEN <<"address", c>> ELSE last[y]]
    BY <2>1, <2>3 DEF Put
  <2>6. /\ DOMAIN last' = DOMAIN last \cup {x} /\ last'[x] = <<"address", c>>
        /\ \A y \in DOMAIN last' \ {x} : last'[y] = last[y]
    BY <2>5
  <2>7. DOMAIN last' = SlotThings(t + 1)
    BY <1>3, <2>3, <2>6, SlotFacts
  <2>8. \A k \in 0 .. t : last'[<<"slot", k>>] = <<"address", f - 1 - k>>
    <3> SUFFICES ASSUME NEW k \in 0 .. t PROVE last'[<<"slot", k>>] = <<"address", f - 1 - k>>
      OBVIOUS
    <3>1. CASE k = t
      BY <1>4, <2>3, <2>6, <3>1
    <3>2. CASE k # t
      <4>1. k \in 0 .. (t - 1)
        BY <3>2
      <4>2. <<"slot", k>> \in DOMAIN last' /\ <<"slot", k>> # x
        BY <1>3, <2>3, <2>6, <3>2, <4>1, SlotFacts
      <4> QED BY <1>3, <2>6, <4>1, <4>2
    <3> QED BY <3>1, <3>2
  <2>9. tfree' = t + 1 /\ t + 1 - 1 = t /\ Fsize(opts)' = f
    BY <1>1, <1>2, <2>1 DEF Fsize, Bcoef
  <2>10. Pushing'
    <3>1. SlotThings(tfree)' = SlotThings(t + 1)
      BY <2>9 DEF SlotThings
    <3> QED BY <2>7, <2>8, <2>9, <3>1 DEF Pushing
  <2>11. Stacked'
    <3>1. DataCount' = n /\ DataClusters' = DataClusters
      BY <1>1, <1>2, OptionsStay
    <3>2. SlotThings(tfree)' = SlotThings(t + 1)
      BY <2>9 DEF SlotThings
    <3>3. t + 1 \in 0 .. n
      BY <2>2
    <3>4. \A k \in 0 .. (n - 1) : <<"slot", k>> \in DOMAIN last' =>
            \E d \in DataClusters : last'[<<"slot", k>>] = <<"address", d>>
      <4> SUFFICES ASSUME NEW k \in 0 .. (n - 1), <<"slot", k>> \in DOMAIN last'
                   PROVE  \E d \in DataClusters : last'[<<"slot", k>>] = <<"address", d>>
        OBVIOUS
      <4>1. k \in 0 .. t
        BY <2>7, <2>9, SlotFacts
      <4>2. f - 1 - k \in DataClusters
        BY <1>2, <2>2, <4>1 DEF DataClusters
      <4> QED BY <2>8, <4>1, <4>2
    <3>5. \A j, k \in 0 .. t : last'[<<"slot", j>>] = last'[<<"slot", k>>] => j = k
      <4> SUFFICES ASSUME NEW j \in 0 .. t, NEW k \in 0 .. t,
                          last'[<<"slot", j>>] = last'[<<"slot", k>>]
                   PROVE  j = k
        OBVIOUS
      <4>1. <<"address", f - 1 - j>> = <<"address", f - 1 - k>>
        BY <2>8
      <4>2. f - 1 - j = f - 1 - k
        BY <4>1
      <4> QED BY <4>2, <1>2
    <3> QED BY <2>7, <2>9, <3>1, <3>2, <3>3, <3>4, <3>5 DEF Stacked
  <2>12. Ready'
    BY <1>1, <2>1 DEF Ready
  <2> QED BY <1>1, <2>1, <2>4, <2>5, <2>6, <2>10, <2>11, <2>12, AfterWrite
<1>7. CASE ~(c >= LastPushed)
  <2>1. phase' = "ready" /\ UNCHANGED <<opts, cell, tfree, missed, last>>
    BY <1>1, <1>2, <1>4, <1>7 DEF PushFree
  <2>2. t = n
    BY <1>2, <1>4, <1>5, <1>7
  <2>3. \A d \in DataClusters : \E k \in 0 .. (t - 1) : last[<<"slot", k>>] = <<"address", d>>
    <3> SUFFICES ASSUME NEW d \in DataClusters
                 PROVE  \E k \in 0 .. (t - 1) : last[<<"slot", k>>] = <<"address", d>>
      OBVIOUS
    <3>1. PICK k : k = f - 1 - d
      OBVIOUS
    <3>2. k \in 0 .. (t - 1) /\ f - 1 - k = d
      BY <1>2, <2>2, <3>1 DEF DataClusters
    <3> QED BY <1>3, <3>2
  <2>4. SlotThings(DataCount) \subseteq DOMAIN last
    BY <1>2, <1>3, <2>2
  <2>5. Ready'
    BY <1>2, <2>1, <2>3, <2>4, OptionsStay DEF Ready
  <2>6. Drive' /\ Headed' /\ Holds' /\ Stacked'
    <3>1. Drive'
      BY <2>1 DEF FormatInv, Drive
    <3>2. Headed'
      BY <1>1, <2>1, OptionsStay DEF FormatInv, Headed
    <3>3. Holds'
      BY <1>1, <2>1, OptionsStay DEF FormatInv, Holds
    <3>4. Stacked'
      BY <1>1, <2>1, OptionsStay DEF FormatInv, Stacked
    <3> QED BY <3>1, <3>2, <3>3, <3>4
  <2> QED BY <2>1, <2>5, <2>6 DEF FormatInv, Untouched, Zeroing, Pushing
<1> QED BY <1>6, <1>7

LEMMA WriteInodeKeeps ==
  ASSUME TablesFit, FormatInv, NEW i \in 0 .. (Inodes(opts) - 1), NEW v, WriteInode(i, v)
  PROVE  FormatInv'
<1>1. /\ phase = "ready" /\ phase' = "ready" /\ opts' = opts /\ tfree' = tfree
      /\ Put(<<"inode", i>>, <<"inode", v>>)
  BY DEF WriteInode
<1>2. PICK x, w : x = <<"inode", i>> /\ w = <<"inode", v>>
  OBVIOUS
<1>3. x \in Things /\ \A k : <<"slot", k>> # x /\ <<"cluster", k>> # x
  BY <1>2 DEF Things, InodeThings
<1>4. /\ Written(Place(x), w)
      /\ last' = [y \in DOMAIN last \cup {x} |-> IF y = x THEN w ELSE last[y]]
  BY <1>1, <1>2 DEF Put
<1>5. /\ DOMAIN last' = DOMAIN last \cup {x} /\ last'[x] = w
      /\ \A y \in DOMAIN last' \ {x} : last'[y] = last[y]
  BY <1>4
<1>6. /\ \A k : <<"slot", k>> \in DOMAIN last' <=> <<"slot", k>> \in DOMAIN last
      /\ \A k : <<"slot", k>> \in DOMAIN last => last'[<<"slot", k>>] = last[<<"slot", k>>]
  BY <1>3, <1>5
<1>7. tfree \in Nat /\ Stacked /\ Ready /\ DataCount \in Nat
  BY <1>1, Mounted DEF FormatInv
<1>8. \A k \in 0 .. (tfree - 1) : <<"slot", k>> \in DOMAIN last
  BY <1>7, SlotFacts DEF Stacked
<1>9. Stacked'
  <2>1. SlotThings(tfree) \subseteq DOMAIN last'
    BY <1>5, <1>7 DEF Stacked
  <2>2. \A k \in 0 .. (DataCount - 1) : <<"slot", k>> \in DOMAIN last' =>
          \E c \in DataClusters : last'[<<"slot", k>>] = <<"address", c>>
    BY <1>6, <1>7 DEF Stacked
  <2>3. \A j, k \in 0 .. (tfree - 1) : last'[<<"slot", j>>] = last'[<<"slot", k>>] => j = k
    BY <1>6, <1>7, <1>8 DEF Stacked
  <2>4. SlotThings(tfree)' = SlotThings(tfree)
    BY <1>1 DEF SlotThings
  <2> QED BY <1>1, <1>7, <2>1, <2>2, <2>3, <2>4, OptionsStay DEF Stacked
<1>10. Ready'
  <2>1. SlotThings(DataCount) \subseteq DOMAIN last'
    BY <1>1, <1>5, <1>7 DEF Ready
  <2>2. \A c \in DataClusters :
           \/ <<"cluster", c>> \in DOMAIN last'
           \/ \E k \in 0 .. (tfree - 1) : last'[<<"slot", k>>] = <<"address", c>>
    BY <1>1, <1>5, <1>6, <1>7, <1>8 DEF Ready
  <2>3. SlotThings(DataCount)' = SlotThings(DataCount)
    BY <1>1, OptionsStay DEF SlotThings
  <2> QED BY <1>1, <2>1, <2>2, <2>3, OptionsStay DEF Ready
<1>11. Pushing'
  BY <1>1 DEF Pushing
<1> QED BY <1>1, <1>3, <1>4, <1>5, <1>9, <1>10, <1>11, AfterWrite

LEMMA TakeKeeps ==
  ASSUME TablesFit, FormatInv, NEW v, Take(v)
  PROVE  FormatInv'
<1>1. /\ phase = "ready" /\ phase' = "ready" /\ opts' = opts /\ tfree > 0 /\ tfree' = tfree - 1
      /\ Put(<<"cluster", Listed(tfree)[tfree - 1]>>, <<"data", v>>)
  BY DEF Take
<1>2. /\ opts \in Option /\ ValidSize /\ Drive /\ Holds /\ Stacked /\ Ready
      /\ tfree \in Nat /\ DataCount \in Nat /\ tfree <= DataCount
  BY <1>1, Mounted DEF FormatInv
<1>3. PICK t \in Nat : t = tfree - 1 /\ t + 1 = tfree /\ t <= DataCount
  BY <1>1, <1>2
<1>4. PICK c \in DataClusters : last[<<"slot", t>>] = <<"address", c>> /\ Listed(tfree)[t] = c
  BY <1>2, <1>3, ListedIs
<1>5. PICK x, w : x = <<"cluster", c>> /\ w = <<"data", v>>
  OBVIOUS
<1>6. x \in Things /\ \A k : <<"slot", k>> # x /\ <<"inode", k>> # x
  BY <1>5 DEF Things, DataThings
<1>7. /\ Written(Place(x), w)
      /\ last' = [y \in DOMAIN last \cup {x} |-> IF y = x THEN w ELSE last[y]]
  BY <1>1, <1>3, <1>4, <1>5 DEF Put
<1>8. /\ DOMAIN last' = DOMAIN last \cup {x} /\ last'[x] = w
      /\ \A y \in DOMAIN last' \ {x} : last'[y] = last[y]
  BY <1>7
<1>9. /\ \A k : <<"slot", k>> \in DOMAIN last' <=> <<"slot", k>> \in DOMAIN last
      /\ \A k : <<"slot", k>> \in DOMAIN last => last'[<<"slot", k>>] = last[<<"slot", k>>]
  BY <1>6, <1>8
<1>10. \A k \in 0 .. (tfree - 1) : <<"slot", k>> \in DOMAIN last
  BY <1>2, SlotFacts DEF Stacked
<1>11. \A k \in 0 .. (t - 1) : k \in 0 .. (tfree - 1)
  BY <1>3
<1>12. Stacked'
  <2>1. SlotThings(t) \subseteq DOMAIN last'
    <3>1. SlotThings(t) \subseteq SlotThings(tfree)
      BY <1>3, SlotFacts
    <3> QED BY <1>2, <1>8, <3>1 DEF Stacked
  <2>2. \A k \in 0 .. (DataCount - 1) : <<"slot", k>> \in DOMAIN last' =>
          \E d \in DataClusters : last'[<<"slot", k>>] = <<"address", d>>
    BY <1>2, <1>9 DEF Stacked
  <2>3. \A j, k \in 0 .. (t - 1) : last'[<<"slot", j>>] = last'[<<"slot", k>>] => j = k
    BY <1>2, <1>9, <1>10, <1>11 DEF Stacked
  <2>4. SlotThings(tfree)' = SlotThings(t) /\ tfree' = t
    BY <1>1, <1>3 DEF SlotThings
  <2> QED BY <1>1, <1>3, <2>1, <2>2, <2>3, <2>4, OptionsStay DEF Stacked
<1>13. Ready'
  <2>1. SlotThings(DataCount) \subseteq DOMAIN last'
    BY <1>1, <1>2, <1>8 DEF Ready
  <2>2. \A d \in DataClusters :
           \/ <<"cluster", d>> \in DOMAIN last'
           \/ \E k \in 0 .. (t - 1) : last'[<<"slot", k>>] = <<"address", d>>
    <3> SUFFICES ASSUME NEW d \in DataClusters, <<"cluster", d>> \notin DOMAIN last'
                 PROVE  \E k \in 0 .. (t - 1) : last'[<<"slot", k>>] = <<"address", d>>
      OBVIOUS
    <3>1. <<"cluster", d>> \notin DOMAIN last /\ d # c
      BY <1>5, <1>8
    <3>2. PICK k \in 0 .. (tfree - 1) : last[<<"slot", k>>] = <<"address", d>>
      BY <1>1, <1>2, <3>1 DEF Ready
    <3>3. k # t
      BY <1>4, <3>1, <3>2
    <3>4. k \in 0 .. (t - 1)
      BY <1>3, <3>3
    <3> QED BY <1>9, <1>10, <3>2, <3>4
  <2>3. SlotThings(DataCount)' = SlotThings(DataCount) /\ tfree' = t
    BY <1>1, <1>3, OptionsStay DEF SlotThings
  <2> QED BY <1>1, <2>1, <2>2, <2>3, OptionsStay DEF Ready
<1>14. Pushing'
  BY <1>1 DEF Pushing
<1> QED BY <1>1, <1>6, <1>7, <1>8, <1>12, <1>13, <1>14, AfterWrite

\* While a cluster of data is not listed the stack has a slot left.
LEMMA SlotLeft ==
  ASSUME TablesFit, FormatInv, phase = "ready", NEW c \in DataClusters, c \notin Free
  PROVE  /\ tfree < DataCount
         /\ \A k \in 0 .. (tfree - 1) : last[<<"slot", k>>] # <<"address", c>>
<1>1. /\ opts \in Option /\ ValidSize /\ Drive /\ Holds /\ Stacked
      /\ tfree \in Nat /\ DataCount \in Nat /\ tfree <= DataCount
      /\ BusyClusters(opts) \in Nat /\ Fsize(opts) \in Nat
      /\ DataCount = Fsize(opts) - BusyClusters(opts)
  BY Mounted
<1>2. PICK g : g = Listed(tfree)
  OBVIOUS
<1>3. \A k \in 0 .. (tfree - 1) :
        g[k] \in DataClusters /\ last[<<"slot", k>>] = <<"address", g[k]>>
  BY <1>1, <1>2, ListedIs
<1>4. \A k \in 0 .. (tfree - 1) : g[k] # c
  BY <1>2 DEF Free
<1>5. g \in [0 .. (tfree - 1) -> DataClusters \ {c}]
  <2>1. g = [k \in 0 .. (tfree - 1) |-> g[k]]
    BY <1>2 DEF Listed
  <2> QED BY <1>3, <1>4, <2>1
<1>6. \A j, k \in 0 .. (tfree - 1) : g[j] = g[k] => j = k
  <2> SUFFICES ASSUME NEW j \in 0 .. (tfree - 1), NEW k \in 0 .. (tfree - 1), g[j] = g[k]
               PROVE  j = k
    OBVIOUS
  <2>1. last[<<"slot", j>>] = last[<<"slot", k>>]
    BY <1>3
  <2> QED BY <1>1, <2>1 DEF Stacked
<1>7. g \in Injection(0 .. (tfree - 1), DataClusters \ {c})
  BY <1>5, <1>6 DEF Injection, IsInjective
<1>8. IsFiniteSet(DataClusters) /\ Cardinality(DataClusters) = DataCount
  <2>1. PICK m \in Nat, f \in Nat : m = BusyClusters(opts) /\ f = Fsize(opts) /\ DataCount = f - m
    BY <1>1
  <2>2. IsFiniteSet(m .. (f - 1)) /\ Cardinality(m .. (f - 1)) = IF m > f - 1 THEN 0 ELSE f - 1 - m + 1
    BY FS_Interval
  <2>3. (IF m > f - 1 THEN 0 ELSE f - 1 - m + 1) = f - m
    BY <1>1, <2>1
  <2> QED BY <2>1, <2>2, <2>3 DEF DataClusters
<1>9. IsFiniteSet(DataClusters \ {c}) /\ Cardinality(DataClusters \ {c}) = DataCount - 1
  BY <1>8, FS_RemoveElement
<1>10. Cardinality(0 .. (tfree - 1)) <= DataCount - 1
  BY <1>7, <1>9, FS_Injection
<1>11. Cardinality(0 .. (tfree - 1)) = tfree
  <2>1. Cardinality(0 .. (tfree - 1)) = IF 0 > tfree - 1 THEN 0 ELSE tfree - 1 - 0 + 1
    BY <1>1, FS_Interval
  <2> QED BY <1>1, <2>1
<1>12. tfree < DataCount
  BY <1>1, <1>10, <1>11
<1>13. \A k \in 0 .. (tfree - 1) : last[<<"slot", k>>] # <<"address", c>>
  <2> SUFFICES ASSUME NEW k \in 0 .. (tfree - 1), <<"address", g[k]>> = <<"address", c>>
               PROVE  FALSE
    BY <1>3
  <2>1. g[k] = c
    OBVIOUS
  <2> QED BY <1>4, <2>1
<1> QED BY <1>12, <1>13

LEMMA GiveKeeps ==
  ASSUME TablesFit, FormatInv, NEW c \in DataClusters, Give(c)
  PROVE  FormatInv'
<1>1a. PICK t \in Nat : t = tfree
  BY Mounted DEF Give
<1>1. PICK x, w : t = tfree /\ x = <<"slot", t>> /\ w = <<"address", c>>
  BY <1>1a
<1>2. /\ phase = "ready" /\ phase' = "ready" /\ opts' = opts /\ tfree' = t + 1 /\ c \notin Free
      /\ Written(Place(x), w)
      /\ last' = [y \in (DOMAIN last \ {<<"cluster", c>>}) \cup {x} |-> IF y = x THEN w ELSE last[y]]
  BY <1>1 DEF Give
<1>2a. opts' = opts /\ tfree' = t + 1
  BY <1>2
<1>2b. DataCount' = DataCount /\ DataClusters' = DataClusters
  BY <1>2a, OptionsStay
<1>3. /\ opts \in Option /\ ValidSize /\ Drive /\ Holds /\ Stacked /\ Ready
      /\ t \in Nat /\ DataCount \in Nat
  BY <1>1, <1>2, Mounted DEF FormatInv
<1>4. /\ t < DataCount
      /\ \A k \in 0 .. (t - 1) : last[<<"slot", k>>] # <<"address", c>>
  BY <1>1, <1>2, SlotLeft
<1>5. x \in SlotThings(DataCount) /\ t \in 0 .. (DataCount - 1)
  BY <1>1, <1>3, <1>4, SlotFacts
<1>6. x \in DOMAIN last /\ x \in Things
  BY <1>2, <1>3, <1>5 DEF Ready, Things
<1>7. /\ DOMAIN last' = (DOMAIN last \ {<<"cluster", c>>}) \cup {x} /\ last'[x] = w
      /\ \A y \in DOMAIN last' \ {x} : last'[y] = last[y]
  BY <1>2
<1>8. \A k : <<"slot", k>> # <<"cluster", c>> /\ <<"inode", k>> # <<"cluster", c>>
  OBVIOUS
<1>9. /\ \A k : <<"slot", k>> \in DOMAIN last' <=> <<"slot", k>> \in DOMAIN last
      /\ \A k : <<"slot", k>> \in DOMAIN last /\ k # t => last'[<<"slot", k>>] = last[<<"slot", k>>]
  <2>1. \A k : <<"slot", k>> = x <=> k = t
    BY <1>1
  <2> QED BY <1>6, <1>7, <1>8, <2>1
<1>10. InodeThings \cap DOMAIN last \subseteq DOMAIN last'
  BY <1>7, <1>8 DEF InodeThings
<1>11. SlotThings(DataCount) \subseteq DOMAIN last'
  <2>1. SlotThings(DataCount) \subseteq DOMAIN last
    BY <1>2, <1>3 DEF Ready
  <2>2. <<"cluster", c>> \notin SlotThings(DataCount)
    BY DEF SlotThings
  <2> QED BY <1>7, <2>1, <2>2
<1>12. \A k \in 0 .. (t - 1) : <<"slot", k>> \in DOMAIN last /\ k # t
  <2>1. SlotThings(t) \subseteq DOMAIN last
    BY <1>1, <1>3 DEF Stacked
  <2>2. \A k \in 0 .. (t - 1) : <<"slot", k>> \in SlotThings(t)
    BY SlotFacts
  <2>3. \A k \in 0 .. (t - 1) : k # t
    OBVIOUS
  <2> QED BY <2>1, <2>2, <2>3
<1>13. \A k \in 0 .. (t + 1 - 1) : k \in 0 .. (t - 1) \/ k = t
  BY <1>3
<1>14. Stacked'
  <2>1. SlotThings(t + 1) \subseteq DOMAIN last'
    <3>1. SlotThings(t + 1) \subseteq SlotThings(DataCount)
      <4>1. SlotThings(t + 1) = SlotThings(t) \cup {x}
        BY <1>1, <1>3, SlotFacts
      <4>2. 0 .. (t - 1) \subseteq 0 .. (DataCount - 1)
        BY <1>3, <1>4
      <4>3. SlotThings(t) \subseteq SlotThings(DataCount)
        BY <4>2 DEF SlotThings
      <4> QED BY <1>5, <4>1, <4>3
    <3> QED BY <1>11, <3>1
  <2>2. \A k \in 0 .. (DataCount - 1) : <<"slot", k>> \in DOMAIN last' =>
          \E d \in DataClusters : last'[<<"slot", k>>] = <<"address", d>>
    <3> SUFFICES ASSUME NEW k \in 0 .. (DataCount - 1), <<"slot", k>> \in DOMAIN last'
                 PROVE  \E d \in DataClusters : last'[<<"slot", k>>] = <<"address", d>>
      OBVIOUS
    <3>1. CASE k = t
      BY <1>1, <1>7, <3>1
    <3>2. CASE k # t
      BY <1>3, <1>9, <3>2 DEF Stacked
    <3> QED BY <3>1, <3>2
  <2>3. \A j, k \in 0 .. (t + 1 - 1) : last'[<<"slot", j>>] = last'[<<"slot", k>>] => j = k
    <3> SUFFICES ASSUME NEW j \in 0 .. (t + 1 - 1), NEW k \in 0 .. (t + 1 - 1),
                        last'[<<"slot", j>>] = last'[<<"slot", k>>]
                 PROVE  j = k
      OBVIOUS
    <3>1. last'[<<"slot", t>>] = <<"address", c>>
      BY <1>1, <1>7
    <3>2. \A i \in 0 .. (t - 1) : last'[<<"slot", i>>] = last[<<"slot", i>>]
      BY <1>9, <1>12
    <3>3. CASE j = t /\ k = t
      BY <3>3
    <3>4. CASE j = t /\ k # t
      BY <1>4, <1>13, <3>1, <3>2, <3>4
    <3>5. CASE j # t /\ k = t
      BY <1>4, <1>13, <3>1, <3>2, <3>5
    <3>6. CASE j # t /\ k # t
      BY <1>1, <1>3, <1>13, <3>2, <3>6 DEF Stacked
    <3> QED BY <3>3, <3>4, <3>5, <3>6
  <2>4. SlotThings(tfree)' = SlotThings(t + 1)
    BY <1>2 DEF SlotThings
  <2>5. t + 1 \in 0 .. DataCount
    BY <1>3, <1>4
  <2> QED BY <1>2a, <1>2b, <2>1, <2>2, <2>3, <2>4, <2>5 DEF Stacked
<1>15. Ready'
  <2>1. \A d \in DataClusters :
           \/ <<"cluster", d>> \in DOMAIN last'
           \/ \E k \in 0 .. (t + 1 - 1) : last'[<<"slot", k>>] = <<"address", d>>
    <3> SUFFICES ASSUME NEW d \in DataClusters, <<"cluster", d>> \notin DOMAIN last'
                 PROVE  \E k \in 0 .. (t + 1 - 1) : last'[<<"slot", k>>] = <<"address", d>>
      OBVIOUS
    <3>1. t \in 0 .. (t + 1 - 1) /\ \A k \in 0 .. (t - 1) : k \in 0 .. (t + 1 - 1)
      BY <1>3
    <3>2. CASE d = c
      BY <1>1, <1>7, <3>1, <3>2
    <3>3. CASE d # c
      <4>1. <<"cluster", d>> \notin DOMAIN last
        BY <1>7, <3>3
      <4>2. PICK k \in 0 .. (t - 1) : last[<<"slot", k>>] = <<"address", d>>
        BY <1>1, <1>2, <1>3, <4>1 DEF Ready
      <4> QED BY <1>9, <1>12, <3>1, <4>2
    <3> QED BY <3>2, <3>3
  <2>2. SlotThings(DataCount)' = SlotThings(DataCount)
    BY <1>2, OptionsStay DEF SlotThings
  <2> QED BY <1>2a, <1>2b, <1>11, <2>1, <2>2 DEF Ready
<1>16. Pushing'
  BY <1>2 DEF Pushing
<1>17. DOMAIN last' \subseteq DOMAIN last \cup {x} /\ x \in DOMAIN last'
  BY <1>7
<1> QED BY <1>2, <1>6, <1>7, <1>10, <1>14, <1>15, <1>16, <1>17, AfterWrite

LEMMA FormatStutters == FormatInv /\ UNCHANGED formatVars => FormatInv'
<1> SUFFICES ASSUME FormatInv, UNCHANGED formatVars PROVE FormatInv'
  OBVIOUS
<1>1. UNCHANGED <<opts, cell, pos, phase, done, tfree, missed, last>>
  BY DEF formatVars
<1>2. Drive' /\ Untouched'
  BY <1>1 DEF FormatInv, Drive, Untouched
<1>3. Zeroing'
  BY <1>1 DEF FormatInv, Zeroing, Bcoef
<1>4. Headed'
  BY <1>1, OptionsStay DEF FormatInv, Headed
<1>5. phase' \in {"pushing", "ready"} => Holds' /\ Stacked'
  <2>1. Holds' <=> Holds
    BY <1>1, OptionsStay DEF Holds
  <2>2. Stacked' <=> Stacked
    BY <1>1, OptionsStay DEF Stacked
  <2> QED BY <1>1, <2>1, <2>2 DEF FormatInv
<1>6. Pushing'
  BY <1>1, OptionsStay DEF FormatInv, Pushing, Fsize, Bcoef
<1>7. Ready'
  BY <1>1, OptionsStay DEF FormatInv, Ready
<1> QED BY <1>2, <1>3, <1>4, <1>5, <1>6, <1>7 DEF FormatInv

LEMMA FormatNextKeeps == ASSUME TablesFit PROVE FormatInv /\ [FormatNext]_formatVars => FormatInv'
<1> SUFFICES ASSUME FormatInv, [FormatNext]_formatVars PROVE FormatInv'
  OBVIOUS
<1>1. CASE Refuse
  BY <1>1, RefuseKeeps
<1>2. CASE WriteSuper
  BY <1>2, WriteSuperKeeps
<1>3. CASE ZeroCluster
  BY <1>3, ZeroClusterKeeps
<1>4. CASE PushFree
  BY <1>4, PushFreeKeeps
<1>5. CASE \E i \in 0 .. (Inodes(opts) - 1), v \in Version : WriteInode(i, v)
  BY <1>5, WriteInodeKeeps
<1>6. CASE \E v \in Version : Take(v)
  BY <1>6, TakeKeeps
<1>7. CASE \E c \in BusyClusters(opts) .. (Fsize(opts) - 1) : Give(c)
  BY <1>7, GiveKeeps DEF DataClusters
<1>8. CASE UNCHANGED formatVars
  BY <1>8, FormatStutters
<1> QED BY <1>1, <1>2, <1>3, <1>4, <1>5, <1>6, <1>7, <1>8 DEF FormatNext

-----------------------------------------------------------------------------
\* The theorems.

\* The inductive invariant: format's steps one after the other, and the drive
\* of things apart they leave for INodeTable, ClusterTable and the data.
THEOREM FormatInvAlways == ASSUME TablesFit PROVE FormatSpec => []FormatInv
BY FormatInitInv, FormatNextKeeps, PTL DEF FormatSpec

LEMMA FormatIntact == ASSUME TablesFit PROVE FormatInv => Intact
<1> SUFFICES ASSUME FormatInv PROVE Intact
  OBVIOUS
<1>1. ~missed
  BY DEF FormatInv, Drive
<1>2. phase \in {"blank", "zeroing", "pushing", "ready", "refused"}
  BY DEF FormatInv, Drive
<1>3. \A x \in DOMAIN last : \A a \in Place(x) : cell[a] = last[x]
  <2>1. CASE phase \in {"pushing", "ready"}
    BY <2>1 DEF FormatInv, Holds
  <2>2. CASE phase \in {"blank", "zeroing", "refused"}
    BY <2>2 DEF FormatInv, Untouched, Zeroing
  <2> QED BY <1>2, <2>1, <2>2
<1>4. phase \notin {"blank", "refused"} => \A a \in 0 .. (opts.sec - 1) : cell[a] = <<"super">>
  BY <1>2 DEF FormatInv, Headed
<1> QED BY <1>1, <1>3, <1>4 DEF Intact

\* Whatever options format was given whose tables fit the drive, and whatever
\* is written afterwards: nothing is written over by anything else, and nothing
\* is written past the end (Sector, CellOf, VPartition's indexes, Drive::write).
THEOREM IntactAlways == ASSUME TablesFit PROVE FormatSpec => []Intact
BY FormatInvAlways, FormatIntact, PTL

\* Numbers of the superblock that the code computes modulo 2^32 or cuts off.
LEMMA SuperFacts ==
  ASSUME TablesFit, opts \in Option, ValidSize
  PROVE  /\ Tfree(opts) = DataCount
         /\ Inodes(opts) \in Nat \ {0} /\ Ttinode(opts) \in Nat \ {0}
         /\ Ttinode(opts) <= Inodes(opts)
         /\ ShortList(opts)[Ttinode(opts) - 1] = 0
<1>1. PICK h \in Nat \ {0}, b \in Nat \ {0}, s \in Nat \ {0}, n \in Nat \ {0}, z \in Nat \ {0}, w \in Nat \ {0} :
        /\ h = opts.sec /\ b = opts.bsize /\ s = opts.size /\ n = opts.isize /\ z = InodeSize
        /\ w = Word /\ h * s < w
  BY OptionFacts
<1>2. PICK B \in Nat \ {0}, f \in Nat, m \in Nat :
        B = Bcoef(opts) /\ f = Fsize(opts) /\ m = BusyClusters(opts) /\ m <= f /\ f * B <= s - 1
  BY <1>1, Geometry
<1>3. f < w
  <2>1. f * 1 <= f * B
    <3>1. 1 * f <= B * f
      BY TimesMonotone
    <3> QED BY <3>1
  <2>2. s <= h * s
    <3>1. 1 * s <= h * s
      BY TimesMonotone
    <3> QED BY <3>1
  <2>3. f <= f * B /\ f * B \in Nat /\ h * s \in Nat
    BY <2>1
  <2> QED BY <1>1, <1>2, <2>2, <2>3
<1>4. Tfree(opts) = f - m /\ DataCount = f - m
  <2>1. (f - m) \in 0 .. (w - 1)
    BY <1>2, <1>3
  <2>2. (f - m) % w = f - m
    BY <2>1
  <2> QED BY <1>1, <1>2, <2>2 DEF Tfree, DataCount
<1>5. PICK p \in Nat, r \in 0 .. (z - 1) : p = b \div z /\ r = b % z /\ b = p * z + r
  <2>1. (b \div z) \in Nat /\ (b % z) \in 0 .. (z - 1) /\ b = (b \div z) * z + (b % z)
    BY Division
  <2> QED BY <2>1
<1>6. z <= b
  BY <1>1 DEF TablesFit, ValidSize
<1>7. p # 0
  BY <1>5, <1>6
<1>8. Inodes(opts) = p * n /\ p * n \in Nat /\ p * n # 0
  <2>1. Inodes(opts) = p * n
    BY <1>1, <1>5 DEF Inodes
  <2>2. 1 * n <= p * n /\ p * n \in Nat
    BY <1>7, TimesMonotone
  <2> QED BY <2>1, <2>2
<1>9. Ttinode(opts) \in Nat \ {0} /\ Ttinode(opts) <= Inodes(opts)
  BY <1>8, FormatAssumption DEF Ttinode
<1>10. PICK t \in Nat \ {0} : t = Ttinode(opts)
  BY <1>9
<1>11. ShortList(opts)[t - 1] = 0
  <2>1. t - 1 \in 0 .. (t - 1) /\ t - 1 - (t - 1) = 0
    OBVIOUS
  <2> QED BY <1>10, <2>1 DEF ShortList
<1> QED BY <1>4, <1>8, <1>9, <1>10, <1>11

LEMMA FormatLeavesSound == ASSUME TablesFit PROVE FormatInv => FormatSound
<1> SUFFICES ASSUME FormatInv, phase = "ready",
                    DOMAIN last = { <<"slot", k>> : k \in 0 .. (tfree - 1) }
             PROVE  /\ tfree = Tfree(opts)
                    /\ Free = BusyClusters(opts) .. (Fsize(opts) - 1)
                    /\ \A i \in 0 .. (Inodes(opts) - 1) :
                         \A a \in Place(<<"inode", i>>) : cell[a] = <<"zero">>
                    /\ \A a \in 0 .. (opts.sec - 1) : cell[a] = <<"super">>
                    /\ Ttinode(opts) <= Inodes(opts)
                    /\ ShortList(opts)[Ttinode(opts) - 1] = 0
  BY DEF FormatSound
<1>1. /\ opts \in Option /\ ValidSize /\ Super /\ Drive /\ Holds /\ Stacked /\ Ready
      /\ tfree \in Nat /\ DataCount \in Nat /\ tfree <= DataCount
  BY Mounted DEF FormatInv
<1>2. DOMAIN last = SlotThings(tfree)
  BY DEF SlotThings
<1>3. tfree = DataCount
  <2> SUFFICES ASSUME tfree < DataCount PROVE FALSE
    BY <1>1
  <2>1. tfree \in 0 .. (DataCount - 1)
    BY <1>1
  <2>2. <<"slot", tfree>> \in SlotThings(DataCount)
    BY <1>1, <2>1, SlotFacts
  <2>3. <<"slot", tfree>> \in SlotThings(tfree)
    BY <1>1, <1>2, <2>2 DEF Ready
  <2>4. tfree \in 0 .. (tfree - 1)
    BY <1>1, <2>3, SlotFacts
  <2> QED BY <1>1, <2>4
<1>4. Free = DataClusters
  <2>1. \A k \in 0 .. (tfree - 1) :
          \E c \in DataClusters : last[<<"slot", k>>] = <<"address", c>> /\ Listed(tfree)[k] = c
    BY <1>1, ListedIs
  <2>2. Free \subseteq DataClusters
    BY <2>1 DEF Free
  <2>3. DataClusters \subseteq Free
    <3> SUFFICES ASSUME NEW c \in DataClusters PROVE c \in Free
      OBVIOUS
    <3>1. <<"cluster", c>> \notin DOMAIN last
      BY <1>2 DEF SlotThings
    <3>2. PICK k \in 0 .. (tfree - 1) : last[<<"slot", k>>] = <<"address", c>>
      BY <1>1, <3>1 DEF Ready
    <3>3. PICK d \in DataClusters : last[<<"slot", k>>] = <<"address", d>> /\ Listed(tfree)[k] = d
      BY <2>1
    <3>4. d = c
      <4>1. <<"address", d>> = <<"address", c>>
        BY <3>2, <3>3
      <4> QED BY <4>1
    <3> QED BY <3>3, <3>4 DEF Free
  <2> QED BY <2>2, <2>3
<1>5. \A i \in 0 .. (Inodes(opts) - 1) : \A a \in Place(<<"inode", i>>) : cell[a] = <<"zero">>
  <2> SUFFICES ASSUME NEW i \in 0 .. (Inodes(opts) - 1), NEW a \in Place(<<"inode", i>>)
               PROVE  cell[a] = <<"zero">>
    OBVIOUS
  <2>1. PICK x : x = <<"inode", i>>
    OBVIOUS
  <2>2. x \in InodeThings /\ x \notin DOMAIN last
    BY <1>2, <2>1 DEF InodeThings, SlotThings
  <2> QED BY <1>1, <2>1, <2>2 DEF Holds
<1> QED BY <1>1, <1>3, <1>4, <1>5, SuperFacts DEF Super, DataClusters

\* format leaves what to_super_block wrote: the table lists each cluster of data
\* once and none of a table, s_tfree of them, every inode is zero, and the
\* first of the short list is the root.
THEOREM FormatSoundAlways == ASSUME TablesFit PROVE FormatSpec => []FormatSound
BY FormatInvAlways, FormatLeavesSound, PTL

=============================================================================
