------------------------------- MODULE Format -------------------------------
(***************************************************************************)
(* The drive as format lays it out, and the arithmetic that finds things   *)
(* on it again: Drive, VirtualDrive, VPartition and INodeTable, format and *)
(* to_super_block of FilesystemCore, and the options of toscli's format.   *)
(*                                                                         *)
(* Sizes are in cells, of the size of an address of a cluster.  A drive is *)
(* a row of sectors; clusters begin behind the first sector, which holds   *)
(* the superblock: first those of the inode table, then those of the table *)
(* of free clusters, then data.  A read or write past the end of the drive *)
(* only sets m_fail, which nobody looks at.                                *)
(***************************************************************************)
EXTENDS Integers, FiniteSets

CONSTANTS InodeSize,    \* INODE_SIZE
          TableSize,    \* INODE_TABLE_SIZE
          Word,         \* 2^32
          Option,       \* of the drive: sec, size; of format: bsize, isize, and
                        \* asked, what -i said (0: --isectors was given)
          Version       \* what callers write

ASSUME FormatAssumption ==
  /\ InodeSize \in Nat \ {0} /\ TableSize \in Nat \ {0} /\ Word \in Nat \ {0}
  /\ \A o \in Option :
       /\ {o.sec, o.size, o.bsize, o.isize} \subseteq Nat \ {0}
       /\ o.asked \in Nat
       /\ o.sec * o.size < Word

VARIABLES
  opts,         \* the options of the drive and of format
  cell,         \* the drive behind its header
  pos,          \* the position in the file, in sectors
  phase,        \* "blank", "zeroing", "pushing", "ready" or "refused"
  done,         \* clusters zeroed
  tfree,        \* ClusterTable's m_tfree
  missed,       \* Drive's m_fail
  last          \* history: what was last written to each thing since format

formatVars == <<opts, cell, pos, phase, done, tfree, missed, last>>

-----------------------------------------------------------------------------
\* to_super_block.

Ceil(a, b)  == (a + b - 1) \div b
Bcoef(o)    == o.bsize \div o.sec

Fsize(o)    == (o.size - 1) \div Bcoef(o)               \* s_fsize
Asize(o)    == Ceil(Fsize(o), o.bsize)                  \* s_asize
BusyClusters(o) == o.isize + Asize(o)
Inodes(o)   == (o.bsize \div InodeSize) * o.isize       \* s_tinode
Tfree(o)    == (Fsize(o) - BusyClusters(o)) % Word      \* s_tfree
Ttinode(o)  == IF Inodes(o) < TableSize THEN Inodes(o) ELSE TableSize
ShortList(o) == [k \in 0 .. (Ttinode(o) - 1) |-> Ttinode(o) - 1 - k]  \* s_inode

\* fs_format_set_inodes: the clusters for -i inodes.
InodeClusters(asked, bsize) == Ceil(asked, bsize)

-----------------------------------------------------------------------------
\* Where things are.

\* Slip: the sector of the superblock is forgotten.
SectorFromStart(c) == c * Bcoef(opts)

\* VirtualDrive::seek.
Sector(c) == c * Bcoef(opts) + 1

\* VPartition: the cluster of record k of a table at offset, and its cell.
ClusterIndex(k, size, offset) == k \div (opts.bsize \div size) + offset
RelativeIndex(k, size) == (k % (opts.bsize \div size)) * size

CellOf(c, rel) == Sector(c) * opts.sec + rel

Place(x) ==
  CASE x[1] = "inode" ->
         LET at == CellOf(ClusterIndex(x[2], InodeSize, 0), RelativeIndex(x[2], InodeSize))
         IN at .. (at + InodeSize - 1)
    [] x[1] = "slot" ->
         {CellOf(ClusterIndex(x[2], 1, opts.isize), RelativeIndex(x[2], 1))}
    [] x[1] = "cluster" ->
         CellOf(x[2], 0) .. (CellOf(x[2], 0) + opts.bsize - 1)

\* The drive after a write of v to the cells S; what is past its end is lost.
Written(S, v) ==
  /\ cell' = [a \in DOMAIN cell |-> IF a \in S THEN v ELSE cell[a]]
  /\ missed' = (missed \/ ~(S \subseteq DOMAIN cell))

Put(x, v) ==
  /\ Written(Place(x), v)
  /\ last' = [y \in DOMAIN last \cup {x} |-> IF y = x THEN v ELSE last[y]]

\* The addresses in the table of free clusters.
Listed(n) == [k \in 0 .. (n - 1) |-> cell[CHOOSE a \in Place(<<"slot", k>>) : TRUE][2]]
Free == { Listed(tfree)[k] : k \in 0 .. (tfree - 1) }

-----------------------------------------------------------------------------

\* A drive that may have been used before.
FormatInit ==
  /\ opts \in Option
  /\ cell = [a \in 0 .. (opts.sec * opts.size - 1) |-> <<"old">>]
  /\ pos = 0
  /\ phase = "blank"
  /\ done = 0 /\ tfree = 0
  /\ missed = FALSE
  /\ last = [x \in {} |-> {}]

ValidSize == opts.bsize % opts.sec = 0 /\ opts.sec <= opts.bsize

\* "Invalid disk block size."
Refuse ==
  /\ phase = "blank"
  /\ ~ValidSize
  /\ phase' = "refused"
  /\ UNCHANGED <<opts, cell, pos, done, tfree, missed, last>>

\* write_superblock leaves the position behind the first sector.
WriteSuper ==
  /\ phase = "blank"
  /\ ValidSize
  /\ Written(0 .. (opts.sec - 1), <<"super">>)
  /\ pos' = 1
  /\ phase' = "zeroing"
  /\ UNCHANGED <<opts, done, tfree, last>>

\* The inode table is zeroed wherever the position is: nobody seeks.
ZeroCluster ==
  /\ phase = "zeroing"
  /\ done < opts.isize
  /\ Written((pos * opts.sec) .. (pos * opts.sec + opts.bsize - 1), <<"zero">>)
  /\ pos' = pos + Bcoef(opts)
  /\ done' = done + 1
  /\ phase' = IF done' = opts.isize THEN "pushing" ELSE "zeroing"
  /\ UNCHANGED <<opts, tfree, last>>

\* Slip: the tables are pushed with the data.
LastPushedAll == 0

\* The lowest cluster that is free.
LastPushed == BusyClusters(opts)

\* The clusters of data, from the last.
PushFree ==
  /\ phase = "pushing"
  /\ LET c == Fsize(opts) - 1 - tfree
     IN IF c >= LastPushed
        THEN /\ Put(<<"slot", tfree>>, <<"address", c>>)
             /\ tfree' = tfree + 1
             /\ UNCHANGED phase
        ELSE phase' = "ready" /\ UNCHANGED <<cell, tfree, missed, last>>
  /\ UNCHANGED <<opts, pos, done>>

\* INodeTable::write.
WriteInode(i, v) ==
  /\ phase = "ready"
  /\ i < Inodes(opts)
  /\ Put(<<"inode", i>>, <<"inode", v>>)
  /\ UNCHANGED <<opts, pos, phase, done, tfree>>

\* A cluster is taken off the table and written as a whole.
Take(v) ==
  /\ phase = "ready"
  /\ tfree > 0
  /\ Put(<<"cluster", Listed(tfree)[tfree - 1]>>, <<"data", v>>)
  /\ tfree' = tfree - 1
  /\ UNCHANGED <<opts, pos, phase, done>>

\* One that was taken is pushed again; what it held is of no interest now.
Give(c) ==
  /\ phase = "ready"
  /\ c \notin Free
  /\ Written(Place(<<"slot", tfree>>), <<"address", c>>)
  /\ last' = [x \in (DOMAIN last \ {<<"cluster", c>>}) \cup {<<"slot", tfree>>} |->
                IF x = <<"slot", tfree>> THEN <<"address", c>> ELSE last[x]]
  /\ tfree' = tfree + 1
  /\ UNCHANGED <<opts, pos, phase, done>>

FormatNext ==
  \/ Refuse
  \/ WriteSuper
  \/ ZeroCluster
  \/ PushFree
  \/ \E i \in 0 .. (Inodes(opts) - 1), v \in Version : WriteInode(i, v)
  \/ \E v \in Version : Take(v)
  \/ \E c \in BusyClusters(opts) .. (Fsize(opts) - 1) : Give(c)

FormatSpec == FormatInit /\ [][FormatNext]_formatVars

-----------------------------------------------------------------------------

FormatTypeOK ==
  /\ opts \in Option
  /\ DOMAIN cell = 0 .. (opts.sec * opts.size - 1)
  /\ phase \in {"blank", "zeroing", "pushing", "ready", "refused"}
  /\ done \in 0 .. opts.isize
  /\ tfree \in 0 .. Fsize(opts)
  /\ pos \in 0 .. opts.size

\* format leaves what its superblock says: s_tfree clusters listed, each of
\* the data once and none of a table; every inode zero, which is a free one;
\* and a short list of distinct inodes whose first to go, 0, becomes the root.
FormatSound ==
  phase = "ready" /\ DOMAIN last = { <<"slot", k>> : k \in 0 .. (tfree - 1) } =>
    /\ tfree = Tfree(opts)
    /\ Free = BusyClusters(opts) .. (Fsize(opts) - 1)
    /\ \A i \in 0 .. (Inodes(opts) - 1) : \A a \in Place(<<"inode", i>>) : cell[a] = <<"zero">>
    /\ \A a \in 0 .. (opts.sec - 1) : cell[a] = <<"super">>
    /\ Ttinode(opts) <= Inodes(opts)
    /\ ShortList(opts)[Ttinode(opts) - 1] = 0

\* Nothing written to an inode, a slot of the table or a cluster in use is
\* ever written over by anything else, nor is the superblock; and nothing is
\* read or written past the end of the drive, where it would be lost.
Intact ==
  /\ ~missed
  /\ \A x \in DOMAIN last : \A a \in Place(x) : cell[a] = last[x]
  /\ phase \notin {"blank", "refused"} => \A a \in 0 .. (opts.sec - 1) : cell[a] = <<"super">>

\* "At least the specified number will be created, but there could be more."
AtLeastAsAsked == phase = "ready" => Inodes(opts) >= opts.asked

=============================================================================
