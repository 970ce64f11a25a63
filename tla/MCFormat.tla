------------------------------ MODULE MCFormat ------------------------------
(***************************************************************************)
(* Drives of one or two sectors to a cluster, with sectors left over at    *)
(* the end and without; tables that end within a cluster and at its end;   *)
(* a sector that is no divisor of the cluster.  MCOptions leaves out an    *)
(* inode table that does not fit the drive: format does not look.          *)
(***************************************************************************)
EXTENDS Format

Options(sizes) ==
  { [sec |-> s, size |-> n, bsize |-> b, isize |-> i, asked |-> 0] :
      s \in {2, 3}, n \in sizes, b \in {2, 4}, i \in {1, 2} }

MCOptions ==
  { o \in Options(3 .. 10) :
      /\ o.sec <= o.bsize
      /\ BusyClusters(o) + 1 <= Fsize(o) /\ Fsize(o) <= BusyClusters(o) + 2 }

\* -i 6 with clusters of 4 cells, that is, 2 inodes each.
MCAsked ==
  { [sec |-> 2, size |-> 13, bsize |-> 4, isize |-> InodeClusters(6, 4), asked |-> 6] }

=============================================================================
