---------------------------- MODULE MCFileblock -----------------------------
(***************************************************************************)
(* Two addresses in a cluster and one direct address: a file of 3 clusters *)
(* fills level 1, one of 5 fills the first child of level 2, one of 6      *)
(* enters the second child.  A small neighbour takes clusters the large    *)
(* file gives back, and gives them back in its turn.                       *)
(***************************************************************************)
EXTENDS Fileblock

MCMaxSize     == [f |-> 5, g |-> 1]
MCReentrySize == [f |-> 6]

\* The lowest or the highest free cluster, so that clusters come back in
\* other roles and in other orders than they went.
MCOffer(S) ==
  { c \in S : (\A d \in S : c <= d) \/ (\A d \in S : d <= c) }

=============================================================================
