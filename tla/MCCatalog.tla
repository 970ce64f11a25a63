----------------------------- MODULE MCCatalog ------------------------------
(***************************************************************************)
(* Five names in clusters of two entries: an entry is inserted or taken    *)
(* out before, between and after others, with and without a change of the  *)
(* number of clusters; two inodes, so that several names are of one inode. *)
(* A new cluster happens to hold an entry that could be one of ours.       *)
(***************************************************************************)
EXTENDS Catalog

MCStale == Entry(2, 1)

=============================================================================
