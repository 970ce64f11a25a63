--------------------------- MODULE MCClusterTable ---------------------------
(***************************************************************************)
(* A drive of five clusters, one of them for the tables: four data         *)
(* clusters are enough to empty the stack, to fill it again in any order   *)
(* and to crash inside every operation; the slot above the formatted ones  *)
(* holds any stale value.                                                  *)
(***************************************************************************)
EXTENDS ClusterTable

MCFSize == 5
MCBusy  == 1

=============================================================================
