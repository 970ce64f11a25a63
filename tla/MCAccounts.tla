------------------------------ MODULE MCAccounts ------------------------------
(***************************************************************************)
(* Three names for users and groups and two ids: enough for a default id   *)
(* that is taken, for the uid of a removed user to be given to another,    *)
(* and for a name of one user to be given again with another uid.  The two *)
(* names that are not root's may be swapped.                               *)
(***************************************************************************)
EXTENDS Accounts, TLC

CONSTANTS root, anna, bert

Swap == Permutations({anna, bert})

=============================================================================
