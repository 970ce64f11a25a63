---------------------------- MODULE MCProcesses -----------------------------
(***************************************************************************)
(* Three files, each of which can be run, opened or removed, and three     *)
(* pids, so that they collide.  With Limit 5 four processes nest, and up   *)
(* to seven are on the stack when they were spawned early or left there.   *)
(***************************************************************************)
EXTENDS Processes, TLC

\* Files and pids are used only by equality.
Symmetry == Permutations(File) \cup Permutations(Pid)

=============================================================================
