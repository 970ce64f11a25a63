------------------------------ MODULE MCFileIO ------------------------------
(***************************************************************************)
(* Blocks of two bytes, three at most, and 4-bit sizes: reads and writes   *)
(* begin and end inside a block and across one, past the end of the file,  *)
(* past the last block of the drive, and, where Seeks allows it, next to   *)
(* the wrap.                                                               *)
(***************************************************************************)
EXTENDS TosFile

=============================================================================
