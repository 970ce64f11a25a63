------------------------------- MODULE MCAccess -------------------------------
(***************************************************************************)
(* The system, an ordinary user and a program that acts as the system for  *)
(* that user; a file beside a catalog and a file in the catalog.           *)
(***************************************************************************)
EXTENDS Access

MCAsked    == {<<"a">>, <<"b">>, <<"a", "b">>}
MCPrograms == {{"open", "mkdir", "link", "unlink"}}
MCCaller   ==
  { [user |-> 0, real |-> 0, group |-> 0, groups |-> {0}],
    [user |-> 1, real |-> 1, group |-> 1, groups |-> {0, 1}],
    [user |-> 1, real |-> 0, group |-> 1, groups |-> {}] }

=============================================================================
