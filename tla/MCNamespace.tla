----------------------------- MODULE MCNamespace -----------------------------
(***************************************************************************)
(* Two names of an ordinary length and one too long, paths of two          *)
(* components: a file and a catalog side by side, a file in a catalog, two *)
(* names of one file in the same catalog and in different ones.  toscli    *)
(* uploads a tree, an empty catalog beside a file, and single files, which *)
(* may meet anything under the same names.  The path a is a catalog in     *)
(* both directories, so that CwdIsCatalog has something to say of it.      *)
(***************************************************************************)
EXTENDS Namespace

MCPrograms == {{"open", "mkdir", "link", "unlink"}, {"open", "mkdir", "remove"}}

TreeHost == [kind  |-> (<<"a">> :> "catalog") @@ (<<"a", "b">> :> "file"),
             perms |-> {<<"a">>}]
FlatHost == [kind  |-> (<<"a">> :> "catalog") @@ (<<"b">> :> "file"),
             perms |-> {}]
MCHosts == {TreeHost, FlatHost}

=============================================================================
