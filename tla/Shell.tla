-------------------------------- MODULE Shell --------------------------------
(***************************************************************************)
(* The shell of toscli (shell.cpp): one command after another on the paths *)
(* below the current one.  A command that throws prints the message and    *)
(* the shell goes on with what the command left behind.  Most commands are *)
(* one step.  Removal goes on in Filesystem's steps, and the upload of a   *)
(* directory goes through the host's entries, a catalog's contents before  *)
(* its siblings, removing what it finds under the name of a file.          *)
(*                                                                         *)
(* touch of a catalog, which writes its text over the first entry, is left *)
(* out, and names are those Path keeps as they are.                        *)
(***************************************************************************)
EXTENDS Filesystem

CONSTANT Hosts          \* directories of the host, each [kind, perms]: what
                        \* each path in it is, and the paths .perms lists

ASSUME HostAssumption ==
  \A h \in Hosts :
    /\ DOMAIN h.kind \subseteq Path \ {<<>>} /\ h.perms \subseteq DOMAIN h.kind
    /\ \A p \in DOMAIN h.kind : h.kind[p] \in {"file", "catalog"}
    /\ \A p \in DOMAIN h.kind :
         Len(p) > 1 => Front(p) \in DOMAIN h.kind /\ h.kind[Front(p)] = "catalog"

NoHost == [kind |-> [p \in {} |-> "file"], perms |-> {}]

VARIABLES
  cwd,          \* the current path
  data,         \* is it, exactly, what the host's file has, or other content?
  perms,        \* are its permissions those a .perms gives, or the default?
  table,        \* uploadDirectory's static: the .perms of the first upload
  host,         \* the directory being uploaded
  frames,       \* its catalogs in progress, innermost first: names still to do
  put           \* the file about to be written, if any

jobVars   == <<host, frames, put>>
shellVars == <<cwd, data, perms, table, host, frames, put>>

ShellInit ==
  /\ cwd = <<>>
  /\ data = [i \in Inode |-> "other"] /\ perms = [i \in Inode |-> "default"]
  /\ table = NoHost
  /\ host = NoHost /\ frames = <<>> /\ put = <<>>

Prompt == Idle /\ frames = <<>> /\ put = <<>>

\* The file i gets the content d; every other inode that came or went has none.
Content(d, S) ==
  data' = [i \in Inode |-> IF i \in S THEN d
                           ELSE IF kind'[i] # kind[i] THEN "other" ELSE data[i]]
Permitted(S) ==
  perms' = [i \in Inode |-> IF i \in S THEN "listed"
                            ELSE IF kind'[i] # kind[i] THEN "default" ELSE perms[i]]

Made == { i \in Inode : kind[i] = "dead" /\ kind'[i] # "dead" }

\* A command that is a step of its own.
Command ==
  /\ Prompt
  /\ UNCHANGED <<jobVars, table>>

-----------------------------------------------------------------------------
\* ls and cd; exists, is_file and is_catalog of a command that throws

Ls(p) ==
  /\ Command /\ Query(p)
  /\ UNCHANGED <<cwd, data, perms>>

\* Slip: the path is taken before it is looked up.
CdBlindly(p) ==
  /\ Command /\ Query(p)
  /\ cwd' = p
  /\ UNCHANGED <<data, perms>>

Cd(p) ==
  /\ Command /\ Query(p)
  /\ Find(p) # None /\ kind[Find(p)] # "file"
  /\ cwd' = p
  /\ UNCHANGED <<data, perms>>

-----------------------------------------------------------------------------
\* mkdir, rm and rmdir

Mkdir(p) ==
  /\ Command /\ CreateCatalog(p)
  /\ Content("other", {}) /\ Permitted({})
  /\ UNCHANGED cwd

Rm(p) ==
  /\ Command /\ RemovePath(p)
  /\ UNCHANGED <<cwd, data, perms>>

Removing ==
  /\ RemoveChild \/ RemoveEntry
  /\ Content("other", {}) /\ Permitted({})
  /\ UNCHANGED <<cwd, table, jobVars>>

-----------------------------------------------------------------------------
\* cat, touch and download: open, which makes a file that is missing, and close.

\* The entry opens and is closed again; d is what the command leaves in it.
Reopened(p, d) ==
  /\ Opening(p)
  /\ Slot(p) \in Pairs
  /\ LET i == entries[Slot(p)] IN
     IF Openable(i)
     THEN data' = [data EXCEPT ![i] = d] /\ UNCHANGED <<open, held>>
     ELSE Leaves({Slot(p)[1]}) /\ UNCHANGED data
  /\ UNCHANGED <<kind, links, entries, perms>>

\* A new file with the content d, closed.
Stored(p, d) ==
  /\ \E i \in Fresh : Created(p, i)
  /\ LooksUpParent(p)
  /\ Content(d, Made)
  /\ UNCHANGED <<open, held>>

\* The drive is full: the file is there and stays open, with what fitted.
StoreThrows(p) ==
  /\ LooksUpParent(p)
  /\ \E i \in Fresh : Created(p, i) /\ Leaves({i})
  /\ Content("other", Made)

OpenThrows(p) == OpenNewThrows(p) /\ Content("other", {}) /\ Permitted({})

Cat(p) ==
  /\ Command
  /\ IsFile(p) /\ Reopened(p, data[Find(p)]) /\ tree' = Cached(p)
  /\ UNCHANGED cwd

Touch(p) ==
  /\ Command
  /\ \/ /\ IsFile(p) /\ Reopened(p, "other") /\ LooksUpParent(p)
     \/ (Stored(p, "other") \/ StoreThrows(p)) /\ Permitted({})
     \/ OpenThrows(p)
  /\ UNCHANGED cwd

Download(p) ==
  /\ Command
  /\ \/ Find(p) # None /\ Reopened(p, data[Find(p)]) /\ LooksUpParent(p)
     \/ Stored(p, "other") /\ Permitted({})
     \/ OpenThrows(p)
  /\ UNCHANGED cwd

-----------------------------------------------------------------------------
\* upload

\* exists and remove.
Replacing(p) == IF Find(p) # None THEN RemovePath(p) ELSE Query(p)

UploadFile(p) ==
  /\ Prompt
  /\ Replacing(p)
  /\ put' = p
  /\ UNCHANGED <<cwd, data, perms, table, host, frames>>

\* The names of the host's entries directly below p.
Below(h, p) == { Last(q) : q \in { r \in DOMAIN h.kind : Front(r) = p } }

Frame(h, p) == [at |-> p, rest |-> Below(h, p)]

\* The target of the command is not looked at: a directory goes to the root.
UploadDirectory(h) ==
  /\ Prompt
  /\ host' = h
  /\ frames' = <<Frame(h, <<>>)>>
  /\ table' = IF table = NoHost THEN h ELSE table
  /\ UNCHANGED <<vars, cwd, data, perms, put>>

\* The loop goes on with one of these.
Upcoming ==
  IF Idle /\ put = <<>> /\ frames # <<>>
  THEN { Append(Head(frames).at, n) : n \in Head(frames).rest } ELSE {}

\* Slip: after the first entry of a catalog the rest is forgotten.
LeftNone(p) == [frames EXCEPT ![1].rest = {}]

\* Slip: the entry is gone through again.
LeftAll(p) == frames

Left(p) == [frames EXCEPT ![1].rest = @ \ {Last(p)}]

\* The command throws: whatever is left of the upload is not done.
Aborts == frames' = <<>> /\ host' = NoHost

UploadCatalog(p) ==
  /\ p \in Upcoming /\ host.kind[p] = "catalog"
  /\ CreateCatalog(p)
  /\ IF entries' = entries THEN Aborts /\ Permitted({})
     ELSE /\ frames' = <<Frame(host, p)>> \o Left(p)
          /\ Permitted(IF p \in table.perms THEN Made ELSE {})
          /\ UNCHANGED host
  /\ Content("other", {})
  /\ UNCHANGED <<cwd, table, put>>

\* "Duplicate filename found", or the parent does not open.
UploadCatalogThrows(p) ==
  /\ p \in Upcoming /\ host.kind[p] = "catalog"
  /\ Query(p)
  /\ Find(p) # None \/ ~ParentOpens(p)
  /\ Aborts
  /\ UNCHANGED <<cwd, data, perms, table, put>>

UploadEntry(p) ==
  /\ p \in Upcoming /\ host.kind[p] = "file"
  /\ Replacing(p)
  /\ put' = p /\ frames' = Left(p)
  /\ UNCHANGED <<cwd, data, perms, table, host>>

\* open, write, close of the file to put, and its permissions.
Put ==
  /\ Idle /\ put # <<>>
  /\ Find(put) = None
  /\ Stored(put, "host")
  /\ Permitted(IF frames # <<>> /\ put \in table.perms THEN Made ELSE {})
  /\ put' = <<>>
  /\ UNCHANGED <<cwd, table, host, frames>>

\* The removal threw, which leaves the name in the tree; or open or write throws.
PutThrows ==
  /\ Idle /\ put # <<>>
  /\ \/ Query(put) /\ Find(put) # None /\ UNCHANGED <<data, perms>>
     \/ Query(put) /\ ~ParentOpens(put) /\ UNCHANGED <<data, perms>>
     \/ Find(put) = None /\ OpenThrows(put)
     \/ Find(put) = None /\ StoreThrows(put) /\ Permitted({})
  /\ put' = <<>> /\ Aborts
  /\ UNCHANGED <<cwd, table>>

\* A catalog is done; the last one ends the command.
Return ==
  /\ Idle /\ put = <<>> /\ frames # <<>>
  /\ Head(frames).rest = {}
  /\ frames' = Tail(frames)
  /\ host' = IF Len(frames) = 1 THEN NoHost ELSE host
  /\ UNCHANGED <<vars, cwd, data, perms, table, put>>

-----------------------------------------------------------------------------

\* What the command in progress does next.
Continue ==
  \/ Removing
  \/ \E p \in Upcoming : UploadCatalog(p)
  \/ \E p \in Upcoming : UploadCatalogThrows(p)
  \/ \E p \in Upcoming : UploadEntry(p)
  \/ Put
  \/ PutThrows
  \/ Return

\* The paths a command can name, from the current one down.  A bound: names
\* add() takes.  A full drive makes it throw all the same.
Arg == { p \in Path : /\ Len(p) > Len(cwd) /\ SubSeq(p, 1, Len(cwd)) = cwd
                      /\ \A n \in 1 .. Len(p) : p[n] \notin LongName }
Up  == IF cwd = <<>> THEN {} ELSE {Front(cwd)}          \* cd ..

-----------------------------------------------------------------------------

\* An upload that goes through to its end leaves the host's directory on the
\* drive: each entry is there, a file with the host's content whatever was there
\* before, and, in the first upload of a shell, with the permissions its
\* .perms lists.  (A later upload goes by the .perms of the first.  And not once a
\* removal has thrown: a name may then be left for an inode that is free, and
\* replacing that name takes away the file that got the inode meanwhile.)
UploadComplete ==
  Idle /\ ~torn /\ put = <<>> /\ Len(frames) = 1 /\ Head(frames).rest = {} =>
    \A p \in DOMAIN host.kind :
      LET i == Resolve(p) IN
      /\ i # None /\ kind[i] = host.kind[p]
      /\ kind[i] = "file" => data[i] = "host"
      /\ table = host => perms[i] = (IF p \in host.perms THEN "listed" ELSE "default")

\* The prompt is always in a catalog, since the commands name only what is below
\* it: the current path leads to one, unless an upload, which starts at the root,
\* put a file where a part of it was, or a removal threw and left its catalogs in
\* the cache.
CwdIsCatalog ==
  Prompt /\ open = {} /\ (\A h \in Hosts, n \in 1 .. Len(cwd) :
               LET p == SubSeq(cwd, 1, n) IN p \in DOMAIN h.kind => h.kind[p] = "catalog")
  => Resolve(cwd) # None /\ kind[Resolve(cwd)] = "catalog"

\* A command that removes a catalog or uploads a directory comes back to the
\* prompt, whatever it finds on the drive and wherever it throws: removal
\* relies on the catalogs being a tree.
CommandsEnd == ~Prompt ~> Prompt

=============================================================================
