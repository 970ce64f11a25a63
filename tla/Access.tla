-------------------------------- MODULE Access --------------------------------
(***************************************************************************)
(* Users and permissions: the attributes and owners of inodes (FileAttr,   *)
(* FilesystemCore::set_inode), TOS::can, and the calls of lib-os, lib-io   *)
(* and lib-proc that ask it before they use Filesystem.                    *)
(*                                                                         *)
(* can() asks by opening the path: one that is missing is created, one     *)
(* that is open makes the call throw with the parent's catalog left open.  *)
(* A call that throws for any other reason, "no permission" included, has  *)
(* only looked paths up, which is Look.  What files contain, and the       *)
(* positions of handles, are left out: see FileIO.                         *)
(***************************************************************************)
EXTENDS Filesystem

CONSTANTS
  Asked,        \* bound: the paths programs name
  Caller,       \* whom a program can run as: [user, real, group, groups]
  ChmodMode,    \* bound: the modes chmod is given, as decimal digits
  MaxStack      \* bound: programs that run one inside the other

System == [user |-> 0, real |-> 0, group |-> 0, groups |-> {}, handles |-> {}]

VARIABLES
  attr,         \* the nine permission bits of each inode that are set
  owner, group, \* i_uid, i_gid
  mode,         \* m_files: the mode a file is open in
  stack         \* m_running, innermost first

accessVars == <<attr, owner, group, mode, stack>>

ASSUME AccessAssumption ==
  /\ Asked \subseteq Path
  /\ \A c \in Caller : c.user \in Nat /\ c.real \in Nat /\ c.group \in Nat /\ c.groups \subseteq Nat
  /\ ChmodMode \subseteq Nat
  /\ MaxStack \in Nat \ {0}

-----------------------------------------------------------------------------
\* FileAttr

READ == 0   WRITE == 1   EXECUTE == 2

Bit(who, what) == (2 + 3 * (2 - who)) - what

FileDefault    == {8, 7, 5}                     \* FILE_ATTR_DEFAULT, rw-r-----
CatalogDefault == {8, 7, 6, 5, 3, 2, 0}         \* DIR_ATTR_DEFAULT, rwxr-xr-x

Digit(m, who) == (m \div 10 ^ (2 - who)) % 10

\* The bits chmod sets for three decimal digits, whatever each is.
Bits(m) == { Bit(x[1], x[2]) :
               x \in { y \in (0 .. 2) \X (0 .. 2) : (Digit(m, y[1]) \div 2 ^ (2 - y[2])) % 2 = 1 } }

AccessInit ==
  /\ attr  = [i \in Inode |-> IF i = Root THEN CatalogDefault ELSE {}]
  /\ owner = [i \in Inode |-> 0] /\ group = [i \in Inode |-> 0]
  /\ mode  = [i \in Inode |-> "none"]
  /\ stack = <<System>>

\* What inodes have that came into being or went.
Born(S, user, grp) ==
  LET made == { i \in Inode : kind[i] = "dead" /\ kind'[i] # "dead" }
      kept == { i \in Inode : kind[i] # "dead" /\ kind'[i] # "dead" } IN
  /\ attr'  = [i \in Inode |-> CASE i \in made /\ kind'[i] = "file" -> FileDefault
                                 [] i \in made /\ kind'[i] # "file" -> CatalogDefault
                                 [] i \in kept -> attr[i]
                                 [] OTHER -> {}]
  /\ owner' = [i \in Inode |-> IF i \in S \cup made THEN user ELSE IF i \in kept THEN owner[i] ELSE 0]
  /\ group' = [i \in Inode |-> IF i \in S \cup made THEN grp ELSE IF i \in kept THEN group[i] ELSE 0]

-----------------------------------------------------------------------------
\* TOS::can

Running == Head(stack)

\* The path opens, and this is the inode.
Answers(p) == IF p = <<>> THEN Openable(Root)
              ELSE ParentOpens(p) /\ Slot(p) \in Pairs /\ Openable(entries[Slot(p)])
Answer(p)  == IF p = <<>> THEN Root ELSE entries[Slot(p)]

\* Slip: a member of the group is asked for the bits of the owner.
WhoAny(c, i) == IF owner[i] = c.real \/ group[i] \in c.groups THEN 0 ELSE 2

Who(c, i) == IF owner[i] = c.real THEN 0 ELSE IF group[i] \in c.groups THEN 1 ELSE 2

Can(p, what) == Answers(p) /\ Bit(Who(Running, Answer(p)), what) \in attr[Answer(p)]

\* The call throws, or makes the file it asks about; t is the tree by then.
\* A file just made is the system's: who runs as it may go on, and looks it up.
AskSpoils(p, t, what) ==
  /\ p # <<>>
  /\ \/ /\ ~Answers(p)
        /\ ExistingOpened(p) \/ NotCreated(p)
        /\ tree' = t
     \/ \E i \in Fresh :
          /\ Created(p, i)
          /\ UNCHANGED <<open, held>>
          /\ tree' = IF Running.real = 0 /\ what = WRITE THEN With(t, p, i) ELSE t
  /\ Born({}, 0, 0)
  /\ UNCHANGED <<mode, stack>>

\* Lookups: exists, is_file, is_catalog, listdir, filedata, can, touch, and the
\* calls that are refused.
Look(p) == Query(p) /\ UNCHANGED accessVars

-----------------------------------------------------------------------------
\* io.open, io.close.  A mode stands for the one with "a" for "w" as well.

Reads(m)  == m \in {"r", "r+", "w+"}
Writes(m) == m \in {"w", "r+", "w+"}
Exist(m)  == m \in {"r", "r+"}

\* Slip: the caller's real user becomes the owner.
TakesReal(i) == Born({i}, Running.real, Running.group)

\* fs.user and fs.group
Takes(i) == Born({i}, Running.user, Running.group)

IoOpen(p, m) ==
  /\ p # <<>>
  /\ Writes(m) => Can(Parent(p), WRITE)
  /\ Find(p) # None => (Reads(m) => Can(p, READ)) /\ (Writes(m) => Can(p, WRITE))
  /\ Exist(m) => IsFile(p)
  /\ tree' = Cached(p)
  /\ \E i \in Inode :
       /\ \/ ExistingOpened(p) /\ Openable(i) /\ i = entries[Slot(p)]
          \/ i \in Fresh /\ Created(p, i) /\ Gives(i)
       /\ Takes(i)
       /\ mode' = [mode EXCEPT ![i] = m]
       /\ stack' = [stack EXCEPT ![1].handles = @ \cup {i}]

IoOpenSpoils(p, m) ==
  /\ p # <<>>
  /\ \/ Writes(m) /\ Parent(p) # <<>> /\ AskSpoils(Parent(p), Cached(Parent(Parent(p))), WRITE)
     \/ /\ Writes(m) => Can(Parent(p), WRITE)
        /\ Find(p) # None /\ AskSpoils(p, Cached(p), READ)
     \/ /\ Writes(m) /\ ~Exist(m) /\ Can(Parent(p), WRITE)
        /\ Find(p) = None /\ NotCreated(p) /\ tree' = Cached(p)
        /\ Born({}, 0, 0) /\ UNCHANGED <<mode, stack>>

IoClose(i) ==
  /\ i \in Running.handles
  /\ Close(i)
  /\ mode' = [mode EXCEPT ![i] = "none"]
  /\ stack' = [stack EXCEPT ![1].handles = @ \ {i}]
  /\ UNCHANGED <<attr, owner, group>>

-----------------------------------------------------------------------------
\* os.mkdir, os.rm, os.link

OsMkdir(p) ==
  /\ p # <<>> /\ Can(Parent(p), WRITE)
  /\ CreateCatalog(p)
  /\ Born({}, Running.user, Running.group)
  /\ UNCHANGED <<mode, stack>>

OsMkdirSpoils(p) ==
  /\ p # <<>> /\ Find(p) = None
  /\ AskSpoils(Parent(p), Cached(p), WRITE)

OsRm(p) ==
  /\ p # <<>> /\ Can(Parent(p), WRITE)
  /\ Unlink(p) \/ UnlinkThrows(p)
  /\ Born({}, 0, 0)
  /\ UNCHANGED <<mode, stack>>

OsRmSpoils(p) ==
  /\ p # <<>> /\ Find(p) # None
  /\ AskSpoils(Parent(p), Cached(p), WRITE)

\* Slip: the two catalogs change places.
LinkAsksSwapped(p, q) == Can(Parent(q), READ) /\ Can(Parent(p), WRITE)

LinkAsks(p, q) == Can(Parent(p), READ) /\ Can(Parent(q), WRITE)

OsLink(p, q) ==
  /\ p # <<>> /\ q # <<>> /\ LinkAsks(p, q)
  /\ Link(p, q) \/ LinkThrows(p, q)
  /\ UNCHANGED accessVars

OsLinkSpoils(p, q) ==
  /\ p # <<>> /\ q # <<>> /\ IsFile(p) /\ Find(q) = None
  /\ \/ AskSpoils(Parent(p), CachedToo(p, q), READ)
     \/ Can(Parent(p), READ) /\ AskSpoils(Parent(q), CachedToo(p, q), WRITE)

-----------------------------------------------------------------------------
\* os.chmod, os.chown: the inode is opened, changed and closed.

Mine(p) == Find(p) # None /\ Running.real \in {0, owner[Find(p)]}

\* Slip: set_inode on the record of an inode that is open already.
ChangesOpen(p) == Mine(p)

Changes(p) == Mine(p) /\ Answers(p)

OsChmod(p, m) ==
  /\ Changes(p) /\ Idle
  /\ attr' = [attr EXCEPT ![Find(p)] = Bits(m)]
  /\ tree' = Cached(p)
  /\ UNCHANGED <<kind, links, entries, open, held, work, owner, group, mode, stack>>

\* With or without a group.
OsChown(p, user, grp) ==
  /\ Changes(p) /\ Idle
  /\ owner' = [owner EXCEPT ![Find(p)] = user]
  /\ group' = [group EXCEPT ![Find(p)] = grp]
  /\ tree' = Cached(p)
  /\ UNCHANGED <<kind, links, entries, open, held, work, attr, mode, stack>>

OsChangeSpoils(p) == Mine(p) /\ p \in DOMAIN tree /\ AskSpoils(p, Cached(p), READ)

-----------------------------------------------------------------------------
\* A program runs another: proc.suspawn, proc.group, proc.groups and execute,
\* as proc-util calls them, for whom it likes.

Run(p, c) ==
  /\ Len(stack) < MaxStack
  /\ p # <<>> /\ IsFile(p) /\ Can(p, EXECUTE)
  /\ stack' = <<[user |-> c.user, real |-> c.real, group |-> c.group,
                 groups |-> c.groups, handles |-> {}]>> \o stack
  /\ Query(p)
  /\ UNCHANGED <<attr, owner, group, mode>>

RunSpoils(p) == AskSpoils(p, Cached(Parent(p)), EXECUTE)

\* kill closes what the program left open.
Exit ==
  /\ Len(stack) > 1 /\ Idle
  /\ LET left == Running.handles IN
     /\ open' = open \ left /\ held' = held \ left
     /\ mode' = [i \in Inode |-> IF i \in left THEN "none" ELSE mode[i]]
  /\ stack' = Tail(stack)
  /\ UNCHANGED <<kind, links, entries, tree, work, attr, owner, group>>

-----------------------------------------------------------------------------

The(call) == call /\ Tearing /\ UNCHANGED calls

Next ==
  \/ \E p \in Asked : The(Look(p))
  \/ \E p \in Asked, m \in {"r", "w", "r+", "w+"} : The(IoOpen(p, m))
  \/ \E p \in Asked, m \in {"r", "w", "r+", "w+"} : The(IoOpenSpoils(p, m))
  \/ \E i \in Running.handles : The(IoClose(i))
  \/ \E p \in Asked : The(OsMkdir(p))
  \/ \E p \in Asked : The(OsMkdirSpoils(p))
  \/ \E p \in Asked : The(OsRm(p))
  \/ \E p \in Asked : The(OsRmSpoils(p))
  \/ \E p, q \in Asked : The(OsLink(p, q))
  \/ \E p, q \in Asked : The(OsLinkSpoils(p, q))
  \/ \E p \in Asked, m \in ChmodMode : The(OsChmod(p, m))
  \/ \E p \in Asked, c \in Caller : The(OsChown(p, c.user, c.group))
  \/ \E p \in Asked : The(OsChangeSpoils(p))
  \/ \E p \in Asked, c \in Caller : The(Run(p, c))
  \/ \E p \in Asked : The(RunSpoils(p))
  \/ The(Exit)

AccessVars == <<vars, accessVars>>

SystemInit == Init /\ AccessInit

Spec == SystemInit /\ [][Next]_AccessVars

-----------------------------------------------------------------------------

\* The bits of attr.cpp, BIT_OWNER_R to BIT_WORLD_X.
Triple(c, i) ==
  CASE owner[i] = c.real                              -> <<8, 7, 6>>
    [] owner[i] # c.real /\ group[i] \in c.groups     -> <<5, 4, 3>>
    [] owner[i] # c.real /\ group[i] \notin c.groups  -> <<2, 1, 0>>

May(c, i, what) == Triple(c, i)[what + 1] \in attr[i]

\* A catalog gains or loses a name only under a program that may write to it,
\* whichever call does it and whatever the paths meant when it was asked.  The
\* exception is the file can() makes for a path that is missing: it belongs to
\* the system, and nobody holds it.
NamesNeedWrite ==
  [][\A x \in Pairs \cup DOMAIN entries' :
       (x \in Pairs) # (x \in DOMAIN entries') =>
         \/ May(Running, x[1], WRITE)
         \/ /\ x \notin Pairs /\ entries'[x] \notin open'
            /\ kind[entries'[x]] = "dead" /\ kind'[entries'[x]] = "file"]_AccessVars

\* A program is given a file that was there only if its real user may do with
\* that file what the mode allows.
OpenedWithRights ==
  [][\A i \in held' \ held :
       kind[i] # "dead" =>
         /\ Reads(mode'[i])  => May(Running, i, READ)
         /\ Writes(mode'[i]) => May(Running, i, WRITE)]_AccessVars

\* A file that is open belongs to the user of the program that has it, however
\* many programs of other users run inside that one, and whatever they change.
HolderOwns ==
  \A n \in 1 .. Len(stack) : \A i \in stack[n].handles :
    /\ owner[i] = stack[n].user
    /\ mode[i] # "none"

=============================================================================
