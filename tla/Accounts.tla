------------------------------- MODULE Accounts -------------------------------
(***************************************************************************)
(* The users and groups of TOS: /etc/passwd and /etc/group, the programs   *)
(* that change them (useradd, userdel, groupadd, groupdel, adduser,        *)
(* deluser, passwd) and login, which lets users in.                        *)
(*                                                                         *)
(* A program loads what it needs of them when it starts, into tables of    *)
(* its own (users.lua, groups.lua); login runs for as long as TOS does,    *)
(* and loads the users again when a session ends.  One program runs at a   *)
(* time, so that a command is one step; the order of records, which a      *)
(* command that writes a file anew changes, tells nothing apart.           *)
(*                                                                         *)
(* A record of a user is 128 bytes if its home has at most 30: add looks   *)
(* at the length of the name where it means the home, and rpad does not    *)
(* cut.  With one longer home the file is no multiple of 128 bytes, and    *)
(* nothing loads it again.  (A home with a multiple of 128 bytes too many  *)
(* would be read as other records: such homes are left out.)               *)
(***************************************************************************)
EXTENDS Integers, FiniteSets

CONSTANTS
  Name,         \* of users and groups, of 4 to 30 characters
  Password,
  MaxId,        \* the highest uid and gid, 65535 in the code
  RootName, RootPassword        \* of the user install.lua adds

ASSUME AccountsAssumption ==
  /\ MaxId \in Nat
  /\ RootName \in Name /\ RootPassword \in Password

Id    == 0 .. MaxId
NoOne == -1
RootUid == 0

Home  == {"short", "long"}      \* up to 30 bytes, or more

User  == [uid : Id, name : Name, password : Password, home : Home]
Group == [gid : Id, name : Name, usize : Nat, users : SUBSET Id]

VARIABLES
  passwd,       \* the records of /etc/passwd
  group,        \* the records of /etc/group
  table,        \* login's UsersTable: its data and names
  session,      \* the uid that is logged in, or NoOne
  up            \* login runs

accountsVars == <<passwd, group, table, session, up>>

\* UsersTable:load: the records of the file replace those of the table that have
\* their uid or name; what the file no longer has stays.  (RecordsUnique: it
\* does not matter which record comes last.)
Of(users, uid)    == CHOOSE r \in users : r.uid = uid
Named(users, name) == CHOOSE r \in users : r.name = name

Uids(users)  == { r.uid : r \in users }
Names(records) == { r.name : r \in records }
Gids(groups) == { g.gid : g \in groups }

\* "users data is corrupted" otherwise, for every program that requires users.lua.
Readable == \A r \in passwd : r.home = "short"

NewTable == [data |-> [u \in {} |-> Of({}, u)], names |-> [n \in {} |-> RootUid]]

Load(t, users) ==
  [data  |-> [u \in DOMAIN t.data \cup Uids(users) |->
                IF u \in Uids(users) THEN Of(users, u) ELSE t.data[u]],
   names |-> [n \in DOMAIN t.names \cup Names(users) |->
                IF n \in Names(users) THEN Named(users, n).uid ELSE t.names[n]]]

\* What install.lua leaves.
RootUser  == [uid |-> RootUid, name |-> RootName, password |-> RootPassword, home |-> "short"]
RootGroup == [gid |-> 0, name |-> RootName, usize |-> 1, users |-> {RootUid}]

AccountsInit ==
  /\ passwd = {RootUser}
  /\ group = {RootGroup}
  /\ table = Load(NewTable, passwd)
  /\ session = NoOne
  /\ up = TRUE

-----------------------------------------------------------------------------
\* login.lua

Prompt == up /\ session = NoOne

\* Slip: the shell opens for a uid it does not find.
ShellOpensBlindly(uid) == TRUE

\* The shell starts with the home of the user it runs for.
ShellOpens(uid) == Readable /\ uid \in Uids(passwd)

\* The shell that does not open takes login down with it.
Login(name, password) ==
  /\ Prompt
  /\ name \in DOMAIN table.names
  /\ table.names[name] \in DOMAIN table.data
  /\ LET uid == table.names[name] IN
     /\ table.data[uid].password = password
     /\ IF ShellOpens(uid) THEN session' = uid /\ UNCHANGED up
                           ELSE up' = FALSE /\ UNCHANGED session
  /\ UNCHANGED <<passwd, group, table>>

\* Slip: the users are not loaded again.
ReloadedNot == table

Reloaded == Load(table, passwd)

\* Users that cannot be loaded end login, and TOS with it.
Logout ==
  /\ up /\ session # NoOne
  /\ session' = NoOne
  /\ up' = Readable
  /\ table' = IF Readable THEN Reloaded ELSE table
  /\ UNCHANGED <<passwd, group>>

\* TOS is started, after it ended or was stopped between two commands.  It gets
\* as far as login if the users can be loaded.
Boot ==
  /\ up' = Readable /\ session' = NoOne
  /\ table' = IF Readable THEN Load(NewTable, passwd) ELSE NewTable
  /\ UNCHANGED <<passwd, group>>

-----------------------------------------------------------------------------
\* The commands.  Only the user 0 may write in /etc (.perms); a user with
\* another uid is refused, the own password included.  groupadd and groupdel
\* do without the users.

Root == up /\ session = RootUid

RootWithUsers == Root /\ Readable

Default == NoOne        \* no uid or gid is given

\* add: the number given, or how many records there are.
Given(id, records) == IF id = Default THEN Cardinality(records) ELSE id

\* Slip: only a number that is given is looked up.
FreeIfGiven(id, given, used) == given = Default \/ id \notin used

Free(id, given, used) == id \in Id /\ id \notin used

NewGroup(gid, name, users) ==
  [gid |-> gid, name |-> name, usize |-> Cardinality(users), users |-> users]

Groupadd(name, given) ==
  LET gid == Given(given, group) IN
  /\ Root
  /\ name \notin Names(group)
  /\ Free(gid, given, Gids(group))
  /\ group' = group \cup {NewGroup(gid, name, {})}
  /\ UNCHANGED <<passwd, table, session, up>>

\* The group, the user, and the user into the group.
Useradd(name, given, password, home) ==
  LET gid == Given(Default, group)
      uid == Given(given, passwd) IN
  /\ RootWithUsers
  /\ name \notin Names(passwd) \cup Names(group)
  /\ Free(gid, Default, Gids(group)) /\ Free(uid, given, Uids(passwd))
  /\ group' = group \cup {NewGroup(gid, name, {uid})}
  /\ passwd' = passwd \cup
                 {[uid |-> uid, name |-> name, password |-> password, home |-> home]}
  /\ UNCHANGED <<table, session, up>>

\* users:add refuses a length, the home or the uid once the group is there: the
\* default uid, for one, is the last user's after another was removed.
UseraddThrows(name, given) ==
  LET gid == Given(Default, group) IN
  /\ RootWithUsers
  /\ name \notin Names(passwd) \cup Names(group)
  /\ given \notin Uids(passwd)
  /\ Free(gid, Default, Gids(group))
  /\ group' = group \cup {NewGroup(gid, name, {})}
  /\ UNCHANGED <<passwd, table, session, up>>

Userdel(uid) ==
  /\ RootWithUsers
  /\ uid \in Uids(passwd)
  /\ passwd' = { r \in passwd : r.uid # uid }
  /\ UNCHANGED <<group, table, session, up>>

Groupdel(gid) ==
  /\ Root
  /\ gid \in Gids(group)
  /\ group' = { g \in group : g.gid # gid }
  /\ UNCHANGED <<passwd, table, session, up>>

\* adduser and deluser take the user for the group as well: a number is both
\* ids, whether or not there is such a user, and a name is that of both.
SameArgument(uid, g) ==
  \/ uid = g.gid
  \/ \E r \in passwd : r.uid = uid /\ r.name = g.name

NewMember(g, uid) == uid \notin g.users

Adduser(g, uid) ==
  /\ RootWithUsers
  /\ g \in group /\ SameArgument(uid, g)
  /\ NewMember(g, uid)
  /\ group' = (group \ {g}) \cup
                {[g EXCEPT !.usize = g.usize + 1, !.users = g.users \cup {uid}]}
  /\ UNCHANGED <<passwd, table, session, up>>

\* table_remove's parameter hides the library it calls: it throws before the
\* file is written.
Deluser(g, uid) ==
  /\ RootWithUsers
  /\ g \in group /\ SameArgument(uid, g)
  /\ uid \in g.users
  /\ UNCHANGED accountsVars

\* A name nobody has stands for the user who asks.
Passwd(uid, password) ==
  /\ RootWithUsers
  /\ uid \in Uids(passwd)
  /\ passwd' = { IF r.uid = uid THEN [r EXCEPT !.password = password] ELSE r : r \in passwd }
  /\ UNCHANGED <<group, table, session, up>>

-----------------------------------------------------------------------------

AccountsNext ==
  \/ \E n \in Name, p \in Password : Login(n, p)
  \/ Logout
  \/ Boot
  \/ \E n \in Name, i \in Id \cup {Default} : Groupadd(n, i)
  \/ \E n \in Name, i \in Id \cup {Default}, p \in Password, h \in Home : Useradd(n, i, p, h)
  \/ \E n \in Name, i \in Id \cup {Default} : UseraddThrows(n, i)
  \/ \E i \in Uids(passwd) : Userdel(i)
  \/ \E i \in Gids(group) : Groupdel(i)
  \/ \E g \in group, i \in Id : Adduser(g, i)
  \/ \E g \in group, i \in Id : Deluser(g, i)
  \/ \E i \in Uids(passwd), p \in Password : Passwd(i, p)

AccountsSpec == AccountsInit /\ [][AccountsNext]_accountsVars

-----------------------------------------------------------------------------

AccountsTypeOK ==
  /\ passwd \in SUBSET User
  /\ group \in SUBSET Group
  /\ table \in [data : UNION { [D -> User] : D \in SUBSET Id },
               names : UNION { [D -> Id] : D \in SUBSET Name }]
  /\ session \in Id \cup {NoOne}
  /\ up \in BOOLEAN

\* No two users have a uid or a name in common, nor two groups a gid or a name,
\* however the defaults, the removals and the half-done commands follow one
\* another: loading a file into the two maps of a table loses nothing.
RecordsUnique ==
  /\ \A r, s \in passwd : r.uid = s.uid \/ r.name = s.name => r = s
  /\ \A g, h \in group : g.gid = h.gid \/ g.name = h.name => g = h

\* At the prompt, whoever is in /etc/passwd can log in, with the uid and the
\* password that are there, whatever else login still remembers.  There is no
\* prompt when a home was too long, and else only after somebody who was removed
\* logged in: a reload, or another start, never keeps out users it could load.
EveryUserLogsIn ==
  /\ Prompt =>
       /\ Readable
       /\ \A r \in passwd :
            /\ r.uid \in DOMAIN table.data /\ table.data[r.uid] = r
            /\ r.name \in DOMAIN table.names /\ table.names[r.name] = r.uid
  /\ ~up /\ Readable => \E u \in DOMAIN table.data : u \notin Uids(passwd)

\* Nobody gets a shell but as a user of /etc/passwd, after giving the password
\* that is there, although login never forgets a user it has loaded.
ShellForUsersOnly ==
  [][session = NoOne /\ session' # NoOne => table.data[session'] \in passwd]_accountsVars

\* The number of members written with a group is theirs: the reader takes that
\* many ids, and the next record to begin after them.
MembersCounted == \A g \in group : g.usize = Cardinality(g.users)

=============================================================================
