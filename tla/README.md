# os-kurs in TLA+

Models, model checks and proofs of the file system and the small operating
system in `src/OS_TOS`: an s5fs-like file system in a file (`fs_lib`), a command
line tool that makes and fills such files (`toscli`), and a single-threaded
system (`tos`) that runs Lua programs stored in one.

Every module is written from the C++ source; line numbers are in
`PROJECT.json`, under `map`. Paths below are relative to
`src/OS_TOS/src/fs_lib/src` unless they name another directory.

## 1. The system

| component | state | operations | relies on |
|---|---|---|---|
| `Drive` (`drive.cpp`) | the file, its position, `m_fail` | `create`, `seek`, `read`, `write` of one sector | fstream |
| `VirtualDrive` (`virtual_drive.cpp`) | none | the same by cluster, behind the sector of the superblock | `Drive` |
| `VPartition`, `INodeTable` (`vpartition.cpp`, `inode.cpp`) | none in memory | `read`, `write` of record *k* of a table of clusters | `VirtualDrive` |
| `ClusterTable` (`cluster.cpp`) | a stack of addresses on the drive; `m_tfree`, `m_fvalue` | `push`, `front`, `pop`, `sync` | `VirtualDrive` |
| `FileblockAllocator` (`fileblock.cpp`) | none; works on `i_blocks`, `i_fsize` and indirect clusters | `resize` (`extend`, `shrink`), `get_cluster` | callbacks `m_allocate`, `m_free`, `m_clear` into `FilesystemCore` |
| `FilesystemCore` (`filesystem_core.cpp`) | `m_sblock`; `m_icache`, the records of the open inodes | `format`; create, open, close, free, link, unlink, touch, resize an inode; `read`, `write`, `seek` | all of the above |
| `CatalogHandle` (`catalog.cpp`) | `m_cache2`, `m_cache3` of one open catalog | `add`, `remove`, `list`, `close` | `FilesystemCore` |
| `Path`, `Tree` (`path.cpp`, `tree.h`) | the nodes of a tree | parsing; a cache of paths | |
| `Filesystem` (`filesystem.cpp`) | `m_tree`, the path cache | open, close, link, unlink, remove, make and list catalogs | `CatalogHandle`, `FilesystemCore` |
| `FileAttr` (`attr.cpp`) | none | `can` and setters over the bits of `i_attr` | |
| `TOS` (`tos/src/tos.cpp`) | `m_files`: handle to mode | `can`, `open`, `close`, `read`, `write` | `Filesystem` |
| processes (`tos/src/proc*.cpp`, `stack.h`) | the stack `m_running`, `m_ready`, the handles of each process | `suspawn`, `execute`, `kill` | `TOS`, Lua |
| Lua bindings (`tos/src/lua-lib`) | none | `io.open`, `os.rm`, `proc.execute`, ... | the two above |
| `toscli` | the shell's current path; `.perms` of the first upload, a static | `create`, `format`, `shell` (`upload`, `rm`, `ls`, ...) | `Filesystem` |
| Lua client (`client`) | `/etc/passwd`, `/etc/group`; tables of users and groups in each program | login, shell, commands | the bindings |

**How they interact.** All calls are synchronous and there is one thread; the
one exception is the Ctrl-C handler of `tos`, which destroys the global objects
from a thread of its own. State is shared in two ways. The drive holds the
superblock, the table of inodes, the stack of free clusters and the data;
memory holds copies of parts of it (`m_sblock`, `m_tfree`, `m_fvalue`,
`m_icache`, `m_cache3`, `m_tree`) that are written back at different moments.
And callers nest: `execute` runs a program to its end within the call, and that
program calls back into the same `TOS`.

**What is hard.**

* *Crashes.* The free list changes on the drive at once, the inode when it is
  closed, the catalog entry by entry. A process that dies between two writes
  leaves what the writes so far say. Nothing is flushed at the end of a run
  either.
* *Stale copies.* The cached top of the stack, the short list of free inodes
  in the superblock, the path cache, the indirect addresses of a file that
  shrank.
* *Half-done calls.* Nearly everything may throw (drive full, no inode, name
  too long, inode already open), and handles are not closed by destructors.
* *Boundaries.* Levels of indirection, the first and last block of a read, the
  last cluster of a drive, tables that end within a cluster.
* *Nesting.* What a process holds when it ends, fails or does not even start;
  for whom it acts while another user's program runs inside it.
* *Asking.* `can` looks at permissions by opening the path, which makes a
  missing file and throws on an open one.

What makes each part correct, in a sentence: the free list is exact; no
cluster has two uses and none is lost; an inode is handed to one caller; what
was written is read; a reopened catalog has the names it was closed with; the
names of a file and its link count agree; the cache of paths agrees with the
catalogs; an open file belongs to one running process, and to its user; names
and files change hands only as the permissions say; whoever is in `/etc/passwd`,
and nobody else, gets a shell.

## 2. The modules

| module | models | composes |
|---|---|---|
| `SpaceAllocator` | abstract: a set of free clusters; allocate takes one, free returns one | |
| `ClusterTable` | the stack on the drive with `allocate_cluster` and `free_cluster`, crash and mount | implements `SpaceAllocator` |
| `Fileblock` | `extend`, `shrink`, indirect clusters, to level 2 | `SpaceAllocator`'s promise: some free cluster |
| `FilesystemCore` | inode table, short list, `m_icache`, clusters of inodes, crash | the same promise |
| `FileIO` | bytes, `i_size` and file pointer of one open inode | blocks as `Fileblock` promises them |
| `TosFile` | the modes of `TOS::open`, `read`, `write` and `seek` | `FileIO` |
| `Catalog` | the two caches of a handle and the file behind it, crash | blocks as `FileIO` promises them |
| `Filesystem` | names, catalogs, links, path cache, removal | inodes as `FilesystemCore` promises them, catalogs as `Catalog` does |
| `Shell` | toscli's shell: every command, uploads entry by entry | `Filesystem` |
| `Namespace` | one drive used by TOS or by toscli | `Filesystem`, `Shell` |
| `Access` | `FileAttr`, owners, `TOS::can`, and the calls of `lib-io`, `lib-os` and `lib-proc` that ask it | `Filesystem` |
| `Format` | `format` by sector, and where every record and cluster lies | the layout `ClusterTable` and `FilesystemCore` start from |
| `Processes` | the stack of processes, their handles, `m_files` | files as `Filesystem` promises them |
| `Accounts` | `/etc/passwd`, `/etc/group`, the commands that change them, `login` | programs that run one at a time, as `Processes` lets them |

`TosFile`, `Shell`, `Namespace` and `Access` extend the module they stand on, so
that a step of theirs contains the step below whole. Elsewhere a layer takes
from the one below only what that one is shown to promise; the step from
`ClusterTable` to `SpaceAllocator` is a checked and proved refinement, the others
are stated in the comment at the head of each module. Each `MC` module holds
the definitions its configurations use. Definitions whose comment starts with
*Slip* are plausible mistakes: each shows that a property fails if the
definition that follows it is replaced by the slip. They are no part of any
specification.

### Correspondence

* **ClusterTable.** `table`, `d_tfree`: the drive. `s_tfree`, `m_tfree`,
  `m_fvalue`: memory. An operation is two steps with a crash possible between
  them: `AllocatePop` then `AllocateSave`, `FreePush` (which writes the slot)
  then `FreeSave` (which writes the superblock). `Mount` is the constructor.
  `owned` is history: what callers hold.
* **Fileblock.** A `resize` is a loop of steps; each `m_allocate` is a step,
  because each may throw (`AllocateThrows`) and leaves the inode as it is.
  `content` tells addresses from bytes (`Text`), so that an index that leads
  through a cluster of data gets no address and `GetReturnsSet` fails.
* **FilesystemCore.** `create_inode` and `free_inode` are several steps:
  `Rescan`/`Create`; `FreeClusters`, `FreeWrite`, `FreePush`. `Mount` reads the
  superblock again. A drive on which a crash left an inode whose clusters are
  free is `"damaged"` after `Mount`, and nothing is claimed of it. `Rescan`
  looks at the table only, as `rescan_itable` does. `handles`, `relisted` and
  `dropped` are history: how many callers have each inode, which inodes a
  rescan listed while they were open and not in the table, and the clusters of
  those that had been closed before `create_inode` gave them out again.
  `CloseThrows` is the second of two such callers, who finds nothing in
  `m_icache`.
* **FileIO.** `Read`, `Write`, `Seek`, `ResizeInode` are whole calls; `Write` grows
  the file and may stop where the drive is full. Sums are taken modulo `Wrap`.
* **TosFile.** `mode` is what `m_files` says: one of the six modes, `"none"`, or
  `"core"` for a catalog, which only the core uses. `Open` holds the `clear`
  and the first seek of `io.open`. `moved` is history: a seek since then.
* **Catalog.** `Open` is `scan`; one change; then `Resize`, one `WriteEntry`
  per entry and `CloseInode`. `ResizeThrows` is a drive that is full. `Resize`
  to fewer clusters zeroes those given back (`Cleared`, as `clear_cluster`
  does), if `i_blocks` addresses them itself: `free_indirection_cluster` passes
  them to `m_clear` only then. The record on the drive still has them until
  `CloseInode` (`Shrunk`); a process that ends in between leaves a drive that
  `FilesystemCore` calls damaged, and the behaviour ends there
  (`CrashDamages`), with what a scan would find in `file` and `saved`.
* **Filesystem.** One action per call of `filesystem.cpp`, each with the
  failing half as an action of its own (`LinkThrows`, `UnlinkThrows`).
  `Filesystem::open` is three: `OpenExisting`, `OpenNew`, `OpenNewThrows`. The
  recursive `remove` is a stack of calls, `work`; a step is one entry. `calls`
  says which calls the program on the drive makes; it is chosen in `Init` from
  `Programs` and never changes. `torn` is history: a removal threw once it
  had begun. A program that uses the recursive `remove` makes no links
  (`ProgramsAssumption`): toscli calls the one and not the other, TOS the reverse.
* **Shell.** A command is a step, with two exceptions. `rm` goes on in the steps
  of `remove`. An upload goes through the host's directory: `frames` are the
  catalogs in progress with the names still to do, `put` the file whose old
  version is just being removed. `data` and `perms` say of each inode whether
  it has what the host's file has and what `.perms` says; `table` is the static
  that keeps the `.perms` of the first upload. A command that throws goes back
  to the prompt with what it has done so far.
* **Access.** `attr`, `owner` and `group` of each inode; `mode` is `m_files`;
  `stack` has for each program in progress its user, real user, group, groups
  and handles. A call is one action, its permissions, lookups and effect
  together. `...Spoils` is the call that fails because `can` made a file it
  asked about, or threw on an open one and left the parent's catalog open;
  `Look` is a call that looks paths up and changes nothing, refused calls
  included.
* **Format.** A write of a cluster is a step. `last` is history: what was last
  written to every record, slot and cluster.
* **Processes.** `execute` has three outcomes: the program starts (`Execute`),
  its file is gone (`ExecuteMissing`), its file is open (`ExecuteBusy`); `Exit`
  is `kill`. `depth` counts the calls of `execute` in progress, which the stack
  should mirror and after `ExecuteBusy` does not.
* **Accounts.** A command is a step: it loads both files when it starts, and
  nothing runs beside it. `table` is login's `UsersTable`, which lives as long
  as login; `Login`, `Logout` and `Boot` are its life. A user's `home` is
  `"short"` or `"long"`, by whether the record keeps to its 128 bytes; with a
  long one the users are not `Readable`, `Logout` ends login, `Boot` does not get
  to it, and every command that needs the users is refused (`RootWithUsers`).
  `UseraddThrows` is the half-done command. `Deluser` changes nothing, because it always throws.

## 3. What is checked

| run | shows | bounds, and why they are enough |
|---|---|---|
| `cluster_table` | free list exact at every instant, cached top right, push has room, `SpaceAllocator` implemented | 5 clusters, one of them tables: empty, full, every order of frees, crash in every step; proved for every size (section 5) |
| `fileblock` | no cluster used twice or while free, none leaked, every index keeps its address | 1 direct address, 2 per cluster: sizes to 5 cross all borders up to the first child of level 2; 8 clusters for two files that need 9, so that `m_allocate` throws at every place; proved for every size of file within that child |
| `core` | short list, counts, one handle per inode, clusters exclusive and none leaked, damage only by a crash with an inode modified or being freed; how far a rescan that meets open, unsaved inodes spoils the first of these, and that nothing else does | 3 inodes, 2 slots in the short list, 2 clusters, files of one: the list runs out with all inodes open, is rescanned, overflows; 2 callers with one inode, which is what one such rescan makes; proved for every size |
| `file_io` | bytes stay and are read back, at the end of the buffer when the read is short; a file changes only as the mode it is open in allows | blocks of 2 bytes, 3 blocks, counts 1 and 3: begin and end inside a block, on one, across one, past the end of the file; pointers to 6, past the last block; proved for every size below the wrap |
| `catalog` | a reopened catalog has its names; what a crash may lose and what it may show; removal by inode is total | 5 names, 2 inodes, 2 entries in a cluster, 2 direct clusters of 3: insertion and removal at every place, with and without a change in clusters, a cluster given back that is zeroed and one that is not; proved for every size |
| `namespace` | links, entries and held files agree under TOS and under toscli, half-done calls included; cache right; recursive removal frees once; an upload is complete; the prompt stays in a catalog; every command ends | 3 inodes, names a, b and one too long, paths of 2 components: a full catalog, two names of one file, no inode left; two host directories and single files, which meet catalogs and files under the same names; all but the last proved for every size |
| `access` | names and files change hands only as permissions say; an open file has its holder's owner | 3 paths (a file beside a catalog, a file in it), 3 callers (the system, a user, a program that acts as the system for that user), one mode for chmod, 2 programs deep; proved for every size |
| `format` | format leaves what its superblock says; nothing overlaps or leaves the drive | 20 geometries: one or two sectors a cluster, sectors left over or not, tables that end within a cluster or at its end, and a refused size; proved for every geometry whose tables fit |
| `processes` | every open file has one owner on the stack and its own mode; the stack is bounded | 3 files, 3 pids that collide, limit 5: nesting to four and seven on the stack; proved for every size |
| `accounts` | records unique; login knows every user at the prompt and lets in nobody else; there is no prompt only after a home that was too long or a removed user's login | 3 names, 2 passwords, 2 ids: a default id that is taken, a uid and a name given again, a record that is too long; proved for every size (section 5) |

Two runs look for a violation and find it (`findings`):

* `fileblock_reentry`: `shrink` gives back a child of level 2 and leaves its
  address in the top, so that a file that grows again uses a cluster that is
  free or another's. The `fileblock` run stays within the first child, whose
  address goes with the top; the second is where this begins.
* `file_io_short`: a read of more than the file has left puts the bytes at the
  end of the buffer, where `cp` and `io.read` do not look for them
  (`ReadFillsFront`). `file_io` makes the same reads and checks that the bytes
  are right where they are put.

### Defects the models contain

The models do what the code does, wrong or not, and the passing runs state what
still holds. These were met on the way. Some have a definition or a constant
that reproduces them:

* Without `relisted`, `ListedAreFree`, `OneHandle` and the first half of
  `CountExact` fail (core). A rescan takes an inode that is created and open
  but not written yet for a free one, because `rescan_itable` looks at the table
  only, and `Filesystem::open` returns inodes in just that state. `create_inode`
  then gives it to a second caller: `m_icache.emplace` keeps the record that is
  there, so that both work on one file, and whoever closes second gets an
  exception. If the first has closed it before, the second starts with an empty
  record, and the clusters of the first are lost (`dropped`). The four
  properties say that this happens to `relisted` inodes and to no other.
* `CrashKeepsNames` without `Shrunk` fails (catalog). A change that removes
  enough entries to give a cluster back zeroes it on the drive while the saved
  size still counts its entries: after a crash before `close_inode`, names that
  were to stay are gone, as many as were removed at most, and a scan finds an
  entry with the name "" for inode 0.
* `NothingLeftOpen` (`Filesystem`, in no run) fails: opening an open file throws
  between `open_catalog` and `close_catalog`, and the catalog stays in
  `m_icache` for good. `TreeExact` and `AllNamed` are stated for drives where
  that has not happened yet; the other properties of `namespace` hold
  nevertheless.
* `TreeExact` without its `"link" \notin calls` fails: `mv` is `link` and
  `unlink`, and `unlink` clears the path cache only when the inode goes, so that
  the old path still resolves. `CachedAreLive` says what does hold.
* Seeks near `Wrap` (file_io): the block count wraps and bytes have no block;
  `WrittenStays` fails. `SizeIsBacked` of `FileIO` fails with a drive that is
  full, since `i_size` is set before the blocks are there.
* `AtLeastAsAsked` (`Format` with `Option <- MCAsked`) fails: `format -i` makes
  fewer inodes than asked when they do not fill a cluster, though its help says
  "at least".

The rest are in the actions themselves:

* A removal that throws half-way, at an inode that is open, does not clear the
  path cache of what it has freed. The names it had not come to yet stay, and a
  cached path that leads to a freed inode leads to whatever file gets that inode
  next; replacing *that* path then frees the file of another name. `LinksExact`,
  `NoDangling`, `CachedAreLive`, `TreeExact`, `FreesOnce` and `UploadComplete` are
  therefore stated for drives that are not `torn`. It takes a catalog left open
  by an earlier call that threw, so that one failed call leads to the next.

* toscli's `upload` of a directory ignores the target and goes to the root, and
  a second upload in one session goes by the `.perms` of the first
  (`UploadDirectory`); `UploadComplete` is stated accordingly.
* `deluser` throws every time: the parameter `table` of `table_remove` hides
  the library it calls. `useradd` leaves the group behind when the user is
  refused, as it is when the number of users, the default uid, is in use after
  a removal. `adduser` and `deluser` take the user for the group as well
  (`SameArgument`). An ordinary user cannot change the own password, since
  `passwd` has to write in `/etc`.
* `UsersTable:add` looks at the length of the name where it means the home
  (users.lua:105), and `rpad` does not cut. A name of 25 to 27 characters, or a
  long `--home`, writes a record of more than 128 bytes; from then on
  `users.lua` throws "users data is corrupted" in every program that requires
  it. login ends with the session and TOS does not get back to it (`Readable`).
  Nothing in the system repairs that, since the commands that could need the
  users themselves.
* `can` creates the file it is asked about, with the system for owner; a
  refused call is therefore not without effect (`AskSpoils`). `NamesNeedWrite`
  names it as the one exception.

**Deadlock** is checked except where the program ends: the last process of
`processes`, a refused `format`.

**Fairness and liveness.** The one liveness property is `CommandsEnd`, of toscli:
a command that removes a catalog or uploads a directory comes back to the
prompt. It assumes weak fairness of `Continue`, the next step of the command in
progress: there is one thread, nothing else runs until the command is done, and
no step of it waits for anything. Elsewhere calls are single steps or loops over
a bounded count, and no fairness is assumed: a program may stop at any time.

**Symmetry** is used where values are compared for equality only: clusters in
`core`, files and pids in `processes`, the names that are not root's in
`accounts`. `core` also has a `VIEW`: the slots of `s_inode` behind `s_ttinode`
are not looked at before they are written again, so that states that differ
only there are one. Neither run checks liveness.

## 4. What an environment may do

* A crash comes between any two writes of clusters; a single write is atomic.
* Callers of `FilesystemCore` use inodes they hold, and may keep one that they
  created open for as long as they like. Callers of `Filesystem` close what they
  opened and nothing else. `Filesystem` takes from `create_inode` an inode that
  nobody has (`Fresh`): that is what `FilesystemCore` gives until a rescan meets
  an inode that was created and not closed yet, and what is shown of names,
  handles and rights is shown up to then.
* TOS and toscli do not use a drive in the same behaviour: toscli's `remove`
  does not look at links, and its code calls it deprecated.
* The host's directory does not change during an upload.
* In `Access` a program may run another for any of the callers, as proc-util
  does for whoever holds the rights; who may become whom is decided by programs
  outside the library.

## 5. What is proved

All theorems hold for every value of the constants under the assumptions the
modules name. Three modules each hold the proofs of two components that share
no state: `DriveProofs` those of `ClusterTable` and `Format`, `FileProofs` those
of `TosFile` (with `FileIO`) and `Fileblock`, `TosProofs` those of `Processes`
and `Accounts`.

| module | about | hypotheses beyond the assumptions on constants |
|---|---|---|
| `DriveProofs` | `ClusterTable`; `Format` | none; `TablesFit` |
| `FileProofs` | `TosFile`; `Fileblock` | `NoWrap`; `WithinFirstChild` |
| `FilesystemCoreProofs` | `FilesystemCore` | none |
| `CatalogProofs` | `Catalog` | none |
| `FilesystemProofs`, `NamespaceProofs` | `Filesystem`; `Shell`, `Namespace` | none |
| `AccessProofs` | `Access` | none |
| `TosProofs` | `Processes`; `Accounts` | none |

Each hypothesis is a line the code does not draw itself: beyond it the property
is false, and section 3 or 6 says what happens there. The `.cfg` of each passing
run is within them.

**`DriveProofs`, the stack** (from `LayoutAssumption`: tables fit the drive). The
invariant wanted, `FreeListExact`, is not inductive: in the middle of an
operation it depends on how far memory is ahead of the drive, and that `push`
finds a slot depends on a count. `IInv` adds

* `Progress`: the heights and `arg` at each `pc`; between operations all three
  heights agree, in an allocation memory is one below, in a free one above;
* `Conservation`: what callers own and what is listed add up to the data
  clusters, so that an owner implies an empty slot.

`IInv` gives `TypeCorrect`, `FreeListExactAlways`, `TopCachedAlways`,
`HeightsAgreeAlways` and `PushNeverThrows`. `Refinement` maps each step to
`SpaceAllocator`: the superblock write is the allocator's step, every other
step, crash and mount included, a stutter.

**`DriveProofs`, the layout** (from `FormatAssumption`, under `TablesFit`: an inode
is no larger than a cluster and the two tables no larger than the drive, which
`format` does not look at). First the geometry, with no step in it. Every inode,
slot and cluster of data lies within one cluster of the drive behind the
superblock (`ThingHome`), two of one kind by their remainders and two of
different kinds by their clusters (`InodesApart`, `SlotsApart`, `PlacesApart`), and
all end before the drive does (`PlaceOnDrive`). So a write to one leaves all
others alone (`WriteToPlace`), which is all the steps need to know. `FormatInv`
says how far `format` has got: zeros behind the superblock up to the implicit
position (`Zeroing`), the stack as far as it was pushed (`Pushing`), and from then
on that everything that was written is where it was written (`Holds`), that the
stack lists clusters of data, each once (`Stacked`), and among them every one that
nobody wrote to (`Ready`).
That a freed cluster finds a slot is the pigeonhole principle (`SlotLeft`). It
gives `IntactAlways` and `FormatSoundAlways`. `CellIs` is where the sector
arithmetic of `VirtualDrive` goes in.

**`FileProofs`, the bytes** (from `IOAssumption`, under `NoWrap`: a drive, and the
pointers callers ask for, end a block and a count before the width of the
counters). `WrittenStays` is inductive only with bounds on both lengths of a file,
which are not the same: `i_size` is set before the blocks are there. `Kept` says
that what was written is below both; `Sizing` that `i_size` has not wrapped, so
that `resize_inode` computes blocks enough (`BlocksSuffice`); `Behind` that a file
opened to append writes behind all it holds until a seek, which
`ChangesAsOpenedAlways` stands on. `ReadDeliversAlways` follows from `Kept` and the
arithmetic of the buffer's end (`ReadGets`), for reads of any count.

**`FileProofs`, the clusters** (from `BlockAssumption` and `OfferAssumption`,
under `WithinFirstChild`: files end within the first child of level 2). `NoSharing` and `Accounted` count the
clusters an inode reaches, and while `resize` runs they say too little: a top or
a child that was just made is reachable before `i_fsize` says that there is a
level, and the cluster about to be set is reachable from nowhere. `BlockInv`
therefore gives every cluster in use a *role* (`Taken`: data of an index, top of
a level, child, or the address in hand) and says that `Holders`, from roles to
clusters, is injective and covers what is neither free nor lost (`Sound`). A
step adds a role, takes some away or hands a cluster from one role to another,
and each of the three has a lemma. `Placed` follows each index to its cluster;
with `Fresh`, a top that was just made lists nothing, it gives
`GetReturnsSetAlways`. `AllocateThrows` keeps all of this, with the cluster it
drops in `lost`.

**`TosProofs`, the processes** (from `LimitAssumption`, `PidAssumption`). Three layers, each
proved from the one before: types; heights (`Nested`: unless a process was
left behind, the stack is one higher than the programs in progress; in any case
higher than them, `SystemStaysAlways`; the system process holds nothing; and
the stack and the processes that wait are bounded together,
`StackBoundedAlways`); ownership (`HandlesOwned` with `ModeIsAsked`, which are
inductive only together with the types and heights, since `Exit` must not pop
the system process). `AllClosedAtEndAlways` then is one line of argument: at
depth 0 only the system process is left, and it holds nothing.

**`TosProofs`, the accounts** (from `AccountsAssumption`). `AlwaysTypeOK`; from it
`AlwaysUnique`: the records stay unique, one case for each command, because the
commands ask for the number they end up with, defaults included. `EveryUserLogsIn`
is inductive only together with both: at the prompt the table knows each
record, which needs that loading two records never overwrites one with the
other (`LoadKnows`), and that no command runs while the prompt is open
(`AlwaysLogsIn`). That the users can be loaded at the prompt is part of it, and so
is why there is none (`DownForAReason`). `AlwaysForUsersOnly` is an action property: the user of a new
session was found in `/etc/passwd` by the shell, and what the table remembers of
that user is, by `EveryUserLogsIn`, what is there. `AlwaysCounted`: the number
written with a group is that of its members, which the reader relies on to find
the next record.

**`FilesystemCoreProofs`** (from `CoreAssumption`). Two invariants, one on top of
the other.

* `DriveInv` needs nothing of the callers. `ClustersExclusive` alone is not
  inductive: that a record closed without `modified` is what the table has
  (`CacheSound`), and that the inode `free_inode` works on is not open and is
  deleted exactly from the write on (`Freeing`), is what keeps clusters apart in
  `Close`, `FreeWrite` and `Mount`. It gives `ClustersExclusiveAlways`, and
  `QuietCrashIsHarmlessAlways`: if nothing is modified, the table that a crash
  leaves says what memory said. `CoreTypeCorrect` is part of it.
* `CallerInv` is about the short list and the counts. Nothing is asked of the
  callers: what a rescan that meets open, unsaved inodes does is part of the
  invariant, by `relisted`. `Listed` adds to `ListedAreFree` the moment between
  the write and the push; `Counted` says by how much `s_tinode` differs from
  what is available at each `pc`, with one too many at most for each relisted
  inode, and that `push_inode` has room whenever an inode is in use, because
  that inode was taken off the list. It gives `ListedAreFreeAlways`,
  `OneHandleAlways`, `CountExactAlways` and `NothingLeaksAlways`. The rescan fills
  the list by rank among the dead inodes; `RanksAreDistinct` and `RanksAreAll` say
  that this lists each of them once.

**`CatalogProofs`** (from `CatalogAssumption`). Between two writes of `close` the
drive holds the first entries of the new catalog, then those of the old one, some
names twice and some not at all. `Writing` and `Unwritten` say so by position;
`Known` says by content what survives further crashes, when positions no longer
mean anything: every entry on the drive is of the catalog before or after the
change, and the two do not contradict each other, so that it does not matter
which of two entries a scan takes. `InOrder` is by rank, and `RankFacts` (the ranks
of a finite set are 0, 1, ... without a gap) makes it a bijection. With
`OneChange`, removing names moves the others forward, so that an entry not yet
written still lies at its old place, beyond what was written; adding one moves
those behind it back by one place, and only the one just written over can be
missing. Entries that a shrinking resize zeroes lie `Behind` all it keeps: a name
lost there had one of the places from the new size on in the old catalog, of
which there are as many as the change takes names out (`LostToGone`). Together
that is `CrashKeepsNamesAlways`, whose last two parts are for a drive no earlier
crash left out of order (`tidy`).
`ReopenFindsAllAlways` and `RemoveIsTotalAlways` follow from `Read`, what `scan` puts
into the two caches.

**`FilesystemProofs`, `NamespaceProofs`** (from `NamespaceAssumption`,
`ProgramsAssumption`, `HostAssumption`). The first has a lemma for each call of
`filesystem.cpp`: it keeps the drive sound (`SoundDrive`: types; each entry in a
catalog and of an inode in use, a catalog with at most one, links counted; held
files open and in use; what has no name is open) and the path cache sound
(`TreeSound`: closed under prefixes, every inode in use, every entry what the
cache says it is; and the entry is there if the path is a catalog's or the
program makes no links). `CachedKeepsFind` says
that a lookup changes what no path means, `CatalogPathsUnique` that two cached
paths to one catalog are one path. Lookups are recursive functions; induction
over paths is done in the form of a least counterexample (`LeastNumber`), which
needs no operator for a parameter, so that `PrefixFacts`, `WalkFacts` and
`ResolveFacts` are proved like the rest.

`NsInv` adds the removal in progress. `Removal`: every call on the stack `work`
is about a catalog whose entry in the catalog of the call below is still there,
and its `items` are exactly what its catalog still has, less the entry of the
call above. `Ranked`: some number grows along the entries, so that the catalogs
have no cycle and no inode is on the stack twice; new catalogs and removals keep
one. Once a removal threw, only `torn => open # {}` is left to say. It gives
`NoDanglingAlways`, `LinksExactAlways`, `CachedAreLiveAlways`, `HeldIsLiveAlways`,
`AllNamedAlways`, `FreesOnceAlways` and `TreeExactAlways`.

`ShellInv` stands on `NsInv` and on one notion: a path is `Undisturbed` if it
resolves and no removal is on its way to any part of it. A step leaves such a
path alone (`StepLeaves`) unless it begins a removal of a prefix of it. Hence the
current path stays a catalog (`CwdStays`), as commands remove only what is
below it; and whatever an upload is through with (`Done`: not in the `rest` of a
frame, nor the file being replaced) is on the drive with its content and
permissions (`UploadStays`), as the upload removes only what it is still to do.
It gives `CwdIsCatalogAlways` and `UploadCompleteAlways`.

**`AccessProofs`** (from `AccessAssumption`, on the lemmas of `FilesystemProofs`).
`AccInv` says that the handles of the programs on the stack are held and belong
to one program each, and that a program's user owns what it holds. The second
is inductive only with the first: `chown` has to open the file, and so finds one
that no program has. `After` is what all the calls of `can` do to the
cache, which is nothing that a lookup could tell; so the answer is still about
the inode that the call then works on (`CanIsMay`), which is the time between
check and use. It gives `HolderOwnsAlways` and, as action properties,
`NamesNeedWriteAlways` and `OpenedWithRightsAlways`.

**Only model-checked.** Every property of a passing run but one is stated by a
theorem. The one is `CommandsEnd`, since the prover has neither fairness with
`ENABLED` nor induction over the size of a catalog; what it would rest on, that
a removal never meets an inode twice (`Ranked`), is proved. The properties of the
two runs that look for a violation are false. Type correctness of `FileIO`, `Fileblock`, `Catalog` and `Format` is part of their invariants.
No `RECURSIVE` operator is used: recursion is by functions. Products and
remainders of variables, in `FileIO` and `Format`, are taken to the SMT solver one
at a time, in lemmas about numbers alone (`Division`, `NextRow`, `QuotientBelow`).

## 6. What is not modelled

* Levels 3 and 4 of `Fileblock`. Reading shows their arithmetic to be wrong:
  `set_indirection_cluster_address` (line 118) divides by `m_acount` whatever
  the level. After `m_acount` squared clusters into level 3 the index leaves the
  buffer, and what follows is undefined.
* A `format` that is interrupted: the magic is written first, so that nothing
  tells such a drive from a finished one. An inode table larger than the drive,
  which wraps `s_tfree`; `format` does not look.
* Writing through a handle to a catalog that was opened as a file: `Filesystem::open`
  and `TOS::open` let a program do so, and what a scan then finds is any bytes.
* `s_asize` beyond 2^24 clusters, where filesystem_core.cpp:25 divides as float;
  `Asize` divides exactly. In `Accounts`, a home that is too long by a multiple
  of 128 bytes, after which records are read where none begin.
* What follows in names and handles once a rescan has listed an inode somebody
  has open: `FilesystemCore` says how far it goes, `Filesystem` stops before it.
* The text of paths (splitting, joining, `..`); the nodes of `Tree`, which
  `Filesystem` uses as a map from paths. `touch` of a catalog in toscli.
* Environments and search of modules of Lua programs, Lua itself, the console,
  the clock and the hash; the client's editor, colours, manuals and parsing of
  arguments; its other commands, which are sequences of calls that `Access` and
  `Namespace` make in any order. Of these `mv` is worth a word: `-o` removes the
  target before `link`, which may then fail, and `mv` of a file to its own name
  removes it; nothing in the code promises otherwise.
* The Ctrl-C handler's race with the main thread: undefined behaviour from its
  first step on. What it leaves on the drive is what a crash leaves.
* Which of two processes with one random pid a caller meant.
* Code of others: `CLI11.hpp`, `sha-256.cpp`, `ctrl_c.cpp` and Lua's headers.
  Of the lines of C and C++ under `src` these are about two thirds (`CLI11.hpp`
  alone has 11137).

## 7. Plan

1. *Path*: normalisation as an operator against a reference definition.
2. *Processes* with *Access*: the users of the processes that wait, so that
   what a pid collision runs is seen with the rights it runs under.
3. *Refinements* between the layers above `SpaceAllocator`. `Filesystem` and
   `FilesystemCore` each say what the other assumes in a comment; a module that
   composes the two would make it a theorem.

## 8. Running

    tlc -config MCClusterTable.cfg MCClusterTable
    tlapm DriveProofs.tla

and likewise for the other configurations (`runs` in `PROJECT.json` pairs them
with modules). Each run takes from seconds to two minutes, the
longest proof (`NamespaceProofs`, which also checks the lemmas it stands on) some
minutes.
