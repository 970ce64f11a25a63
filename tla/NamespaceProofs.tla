---------------------------- MODULE NamespaceProofs ----------------------------
(***************************************************************************)
(* What a program keeps true of the drive it uses: TOS with any links, and *)
(* toscli with its recursive remove, on drives of any size with paths of   *)
(* any length.                                                             *)
(***************************************************************************)
EXTENDS Namespace, FilesystemProofs

-----------------------------------------------------------------------------
\* The calls of a removal in progress.

USE DEF Pairs

Listing == UNION { [S -> Inode] : S \in SUBSET (Inode \X Name) }

CallRecord == [index : Inode, parent : Inode, items : Listing]

\* What a call still has to go through: of the innermost everything in its
\* catalog, of any other what is not the entry of the call above it.
Pending(n) ==
  { x \in Items(work[n].index) : n = 1 \/ entries[x] # work[n - 1].index }

InProgress(n) ==
  /\ \E x \in Pairs : x[1] = work[n].parent /\ entries[x] = work[n].index
  /\ work[n].items = [x \in Pending(n) |-> entries[x]]
  /\ n < Len(work) => work[n].parent = work[n + 1].index

Removal ==
  /\ work \in Seq(CallRecord)
  /\ \A n \in 1 .. Len(work) : InProgress(n)

\* The catalogs are a tree, in which the calls go down: something grows along the
\* entries, so that no call is about a catalog another one is about.
Ranked ==
  \E r \in [Inode -> Nat] :
    /\ \A x \in Pairs : r[x[1]] < r[entries[x]]
    /\ \A m, n \in 1 .. Len(work) : m < n => r[work[n].index] < r[work[m].index]

\* The paths the shell remembers.
ShellPaths ==
  /\ cwd \in Seq(Name) /\ put \in Seq(Name)
  /\ host \in Hosts \cup {NoHost}
  /\ frames \in Seq([at : Seq(Name), rest : SUBSET Name])

\* Until a removal throws half-way.
Whole ==
  /\ SoundDrive
  /\ Idle => TreeSound(tree)
  /\ Toscli => Removal /\ Ranked

NsInv ==
  /\ calls \in Programs
  /\ Toscli => held = {} /\ ShellPaths
  /\ ~Toscli => work = <<>> /\ ~torn
  /\ torn => open # {}
  /\ ~torn => Whole

-----------------------------------------------------------------------------
\* The shell's paths.

LEMMA NewFrame ==
  ASSUME NEW h \in Hosts \cup {NoHost}, NEW p \in Seq(Name)
  PROVE  Frame(h, p) \in [at : Seq(Name), rest : SUBSET Name]
<1>1. \A q \in DOMAIN h.kind : q \in Seq(Name) /\ q # <<>>
  <2>1. CASE h \in Hosts
    BY <2>1, HostAssumption, PathIsSeq
  <2>2. CASE h = NoHost
    BY <2>2 DEF NoHost
  <2> QED BY <2>1, <2>2
<1>2. \A q \in DOMAIN h.kind : Last(q) \in Name
  BY <1>1, FrontIsPath
<1>3. Below(h, p) \in SUBSET Name
  BY <1>2 DEF Below
<1> QED BY <1>3 DEF Frame

LEMMA UpcomingIsPath ==
  ASSUME ShellPaths, NEW p \in Upcoming
  PROVE  /\ p \in Seq(Name) /\ p # <<>> /\ frames # <<>> /\ Idle /\ put = <<>>
         /\ Left(p) \in Seq([at : Seq(Name), rest : SUBSET Name])
<1>1. Idle /\ put = <<>> /\ frames # <<>>
      /\ p \in { Append(Head(frames).at, n) : n \in Head(frames).rest }
  BY DEF Upcoming
<1>2. PICK n \in Head(frames).rest : p = Append(Head(frames).at, n)
  BY <1>1
<1>3. /\ Len(frames) \in Nat \ {0} /\ Head(frames) = frames[1]
      /\ frames[1] \in [at : Seq(Name), rest : SUBSET Name]
  BY <1>1, HeadFacts DEF ShellPaths
<1>4. p \in Seq(Name) /\ p # <<>>
  BY <1>2, <1>3
<1>5. PICK f : f = [frames[1] EXCEPT !.rest = @ \ {Last(p)}]
  OBVIOUS
<1>6. f \in [at : Seq(Name), rest : SUBSET Name]
  BY <1>3, <1>5
<1>7. Left(p) = [frames EXCEPT ![1] = f]
  BY <1>3, <1>5 DEF Left, ShellPaths
<1>8. Left(p) \in Seq([at : Seq(Name), rest : SUBSET Name])
  BY <1>3, <1>6, <1>7 DEF ShellPaths
<1> QED BY <1>1, <1>4, <1>8

-----------------------------------------------------------------------------
\* The steps, by who makes them.

TosCall ==
  \/ \E p \in Path : \/ Query(p) \/ OpenExisting(p) \/ OpenNew(p) \/ OpenNewThrows(p)
                     \/ CreateCatalog(p) \/ Unlink(p) \/ UnlinkThrows(p)
  \/ OpenRoot
  \/ \E i \in held : Close(i)
  \/ \E p, q \in Path : Link(p, q) \/ LinkThrows(p, q)

\* What the shell does when nothing is being removed.
ShellCommand ==
  \/ \E p \in Arg \cup Up \cup {cwd} : Ls(p) \/ Cd(p)
  \/ \E p \in Arg : Mkdir(p) \/ Rm(p) \/ Cat(p) \/ Touch(p) \/ Download(p) \/ UploadFile(p)
  \/ \E h \in Hosts : UploadDirectory(h)
  \/ \E p \in Upcoming : UploadCatalog(p) \/ UploadCatalogThrows(p) \/ UploadEntry(p)
  \/ Put \/ PutThrows \/ Return

LEMMA WhoSteps ==
  ASSUME Next
  PROVE  /\ Tearing /\ UNCHANGED calls
         /\ \/ ~Toscli /\ TosCall
            \/ Toscli /\ (ShellCommand \/ Removing)
  BY DEF Next, Tos, Shell, TosCall, ShellCommand

LEMMA PathsKept ==
  ASSUME ShellPaths, ShellCommand \/ Removing
  PROVE  ShellPaths'
<1> DEFINE F == [at : Seq(Name), rest : SUBSET Name]
<1>1. \A p \in Arg \cup Up \cup {cwd} : p \in Seq(Name)
  BY PathIsSeq, FrontIsPath DEF Arg, Up, ShellPaths
<1>2. <<>> \in Seq(Name) /\ <<>> \in Seq(F)
  OBVIOUS
<1>3. CASE Removing
  BY <1>3 DEF Removing, ShellPaths, jobVars
<1>4. ASSUME NEW p \in Arg \cup Up \cup {cwd}, Ls(p) \/ Cd(p) PROVE ShellPaths'
  BY <1>1, <1>4 DEF ShellPaths, Ls, Cd, Command, jobVars
<1>5. ASSUME NEW p \in Arg, Mkdir(p) \/ Rm(p) \/ Cat(p) \/ Touch(p) \/ Download(p)
      PROVE  ShellPaths'
  BY <1>5 DEF ShellPaths, Mkdir, Rm, Cat, Touch, Download, Command, jobVars
<1>6. ASSUME NEW p \in Arg, UploadFile(p) PROVE ShellPaths'
  BY <1>1, <1>6 DEF ShellPaths, UploadFile
<1>7. ASSUME NEW h \in Hosts, UploadDirectory(h) PROVE ShellPaths'
  <2>1. Frame(h, <<>>) \in F
    BY <1>2, NewFrame
  <2>2. <<Frame(h, <<>>)>> \in Seq(F)
    BY <2>1
  <2> QED BY <1>7, <2>2 DEF ShellPaths, UploadDirectory
<1>8. ASSUME NEW p \in Upcoming, UploadCatalog(p) PROVE ShellPaths'
  <2>1. Left(p) \in Seq(F) /\ Frame(host, p) \in F
    BY UpcomingIsPath, NewFrame DEF ShellPaths
  <2>2. <<Frame(host, p)>> \o Left(p) \in Seq(F)
    BY <2>1, PushFacts
  <2> QED BY <1>2, <1>8, <2>2 DEF ShellPaths, UploadCatalog, Aborts
<1>9. ASSUME NEW p \in Upcoming, UploadCatalogThrows(p) PROVE ShellPaths'
  BY <1>2, <1>9 DEF ShellPaths, UploadCatalogThrows, Aborts
<1>10. ASSUME NEW p \in Upcoming, UploadEntry(p) PROVE ShellPaths'
  BY <1>10, UpcomingIsPath DEF ShellPaths, UploadEntry
<1>11. CASE Put
  BY <1>2, <1>11 DEF ShellPaths, Put
<1>12. CASE PutThrows
  BY <1>2, <1>12 DEF ShellPaths, PutThrows, Aborts
<1>13. CASE Return
  <2>1. Tail(frames) \in Seq(F)
    BY <1>13, HeadFacts DEF ShellPaths, Return
  <2> QED BY <1>13, <2>1 DEF ShellPaths, Return
<1> QED BY <1>3, <1>4, <1>5, <1>6, <1>7, <1>8, <1>9, <1>10, <1>11, <1>12, <1>13 DEF ShellCommand

\* toscli closes nothing it did not open in the same call.
LEMMA OpenKept ==
  ASSUME ShellCommand \/ Removing
  PROVE  held' = held /\ open \subseteq open'
<1>1. \A p : Query(p) \/ RemovePath(p) \/ Replacing(p) => held' = held /\ open' = open
  BY DEF Query, RemovePath, Replacing
<1>2. \A p : CreateCatalog(p) => held' = held /\ open \subseteq open'
  BY DEF CreateCatalog, Leaves
<1>3. \A p, d : Reopened(p, d) => held' = held /\ open \subseteq open'
  BY DEF Reopened, Leaves
<1>4. \A p, d : Stored(p, d) \/ StoreThrows(p) => held' = held /\ open \subseteq open'
  BY DEF Stored, StoreThrows, Leaves
<1>5. \A p : OpenThrows(p) => held' = held /\ open \subseteq open'
  BY DEF OpenThrows, OpenNewThrows, NotCreated, Leaves
<1>6. CASE Removing
  BY <1>6 DEF Removing, RemoveChild, RemoveEntry
<1>7. ASSUME NEW p, Ls(p) \/ Cd(p) \/ Mkdir(p) \/ Rm(p) \/ Cat(p) \/ Touch(p) \/ Download(p)
      PROVE  held' = held /\ open \subseteq open'
  BY <1>1, <1>2, <1>3, <1>4, <1>5, <1>7 DEF Ls, Cd, Mkdir, Rm, Cat, Touch, Download
<1>8. ASSUME NEW p, UploadFile(p) \/ UploadCatalog(p) \/ UploadCatalogThrows(p) \/ UploadEntry(p)
      PROVE  held' = held /\ open \subseteq open'
  BY <1>1, <1>2, <1>8 DEF UploadFile, UploadCatalog, UploadCatalogThrows, UploadEntry
<1>9. CASE Put \/ PutThrows
  BY <1>1, <1>4, <1>5, <1>9 DEF Put, PutThrows
<1>10. CASE Return \/ \E h \in Hosts : UploadDirectory(h)
  BY <1>10 DEF Return, UploadDirectory, vars
<1> QED BY <1>6, <1>7, <1>8, <1>9, <1>10 DEF ShellCommand


-----------------------------------------------------------------------------
\* The commands of the shell.

\* The catalogs get at most the entry of a new inode.
MakesEntry ==
  \E i \in Fresh, x \in (Inode \X Name) \ Pairs :
    kind[x[1]] = "catalog" /\ entries' = With(entries, x, i)

Effect ==
  /\ Sound'
  /\ \A j \in Inode : kind[j] # "dead" => kind'[j] = kind[j]
  /\ entries' = entries \/ MakesEntry
  /\ work' = work \/ \E p \in Seq(Name) : RemovePath(p)

LEMMA QueryEffect ==
  ASSUME Sound, NEW p \in Seq(Name), Query(p), UNCHANGED calls
  PROVE  Effect
  BY QuerySound DEF Effect, Query

LEMMA RemovePathEffect ==
  ASSUME Sound, NEW p \in Seq(Name), RemovePath(p), UNCHANGED calls
  PROVE  Effect
<1>1. /\ p # <<>> /\ UNCHANGED <<kind, links, entries, open, held>>
      /\ tree' = CachedToo(Front(p), p)
  BY DEF RemovePath, Parent
<1>2. TreeSound(tree)'
  BY <1>1, LooksUpTwo, FrontIsPath
<1>3. Opened' /\ (NothingLeftOpen' => NothingLeftOpen)
  BY <1>1 DEF Sound, SoundDrive, Opened, NothingLeftOpen
<1>4. SoundDrive'
  BY <1>1, <1>3, DriveOpens DEF Sound
<1> QED BY <1>1, <1>2, <1>4 DEF Effect, Sound

LEMMA ReplacingEffect ==
  ASSUME Sound, NEW p \in Seq(Name), Replacing(p), UNCHANGED calls
  PROVE  Effect
  BY QueryEffect, RemovePathEffect DEF Replacing

LEMMA CreateCatalogEffect ==
  ASSUME Sound, NEW p \in Seq(Name), CreateCatalog(p), UNCHANGED calls
  PROVE  Effect
<1>1. /\ p # <<>> /\ ParentOpens(p) /\ work' = work /\ Find(p) = None
      /\ entries' = entries \/ \E i \in Fresh : entries' = With(entries, Slot(p), i)
  BY DEF CreateCatalog
<1>2. Slot(p) \in (Inode \X Name) \ Pairs /\ kind[Slot(p)[1]] = "catalog"
  BY <1>1, LookedUp
<1>3. \A j \in Inode : kind[j] # "dead" => kind'[j] = kind[j]
  BY DEF CreateCatalog, Fresh, Sound, SoundDrive, Shape
<1> QED BY <1>1, <1>2, <1>3, CreateCatalogSound DEF Effect, MakesEntry

\* A file that is there, opened and closed.
LEMMA ReopenedEffect ==
  ASSUME Sound, NEW p \in Seq(Name), NEW d, Reopened(p, d), NEW q \in Seq(Name),
         tree' = Cached(q), UNCHANGED calls
  PROVE  Effect
<1>1. /\ p # <<>> /\ ParentOpens(p) /\ Slot(p) \in Pairs /\ work' = work
      /\ UNCHANGED <<kind, links, entries>>
  BY DEF Reopened, Opening
<1>2. Slot(p)[1] \in Inode /\ kind[Slot(p)[1]] = "catalog"
  BY <1>1, LookedUp
<1>3. TreeSound(tree)'
  BY <1>1, LooksUp
<1>4. PICK s \in {{}, {Slot(p)[1]}} : open' = open \cup s /\ held' = held
  BY DEF Reopened, Leaves
<1>5. s \in SUBSET Inode /\ \A j \in s : kind[j] # "dead"
  BY <1>2, <1>4
<1> QED BY <1>1, <1>3, <1>4, <1>5, OpensSound DEF Effect

\* A file that was not there, closed again or left open.
LEMMA StoredEffect ==
  ASSUME Sound, NEW p \in Seq(Name), NEW d, Stored(p, d) \/ StoreThrows(p), UNCHANGED calls
  PROVE  Effect
<1>1. PICK i \in Fresh : Created(p, i) /\ held' = held /\ (open' = open \/ open' = open \cup {i})
  BY DEF Stored, StoreThrows, Leaves
<1>2. i \notin open /\ held \subseteq open
  BY DEF Fresh, Sound, SoundDrive, Opened
<1>3. held' \subseteq open' /\ open' \subseteq open \cup {i} /\ (NothingLeftOpen' => NothingLeftOpen)
  BY <1>1, <1>2 DEF NothingLeftOpen
<1>4. /\ SoundDrive' /\ p # <<>> /\ Find(p) = None /\ ParentOpens(p)
      /\ entries' = With(entries, Slot(p), i)
      /\ \A j \in Inode : kind[j] # "dead" => kind'[j] = kind[j]
  BY <1>1, <1>3, CreatedSound
<1>5. tree' = Cached(Front(p)) /\ Front(p) \in Seq(Name)
  BY <1>4, FrontIsPath DEF Stored, StoreThrows, LooksUpParent, Parent
<1>6. TreeSound(tree)'
  BY <1>4, <1>5, CreatedTree
<1>7. Slot(p) \in (Inode \X Name) \ Pairs /\ kind[Slot(p)[1]] = "catalog"
  BY <1>4, LookedUp
<1>8. work' = work
  BY <1>1 DEF Created, Opening
<1> QED BY <1>4, <1>6, <1>7, <1>8 DEF Effect, Sound, MakesEntry

LEMMA OpenThrowsEffect ==
  ASSUME Sound, NEW p \in Seq(Name), OpenThrows(p), UNCHANGED calls
  PROVE  Effect
<1>1. OpenNewThrows(p) /\ entries' = entries /\ work' = work
  BY DEF OpenThrows, OpenNewThrows, NotCreated, Opening
<1>2. \A j \in Inode : kind[j] # "dead" => kind'[j] = kind[j]
  BY <1>1, NotCreatedSound DEF OpenNewThrows
<1> QED BY <1>1, <1>2, OpenNewThrowsSound DEF Effect

LEMMA CommandEffect ==
  ASSUME Sound, ShellPaths, ShellCommand, UNCHANGED calls
  PROVE  Effect
<1>1. \A p \in Arg \cup Up \cup {cwd} : p \in Seq(Name)
  BY PathIsSeq, FrontIsPath DEF Arg, Up, ShellPaths
<1>2. \A p \in Arg : p # <<>>
  <2> SUFFICES ASSUME <<>> \in Arg PROVE FALSE
    OBVIOUS
  <2>1. Len(<<>>) > Len(cwd) /\ Len(cwd) \in Nat
    BY DEF Arg, ShellPaths
  <2> QED BY <2>1
<1>3. ASSUME NEW p \in Arg \cup Up \cup {cwd}, Ls(p) \/ Cd(p) PROVE Effect
  BY <1>1, <1>3, QueryEffect DEF Ls, Cd
<1>4. ASSUME NEW p \in Arg, Mkdir(p) \/ Rm(p) \/ UploadFile(p) PROVE Effect
  BY <1>1, <1>4, CreateCatalogEffect, RemovePathEffect, ReplacingEffect DEF Mkdir, Rm, UploadFile
<1>5. ASSUME NEW p \in Arg, Cat(p) \/ Touch(p) \/ Download(p) PROVE Effect
  <2>1. p \in Seq(Name) /\ Front(p) \in Seq(Name)
    BY <1>1, <1>2, FrontIsPath
  <2>2. CASE \E d : Reopened(p, d) /\ (tree' = Cached(p) \/ LooksUpParent(p))
    BY <2>1, <2>2, ReopenedEffect DEF LooksUpParent, Parent
  <2>3. CASE \E d : Stored(p, d) \/ StoreThrows(p)
    BY <2>1, <2>3, StoredEffect
  <2>4. CASE OpenThrows(p)
    BY <2>1, <2>4, OpenThrowsEffect
  <2> QED BY <1>5, <2>2, <2>3, <2>4 DEF Cat, Touch, Download
<1>6. ASSUME NEW p \in Upcoming, UploadCatalog(p) \/ UploadCatalogThrows(p) \/ UploadEntry(p)
      PROVE  Effect
  <2>1. p \in Seq(Name)
    BY UpcomingIsPath
  <2> QED BY <1>6, <2>1, CreateCatalogEffect, QueryEffect, ReplacingEffect
        DEF UploadCatalog, UploadCatalogThrows, UploadEntry
<1>7. CASE Put \/ PutThrows
  <2>1. put \in Seq(Name)
    BY DEF ShellPaths
  <2> QED BY <1>7, <2>1, QueryEffect, StoredEffect, OpenThrowsEffect DEF Put, PutThrows
<1>8. CASE Return \/ \E h \in Hosts : UploadDirectory(h)
  <2>1. UNCHANGED vars
    BY <1>8 DEF Return, UploadDirectory
  <2>2. TreeSound(tree)'
    BY <2>1, LooksUpNothing DEF vars
  <2>3. Opened' /\ (NothingLeftOpen' => NothingLeftOpen)
    BY <2>1 DEF vars, Sound, SoundDrive, Opened, NothingLeftOpen
  <2>4. SoundDrive'
    BY <2>1, <2>3, DriveOpens DEF vars, Sound
  <2> QED BY <2>1, <2>2, <2>4 DEF Effect, Sound, vars
<1> QED BY <1>3, <1>4, <1>5, <1>6, <1>7, <1>8 DEF ShellCommand


-----------------------------------------------------------------------------
\* The recursive remove.

LEMMA NewCall ==
  ASSUME SoundDrive, NEW i \in Inode, NEW d \in Inode
  PROVE  /\ Call(i, d) \in CallRecord /\ Call(i, d).index = i /\ Call(i, d).parent = d
         /\ Call(i, d).items = [x \in Items(i) |-> entries[x]]
<1>1. Items(i) \in SUBSET (Inode \X Name) /\ \A x \in Items(i) : entries[x] \in Inode
  BY DEF Items, SoundDrive, Shape
<1>2. [x \in Items(i) |-> entries[x]] \in [Items(i) -> Inode]
  BY <1>1
<1>3. [x \in Items(i) |-> entries[x]] \in Listing
  BY <1>1, <1>2 DEF Listing
<1>4. kind[i] # "catalog" => Items(i) = {}
  BY DEF Items, SoundDrive, Names
<1>5. kind[i] # "catalog" => [x \in {} |-> Root] = [x \in Items(i) |-> entries[x]]
  BY <1>4
<1>6. Call(i, d) = [index |-> i, parent |-> d, items |-> [x \in Items(i) |-> entries[x]]]
  BY <1>5 DEF Call
<1> QED BY <1>3, <1>6 DEF CallRecord

LEMMA RankedStart ==
  ASSUME SoundDrive, Ranked, entries' = entries \/ MakesEntry,
         work' \in Seq(CallRecord), Len(work') \in {0, 1}
  PROVE  Ranked'
<1>1. PICK r \in [Inode -> Nat] : \A x \in Pairs : r[x[1]] < r[entries[x]]
  BY DEF Ranked
<1>2. \A m, n \in 1 .. Len(work') : ~(m < n)
  <2>1. CASE Len(work') = 0
    BY <2>1
  <2>2. CASE Len(work') = 1
    BY <2>2
  <2> QED BY <2>1, <2>2
<1>3. CASE entries' = entries
  BY <1>1, <1>2, <1>3 DEF Ranked
<1>4. CASE MakesEntry
  <2>1. PICK i \in Fresh, x \in (Inode \X Name) \ Pairs :
          kind[x[1]] = "catalog" /\ entries' = With(entries, x, i)
    BY <1>4 DEF MakesEntry
  <2>2. i \in Inode /\ kind[i] = "dead" /\ x[1] \in Inode /\ x[1] # i
    BY <2>1 DEF Fresh
  <2>3. /\ DOMAIN entries' = Pairs \cup {x} /\ entries'[x] = i
        /\ \A y \in Pairs : y # x => entries'[y] = entries[y]
    BY <2>1 DEF With
  <2>4. PICK s : s = [r EXCEPT ![i] = r[x[1]] + 1]
    OBVIOUS
  <2>5. s \in [Inode -> Nat] /\ s[i] = r[x[1]] + 1 /\ \A j \in Inode \ {i} : s[j] = r[j]
    BY <2>2, <2>4
  <2>6. \A y \in Pairs : y[1] \in Inode \ {i} /\ entries[y] \in Inode \ {i}
    BY <2>2 DEF SoundDrive, Shape, Names
  <2>7. ASSUME NEW y \in DOMAIN entries' PROVE s[y[1]] < s[entries'[y]]
    <3>1. CASE y = x
      BY <2>2, <2>3, <2>5, <3>1
    <3>2. CASE y # x
      BY <1>1, <2>3, <2>5, <2>6, <3>2
    <3> QED BY <3>1, <3>2
  <2> QED BY <1>2, <2>5, <2>7 DEF Ranked
<1> QED BY <1>3, <1>4

LEMMA RemovalStart ==
  ASSUME Sound, Linkless, Idle, NEW p \in Seq(Name), RemovePath(p)
  PROVE  /\ Removal' /\ Len(work') \in {0, 1}
         /\ \A n \in 1 .. Len(work') : work'[n].index = Find(p)
<1>1. PICK i, d : i = Find(p) /\ d = Find(Parent(p))
  OBVIOUS
<1>2. p # <<>> /\ i # None /\ entries' = entries /\ work = <<>> /\ Enters(i, d)
  BY <1>1 DEF RemovePath, Idle
<1>3. /\ i \in Inode /\ d \in Inode
      /\ Slot(p) \in Pairs /\ Slot(p)[1] = d /\ entries[Slot(p)] = i
  BY <1>1, <1>2, LookedUp DEF Slot
<1>4. CASE work' = <<>>
  <2>1. Len(work') = 0
    BY <1>4
  <2> QED BY <1>4, <2>1 DEF Removal
<1>5. CASE work' = <<Call(i, d)>> \o work
  <2>1. work' = <<Call(i, d)>>
    BY <1>2, <1>3, <1>5, NewCall DEF Sound
  <2>2. PICK c \in CallRecord : c = Call(i, d) /\ work' = <<c>>
    BY <1>3, <2>1, NewCall DEF Sound
  <2>3. work' \in Seq(CallRecord) /\ Len(work') = 1 /\ work'[1] = c
    BY <2>2
  <2>5. c.index = i /\ c.parent = d /\ c.items = [x \in Items(i) |-> entries[x]]
    BY <1>3, <2>2, NewCall DEF Sound
  <2>4. Pending(1)' = Items(i)
    <3>1. work'[1].index = i /\ entries' = entries
      BY <1>2, <2>3, <2>5
    <3> QED BY ONLY <3>1 DEF Pending, Items
  <2>6. \E x \in Pairs : x[1] = c.parent /\ entries[x] = c.index
    BY <1>3, <2>5
  <2>7. InProgress(1)'
    <3>1. c.items = [x \in Pending(1)' |-> entries'[x]]
      <4>1. PICK S, f : S = Items(i) /\ f = entries
        OBVIOUS
      <4>2. c.items = [x \in S |-> f[x]] /\ Pending(1)' = S /\ entries' = f
        BY <1>2, <2>4, <2>5, <4>1
      <4> QED BY <4>2
    <3>2. ~(1 < Len(work'))
      BY <2>3
    <3> QED BY <1>2, <2>3, <2>6, <3>1, <3>2 DEF InProgress
  <2>8. \A n \in 1 .. Len(work') : n = 1
    BY <2>3
  <2>9. \A n \in 1 .. Len(work') : work'[n].index = Find(p)
    BY <1>1, <2>3, <2>5, <2>8
  <2> QED BY <2>3, <2>7, <2>8, <2>9 DEF Removal
<1> QED BY <1>2, <1>4, <1>5 DEF Enters


\* A call goes on to one of the entries it has to go through.
LEMMA ChildKeeps ==
  ASSUME SoundDrive, Linkless, Removal, Ranked, RemoveChild, work' # <<>>
  PROVE  /\ Removal' /\ Ranked' /\ work' # <<>> /\ UNCHANGED <<kind, links, entries, open, held>>
         /\ Len(work) \in Nat \ {0} /\ Len(work') = Len(work) + 1
         /\ \E x \in Pairs : x[1] = work[1].index /\ work'[1].index = entries[x]
         /\ \A n \in 2 .. Len(work) + 1 : work'[n].index = work[n - 1].index
<1>1. PICK c, k : c = Head(work) /\ k = Len(work)
  OBVIOUS
<1>2. /\ work # <<>> /\ UNCHANGED <<kind, links, entries, open, held>>
      /\ work \in Seq(CallRecord) /\ \A n \in 1 .. k : InProgress(n)
  BY <1>1 DEF RemoveChild, Idle, Removal
<1>3. /\ k \in Nat \ {0} /\ c = work[1] /\ c \in CallRecord /\ work[1] \in CallRecord
      /\ Tail(work) \in Seq(CallRecord) /\ Len(Tail(work)) = k - 1
      /\ \A n \in 1 .. k - 1 : Tail(work)[n] = work[n + 1]
  BY <1>1, <1>2, HeadFacts
<1>4. PICK S, f : S = Items(c.index) /\ f = entries
  OBVIOUS
<1>5. c.items = [y \in S |-> f[y]] /\ c.index \in Inode /\ c.parent \in Inode
  <2>1. InProgress(1) /\ Pending(1) = Items(work[1].index)
    BY <1>2, <1>3 DEF Pending
  <2>2. work[1].items = [y \in Items(work[1].index) |-> entries[y]]
    BY <2>1 DEF InProgress
  <2> QED BY <1>3, <1>4, <2>2 DEF CallRecord
<1>6. PICK x \in S : work' = <<Call(c.items[x], c.index), Rest(c, x)>> \o Tail(work)
  BY <1>1, <1>5 DEF RemoveChild
<1>7. /\ x \in Pairs /\ x[1] = c.index /\ c.items[x] = f[x] /\ f[x] = entries[x]
      /\ entries[x] \in Inode
  BY <1>4, <1>5 DEF Items, SoundDrive, Shape
<1>8. PICK a, b : a = Call(entries[x], c.index) /\ b = Rest(c, x)
  OBVIOUS
<1>9. /\ a \in CallRecord /\ a.index = entries[x] /\ a.parent = c.index
      /\ a.items = [y \in Items(entries[x]) |-> entries[y]]
  BY <1>5, <1>7, <1>8, NewCall
<1>10. /\ b \in CallRecord /\ b.index = c.index /\ b.parent = c.parent
       /\ b.items = [y \in S \ {x} |-> f[y]]
  <2>1. DOMAIN c.items = S /\ \A y \in S : c.items[y] = f[y]
    BY <1>5
  <2>2. [y \in DOMAIN c.items \ {x} |-> c.items[y]] = [y \in S \ {x} |-> f[y]]
    BY <2>1
  <2>3. b = [index |-> c.index, parent |-> c.parent, items |-> [y \in S \ {x} |-> f[y]]]
    BY <1>3, <1>8, <2>2 DEF Rest, CallRecord
  <2>4. S \ {x} \in SUBSET (Inode \X Name) /\ \A y \in S \ {x} : f[y] \in Inode
    BY <1>4 DEF Items, SoundDrive, Shape
  <2>5. [y \in S \ {x} |-> f[y]] \in [S \ {x} -> Inode]
    BY <2>4
  <2>6. [y \in S \ {x} |-> f[y]] \in Listing
    BY <2>4, <2>5 DEF Listing
  <2> QED BY <1>5, <2>3, <2>6 DEF CallRecord
<1>11. /\ work' \in Seq(CallRecord) /\ Len(work') = k + 1 /\ work'[1] = a /\ work'[2] = b
       /\ \A n \in 3 .. k + 1 : work'[n] = work[n - 1]
  <2>1. work' = <<a, b>> \o Tail(work)
    BY <1>6, <1>7, <1>8
  <2>2. <<a, b>> \in Seq(CallRecord) /\ Len(<<a, b>>) = 2
    BY <1>9, <1>10
  <2>3. work' \in Seq(CallRecord) /\ Len(work') = k + 1
    BY <1>3, <2>1, <2>2
  <2>4. work'[1] = a /\ work'[2] = b
    BY <1>3, <2>1, <2>2
  <2>5. ASSUME NEW n \in 3 .. k + 1 PROVE work'[n] = work[n - 1]
    <3>1. n - 2 \in 1 .. k - 1 /\ n - 2 + 1 = n - 1
      BY <1>3
    <3>2. work'[n] = Tail(work)[n - 2]
      BY <1>3, <2>1, <2>2, <3>1
    <3> QED BY <1>3, <3>1, <3>2
  <2> QED BY <2>3, <2>4, <2>5
<1>12. \A n \in 2 .. k + 1 : work'[n].index = work[n - 1].index /\ work'[n].parent = work[n - 1].parent
  <2>1. work'[2].index = work[1].index /\ work'[2].parent = work[1].parent
    BY <1>3, <1>10, <1>11
  <2>2. \A n \in 3 .. k + 1 : work'[n].index = work[n - 1].index /\ work'[n].parent = work[n - 1].parent
    BY <1>11
  <2> QED BY <1>3, <2>1, <2>2
<1>13. \A n \in 1 .. k + 1 : InProgress(n)'
  <2>1. InProgress(1)'
    <3>1. Pending(1)' = Items(entries[x])
      <4>1. work'[1].index = entries[x] /\ entries' = entries
        BY <1>2, <1>9, <1>11
      <4> QED BY ONLY <4>1 DEF Pending, Items
    <3>2. work'[1].items = [y \in Pending(1)' |-> entries'[y]]
      BY <1>2, <1>9, <1>11, <3>1
    <3>3. work'[1].parent = work'[2].index
      BY <1>9, <1>10, <1>11
    <3>4. \E y \in DOMAIN entries' : y[1] = work'[1].parent /\ entries'[y] = work'[1].index
      BY <1>2, <1>7, <1>9, <1>11
    <3> QED BY <3>2, <3>3, <3>4 DEF InProgress
  <2>2. InProgress(2)'
    <3>1. Pending(2)' = S \ {x}
      <4>1. Pending(2)' = { y \in Items(c.index) : entries[y] # entries[x] }
        <5>1. work'[2].index = c.index /\ work'[1].index = entries[x] /\ entries' = entries
          BY <1>2, <1>9, <1>10, <1>11
        <5> QED BY ONLY <5>1 DEF Pending, Items
      <4>2. \A y \in Pairs : entries[y] = entries[x] => y = x
        BY <1>7 DEF SoundDrive, Names
      <4> QED BY <1>4, <1>7, <4>1, <4>2 DEF Items
    <3>2. work'[2].items = [y \in Pending(2)' |-> entries'[y]]
      BY <1>2, <1>4, <1>10, <1>11, <3>1
    <3>3. \E y \in DOMAIN entries' : y[1] = work'[2].parent /\ entries'[y] = work'[2].index
      <4> InProgress(1)
        BY <1>2, <1>3
      <4>1. \E y \in Pairs : y[1] = work[1].parent /\ entries[y] = work[1].index
        BY DEF InProgress
      <4> QED BY <1>2, <1>3, <1>12, <4>1
    <3>4. 2 < k + 1 => work'[2].parent = work'[3].index
      <4> InProgress(1)
        BY <1>2, <1>3
      <4>1. 1 < k => work[1].parent = work[2].index
        BY <1>1 DEF InProgress
      <4>2. 2 < k + 1 => 1 < k /\ 3 \in 2 .. k + 1
        BY <1>3
      <4> QED BY <1>3, <1>12, <4>1, <4>2
    <3> QED BY <1>11, <3>2, <3>3, <3>4 DEF InProgress
  <2>3. ASSUME NEW n \in 3 .. k + 1 PROVE InProgress(n)'
    <3>1. /\ n - 1 \in 2 .. k /\ n - 1 \in 1 .. k /\ n \in 2 .. k + 1 /\ n # 1 /\ n - 1 # 1
          /\ n - 1 \in 2 .. k + 1 /\ n - 1 - 1 = n - 2 /\ work'[n] = work[n - 1]
          /\ n - 1 + 1 = n
      BY <1>3, <1>11
    <3>2. work'[n].index = work[n - 1].index /\ work'[n - 1].index = work[n - 2].index
      BY <1>12, <3>1
    <3>3. Pending(n)' = Pending(n - 1)
      BY ONLY <1>2, <3>1, <3>2 DEF Pending, Items
    <3>4. InProgress(n - 1)
      BY <1>2, <3>1
    <3>5. work'[n].items = [y \in Pending(n)' |-> entries'[y]]
      BY <1>2, <3>1, <3>3, <3>4 DEF InProgress
    <3>6. \E y \in DOMAIN entries' : y[1] = work'[n].parent /\ entries'[y] = work'[n].index
      BY <1>2, <3>1, <3>4 DEF InProgress
    <3>7. n < k + 1 => work'[n].parent = work'[n + 1].index
      <4>1. n < k + 1 => n - 1 < k /\ n + 1 \in 2 .. k + 1 /\ n + 1 - 1 = n
        BY <1>3
      <4>2. n - 1 < k => work[n - 1].parent = work[n].index
        BY <1>1, <3>1, <3>4 DEF InProgress
      <4> QED BY <1>12, <3>1, <4>1, <4>2
    <3> QED BY <1>11, <3>5, <3>6, <3>7 DEF InProgress
  <2> QED BY <1>3, <2>1, <2>2, <2>3
<1>14. Ranked'
  <2>1. PICK r \in [Inode -> Nat] :
          /\ \A y \in Pairs : r[y[1]] < r[entries[y]]
          /\ \A m, n \in 1 .. k : m < n => r[work[n].index] < r[work[m].index]
    BY <1>1 DEF Ranked
  <2>2. r[work[1].index] < r[entries[x]] /\ work[1].index \in Inode
    BY <1>3, <1>5, <1>7, <2>1
  <2>3. \A n \in 1 .. k : work[n].index \in Inode
    <3>1. \A n \in 1 .. k : work[n] \in CallRecord
      BY <1>1, <1>2, <1>3
    <3> QED BY <3>1 DEF CallRecord
  <2>4. ASSUME NEW m \in 1 .. k + 1, NEW n \in 1 .. k + 1, m < n
        PROVE  r[work'[n].index] < r[work'[m].index]
    <3>1. n \in 2 .. k + 1 /\ n - 1 \in 1 .. k /\ work'[n].index = work[n - 1].index
      BY <1>3, <1>12, <2>4
    <3>2. CASE m = 1
      <4>1. work'[m].index = entries[x]
        BY <1>9, <1>11, <3>2
      <4>2. n - 1 = 1 \/ 1 < n - 1
        BY <3>1
      <4>3. r[work[n - 1].index] < r[entries[x]]
        <5>1. r[work[n - 1].index] \in Nat /\ r[work[1].index] \in Nat /\ r[entries[x]] \in Nat
          BY <1>7, <2>2, <2>3, <3>1
        <5>2. n - 1 # 1 => r[work[n - 1].index] < r[work[1].index]
          BY <1>3, <2>1, <3>1, <4>2
        <5> QED BY <2>2, <5>1, <5>2
      <4> QED BY <3>1, <4>1, <4>3
    <3>3. CASE m # 1
      <4>1. m \in 2 .. k + 1 /\ m - 1 \in 1 .. k /\ m - 1 < n - 1 /\ work'[m].index = work[m - 1].index
        BY <1>3, <1>12, <2>4, <3>3
      <4> QED BY <2>1, <3>1, <4>1
    <3> QED BY <3>2, <3>3
  <2> QED BY <1>2, <1>11, <2>1, <2>4 DEF Ranked
<1>15. \E y \in Pairs : y[1] = work[1].index /\ work'[1].index = entries[y]
  BY <1>3, <1>7, <1>9, <1>11
<1>16. work' # <<>>
  BY <1>3, <1>11
<1> QED BY <1>1, <1>2, <1>3, <1>11, <1>12, <1>13, <1>14, <1>15, <1>16 DEF Removal


\* A call drops the entry and frees the inode.
LEMMA EntryKeeps ==
  ASSUME SoundDrive, Linkless, Removal, Ranked, RemoveEntry, UNCHANGED calls,
         work' # <<>> \/ kind' # kind
  PROVE  /\ SoundDrive' /\ Removal' /\ Ranked'
         /\ work' = <<>> => TreeSound(tree)'
         /\ Len(work) \in Nat \ {0} /\ Len(work') = Len(work) - 1
         /\ \A n \in 1 .. Len(work) - 1 : work'[n].index = work[n + 1].index
         /\ work[1].index \in Inode /\ kind' = [kind EXCEPT ![work[1].index] = "dead"]
         /\ \A x \in Pairs : entries[x] # work[1].index => x \in Pairs' /\ entries'[x] = entries[x]
<1>1. PICK c, k : c = Head(work) /\ k = Len(work)
  OBVIOUS
<1>2. /\ work # <<>> /\ UNCHANGED <<links, open, held>>
      /\ work \in Seq(CallRecord) /\ \A n \in 1 .. k : InProgress(n)
  BY <1>1 DEF RemoveEntry, Idle, Removal
<1>3. /\ k \in Nat \ {0} /\ c = work[1] /\ c \in CallRecord
      /\ Tail(work) \in Seq(CallRecord) /\ Len(Tail(work)) = k - 1
      /\ \A n \in 1 .. k - 1 : Tail(work)[n] = work[n + 1]
  BY <1>1, <1>2, HeadFacts
<1>4. /\ DOMAIN c.items = {} /\ IsCatalog(c.parent) /\ c.index \notin open
      /\ entries' = Dropped(entries, c.parent, c.index)
      /\ kind' = [kind EXCEPT ![c.index] = "dead"] /\ work' = Tail(work)
      /\ Len(work) = 1 => ClearTree
  BY <1>1 DEF RemoveEntry
<1>5. PICK i \in Inode, d \in Inode : i = c.index /\ d = c.parent
  BY <1>3 DEF CallRecord
<1>6. InProgress(1)
  BY <1>2, <1>3
<1>7. PICK x \in Pairs : x[1] = d /\ entries[x] = i
  BY <1>3, <1>5, <1>6 DEF InProgress
<1>8. NamesOf(i) = {x} /\ i # Root
  BY <1>7 DEF NamesOf, SoundDrive, Names
<1>9. \A y \in Pairs : y[1] # i
  <2>1. Pending(1) = Items(i)
    BY <1>3, <1>5 DEF Pending
  <2>2. Items(i) = {}
    BY <1>3, <1>4, <1>6, <2>1 DEF InProgress
  <2> QED BY <2>2 DEF Items
<1>10. entries' = [y \in Pairs \ NamesOf(i) |-> entries[y]]
  <2>1. { y \in Pairs : y[1] # d \/ entries[y] # i } = Pairs \ NamesOf(i)
    BY <1>7, <1>8 DEF NamesOf
  <2> QED BY <1>4, <1>5, <2>1 DEF Dropped
<1>11. SoundDrive'
  <2>1. links' \in [Inode -> Nat] /\ \A j \in Inode \ {i} : links'[j] = links[j]
    BY <1>2 DEF SoundDrive, Shape
  <2> QED BY <1>2, <1>4, <1>5, <1>8, <1>9, <1>10, <2>1, DriveFrees
<1>12. PICK r \in [Inode -> Nat] :
         /\ \A y \in Pairs : r[y[1]] < r[entries[y]]
         /\ \A m, n \in 1 .. k : m < n => r[work[n].index] < r[work[m].index]
  BY <1>1 DEF Ranked
<1>13. \A n \in 1 .. k : work[n].index \in Inode /\ (n # 1 => work[n].index # i)
  <2>1. \A n \in 1 .. k : work[n] \in CallRecord
    BY <1>1, <1>2
  <2>2. \A n \in 1 .. k : work[n].index \in Inode
    BY <2>1 DEF CallRecord
  <2>3. ASSUME NEW n \in 1 .. k, n # 1 PROVE work[n].index # i
    <3>1. 1 \in 1 .. k /\ 1 < n
      BY <1>3, <2>3
    <3>2. r[work[n].index] < r[work[1].index]
      BY <1>12, <3>1
    <3>3. r[i] \in Nat
      BY <1>5
    <3> QED BY <1>3, <1>5, <3>2, <3>3
  <2> QED BY <2>2, <2>3
<1>14. /\ DOMAIN entries' = Pairs \ {x}
       /\ \A y \in Pairs \ {x} : entries'[y] = entries[y]
  BY <1>8, <1>10
<1>15. /\ work' \in Seq(CallRecord) /\ Len(work') = k - 1
       /\ \A n \in 1 .. k - 1 : work'[n] = work[n + 1]
  BY <1>3, <1>4
<1>16. ASSUME NEW n \in 1 .. k - 1 PROVE InProgress(n)'
  <2>1. n + 1 \in 1 .. k /\ n + 1 # 1 /\ n + 1 - 1 = n /\ n \in 1 .. k /\ work'[n] = work[n + 1]
    BY <1>3, <1>15
  <2>2. InProgress(n + 1) /\ work[n + 1].index # i
    BY <1>2, <1>13, <2>1
  <2>3. \E y \in DOMAIN entries' : y[1] = work'[n].parent /\ entries'[y] = work'[n].index
    <3>1. PICK y \in Pairs : y[1] = work[n + 1].parent /\ entries[y] = work[n + 1].index
      BY <2>2 DEF InProgress
    <3>2. y # x
      BY <1>7, <2>2, <3>1
    <3> QED BY <1>14, <2>1, <3>1, <3>2
  <2>4. Pending(n)' = Pending(n + 1)
    <3>1. Pending(n + 1) = { y \in Pairs : y[1] = work[n + 1].index /\ entries[y] # work[n].index }
      BY <2>1 DEF Pending, Items
    <3>2. CASE n = 1
      <4>1. Pending(n)' = { y \in DOMAIN entries' : y[1] = work[n + 1].index }
        BY <2>1, <3>2 DEF Pending, Items
      <4>2. \A y \in Pairs : entries[y] = work[n].index <=> y = x
        BY <1>3, <1>5, <1>7, <1>8, <3>2 DEF NamesOf
      <4> QED BY <1>14, <3>1, <4>1, <4>2
    <3>3. CASE n # 1
      <4>1. n - 1 \in 1 .. k - 1 /\ n - 1 + 1 = n
        BY <1>3, <3>3
      <4>2. work'[n - 1].index = work[n].index
        BY <1>15, <4>1
      <4>3. Pending(n)' = { y \in DOMAIN entries' : y[1] = work[n + 1].index /\ entries'[y] # work[n].index }
        BY <2>1, <3>3, <4>2 DEF Pending, Items
      <4>4. x[1] # work[n + 1].index
        <5>1. 2 \in 1 .. k /\ 2 < n + 1 /\ 1 < k
          BY <1>3, <3>3
        <5>2. d = work[2].index
          BY <1>1, <1>3, <1>5, <1>6, <5>1 DEF InProgress
        <5>3. r[work[n + 1].index] < r[d] /\ r[d] \in Nat
          BY <1>12, <2>1, <5>1, <5>2
        <5> QED BY <1>7, <5>3
      <4> QED BY <1>14, <3>1, <4>3, <4>4
    <3> QED BY <3>2, <3>3
  <2>5. \A y \in Pending(n + 1) : entries'[y] = entries[y]
    <3>1. \A y \in Pending(n)' : y \in DOMAIN entries'
      BY DEF Pending, Items
    <3> QED BY <1>14, <2>4, <3>1
  <2>6. work'[n].items = [y \in Pending(n)' |-> entries'[y]]
    BY <2>1, <2>2, <2>4, <2>5 DEF InProgress
  <2>7. n < k - 1 => work'[n].parent = work'[n + 1].index
    <3>1. n < k - 1 => n + 1 < k /\ n + 1 \in 1 .. k - 1
      BY <1>3
    <3>3. n < k - 1 => work'[n + 1] = work[n + 1 + 1]
      BY <1>15, <3>1
    <3>2. n + 1 < k => work[n + 1].parent = work[n + 1 + 1].index
      BY <1>1, <2>2 DEF InProgress
    <3> QED BY <2>1, <3>1, <3>2, <3>3
  <2> QED BY <1>15, <2>3, <2>6, <2>7 DEF InProgress
<1>17. Ranked'
  <2>1. \A y \in DOMAIN entries' : r[y[1]] < r[entries'[y]]
    BY <1>12, <1>14
  <2>2. ASSUME NEW m \in 1 .. k - 1, NEW n \in 1 .. k - 1, m < n
        PROVE  r[work'[n].index] < r[work'[m].index]
    <3>1. m + 1 \in 1 .. k /\ n + 1 \in 1 .. k /\ m + 1 < n + 1
      BY <1>3, <2>2
    <3> QED BY <1>12, <1>15, <3>1
  <2> QED BY <1>15, <2>1, <2>2 DEF Ranked
<1>18. ASSUME work' = <<>> PROVE TreeSound(tree)'
  <2>1. k = 1
    BY <1>3, <1>15, <1>18
  <2>2. tree' = NewTree
    BY <1>1, <1>4, <2>1 DEF ClearTree
  <2>3. DOMAIN tree' = {<<>>} /\ tree'[<<>>] = Root /\ <<>> \in Seq(Name)
    BY <2>2 DEF NewTree
  <2>4. kind'[Root] = "catalog"
    BY <1>11 DEF SoundDrive, Names
  <2> QED BY <2>3, <2>4, RootIsInode DEF TreeSound
<1>19. \A y \in Pairs : entries[y] # i => y \in DOMAIN entries' /\ entries'[y] = entries[y]
  BY <1>7, <1>14
<1>20. Removal'
  BY <1>15, <1>16 DEF Removal
<1> QED BY <1>1, <1>3, <1>4, <1>5, <1>11, <1>15, <1>17, <1>18, <1>19, <1>20

\* A call throws half-way only at what is open.
LEMMA TearsAtOpen ==
  ASSUME SoundDrive, Removal, RemoveChild \/ RemoveEntry, work' = <<>>, kind' = kind
  PROVE  open # {}
<1>1. PICK c : c = Head(work)
  OBVIOUS
<1>2. work # <<>> /\ work \in Seq(CallRecord)
  BY DEF RemoveChild, RemoveEntry, Idle, Removal
<1>3. c = work[1] /\ c \in CallRecord /\ 1 \in 1 .. Len(work)
  BY <1>1, <1>2, HeadFacts
<1>4. InProgress(1)
  BY <1>3 DEF Removal
<1>5. kind[c.parent] = "catalog" /\ kind[c.index] # "dead" /\ c.index \in Inode
  BY <1>3, <1>4 DEF InProgress, SoundDrive, Names, CallRecord
<1>6. CASE RemoveChild
  <2>1. PICK x \in DOMAIN c.items :
          IF kind[c.items[x]] = "catalog" /\ c.items[x] \in open
          THEN work' = <<>>
          ELSE work' = <<Call(c.items[x], c.index), Rest(c, x)>> \o Tail(work)
    BY <1>1, <1>6 DEF RemoveChild
  <2>2. CASE c.items[x] \notin open \/ kind[c.items[x]] # "catalog"
    <3>1. work' = <<Call(c.items[x], c.index), Rest(c, x)>> \o Tail(work)
      BY <2>1, <2>2
    <3>2. Len(work') # 0
      <4>1. PICK a, b : a = Call(c.items[x], c.index) /\ b = Rest(c, x)
        OBVIOUS
      <4>2. PICK S : S = CallRecord \cup {a, b}
        OBVIOUS
      <4>3. Tail(work) \in Seq(CallRecord)
        BY <1>2, HeadFacts
      <4>4. Tail(work) \in Seq(S) /\ <<a, b>> \in Seq(S) /\ Len(<<a, b>>) = 2
        BY <4>2, <4>3
      <4>5. work' = <<a, b>> \o Tail(work)
        BY <3>1, <4>1
      <4>6. Len(work') = 2 + Len(Tail(work)) /\ Len(Tail(work)) \in Nat
        BY <4>4, <4>5, LenConcat
      <4> QED BY <4>6
    <3> QED BY <3>2
  <2> QED BY <2>2
<1>7. CASE RemoveEntry
  <2>1. \/ ~IsCatalog(c.parent) \/ c.index \in open
        \/ kind' = [kind EXCEPT ![c.index] = "dead"]
    BY <1>1, <1>7 DEF RemoveEntry
  <2>2. kind' # [kind EXCEPT ![c.index] = "dead"]
    BY <1>5 DEF SoundDrive, Shape
  <2> QED BY <1>5, <2>1, <2>2 DEF IsCatalog, Openable
<1> QED BY <1>6, <1>7


-----------------------------------------------------------------------------
\* The invariant.

LEMMA InitNsInv == NsInit => NsInv
<1> SUFFICES ASSUME NsInit PROVE NsInv
  OBVIOUS
<1>1. Sound /\ calls \in Programs /\ held = {} /\ work = <<>> /\ ~torn /\ DOMAIN entries = {}
  BY InitSound DEF NsInit, Init
<1>2. ShellPaths
  BY DEF NsInit, ShellInit, ShellPaths
<1>3. Removal
  BY <1>1 DEF Removal
<1>4. Ranked
  <2>1. PICK r : r = [i \in Inode |-> 0]
    OBVIOUS
  <2>2. r \in [Inode -> Nat]
    BY <2>1
  <2> QED BY <1>1, <2>2 DEF Ranked
<1> QED BY <1>1, <1>2, <1>3, <1>4 DEF NsInv, Whole, Sound

LEMMA TosCallSound ==
  ASSUME Sound, TosCall, UNCHANGED calls
  PROVE  Sound' /\ work' = work
<1>1. ASSUME NEW p \in Path,
             \/ Query(p) \/ OpenExisting(p) \/ OpenNew(p) \/ OpenNewThrows(p)
             \/ CreateCatalog(p) \/ Unlink(p) \/ UnlinkThrows(p)
      PROVE  Sound'
  BY <1>1, PathIsSeq, QuerySound, OpenExistingSound, OpenNewSound, OpenNewThrowsSound,
     CreateCatalogSound, UnlinkSound, UnlinkThrowsSound
<1>2. ASSUME NEW p \in Path, NEW q \in Path, Link(p, q) \/ LinkThrows(p, q)
      PROVE  Sound'
  BY <1>2, PathIsSeq, LinkSound, LinkThrowsSound
<1>3. ASSUME OpenRoot \/ \E i \in held : Close(i) PROVE Sound'
  BY <1>3, OpenRootSound, CloseSound
<1>4. work' = work
  <2>1. \A p : Opening(p) \/ Query(p) \/ CreateCatalog(p) \/ Unlink(p) \/ UnlinkThrows(p)
                => work' = work
    BY DEF Opening, Query, CreateCatalog, Unlink, UnlinkThrows
  <2>2. \A p : OpenExisting(p) \/ OpenNew(p) \/ OpenNewThrows(p) => Opening(p)
    BY DEF OpenExisting, ExistingOpened, OpenNew, Created, OpenNewThrows, NotCreated
  <2>3. \A p, q : Link(p, q) \/ LinkThrows(p, q) => work' = work
    BY DEF Link, LinkThrows
  <2>4. OpenRoot \/ (\E i \in held : Close(i)) => work' = work
    BY DEF OpenRoot, Close
  <2> QED BY <2>1, <2>2, <2>3, <2>4 DEF TosCall
<1> QED BY <1>1, <1>2, <1>3, <1>4 DEF TosCall

\* A command of the shell.
LEMMA CommandKeeps ==
  ASSUME NsInv, ~torn, Idle, Toscli, ShellCommand, Tearing, UNCHANGED calls
  PROVE  NsInv'
<1>1. /\ calls \in Programs /\ held = {} /\ ShellPaths /\ Sound /\ Removal /\ Ranked
      /\ Linkless
  BY ProgramsAssumption DEF NsInv, Whole, Sound, Toscli, Linkless
<1>2. Effect
  BY <1>1, CommandEffect
<1>3. ~torn'
  BY DEF Tearing, Idle
<1>4. ShellPaths' /\ held' = {}
  BY <1>1, PathsKept, OpenKept
<1>5. Removal' /\ Ranked'
  <2>1. CASE work' = work
    <3>1. work' = <<>> /\ Len(work') \in {0, 1} /\ work' \in Seq(CallRecord)
      BY <2>1 DEF Idle
    <3>2. Removal'
      BY <3>1 DEF Removal
    <3> QED BY <1>1, <1>2, <3>1, <3>2, RankedStart DEF Effect, Sound
  <2>2. ASSUME NEW p \in Seq(Name), RemovePath(p) PROVE Removal' /\ Ranked'
    <3>1. Removal' /\ Len(work') \in {0, 1} /\ entries' = entries
      BY <1>1, <2>2, RemovalStart DEF RemovePath
    <3> QED BY <1>1, <3>1, RankedStart DEF Removal, Sound
  <2> QED BY <1>2, <2>1, <2>2 DEF Effect
<1> QED BY <1>1, <1>2, <1>3, <1>4, <1>5 DEF NsInv, Whole, Effect, Sound, Toscli

\* A step of a removal.
LEMMA RemovingKeeps ==
  ASSUME NsInv, ~torn, Toscli, Removing, Tearing, UNCHANGED calls
  PROVE  NsInv'
<1>1. /\ calls \in Programs /\ held = {} /\ ShellPaths /\ SoundDrive /\ Removal /\ Ranked
      /\ Linkless /\ ~Idle /\ (RemoveChild \/ RemoveEntry)
  BY ProgramsAssumption DEF NsInv, Whole, Toscli, Linkless, Removing, RemoveChild, RemoveEntry
<1>2. ShellPaths' /\ held' = {} /\ open \subseteq open'
  BY <1>1, PathsKept, OpenKept
<1>3. torn' = (work' = <<>> /\ kind' = kind)
  BY <1>1 DEF Tearing
<1>4. CASE work' = <<>> /\ kind' = kind
  BY <1>1, <1>2, <1>3, <1>4, TearsAtOpen DEF NsInv, Toscli
<1>5. CASE ~(work' = <<>> /\ kind' = kind)
  <2>1. CASE RemoveChild
    <3>1. work' # <<>>
      BY <1>5, <2>1 DEF RemoveChild
    <3>2. Removal' /\ Ranked' /\ UNCHANGED <<kind, links, entries, open, held>>
      BY <1>1, <2>1, <3>1, ChildKeeps
    <3>3. Opened' /\ (NothingLeftOpen' => NothingLeftOpen)
      BY <1>1, <3>2 DEF SoundDrive, Opened, NothingLeftOpen
    <3>4. SoundDrive'
      BY <1>1, <3>2, <3>3, DriveOpens
    <3> QED BY <1>1, <1>2, <1>3, <1>5, <3>1, <3>2, <3>4 DEF NsInv, Whole, Idle, Toscli
  <2>2. CASE RemoveEntry
    <3>1. SoundDrive' /\ Removal' /\ Ranked' /\ (work' = <<>> => TreeSound(tree)')
      BY <1>1, <1>5, <2>2, EntryKeeps
    <3> QED BY <1>1, <1>2, <1>3, <1>5, <3>1 DEF NsInv, Whole, Idle, Toscli
  <2> QED BY <1>1, <2>1, <2>2
<1> QED BY <1>4, <1>5

LEMMA StutterKeeps == NsInv /\ UNCHANGED allVars => NsInv'
<1> SUFFICES ASSUME NsInv, UNCHANGED allVars PROVE NsInv'
  OBVIOUS
<1>1. /\ UNCHANGED <<calls, kind, links, entries, open, held, tree, work, torn>>
      /\ UNCHANGED <<cwd, put, host, frames>>
  BY DEF allVars, vars, shellVars
<1>2. SoundDrive => SoundDrive'
  <2>1. SoundDrive => Opened' /\ (NothingLeftOpen' => NothingLeftOpen)
    BY <1>1 DEF SoundDrive, Opened, NothingLeftOpen
  <2> QED BY <1>1, <2>1, DriveOpens
<1>3. TreeSound(tree) => TreeSound(tree)'
  BY <1>1 DEF TreeSound, Linkless
<1>4. Removal => Removal'
  BY <1>1 DEF Removal, InProgress, Pending, Items
<1>5. Ranked => Ranked'
  BY <1>1 DEF Ranked
<1>6. (ShellPaths => ShellPaths') /\ Toscli' = Toscli /\ Idle' = Idle
  BY <1>1 DEF ShellPaths, Toscli, Idle
<1> QED BY <1>1, <1>2, <1>3, <1>4, <1>5, <1>6 DEF NsInv, Whole

LEMMA NextKeeps == NsInv /\ [Next]_allVars => NsInv'
<1> SUFFICES ASSUME NsInv, [Next]_allVars PROVE NsInv'
  OBVIOUS
<1>1. CASE UNCHANGED allVars
  BY <1>1, StutterKeeps
<1>2. CASE Next
  <2>1. Tearing /\ UNCHANGED calls
    BY <1>2, WhoSteps
  <2>2. CASE ~Toscli /\ TosCall
    <3>1. Sound /\ ~torn /\ work = <<>> /\ calls \in Programs
      BY <2>2 DEF NsInv, Whole, Sound, Idle
    <3>2. Sound' /\ work' = work
      BY <2>1, <2>2, <3>1, TosCallSound
    <3>3. ~torn' /\ ~Toscli'
      BY <2>1, <2>2, <3>1 DEF Tearing, Idle, Toscli
    <3> QED BY <2>1, <2>2, <3>1, <3>2, <3>3 DEF NsInv, Whole, Sound
  <2>3. CASE Toscli /\ (ShellCommand \/ Removing) /\ torn
    <3>1. ShellPaths' /\ held' = held /\ open \subseteq open'
      BY <2>3, PathsKept, OpenKept DEF NsInv
    <3>2. torn'
      BY <2>1, <2>3 DEF Tearing
    <3> QED BY <2>1, <2>3, <3>1, <3>2 DEF NsInv, Toscli
  <2>4. CASE Toscli /\ ShellCommand /\ ~torn /\ Idle
    BY <2>1, <2>4, CommandKeeps
  <2>5. CASE Toscli /\ Removing /\ ~torn
    BY <2>1, <2>5, RemovingKeeps
  <2>6. ShellCommand => Idle
    BY DEF ShellCommand, Ls, Cd, Mkdir, Rm, Cat, Touch, Download, UploadFile, UploadDirectory,
           UploadCatalog, UploadCatalogThrows, UploadEntry, Put, PutThrows, Return, Command,
           Prompt, CreateCatalog, Query, Replacing, RemovePath
  <2> QED BY <1>2, <2>2, <2>3, <2>4, <2>5, <2>6, WhoSteps
<1> QED BY <1>1, <1>2

\* Whatever TOS or the shell of toscli does, in any order and however it fails, the
\* drive stays whole until a removal throws half-way.
THEOREM NsInvAlways == Spec => []NsInv
<1>1. Spec => NsInit /\ [][Next]_allVars
  BY DEF Spec
<1> QED BY <1>1, InitNsInv, NextKeeps, PTL


-----------------------------------------------------------------------------
\* The properties.

\* No entry outlives the inode it names, so that no name comes to mean a file
\* created later at the same index.
THEOREM NoDanglingAlways == Spec => []NoDangling
<1>1. NsInv => NoDangling
  BY DEF NsInv, Whole, SoundDrive, Names, NoDangling
<1> QED BY <1>1, NsInvAlways, PTL

\* i_links of a file counts its entries, in all catalogs, and a catalog has one
\* entry at most, the root none.
THEOREM LinksExactAlways == Spec => []LinksExact
<1>1. NsInv => LinksExact
  <2> SUFFICES ASSUME NsInv, Idle, ~torn, NEW i \in Inode
               PROVE  CASE kind[i] = "file"    -> links[i] = Cardinality(NamesOf(i))
                        [] kind[i] = "catalog" -> Cardinality(NamesOf(i)) <= (IF i = Root THEN 0 ELSE 1)
                        [] OTHER               -> TRUE
    BY DEF LinksExact, NamesOf
  <2>1. SoundDrive
    BY DEF NsInv, Whole
  <2>2. kind[i] = "file" => links[i] = Cardinality(NamesOf(i))
    BY <2>1 DEF SoundDrive, Names
  <2>3. ASSUME kind[i] = "catalog"
        PROVE  Cardinality(NamesOf(i)) <= (IF i = Root THEN 0 ELSE 1)
    <3>1. CASE NamesOf(i) = {}
      <4>1. Cardinality(NamesOf(i)) = 0
        BY <3>1, FS_EmptySet
      <4> QED BY <4>1
    <3>2. CASE NamesOf(i) # {}
      <4>1. PICK x : x \in NamesOf(i)
        BY <3>2
      <4>2. i # Root /\ NamesOf(i) = {x}
        BY <2>1, <2>3, <4>1 DEF SoundDrive, Names, NamesOf
      <4>3. Cardinality(NamesOf(i)) = 1
        BY <4>2, FS_Singleton
      <4> QED BY <4>2, <4>3
    <3> QED BY <3>1, <3>2
  <2> QED BY <2>2, <2>3
<1> QED BY <1>1, NsInvAlways, PTL

\* No path in the cache leads to an inode that has been freed.
THEOREM CachedAreLiveAlways == Spec => []CachedAreLive
<1>1. NsInv => CachedAreLive
  BY DEF NsInv, Whole, TreeSound, CachedAreLive
<1> QED BY <1>1, NsInvAlways, PTL

\* No inode is freed while a caller holds it.
THEOREM HeldIsLiveAlways == Spec => []HeldIsLive
<1>1. NsInv => HeldIsLive
  BY DEF NsInv, Whole, SoundDrive, Opened, HeldIsLive
<1> QED BY <1>1, NsInvAlways, PTL

\* An inode in use without a name is one a call left open when it threw.
THEOREM AllNamedAlways == Spec => []AllNamed
<1>1. NsInv => AllNamed
  <2> SUFFICES ASSUME NsInv, Idle, NothingLeftOpen, NEW i \in Inode \ {Root}, kind[i] # "dead"
               PROVE  \E x \in Pairs : entries[x] = i
    BY DEF AllNamed
  <2>1. ~torn
    BY DEF NsInv, NothingLeftOpen
  <2>2. NamesOf(i) # {}
    BY <2>1 DEF NsInv, Whole, SoundDrive, Nameless
  <2> QED BY <2>2 DEF NamesOf
<1> QED BY <1>1, NsInvAlways, PTL

\* The recursive remove frees no inode that is free already.
THEOREM FreesOnceAlways == Spec => []FreesOnce
<1>1. NsInv => FreesOnce
  <2> SUFFICES ASSUME NsInv, ~Idle, ~torn PROVE kind[Head(work).index] # "dead"
    BY DEF FreesOnce
  <2>1. SoundDrive /\ Removal
    BY DEF NsInv, Whole, Idle
  <2>2. Head(work) = work[1] /\ 1 \in 1 .. Len(work)
    BY <2>1, HeadFacts DEF Removal, Idle
  <2>3. InProgress(1)
    BY <2>1, <2>2 DEF Removal
  <2> QED BY <2>1, <2>2, <2>3 DEF InProgress, SoundDrive, Names
<1> QED BY <1>1, NsInvAlways, PTL

\* In a program that makes no links the cache says of every path what the catalogs
\* say.
THEOREM TreeExactAlways == Spec => []TreeExact
<1>1. NsInv => TreeExact
  <2> SUFFICES ASSUME NsInv, Idle, ~torn, Linkless, NEW p \in DOMAIN tree
               PROVE  Resolve(p) = tree[p]
    BY DEF TreeExact, Linkless
  <2>1. Sound /\ p \in Seq(Name) /\ tree[p] # None
    BY RootIsInode DEF NsInv, Whole, Sound, TreeSound
  <2>2. Find(p) = tree[p]
    BY <2>1, FindFacts DEF Sound, TreeSound, Find, FindIn
  <2> QED BY <2>1, <2>2, FindResolves
<1> QED BY <1>1, NsInvAlways, PTL

-----------------------------------------------------------------------------
\* What stays on the drive.

At(p) == ResolveIn(entries, p)

\* The path is there, and no removal is on its way to any part of it.
Undisturbed(q) ==
  /\ At(q) # None
  /\ \A k \in 1 .. Len(work), n \in 0 .. Len(q) : work[k].index # At(Prefix(q, n))

\* The steps of a trail, each the entry of the one before.
LEMMA Trail ==
  ASSUME SoundDrive, NEW q \in Seq(Name), At(q) # None, NEW n \in 0 .. Len(q)
  PROVE  /\ At(Prefix(q, n)) \in Inode /\ kind[At(Prefix(q, n))] # "dead"
         /\ n = 0 => At(Prefix(q, n)) = Root
         /\ n # 0 => \E x \in Pairs : /\ x = SlotIn(entries, Prefix(q, n))
                                      /\ x[1] = At(Prefix(q, n - 1))
                                      /\ entries[x] = At(Prefix(q, n))
<1>1. \A x \in Pairs : x[1] # None
  BY RootIsInode DEF SoundDrive, Shape
<1>2. CASE n = 0
  <2>1. Prefix(q, n) = <<>> /\ <<>> \in Seq(Name)
    BY <1>2, PrefixFacts
  <2>2. At(Prefix(q, n)) = Root
    BY <2>1, ResolveFacts DEF At
  <2> QED BY <1>2, <2>2, RootIsInode DEF SoundDrive, Names
<1>3. CASE n # 0
  <2>1. PICK x : x = SlotIn(entries, Prefix(q, n))
    OBVIOUS
  <2>2. x \in Pairs /\ entries[x] = At(Prefix(q, n)) /\ x[1] = At(Prefix(q, n - 1))
    BY <1>1, <1>3, <2>1, TrailFacts DEF At
  <2> QED BY <1>3, <2>1, <2>2 DEF SoundDrive, Shape, Names
<1> QED BY <1>2, <1>3

\* A path is where it was while the entries on its way are.
LEMMA TrailKept ==
  ASSUME SoundDrive, NEW q \in Seq(Name), At(q) # None,
         \A x \in Pairs, n \in 0 .. Len(q) :
           entries[x] = At(Prefix(q, n)) => x \in Pairs' /\ entries'[x] = entries[x],
         NEW m \in 0 .. Len(q)
  PROVE  At(Prefix(q, m))' = At(Prefix(q, m))
<1>1. \A x \in Pairs : x[1] # None
  BY RootIsInode DEF SoundDrive, Shape
<1>2. PICK e, f : e = entries /\ f = entries'
  OBVIOUS
<1>3. ASSUME NEW n \in 1 .. Len(q)
      PROVE  SlotIn(e, Prefix(q, n)) \in DOMAIN f /\ f[SlotIn(e, Prefix(q, n))] = e[SlotIn(e, Prefix(q, n))]
  <2>1. n \in 0 .. Len(q) /\ n # 0
    OBVIOUS
  <2>2. PICK x \in Pairs : x = SlotIn(entries, Prefix(q, n)) /\ entries[x] = At(Prefix(q, n))
    BY <2>1, Trail
  <2> QED BY <1>2, <2>1, <2>2
<1>4. ResolveIn(f, Prefix(q, m)) = ResolveIn(e, Prefix(q, m))
  BY <1>1, <1>2, <1>3, ResolveKept DEF At
<1> QED BY <1>2, <1>4 DEF At

\* What a step does to the path q that was there: nothing.
LeftAlone(q) ==
  /\ Undisturbed(q)' /\ At(q)' = At(q)
  /\ At(q) \in Inode /\ kind[At(q)] # "dead" /\ kind'[At(q)] = kind[At(q)]

LEMMA AddingLeaves ==
  ASSUME SoundDrive, NEW q \in Seq(Name), Undisturbed(q),
         entries' = entries \/ MakesEntry,
         \A j \in Inode : kind[j] # "dead" => kind'[j] = kind[j],
         \A k \in 1 .. Len(work'), n \in 0 .. Len(q) : work'[k].index # At(Prefix(q, n))
  PROVE  LeftAlone(q)
<1>1. \A x \in Pairs : x \in Pairs' /\ entries'[x] = entries[x]
  BY DEF MakesEntry, With
<1>2. \A n \in 0 .. Len(q) : At(Prefix(q, n))' = At(Prefix(q, n))
  BY <1>1, TrailKept DEF Undisturbed
<1>3. Len(q) \in 0 .. Len(q) /\ Prefix(q, Len(q)) = q
  BY PrefixFacts
<1>4. At(q) \in Inode /\ kind[At(q)] # "dead"
  BY <1>3, Trail DEF Undisturbed
<1>5. At(q)' = At(q)
  BY <1>2, <1>3
<1>6. Undisturbed(q)'
  BY <1>2, <1>5 DEF Undisturbed
<1> QED BY <1>4, <1>5, <1>6 DEF LeftAlone

\* A removal of another path begins.
LEMMA StartLeaves ==
  ASSUME Sound, Linkless, Idle, NEW p \in Seq(Name), RemovePath(p),
         NEW q \in Seq(Name), Undisturbed(q), \A n \in 0 .. Len(q) : p # Prefix(q, n)
  PROVE  LeftAlone(q)
<1>1. /\ entries' = entries /\ kind' = kind /\ Find(p) # None
      /\ \A k \in 1 .. Len(work') : work'[k].index = Find(p)
  BY RemovalStart DEF RemovePath
<1>2. At(p) = Find(p)
  BY <1>1, FindResolves, ResolveIsIn DEF At
<1>3. ASSUME NEW n \in 0 .. Len(q) PROVE Find(p) # At(Prefix(q, n))
  <2>1. Prefix(q, n) \in Seq(Name) /\ p # Prefix(q, n)
    BY PrefixFacts
  <2>2. Resolve(p) = At(p) /\ Resolve(Prefix(q, n)) = At(Prefix(q, n))
    BY ResolveIsIn DEF At
  <2> QED BY <1>1, <1>2, <2>1, <2>2, ResolveUnique DEF Sound
<1> QED BY <1>1, <1>3, AddingLeaves DEF Sound

\* A removal goes down, along the entries.
LEMMA ChildLeaves ==
  ASSUME SoundDrive, Linkless, Removal, Ranked, RemoveChild, work' # <<>>,
         NEW q \in Seq(Name), Undisturbed(q)
  PROVE  LeftAlone(q)
<1>1. /\ UNCHANGED <<kind, entries>>
      /\ Len(work) \in Nat \ {0} /\ Len(work') = Len(work) + 1
      /\ \A n \in 2 .. Len(work) + 1 : work'[n].index = work[n - 1].index
  BY ChildKeeps
<1>2. PICK x \in Pairs : x[1] = work[1].index /\ work'[1].index = entries[x]
  BY ChildKeeps
<1>3. ASSUME NEW n \in 0 .. Len(q) PROVE entries[x] # At(Prefix(q, n))
  <2>1. CASE n = 0
    BY <2>1, Trail DEF Undisturbed, SoundDrive, Names
  <2>2. CASE n # 0
    <3>1. PICK y \in Pairs : y[1] = At(Prefix(q, n - 1)) /\ entries[y] = At(Prefix(q, n))
      BY <2>2, Trail DEF Undisturbed
    <3>2. n - 1 \in 0 .. Len(q) /\ 1 \in 1 .. Len(work)
      BY <1>1, <2>2
    <3>3. y[1] # x[1]
      BY <1>2, <3>1, <3>2 DEF Undisturbed
    <3> QED BY <3>1, <3>3 DEF SoundDrive, Names
  <2> QED BY <2>1, <2>2
<1>4. ASSUME NEW k \in 1 .. Len(work'), NEW n \in 0 .. Len(q)
      PROVE  work'[k].index # At(Prefix(q, n))
  <2>1. CASE k = 1
    BY <1>2, <1>3, <2>1
  <2>2. CASE k # 1
    <3>1. k \in 2 .. Len(work) + 1 /\ k - 1 \in 1 .. Len(work)
      BY <1>1, <2>2
    <3> QED BY <1>1, <3>1 DEF Undisturbed
  <2> QED BY <2>1, <2>2
<1> QED BY <1>1, <1>4, AddingLeaves

\* A removal takes an entry out.
LEMMA EntryLeaves ==
  ASSUME SoundDrive, Linkless, Removal, Ranked, RemoveEntry, UNCHANGED calls,
         work' # <<>> \/ kind' # kind,
         NEW q \in Seq(Name), Undisturbed(q)
  PROVE  LeftAlone(q)
<1>1. /\ Len(work) \in Nat \ {0} /\ Len(work') = Len(work) - 1
      /\ \A n \in 1 .. Len(work) - 1 : work'[n].index = work[n + 1].index
      /\ work[1].index \in Inode /\ kind' = [kind EXCEPT ![work[1].index] = "dead"]
      /\ \A x \in Pairs : entries[x] # work[1].index => x \in Pairs' /\ entries'[x] = entries[x]
  BY EntryKeeps
<1>2. 1 \in 1 .. Len(work)
  BY <1>1
<1>3. \A n \in 0 .. Len(q) : work[1].index # At(Prefix(q, n))
  BY <1>2 DEF Undisturbed
<1>4. \A n \in 0 .. Len(q) : At(Prefix(q, n))' = At(Prefix(q, n))
  BY <1>1, <1>3, TrailKept DEF Undisturbed
<1>5. Len(q) \in 0 .. Len(q) /\ Prefix(q, Len(q)) = q
  BY PrefixFacts
<1>6. At(q) \in Inode /\ kind[At(q)] # "dead"
  BY <1>5, Trail DEF Undisturbed
<1>7. At(q)' = At(q) /\ kind'[At(q)] = kind[At(q)]
  BY <1>1, <1>3, <1>4, <1>5, <1>6 DEF SoundDrive, Shape
<1>8. ASSUME NEW k \in 1 .. Len(work'), NEW n \in 0 .. Len(q)
      PROVE  work'[k].index # At(Prefix(q, n))
  <2>1. k \in 1 .. Len(work) - 1 /\ k + 1 \in 1 .. Len(work)
    BY <1>1
  <2> QED BY <1>1, <2>1 DEF Undisturbed
<1>9. Undisturbed(q)'
  BY <1>4, <1>7, <1>8 DEF Undisturbed
<1> QED BY <1>6, <1>7, <1>9 DEF LeftAlone

\* A new entry: the path leads to it.
LEMMA NewIsThere ==
  ASSUME Sound, Linkless, NEW p \in Seq(Name), p # <<>>, ParentOpens(p), Find(p) = None,
         NEW i, i # None, entries' = With(entries, Slot(p), i), work' = <<>>
  PROVE  Undisturbed(p)' /\ At(p)' = i
<1>1. PICK q : q = Front(p)
  OBVIOUS
<1>2. q \in Seq(Name) /\ Find(q) # None /\ Slot(p) = <<Find(q), Last(p)>> /\ Slot(p) \notin Pairs
  BY <1>1, FrontIsPath, LookedUp DEF ParentOpens, Slot, Parent
<1>3. At(q) = Find(q)
  BY <1>2, FindResolves, ResolveIsIn DEF At
<1>4. \A x \in Pairs : x \in Pairs' /\ entries'[x] = entries[x]
  BY <1>2 DEF With
<1>5. \A m \in 0 .. Len(q) : At(Prefix(q, m))' = At(Prefix(q, m))
  BY <1>2, <1>3, <1>4, TrailKept DEF Sound
<1>6. At(q)' = At(q)
  BY <1>2, <1>5, PrefixFacts
<1>7. At(p)' = NextIn(entries', At(q)', Last(p))
  BY <1>1, ResolveFacts DEF At
<1>8. At(p)' = i
  BY <1>2, <1>3, <1>6, <1>7 DEF NextIn, With
<1> QED BY <1>8 DEF Undisturbed


-----------------------------------------------------------------------------
\* The host's directory and how far the upload is.

LEMMA HostFacts ==
  ASSUME NEW h \in Hosts, NEW q \in DOMAIN h.kind
  PROVE  /\ q \in Seq(Name) /\ q # <<>> /\ h.kind[q] \in {"file", "catalog"}
         /\ \A n \in 1 .. Len(q) : Prefix(q, n) \in DOMAIN h.kind
         /\ \A n \in 1 .. Len(q) - 1 : h.kind[Prefix(q, n)] = "catalog"
<1>1. /\ q \in Seq(Name) /\ q # <<>> /\ h.kind[q] \in {"file", "catalog"}
      /\ \A p \in DOMAIN h.kind :
           Len(p) > 1 => Front(p) \in DOMAIN h.kind /\ h.kind[Front(p)] = "catalog"
  BY HostAssumption, PathIsSeq
<1>2. ASSUME NEW n \in 1 .. Len(q) - 1, Prefix(q, n + 1) \in DOMAIN h.kind
      PROVE  Prefix(q, n) \in DOMAIN h.kind /\ h.kind[Prefix(q, n)] = "catalog"
  <2>1. n + 1 \in 0 .. Len(q) /\ n + 1 # 0 /\ n + 1 - 1 = n /\ n + 1 > 1
    BY <1>1
  <2>2. Front(Prefix(q, n + 1)) = Prefix(q, n) /\ Len(Prefix(q, n + 1)) = n + 1
    BY <1>1, <2>1, PrefixFacts
  <2> QED BY <1>1, <1>2, <2>1, <2>2
<1> DEFINE U == { k \in Nat : k < Len(q) /\ Prefix(q, Len(q) - k) \notin DOMAIN h.kind }
<1>3. U = {}
  <2> SUFFICES ASSUME U # {} PROVE FALSE
    OBVIOUS
  <2>1. PICK k \in U : \A m \in U : k <= m
    BY LeastNumber
  <2>2. Len(q) \in Nat /\ Prefix(q, Len(q)) = q
    BY <1>1, PrefixFacts
  <2>3. k # 0
    BY <2>1, <2>2
  <2>4. k - 1 \in Nat /\ k - 1 \notin U /\ k - 1 < Len(q)
    BY <2>1, <2>2, <2>3
  <2>5. Prefix(q, Len(q) - (k - 1)) \in DOMAIN h.kind
    BY <2>4
  <2>6. Len(q) - k \in 1 .. Len(q) - 1 /\ Len(q) - k + 1 = Len(q) - (k - 1)
    BY <2>1, <2>2, <2>3
  <2>7. Prefix(q, Len(q) - k + 1) \in DOMAIN h.kind
    BY <2>5, <2>6
  <2>8. Prefix(q, Len(q) - k) \in DOMAIN h.kind
    BY <1>2, <2>6, <2>7
  <2> QED BY <2>1, <2>8
<1>4. ASSUME NEW n \in 1 .. Len(q) PROVE Prefix(q, n) \in DOMAIN h.kind
  <2>1. PICK k : k = Len(q) - n
    OBVIOUS
  <2>2. k \in Nat /\ k < Len(q) /\ Len(q) - k = n
    BY <1>1, <2>1
  <2>3. Prefix(q, Len(q) - k) \in DOMAIN h.kind
    BY <1>3, <2>2
  <2> QED BY <2>2, <2>3
<1>5. ASSUME NEW n \in 1 .. Len(q) - 1 PROVE h.kind[Prefix(q, n)] = "catalog"
  <2>1. n + 1 \in 1 .. Len(q)
    BY <1>1
  <2> QED BY <1>2, <1>4, <2>1
<1> QED BY <1>1, <1>4, <1>5

\* What is below p in the host's directory is in the frame of p.
LEMMA BelowFacts ==
  ASSUME NEW h \in Hosts, NEW q \in DOMAIN h.kind, NEW n \in 1 .. Len(q)
  PROVE  Last(Prefix(q, n)) \in Below(h, Prefix(q, n - 1)) /\ Front(Prefix(q, n)) = Prefix(q, n - 1)
<1>1. q \in Seq(Name) /\ Prefix(q, n) \in DOMAIN h.kind
  BY HostFacts
<1>2. Front(Prefix(q, n)) = Prefix(q, n - 1)
  <2>1. n \in 0 .. Len(q) /\ n # 0
    BY <1>1
  <2> QED BY <1>1, <2>1, PrefixFacts
<1> QED BY <1>1, <1>2 DEF Below

\* No directory of the host has a file where the path has a catalog.
Unopposed(q) ==
  \A h \in Hosts, n \in 1 .. Len(q) :
    Prefix(q, n) \in DOMAIN h.kind => h.kind[Prefix(q, n)] = "catalog"

CwdStays == Unopposed(cwd) => Undisturbed(cwd) /\ kind[At(cwd)] = "catalog"

\* The upload is through with the entry r itself, and with all of the path q.
Passed(r) ==
  /\ r # put
  /\ \A m \in 1 .. Len(frames) : Front(r) = frames[m].at => Last(r) \notin frames[m].rest

Done(q) == \A n \in 1 .. Len(q) : Passed(Prefix(q, n))

Uploaded(q) ==
  /\ Undisturbed(q) /\ kind[At(q)] = host.kind[q]
  /\ kind[At(q)] = "file" => data[At(q)] = "host"
  /\ table = host => perms[At(q)] = (IF q \in host.perms THEN "listed" ELSE "default")

UploadStays ==
  frames # <<>> =>
    /\ host \in Hosts
    /\ \A m \in 1 .. Len(frames) : frames[m].rest \subseteq Below(host, frames[m].at)
    /\ put # <<>> => put \in DOMAIN host.kind /\ host.kind[put] = "file"
    /\ \A q \in DOMAIN host.kind : Done(q) => Uploaded(q)

ShellInv ==
  /\ NsInv
  /\ ~Toscli => cwd = <<>> /\ frames = <<>>
  /\ Toscli /\ ~torn => CwdStays /\ UploadStays

-----------------------------------------------------------------------------
\* What the commands remove.

LEMMA UpcomingIsListed ==
  ASSUME ShellPaths, UploadStays, NEW p \in Upcoming
  PROVE  /\ p \in DOMAIN host.kind /\ host \in Hosts
         /\ Len(frames) \in Nat \ {0} /\ Front(p) = frames[1].at /\ Last(p) \in frames[1].rest
<1>1. /\ p \in Seq(Name) /\ p # <<>> /\ frames # <<>>
      /\ p \in { Append(Head(frames).at, n) : n \in Head(frames).rest }
  BY UpcomingIsPath DEF Upcoming
<1>2. PICK n \in Head(frames).rest : p = Append(Head(frames).at, n)
  BY <1>1
<1>3. /\ Len(frames) \in Nat \ {0} /\ Head(frames) = frames[1]
      /\ frames[1].at \in Seq(Name) /\ frames[1].rest \subseteq Name
  <2>1. /\ Len(frames) \in Nat \ {0} /\ Head(frames) = frames[1]
        /\ frames[1] \in [at : Seq(Name), rest : SUBSET Name]
    BY <1>1, HeadFacts DEF ShellPaths
  <2> QED BY <2>1
<1>4. Front(p) = frames[1].at /\ Last(p) = n
  <2>1. PICK a : a = frames[1].at
    OBVIOUS
  <2>2. a \in Seq(Name) /\ n \in Name /\ p = Append(a, n)
    BY <1>2, <1>3, <2>1
  <2>3. p # <<>> /\ p \in Seq(Name) /\ Len(p) = Len(a) + 1 /\ Len(a) \in Nat /\ p[Len(a) + 1] = n
        /\ \A k \in 1 .. Len(a) : p[k] = a[k]
    BY <2>2
  <2>4. Last(p) = n
    BY <2>3 DEF Last
  <2>5. Front(p) \in Seq(Name) /\ Len(Front(p)) = Len(a)
    BY <2>3, FrontIsPath
  <2>6. p = Append(Front(p), Last(p))
    BY <2>3, FrontIsPath
  <2>7. \A k \in 1 .. Len(a) : Front(p)[k] = a[k]
    BY <2>3, <2>5, <2>6
  <2>8. Front(p) = a
    BY <2>2, <2>5, <2>7
  <2> QED BY <2>1, <2>4, <2>8
<1>5. host \in Hosts /\ frames[1].rest \subseteq Below(host, frames[1].at)
  BY <1>1, <1>3 DEF UploadStays
<1>6. PICK r \in DOMAIN host.kind : Front(r) = frames[1].at /\ Last(r) = n
  BY <1>2, <1>3, <1>5 DEF Below
<1>7. r \in Seq(Name) /\ r # <<>>
  BY <1>5, HostFacts
<1>8. r = p
  BY <1>1, <1>4, <1>6, <1>7, FrontIsPath
<1> QED BY <1>2, <1>3, <1>4, <1>5, <1>6, <1>8


LEMMA CommandIsIdle ==
  ASSUME ShellCommand
  PROVE  Idle
  BY DEF ShellCommand, Ls, Cd, Mkdir, Rm, Cat, Touch, Download, UploadFile, UploadDirectory,
         UploadCatalog, UploadCatalogThrows, UploadEntry, Put, PutThrows, Return, Command,
         Prompt, CreateCatalog, Query, Replacing, RemovePath

\* A command takes no path away but by rm, upload of a file, and what the upload of
\* a directory finds under the name of a file.
LEMMA CommandRemoves ==
  ASSUME ShellPaths, UploadStays, ShellCommand
  PROVE  \/ work' = work
         \/ \E p \in Arg : RemovePath(p) /\ UNCHANGED cwd /\ frames = <<>> /\ frames' = <<>>
         \/ \E p \in Upcoming : UploadEntry(p) /\ RemovePath(p)
<1>1. \A p : Query(p) \/ CreateCatalog(p) => work' = work
  BY DEF Query, CreateCatalog
<1>2. \A p, d : Reopened(p, d) \/ Stored(p, d) \/ StoreThrows(p) \/ OpenThrows(p) => work' = work
  BY DEF Reopened, Stored, StoreThrows, OpenThrows, OpenNewThrows, NotCreated, Created, Opening
<1>3. ASSUME NEW p, Ls(p) \/ Cd(p) \/ Mkdir(p) \/ Cat(p) \/ Touch(p) \/ Download(p)
      PROVE  work' = work
  BY <1>1, <1>2, <1>3 DEF Ls, Cd, Mkdir, Cat, Touch, Download
<1>4. ASSUME NEW p \in Arg, Rm(p)
      PROVE  RemovePath(p) /\ UNCHANGED cwd /\ frames = <<>> /\ frames' = <<>>
  BY <1>4 DEF Rm, Command, Prompt, jobVars
<1>5. ASSUME NEW p \in Arg, UploadFile(p)
      PROVE  work' = work \/ (RemovePath(p) /\ UNCHANGED cwd /\ frames = <<>> /\ frames' = <<>>)
  BY <1>1, <1>5 DEF UploadFile, Replacing, Prompt
<1>6. ASSUME NEW p \in Upcoming, UploadCatalog(p) \/ UploadCatalogThrows(p)
      PROVE  work' = work
  BY <1>1, <1>6 DEF UploadCatalog, UploadCatalogThrows
<1>7. ASSUME NEW p \in Upcoming, UploadEntry(p)
      PROVE  work' = work \/ (UploadEntry(p) /\ RemovePath(p))
  BY <1>1, <1>7 DEF UploadEntry, Replacing
<1>8. ASSUME Put \/ PutThrows PROVE work' = work
  BY <1>1, <1>2, <1>8 DEF Put, PutThrows
<1>9. ASSUME Return \/ \E h \in Hosts : UploadDirectory(h) PROVE work' = work
  BY <1>9 DEF Return, UploadDirectory, vars
<1> QED BY <1>3, <1>4, <1>5, <1>6, <1>7, <1>8, <1>9 DEF ShellCommand

\* What a step does not remove it leaves alone.
LEMMA StepLeaves ==
  ASSUME NsInv, ~torn, ~torn', Toscli, ShellCommand \/ Removing, Tearing, UNCHANGED calls,
         NEW q \in Seq(Name), Undisturbed(q),
         \/ Removing
         \/ work' = work
         \/ \E p \in Seq(Name) : RemovePath(p) /\ \A n \in 0 .. Len(q) : p # Prefix(q, n)
  PROVE  LeftAlone(q)
<1>1. /\ ShellPaths /\ SoundDrive /\ (Idle => Sound) /\ Removal /\ Ranked /\ Linkless
  BY ProgramsAssumption DEF NsInv, Whole, Sound, Toscli, Linkless
<1>2. CASE Removing
  <2>1. ~Idle /\ (RemoveChild \/ RemoveEntry)
    BY <1>2 DEF Removing, RemoveChild, RemoveEntry
  <2>2. ~(work' = <<>> /\ kind' = kind)
    BY <2>1 DEF Tearing
  <2>3. RemoveChild => work' # <<>>
    BY <2>2 DEF RemoveChild
  <2> QED BY <1>1, <2>1, <2>2, <2>3, ChildLeaves, EntryLeaves
<1>3. CASE ~Removing
  <2>1. ShellCommand /\ Idle
    BY <1>3, CommandIsIdle
  <2>2. Sound /\ Effect
    BY <1>1, <2>1, CommandEffect
  <2>3. CASE work' = work
    <3>1. \A k \in 1 .. Len(work'), n \in 0 .. Len(q) : work'[k].index # At(Prefix(q, n))
      BY <2>3 DEF Undisturbed
    <3> QED BY <2>2, <3>1, AddingLeaves DEF Effect, Sound
  <2>4. ASSUME NEW p \in Seq(Name), RemovePath(p), \A n \in 0 .. Len(q) : p # Prefix(q, n)
        PROVE  LeftAlone(q)
    BY <1>1, <2>1, <2>2, <2>4, StartLeaves
  <2> QED BY <1>3, <2>3, <2>4
<1> QED BY <1>2, <1>3


-----------------------------------------------------------------------------
\* The current path.

LEMMA CwdKept ==
  ASSUME NsInv, ~torn, ~torn', Toscli, ShellCommand \/ Removing, Tearing, UNCHANGED calls,
         CwdStays, UploadStays
  PROVE  CwdStays'
<1>1. /\ ShellPaths /\ SoundDrive /\ (Idle => Sound) /\ Linkless
  BY ProgramsAssumption DEF NsInv, Whole, Sound, Toscli, Linkless
<1>2. ASSUME NEW p \in Seq(Name), Cd(p) PROVE CwdStays'
  <2>1. /\ Query(p) /\ Find(p) # None /\ kind[Find(p)] # "file" /\ cwd' = p
        /\ work = <<>> /\ work' = <<>> /\ entries' = entries /\ kind' = kind /\ Sound
    BY <1>1, <1>2 DEF Cd, Query, Idle
  <2>2. At(p) = Find(p) /\ Find(p) \in Inode /\ kind[Find(p)] # "dead"
    BY <1>1, <2>1, FindResolves, LookedUp, ResolveIsIn DEF At
  <2>3. kind[Find(p)] = "catalog"
    BY <2>1, <2>2 DEF Sound, SoundDrive, Shape
  <2>4. At(p)' = At(p) /\ At(cwd)' = At(p)
    BY <2>1 DEF At
  <2>5. Undisturbed(cwd)'
    BY <2>1, <2>2, <2>4, RootIsInode DEF Undisturbed
  <2> QED BY <2>1, <2>2, <2>3, <2>4, <2>5 DEF CwdStays
<1>3. ASSUME cwd' = cwd PROVE CwdStays'
  <2>1. PICK c \in Seq(Name) : c = cwd
    BY <1>1 DEF ShellPaths
  <2> SUFFICES ASSUME Unopposed(c) PROVE Undisturbed(c)' /\ kind'[At(c)'] = "catalog"
    BY <1>3, <2>1 DEF CwdStays, Unopposed, Undisturbed, At
  <2>2. Undisturbed(c) /\ kind[At(c)] = "catalog"
    BY <2>1 DEF CwdStays
  <2>3. ASSUME NEW p \in Arg
        PROVE  p \in Seq(Name) /\ \A n \in 0 .. Len(c) : p # Prefix(c, n)
    <3>1. p \in Seq(Name) /\ Len(p) > Len(c) /\ Len(c) \in Nat
      BY <2>1, PathIsSeq DEF Arg
    <3>2. \A n \in 0 .. Len(c) : Len(Prefix(c, n)) = n
      BY PrefixFacts
    <3> QED BY <3>1, <3>2
  <2>4. ASSUME NEW p \in Upcoming, UploadEntry(p)
        PROVE  p \in Seq(Name) /\ \A n \in 0 .. Len(c) : p # Prefix(c, n)
    <3>1. /\ p \in Seq(Name) /\ p # <<>> /\ p \in DOMAIN host.kind /\ host \in Hosts
          /\ host.kind[p] = "file"
      BY <1>1, <2>4, UpcomingIsPath, UpcomingIsListed DEF UploadEntry
    <3>2. Prefix(c, 0) = <<>>
      BY PrefixFacts
    <3>3. \A n \in 1 .. Len(c) : p # Prefix(c, n)
      BY <3>1 DEF Unopposed
    <3> QED BY <3>1, <3>2, <3>3
  <2>5. \/ Removing \/ work' = work
        \/ \E p \in Seq(Name) : RemovePath(p) /\ \A n \in 0 .. Len(c) : p # Prefix(c, n)
    BY <1>1, <2>3, <2>4, CommandRemoves
  <2>6. LeftAlone(c)
    BY <2>2, <2>5, StepLeaves
  <2> QED BY <2>2, <2>6 DEF LeftAlone
<1>4. cwd' = cwd \/ \E p \in Seq(Name) : Cd(p)
  <2>1. \A p \in Arg \cup Up \cup {cwd} : p \in Seq(Name)
    BY <1>1, PathIsSeq, FrontIsPath DEF Arg, Up, ShellPaths
  <2>2. ShellCommand => cwd' = cwd \/ \E p \in Arg \cup Up \cup {cwd} : Cd(p)
    BY DEF ShellCommand, Ls, Mkdir, Rm, Cat, Touch, Download, UploadFile, UploadDirectory,
           UploadCatalog, UploadCatalogThrows, UploadEntry, Put, PutThrows, Return
  <2> QED BY <2>1, <2>2 DEF Removing
<1> QED BY <1>2, <1>3, <1>4


-----------------------------------------------------------------------------
\* The upload of a directory.

\* What is uploaded stays so while nothing touches it.
LEMMA StillUploaded ==
  ASSUME NEW q, Uploaded(q), LeftAlone(q), UNCHANGED <<host, table>>,
         data' = data \/ (\E d : Content(d, Made)) \/ (\E d : Content(d, {})),
         perms' = perms \/ Permitted(Made) \/ Permitted({})
  PROVE  Uploaded(q)'
<1>1. PICK i \in Inode : i = At(q)
  BY DEF LeftAlone
<1>2. kind[i] # "dead" /\ kind'[i] = kind[i] /\ i \notin Made /\ At(q)' = i /\ Undisturbed(q)'
  BY <1>1 DEF LeftAlone, Made
<1>3. data'[i] = data[i]
  BY <1>2 DEF Content
<1>4. perms'[i] = perms[i]
  BY <1>2 DEF Permitted
<1> QED BY <1>1, <1>2, <1>3, <1>4 DEF Uploaded

\* A file or catalog made under its name is uploaded at once.
LEMMA NewUploaded ==
  ASSUME Sound, Linkless, NEW p \in DOMAIN host.kind, p \in Seq(Name), p # <<>>,
         ParentOpens(p), Find(p) = None, NEW i \in Fresh, NEW k \in {"file", "catalog"},
         kind' = [kind EXCEPT ![i] = k],
         entries' = With(entries, Slot(p), i), work' = <<>>, UNCHANGED <<host, table>>,
         host.kind[p] = k, k = "file" => Content("host", Made),
         Permitted(IF p \in table.perms THEN Made ELSE {})
  PROVE  Uploaded(p)'
<1>1. i \in Inode /\ kind[i] = "dead" /\ i # None
  BY RootIsInode DEF Fresh
<1>2. kind'[i] = k
  BY <1>1 DEF Sound, SoundDrive, Shape
<1>3. i \in Made /\ kind'[i] # kind[i]
  BY <1>1, <1>2 DEF Made
<1>4. Undisturbed(p)' /\ At(p)' = i
  BY <1>1, NewIsThere
<1>5. k = "file" => data'[i] = "host"
  BY <1>1, <1>3 DEF Content
<1>6. perms'[i] = IF p \in table.perms THEN "listed" ELSE "default"
  BY <1>1, <1>3 DEF Permitted
<1> QED BY <1>2, <1>4, <1>5, <1>6 DEF Uploaded

\* The frames once the entry p is being done: no other entry is through now.
LEMMA LeftFacts ==
  ASSUME ShellPaths, UploadStays, NEW p \in Upcoming
  PROVE  /\ Len(Left(p)) = Len(frames) /\ Len(frames) \in Nat \ {0}
         /\ \A m \in 1 .. Len(frames) : Left(p)[m].at = frames[m].at /\ Left(p)[m].rest \subseteq frames[m].rest
         /\ \A r \in Seq(Name), m \in 1 .. Len(frames) :
              /\ r # <<>> /\ r # p /\ Front(r) = frames[m].at /\ Last(r) \in frames[m].rest
              => Last(r) \in Left(p)[m].rest
<1>1. Len(frames) \in Nat \ {0} /\ Front(p) = frames[1].at /\ p \in Seq(Name) /\ p # <<>>
  BY UpcomingIsListed, UpcomingIsPath
<1>2. PICK F : F = [at : Seq(Name), rest : SUBSET Name]
  OBVIOUS
<1>3. frames \in Seq(F) /\ \A m \in 1 .. Len(frames) : frames[m] \in F
  <2>1. frames \in Seq(F)
    BY <1>2 DEF ShellPaths
  <2> QED BY <2>1
<1>4. PICK f : f = [frames[1] EXCEPT !.rest = @ \ {Last(p)}]
  OBVIOUS
<1>5. frames[1] \in F
  BY <1>1, <1>3
<1>6. f.at = frames[1].at /\ f.rest = frames[1].rest \ {Last(p)} /\ f \in F
  BY <1>2, <1>4, <1>5
<1>7. Left(p) = [frames EXCEPT ![1] = f]
  BY <1>4 DEF Left
<1>8. /\ Len(Left(p)) = Len(frames) /\ Left(p)[1] = f
      /\ \A m \in 1 .. Len(frames) : m # 1 => Left(p)[m] = frames[m]
  BY <1>1, <1>3, <1>6, <1>7
<1>9. ASSUME NEW r \in Seq(Name), NEW m \in 1 .. Len(frames),
             r # <<>>, r # p, Front(r) = frames[m].at, Last(r) \in frames[m].rest
      PROVE  Last(r) \in Left(p)[m].rest
  <2>1. m = 1 => Last(r) # Last(p)
    BY <1>1, <1>9, FrontIsPath
  <2> QED BY <1>6, <1>8, <1>9, <2>1
<1> QED BY <1>1, <1>6, <1>8, <1>9

\* An upload that ends without an error, or a command at the prompt.
LEMMA NoFrames ==
  ASSUME frames' = <<>>
  PROVE  UploadStays'
  BY DEF UploadStays

LEMMA UploadBegins ==
  ASSUME ShellPaths, NEW h \in Hosts, UploadDirectory(h)
  PROVE  UploadStays'
<1>1. host' = h /\ frames' = <<Frame(h, <<>>)>> /\ put' = <<>>
  BY DEF UploadDirectory, Prompt
<1>2. PICK f : f = Frame(h, <<>>)
  OBVIOUS
<1>3. frames' = <<f>> /\ f.at = <<>> /\ f.rest = Below(h, <<>>)
  BY <1>1, <1>2 DEF Frame
<1>4. Len(frames') = 1 /\ frames'[1] = f /\ \A m \in 1 .. Len(frames') : m = 1
  BY <1>3
<1>5. ASSUME NEW q \in DOMAIN h.kind PROVE ~Done(q)'
  <2>1. q \in Seq(Name) /\ q # <<>>
    BY HostFacts
  <2>2. 1 \in 1 .. Len(q) /\ Prefix(q, 0) = <<>> /\ 1 - 1 = 0 /\ 1 \in 1 .. Len(frames')
    BY <1>4, <2>1, PrefixFacts, FrontIsPath
  <2>3. Last(Prefix(q, 1)) \in Below(h, <<>>) /\ Front(Prefix(q, 1)) = <<>>
    BY <2>2, BelowFacts
  <2> QED BY <1>3, <1>4, <2>2, <2>3 DEF Done, Passed
<1> QED BY <1>1, <1>3, <1>4, <1>5 DEF UploadStays


\* A path of the host that is through is through in all its parts.
LEMMA NotDone ==
  ASSUME NEW q, q \in Seq(Name), ~Done(q)
  PROVE  \E n \in 1 .. Len(q) :
           \/ Prefix(q, n) = put
           \/ \E m \in 1 .. Len(frames) :
                Front(Prefix(q, n)) = frames[m].at /\ Last(Prefix(q, n)) \in frames[m].rest
  BY DEF Done, Passed

\* A part of the upload that makes or removes no path of the host.
LEMMA UploadGoesOn ==
  ASSUME NsInv, ~torn, ~torn', Toscli, ShellCommand \/ Removing, Tearing, UNCHANGED calls,
         UploadStays, frames # <<>>, UNCHANGED <<host, table>>,
         data' = data \/ (\E d : Content(d, Made)) \/ (\E d : Content(d, {})),
         perms' = perms \/ Permitted(Made) \/ Permitted({}),
         NEW q \in DOMAIN host.kind, Done(q),
         \/ Removing
         \/ work' = work
         \/ \E p \in Seq(Name) : RemovePath(p) /\ \A n \in 0 .. Len(q) : p # Prefix(q, n)
  PROVE  Uploaded(q)'
<1>1. host \in Hosts /\ Uploaded(q)
  BY DEF UploadStays
<1>2. q \in Seq(Name) /\ Undisturbed(q)
  BY <1>1, HostFacts DEF Uploaded
<1>3. LeftAlone(q)
  BY <1>2, StepLeaves
<1> QED BY <1>1, <1>3, StillUploaded

LEMMA UploadRemoves ==
  ASSUME NsInv, ~torn, ~torn', Toscli, Removing, Tearing, UNCHANGED calls, UploadStays
  PROVE  UploadStays'
<1>1. /\ Content("other", {}) /\ Permitted({}) /\ UNCHANGED <<table, host, frames, put>>
  BY DEF Removing, jobVars
<1> SUFFICES ASSUME frames # <<>> PROVE UploadStays'
  BY <1>1 DEF UploadStays
<1>2. \A q : Done(q)' = Done(q)
  BY <1>1 DEF Done, Passed
<1>3. \A q \in DOMAIN host.kind : Done(q) => Uploaded(q)'
  BY <1>1, UploadGoesOn
<1> QED BY <1>1, <1>2, <1>3 DEF UploadStays

LEMMA UploadEnters ==
  ASSUME NsInv, ~torn, ~torn', Toscli, Tearing, UNCHANGED calls, UploadStays,
         NEW p \in Upcoming, UploadEntry(p)
  PROVE  UploadStays'
<1>1. ShellPaths /\ ShellCommand /\ frames # <<>>
  BY UpcomingIsPath DEF NsInv, ShellCommand
<1>2. /\ host.kind[p] = "file" /\ put' = p /\ frames' = Left(p)
      /\ UNCHANGED <<data, perms, table, host>> /\ (work' = work \/ RemovePath(p))
  BY DEF UploadEntry, Replacing, Query
<1>3. p \in DOMAIN host.kind /\ host \in Hosts /\ p \in Seq(Name) /\ p # <<>>
  BY <1>1, UpcomingIsListed, UpcomingIsPath
<1>4. \A m \in 1 .. Len(frames') : frames'[m].rest \subseteq Below(host, frames'[m].at)
  BY <1>1, <1>2, LeftFacts DEF UploadStays
<1>5. ASSUME NEW q \in DOMAIN host.kind, Done(q)' PROVE Uploaded(q)'
  <2>1. q \in Seq(Name) /\ \A n \in 1 .. Len(q) : Prefix(q, n) # p
    BY <1>2, <1>3, <1>5, HostFacts DEF Done, Passed
  <2>2. \A n \in 0 .. Len(q) : p # Prefix(q, n)
    BY <1>3, <2>1, PrefixFacts
  <2>3. Done(q)
    <3> SUFFICES ASSUME ~Done(q) PROVE FALSE
      OBVIOUS
    <3>1. put = <<>>
      BY <1>1, UpcomingIsPath
    <3>2. PICK n \in 1 .. Len(q) :
            \/ Prefix(q, n) = put
            \/ \E m \in 1 .. Len(frames) :
                 Front(Prefix(q, n)) = frames[m].at /\ Last(Prefix(q, n)) \in frames[m].rest
      BY <2>1, NotDone
    <3>3. Prefix(q, n) \in Seq(Name) /\ Prefix(q, n) # <<>> /\ Prefix(q, n) # p
      BY <2>1, PrefixFacts
    <3>4. PICK m \in 1 .. Len(frames) :
            Front(Prefix(q, n)) = frames[m].at /\ Last(Prefix(q, n)) \in frames[m].rest
      BY <3>1, <3>2, <3>3
    <3>5. /\ Last(Prefix(q, n)) \in frames'[m].rest /\ Front(Prefix(q, n)) = frames'[m].at
          /\ m \in 1 .. Len(frames')
      BY <1>1, <1>2, <3>3, <3>4, LeftFacts
    <3> QED BY <1>5, <3>5 DEF Done, Passed
  <2> QED BY <1>1, <1>2, <1>3, <2>2, <2>3, UploadGoesOn
<1> QED BY <1>2, <1>3, <1>4, <1>5 DEF UploadStays

LEMMA UploadReturns ==
  ASSUME NsInv, ~torn, ~torn', Toscli, Tearing, UNCHANGED calls, UploadStays, Return
  PROVE  UploadStays'
<1>1. /\ frames # <<>> /\ Head(frames).rest = {} /\ frames' = Tail(frames) /\ put = <<>>
      /\ UNCHANGED <<data, perms, table, put, work>> /\ ShellCommand
      /\ host' = IF Len(frames) = 1 THEN NoHost ELSE host
  BY DEF Return, ShellCommand, vars
<1>2. PICK F : F = [at : Seq(Name), rest : SUBSET Name]
  OBVIOUS
<1>3. frames \in Seq(F)
  BY <1>2 DEF NsInv, ShellPaths
<1>4. /\ Len(frames) \in Nat \ {0} /\ Head(frames) = frames[1] /\ frames' \in Seq(F)
      /\ Len(frames') = Len(frames) - 1
      /\ \A n \in 1 .. Len(frames) - 1 : frames'[n] = frames[n + 1]
  BY <1>1, <1>3, HeadFacts
<1>5. CASE Len(frames) = 1
  <2>1. frames' = <<>>
    BY <1>4, <1>5
  <2> QED BY <2>1, NoFrames
<1>6. CASE Len(frames) # 1
  <2>1. host' = host /\ host \in Hosts
    BY <1>1, <1>6 DEF UploadStays
  <2>2. ASSUME NEW m \in 1 .. Len(frames')
        PROVE  frames'[m].rest \subseteq Below(host, frames'[m].at)
    <3>1. m \in 1 .. Len(frames) - 1 /\ m + 1 \in 1 .. Len(frames)
      BY <1>4
    <3> QED BY <1>1, <1>4, <3>1 DEF UploadStays
  <2>3. ASSUME NEW q \in DOMAIN host.kind, Done(q)' PROVE Uploaded(q)'
    <3>1. q \in Seq(Name)
      BY <2>1, HostFacts
    <3>2. Done(q)
      <4> SUFFICES ASSUME NEW n \in 1 .. Len(q), NEW m \in 1 .. Len(frames),
                          Front(Prefix(q, n)) = frames[m].at
                   PROVE  Last(Prefix(q, n)) \notin frames[m].rest
        BY <1>1, <2>3 DEF Done, Passed
      <4>1. CASE m = 1
        BY <1>1, <1>4, <4>1
      <4>2. CASE m # 1
        <5>1. PICK k : k = m - 1
          OBVIOUS
        <5>2. k \in 1 .. Len(frames) - 1 /\ k + 1 = m /\ k \in 1 .. Len(frames')
          BY <1>4, <4>2, <5>1
        <5>3. frames'[k] = frames[m]
          BY <1>4, <5>2
        <5> QED BY <2>3, <5>2, <5>3 DEF Done, Passed
      <4> QED BY <4>1, <4>2
    <3> QED BY <1>1, <2>1, <3>2, UploadGoesOn
  <2> QED BY <1>1, <2>1, <2>2, <2>3 DEF UploadStays
<1> QED BY <1>5, <1>6


LEMMA UploadMakes ==
  ASSUME NsInv, ~torn, ~torn', Toscli, Tearing, UNCHANGED calls, UploadStays,
         NEW p \in Upcoming, UploadCatalog(p)
  PROVE  UploadStays'
<1>1. ShellPaths /\ ShellCommand /\ frames # <<>> /\ put = <<>> /\ Idle
  BY UpcomingIsPath DEF NsInv, ShellCommand
<1>2. /\ host.kind[p] = "catalog" /\ CreateCatalog(p) /\ Content("other", {})
      /\ UNCHANGED <<table, put, work>>
  BY DEF UploadCatalog, CreateCatalog
<1>3. p \in DOMAIN host.kind /\ host \in Hosts /\ p \in Seq(Name) /\ p # <<>>
  BY <1>1, UpcomingIsListed, UpcomingIsPath
<1>4. CASE entries' = entries
  BY <1>4, NoFrames DEF UploadCatalog, Aborts
<1>5. CASE entries' # entries
  <2>1. /\ frames' = <<Frame(host, p)>> \o Left(p) /\ UNCHANGED host
        /\ Permitted(IF p \in table.perms THEN Made ELSE {})
    BY <1>5 DEF UploadCatalog
  <2>2. PICK F : F = [at : Seq(Name), rest : SUBSET Name]
    OBVIOUS
  <2>3. Left(p) \in Seq(F) /\ Frame(host, p) \in F
    BY <1>1, <1>3, <2>2, UpcomingIsPath, NewFrame
  <2>4. /\ Len(frames') = Len(Left(p)) + 1 /\ frames'[1] = Frame(host, p)
        /\ \A m \in 1 .. Len(Left(p)) : frames'[m + 1] = Left(p)[m]
    BY <2>1, <2>3, PushFacts
  <2>5. Len(Left(p)) = Len(frames) /\ Len(frames) \in Nat \ {0}
    BY <1>1, LeftFacts
  <2>6. frames'[1].at = p /\ frames'[1].rest = Below(host, p) /\ 1 \in 1 .. Len(frames')
    BY <2>4, <2>5 DEF Frame
  <2>7. ASSUME NEW m \in 1 .. Len(frames')
        PROVE  frames'[m].rest \subseteq Below(host, frames'[m].at)
    <3>1. CASE m = 1
      BY <2>6, <3>1
    <3>2. CASE m # 1
      <4>1. PICK k : k = m - 1
        OBVIOUS
      <4>2. k \in 1 .. Len(frames) /\ k \in 1 .. Len(Left(p)) /\ k + 1 = m
        BY <2>4, <2>5, <3>2, <4>1
      <4>3. /\ frames'[m] = Left(p)[k] /\ Left(p)[k].at = frames[k].at
            /\ Left(p)[k].rest \subseteq frames[k].rest
        BY <1>1, <2>4, <4>2, LeftFacts
      <4> QED BY <1>1, <4>2, <4>3 DEF UploadStays
    <3> QED BY <3>1, <3>2
  <2>8. ASSUME NEW q \in DOMAIN host.kind, Done(q)' PROVE Done(q) \/ q = p
    <3> SUFFICES ASSUME ~Done(q), q # p PROVE FALSE
      OBVIOUS
    <3>1. q \in Seq(Name) /\ Len(q) \in Nat /\ Prefix(q, Len(q)) = q
      BY <1>3, HostFacts, PrefixFacts
    <3>2. PICK n \in 1 .. Len(q) :
            \/ Prefix(q, n) = put
            \/ \E m \in 1 .. Len(frames) :
                 Front(Prefix(q, n)) = frames[m].at /\ Last(Prefix(q, n)) \in frames[m].rest
      BY <3>1, NotDone
    <3>3. Prefix(q, n) \in Seq(Name) /\ Prefix(q, n) # <<>>
      BY <3>1, PrefixFacts
    <3>4. PICK m \in 1 .. Len(frames) :
            Front(Prefix(q, n)) = frames[m].at /\ Last(Prefix(q, n)) \in frames[m].rest
      BY <1>1, <3>2, <3>3
    <3>5. CASE Prefix(q, n) # p
      <4>1. Last(Prefix(q, n)) \in Left(p)[m].rest /\ Front(Prefix(q, n)) = Left(p)[m].at
        BY <1>1, <3>3, <3>4, <3>5, LeftFacts
      <4>2. m + 1 \in 1 .. Len(frames') /\ frames'[m + 1] = Left(p)[m]
        BY <2>4, <2>5
      <4> QED BY <2>8, <4>1, <4>2 DEF Done, Passed
    <3>6. CASE Prefix(q, n) = p
      <4>1. n # Len(q)
        BY <3>1, <3>6
      <4>2. PICK k \in 1 .. Len(q) : k = n + 1 /\ k - 1 = n
        BY <3>1, <4>1
      <4>3. Last(Prefix(q, k)) \in frames'[1].rest /\ Front(Prefix(q, k)) = frames'[1].at
        BY <1>3, <2>6, <3>6, <4>2, BelowFacts
      <4> QED BY <2>6, <2>8, <4>3 DEF Done, Passed
    <3> QED BY <3>5, <3>6
  <2>9. ASSUME NEW q \in DOMAIN host.kind, Done(q) PROVE Uploaded(q)'
    BY <1>1, <1>2, <2>1, <2>9, UploadGoesOn
  <2>10. Uploaded(p)'
    <3>1. Sound /\ Linkless
      BY <1>1, ProgramsAssumption DEF NsInv, Whole, Sound, Toscli, Linkless
    <3>2. PICK i \in Fresh : kind' = [kind EXCEPT ![i] = "catalog"] /\ entries' = With(entries, Slot(p), i)
      BY <1>2, <1>5 DEF CreateCatalog
    <3>3. Find(p) = None /\ ParentOpens(p) /\ work' = <<>>
      BY <1>1, <1>2 DEF CreateCatalog, Idle
    <3> QED BY <1>2, <1>3, <2>1, <3>1, <3>2, <3>3, NewUploaded
  <2> QED BY <1>1, <1>2, <1>3, <2>1, <2>7, <2>8, <2>9, <2>10 DEF UploadStays
<1> QED BY <1>4, <1>5

LEMMA UploadPuts ==
  ASSUME NsInv, ~torn, ~torn', Toscli, Tearing, UNCHANGED calls, UploadStays, Put
  PROVE  UploadStays'
<1> SUFFICES ASSUME frames # <<>> PROVE UploadStays'
  BY NoFrames DEF Put
<1>0. PICK p : p = put
  OBVIOUS
<1>1. /\ Idle /\ p # <<>> /\ Find(p) = None /\ Stored(p, "host") /\ put' = <<>>
      /\ Permitted(IF p \in table.perms THEN Made ELSE {})
      /\ UNCHANGED <<table, host, frames>> /\ ShellCommand
  BY <1>0 DEF Put, ShellCommand
<1>2. PICK i \in Fresh : Created(p, i)
  BY <1>1 DEF Stored
<1>3. /\ kind' = [kind EXCEPT ![i] = "file"] /\ entries' = With(entries, Slot(p), i)
      /\ ParentOpens(p) /\ work' = work /\ Content("host", Made)
  BY <1>1, <1>2 DEF Created, Opening, Stored
<1>4. p \in DOMAIN host.kind /\ host.kind[p] = "file" /\ host \in Hosts /\ p \in Seq(Name)
  BY <1>0, <1>1 DEF UploadStays, NsInv, ShellPaths
<1>5. ASSUME NEW q \in DOMAIN host.kind, Done(q)' PROVE Done(q) \/ q = p
  <2> SUFFICES ASSUME ~Done(q) PROVE q = p
    OBVIOUS
  <2>1. q \in Seq(Name) /\ Len(q) \in Nat /\ Prefix(q, Len(q)) = q
    BY <1>4, HostFacts, PrefixFacts
  <2>2. PICK n \in 1 .. Len(q) :
          \/ Prefix(q, n) = put
          \/ \E m \in 1 .. Len(frames) :
               Front(Prefix(q, n)) = frames[m].at /\ Last(Prefix(q, n)) \in frames[m].rest
    BY <2>1, NotDone
  <2>3. Prefix(q, n) = p
    BY <1>0, <1>1, <1>5, <2>2 DEF Done, Passed
  <2>4. n \notin 1 .. Len(q) - 1
    BY <1>4, <2>3, HostFacts
  <2> QED BY <2>1, <2>3, <2>4
<1>6. ASSUME NEW q \in DOMAIN host.kind, Done(q) PROVE Uploaded(q)'
  BY <1>1, <1>3, <1>6, UploadGoesOn
<1>7. Uploaded(p)'
  <2>1. Sound /\ Linkless
    BY <1>1, ProgramsAssumption DEF NsInv, Whole, Sound, Toscli, Linkless
  <2>2. work' = <<>>
    BY <1>1, <1>3 DEF Idle
  <2> QED BY <1>1, <1>2, <1>3, <1>4, <2>1, <2>2, NewUploaded
<1> QED BY <1>1, <1>4, <1>5, <1>6, <1>7 DEF UploadStays

LEMMA UploadKept ==
  ASSUME NsInv, ~torn, ~torn', Toscli, ShellCommand \/ Removing, Tearing, UNCHANGED calls,
         UploadStays
  PROVE  UploadStays'
<1>1. ShellPaths
  BY DEF NsInv
<1>2. ASSUME NEW p, Ls(p) \/ Cd(p) \/ Mkdir(p) \/ Rm(p) \/ Cat(p) \/ Touch(p) \/ Download(p) \/ UploadFile(p)
      PROVE  frames' = <<>>
  BY <1>2 DEF Ls, Cd, Mkdir, Rm, Cat, Touch, Download, UploadFile, Command, Prompt, jobVars
<1>3. ASSUME NEW p \in Upcoming, UploadCatalogThrows(p) PROVE frames' = <<>>
  BY <1>3 DEF UploadCatalogThrows, Aborts
<1>4. PutThrows => frames' = <<>>
  BY DEF PutThrows, Aborts
<1> QED BY <1>1, <1>2, <1>3, <1>4, NoFrames, UploadBegins, UploadRemoves, UploadMakes, UploadEnters,
          UploadPuts, UploadReturns DEF ShellCommand

-----------------------------------------------------------------------------

LEMMA InitShellInv == NsInit => ShellInv
<1> SUFFICES ASSUME NsInit PROVE ShellInv
  OBVIOUS
<1>1. NsInv /\ cwd = <<>> /\ frames = <<>> /\ work = <<>>
  BY InitNsInv DEF NsInit, Init, ShellInit
<1>2. SoundDrive
  BY <1>1 DEF NsInv, Whole, NsInit, Init
<1>3. At(cwd) = Root
  <2>1. <<>> \in Seq(Name)
    OBVIOUS
  <2>2. ResolveIn(entries, <<>>) = Root
    BY <2>1, ResolveFacts
  <2> QED BY <1>1, <2>2 DEF At
<1>4. CwdStays
  BY <1>1, <1>2, <1>3, RootIsInode DEF CwdStays, Undisturbed, SoundDrive, Names
<1> QED BY <1>1, <1>4 DEF ShellInv, UploadStays

LEMMA NextKeepsShell == ShellInv /\ [Next]_allVars => ShellInv'
<1> SUFFICES ASSUME ShellInv, [Next]_allVars PROVE ShellInv'
  OBVIOUS
<1>1. NsInv'
  BY NextKeeps DEF ShellInv
<1>2. CASE UNCHANGED allVars
  <2>1. /\ UNCHANGED <<calls, kind, links, entries, open, held, tree, work, torn>>
        /\ UNCHANGED <<cwd, data, perms, table, host, frames, put>>
    BY <1>2 DEF allVars, vars, shellVars
  <2>2. \A q : Undisturbed(q)' = Undisturbed(q) /\ At(q)' = At(q) /\ Done(q)' = Done(q)
    BY <2>1 DEF Undisturbed, At, Done, Passed
  <2>3. CwdStays => CwdStays'
    BY <2>1, <2>2 DEF CwdStays, Unopposed
  <2>4. UploadStays => UploadStays'
    BY <2>1, <2>2 DEF UploadStays, Uploaded
  <2> QED BY <1>1, <2>1, <2>3, <2>4 DEF ShellInv, Toscli
<1>3. CASE Next
  <2>1. /\ Tearing /\ UNCHANGED calls
        /\ \/ ~Toscli /\ TosCall
           \/ Toscli /\ (ShellCommand \/ Removing)
    BY <1>3, WhoSteps
  <2>2. Toscli' = Toscli
    BY <2>1 DEF Toscli
  <2>3. CASE ~Toscli
    <3>1. UNCHANGED shellVars
      BY <1>3, <2>3 DEF Next, Tos, Shell
    <3> QED BY <1>1, <2>2, <2>3, <3>1 DEF ShellInv, shellVars
  <2>4. CASE Toscli /\ torn'
    BY <1>1, <2>2, <2>4 DEF ShellInv
  <2>5. CASE Toscli /\ ~torn'
    <3>1. ~torn
      BY <2>1, <2>5 DEF Tearing
    <3> QED BY <1>1, <2>1, <2>2, <2>5, <3>1, CwdKept, UploadKept DEF ShellInv
  <2> QED BY <2>3, <2>4, <2>5
<1> QED BY <1>2, <1>3

\* The current path and the uploads, together with the drive they rest on.
THEOREM ShellInvAlways == Spec => []ShellInv
<1>1. Spec => NsInit /\ [][Next]_allVars
  BY DEF Spec
<1> QED BY <1>1, InitShellInv, NextKeepsShell, PTL

\* Whatever commands, uploads and removals have run, the prompt is in a catalog.
THEOREM CwdIsCatalogAlways == Spec => []CwdIsCatalog
<1>1. ShellInv => CwdIsCatalog
  <2> SUFFICES ASSUME ShellInv, Prompt, open = {},
                      \A h \in Hosts, n \in 1 .. Len(cwd) :
                        LET p == SubSeq(cwd, 1, n) IN p \in DOMAIN h.kind => h.kind[p] = "catalog"
               PROVE  Resolve(cwd) # None /\ kind[Resolve(cwd)] = "catalog"
    BY DEF CwdIsCatalog
  <2>1. ~torn /\ SoundDrive /\ Resolve(cwd) = At(cwd)
    BY ResolveIsIn DEF ShellInv, NsInv, Whole, At
  <2>2. CASE Toscli
    BY <2>1, <2>2 DEF ShellInv, CwdStays, Unopposed, Undisturbed, Prefix
  <2>3. CASE ~Toscli
    <3>1. cwd = <<>> /\ <<>> \in Seq(Name)
      BY <2>3 DEF ShellInv
    <3>2. At(cwd) = Root
      <4>1. ResolveIn(entries, <<>>) = Root
        BY <3>1, ResolveFacts
      <4> QED BY <3>1, <4>1 DEF At
    <3> QED BY <2>1, <3>2, RootIsInode DEF SoundDrive, Names
  <2> QED BY <2>2, <2>3
<1> QED BY <1>1, ShellInvAlways, PTL

\* An upload that comes to its end has put the whole of the host's directory on the
\* drive, with its contents and permissions.
THEOREM UploadCompleteAlways == Spec => []UploadComplete
<1>1. ShellInv => UploadComplete
  <2> SUFFICES ASSUME ShellInv, Idle, ~torn, put = <<>>, Len(frames) = 1, Head(frames).rest = {},
                      NEW p \in DOMAIN host.kind
               PROVE  LET i == Resolve(p) IN
                      /\ i # None /\ kind[i] = host.kind[p]
                      /\ kind[i] = "file" => data[i] = "host"
                      /\ table = host => perms[i] = (IF p \in host.perms THEN "listed" ELSE "default")
    BY DEF UploadComplete
  <2>1. Resolve(p) = At(p) /\ frames # <<>>
    BY ResolveIsIn DEF At
  <2>2. Toscli /\ UploadStays /\ host \in Hosts
    BY <2>1 DEF ShellInv, UploadStays
  <2>3. p \in Seq(Name)
    BY <2>2, HostFacts
  <2>4. Head(frames) = frames[1]
    <3>1. PICK F : F = [at : Seq(Name), rest : SUBSET Name]
      OBVIOUS
    <3>2. frames \in Seq(F)
      BY <2>2, <3>1 DEF ShellInv, NsInv, ShellPaths
    <3> QED BY <2>1, <3>2, HeadFacts
  <2>5. ASSUME NEW n \in 1 .. Len(p) PROVE Passed(Prefix(p, n))
    <3>1. Prefix(p, n) # <<>>
      BY <2>3, PrefixFacts
    <3> QED BY <2>4, <3>1 DEF Passed
  <2>6. Uploaded(p)
    BY <2>1, <2>2, <2>5 DEF Done, UploadStays
  <2> QED BY <2>1, <2>6 DEF Uploaded, Undisturbed
<1> QED BY <1>1, ShellInvAlways, PTL

=============================================================================
