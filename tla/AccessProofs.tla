------------------------------ MODULE AccessProofs ------------------------------
(***************************************************************************)
(* Users and permissions: what the calls of Lua programs keep true of the  *)
(* files they hold and may not do to those they may not write to, for any  *)
(* drive, any users, any modes and programs nested to any depth.           *)
(***************************************************************************)
EXTENDS Access, FilesystemProofs

USE DEF Pairs

-----------------------------------------------------------------------------
\* The programs that run.

Program == [user : Nat, real : Nat, group : Nat, groups : SUBSET Nat, handles : SUBSET Inode]

OpenMode == {"none", "r", "w", "r+", "w+"}

\* Each handle is held, and belongs to one of the programs only.
Handles ==
  /\ stack \in Seq(Program) /\ stack # <<>>
  /\ \A n \in 1 .. Len(stack) : stack[n].handles \subseteq held
  /\ \A m, n \in 1 .. Len(stack) :
       m # n => stack[m].handles \cap stack[n].handles = {}

AccInv ==
  /\ Sound /\ Idle
  /\ owner \in [Inode -> Nat] /\ mode \in [Inode -> OpenMode]
  /\ Handles /\ HolderOwns


-----------------------------------------------------------------------------
\* Permissions.

\* A path that opens is found, and names a closed inode.
LEMMA AnswersFind ==
  ASSUME Sound, NEW p \in Seq(Name), Answers(p)
  PROVE  Find(p) = Answer(p) /\ Find(p) \in Inode /\ Find(p) \notin open
<1>1. CASE p = <<>>
  <2>1. FoundFacts(tree, p) /\ <<>> \in DOMAIN tree /\ tree[<<>>] = Root
    BY Found DEF Sound, TreeSound
  <2>2. FindIn(tree, p) = tree[p]
    BY <1>1, <2>1, FindFacts
  <2> QED BY <1>1, <2>1, <2>2, RootIsInode DEF Answers, Answer, Openable, Find, FindIn
<1>2. CASE p # <<>>
  <2>1. ParentOpens(p) /\ Slot(p) \in Pairs /\ Openable(entries[Slot(p)])
    BY <1>2 DEF Answers
  <2>2. Find(p) # None
    BY <1>2, <2>1, LookedUp
  <2>3. entries[Slot(p)] = Find(p) /\ Find(p) \in Inode
    BY <1>2, <2>1, <2>2, LookedUp
  <2> QED BY <1>2, <2>1, <2>3 DEF Answer, Openable
<1> QED BY <1>1, <1>2

\* Who is asked is who the path names, and the bit is the one May looks at.
LEMMA CanIsMay ==
  ASSUME Sound, NEW p \in Seq(Name), NEW what \in {READ, WRITE, EXECUTE}, Can(p, what)
  PROVE  /\ Find(p) = Answer(p) /\ Find(p) \in Inode /\ Find(p) \notin open
         /\ May(Running, Find(p), what)
<1>1. Answers(p)
  BY DEF Can
<1>2. Find(p) = Answer(p) /\ Find(p) \in Inode /\ Find(p) \notin open
  BY <1>1, AnswersFind
<1>3. PICK i : i = Answer(p)
  OBVIOUS
<1>4. PICK c : c = Running
  OBVIOUS
<1>5. Bit(Who(c, i), what) \in attr[i]
  BY <1>3, <1>4 DEF Can
<1>6. Triple(c, i)[what + 1] = Bit(Who(c, i), what)
  <2>1. CASE owner[i] = c.real
    BY <2>1 DEF Triple, Bit, Who, READ, WRITE, EXECUTE
  <2>2. CASE owner[i] # c.real /\ group[i] \in c.groups
    BY <2>2 DEF Triple, Bit, Who, READ, WRITE, EXECUTE
  <2>3. CASE owner[i] # c.real /\ group[i] \notin c.groups
    BY <2>3 DEF Triple, Bit, Who, READ, WRITE, EXECUTE
  <2> QED BY <2>1, <2>2, <2>3
<1> QED BY <1>2, <1>3, <1>4, <1>5, <1>6 DEF May

-----------------------------------------------------------------------------
\* The tree after a call that asked for a path by opening it.

\* Lookups, which change what no path means.
After(t) ==
  /\ TreeSound(t)
  /\ \A q \in Seq(Name) : FindIn(t, q) = FindIn(tree, q)

\* The catalog of p is in t, if there is one.
Reaches(t, p) == p # <<>> /\ Find(Parent(p)) # None => Parent(p) \in DOMAIN t

LEMMA AfterLookup ==
  ASSUME Sound, NEW p \in Seq(Name), NEW n \in 0 .. Len(p)
  PROVE  /\ After(Cached(p))
         /\ Find(Prefix(p, n)) # None => Prefix(p, n) \in DOMAIN Cached(p)
<1>1. TreeSound(tree) /\ SoundDrive /\ <<>> \in DOMAIN tree /\ DOMAIN tree \subseteq Seq(Name)
  BY DEF Sound, TreeSound
<1>2. TreeSound(Cached(p)) /\ \A q \in Seq(Name) : FindIn(Cached(p), q) = FindIn(tree, q)
  BY <1>1, CachedSound, CachedKeepsFind DEF Cached
<1>3. Find(Prefix(p, n)) # None => Prefix(p, n) \in DOMAIN Cached(p)
  BY <1>1, CachedHas DEF Cached, Find, FindIn
<1> QED BY <1>2, <1>3 DEF After

\* The catalog two levels above a path that was looked up, and the path itself.
LEMMA AfterAbove ==
  ASSUME Sound, NEW p \in Seq(Name), p # <<>>, Parent(p) # <<>>
  PROVE  After(Cached(p)) /\ Reaches(Cached(p), Parent(p))
<1>1. /\ Front(p) \in Seq(Name) /\ Len(Front(p)) = Len(p) - 1 /\ Len(p) \in Nat
      /\ Len(Front(p)) \in Nat \ {0}
  BY FrontIsPath DEF Parent
<1>2. Front(p) = Prefix(p, Len(p) - 1) /\ Len(p) - 1 \in 0 .. Len(p) /\ Len(p) - 1 # 0
  BY <1>1 DEF Front, Prefix
<1>3. Front(Front(p)) = Prefix(p, Len(p) - 2) /\ Len(p) - 2 \in 0 .. Len(p)
  BY <1>1, <1>2, PrefixFacts
<1> QED BY <1>3, AfterLookup DEF Reaches, Parent

LEMMA AfterWhole ==
  ASSUME Sound, NEW p \in Seq(Name)
  PROVE  After(Cached(p)) /\ (Find(p) # None => p \in DOMAIN Cached(p))
<1>1. Len(p) \in 0 .. Len(p) /\ Prefix(p, Len(p)) = p
  BY PrefixFacts
<1> QED BY <1>1, AfterLookup

LEMMA AfterTwo ==
  ASSUME Sound, NEW p \in Seq(Name), NEW q \in Seq(Name), NEW n \in 0 .. Len(q)
  PROVE  /\ After(CachedToo(p, q))
         /\ Find(Prefix(q, n)) # None => Prefix(q, n) \in DOMAIN CachedToo(p, q)
<1>1. PICK t : t = Cached(p)
  OBVIOUS
<1>2. SoundDrive /\ 0 \in 0 .. Len(p)
  BY DEF Sound
<1>3. After(t)
  BY <1>1, <1>2, AfterLookup
<1>4. TreeSound(t) /\ <<>> \in DOMAIN t /\ DOMAIN t \subseteq Seq(Name)
  BY <1>3 DEF After, TreeSound
<1>5. TreeSound(CachedIn(t, q))
      /\ \A r \in Seq(Name) : FindIn(CachedIn(t, q), r) = FindIn(t, r)
  BY <1>2, <1>4, CachedSound, CachedKeepsFind
<1>6. Prefix(q, n) \in Seq(Name)
  BY PrefixFacts
<1>7. FindIn(t, Prefix(q, n)) # None => Prefix(q, n) \in DOMAIN CachedIn(t, q)
  BY <1>2, <1>4, CachedHas
<1>8. FindIn(t, Prefix(q, n)) = Find(Prefix(q, n))
  BY <1>3, <1>6 DEF After, Find, FindIn
<1> QED BY <1>1, <1>3, <1>5, <1>7, <1>8 DEF After, CachedToo


\* The file just created is looked up as well.
LEMMA TreeGrows ==
  ASSUME NEW t, TreeSound(t)', NEW p \in Seq(Name), p # <<>>, p \notin DOMAIN t,
         Front(p) \in DOMAIN t, kind'[t[Front(p)]] = "catalog",
         <<t[Front(p)], Last(p)>> \in DOMAIN entries',
         NEW i \in Inode, i = entries'[<<t[Front(p)], Last(p)>>], kind'[i] # "dead"
  PROVE  TreeSound(With(t, p, i))'
<1>0. PICK u : u = With(t, p, i)
  OBVIOUS
<1>1. /\ DOMAIN u = DOMAIN t \cup {p} /\ u[p] = i
      /\ \A q \in DOMAIN t : u[q] = t[q]
  BY <1>0 DEF With
<1>2. \A q \in DOMAIN t : q # <<>> => Front(q) \in DOMAIN t
  BY DEF TreeSound
<1>3. Front(p) # p
  BY FrontIsPath
<1>4. ASSUME NEW q \in DOMAIN u \ {<<>>}
      PROVE  LET slot == <<u[Front(q)], Last(q)>> IN
             /\ Front(q) \in DOMAIN u /\ kind'[u[Front(q)]] = "catalog"
             /\ slot \in DOMAIN entries' => entries'[slot] = u[q]
             /\ kind'[u[q]] = "catalog" \/ Linkless' => slot \in DOMAIN entries'
  <2>1. CASE q = p
    BY <1>1, <1>3, <2>1
  <2>2. CASE q # p
    <3>1. q \in DOMAIN t \ {<<>>} /\ Front(q) \in DOMAIN t /\ u[q] = t[q] /\ u[Front(q)] = t[Front(q)]
      BY <1>1, <1>2, <1>4, <2>2
    <3> QED BY <1>1, <3>1 DEF TreeSound
  <2> QED BY <2>1, <2>2
<1>5. TreeSound(u)'
  BY <1>1, <1>4 DEF TreeSound
<1> QED BY <1>0, <1>5 DEF TreeSound

\* can() about a path that does not open.
LEMMA AskSound ==
  ASSUME Sound, NEW p \in Seq(Name), NEW t, NEW what, After(t),
         what = WRITE => Reaches(t, p), AskSpoils(p, t, what), UNCHANGED calls
  PROVE  Sound' /\ UNCHANGED <<held, work>>
<1>1. TreeSound(t) /\ \A q \in Seq(Name) : FindIn(t, q) = FindIn(tree, q)
  BY DEF After
<1>2. CASE ~Answers(p) /\ ExistingOpened(p) /\ tree' = t
  <2>1. UNCHANGED <<kind, links, entries, held, work>>
    BY <1>2 DEF ExistingOpened, Opening, Answers, Leaves, AskSpoils
  <2>2. TreeSound(tree)'
    BY <1>1, <1>2, <2>1, TreeFollows
  <2> QED BY <1>2, <2>1, <2>2, ExistingOpenedSound
<1>3. CASE NotCreated(p) /\ tree' = t
  <2>1. SoundDrive' /\ entries' = entries
        /\ \A j \in Inode : kind[j] # "dead" => kind'[j] = kind[j]
    BY <1>3, NotCreatedSound
  <2>2. TreeSound(tree)'
    BY <1>1, <1>3, <2>1, TreeFollows
  <2>3. UNCHANGED <<held, work>>
    BY <1>3 DEF NotCreated, Opening, Leaves
  <2> QED BY <2>1, <2>2, <2>3 DEF Sound
<1>4. ASSUME NEW i \in Fresh, Created(p, i), UNCHANGED <<open, held>>,
             tree' = IF Running.real = 0 /\ what = WRITE THEN With(t, p, i) ELSE t
      PROVE  Sound' /\ UNCHANGED <<held, work>>
  <2>1. held' \subseteq open' /\ open' \subseteq open \cup {i}
        /\ (NothingLeftOpen' => NothingLeftOpen)
    BY <1>4 DEF Sound, SoundDrive, Opened, NothingLeftOpen
  <2>2. /\ SoundDrive' /\ p # <<>> /\ Find(p) = None /\ ParentOpens(p)
        /\ entries' = With(entries, Slot(p), i)
        /\ \A j \in Inode : kind[j] # "dead" => kind'[j] = kind[j]
    BY <1>4, <2>1, CreatedSound
  <2>3. TreeSound(t)'
    <3>1. /\ Find(p) = FindIn(tree, p) /\ Front(p) \in Seq(Name)
          /\ Slot(p) = <<FindIn(tree, Front(p)), Last(p)>>
          /\ Slot(p) \notin Pairs /\ kind[Slot(p)[1]] = "catalog"
          /\ FindIn(tree, Front(p)) # None
      BY <2>2, LookedUp, FrontIsPath DEF Find, FindIn, Parent, Slot, ParentOpens
    <3>2. p \notin DOMAIN t
      BY <1>1, <2>2, <3>1, FindFacts, RootIsInode DEF TreeSound
    <3>3. PICK x : x = Slot(p)
      OBVIOUS
    <3> QED BY <1>1, <2>2, <3>1, <3>2, <3>3, TreeNewEntry DEF Sound
  <2>4. ASSUME tree' = t PROVE TreeSound(tree)'
    BY <2>3, <2>4 DEF TreeSound
  <2>5. ASSUME tree' # t PROVE TreeSound(tree)'
    <3>1. what = WRITE /\ tree' = With(t, p, i)
      BY <1>4, <2>5
    <3>2. Front(p) \in DOMAIN t
      BY <2>2, <3>1 DEF Reaches, ParentOpens, Parent
    <3>3. /\ <<>> \in DOMAIN t /\ DOMAIN t \subseteq Seq(Name)
          /\ t[Front(p)] = FindIn(t, Front(p)) /\ FindIn(t, p) = None
      BY <1>1, <2>2, <3>2, FindFacts DEF TreeSound, Find, FindIn
    <3>4. /\ Slot(p) = <<t[Front(p)], Last(p)>> /\ t[Front(p)] = Find(Parent(p))
      BY <1>1, <2>2, <3>2, <3>3 DEF Slot, Parent, Find, FindIn, TreeSound
    <3>5. p \notin DOMAIN t
      BY <1>1, <3>3, FindFacts, RootIsInode DEF TreeSound
    <3>6. PICK u : u = With(t, p, i)
      OBVIOUS
    <3>7. /\ Slot(p) \in DOMAIN entries' /\ entries'[Slot(p)] = i
      BY <2>2 DEF With
    <3>8. kind'[i] # "dead" /\ i \in Inode
      BY <1>4 DEF Created, Fresh, Sound, SoundDrive, Shape
    <3>9. kind'[t[Front(p)]] = "catalog"
      BY <1>1, <2>2, <3>2, <3>4, LookedUp DEF TreeSound, ParentOpens, IsCatalog
    <3>10. TreeSound(u)'
      BY <2>2, <2>3, <3>2, <3>4, <3>5, <3>6, <3>7, <3>8, <3>9, TreeGrows
    <3> QED BY <3>1, <3>6, <3>10 DEF TreeSound
  <2>6. TreeSound(tree)'
    BY <2>4, <2>5
  <2> QED BY <1>4, <2>2, <2>6 DEF Sound, Created, Opening
<1> QED BY <1>2, <1>3, <1>4 DEF AskSpoils


-----------------------------------------------------------------------------
\* Owners and handles.

\* What the properties say of one step.
NamesStep ==
  \A x \in Pairs \cup DOMAIN entries' :
    (x \in Pairs) # (x \in DOMAIN entries') =>
      \/ May(Running, x[1], WRITE)
      \/ /\ x \notin Pairs /\ entries'[x] \notin open'
         /\ kind[entries'[x]] = "dead" /\ kind'[entries'[x]] = "file"

RightsStep ==
  \A i \in held' \ held :
    kind[i] # "dead" =>
      /\ Reads(mode'[i])  => May(Running, i, READ)
      /\ Writes(mode'[i]) => May(Running, i, WRITE)

Good == AccInv' /\ NamesStep /\ RightsStep

LEMMA NoNameChanges ==
  ASSUME UNCHANGED entries
  PROVE  NamesStep
  BY DEF NamesStep

LEMMA NoneGiven ==
  ASSUME held' \subseteq held
  PROVE  RightsStep
  BY DEF RightsStep

\* One catalog changes, and the program may write to it.
LEMMA NamesUnder ==
  ASSUME NEW d, May(Running, d, WRITE),
         \A x \in Pairs \cup DOMAIN entries' :
           x[1] # d => (x \in Pairs <=> x \in DOMAIN entries')
  PROVE  NamesStep
  BY DEF NamesStep

LEMMA RunningIs ==
  ASSUME AccInv
  PROVE  Running = stack[1] /\ Running \in Program /\ Len(stack) \in Nat \ {0}
  BY HeadFacts DEF AccInv, Handles, Running

LEMMA HeldInUse ==
  ASSUME AccInv
  PROVE  /\ held \subseteq Inode /\ open \subseteq Inode /\ held \subseteq open
         /\ \A j \in held : kind[j] # "dead"
  BY DEF AccInv, Sound, SoundDrive, Opened

LEMMA BornFacts ==
  ASSUME AccInv, NEW S, NEW u \in Nat, NEW g, Born(S, u, g)
  PROVE  /\ owner' \in [Inode -> Nat]
         /\ \A j \in Inode : j \in S => owner'[j] = u
         /\ \A j \in Inode : j \notin S /\ kind[j] # "dead" /\ kind'[j] # "dead" =>
              owner'[j] = owner[j]
<1>1. owner \in [Inode -> Nat]
  BY DEF AccInv
<1> QED BY <1>1 DEF Born

\* The handles are the same, and owned and used as before.
LEMMA HandlesStay ==
  ASSUME AccInv, Sound', UNCHANGED <<stack, work>>, held \subseteq held',
         owner' \in [Inode -> Nat], mode' \in [Inode -> OpenMode],
         \A j \in held : owner'[j] = owner[j] /\ mode'[j] = mode[j]
  PROVE  AccInv'
<1>1. Handles'
  BY DEF AccInv, Handles
<1>2. HolderOwns'
  BY DEF AccInv, HolderOwns, Handles
<1> QED BY <1>1, <1>2 DEF AccInv, Idle

\* A call of a program that opens nothing for it and takes nothing.
LEMMA BornStays ==
  ASSUME AccInv, Sound', UNCHANGED <<stack, work, held, mode>>,
         NEW u \in Nat, NEW g, Born({}, u, g)
  PROVE  AccInv' /\ RightsStep
<1>1. owner' \in [Inode -> Nat]
      /\ \A j \in Inode : kind[j] # "dead" /\ kind'[j] # "dead" => owner'[j] = owner[j]
  BY BornFacts
<1>2. \A j \in held : j \in Inode /\ kind[j] # "dead" /\ kind'[j] # "dead"
  BY HeldInUse DEF Sound, SoundDrive, Opened
<1>3. \A j \in held : owner'[j] = owner[j]
  BY <1>1, <1>2
<1>4. mode' \in [Inode -> OpenMode]
  BY DEF AccInv
<1> QED BY <1>1, <1>3, <1>4, HandlesStay, NoneGiven

\* Nothing but what is looked up changes, and whom inodes belong to.
LEMMA StillGood ==
  ASSUME AccInv, Sound', UNCHANGED <<stack, work, held, mode, entries>>,
         owner' \in [Inode -> Nat], \A j \in held : owner'[j] = owner[j]
  PROVE  Good
<1>1. AccInv'
  BY HandlesStay DEF AccInv
<1> QED BY <1>1, NoNameChanges, NoneGiven DEF Good

\* A new name in a catalog the program may write to.
LEMMA NameAdded ==
  ASSUME NEW x, NEW i, May(Running, x[1], WRITE), entries' = With(entries, x, i)
  PROVE  NamesStep
<1>1. DOMAIN entries' = Pairs \cup {x}
  BY DEF With
<1> QED BY <1>1, NamesUnder

-----------------------------------------------------------------------------
\* The calls.

LEMMA LookGood ==
  ASSUME AccInv, NEW p \in Seq(Name), Look(p), UNCHANGED calls
  PROVE  Good
<1>1. UNCHANGED <<stack, work, held, mode, entries, owner>>
  BY DEF Look, Query, accessVars
<1>2. Sound'
  BY QuerySound DEF Look, AccInv
<1> QED BY <1>1, <1>2, StillGood DEF AccInv

LEMMA AskGood ==
  ASSUME AccInv, NEW p \in Seq(Name), NEW t, NEW what, After(t),
         what = WRITE => Reaches(t, p), AskSpoils(p, t, what), UNCHANGED calls
  PROVE  Good
<1>1. Sound' /\ UNCHANGED <<held, work>>
  BY AskSound DEF AccInv
<1>2. Born({}, 0, 0) /\ UNCHANGED <<stack, mode>>
  BY DEF AskSpoils
<1>3. AccInv' /\ RightsStep
  BY <1>1, <1>2, BornStays
<1>4. NamesStep
  <2>1. CASE UNCHANGED entries
    BY <2>1, NoNameChanges
  <2>2. ASSUME NEW i \in Fresh, Created(p, i), UNCHANGED open PROVE NamesStep
    <3>1. DOMAIN entries' = Pairs \cup {Slot(p)} /\ entries'[Slot(p)] = i
      BY <2>2 DEF Created, With
    <3>2. i \notin open' /\ kind[i] = "dead" /\ kind'[i] = "file"
      BY <2>2 DEF Created, Fresh, AccInv, Sound, SoundDrive, Shape
    <3> QED BY <3>1, <3>2 DEF NamesStep
  <2> QED BY <2>1, <2>2 DEF AskSpoils, ExistingOpened, NotCreated
<1> QED BY <1>3, <1>4 DEF Good


\* The file opened, whether it was there or not.
LEMMA GivenFile ==
  ASSUME AccInv, NEW p \in Seq(Name), NEW m \in {"r", "w", "r+", "w+"}, IoOpen(p, m),
         UNCHANGED calls
  PROVE  \E i \in Inode :
           /\ i \notin open /\ held' = held \cup {i} /\ Sound' /\ NamesStep /\ UNCHANGED work
           /\ Takes(i) /\ mode' = [mode EXCEPT ![i] = m]
           /\ stack' = [stack EXCEPT ![1].handles = @ \cup {i}]
           /\ kind[i] # "dead" => /\ Reads(m)  => May(Running, i, READ)
                                  /\ Writes(m) => May(Running, i, WRITE)
<1>1. PICK i \in Inode :
        /\ \/ ExistingOpened(p) /\ Openable(i) /\ i = entries[Slot(p)]
           \/ i \in Fresh /\ Created(p, i) /\ Gives(i)
        /\ Takes(i)
        /\ mode' = [mode EXCEPT ![i] = m]
        /\ stack' = [stack EXCEPT ![1].handles = @ \cup {i}]
  BY DEF IoOpen
<1>2. /\ p # <<>> /\ tree' = Cached(p) /\ Sound
      /\ Writes(m) => Can(Parent(p), WRITE)
      /\ Find(p) # None => (Reads(m) => Can(p, READ)) /\ (Writes(m) => Can(p, WRITE))
      /\ Exist(m) => Find(p) # None
  BY DEF IoOpen, IsFile, AccInv
<1>3. CASE ExistingOpened(p) /\ Openable(i) /\ i = entries[Slot(p)]
  <2>1. /\ Gives(i) /\ UNCHANGED <<kind, links, entries, work>>
        /\ ParentOpens(p) /\ Slot(p) \in Pairs
    BY <1>3 DEF ExistingOpened, Opening
  <2>2. Sound'
    <3>1. TreeSound(tree)'
      BY <1>2, <2>1, LooksUp
    <3> QED BY <1>2, <1>3, <3>1, ExistingOpenedSound
  <2>3. Find(p) # None /\ Find(p) = i
    BY <1>2, <1>3, <2>1, LookedUp
  <2>4. /\ Reads(m)  => May(Running, i, READ)
        /\ Writes(m) => May(Running, i, WRITE)
    BY <1>2, <2>3, CanIsMay
  <2>5. NamesStep
    BY <2>1, NoNameChanges
  <2> QED BY <1>1, <1>3, <2>1, <2>2, <2>4, <2>5 DEF Gives, Openable
<1>4. CASE i \in Fresh /\ Created(p, i) /\ Gives(i)
  <2>1. /\ i \notin open /\ open' = open \cup {i} /\ held' = held \cup {i} /\ held \subseteq open
        /\ kind[i] = "dead"
    BY <1>2, <1>4 DEF Fresh, Gives, Sound, SoundDrive, Opened
  <2>2. NothingLeftOpen' => NothingLeftOpen
    BY <2>1 DEF NothingLeftOpen
  <2>3. /\ SoundDrive' /\ Find(p) = None /\ ParentOpens(p)
        /\ entries' = With(entries, Slot(p), i)
        /\ \A j \in Inode : kind[j] # "dead" => kind'[j] = kind[j]
    BY <1>2, <1>4, <2>1, <2>2, CreatedSound
  <2>4. TreeSound(tree)'
    BY <1>2, <2>3, CreatedTree
  <2>5. Writes(m)
    BY <1>2, <2>3 DEF Exist, Writes
  <2>6. Parent(p) \in Seq(Name) /\ Find(Parent(p)) = Slot(p)[1]
    BY <1>2, FrontIsPath DEF Parent, Slot
  <2>7. May(Running, Slot(p)[1], WRITE)
    BY <1>2, <2>5, <2>6, CanIsMay DEF AccInv
  <2>8. NamesStep
    BY <2>3, <2>7, NameAdded
  <2>9. UNCHANGED work
    BY <1>4 DEF Created, Opening
  <2> QED BY <1>1, <2>1, <2>3, <2>4, <2>8, <2>9 DEF Sound
<1> QED BY <1>1, <1>3, <1>4

\* io.open gives the program a file that no other has, and makes it its user's.
LEMMA IoOpenGood ==
  ASSUME AccInv, NEW p \in Seq(Name), NEW m \in {"r", "w", "r+", "w+"}, IoOpen(p, m),
         UNCHANGED calls
  PROVE  Good
<1>1. PICK i \in Inode :
        /\ i \notin open /\ held' = held \cup {i} /\ Sound' /\ NamesStep /\ UNCHANGED work
        /\ Takes(i) /\ mode' = [mode EXCEPT ![i] = m]
        /\ stack' = [stack EXCEPT ![1].handles = @ \cup {i}]
        /\ kind[i] # "dead" => /\ Reads(m)  => May(Running, i, READ)
                               /\ Writes(m) => May(Running, i, WRITE)
  BY GivenFile
<1>2. /\ Running = stack[1] /\ Running \in Program /\ Len(stack) \in Nat \ {0}
      /\ stack \in Seq(Program)
  BY RunningIs DEF AccInv, Handles
<1>3. PICK f : f = [stack[1] EXCEPT !.handles = @ \cup {i}]
  OBVIOUS
<1>4. f \in Program /\ f.handles = stack[1].handles \cup {i} /\ f.user = stack[1].user
  BY <1>2, <1>3 DEF Program
<1>5. stack' = [stack EXCEPT ![1] = f]
  BY <1>1, <1>2, <1>3
<1>6. /\ stack' \in Seq(Program) /\ Len(stack') = Len(stack) /\ stack' # <<>>
      /\ stack'[1] = f /\ \A n \in 2 .. Len(stack) : stack'[n] = stack[n]
  BY <1>2, <1>4, <1>5
<1>7. i \notin held /\ mode \in [Inode -> OpenMode]
  BY <1>1, HeldInUse DEF AccInv
<1>8. /\ owner' \in [Inode -> Nat] /\ owner'[i] = stack[1].user
      /\ \A j \in held : owner'[j] = owner[j]
  <2>1. stack[1].user \in Nat
    BY <1>2 DEF Program
  <2>2. /\ owner' \in [Inode -> Nat] /\ owner'[i] = stack[1].user
        /\ \A j \in Inode : j # i /\ kind[j] # "dead" /\ kind'[j] # "dead" =>
             owner'[j] = owner[j]
    <3>1. PICK S, u, g : S = {i} /\ u = Running.user /\ g = Running.group
      OBVIOUS
    <3>2. Born(S, u, g) /\ u \in Nat /\ u = stack[1].user
      BY <1>1, <1>2, <2>1, <3>1 DEF Takes
    <3>3. /\ owner' \in [Inode -> Nat]
          /\ \A j \in Inode : j \in S => owner'[j] = u
          /\ \A j \in Inode : j \notin S /\ kind[j] # "dead" /\ kind'[j] # "dead" =>
               owner'[j] = owner[j]
      BY <3>2, BornFacts
    <3> QED BY <3>1, <3>2, <3>3
  <2>3. \A j \in held : j \in Inode /\ j # i /\ kind[j] # "dead" /\ kind'[j] # "dead"
    BY <1>1, <1>7, HeldInUse DEF Sound, SoundDrive, Opened
  <2> QED BY <2>2, <2>3
<1>9. /\ mode' \in [Inode -> OpenMode] /\ mode'[i] = m /\ m # "none"
      /\ \A j \in held : mode'[j] = mode[j]
  BY <1>1, <1>7, HeldInUse DEF OpenMode
<1>10. \A n \in 1 .. Len(stack) :
         /\ stack[n].handles \subseteq held
         /\ stack'[n].user = stack[n].user
         /\ stack'[n].handles = stack[n].handles \cup (IF n = 1 THEN {i} ELSE {})
  BY <1>4, <1>6 DEF AccInv, Handles
<1>11. Handles'
  BY <1>1, <1>6, <1>7, <1>10 DEF AccInv, Handles
<1>12. HolderOwns'
  <2> SUFFICES ASSUME NEW n \in 1 .. Len(stack), NEW j \in stack'[n].handles
               PROVE  owner'[j] = stack'[n].user /\ mode'[j] # "none"
    BY <1>6 DEF HolderOwns
  <2>1. CASE j \in stack[n].handles
    BY <1>8, <1>9, <1>10, <2>1 DEF AccInv, HolderOwns
  <2>2. CASE j \notin stack[n].handles
    BY <1>8, <1>9, <1>10, <2>2
  <2> QED BY <2>1, <2>2
<1>13. RightsStep
  BY <1>1, <1>9 DEF RightsStep
<1> QED BY <1>1, <1>8, <1>9, <1>11, <1>12, <1>13 DEF Good, AccInv, Idle


LEMMA IoOpenSpoilsGood ==
  ASSUME AccInv, NEW p \in Seq(Name), NEW m \in {"r", "w", "r+", "w+"}, IoOpenSpoils(p, m),
         UNCHANGED calls
  PROVE  Good
<1>1. p # <<>> /\ Parent(p) \in Seq(Name) /\ Sound
  BY FrontIsPath DEF IoOpenSpoils, Parent, AccInv
<1>2. CASE AskSpoils(Parent(p), Cached(Parent(Parent(p))), WRITE)
  <2>1. PICK q, t : q = Parent(p) /\ t = Cached(Parent(Parent(p)))
    OBVIOUS
  <2>2. q # <<>> /\ Parent(q) \in Seq(Name)
    BY <1>1, <1>2, <2>1, FrontIsPath DEF AskSpoils, Parent
  <2>3. After(t) /\ Reaches(t, q)
    BY <1>1, <2>1, <2>2, AfterWhole DEF Reaches
  <2> QED BY <1>1, <1>2, <2>1, <2>3, AskGood
<1>3. CASE AskSpoils(p, Cached(p), READ)
  BY <1>1, <1>3, AfterWhole, AskGood DEF READ, WRITE
<1>4. CASE NotCreated(p) /\ tree' = Cached(p) /\ Born({}, 0, 0) /\ UNCHANGED <<mode, stack>>
  <2>1. SoundDrive' /\ entries' = entries
        /\ \A j \in Inode : kind[j] # "dead" => kind'[j] = kind[j]
    BY <1>1, <1>4, NotCreatedSound
  <2>2. Sound' /\ UNCHANGED <<held, work>>
    BY <1>1, <1>4, <2>1, LooksUp DEF Sound, NotCreated, Opening, Leaves
  <2> QED BY <1>4, <2>1, <2>2, BornStays, NoNameChanges DEF Good
<1> QED BY <1>2, <1>3, <1>4 DEF IoOpenSpoils

LEMMA IoCloseGood ==
  ASSUME AccInv, NEW i \in Running.handles, IoClose(i), UNCHANGED calls
  PROVE  Good
<1>1. /\ Running = stack[1] /\ Running \in Program /\ Len(stack) \in Nat \ {0}
      /\ stack \in Seq(Program)
  BY RunningIs DEF AccInv, Handles
<1>2. /\ held' = held \ {i} /\ mode' = [mode EXCEPT ![i] = "none"]
      /\ UNCHANGED <<entries, work, owner>>
      /\ stack' = [stack EXCEPT ![1].handles = @ \ {i}]
  BY DEF IoClose, Close
<1>3. Sound'
  BY CloseSound DEF IoClose, AccInv
<1>4. PICK f : f = [stack[1] EXCEPT !.handles = @ \ {i}]
  OBVIOUS
<1>5. f \in Program /\ f.handles = stack[1].handles \ {i} /\ f.user = stack[1].user
  BY <1>1, <1>4 DEF Program
<1>6. stack' = [stack EXCEPT ![1] = f]
  BY <1>1, <1>2, <1>4
<1>7. /\ stack' \in Seq(Program) /\ Len(stack') = Len(stack) /\ stack' # <<>>
      /\ stack'[1] = f /\ \A n \in 2 .. Len(stack) : stack'[n] = stack[n]
  BY <1>1, <1>5, <1>6
<1>8. \A n \in 1 .. Len(stack) :
        /\ stack[n].handles \subseteq held
        /\ stack'[n].user = stack[n].user
        /\ stack'[n].handles = stack[n].handles \ {i}
  BY <1>1, <1>5, <1>7 DEF AccInv, Handles
<1>9. /\ mode \in [Inode -> OpenMode] /\ mode' \in [Inode -> OpenMode]
      /\ \A j \in Inode \ {i} : mode'[j] = mode[j]
  BY <1>2 DEF AccInv, OpenMode
<1>10. Handles'
  BY <1>2, <1>7, <1>8 DEF AccInv, Handles
<1>11. HolderOwns'
  <2> SUFFICES ASSUME NEW n \in 1 .. Len(stack), NEW j \in stack'[n].handles
               PROVE  owner'[j] = stack'[n].user /\ mode'[j] # "none"
    BY <1>7 DEF HolderOwns
  <2> QED BY <1>2, <1>8, <1>9, HeldInUse DEF AccInv, HolderOwns
<1> QED BY <1>2, <1>3, <1>9, <1>10, <1>11, NoNameChanges, NoneGiven DEF Good, AccInv, Idle

LEMMA OsMkdirGood ==
  ASSUME AccInv, NEW p \in Seq(Name), OsMkdir(p), UNCHANGED calls
  PROVE  Good
<1>1. /\ p # <<>> /\ Can(Parent(p), WRITE) /\ CreateCatalog(p) /\ Sound /\ ParentOpens(p)
      /\ Born({}, Running.user, Running.group) /\ UNCHANGED <<mode, stack>>
  BY DEF OsMkdir, AccInv, CreateCatalog
<1>2. Sound'
  BY <1>1, CreateCatalogSound
<1>3. UNCHANGED <<held, work>>
  BY <1>1 DEF CreateCatalog, Leaves
<1>4. PICK u, g : u = Running.user /\ g = Running.group
  OBVIOUS
<1>5. u \in Nat
  BY <1>4, RunningIs DEF Program
<1>6. AccInv' /\ RightsStep
  BY <1>1, <1>2, <1>3, <1>4, <1>5, BornStays
<1>7. Parent(p) \in Seq(Name) /\ Find(Parent(p)) = Slot(p)[1]
  BY <1>1, FrontIsPath DEF Parent, Slot
<1>8. May(Running, Slot(p)[1], WRITE)
  BY <1>1, <1>7, CanIsMay
<1>9. UNCHANGED entries \/ \E i \in Fresh : entries' = With(entries, Slot(p), i)
  BY <1>1 DEF CreateCatalog
<1>10. NamesStep
  BY <1>8, <1>9, NoNameChanges, NameAdded
<1> QED BY <1>6, <1>10 DEF Good

LEMMA ParentAskedGood ==
  ASSUME AccInv, NEW p \in Seq(Name), OsMkdirSpoils(p) \/ OsRmSpoils(p), UNCHANGED calls
  PROVE  Good
<1>1. PICK q, t : q = Parent(p) /\ t = Cached(p)
  OBVIOUS
<1>2. p # <<>> /\ q # <<>> /\ AskSpoils(q, t, WRITE) /\ q \in Seq(Name) /\ Sound
  BY <1>1, FrontIsPath DEF OsMkdirSpoils, OsRmSpoils, AskSpoils, Parent, AccInv
<1>3. After(t) /\ Reaches(t, q)
  BY <1>1, <1>2, AfterAbove
<1> QED BY <1>2, <1>3, AskGood


LEMMA OsRmGood ==
  ASSUME AccInv, NEW p \in Seq(Name), OsRm(p), UNCHANGED calls
  PROVE  Good
<1>1. /\ p # <<>> /\ Can(Parent(p), WRITE) /\ Sound
      /\ Unlink(p) \/ UnlinkThrows(p)
      /\ Born({}, 0, 0) /\ UNCHANGED <<mode, stack>>
  BY DEF OsRm, AccInv
<1>2. Sound'
  BY <1>1, UnlinkSound, UnlinkThrowsSound
<1>3. UNCHANGED <<held, work>>
  BY <1>1 DEF Unlink, UnlinkThrows, Leaves
<1>4. AccInv' /\ RightsStep
  BY <1>1, <1>2, <1>3, BornStays
<1>5. CASE UnlinkThrows(p)
  BY <1>4, <1>5, NoNameChanges DEF UnlinkThrows, Good
<1>6. CASE Unlink(p)
  <2>1. ParentOpens(p) /\ Slot(p) \in Pairs
        /\ \E without : /\ without = [x \in Pairs \ {Slot(p)} |-> entries[x]]
                        /\ \/ entries' = Dropped(without, Slot(p)[1], Find(p))
                           \/ entries' = without
    BY <1>6 DEF Unlink
  <2>2. Parent(p) \in Seq(Name) /\ Find(Parent(p)) = Slot(p)[1]
    BY <1>1, FrontIsPath DEF Parent, Slot
  <2>3. PICK d : d = Slot(p)[1]
    OBVIOUS
  <2>4. May(Running, d, WRITE)
    BY <1>1, <2>2, <2>3, CanIsMay
  <2>5. \A x \in Pairs \cup DOMAIN entries' : x[1] # d => (x \in Pairs <=> x \in DOMAIN entries')
    BY <2>1, <2>3 DEF Dropped
  <2>6. NamesStep
    BY <2>4, <2>5, NamesUnder
  <2> QED BY <1>4, <2>6 DEF Good
<1> QED BY <1>1, <1>5, <1>6

LEMMA OsLinkGood ==
  ASSUME AccInv, NEW p \in Seq(Name), NEW q \in Seq(Name), OsLink(p, q), UNCHANGED calls
  PROVE  Good
<1>1. /\ q # <<>> /\ Can(Parent(q), WRITE) /\ Sound
      /\ Link(p, q) \/ LinkThrows(p, q)
      /\ UNCHANGED <<attr, owner, group, mode, stack>>
  BY DEF OsLink, LinkAsks, AccInv, accessVars
<1>2. Sound'
  BY <1>1, LinkSound, LinkThrowsSound
<1>3. UNCHANGED <<held, work>>
  BY <1>1 DEF Link, LinkThrows, Leaves
<1>4. AccInv' /\ RightsStep
  BY <1>1, <1>2, <1>3, HandlesStay, NoneGiven DEF AccInv
<1>5. CASE LinkThrows(p, q)
  BY <1>4, <1>5, NoNameChanges DEF LinkThrows, Good
<1>6. CASE Link(p, q)
  <2>1. Parent(q) \in Seq(Name) /\ Find(Parent(q)) = Slot(q)[1]
    BY <1>1, FrontIsPath DEF Parent, Slot
  <2>2. May(Running, Slot(q)[1], WRITE)
    BY <1>1, <2>1, CanIsMay
  <2>3. entries' = With(entries, Slot(q), Find(p))
    BY <1>6 DEF Link
  <2>4. NamesStep
    BY <2>2, <2>3, NameAdded
  <2> QED BY <1>4, <2>4 DEF Good
<1> QED BY <1>1, <1>5, <1>6

LEMMA OsLinkSpoilsGood ==
  ASSUME AccInv, NEW p \in Seq(Name), NEW q \in Seq(Name), OsLinkSpoils(p, q),
         UNCHANGED calls
  PROVE  Good
<1>1. PICK t : t = CachedToo(p, q)
  OBVIOUS
<1>2. p # <<>> /\ q # <<>> /\ Sound /\ Parent(p) \in Seq(Name) /\ Parent(q) \in Seq(Name)
      /\ (AskSpoils(Parent(p), t, READ) \/ AskSpoils(Parent(q), t, WRITE))
  BY <1>1, FrontIsPath DEF OsLinkSpoils, Parent, AccInv
<1>3. After(t)
  BY <1>1, <1>2, PrefixFacts, AfterTwo
<1>4. CASE AskSpoils(Parent(p), t, READ)
  BY <1>2, <1>3, <1>4, AskGood DEF READ, WRITE
<1>5. CASE AskSpoils(Parent(q), t, WRITE)
  <2>1. Parent(q) # <<>>
    BY <1>5 DEF AskSpoils
  <2>2. /\ Front(q) \in Seq(Name) /\ Len(Front(q)) = Len(q) - 1 /\ Len(q) \in Nat
        /\ Len(Front(q)) \in Nat \ {0}
    BY <1>2, <2>1, FrontIsPath DEF Parent
  <2>3. Front(q) = Prefix(q, Len(q) - 1) /\ Len(q) - 1 \in 0 .. Len(q) /\ Len(q) - 1 # 0
    BY <2>2 DEF Front, Prefix
  <2>4. Front(Front(q)) = Prefix(q, Len(q) - 2) /\ Len(q) - 2 \in 0 .. Len(q)
    <3>1. PICK n : n = Len(q) - 1
      OBVIOUS
    <3>2. n \in 0 .. Len(q) /\ n # 0 /\ n - 1 = Len(q) - 2 /\ n - 1 \in 0 .. Len(q)
      BY <2>2, <2>3, <3>1
    <3>3. Front(Prefix(q, n)) = Prefix(q, n - 1)
      BY <1>1, <3>2, PrefixFacts
    <3> QED BY <2>3, <3>1, <3>2, <3>3
  <2>5. Reaches(t, Parent(q))
    BY <1>1, <1>2, <2>4, AfterTwo DEF Reaches, Parent
  <2>6. PICK r : r = Parent(q)
    OBVIOUS
  <2> QED BY <1>2, <1>3, <1>5, <2>5, <2>6, AskGood
<1> QED BY <1>2, <1>4, <1>5

\* What is changed is closed, so that it is no handle of anybody.
LEMMA ChangedIsClosed ==
  ASSUME AccInv, NEW p \in Seq(Name), Changes(p)
  PROVE  Find(p) \in Inode /\ Find(p) \notin held
<1>1. Sound /\ Answers(p)
  BY DEF AccInv, Changes
<1> QED BY <1>1, AnswersFind, HeldInUse

LEMMA ChangeSound ==
  ASSUME AccInv, NEW p \in Seq(Name), tree' = Cached(p),
         UNCHANGED <<kind, links, entries, open, held, calls>>
  PROVE  Sound'
<1>1. TreeSound(tree)'
  BY LooksUp DEF AccInv
<1>2. SoundDrive'
  BY DriveOpens DEF AccInv, Sound, SoundDrive, Opened, NothingLeftOpen
<1> QED BY <1>1, <1>2 DEF Sound

LEMMA OsChangeGood ==
  ASSUME AccInv, NEW p \in Seq(Name), UNCHANGED calls,
         \/ \E m \in ChmodMode : OsChmod(p, m)
         \/ \E c \in Caller : OsChown(p, c.user, c.group)
  PROVE  Good
<1>1. /\ Changes(p) /\ tree' = Cached(p)
      /\ UNCHANGED <<kind, links, entries, open, held, work, mode, stack>>
      /\ owner' = owner \/ \E u \in Nat : owner' = [owner EXCEPT ![Find(p)] = u]
  BY AccessAssumption DEF OsChmod, OsChown
<1>2. Sound'
  BY <1>1, ChangeSound
<1>3. Find(p) \in Inode /\ Find(p) \notin held /\ held \subseteq Inode /\ owner \in [Inode -> Nat]
  BY <1>1, ChangedIsClosed, HeldInUse DEF AccInv
<1>4. owner' \in [Inode -> Nat] /\ \A j \in held : owner'[j] = owner[j]
  BY <1>1, <1>3
<1> QED BY <1>1, <1>2, <1>4, StillGood

LEMMA AskedGood ==
  ASSUME AccInv, NEW p \in Seq(Name), OsChangeSpoils(p) \/ RunSpoils(p), UNCHANGED calls
  PROVE  Good
<1>1. Sound
  BY DEF AccInv
<1>2. CASE OsChangeSpoils(p)
  BY <1>1, <1>2, AfterWhole, AskGood DEF OsChangeSpoils, READ, WRITE
<1>3. CASE RunSpoils(p)
  <2>1. p # <<>>
    BY <1>3 DEF RunSpoils, AskSpoils
  <2>2. Parent(p) \in Seq(Name)
    BY <2>1, FrontIsPath DEF Parent
  <2>3. After(Cached(Parent(p)))
    BY <1>1, <2>2, AfterWhole
  <2> QED BY <1>3, <2>3, AskGood DEF RunSpoils, EXECUTE, WRITE
<1> QED BY <1>2, <1>3

LEMMA RunGood ==
  ASSUME AccInv, NEW p \in Seq(Name), NEW c \in Caller, Run(p, c), UNCHANGED calls
  PROVE  Good
<1>1. PICK f : f = [user |-> c.user, real |-> c.real, group |-> c.group,
                    groups |-> c.groups, handles |-> {}]
  OBVIOUS
<1>2. f \in Program /\ f.handles = {}
  BY <1>1, AccessAssumption DEF Program
<1>3. /\ stack' = <<f>> \o stack /\ Query(p) /\ UNCHANGED <<owner, mode>>
      /\ UNCHANGED <<entries, held, work>>
  BY <1>1 DEF Run, Query
<1>4. Sound'
  BY <1>3, QuerySound DEF AccInv
<1>5. stack \in Seq(Program) /\ Len(stack) \in Nat
  BY DEF AccInv, Handles
<1>6. /\ stack' \in Seq(Program) /\ Len(stack') = Len(stack) + 1 /\ stack' # <<>>
      /\ stack'[1] = f /\ \A n \in 1 .. Len(stack) : stack'[n + 1] = stack[n]
  BY <1>2, <1>3, <1>5, PushFacts
<1>7. \A n \in 1 .. Len(stack') : n = 1 \/ (n - 1 \in 1 .. Len(stack) /\ stack'[n] = stack[n - 1])
  <2> SUFFICES ASSUME NEW n \in 1 .. Len(stack'), n # 1
               PROVE  n - 1 \in 1 .. Len(stack) /\ stack'[n] = stack[n - 1]
    OBVIOUS
  <2>1. n - 1 \in 1 .. Len(stack) /\ (n - 1) + 1 = n
    BY <1>5, <1>6
  <2> QED BY <1>6, <2>1
<1>8. Handles'
  <2>1. \A n \in 1 .. Len(stack') : stack'[n].handles \subseteq held'
    BY <1>2, <1>3, <1>6, <1>7 DEF AccInv, Handles
  <2>2. ASSUME NEW m \in 1 .. Len(stack'), NEW n \in 1 .. Len(stack'), m # n
        PROVE  stack'[m].handles \cap stack'[n].handles = {}
    <3>1. CASE m = 1 \/ n = 1
      BY <1>2, <1>6, <3>1
    <3>2. CASE m # 1 /\ n # 1
      <4>1. m - 1 # n - 1
        BY <1>5, <1>6, <2>2
      <4> QED BY <1>7, <3>2, <4>1 DEF AccInv, Handles
    <3> QED BY <3>1, <3>2
  <2> QED BY <1>6, <2>1, <2>2 DEF Handles
<1>9. HolderOwns'
  <2> SUFFICES ASSUME NEW n \in 1 .. Len(stack'), NEW j \in stack'[n].handles
               PROVE  owner'[j] = stack'[n].user /\ mode'[j] # "none"
    BY DEF HolderOwns
  <2>1. n # 1
    BY <1>2, <1>6
  <2>2. PICK k \in 1 .. Len(stack) : stack'[n] = stack[k]
    BY <1>7, <2>1
  <2>3. owner[j] = stack[k].user /\ mode[j] # "none"
    BY <2>2 DEF AccInv, HolderOwns
  <2> QED BY <1>3, <2>2, <2>3
<1> QED BY <1>3, <1>4, <1>8, <1>9, NoNameChanges, NoneGiven DEF Good, AccInv, Idle

LEMMA ExitGood ==
  ASSUME AccInv, Exit, UNCHANGED calls
  PROVE  Good
<1>1. PICK left : left = Running.handles
  OBVIOUS
<1>2. /\ Running = stack[1] /\ stack \in Seq(Program) /\ Len(stack) \in Nat /\ Len(stack) > 1
      /\ stack # <<>>
  BY RunningIs DEF AccInv, Handles, Exit
<1>3. /\ open' = open \ left /\ held' = held \ left /\ stack' = Tail(stack)
      /\ mode' = [i \in Inode |-> IF i \in left THEN "none" ELSE mode[i]]
      /\ UNCHANGED <<kind, links, entries, tree, work, owner>>
  BY <1>1 DEF Exit
<1>4. left = stack[1].handles /\ left \in SUBSET held
  BY <1>1, <1>2 DEF AccInv, Handles
<1>5. Sound'
  BY <1>3, <1>4, ClosesSound DEF AccInv
<1>6. /\ stack' \in Seq(Program) /\ Len(stack') = Len(stack) - 1 /\ stack' # <<>>
      /\ \A n \in 1 .. Len(stack) - 1 : stack'[n] = stack[n + 1]
  <2>1. /\ Tail(stack) \in Seq(Program) /\ Len(Tail(stack)) = Len(stack) - 1
        /\ \A n \in 1 .. Len(stack) - 1 : Tail(stack)[n] = stack[n + 1]
    BY <1>2, HeadFacts
  <2>2. Len(Tail(stack)) > 0 /\ stack' = Tail(stack)
    BY <1>2, <1>3, <2>1
  <2>3. stack' # <<>>
    BY <2>2
  <2> QED BY <2>1, <2>2, <2>3
<1>7. \A n \in 1 .. Len(stack') :
        /\ n + 1 \in 1 .. Len(stack) /\ n + 1 # 1 /\ stack'[n] = stack[n + 1]
        /\ stack'[n].handles \cap left = {}
  BY <1>2, <1>4, <1>6 DEF AccInv, Handles
<1>8. Handles'
  <2>1. \A n \in 1 .. Len(stack') : stack'[n].handles \subseteq held'
    BY <1>3, <1>7 DEF AccInv, Handles
  <2>2. ASSUME NEW m \in 1 .. Len(stack'), NEW n \in 1 .. Len(stack'), m # n
        PROVE  stack'[m].handles \cap stack'[n].handles = {}
    <3>1. m + 1 # n + 1
      BY <1>2, <1>6, <2>2
    <3> QED BY <1>7, <3>1 DEF AccInv, Handles
  <2> QED BY <1>6, <2>1, <2>2 DEF Handles
<1>9. HolderOwns'
  <2> SUFFICES ASSUME NEW n \in 1 .. Len(stack'), NEW j \in stack'[n].handles
               PROVE  owner'[j] = stack'[n].user /\ mode'[j] # "none"
    BY DEF HolderOwns
  <2>1. j \in held /\ j \in Inode /\ j \notin left
    BY <1>7, HeldInUse DEF AccInv, Handles
  <2> QED BY <1>3, <1>7, <2>1 DEF AccInv, HolderOwns
<1>10. mode' \in [Inode -> OpenMode]
  BY <1>3 DEF AccInv, OpenMode
<1>11. NamesStep /\ RightsStep
  BY <1>3, NoNameChanges, NoneGiven
<1> QED BY <1>3, <1>5, <1>8, <1>9, <1>10, <1>11 DEF Good, AccInv, Idle


-----------------------------------------------------------------------------

LEMMA InitAccInv == SystemInit => AccInv
<1> SUFFICES ASSUME SystemInit PROVE AccInv
  OBVIOUS
<1>1. Sound
  BY InitSound DEF SystemInit
<1>2. System \in Program /\ System.handles = {}
  BY DEF System, Program
<1>3. stack = <<System>> /\ Idle /\ owner \in [Inode -> Nat] /\ mode \in [Inode -> OpenMode]
  BY DEF SystemInit, Init, AccessInit, Idle, OpenMode
<1>4. Handles
  BY <1>2, <1>3 DEF Handles
<1>5. HolderOwns
  BY <1>2, <1>3 DEF HolderOwns
<1> QED BY <1>1, <1>3, <1>4, <1>5 DEF AccInv

LEMMA NextGood ==
  ASSUME AccInv, [Next]_AccessVars
  PROVE  Good
<1>1. \A p \in Asked : p \in Seq(Name)
  BY AccessAssumption, PathIsSeq
<1>2. CASE UNCHANGED AccessVars
  <2>1. UNCHANGED <<stack, work, held, mode, entries, owner>>
    BY <1>2 DEF AccessVars, vars, accessVars
  <2>2. Sound'
    BY <1>2 DEF AccessVars, vars, AccInv, Sound, SoundDrive, Shape, Names, NamesOf, Linkless,
                Opened, Nameless, NothingLeftOpen, TreeSound
  <2> QED BY <2>1, <2>2, StillGood DEF AccInv
<1>3. CASE Next
  <2>1. UNCHANGED calls
    BY <1>3 DEF Next, The
  <2>2. ASSUME NEW p \in Asked,
               \/ Look(p) \/ OsMkdir(p) \/ OsMkdirSpoils(p) \/ OsRm(p) \/ OsRmSpoils(p)
               \/ OsChangeSpoils(p) \/ RunSpoils(p)
        PROVE  Good
    BY <1>1, <2>1, <2>2, LookGood, OsMkdirGood, ParentAskedGood, OsRmGood, AskedGood
  <2>3. ASSUME NEW p \in Asked, NEW m \in {"r", "w", "r+", "w+"},
               IoOpen(p, m) \/ IoOpenSpoils(p, m)
        PROVE  Good
    BY <1>1, <2>1, <2>3, IoOpenGood, IoOpenSpoilsGood
  <2>4. ASSUME NEW i \in Running.handles, IoClose(i) PROVE Good
    BY <2>1, <2>4, IoCloseGood
  <2>5. ASSUME NEW p \in Asked, NEW q \in Asked, OsLink(p, q) \/ OsLinkSpoils(p, q)
        PROVE  Good
    BY <1>1, <2>1, <2>5, OsLinkGood, OsLinkSpoilsGood
  <2>6. ASSUME NEW p \in Asked, NEW m \in ChmodMode, OsChmod(p, m) PROVE Good
    BY <1>1, <2>1, <2>6, OsChangeGood
  <2>7. ASSUME NEW p \in Asked, NEW c \in Caller, OsChown(p, c.user, c.group) \/ Run(p, c)
        PROVE  Good
    BY <1>1, <2>1, <2>7, OsChangeGood, RunGood
  <2>8. CASE Exit
    BY <2>1, <2>8, ExitGood
  <2> QED BY <1>3, <2>2, <2>3, <2>4, <2>5, <2>6, <2>7, <2>8 DEF Next, The
<1> QED BY <1>2, <1>3

THEOREM AccInvAlways == Spec => []AccInv
<1>1. AccInv /\ [Next]_AccessVars => AccInv'
  BY NextGood DEF Good
<1> QED BY <1>1, InitAccInv, PTL DEF Spec

\* A file that is open belongs to the user of the program that holds it, however
\* deep programs of other users run inside that one and whatever they chown.
THEOREM HolderOwnsAlways == Spec => []HolderOwns
<1>1. AccInv => HolderOwns
  BY DEF AccInv
<1> QED BY <1>1, AccInvAlways, PTL

\* No program adds a name to a catalog it may not write to, or takes one away,
\* but for the empty file can() leaves in place of a missing one.
THEOREM NamesNeedWriteAlways == Spec => NamesNeedWrite
<1>1. AccInv /\ [Next]_AccessVars => NamesStep
  BY NextGood DEF Good
<1> QED BY <1>1, AccInvAlways, PTL DEF Spec, NamesNeedWrite, NamesStep

\* No program is given a file that was there in a mode its real user has no right to.
THEOREM OpenedWithRightsAlways == Spec => OpenedWithRights
<1>1. AccInv /\ [Next]_AccessVars => RightsStep
  BY NextGood DEF Good
<1> QED BY <1>1, AccInvAlways, PTL DEF Spec, OpenedWithRights, RightsStep

=============================================================================
