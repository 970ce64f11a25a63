----------------------------- MODULE Filesystem -----------------------------
(***************************************************************************)
(* Filesystem (filesystem.cpp): paths, catalogs, links and the path cache. *)
(*                                                                         *)
(* A catalog is read whole when it is opened and written whole when it is  *)
(* closed (CatalogHandle), and an inode can be opened once at a time; a    *)
(* call that throws half-way leaves open what it had opened, since no      *)
(* destructor closes it.  `open' holds both the inodes callers hold and    *)
(* the ones such calls left behind.                                        *)
(*                                                                         *)
(* create_inode is what FilesystemCore gives as long as no rescan has met  *)
(* an inode that was created and not closed yet (`relisted' is empty       *)
(* there): any inode nobody has.  What follows from a rescan that has is   *)
(* not modelled here.  Nor is the space for the catalogs' own records.     *)
(***************************************************************************)
EXTENDS Integers, Sequences, FiniteSets, SequencesExt

CONSTANTS Total,        \* inodes of the drive, the root included
          Name,         \* the file names callers use
          LongName,     \* those of 28 characters or more, which add() rejects
          Depth,        \* bound: the longest path
          Programs      \* what may use the drive: sets of the calls one makes

ASSUME NamespaceAssumption ==
  /\ Total \in Nat \ {0}
  /\ LongName \subseteq Name
  /\ Depth \in Nat
  /\ Programs \subseteq SUBSET {"open", "mkdir", "link", "unlink", "remove"}

Inode == 0 .. (Total - 1)
Root  == 0
None  == -1             \* a lookup that throws
Path  == { p \in UNION { [1 .. n -> Name] : n \in 0 .. Depth } :
             \A k \in 1 .. (Len(p) - 1) : p[k] \notin LongName }

VARIABLES
  calls,        \* those of the program that runs, from Init on
  kind,         \* what each inode is
  links,        \* i_links
  entries,      \* the catalogs: <<catalog, name>> to inode
  open,         \* the inodes in m_icache
  held,         \* history: those a caller was given and has not closed
  tree,         \* m_tree: the paths looked up so far and what they named
  work,         \* the calls of the recursive remove, innermost first
  torn          \* history: a removal threw once it had begun

vars == <<calls, kind, links, entries, open, held, tree, work, torn>>

Pairs == DOMAIN entries
NewTree == [p \in {<<>>} |-> Root]       \* clear_tree

\* A catalog with one entry more, or a tree with one path more.
With(f, x, i) == [y \in DOMAIN f \cup {x} |-> IF y = x THEN i ELSE f[y]]

Init ==
  /\ calls \in Programs
  /\ kind = [i \in Inode |-> IF i = Root THEN "catalog" ELSE "dead"]
  /\ links = [i \in Inode |-> 0]
  /\ entries = [x \in {} |-> Root]
  /\ open = {} /\ held = {}
  /\ tree = NewTree
  /\ work = <<>> /\ torn = FALSE

Parent(p) == Front(p)
Idle == work = <<>>

\* open_inode and open_catalog succeed.
Openable(i)  == i \notin open /\ kind[i] # "dead"
IsCatalog(i) == Openable(i) /\ kind[i] = "catalog"

-----------------------------------------------------------------------------
\* find_index: from the longest cached prefix, one catalog per component.

CachedLevel(t, p) ==
  CHOOSE n \in 0 .. Len(p) :
    /\ SubSeq(p, 1, n) \in DOMAIN t
    /\ \A m \in (n + 1) .. Len(p) : SubSeq(p, 1, m) \notin DOMAIN t

Walk(t, p) ==   \* the index after n components, from the cached level on
  LET level == CachedLevel(t, p)
      w[n \in level .. Len(p)] ==
        IF n = level THEN t[SubSeq(p, 1, level)]
        ELSE IF w[n - 1] # None /\ IsCatalog(w[n - 1]) /\ <<w[n - 1], p[n]>> \in Pairs
             THEN entries[<<w[n - 1], p[n]>>]
             ELSE None
  IN w

Find(p) == Walk(tree, p)[Len(p)]

\* The tree t afterwards: every component found is inserted, none replaced.
CachedIn(t, p) ==
  LET w == Walk(t, p)
      found == { n \in DOMAIN w : w[n] # None } IN
  [q \in DOMAIN t \cup { SubSeq(p, 1, n) : n \in found } |->
     IF q \in DOMAIN t THEN t[q] ELSE w[Len(q)]]

Cached(p)      == CachedIn(tree, p)
CachedToo(p, q) == CachedIn(Cached(p), q)       \* first p is looked up, then q

\* The catalog that holds p is found and opens.
ParentOpens(p) == Find(Parent(p)) # None /\ IsCatalog(Find(Parent(p)))

IsFile(p) == Find(p) # None /\ kind[Find(p)] = "file"

\* exists, is_file, is_catalog, list_catalog, filedata and touch: nothing
\* but the tree changes.
Query(p) ==
  /\ Idle
  /\ tree' = Cached(p)
  /\ UNCHANGED <<kind, links, entries, open, held, work>>

-----------------------------------------------------------------------------
\* open

Fresh == { i \in Inode : kind[i] = "dead" /\ i \notin open }

Leaves(s) == open' = open \cup s /\ UNCHANGED held      \* a call that threw
Gives(i)  == open' = open \cup {i} /\ held' = held \cup {i}

\* A catalog may be opened as a file; the code that refused it is disabled.
OpenRoot ==
  /\ Idle /\ "open" \in calls
  /\ Openable(Root)
  /\ Gives(Root)
  /\ UNCHANGED <<kind, links, entries, tree, work>>

Opening(p) ==
  /\ Idle /\ "open" \in calls
  /\ p # <<>>
  /\ ParentOpens(p)
  /\ UNCHANGED work

Slot(p) == <<Find(Parent(p)), Last(p)>>

\* The entry's inode is opened, or is open already and the call throws.
ExistingOpened(p) ==
  /\ Opening(p)
  /\ Slot(p) \in Pairs
  /\ LET i == entries[Slot(p)] IN
     IF Openable(i) THEN Gives(i) ELSE Leaves({Slot(p)[1]})
  /\ UNCHANGED <<kind, links, entries>>

\* The name p is free, for the catalog and for the tree, and add() takes it.
Creatable(p) == Slot(p) \notin Pairs /\ p \notin DOMAIN tree /\ Last(p) \notin LongName

\* The catalog is closed unchanged, then link(index, path) opens it again.
Created(p, i) ==
  /\ Opening(p)
  /\ Creatable(p)
  /\ kind' = [kind EXCEPT ![i] = "file"]
  /\ links' = [links EXCEPT ![i] = 1]
  /\ entries' = With(entries, Slot(p), i)

\* No inode left; link() takes the tree's word that the path exists; add()
\* rejects the name.
NotCreated(p) ==
  /\ Opening(p)
  /\ Slot(p) \notin Pairs
  /\ \/ Fresh = {} /\ Leaves({Slot(p)[1]}) /\ UNCHANGED kind
     \/ \E i \in Fresh :
          /\ p \in DOMAIN tree \/ Last(p) \in LongName
          /\ kind' = [kind EXCEPT ![i] = "file"]
          /\ Leaves({i} \cup (IF p \in DOMAIN tree THEN {} ELSE {Slot(p)[1]}))
  /\ links' = [i \in Inode |-> IF kind'[i] # kind[i] THEN 0 ELSE links[i]]
  /\ UNCHANGED entries

LooksUpParent(p) == tree' = Cached(Parent(p))

OpenExisting(p)  == ExistingOpened(p) /\ LooksUpParent(p)
OpenNew(p)       == (\E i \in Fresh : Created(p, i) /\ Gives(i)) /\ LooksUpParent(p)
OpenNewThrows(p) == NotCreated(p) /\ LooksUpParent(p)

Close(i) ==
  /\ Idle
  /\ i \in held
  /\ open' = open \ {i} /\ held' = held \ {i}
  /\ UNCHANGED <<kind, links, entries, tree, work>>

-----------------------------------------------------------------------------
\* create_catalog(path)

CreateCatalog(p) ==
  /\ Idle /\ "mkdir" \in calls
  /\ p # <<>>
  /\ Find(p) = None
  /\ ParentOpens(p)
  /\ tree' = Cached(p)
  /\ \/ \E i \in Fresh :
          /\ kind' = [kind EXCEPT ![i] = "catalog"]
          /\ links' = [links EXCEPT ![i] = 0]
          /\ IF Last(p) \in LongName
             THEN Leaves({Slot(p)[1]}) /\ UNCHANGED entries
             ELSE entries' = With(entries, Slot(p), i) /\ UNCHANGED <<open, held>>
     \/ /\ Fresh = {}
        /\ Leaves({Slot(p)[1]}) /\ UNCHANGED <<kind, links, entries>>
  /\ UNCHANGED work

-----------------------------------------------------------------------------
\* link(path, link) and unlink(path): both open the file for the whole call.

\* Slip: the file is not opened.
LinkingUnopened(p) == Idle /\ IsFile(p)

Linking(p) == Idle /\ IsFile(p) /\ Find(p) \notin open

\* Slip: link without link_inode.
LinkUncounted(p, q) ==
  /\ "link" \in calls /\ Linking(p)
  /\ q # <<>>
  /\ tree' = CachedToo(p, q)
  /\ Find(q) = None
  /\ ParentOpens(q)
  /\ Last(q) \notin LongName
  /\ entries' = With(entries, Slot(q), Find(p))
  /\ UNCHANGED <<kind, links, open, held, work>>

Link(p, q) ==
  /\ "link" \in calls /\ Linking(p)
  /\ q # <<>>
  /\ tree' = CachedToo(p, q)
  /\ Find(q) = None
  /\ ParentOpens(q)
  /\ Last(q) \notin LongName
  /\ entries' = With(entries, Slot(q), Find(p))
  /\ links' = [links EXCEPT ![Find(p)] = @ + 1]
  /\ UNCHANGED <<kind, open, held, work>>

LinkThrows(p, q) ==
  /\ "link" \in calls /\ Linking(p)
  /\ q # <<>>
  /\ tree' = CachedToo(p, q)
  /\ Find(q) = None
  /\ \/ ~ParentOpens(q) /\ Leaves({Find(p)})
     \/ /\ ParentOpens(q)
        /\ Last(q) \in LongName
        /\ Leaves({Find(p), Find(Parent(q))})
  /\ UNCHANGED <<kind, links, entries, work>>

LastLink(i) == links[i] = 1

\* Slip: clear_tree is not called.
ClearTreeForgotten == tree' = tree

ClearTree == tree' = NewTree

\* Slip: the catalog loses everything.
DroppedAll(e, d, i) == [x \in { y \in DOMAIN e : y[1] # d } |-> e[x]]

\* CatalogHandle::remove(index): every entry of the index goes.
Dropped(e, d, i) ==
  [x \in { y \in DOMAIN e : y[1] # d \/ e[y] # i } |-> e[x]]

\* The last unlink ends in remove(index, pindex) and free_inode.
Unlink(p) ==
  LET i == Find(p)
      without == [x \in Pairs \ {Slot(p)} |-> entries[x]]
  IN
  /\ "unlink" \in calls /\ Linking(p)
  /\ ParentOpens(p)
  /\ Slot(p) \in Pairs
  /\ links[i] > 0
  /\ links' = [links EXCEPT ![i] = @ - 1]
  /\ IF LastLink(i)
     THEN /\ kind' = [kind EXCEPT ![i] = "dead"]
          /\ entries' = Dropped(without, Slot(p)[1], i)
          /\ ClearTree
     ELSE /\ entries' = without
          /\ tree' = Cached(p)
          /\ UNCHANGED kind
  /\ UNCHANGED <<open, held, work>>

\* The tree knows a name the catalog no longer has, or the catalog is open.
UnlinkThrows(p) ==
  /\ "unlink" \in calls /\ Linking(p)
  /\ tree' = Cached(p)
  /\ \/ ~ParentOpens(p) /\ Leaves({Find(p)})
     \/ /\ ParentOpens(p)
        /\ Slot(p) \notin Pairs
        /\ Leaves({Find(p), Find(Parent(p))})
  /\ UNCHANGED <<kind, links, entries, work>>

-----------------------------------------------------------------------------
\* remove(path): the contents of a catalog first, then its entry, then the
\* inode.  `work' holds the calls in progress, each with the entries of the
\* catalog it has still to go through, as list() returned them.

Items(i) == { x \in Pairs : x[1] = i }

\* Slip: a catalog is removed without its contents.
CallFlat(i, d) == [index |-> i, parent |-> d, items |-> [x \in {} |-> Root]]

Call(i, d) ==
  [index |-> i, parent |-> d,
   items |-> IF kind[i] = "catalog" THEN [x \in Items(i) |-> entries[x]]
             ELSE [x \in {} |-> Root]]

\* A catalog that is open cannot be opened for its list: the call throws.
Enters(i, d) == IF kind[i] = "catalog" /\ i \in open THEN work' = <<>>
                ELSE work' = <<Call(i, d)>> \o work

RemovePath(p) ==
  /\ Idle /\ "remove" \in calls
  /\ p # <<>>
  /\ Find(p) # None
  /\ Find(Parent(p)) # None
  /\ tree' = CachedToo(Parent(p), p)
  /\ Enters(Find(p), Find(Parent(p)))
  /\ UNCHANGED <<kind, links, entries, open, held>>

\* Slip: the entry just handled stays to be handled.
RestAll(c, x) == c

\* The call c once the entry x is being removed.
Rest(c, x) == [c EXCEPT !.items = [y \in DOMAIN c.items \ {x} |-> c.items[y]]]

RemoveChild ==
  /\ ~Idle
  /\ LET c == Head(work) IN
     \E x \in DOMAIN c.items :
       IF kind[c.items[x]] = "catalog" /\ c.items[x] \in open
       THEN work' = <<>>
       ELSE work' = <<Call(c.items[x], c.index), Rest(c, x)>> \o Tail(work)
  /\ UNCHANGED <<kind, links, entries, open, held, tree>>

\* The parent loses every entry of the inode, whatever i_links says; then
\* free_inode throws "Node is busy" if the inode is open.
RemoveEntry ==
  LET c == Head(work) IN
  /\ ~Idle
  /\ DOMAIN c.items = {}
  /\ IF ~IsCatalog(c.parent)
     THEN work' = <<>> /\ UNCHANGED <<kind, entries, tree>>
     ELSE /\ entries' = Dropped(entries, c.parent, c.index)
          /\ IF c.index \in open
             THEN work' = <<>> /\ UNCHANGED <<kind, tree>>
             ELSE /\ kind' = [kind EXCEPT ![c.index] = "dead"]
                  /\ work' = Tail(work)
                  /\ IF Len(work) = 1 THEN ClearTree ELSE UNCHANGED tree
  /\ UNCHANGED <<links, open, held>>

\* With its last inode still in use the removal has thrown, and clear_tree is
\* not called for those that went.
Tearing == torn' = (torn \/ (~Idle /\ work' = <<>> /\ kind' = kind))

\* Filesystem's part of a step of TOS, each call whole, is in Namespace, and of
\* toscli's commands in Shell.

-----------------------------------------------------------------------------

TypeOK ==
  /\ kind \in [Inode -> {"dead", "file", "catalog"}]
  /\ links \in [Inode -> Nat]
  /\ Pairs \subseteq Inode \X Name
  /\ \A x \in Pairs : entries[x] \in Inode
  /\ open \in SUBSET Inode /\ held \in SUBSET open
  /\ DOMAIN tree \subseteq Path /\ \A p \in DOMAIN tree : tree[p] \in Inode
  /\ \A n \in 1 .. Len(work) : work[n].index \in Inode /\ work[n].parent \in Inode

\* i_links of a file, "Number of links to this inode" (blocks.h), counts its
\* entries in all catalogs, whatever calls threw half-way: unlink frees the
\* inode exactly when its last name goes.  A catalog has one entry at most, so
\* that the catalogs form a tree and the recursive remove ends.  (Not once a
\* removal of toscli has thrown: see NoDangling.)
LinksExact ==
  Idle /\ ~torn => \A i \in Inode :
    LET namesOf == Cardinality({ x \in Pairs : entries[x] = i }) IN
    CASE kind[i] = "file"    -> links[i] = namesOf
      [] kind[i] = "catalog" -> namesOf <= (IF i = Root THEN 0 ELSE 1)
      [] OTHER               -> TRUE

\* Every entry is in a catalog and names an inode in use, so that no name
\* comes to mean a file created later at the same index.  (A removal of toscli
\* that throws leaves the inodes it has freed in the cache.  When they are in use
\* again, a removal by the old path frees them under their new names.)
NoDangling ==
  Idle /\ ~torn => \A x \in Pairs : kind[x[1]] = "catalog" /\ kind[entries[x]] # "dead"

\* A path in the cache, current or not, leads to an inode in use: unlink and
\* remove must clear the cache whenever they free one.
CachedAreLive ==
  Idle /\ ~torn => \A p \in DOMAIN tree : kind[tree[p]] # "dead"

\* An inode a caller holds is not freed under it.
HeldIsLive == \A i \in held : kind[i] # "dead"

\* No call has thrown half-way so far.  What one leaves open can never be
\* opened again, by anybody, until the process ends.
NothingLeftOpen == open = held

\* What the catalogs say, the cache aside: the index path p names.
Resolve(p) ==
  LET r[n \in 0 .. Len(p)] ==
        IF n = 0 THEN Root
        ELSE IF <<r[n - 1], p[n]>> \in Pairs THEN entries[<<r[n - 1], p[n]>>] ELSE None
  IN r[Len(p)]

\* The cache agrees with the catalogs, in a program that makes no second links.
TreeExact ==
  Idle /\ ~torn /\ "link" \notin calls => \A p \in DOMAIN tree : Resolve(p) = tree[p]

\* Every inode in use has a name: none is lost to everybody.
AllNamed ==
  Idle /\ NothingLeftOpen => \A i \in Inode \ {Root} : kind[i] = "dead" \/ \E x \in Pairs : entries[x] = i

\* The recursive remove frees an inode once.  (Not one that a removal which threw
\* has freed already: the cache still leads there, and the inode is then listed as
\* free twice, which this module does not follow further.)
FreesOnce == ~Idle /\ ~torn => kind[Head(work).index] # "dead"

=============================================================================
