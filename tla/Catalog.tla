------------------------------ MODULE Catalog -------------------------------
(***************************************************************************)
(* CatalogHandle (catalog.cpp): the entries of one catalog, read by scan   *)
(* when it is opened and written back by close.  Filesystem opens a        *)
(* handle, makes one change and closes it again.                           *)
(*                                                                         *)
(* The file of the catalog is a sequence of entries of one size.  close    *)
(* first resizes the inode, which only changes the record in m_icache,     *)
(* then writes the entries over the old ones, in the order of the names,   *)
(* and close_inode writes the record last: a crash in between leaves a     *)
(* size and entries that do not belong together.  A cluster the resize     *)
(* gives back is zeroed first, if i_blocks addresses it directly, while    *)
(* the record on the drive still counts its entries.                       *)
(***************************************************************************)
EXTENDS Integers, Sequences, FiniteSets, FiniteSetsExt

CONSTANTS Name,         \* filenames, as numbers in the order of std::string
          Index,        \* inodes other than that of the catalog
          PerBlock,     \* entries in a cluster
          Direct,       \* INODE_DIRECT_ADDRESSABLE: clusters i_blocks addresses itself
          Blocks,       \* clusters the catalog can have before the drive is full
          Stale         \* the entries a new cluster happens to hold

ASSUME CatalogAssumption ==
  /\ Name \subseteq Nat \ {0} /\ Index \subseteq Nat \ {0}
  /\ PerBlock \in Nat \ {0} /\ Direct \in Nat /\ Blocks \in Nat
  /\ Stale \in [c_name : Nat, c_inode : Nat]

VARIABLES
  file,         \* the entries in the clusters of the catalog
  size,         \* i_size in m_icache, in entries
  saved,        \* i_size in the inode table
  names,        \* m_cache3: filename to index
  indexes,      \* m_cache2: pairs of an index and a filename
  step,         \* how far Filesystem is: see Steps
  put,          \* entries close has written
  before,       \* history: names as the last scan found them,
  tidy          \* and whether they were in order, each one once

vars == <<file, size, saved, names, indexes, step, put, before, tidy>>

Steps == {"closed", "open", "changed", "writing", "stuck", "damaged"}

Entry(n, i) == [c_name |-> n, c_inode |-> i]
Zeroed      == Entry(0, 0)        \* the name "" and the inode 0
NoNames     == [n \in {} |-> {}]
PairsOf(f)  == { <<f[n], n>> : n \in DOMAIN f }

\* The entries of m_cache3 in its order.
Rank(S, n) == Cardinality({ m \in S : m < n })

InOrder(f) ==
  LET nth(k) == CHOOSE n \in DOMAIN f : Rank(DOMAIN f, n) = k - 1
  IN [k \in 1 .. Cardinality(DOMAIN f) |-> Entry(nth(k), f[nth(k)])]

\* m_cache3 as scan fills it from the first n entries: emplace keeps the first
\* entry of a name.
Scanned(n) ==
  LET first(x) == Min({ k \in 1 .. n : file[k].c_name = x })
  IN [x \in { file[k].c_name : k \in 1 .. n } |-> file[first(x)].c_inode]

Init ==
  /\ file = <<>> /\ size = 0 /\ saved = 0
  /\ names = NoNames /\ indexes = {}
  /\ step = "closed" /\ put = 0 /\ before = NoNames /\ tidy = TRUE

\* open_catalog: the constructor and scan.
Open ==
  /\ step = "closed"
  /\ names' = Scanned(size)
  /\ indexes' = { <<file[k].c_inode, file[k].c_name>> : k \in 1 .. size }
  /\ before' = Scanned(size)
  /\ tidy' = (SubSeq(file, 1, size) = InOrder(Scanned(size)))
  /\ step' = "open"
  /\ put' = 0
  /\ UNCHANGED <<file, size, saved>>

Change ==
  /\ step = "open"
  /\ step' = "changed"
  /\ UNCHANGED <<file, size, saved, put, before, tidy>>

Add(i, n) ==
  /\ Change
  /\ n \notin DOMAIN names
  /\ names' = [x \in DOMAIN names \cup {n} |-> IF x = n THEN i ELSE names[x]]
  /\ indexes' = indexes \cup {<<i, n>>}

\* The names m_cache2 knows for an index.
NamesOf(i) == { x[2] : x \in { y \in indexes : y[1] = i } }

\* Slip: only one of the names goes.
RemovedFew(i) == IF NamesOf(i) = {} THEN {} ELSE {Min(NamesOf(i))}

\* The names remove(index) takes out.
Removed(i) == NamesOf(i)

\* remove(index): every name of the inode.
RemoveIndex(i) ==
  /\ Change
  /\ names' = [x \in DOMAIN names \ Removed(i) |-> names[x]]
  /\ indexes' = { x \in indexes : x[1] # i }

\* remove(filename): m_cache2 loses every name of the index.
RemoveName(n) ==
  /\ Change
  /\ n \in DOMAIN names
  /\ names' = [x \in DOMAIN names \ {n} |-> names[x]]
  /\ indexes' = { x \in indexes : x[1] # names[n] }

BlocksFor(n) == (n + PerBlock - 1) \div PerBlock

\* The entries as far as the clusters of n entries go.
Fitted(n) ==
  [k \in 1 .. BlocksFor(n) * PerBlock |-> IF k <= Len(file) THEN file[k] ELSE Stale]

\* The entries after the clusters behind those of n entries are given back:
\* clear_cluster zeroes the direct ones.
Cleared(n) ==
  [k \in 1 .. Len(file) |->
     IF BlocksFor(n) * PerBlock < k /\ k <= Direct * PerBlock THEN Zeroed ELSE file[k]]

\* Slip: the inode is resized only to grow.
ResizeUp ==
  /\ step \in {"open", "changed"}
  /\ size' = Max({size, Cardinality(DOMAIN names)})
  /\ BlocksFor(size') <= Blocks
  /\ file' = IF size' > size THEN Fitted(size') ELSE file
  /\ step' = "writing"
  /\ UNCHANGED <<saved, names, indexes, put, before, tidy>>

\* close: seek to the beginning and resize.
Resize ==
  /\ step \in {"open", "changed"}
  /\ size' = Cardinality(DOMAIN names)
  /\ BlocksFor(size') <= Blocks
  /\ file' = IF size' > size THEN Fitted(size') ELSE Cleared(size')
  /\ step' = "writing"
  /\ UNCHANGED <<saved, names, indexes, put, before, tidy>>

\* The drive is full: i_size is set before the clusters are there, and the
\* catalog stays open for good.
ResizeThrows ==
  /\ step \in {"open", "changed"}
  /\ BlocksFor(Cardinality(DOMAIN names)) > BlocksFor(size)
  /\ size' = Cardinality(DOMAIN names)
  /\ step' = "stuck"
  /\ UNCHANGED <<file, saved, names, indexes, put, before, tidy>>

\* Slip: the entries are written from the last to the first.
WriteEntryBackwards ==
  /\ step = "writing"
  /\ put < Cardinality(DOMAIN names)
  /\ put' = put + 1
  /\ LET k == Cardinality(DOMAIN names) - put
     IN file' = [file EXCEPT ![k] = InOrder(names)[k]]
  /\ UNCHANGED <<size, saved, names, indexes, step, before, tidy>>

\* close: the next entry.
WriteEntry ==
  /\ step = "writing"
  /\ put < Cardinality(DOMAIN names)
  /\ put' = put + 1
  /\ file' = [file EXCEPT ![put'] = InOrder(names)[put']]
  /\ UNCHANGED <<size, saved, names, indexes, step, before, tidy>>

\* close_inode writes the record; the clusters given back are reused.
CloseInode ==
  /\ step = "writing"
  /\ put = Cardinality(DOMAIN names)
  /\ saved' = size
  /\ file' = Fitted(size)
  /\ step' = "closed"
  /\ UNCHANGED <<size, names, indexes, put, before, tidy>>

\* The record on the drive still lists clusters that are given back.
Shrunk == step \in {"writing", "damaged"} /\ BlocksFor(size) < BlocksFor(saved)

\* The process ends, at any step; main() flushes nothing when it ends well.
\* names becomes what the drive still says.
Crash ==
  /\ step \notin {"closed", "damaged"} /\ ~Shrunk
  /\ size' = saved
  /\ file' = Fitted(saved)
  /\ names' = Scanned(saved)
  /\ before' = Scanned(saved)
  /\ step' = "closed"
  /\ UNCHANGED <<saved, indexes, put, tidy>>

\* The process ends while a cluster of the record is on the list of free ones
\* too: the drive is damaged, as FilesystemCore has it, and the model ends here.
CrashDamages ==
  /\ step # "damaged" /\ Shrunk
  /\ step' = "damaged"
  /\ UNCHANGED <<file, size, saved, names, indexes, put, before, tidy>>

End == step = "damaged" /\ UNCHANGED vars

Next ==
  \/ Open
  \/ \E i \in Index, n \in Name : Add(i, n)
  \/ \E i \in Index : RemoveIndex(i)
  \/ \E n \in Name : RemoveName(n)
  \/ Resize
  \/ ResizeThrows
  \/ WriteEntry
  \/ CloseInode
  \/ Crash
  \/ CrashDamages
  \/ End

Spec == Init /\ [][Next]_vars

-----------------------------------------------------------------------------

TypeOK ==
  /\ \A k \in 1 .. Len(file) :
       file[k] \in {Stale, Zeroed} \/ (file[k].c_name \in Name /\ file[k].c_inode \in Index)
  /\ saved <= Len(file)
  /\ step # "stuck" => size <= Len(file)
  /\ \A f \in {names, before} : \A n \in DOMAIN f : n \in Name /\ f[n] \in Index
  /\ indexes \subseteq Index \X Name
  /\ step \in Steps
  /\ put \in 0 .. Cardinality(Name)

\* After close a scan finds every name, with its inode, and no other: nothing
\* of the longer catalog before, nothing of a reused cluster.
ReopenFindsAll ==
  step = "closed" => size = saved /\ Scanned(saved) = names

\* remove(index) leaves no name of the inode, by which a later file at the
\* same index could be reached, also when a crash left a name twice: what
\* m_cache2 knows and what m_cache3 knows are the same names.
RemoveIsTotal ==
  [][\A i \in Index : RemoveIndex(i) => \A n \in DOMAIN names' : names'[n] # i]_vars

\* Whenever the process ends, the drive holds only names of the catalog
\* before or after the change, each with its inode, and the names before if
\* the change failed; behind a shrinking resize also the entry of a zeroed
\* cluster, the name "" with the inode of the root.  Unless an earlier crash
\* has left the entries out of order, it has lost no more of the names the
\* change kept than the change adds or removes, and none if the change added
\* none and gave no cluster back.
CrashKeepsNames ==
  LET kept  == PairsOf(before) \cap PairsOf(names)
      drive == PairsOf(Scanned(saved))
      lost  == kept \ drive
      come  == DOMAIN names \ DOMAIN before
      gone  == DOMAIN before \ DOMAIN names
      blank == IF Shrunk THEN {<<Zeroed.c_inode, Zeroed.c_name>>} ELSE {}
  IN /\ drive \subseteq PairsOf(before) \cup PairsOf(names) \cup blank
     /\ step = "stuck" => drive = PairsOf(before)
     /\ tidy => Cardinality(lost) <= Cardinality(come) + Cardinality(gone)
     /\ tidy /\ come = {} /\ ~Shrunk => lost = {}

=============================================================================
