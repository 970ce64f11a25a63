--------------------------- MODULE FilesystemProofs ---------------------------
(***************************************************************************)
(* What the calls of Filesystem keep true, for drives of any size, paths   *)
(* of any length and any names.                                            *)
(***************************************************************************)
EXTENDS Filesystem, SequenceTheorems, FiniteSetTheorems, WellFoundedInduction, TLAPS

-----------------------------------------------------------------------------
\* Induction, by the least number for which a claim fails: stated with sets,
\* because the provers cannot instantiate a theorem with an operator parameter.

Before == { x \in Nat \X Nat : x[1] < x[2] }

LEMMA BeforeIsWellFounded == IsWellFoundedOn(Before, Nat)
  BY NatLessThanWellFounded DEF Before, OpToRel

LEMMA LeastNumber ==
  ASSUME NEW T \in SUBSET Nat, T # {}
  PROVE  \E n \in T : \A m \in T : n <= m
<1>1. PICK n \in T : \A m \in T : <<m, n>> \notin Before
  BY BeforeIsWellFounded, WFMin
<1>2. \A m \in T : m < n => <<m, n>> \in Before
  BY DEF Before
<1>3. \A m \in T : ~(m < n)
  BY <1>1, <1>2
<1>4. \A m \in T : n <= m
  BY <1>3
<1> QED BY <1>4

-----------------------------------------------------------------------------
\* Paths and their prefixes.

Prefix(p, n) == SubSeq(p, 1, n)

LEMMA PrefixFacts ==
  ASSUME NEW p \in Seq(Name), NEW n \in 0 .. Len(p)
  PROVE  /\ Prefix(p, n) \in Seq(Name) /\ Len(Prefix(p, n)) = n
         /\ \A k \in 1 .. n : Prefix(p, n)[k] = p[k]
         /\ \A m \in 0 .. n : Prefix(Prefix(p, n), m) = Prefix(p, m)
         /\ Prefix(p, 0) = <<>> /\ Prefix(p, Len(p)) = p
         /\ n # 0 => /\ Prefix(p, n) # <<>>
                     /\ Front(Prefix(p, n)) = Prefix(p, n - 1)
                     /\ Last(Prefix(p, n)) = p[n] /\ p[n] \in Name
<1>1. Prefix(p, n) \in Seq(Name) /\ Len(Prefix(p, n)) = n
  BY DEF Prefix
<1>2. \A k \in 1 .. n : Prefix(p, n)[k] = p[k]
  BY DEF Prefix
<1>3. ASSUME NEW m \in 0 .. n PROVE Prefix(Prefix(p, n), m) = Prefix(p, m)
  <2>1. Prefix(p, m) \in Seq(Name) /\ Prefix(Prefix(p, n), m) \in Seq(Name)
    BY <1>1 DEF Prefix
  <2>2. Len(Prefix(p, m)) = m /\ Len(Prefix(Prefix(p, n), m)) = m
    BY <1>1 DEF Prefix
  <2>3. \A k \in 1 .. m : Prefix(p, m)[k] = p[k] /\ Prefix(Prefix(p, n), m)[k] = Prefix(p, n)[k]
    BY <1>1 DEF Prefix
  <2> QED BY <1>2, <2>1, <2>2, <2>3, SeqEqual
<1>4. Prefix(p, 0) = <<>> /\ Prefix(p, Len(p)) = p
  BY SubSeqEmpty, SubSeqFull DEF Prefix
<1>5. ASSUME n # 0
      PROVE  /\ Prefix(p, n) # <<>> /\ Front(Prefix(p, n)) = Prefix(p, n - 1)
             /\ Last(Prefix(p, n)) = p[n] /\ p[n] \in Name
  <2>1. Front(Prefix(p, n)) = Prefix(Prefix(p, n), n - 1)
    BY <1>1 DEF Front, Prefix
  <2>2. n - 1 \in 0 .. n /\ n \in 1 .. n /\ n \in 1 .. Len(p)
    BY <1>5
  <2> QED BY <1>1, <1>2, <1>3, <1>5, <2>1, <2>2 DEF Last
<1> QED BY <1>1, <1>2, <1>3, <1>4, <1>5

\* A sequence taken apart and put together.
LEMMA HeadFacts ==
  ASSUME NEW S, NEW s \in Seq(S), s # <<>>
  PROVE  /\ Len(s) \in Nat \ {0} /\ Head(s) = s[1] /\ s[1] \in S
         /\ Tail(s) \in Seq(S) /\ Len(Tail(s)) = Len(s) - 1
         /\ \A n \in 1 .. Len(s) - 1 : Tail(s)[n] = s[n + 1]
<1>1. Len(s) \in Nat \ {0}
  BY EmptySeq
<1> QED BY <1>1

LEMMA LenConcat ==
  ASSUME NEW S, NEW s \in Seq(S), NEW t \in Seq(S)
  PROVE  Len(s \o t) = Len(s) + Len(t) /\ Len(t) \in Nat
OBVIOUS

LEMMA PushFacts ==
  ASSUME NEW S, NEW s \in Seq(S), NEW e \in S
  PROVE  /\ <<e>> \o s \in Seq(S) /\ Len(<<e>> \o s) = Len(s) + 1 /\ <<e>> \o s # <<>>
         /\ (<<e>> \o s)[1] = e /\ \A n \in 1 .. Len(s) : (<<e>> \o s)[n + 1] = s[n]
<1>1. <<e>> \in Seq(S) /\ Len(<<e>>) = 1 /\ Len(s) \in Nat
  OBVIOUS
<1>2. <<e>> \o s \in Seq(S) /\ Len(<<e>> \o s) = Len(s) + 1
  BY <1>1
<1>3. (<<e>> \o s)[1] = e /\ \A n \in 1 .. Len(s) : (<<e>> \o s)[n + 1] = s[n]
  BY <1>1
<1> QED BY <1>1, <1>2, <1>3

-----------------------------------------------------------------------------
\* find_index.

\* One step of it, from the catalog i to the name n.
Child(i, n) ==
  IF i # None /\ IsCatalog(i) /\ <<i, n>> \in Pairs THEN entries[<<i, n>>] ELSE None

LEMMA LevelFacts ==
  ASSUME NEW t, <<>> \in DOMAIN t, NEW p \in Seq(Name)
  PROVE  /\ CachedLevel(t, p) \in 0 .. Len(p)
         /\ Prefix(p, CachedLevel(t, p)) \in DOMAIN t
         /\ \A m \in (CachedLevel(t, p) + 1) .. Len(p) : Prefix(p, m) \notin DOMAIN t
<1> DEFINE T == { k \in 0 .. Len(p) : Prefix(p, Len(p) - k) \in DOMAIN t }
<1>1. Len(p) \in Nat
  OBVIOUS
<1>2. Prefix(p, 0) \in DOMAIN t
  BY <1>1, PrefixFacts
<1>3. Len(p) \in T /\ T \in SUBSET Nat
  BY <1>1, <1>2
<1>4. PICK k \in T : \A m \in T : k <= m
  BY <1>3, LeastNumber
<1>5. ASSUME NEW m \in (Len(p) - k + 1) .. Len(p) PROVE Prefix(p, m) \notin DOMAIN t
  <2>1. Len(p) - m \in 0 .. Len(p) /\ Len(p) - m < k /\ Len(p) - (Len(p) - m) = m
    BY <1>1, <1>5
  <2>2. Len(p) - m \notin T
    BY <1>1, <1>4, <2>1
  <2> QED BY <2>1, <2>2
<1>6. /\ Len(p) - k \in 0 .. Len(p) /\ Prefix(p, Len(p) - k) \in DOMAIN t
      /\ \A m \in (Len(p) - k + 1) .. Len(p) : Prefix(p, m) \notin DOMAIN t
  BY <1>1, <1>4, <1>5
<1>7. \E n \in 0 .. Len(p) : /\ Prefix(p, n) \in DOMAIN t
                             /\ \A m \in (n + 1) .. Len(p) : Prefix(p, m) \notin DOMAIN t
  BY <1>6
<1> QED BY <1>7 DEF CachedLevel, Prefix

\* The recursion has a solution, built up from the cached level.
LEMMA WalkFacts ==
  ASSUME NEW t, <<>> \in DOMAIN t, NEW p \in Seq(Name), NEW level, level = CachedLevel(t, p)
  PROVE  /\ Walk(t, p) = [n \in level .. Len(p) |-> Walk(t, p)[n]]
         /\ Walk(t, p)[level] = t[Prefix(p, level)]
         /\ \A n \in (level + 1) .. Len(p) : Walk(t, p)[n] = Child(Walk(t, p)[n - 1], p[n])
<1> DEFINE Step(w, n) == IF n = level THEN t[Prefix(p, level)] ELSE Child(w[n - 1], p[n])
           Upto(w, m) == w = [n \in level .. m |-> Step(w, n)]
           T == { k \in Nat : level + k <= Len(p) /\ ~ \E w : Upto(w, level + k) }
<1>1. level \in 0 .. Len(p) /\ Len(p) \in Nat
  BY LevelFacts
<1>2. T = {}
  <2> SUFFICES ASSUME T # {} PROVE FALSE
    OBVIOUS
  <2>1. PICK k \in T : \A m \in T : k <= m
    BY LeastNumber
  <2>2. CASE k = 0
    <3> DEFINE w == [n \in level .. level |-> t[Prefix(p, level)]]
    <3>1. Upto(w, level)
      BY <1>1
    <3>2. level + k = level
      BY <1>1, <2>2
    <3>3. Upto(w, level + k)
      BY <3>1, <3>2
    <3> HIDE DEF w, Upto
    <3> QED BY <2>1, <3>3
  <2>3. CASE k # 0
    <3>1. k - 1 \in Nat /\ level + (k - 1) <= Len(p) /\ k - 1 \notin T
      BY <1>1, <2>1, <2>3
    <3>2. PICK w : Upto(w, level + (k - 1))
      BY <3>1
    <3> DEFINE v == [n \in level .. (level + k) |->
                       IF n = level + k THEN Child(w[level + k - 1], p[level + k]) ELSE w[n]]
    <3>3. ASSUME NEW n \in level .. (level + k) PROVE v[n] = Step(v, n)
      <4>1. CASE n = level + k
        BY <1>1, <2>1, <2>3, <4>1
      <4>2. CASE n # level + k
        <5>0. k \in Nat
          BY <2>1
        <5>1. n \in level .. (level + (k - 1)) /\ v[n] = w[n]
          BY ONLY <1>1, <4>2, <5>0, n \in level .. (level + k) DEF v
        <5>2. w[n] = Step(w, n)
          BY <3>2, <5>1
        <5>3. n # level => v[n - 1] = w[n - 1]
          BY <1>1, <2>1, <5>1
        <5> QED BY <5>1, <5>2, <5>3
      <4> QED BY <4>1, <4>2
    <3>4. Upto(v, level + k)
      BY <3>3
    <3> QED BY <2>1, <3>4
  <2> QED BY <2>2, <2>3
<1>3. \E w : Upto(w, Len(p))
  <2>1. Len(p) - level \in Nat /\ level + (Len(p) - level) = Len(p)
    BY <1>1
  <2> QED BY <1>2, <2>1
<1> HIDE DEF T
<1>4. Walk(t, p) = CHOOSE w : Upto(w, Len(p))
  BY DEF Walk, Child, Prefix
<1>5. Upto(Walk(t, p), Len(p))
  BY <1>3, <1>4
<1> QED BY <1>1, <1>5

\* Find with any tree.
FindIn(t, p) == Walk(t, p)[Len(p)]

\* The walk to a path passes the same inodes as the walks to its prefixes.
LEMMA WalkOfPrefix ==
  ASSUME NEW t, <<>> \in DOMAIN t, NEW p \in Seq(Name),
         NEW n \in CachedLevel(t, p) .. Len(p)
  PROVE  FindIn(t, Prefix(p, n)) = Walk(t, p)[n]
<1> DEFINE level == CachedLevel(t, p)
           q == Prefix(p, n)
           w == Walk(t, p)
           v == Walk(t, q)
           T == { k \in Nat : level + k <= n /\ v[level + k] # w[level + k] }
<1>1. level \in 0 .. Len(p) /\ n \in 0 .. Len(p) /\ Len(p) \in Nat
  BY LevelFacts
<1>2. /\ q \in Seq(Name) /\ Len(q) = n /\ \A k \in 1 .. n : q[k] = p[k]
      /\ \A m \in 0 .. n : Prefix(q, m) = Prefix(p, m)
  BY <1>1, PrefixFacts
<1>3. CachedLevel(t, q) = level
  <2> DEFINE other == CachedLevel(t, q)
  <2>1. /\ other \in 0 .. n /\ Prefix(q, other) \in DOMAIN t
        /\ \A m \in (other + 1) .. n : Prefix(q, m) \notin DOMAIN t
    BY <1>2, LevelFacts
  <2>2. /\ Prefix(p, level) \in DOMAIN t
        /\ \A m \in (level + 1) .. Len(p) : Prefix(p, m) \notin DOMAIN t
    BY LevelFacts
  <2>3. Prefix(p, other) \in DOMAIN t /\ Prefix(q, level) \in DOMAIN t
    BY <1>1, <1>2, <2>1, <2>2
  <2> HIDE DEF other, level, q
  <2>4. other > level => other \in (level + 1) .. Len(p)
    BY <1>1, <2>1
  <2>5. level > other => level \in (other + 1) .. n
    BY <1>1, <2>1 DEF level
  <2>6. ~(other > level) /\ ~(level > other)
    BY <2>1, <2>2, <2>3, <2>4, <2>5
  <2> QED BY <1>1, <2>1, <2>6 DEF other
<1>4. /\ w[level] = t[Prefix(p, level)]
      /\ \A k \in (level + 1) .. Len(p) : w[k] = Child(w[k - 1], p[k])
  BY WalkFacts
<1>5. /\ v[level] = t[Prefix(q, level)]
      /\ \A k \in (level + 1) .. n : v[k] = Child(v[k - 1], q[k])
  BY <1>2, <1>3, WalkFacts
<1>6. Prefix(q, level) = Prefix(p, level)
  BY <1>1, <1>2
<1> HIDE DEF level, q, w, v
<1>7. T = {}
  <2> SUFFICES ASSUME T # {} PROVE FALSE
    OBVIOUS
  <2>1. PICK k \in T : \A m \in T : k <= m
    BY LeastNumber
  <2>2. k # 0
    BY <1>1, <1>4, <1>5, <1>6, <2>1
  <2>3. k - 1 \in Nat /\ level + (k - 1) <= n /\ k - 1 \notin T
    BY <1>1, <2>1, <2>2
  <2>4. v[level + k - 1] = w[level + k - 1]
    BY <1>1, <2>1, <2>3
  <2>5. level + k \in (level + 1) .. n /\ level + k \in 1 .. n /\ level + k \in (level + 1) .. Len(p)
    BY <1>1, <2>1, <2>2
  <2>6. /\ v[level + k] = Child(v[level + k - 1], q[level + k])
        /\ w[level + k] = Child(w[level + k - 1], p[level + k])
    BY <1>1, <1>4, <1>5, <2>1, <2>5
  <2>7. v[level + k] = w[level + k]
    BY <1>2, <2>4, <2>5, <2>6
  <2> QED BY <2>1, <2>7
<1>8. n - level \in Nat /\ level + (n - level) = n /\ n - level \notin T
  BY <1>1, <1>7 DEF level
<1> QED BY <1>2, <1>8 DEF FindIn, q, v, w

\* find_index, as the recursion it is: a path of the tree is what the tree says,
\* any other is a step from the path above it.
LEMMA FindFacts ==
  ASSUME NEW t, <<>> \in DOMAIN t, NEW p \in Seq(Name)
  PROVE  /\ p \in DOMAIN t => FindIn(t, p) = t[p]
         /\ p \notin DOMAIN t =>
              p # <<>> /\ FindIn(t, p) = Child(FindIn(t, Front(p)), Last(p))
<1> DEFINE level == CachedLevel(t, p)
<1>1. /\ level \in 0 .. Len(p) /\ Len(p) \in Nat /\ Prefix(p, level) \in DOMAIN t
      /\ \A m \in (level + 1) .. Len(p) : Prefix(p, m) \notin DOMAIN t
  BY LevelFacts
<1>2. Prefix(p, Len(p)) = p
  BY <1>1, PrefixFacts
<1>3. /\ Walk(t, p)[level] = t[Prefix(p, level)]
      /\ \A n \in (level + 1) .. Len(p) : Walk(t, p)[n] = Child(Walk(t, p)[n - 1], p[n])
  BY WalkFacts
<1> HIDE DEF level
<1>4. ASSUME p \in DOMAIN t PROVE FindIn(t, p) = t[p]
  <2>1. level = Len(p)
    BY <1>1, <1>2, <1>4
  <2> QED BY <1>2, <1>3, <2>1 DEF FindIn
<1>5. ASSUME p \notin DOMAIN t
      PROVE  p # <<>> /\ FindIn(t, p) = Child(FindIn(t, Front(p)), Last(p))
  <2>1. level # Len(p)
    BY <1>1, <1>2, <1>5
  <2>2. Len(p) # 0 /\ Len(p) \in (level + 1) .. Len(p) /\ Len(p) - 1 \in level .. Len(p)
        /\ Len(p) - 1 \in 0 .. Len(p)
    BY <1>1, <2>1
  <2>3. Walk(t, p)[Len(p)] = Child(Walk(t, p)[Len(p) - 1], p[Len(p)])
    BY <1>3, <2>2
  <2>4. Front(p) = Prefix(p, Len(p) - 1) /\ Last(p) = p[Len(p)]
    BY DEF Front, Last, Prefix
  <2>5. Walk(t, p)[Len(p) - 1] = FindIn(t, Front(p))
    BY <2>2, <2>4, WalkOfPrefix DEF level
  <2> QED BY <1>5, <2>3, <2>4, <2>5 DEF FindIn
<1> QED BY <1>4, <1>5

\* The tree after a lookup.
LEMMA CachedFacts ==
  ASSUME NEW t, <<>> \in DOMAIN t, NEW p \in Seq(Name)
  PROVE  /\ DOMAIN t \subseteq DOMAIN CachedIn(t, p)
         /\ \A q \in DOMAIN t : CachedIn(t, p)[q] = t[q]
         /\ \A q \in DOMAIN CachedIn(t, p) \ DOMAIN t :
              /\ CachedIn(t, p)[q] = FindIn(t, q) /\ FindIn(t, q) # None
              /\ \E n \in (CachedLevel(t, p) + 1) .. Len(p) : q = Prefix(p, n)
         /\ \A n \in CachedLevel(t, p) .. Len(p) :
              FindIn(t, Prefix(p, n)) # None => Prefix(p, n) \in DOMAIN CachedIn(t, p)
<1> DEFINE level == CachedLevel(t, p)
           w == Walk(t, p)
           found == { n \in DOMAIN w : w[n] # None }
           new == { SubSeq(p, 1, n) : n \in found }
<1>1. /\ level \in 0 .. Len(p) /\ Len(p) \in Nat /\ Prefix(p, level) \in DOMAIN t
      /\ \A m \in (level + 1) .. Len(p) : Prefix(p, m) \notin DOMAIN t
  BY LevelFacts
<1>2. DOMAIN w = level .. Len(p) /\ w[level] = t[Prefix(p, level)]
  BY WalkFacts
<1>3. CachedIn(t, p) = [q \in DOMAIN t \cup new |-> IF q \in DOMAIN t THEN t[q] ELSE w[Len(q)]]
  BY DEF CachedIn
<1>6. ASSUME NEW q \in new
      PROVE  \E n \in level .. Len(p) :
               q = Prefix(p, n) /\ Len(q) = n /\ w[n] # None /\ w[n] = FindIn(t, q)
  <2>1. PICK n \in found : q = Prefix(p, n)
    BY DEF Prefix
  <2>2. n \in level .. Len(p) /\ n \in 0 .. Len(p) /\ w[n] # None
    BY <1>1, <1>2
  <2> QED BY <2>1, <2>2, PrefixFacts, WalkOfPrefix
<1>7. \A n \in level .. Len(p) : FindIn(t, Prefix(p, n)) # None => Prefix(p, n) \in new
  BY <1>2, WalkOfPrefix DEF Prefix
<1> HIDE DEF level, w, found, new
<1>8. ASSUME NEW q \in DOMAIN CachedIn(t, p) \ DOMAIN t
      PROVE  /\ CachedIn(t, p)[q] = FindIn(t, q) /\ FindIn(t, q) # None
             /\ \E n \in (level + 1) .. Len(p) : q = Prefix(p, n)
  <2>1. q \in new
    BY <1>3
  <2>2. PICK n \in level .. Len(p) : q = Prefix(p, n) /\ Len(q) = n /\ w[n] # None
                                     /\ w[n] = FindIn(t, q)
    BY <1>6, <2>1
  <2>3. n # level
    BY <1>1, <2>2
  <2>4. n \in (level + 1) .. Len(p)
    BY <1>1, <2>3
  <2> QED BY <1>3, <2>1, <2>2, <2>4
<1> QED BY <1>3, <1>7, <1>8 DEF level

-----------------------------------------------------------------------------
\* The drive.

USE DEF Pairs

NamesOf(i) == { x \in Pairs : entries[x] = i }

\* No inode ever has two names.
Linkless == "link" \notin calls

Shape ==
  /\ kind \in [Inode -> {"dead", "file", "catalog"}]
  /\ links \in [Inode -> Nat]
  /\ IsFiniteSet(Pairs) /\ Pairs \subseteq Inode \X Name
  /\ \A x \in Pairs : entries[x] \in Inode

\* NoDangling, LinksExact and, of catalogs, more than that: none but the root is
\* without the entry that makes it one of a tree.
Names ==
  /\ kind[Root] = "catalog"
  /\ \A x \in Pairs : /\ kind[x[1]] = "catalog"
                      /\ kind[entries[x]] # "dead" /\ entries[x] # Root
  /\ \A x, y \in Pairs :
       entries[x] = entries[y] /\ (kind[entries[x]] = "catalog" \/ Linkless) => x = y
  /\ \A i \in Inode : kind[i] = "file" => links[i] = Cardinality(NamesOf(i))

\* What is open is in use.
Opened ==
  /\ open \in SUBSET Inode /\ held \in SUBSET open
  /\ \A i \in open : kind[i] # "dead"

\* What has no name was left by a call that threw and left something open as well.
Nameless ==
  (\E i \in Inode \ {Root} : kind[i] # "dead" /\ NamesOf(i) = {}) => ~NothingLeftOpen

SoundDrive == Shape /\ Names /\ Opened /\ Nameless

LEMMA RootIsInode == Root \in Inode /\ None \notin Inode
  BY NamespaceAssumption DEF Root, None, Inode

LEMMA NamesFinite ==
  ASSUME Shape, NEW i
  PROVE  IsFiniteSet(NamesOf(i)) /\ Cardinality(NamesOf(i)) \in Nat
  BY FS_Subset, FS_CardinalityType DEF Shape, NamesOf

\* How the set of open inodes may change: none is lost that no caller holds.
LEMMA DriveOpens ==
  ASSUME SoundDrive, UNCHANGED <<calls, kind, links, entries>>,
         Opened', NothingLeftOpen' => NothingLeftOpen
  PROVE  SoundDrive'
<1>1. Shape' /\ Names' /\ \A i : NamesOf(i)' = NamesOf(i)
  BY DEF SoundDrive, Shape, Names, NamesOf, Linkless
<1> QED BY <1>1 DEF SoundDrive, Nameless

\* A new inode with a name.
LEMMA DriveMakes ==
  ASSUME SoundDrive, UNCHANGED calls, NEW i \in Inode, kind[i] = "dead",
         NEW k \in {"file", "catalog"}, kind' = [kind EXCEPT ![i] = k],
         NEW n \in Nat, k = "file" => n = 1, links' = [links EXCEPT ![i] = n],
         NEW x \in Inode \X Name, x \notin Pairs, kind[x[1]] = "catalog",
         entries' = With(entries, x, i),
         Opened', NothingLeftOpen' => NothingLeftOpen
  PROVE  SoundDrive'
<1>1. /\ DOMAIN entries' = Pairs \cup {x} /\ entries'[x] = i
      /\ \A y \in Pairs : entries'[y] = entries[y]
  BY DEF With
<1>2. /\ \A y \in Pairs : kind[y[1]] = "catalog" /\ kind[entries[y]] # "dead" /\ entries[y] # Root
      /\ kind[Root] = "catalog" /\ Root \in Inode
  BY RootIsInode DEF SoundDrive, Names
<1>3. kind'[i] = k /\ \A j \in Inode \ {i} : kind'[j] = kind[j]
  BY DEF SoundDrive, Shape
<1>4. Shape'
  <2>1. IsFiniteSet(DOMAIN entries')
    BY <1>1, FS_AddElement DEF SoundDrive, Shape
  <2>2. DOMAIN entries' \subseteq Inode \X Name /\ \A y \in DOMAIN entries' : entries'[y] \in Inode
    BY <1>1 DEF SoundDrive, Shape
  <2>3. kind' \in [Inode -> {"dead", "file", "catalog"}] /\ links' \in [Inode -> Nat]
    BY DEF SoundDrive, Shape
  <2> QED BY <2>1, <2>2, <2>3 DEF Shape
<1>5. \A y \in Pairs : y[1] \in Inode /\ y[1] # i /\ entries[y] \in Inode /\ entries[y] # i
  BY <1>2 DEF SoundDrive, Shape
<1>6. NamesOf(i)' = {x} /\ \A j \in Inode \ {i} : NamesOf(j)' = NamesOf(j)
  BY <1>1, <1>5 DEF NamesOf
<1>7. Names'
  <2>1. kind'[Root] = "catalog"
    BY <1>2, <1>3
  <2>2. \A y \in DOMAIN entries' : /\ kind'[y[1]] = "catalog"
                                   /\ kind'[entries'[y]] # "dead" /\ entries'[y] # Root
    BY <1>1, <1>2, <1>3, <1>5
  <2>3. ASSUME NEW y \in DOMAIN entries', NEW z \in DOMAIN entries', entries'[y] = entries'[z],
               kind'[entries'[y]] = "catalog" \/ Linkless'
        PROVE  y = z
    BY <1>1, <1>3, <1>5, <2>3 DEF SoundDrive, Names, Linkless
  <2>4. ASSUME NEW j \in Inode, kind'[j] = "file" PROVE links'[j] = Cardinality(NamesOf(j)')
    <3>1. CASE j = i
      <4>1. k = "file" /\ links'[i] = 1
        BY <1>3, <2>4, <3>1 DEF SoundDrive, Shape
      <4>2. Cardinality(NamesOf(i)') = 1
        BY <1>6, FS_Singleton
      <4> QED BY <3>1, <4>1, <4>2
    <3>2. CASE j # i
      BY <1>3, <1>6, <2>4, <3>2 DEF SoundDrive, Shape, Names
    <3> QED BY <3>1, <3>2
  <2> QED BY <2>1, <2>2, <2>3, <2>4 DEF Names
<1>8. Nameless'
  BY <1>3, <1>6 DEF SoundDrive, Nameless
<1> QED BY <1>4, <1>7, <1>8 DEF SoundDrive

\* A new inode without a name: the call that made it throws.
LEMMA DriveMakesUnnamed ==
  ASSUME SoundDrive, UNCHANGED <<calls, entries>>, NEW i \in Inode, kind[i] = "dead",
         NEW k \in {"file", "catalog"}, kind' = [kind EXCEPT ![i] = k],
         links' \in [Inode -> Nat], links'[i] = 0,
         \A j \in Inode \ {i} : links'[j] = links[j],
         Opened', ~NothingLeftOpen'
  PROVE  SoundDrive'
<1>1. kind'[i] = k /\ \A j \in Inode \ {i} : kind'[j] = kind[j]
  BY DEF SoundDrive, Shape
<1>2. Shape'
  BY DEF SoundDrive, Shape
<1>3. \A y \in Pairs : y[1] \in Inode /\ y[1] # i /\ entries[y] \in Inode /\ entries[y] # i
  BY DEF SoundDrive, Shape, Names
<1>4. NamesOf(i) = {} /\ \A j : NamesOf(j)' = NamesOf(j)
  BY <1>3 DEF NamesOf
<1>5. Names'
  <2>1. kind'[Root] = "catalog"
    BY <1>1, RootIsInode DEF SoundDrive, Names
  <2>2. \A y \in Pairs : kind'[y[1]] = kind[y[1]] /\ kind'[entries[y]] = kind[entries[y]]
    BY <1>1, <1>3
  <2>3. ASSUME NEW j \in Inode, kind'[j] = "file" PROVE links'[j] = Cardinality(NamesOf(j)')
    <3>1. CASE j = i
      BY <1>4, <3>1, FS_EmptySet
    <3>2. CASE j # i
      BY <1>1, <1>4, <2>3, <3>2 DEF SoundDrive, Names
    <3> QED BY <3>1, <3>2
  <2> QED BY <2>1, <2>2, <2>3 DEF SoundDrive, Names, Linkless
<1> QED BY <1>2, <1>5 DEF SoundDrive, Nameless

\* A second name for a file.
LEMMA DriveLinks ==
  ASSUME SoundDrive, UNCHANGED <<calls, kind, open, held>>, ~Linkless,
         NEW i \in Inode, kind[i] = "file", links' = [links EXCEPT ![i] = @ + 1],
         NEW x \in Inode \X Name, x \notin Pairs, kind[x[1]] = "catalog",
         entries' = With(entries, x, i)
  PROVE  SoundDrive'
<1>1. /\ DOMAIN entries' = Pairs \cup {x} /\ entries'[x] = i
      /\ \A y \in Pairs : entries'[y] = entries[y]
  BY DEF With
<1>2. Shape'
  <2>1. IsFiniteSet(DOMAIN entries')
    BY <1>1, FS_AddElement DEF SoundDrive, Shape
  <2>2. DOMAIN entries' \subseteq Inode \X Name /\ \A y \in DOMAIN entries' : entries'[y] \in Inode
    BY <1>1 DEF SoundDrive, Shape
  <2>3. links' \in [Inode -> Nat]
    BY DEF SoundDrive, Shape
  <2> QED BY <2>1, <2>2, <2>3 DEF SoundDrive, Shape
<1>3. NamesOf(i)' = NamesOf(i) \cup {x} /\ \A j \in Inode \ {i} : NamesOf(j)' = NamesOf(j)
  BY <1>1 DEF NamesOf
<1>4. x \notin NamesOf(i)
  BY DEF NamesOf
<1>5. Names'
  <2>1. kind'[Root] = "catalog" /\ i # Root
    BY DEF SoundDrive, Names
  <2>2. \A y \in DOMAIN entries' : /\ kind'[y[1]] = "catalog"
                                   /\ kind'[entries'[y]] # "dead" /\ entries'[y] # Root
    BY <1>1, <2>1 DEF SoundDrive, Names
  <2>3. ASSUME NEW y \in DOMAIN entries', NEW z \in DOMAIN entries', entries'[y] = entries'[z],
               kind'[entries'[y]] = "catalog" \/ Linkless'
        PROVE  y = z
    BY <1>1, <2>3 DEF SoundDrive, Names, Linkless
  <2>4. ASSUME NEW j \in Inode, kind'[j] = "file" PROVE links'[j] = Cardinality(NamesOf(j)')
    <3>1. CASE j = i
      <4>1. links'[i] = links[i] + 1 /\ links[i] = Cardinality(NamesOf(i))
        BY DEF SoundDrive, Shape, Names
      <4>2. Cardinality(NamesOf(i)') = Cardinality(NamesOf(i)) + 1
        BY <1>3, <1>4, NamesFinite, FS_AddElement DEF SoundDrive
      <4> QED BY <3>1, <4>1, <4>2
    <3>2. CASE j # i
      BY <1>3, <2>4, <3>2 DEF SoundDrive, Shape, Names
    <3> QED BY <3>1, <3>2
  <2> QED BY <2>1, <2>2, <2>3, <2>4 DEF Names
<1>6. Opened' /\ Nameless'
  BY <1>3 DEF SoundDrive, Opened, Nameless, NothingLeftOpen
<1> QED BY <1>2, <1>5, <1>6 DEF SoundDrive

\* A file loses one of several names.
LEMMA DriveUnlinks ==
  ASSUME SoundDrive, UNCHANGED <<calls, kind, open, held>>,
         NEW x \in Pairs, kind[entries[x]] = "file", links[entries[x]] > 1,
         links' = [links EXCEPT ![entries[x]] = @ - 1],
         entries' = [y \in Pairs \ {x} |-> entries[y]]
  PROVE  SoundDrive' /\ ~Linkless
<1>1. PICK i \in Inode : i = entries[x]
  BY DEF SoundDrive, Shape
<1>2. DOMAIN entries' = Pairs \ {x} /\ \A y \in Pairs \ {x} : entries'[y] = entries[y]
  OBVIOUS
<1>3. /\ x \in NamesOf(i) /\ links[i] = Cardinality(NamesOf(i)) /\ links[i] \in Nat
      /\ links' = [links EXCEPT ![i] = links[i] - 1]
  BY <1>1 DEF SoundDrive, Shape, Names, NamesOf
<1>4. IsFiniteSet(NamesOf(i))
  BY NamesFinite DEF SoundDrive
<1>5. ~Linkless
  <2> SUFFICES ASSUME Linkless PROVE FALSE
    OBVIOUS
  <2>1. NamesOf(i) = {x}
    BY <1>1, <1>3 DEF SoundDrive, Names, NamesOf
  <2>2. Cardinality(NamesOf(i)) = 1
    BY <2>1, FS_Singleton
  <2> QED BY <1>1, <1>3, <2>2
<1>6. NamesOf(i)' = NamesOf(i) \ {x} /\ \A j \in Inode \ {i} : NamesOf(j)' = NamesOf(j)
  <2>1. \A j : NamesOf(j)' = NamesOf(j) \ {x}
    BY <1>2 DEF NamesOf
  <2>2. \A j \in Inode \ {i} : x \notin NamesOf(j)
    BY <1>1 DEF NamesOf
  <2> QED BY <2>1, <2>2
<1>7. Cardinality(NamesOf(i)') = links[i] - 1
  <2>1. PICK S : S = NamesOf(i)
    OBVIOUS
  <2>2. IsFiniteSet(S) /\ x \in S
    BY <1>3, <1>4, <2>1
  <2>3. Cardinality(S \ {x}) = Cardinality(S) - 1
    BY <2>2, FS_RemoveElement
  <2>4. NamesOf(i)' = S \ {x} /\ Cardinality(S) = links[i]
    BY <1>3, <1>4, <1>6, <2>1
  <2> QED BY <2>3, <2>4
<1>8. Shape'
  <2>1. IsFiniteSet(DOMAIN entries')
    BY <1>2, FS_RemoveElement DEF SoundDrive, Shape
  <2>2. DOMAIN entries' \subseteq Inode \X Name /\ \A y \in DOMAIN entries' : entries'[y] \in Inode
    BY <1>2 DEF SoundDrive, Shape
  <2>3. links[i] - 1 \in Nat /\ links' = [links EXCEPT ![i] = links[i] - 1] /\ links \in [Inode -> Nat]
    BY <1>1, <1>3 DEF SoundDrive, Shape
  <2>4. links' \in [Inode -> Nat]
    BY <2>3
  <2> QED BY <2>1, <2>2, <2>4 DEF SoundDrive, Shape
<1>9. Names'
  <2>1. \A y \in DOMAIN entries' : /\ kind'[y[1]] = "catalog"
                                   /\ kind'[entries'[y]] # "dead" /\ entries'[y] # Root
    BY <1>2 DEF SoundDrive, Names
  <2>2. ASSUME NEW y \in DOMAIN entries', NEW z \in DOMAIN entries', entries'[y] = entries'[z],
               kind'[entries'[y]] = "catalog" \/ Linkless'
        PROVE  y = z
    <3>1. y \in Pairs /\ z \in Pairs /\ entries[y] = entries[z]
      BY <1>2, <2>2
    <3>2. kind[entries[y]] = "catalog" \/ Linkless
      BY <1>2, <2>2 DEF Linkless
    <3> QED BY <3>1, <3>2 DEF SoundDrive, Names
  <2>3. ASSUME NEW j \in Inode, kind'[j] = "file" PROVE links'[j] = Cardinality(NamesOf(j)')
    <3>1. CASE j = i
      BY <1>3, <1>7, <3>1 DEF SoundDrive, Shape
    <3>2. CASE j # i
      BY <1>3, <1>6, <2>3, <3>2 DEF SoundDrive, Shape, Names
    <3> QED BY <3>1, <3>2
  <2> QED BY <2>1, <2>2, <2>3 DEF SoundDrive, Names
<1>10. Opened' /\ Nameless'
  <2>1. NamesOf(i)' # {}
    <3>1. Cardinality({}) = 0
      BY FS_EmptySet
    <3>2. Cardinality(NamesOf(i)') # 0
      BY <1>1, <1>3, <1>7
    <3> QED BY <3>1, <3>2
  <2>2. \A j \in Inode : NamesOf(j)' = {} => NamesOf(j) = {}
    BY <1>6, <2>1
  <2> QED BY <2>2 DEF SoundDrive, Opened, Nameless, NothingLeftOpen
<1> QED BY <1>5, <1>8, <1>9, <1>10 DEF SoundDrive

\* An inode that nobody has open is freed, with its names.
LEMMA DriveFrees ==
  ASSUME SoundDrive, UNCHANGED <<calls, open, held>>,
         NEW i \in Inode \ {Root}, i \notin open, \A x \in Pairs : x[1] # i,
         kind' = [kind EXCEPT ![i] = "dead"],
         links' \in [Inode -> Nat], \A j \in Inode \ {i} : links'[j] = links[j],
         entries' = [y \in Pairs \ NamesOf(i) |-> entries[y]]
  PROVE  SoundDrive'
<1>1. /\ DOMAIN entries' = Pairs \ NamesOf(i) /\ \A y \in DOMAIN entries' : entries'[y] = entries[y]
      /\ \A y \in DOMAIN entries' : y \in Pairs /\ entries[y] # i
  BY DEF NamesOf
<1>2. kind'[i] = "dead" /\ \A j \in Inode \ {i} : kind'[j] = kind[j]
  BY DEF SoundDrive, Shape
<1>3. \A j \in Inode \ {i} : NamesOf(j)' = NamesOf(j)
  BY <1>1 DEF NamesOf
<1>4. Shape'
  <2>1. IsFiniteSet(DOMAIN entries')
    BY <1>1, FS_Subset DEF SoundDrive, Shape
  <2>2. DOMAIN entries' \subseteq Inode \X Name /\ \A y \in DOMAIN entries' : entries'[y] \in Inode
    BY <1>1 DEF SoundDrive, Shape
  <2>3. kind' \in [Inode -> {"dead", "file", "catalog"}]
    BY DEF SoundDrive, Shape
  <2> QED BY <2>1, <2>2, <2>3 DEF Shape
<1>5. Names'
  <2>1. kind'[Root] = "catalog"
    BY <1>2, RootIsInode DEF SoundDrive, Names
  <2>2. \A y \in DOMAIN entries' : y[1] \in Inode \ {i} /\ entries[y] \in Inode \ {i}
    BY <1>1 DEF SoundDrive, Shape
  <2>3. \A y \in DOMAIN entries' : /\ kind'[y[1]] = "catalog"
                                   /\ kind'[entries'[y]] # "dead" /\ entries'[y] # Root
    BY <1>1, <1>2, <2>2 DEF SoundDrive, Names
  <2>4. ASSUME NEW y \in DOMAIN entries', NEW z \in DOMAIN entries', entries'[y] = entries'[z],
               kind'[entries'[y]] = "catalog" \/ Linkless'
        PROVE  y = z
    <3>1. y \in Pairs /\ z \in Pairs /\ entries[y] = entries[z]
      BY <1>1, <2>4
    <3>2. kind[entries[y]] = "catalog" \/ Linkless
      BY <1>1, <1>2, <2>2, <2>4 DEF Linkless
    <3> QED BY <3>1, <3>2 DEF SoundDrive, Names
  <2>5. ASSUME NEW j \in Inode, kind'[j] = "file" PROVE links'[j] = Cardinality(NamesOf(j)')
    BY <1>2, <1>3, <2>5 DEF SoundDrive, Names
  <2> QED BY <2>1, <2>3, <2>4, <2>5 DEF Names
<1>6. Opened' /\ Nameless'
  BY <1>2, <1>3 DEF SoundDrive, Opened, Nameless, NothingLeftOpen
<1> QED BY <1>4, <1>5, <1>6 DEF SoundDrive

-----------------------------------------------------------------------------
\* The tree.

\* What is cached is a tree of paths, which lead to inodes in use and agree with
\* the catalogs on every name that is there; a name of a catalog is there.
TreeSound(t) ==
  /\ DOMAIN t \subseteq Seq(Name) /\ <<>> \in DOMAIN t /\ t[<<>>] = Root
  /\ \A p \in DOMAIN t : t[p] \in Inode /\ kind[t[p]] # "dead"
  /\ \A p \in DOMAIN t \ {<<>>} :
       LET slot == <<t[Front(p)], Last(p)>> IN
       /\ Front(p) \in DOMAIN t /\ kind[t[Front(p)]] = "catalog"
       /\ slot \in Pairs => entries[slot] = t[p]
       /\ kind[t[p]] = "catalog" \/ Linkless => slot \in Pairs


\* What t says of the path p.
FoundFacts(t, p) ==
  /\ FindIn(t, p) \in Inode \cup {None}
  /\ FindIn(t, p) # None =>
       /\ kind[FindIn(t, p)] # "dead"
       /\ p # <<>> =>
            LET slot == <<FindIn(t, Front(p)), Last(p)>> IN
            /\ FindIn(t, Front(p)) \in Inode /\ kind[FindIn(t, Front(p))] = "catalog"
            /\ slot \in Pairs => entries[slot] = FindIn(t, p)
            /\ kind[FindIn(t, p)] = "catalog" \/ Linkless => slot \in Pairs
       /\ p = <<>> => FindIn(t, p) = Root

LEMMA FrontIsPath ==
  ASSUME NEW p \in Seq(Name), p # <<>>
  PROVE  /\ Front(p) \in Seq(Name) /\ Len(Front(p)) = Len(p) - 1 /\ Len(p) \in Nat \ {0}
         /\ Last(p) \in Name /\ p = Append(Front(p), Last(p))
<1>1. Len(p) \in Nat \ {0}
  BY EmptySeq
<1>2. Front(p) = Prefix(p, Len(p) - 1) /\ Len(p) - 1 \in 0 .. Len(p)
  BY <1>1 DEF Front, Prefix
<1>3. Front(p) \in Seq(Name) /\ Len(Front(p)) = Len(p) - 1
      /\ \A k \in 1 .. Len(p) - 1 : Front(p)[k] = p[k]
  BY <1>2, PrefixFacts
<1>4. Last(p) = p[Len(p)] /\ Last(p) \in Name
  BY <1>1 DEF Last
<1>5. p = Append(Front(p), Last(p))
  <2>1. Append(Front(p), Last(p)) \in Seq(Name) /\ Len(Append(Front(p), Last(p))) = Len(p)
    BY <1>1, <1>3, <1>4
  <2>2. \A k \in 1 .. Len(p) : Append(Front(p), Last(p))[k] = p[k]
    BY <1>1, <1>3, <1>4
  <2> QED BY <2>1, <2>2, SeqEqual
<1> QED BY <1>1, <1>3, <1>4, <1>5

LEMMA Found ==
  ASSUME SoundDrive, NEW t, TreeSound(t), NEW p \in Seq(Name)
  PROVE  FoundFacts(t, p)
<1>1. /\ DOMAIN t \subseteq Seq(Name) /\ <<>> \in DOMAIN t /\ t[<<>>] = Root
      /\ \A q \in DOMAIN t : t[q] \in Inode /\ kind[t[q]] # "dead" /\ t[q] # None
  BY RootIsInode DEF TreeSound
<1>2. CASE p \in DOMAIN t
  <2>1. FindIn(t, p) = t[p]
    BY <1>1, <1>2, FindFacts
  <2>2. CASE p = <<>>
    BY <1>1, <2>1, <2>2 DEF FoundFacts
  <2>3. CASE p # <<>>
    <3>1. Front(p) \in DOMAIN t
      BY <1>2, <2>3 DEF TreeSound
    <3>2. FindIn(t, Front(p)) = t[Front(p)]
      BY <1>1, <3>1, FindFacts
    <3> QED BY <1>1, <1>2, <2>1, <2>3, <3>1, <3>2 DEF FoundFacts, TreeSound
  <2> QED BY <2>2, <2>3
<1>3. CASE p \notin DOMAIN t
  <2>1. p # <<>> /\ FindIn(t, p) = Child(FindIn(t, Front(p)), Last(p))
    BY <1>1, <1>3, FindFacts
  <2>2. CASE FindIn(t, p) = None
    BY <2>2 DEF FoundFacts
  <2>3. CASE FindIn(t, p) # None
    <3>1. /\ FindIn(t, Front(p)) # None /\ kind[FindIn(t, Front(p))] = "catalog"
          /\ <<FindIn(t, Front(p)), Last(p)>> \in Pairs
          /\ FindIn(t, p) = entries[<<FindIn(t, Front(p)), Last(p)>>]
      BY <2>1, <2>3 DEF Child, IsCatalog
    <3>2. FindIn(t, Front(p)) \in Inode /\ FindIn(t, p) \in Inode /\ kind[FindIn(t, p)] # "dead"
      BY <3>1 DEF SoundDrive, Shape, Names
    <3> QED BY <2>1, <3>1, <3>2 DEF FoundFacts
  <2> QED BY <2>2, <2>3
<1> QED BY <1>2, <1>3

\* The tree after a lookup says of every path what it said before.
LEMMA CachedIs ==
  ASSUME NEW t, <<>> \in DOMAIN t, DOMAIN t \subseteq Seq(Name), NEW p \in Seq(Name),
         NEW q \in DOMAIN CachedIn(t, p)
  PROVE  CachedIn(t, p)[q] = FindIn(t, q)
  BY CachedFacts, FindFacts

LEMMA CachedSound ==
  ASSUME SoundDrive, NEW t, TreeSound(t), NEW p \in Seq(Name)
  PROVE  TreeSound(CachedIn(t, p))
<1> DEFINE u == CachedIn(t, p)
<1>1. /\ DOMAIN t \subseteq Seq(Name) /\ <<>> \in DOMAIN t /\ t[<<>>] = Root
      /\ CachedLevel(t, p) \in 0 .. Len(p)
  BY LevelFacts DEF TreeSound
<1>2. /\ DOMAIN t \subseteq DOMAIN u /\ \A q \in DOMAIN t : u[q] = t[q]
      /\ \A q \in DOMAIN u : u[q] = FindIn(t, q)
  BY <1>1, CachedFacts, CachedIs
<1>3. ASSUME NEW q \in DOMAIN u \ DOMAIN t
      PROVE  q \in Seq(Name) /\ q # <<>> /\ FindIn(t, q) # None /\ Front(q) \in DOMAIN u
  <2>1. FindIn(t, q) # None
    BY <1>1, CachedFacts
  <2>2. PICK n \in (CachedLevel(t, p) + 1) .. Len(p) : q = Prefix(p, n)
    BY <1>1, CachedFacts
  <2>3. n \in 0 .. Len(p) /\ n # 0 /\ n - 1 \in CachedLevel(t, p) .. Len(p)
    BY <1>1, <2>2
  <2>4. q \in Seq(Name) /\ q # <<>> /\ Front(q) = Prefix(p, n - 1)
    BY <2>2, <2>3, PrefixFacts
  <2>5. FindIn(t, Front(q)) # None
    BY <2>1, <2>4, Found, RootIsInode DEF FoundFacts
  <2>6. Front(q) \in DOMAIN u
    BY <1>1, <2>3, <2>4, <2>5, CachedFacts
  <2> QED BY <2>1, <2>4, <2>6
<1>4. ASSUME NEW q \in DOMAIN t \ {<<>>} PROVE Front(q) \in DOMAIN u
  BY <1>2, <1>4 DEF TreeSound
<1>5. \A q \in DOMAIN u : q \in Seq(Name) /\ FindIn(t, q) # None
  <2>1. \A q \in DOMAIN t : t[q] # None
    BY RootIsInode DEF TreeSound
  <2> QED BY <1>1, <1>2, <1>3, <2>1
<1>6. \A q \in DOMAIN u \ {<<>>} : Front(q) \in DOMAIN u
  BY <1>3, <1>4
<1> HIDE DEF u
<1>7. ASSUME NEW q \in DOMAIN u \ {<<>>}
      PROVE  LET slot == <<u[Front(q)], Last(q)>> IN
             /\ kind[u[Front(q)]] = "catalog"
             /\ slot \in Pairs => entries[slot] = u[q]
             /\ kind[u[q]] = "catalog" \/ Linkless => slot \in Pairs
  <2>1. q \in Seq(Name) /\ FindIn(t, q) # None /\ q # <<>> /\ Front(q) \in DOMAIN u
    BY <1>5, <1>6
  <2>2. u[q] = FindIn(t, q) /\ u[Front(q)] = FindIn(t, Front(q))
    BY <1>2, <2>1
  <2>3. FoundFacts(t, q)
    BY <2>1, Found
  <2> QED BY <2>1, <2>2, <2>3 DEF FoundFacts
<1>8. ASSUME NEW q \in DOMAIN u PROVE u[q] \in Inode /\ kind[u[q]] # "dead"
  <2>1. FoundFacts(t, q) /\ u[q] = FindIn(t, q) /\ FindIn(t, q) # None
    BY <1>2, <1>5, Found
  <2> QED BY <2>1 DEF FoundFacts
<1> QED BY <1>1, <1>2, <1>5, <1>6, <1>7, <1>8 DEF TreeSound, u


LEMMA CachedKeepsFind ==
  ASSUME NEW t, <<>> \in DOMAIN t, DOMAIN t \subseteq Seq(Name), NEW p \in Seq(Name),
         NEW q \in Seq(Name)
  PROVE  FindIn(CachedIn(t, p), q) = FindIn(t, q)
<1> DEFINE T == { k \in Nat : \E z \in Seq(Name) :
                    Len(z) = k /\ FindIn(CachedIn(t, p), z) # FindIn(t, z) }
<1>1. PICK u : u = CachedIn(t, p)
  OBVIOUS
<1>2. /\ <<>> \in DOMAIN u /\ DOMAIN t \subseteq DOMAIN u
      /\ \A z \in DOMAIN u : u[z] = FindIn(t, z)
  BY <1>1, CachedFacts, CachedIs
<1>3. T = {}
  <2> SUFFICES ASSUME T # {} PROVE FALSE
    OBVIOUS
  <2>1. PICK k \in T : \A m \in T : k <= m
    BY LeastNumber
  <2>2. PICK z \in Seq(Name) : Len(z) = k /\ FindIn(u, z) # FindIn(t, z)
    BY <1>1, <2>1
  <2>3. z \notin DOMAIN u
    BY <1>2, <2>2, FindFacts
  <2>4. z # <<>> /\ FindIn(u, z) = Child(FindIn(u, Front(z)), Last(z))
                 /\ FindIn(t, z) = Child(FindIn(t, Front(z)), Last(z))
    BY <1>2, <2>3, FindFacts
  <2>5. Front(z) \in Seq(Name) /\ Len(Front(z)) \in Nat /\ Len(Front(z)) < k
    BY <2>2, <2>4, FrontIsPath
  <2>6. Len(Front(z)) \notin T
    BY <2>1, <2>5
  <2>7. FindIn(u, Front(z)) = FindIn(t, Front(z))
    BY <1>1, <2>5, <2>6
  <2> QED BY <2>2, <2>4, <2>7
<1>4. Len(q) \in Nat
  OBVIOUS
<1> QED BY <1>3, <1>4

\* A catalog is found by one path only.
LEMMA CatalogPathsUnique ==
  ASSUME SoundDrive, NEW t, TreeSound(t), NEW p \in Seq(Name), NEW q \in Seq(Name),
         FindIn(t, p) # None, FindIn(t, p) = FindIn(t, q), kind[FindIn(t, p)] = "catalog"
  PROVE  p = q
<1> DEFINE T == { k \in Nat : \E y, z \in Seq(Name) :
                    /\ Len(y) = k /\ y # z /\ FindIn(t, y) # None
                    /\ FindIn(t, y) = FindIn(t, z) /\ kind[FindIn(t, y)] = "catalog" }
<1>1. ASSUME NEW y \in Seq(Name), y # <<>>, FindIn(t, y) # None, kind[FindIn(t, y)] = "catalog"
      PROVE  /\ <<FindIn(t, Front(y)), Last(y)>> \in Pairs
             /\ entries[<<FindIn(t, Front(y)), Last(y)>>] = FindIn(t, y)
             /\ FindIn(t, y) # Root
             /\ FindIn(t, Front(y)) # None /\ kind[FindIn(t, Front(y))] = "catalog"
  <2>1. /\ FindIn(t, Front(y)) \in Inode /\ kind[FindIn(t, Front(y))] = "catalog"
        /\ <<FindIn(t, Front(y)), Last(y)>> \in Pairs
        /\ entries[<<FindIn(t, Front(y)), Last(y)>>] = FindIn(t, y)
    BY <1>1, Found DEF FoundFacts
  <2> QED BY <2>1, RootIsInode DEF SoundDrive, Names
<1>2. \A y \in Seq(Name) : y = <<>> => FindIn(t, y) = Root
  BY FindFacts DEF TreeSound
<1>3. T = {}
  <2> SUFFICES ASSUME T # {} PROVE FALSE
    OBVIOUS
  <2>1. PICK k \in T : \A m \in T : k <= m
    BY LeastNumber
  <2>2. PICK y \in Seq(Name), z \in Seq(Name) :
          /\ Len(y) = k /\ y # z /\ FindIn(t, y) # None
          /\ FindIn(t, y) = FindIn(t, z) /\ kind[FindIn(t, y)] = "catalog"
    BY <2>1
  <2>3. y # <<>> /\ z # <<>>
    BY <1>1, <1>2, <2>2
  <2>4. <<FindIn(t, Front(y)), Last(y)>> = <<FindIn(t, Front(z)), Last(z)>>
    <3>1. /\ <<FindIn(t, Front(y)), Last(y)>> \in Pairs
          /\ entries[<<FindIn(t, Front(y)), Last(y)>>] = FindIn(t, y)
      BY <1>1, <2>2, <2>3
    <3>2. /\ <<FindIn(t, Front(z)), Last(z)>> \in Pairs
          /\ entries[<<FindIn(t, Front(z)), Last(z)>>] = FindIn(t, y)
      BY <1>1, <2>2, <2>3
    <3> QED BY <2>2, <3>1, <3>2 DEF SoundDrive, Names
  <2>5. /\ Front(y) \in Seq(Name) /\ Front(z) \in Seq(Name)
        /\ Len(Front(y)) \in Nat /\ Len(Front(y)) < k
        /\ y = Append(Front(y), Last(y)) /\ z = Append(Front(z), Last(z))
    <3>1. /\ Front(y) \in Seq(Name) /\ Len(Front(y)) = k - 1 /\ k \in Nat \ {0}
          /\ y = Append(Front(y), Last(y))
      BY <2>2, <2>3, FrontIsPath
    <3>2. Front(z) \in Seq(Name) /\ z = Append(Front(z), Last(z))
      BY <2>3, FrontIsPath
    <3> QED BY <3>1, <3>2
  <2>6. Len(Front(y)) \notin T
    BY <2>1, <2>5
  <2>7. FindIn(t, Front(y)) # None /\ kind[FindIn(t, Front(y))] = "catalog"
    BY <1>1, <2>2, <2>3
  <2>8. Front(y) = Front(z)
    BY <2>4, <2>5, <2>6, <2>7
  <2> QED BY <2>2, <2>4, <2>5, <2>8
<1>4. Len(p) \in Nat
  OBVIOUS
<1> QED BY <1>3, <1>4

LEMMA PrefixClosed ==
  ASSUME NEW t, TreeSound(t), NEW p \in DOMAIN t, NEW n \in 0 .. Len(p)
  PROVE  Prefix(p, n) \in DOMAIN t
<1> DEFINE T == { k \in Nat : k <= Len(p) /\ Prefix(p, Len(p) - k) \notin DOMAIN t }
<1>1. p \in Seq(Name) /\ Len(p) \in Nat /\ Prefix(p, Len(p)) = p
  BY PrefixFacts DEF TreeSound
<1>2. T = {}
  <2> SUFFICES ASSUME T # {} PROVE FALSE
    OBVIOUS
  <2>1. PICK k \in T : \A m \in T : k <= m
    BY LeastNumber
  <2>2. k # 0
    BY <1>1, <2>1
  <2>3. k \in Nat /\ k - 1 \in Nat /\ k <= Len(p) /\ k - 1 \notin T
    BY <2>1, <2>2
  <2>4. PICK m \in 1 .. Len(p) : m = Len(p) - (k - 1)
    BY <1>1, <2>2, <2>3
  <2>5. Prefix(p, m) \in DOMAIN t
    BY <1>1, <2>3, <2>4
  <2>8. m \in 0 .. Len(p) /\ m # 0
    BY <1>1
  <2>9. Prefix(p, m) # <<>> /\ Front(Prefix(p, m)) = Prefix(p, m - 1)
    BY <1>1, <2>8, PrefixFacts
  <2>10. m - 1 = Len(p) - k
    BY <1>1, <2>3, <2>4
  <2>6. Prefix(p, m) # <<>> /\ Front(Prefix(p, m)) = Prefix(p, m - 1) /\ m - 1 = Len(p) - k
    BY <2>9, <2>10
  <2>7. Prefix(p, m - 1) \in DOMAIN t
    <3>1. PICK s \in DOMAIN t \ {<<>>} : s = Prefix(p, m)
      BY <2>5, <2>6
    <3>2. Front(s) \in DOMAIN t
      BY DEF TreeSound
    <3> QED BY <2>6, <3>1, <3>2
  <2> QED BY <2>1, <2>6, <2>7
<1>3. Len(p) - n \in Nat /\ Len(p) - n <= Len(p) /\ Len(p) - (Len(p) - n) = n
  BY <1>1
<1> QED BY <1>2, <1>3

\* A lookup leaves every part of the path it found in the tree.
LEMMA CachedHas ==
  ASSUME SoundDrive, NEW t, TreeSound(t), NEW p \in Seq(Name), NEW n \in 0 .. Len(p),
         FindIn(t, Prefix(p, n)) # None
  PROVE  Prefix(p, n) \in DOMAIN CachedIn(t, p)
<1>1. <<>> \in DOMAIN t /\ CachedLevel(t, p) \in 0 .. Len(p) /\ Prefix(p, CachedLevel(t, p)) \in DOMAIN t
  BY LevelFacts DEF TreeSound
<1>2. CASE n >= CachedLevel(t, p)
  BY <1>1, <1>2, CachedFacts
<1>3. CASE n < CachedLevel(t, p)
  <2>1. n \in 0 .. CachedLevel(t, p)
    BY <1>1, <1>3
  <2>2. /\ Prefix(Prefix(p, CachedLevel(t, p)), n) = Prefix(p, n)
        /\ Len(Prefix(p, CachedLevel(t, p))) = CachedLevel(t, p)
    BY <1>1, <2>1, PrefixFacts
  <2>3. Prefix(p, n) \in DOMAIN t
    BY <1>1, <2>1, <2>2, PrefixClosed
  <2> QED BY <1>1, <2>3, CachedFacts
<1> QED BY <1>1, <1>2, <1>3

LEMMA NewTreeSound ==
  ASSUME SoundDrive
  PROVE  TreeSound(NewTree)
<1>1. DOMAIN NewTree = {<<>>} /\ NewTree[<<>>] = Root /\ <<>> \in Seq(Name)
  BY DEF NewTree
<1> QED BY <1>1, RootIsInode DEF TreeSound, SoundDrive, Names

\* What was in use keeps its kind, and the catalogs their entries.
LEMMA TreeKept ==
  ASSUME NEW t, TreeSound(t), UNCHANGED <<calls, entries>>,
         \A j \in Inode : kind[j] # "dead" => kind'[j] = kind[j]
  PROVE  TreeSound(t)'
  BY DEF TreeSound, Linkless

\* A new entry under a name the tree does not know.
LEMMA TreeNewEntry ==
  ASSUME SoundDrive, NEW t, TreeSound(t), UNCHANGED calls,
         \A j \in Inode : kind[j] # "dead" => kind'[j] = kind[j],
         NEW p \in Seq(Name), p # <<>>, p \notin DOMAIN t,
         FindIn(t, Front(p)) # None, kind[FindIn(t, Front(p))] = "catalog",
         NEW x, x = <<FindIn(t, Front(p)), Last(p)>>, x \notin Pairs,
         NEW i, entries' = With(entries, x, i)
  PROVE  TreeSound(t)'
<1>1. /\ DOMAIN entries' = Pairs \cup {x} /\ entries'[x] = i
      /\ \A y \in Pairs : entries'[y] = entries[y]
  BY DEF With
<1>2. \A q \in DOMAIN t : t[q] \in Inode /\ kind[t[q]] # "dead" /\ kind'[t[q]] = kind[t[q]]
  BY DEF TreeSound
<1>3. ASSUME NEW q \in DOMAIN t \ {<<>>} PROVE <<t[Front(q)], Last(q)>> # x
  <2> SUFFICES ASSUME <<t[Front(q)], Last(q)>> = x PROVE FALSE
    OBVIOUS
  <2>1. q \in Seq(Name) /\ Front(q) \in DOMAIN t /\ FindIn(t, Front(q)) = t[Front(q)]
    BY FindFacts, FrontIsPath DEF TreeSound
  <2>2. FindIn(t, Front(q)) = FindIn(t, Front(p)) /\ Last(q) = Last(p)
    BY <2>1
  <2>3. Front(q) \in Seq(Name) /\ Front(p) \in Seq(Name)
        /\ q = Append(Front(q), Last(q)) /\ p = Append(Front(p), Last(p))
    BY <2>1, FrontIsPath
  <2>4. Front(q) = Front(p)
    BY <2>2, <2>3, CatalogPathsUnique
  <2> QED BY <2>2, <2>3, <2>4
<1>4. ASSUME NEW q \in DOMAIN t \ {<<>>}
      PROVE  LET slot == <<t[Front(q)], Last(q)>> IN
             /\ Front(q) \in DOMAIN t /\ kind'[t[Front(q)]] = "catalog"
             /\ slot \in DOMAIN entries' => entries'[slot] = t[q]
             /\ kind'[t[q]] = "catalog" \/ Linkless' => slot \in DOMAIN entries'
  BY <1>1, <1>2, <1>3 DEF TreeSound, Linkless
<1> QED BY <1>2, <1>4 DEF TreeSound

\* A file loses one of several names.
LEMMA TreeLosesEntry ==
  ASSUME NEW t, TreeSound(t), UNCHANGED <<calls, kind>>, ~Linkless,
         NEW x \in Pairs, kind[entries[x]] = "file",
         entries' = [y \in Pairs \ {x} |-> entries[y]]
  PROVE  TreeSound(t)'
<1>1. DOMAIN entries' = Pairs \ {x} /\ \A y \in Pairs \ {x} : entries'[y] = entries[y]
  OBVIOUS
<1>2. ASSUME NEW q \in DOMAIN t \ {<<>>}
      PROVE  LET slot == <<t[Front(q)], Last(q)>> IN
             /\ Front(q) \in DOMAIN t /\ kind'[t[Front(q)]] = "catalog"
             /\ slot \in DOMAIN entries' => entries'[slot] = t[q]
             /\ kind'[t[q]] = "catalog" \/ Linkless' => slot \in DOMAIN entries'
  BY <1>1 DEF TreeSound, Linkless
<1> QED BY <1>2 DEF TreeSound


-----------------------------------------------------------------------------
\* The calls.

Sound == SoundDrive /\ TreeSound(tree)

LEMMA PathIsSeq ==
  ASSUME NEW p \in Path
  PROVE  p \in Seq(Name)
  BY DEF Path

\* Of a path and of the catalog it is in.
LEMMA LookedUp ==
  ASSUME Sound, NEW p \in Seq(Name)
  PROVE  /\ Find(p) = FindIn(tree, p) /\ Find(p) \in Inode \cup {None}
         /\ Find(p) # None => kind[Find(p)] # "dead"
         /\ Find(p) # None /\ p # <<>> =>
              /\ Find(Parent(p)) \in Inode /\ kind[Find(Parent(p))] = "catalog"
              /\ Slot(p) \in Pairs => entries[Slot(p)] = Find(p)
              /\ kind[Find(p)] = "catalog" \/ Linkless => Slot(p) \in Pairs
         /\ p # <<>> /\ ParentOpens(p) =>
              /\ Slot(p) \in Inode \X Name /\ kind[Slot(p)[1]] = "catalog"
              /\ Slot(p)[1] = Find(Parent(p)) /\ Slot(p)[1] \notin open
         /\ p # <<>> /\ ParentOpens(p) /\ Slot(p) \notin Pairs /\ p \notin DOMAIN tree =>
              Find(p) = None
         /\ p # <<>> /\ ParentOpens(p) /\ Find(p) = None => Slot(p) \notin Pairs
<1>1. Find(p) = FindIn(tree, p) /\ FoundFacts(tree, p)
  BY Found DEF Sound, Find, FindIn
<1>2. CASE p = <<>>
  BY <1>1, <1>2 DEF FoundFacts
<1>3. CASE p # <<>>
  <2>1. Front(p) \in Seq(Name) /\ Last(p) \in Name /\ <<>> \in DOMAIN tree
    BY <1>3, FrontIsPath DEF Sound, TreeSound
  <2>2. Find(Front(p)) = FindIn(tree, Front(p)) /\ FoundFacts(tree, Front(p))
    BY <2>1, Found DEF Sound, Find, FindIn
  <2>3. Slot(p) = <<FindIn(tree, Front(p)), Last(p)>> /\ Find(Parent(p)) = FindIn(tree, Front(p))
    BY <2>2 DEF Slot, Parent
  <2>4. ParentOpens(p) => /\ Slot(p) \in Inode \X Name /\ kind[Slot(p)[1]] = "catalog"
                          /\ Slot(p)[1] = Find(Parent(p)) /\ Slot(p)[1] \notin open
    BY <2>1, <2>2, <2>3 DEF ParentOpens, IsCatalog, Openable, FoundFacts
  <2>5. p \notin DOMAIN tree => FindIn(tree, p) = Child(FindIn(tree, Front(p)), Last(p))
    BY <2>1, FindFacts
  <2>6. p \in DOMAIN tree => FindIn(tree, p) # None
    BY <2>1, FindFacts, RootIsInode DEF Sound, TreeSound
  <2>7. Slot(p) \in Pairs => entries[Slot(p)] # None
    BY RootIsInode DEF Sound, SoundDrive, Shape
  <2>8. ParentOpens(p) /\ Slot(p) \notin Pairs /\ p \notin DOMAIN tree => Find(p) = None
    BY <1>1, <2>3, <2>5 DEF Child
  <2>9. ParentOpens(p) /\ Find(p) = None => Slot(p) \notin Pairs
    BY <1>1, <2>3, <2>5, <2>6, <2>7 DEF Child, ParentOpens
  <2> QED BY <1>1, <1>3, <2>3, <2>4, <2>8, <2>9 DEF FoundFacts
<1> QED BY <1>2, <1>3

\* The tree after lookups, when no entry changes.
LEMMA TreeFollows ==
  ASSUME NEW t, TreeSound(t), t = tree', UNCHANGED <<calls, entries>>,
         \A j \in Inode : kind[j] # "dead" => kind'[j] = kind[j]
  PROVE  TreeSound(tree)'
<1>1. TreeSound(t)'
  BY TreeKept
<1> QED BY <1>1 DEF TreeSound

LEMMA LooksUp ==
  ASSUME Sound, NEW p \in Seq(Name), tree' = Cached(p), UNCHANGED <<calls, entries>>,
         \A j \in Inode : kind[j] # "dead" => kind'[j] = kind[j]
  PROVE  TreeSound(tree)'
<1>1. PICK t : t = tree'
  OBVIOUS
<1>2. TreeSound(t)
  BY <1>1, CachedSound DEF Sound, Cached
<1> QED BY <1>1, <1>2, TreeFollows

LEMMA LooksUpTwo ==
  ASSUME Sound, NEW p \in Seq(Name), NEW q \in Seq(Name), tree' = CachedToo(p, q),
         UNCHANGED <<calls, entries>>,
         \A j \in Inode : kind[j] # "dead" => kind'[j] = kind[j]
  PROVE  TreeSound(tree)'
<1>1. PICK t : t = tree'
  OBVIOUS
<1>2. TreeSound(t)
  BY <1>1, CachedSound DEF Sound, Cached, CachedToo
<1> QED BY <1>1, <1>2, TreeFollows

LEMMA LooksUpNothing ==
  ASSUME Sound, UNCHANGED <<calls, entries, tree>>,
         \A j \in Inode : kind[j] # "dead" => kind'[j] = kind[j]
  PROVE  TreeSound(tree)'
<1>1. PICK t : t = tree'
  OBVIOUS
<1> QED BY <1>1, TreeFollows DEF Sound

\* The tree after lookups, when a path that was not found is given an inode.
LEMMA TreeCreates ==
  ASSUME Sound, UNCHANGED calls,
         \A j \in Inode : kind[j] # "dead" => kind'[j] = kind[j],
         NEW p \in Seq(Name), p # <<>>, Find(p) = None, ParentOpens(p),
         NEW i, entries' = With(entries, Slot(p), i),
         NEW t, TreeSound(t), t = tree',
         \A q \in Seq(Name) : FindIn(t, q) = FindIn(tree, q)
  PROVE  TreeSound(tree)'
<1>1. Front(p) \in Seq(Name)
  BY FrontIsPath
<1>2. /\ Find(p) = FindIn(tree, p) /\ Find(Parent(p)) = FindIn(tree, Front(p))
      /\ Slot(p) = <<FindIn(tree, Front(p)), Last(p)>>
      /\ Slot(p) \notin Pairs /\ kind[Slot(p)[1]] = "catalog"
  BY <1>1, LookedUp DEF Find, FindIn, Parent, Slot
<1>3. FindIn(t, p) = None /\ FindIn(t, Front(p)) = FindIn(tree, Front(p))
  BY <1>1, <1>2
<1>4. p \notin DOMAIN t
  BY <1>3, FindFacts, RootIsInode DEF TreeSound
<1>5. FindIn(t, Front(p)) # None /\ kind[FindIn(t, Front(p))] = "catalog"
  BY <1>2, <1>3 DEF ParentOpens
<1>6. PICK x : x = Slot(p)
  OBVIOUS
<1>7. TreeSound(t)'
  BY <1>2, <1>3, <1>4, <1>5, <1>6, TreeNewEntry DEF Sound
<1> QED BY <1>7 DEF TreeSound


\* Calls that leave the drive alone but for what is open.
LEMMA OpensSound ==
  ASSUME Sound, UNCHANGED <<calls, kind, links, entries>>, TreeSound(tree)',
         NEW s \in SUBSET Inode, \A i \in s : kind[i] # "dead",
         open' = open \cup s, held' = held
  PROVE  Sound'
<1>1. Opened' /\ (NothingLeftOpen' => NothingLeftOpen)
  BY DEF Sound, SoundDrive, Opened, NothingLeftOpen
<1> QED BY <1>1, DriveOpens DEF Sound

LEMMA GivesSound ==
  ASSUME Sound, UNCHANGED <<calls, kind, links, entries>>, TreeSound(tree)',
         NEW i \in Inode, Openable(i), Gives(i)
  PROVE  Sound'
<1>1. i \notin open /\ i \notin held /\ held \subseteq open
  BY DEF Sound, SoundDrive, Opened, Openable
<1>2. open' = open \cup {i} /\ held' = held \cup {i}
  BY DEF Gives
<1>3. Opened' /\ (NothingLeftOpen' => NothingLeftOpen)
  BY <1>1, <1>2 DEF Sound, SoundDrive, Opened, Openable, NothingLeftOpen
<1> QED BY <1>3, DriveOpens DEF Sound

LEMMA ClosesSound ==
  ASSUME Sound, NEW s \in SUBSET held, open' = open \ s, held' = held \ s,
         UNCHANGED <<calls, kind, links, entries, tree>>
  PROVE  Sound'
<1>1. Opened' /\ (NothingLeftOpen' => NothingLeftOpen)
  BY DEF Sound, SoundDrive, Opened, NothingLeftOpen
<1>2. SoundDrive'
  BY <1>1, DriveOpens DEF Sound
<1>3. TreeSound(tree)'
  BY LooksUpNothing
<1> QED BY <1>2, <1>3 DEF Sound

LEMMA CloseSound ==
  ASSUME Sound, NEW i, Close(i), UNCHANGED calls
  PROVE  Sound'
<1>1. {i} \in SUBSET held
  BY DEF Close
<1> QED BY <1>1, ClosesSound DEF Close

LEMMA QuerySound ==
  ASSUME Sound, NEW p \in Seq(Name), Query(p), UNCHANGED calls
  PROVE  Sound'
<1>1. TreeSound(tree)'
  BY LooksUp DEF Query
<1>2. SoundDrive'
  BY DriveOpens DEF Query, Sound, SoundDrive, Opened, NothingLeftOpen
<1> QED BY <1>1, <1>2 DEF Sound

LEMMA OpenRootSound ==
  ASSUME Sound, OpenRoot, UNCHANGED calls
  PROVE  Sound'
<1>1. TreeSound(tree)'
  BY LooksUpNothing DEF OpenRoot
<1> QED BY <1>1, GivesSound, RootIsInode DEF OpenRoot

\* What a call that found the entry open leaves open.
LEMMA ExistingOpenedSound ==
  ASSUME Sound, NEW p \in Seq(Name), ExistingOpened(p), UNCHANGED calls, TreeSound(tree)'
  PROVE  Sound'
<1>1. /\ p # <<>> /\ ParentOpens(p) /\ Slot(p) \in Pairs
      /\ UNCHANGED <<kind, links, entries>>
  BY DEF ExistingOpened, Opening
<1>2. entries[Slot(p)] \in Inode /\ Slot(p)[1] \in Inode /\ kind[Slot(p)[1]] = "catalog"
  BY <1>1, LookedUp DEF Sound, SoundDrive, Shape
<1>3. CASE Openable(entries[Slot(p)])
  BY <1>1, <1>2, <1>3, GivesSound DEF ExistingOpened
<1>4. CASE ~Openable(entries[Slot(p)])
  <2>1. open' = open \cup {Slot(p)[1]} /\ held' = held
    BY <1>4 DEF ExistingOpened, Leaves
  <2>2. {Slot(p)[1]} \in SUBSET Inode /\ \A i \in {Slot(p)[1]} : kind[i] # "dead"
    BY <1>2
  <2> QED BY <1>1, <2>1, <2>2, OpensSound
<1> QED BY <1>3, <1>4

\* A file is created; what is open afterwards was open before or is that file.
LEMMA CreatedSound ==
  ASSUME Sound, NEW p \in Seq(Name), NEW i \in Fresh, Created(p, i), UNCHANGED calls,
         held' \subseteq open', open' \subseteq open \cup {i},
         NothingLeftOpen' => NothingLeftOpen
  PROVE  /\ SoundDrive' /\ p # <<>> /\ Find(p) = None /\ ParentOpens(p)
         /\ entries' = With(entries, Slot(p), i)
         /\ \A j \in Inode : kind[j] # "dead" => kind'[j] = kind[j]
<1>1. /\ p # <<>> /\ ParentOpens(p) /\ Slot(p) \notin Pairs /\ p \notin DOMAIN tree
      /\ kind' = [kind EXCEPT ![i] = "file"] /\ links' = [links EXCEPT ![i] = 1]
      /\ entries' = With(entries, Slot(p), i)
  BY DEF Created, Opening, Creatable
<1>2. Find(p) = None /\ Slot(p) \in Inode \X Name /\ kind[Slot(p)[1]] = "catalog"
  BY <1>1, LookedUp
<1>3. i \in Inode /\ kind[i] = "dead"
  BY DEF Fresh
<1>4. kind'[i] = "file" /\ \A j \in Inode : kind[j] # "dead" => kind'[j] = kind[j]
  BY <1>1, <1>3 DEF Sound, SoundDrive, Shape
<1>5. Opened'
  BY <1>3, <1>4 DEF Sound, SoundDrive, Opened
<1>6. SoundDrive'
  BY <1>1, <1>2, <1>3, <1>5, DriveMakes DEF Sound
<1> QED BY <1>1, <1>2, <1>4, <1>6

LEMMA OpenExistingSound ==
  ASSUME Sound, NEW p \in Seq(Name), OpenExisting(p), UNCHANGED calls
  PROVE  Sound'
<1>1. p # <<>> /\ UNCHANGED <<kind, entries>> /\ tree' = Cached(Front(p))
  BY DEF OpenExisting, ExistingOpened, Opening, LooksUpParent, Parent
<1>2. TreeSound(tree)'
  BY <1>1, LooksUp, FrontIsPath
<1> QED BY <1>2, ExistingOpenedSound DEF OpenExisting

\* The tree when the parent of a new file has been looked up.
LEMMA CreatedTree ==
  ASSUME Sound, UNCHANGED calls,
         \A j \in Inode : kind[j] # "dead" => kind'[j] = kind[j],
         NEW p \in Seq(Name), p # <<>>, Find(p) = None, ParentOpens(p),
         NEW i, entries' = With(entries, Slot(p), i),
         NEW q \in Seq(Name), tree' = Cached(q)
  PROVE  TreeSound(tree)'
<1>1. PICK t : t = tree'
  OBVIOUS
<1>2. <<>> \in DOMAIN tree /\ DOMAIN tree \subseteq Seq(Name) /\ t = CachedIn(tree, q)
  BY <1>1 DEF Sound, TreeSound, Cached
<1>3. TreeSound(t)
  BY <1>2, CachedSound DEF Sound
<1>4. \A z \in Seq(Name) : FindIn(t, z) = FindIn(tree, z)
  BY <1>2, CachedKeepsFind
<1> QED BY <1>1, <1>3, <1>4, TreeCreates

LEMMA OpenNewSound ==
  ASSUME Sound, NEW p \in Seq(Name), OpenNew(p), UNCHANGED calls
  PROVE  Sound'
<1>1. PICK i \in Fresh : Created(p, i) /\ Gives(i)
  BY DEF OpenNew
<1>2. i \in Inode /\ i \notin open /\ open' = open \cup {i} /\ held' = held \cup {i}
      /\ held \subseteq open
  BY <1>1 DEF Fresh, Gives, Sound, SoundDrive, Opened
<1>3. /\ held' \subseteq open' /\ open' \subseteq open \cup {i}
      /\ NothingLeftOpen' => NothingLeftOpen
  BY <1>2 DEF NothingLeftOpen
<1>4. /\ SoundDrive' /\ p # <<>> /\ Find(p) = None /\ ParentOpens(p)
      /\ entries' = With(entries, Slot(p), i)
      /\ \A j \in Inode : kind[j] # "dead" => kind'[j] = kind[j]
  BY <1>1, <1>3, CreatedSound
<1>5. tree' = Cached(Front(p)) /\ Front(p) \in Seq(Name)
  BY <1>4, FrontIsPath DEF OpenNew, LooksUpParent, Parent
<1>6. TreeSound(tree)'
  BY <1>4, <1>5, CreatedTree
<1> QED BY <1>4, <1>6 DEF Sound


\* What a call that could not create the file leaves behind.
LEMMA NotCreatedSound ==
  ASSUME Sound, NEW p \in Seq(Name), NotCreated(p), UNCHANGED calls
  PROVE  /\ SoundDrive' /\ entries' = entries
         /\ \A j \in Inode : kind[j] # "dead" => kind'[j] = kind[j]
<1>1. /\ p # <<>> /\ ParentOpens(p) /\ UNCHANGED entries
      /\ links' = [i \in Inode |-> IF kind'[i] # kind[i] THEN 0 ELSE links[i]]
  BY DEF NotCreated, Opening
<1>2. /\ Slot(p)[1] \in Inode /\ kind[Slot(p)[1]] = "catalog" /\ Slot(p)[1] \notin open
  BY <1>1, LookedUp
<1>3. open \in SUBSET Inode /\ held \in SUBSET open /\ \A j \in open : kind[j] # "dead"
  BY DEF Sound, SoundDrive, Opened
<1>4. CASE Fresh = {} /\ Leaves({Slot(p)[1]}) /\ UNCHANGED kind
  <2>1. open' = open \cup {Slot(p)[1]} /\ held' = held /\ kind' = kind
    BY <1>4 DEF Leaves
  <2>2. links' = links
    BY <1>1, <2>1 DEF Sound, SoundDrive, Shape
  <2>3. Opened' /\ ~NothingLeftOpen'
    BY <1>2, <1>3, <2>1 DEF Opened, NothingLeftOpen
  <2> QED BY <1>1, <2>1, <2>2, <2>3, DriveOpens DEF Sound
<1>5. CASE \E i \in Fresh :
             /\ p \in DOMAIN tree \/ Last(p) \in LongName
             /\ kind' = [kind EXCEPT ![i] = "file"]
             /\ Leaves({i} \cup (IF p \in DOMAIN tree THEN {} ELSE {Slot(p)[1]}))
  <2>1. PICK i \in Fresh :
          /\ kind' = [kind EXCEPT ![i] = "file"]
          /\ Leaves({i} \cup (IF p \in DOMAIN tree THEN {} ELSE {Slot(p)[1]}))
    BY <1>5
  <2>2. i \in Inode /\ kind[i] = "dead" /\ i \notin open
    BY DEF Fresh
  <2>3. kind'[i] = "file" /\ \A j \in Inode \ {i} : kind'[j] = kind[j]
    BY <2>1, <2>2 DEF Sound, SoundDrive, Shape
  <2>4. links' \in [Inode -> Nat] /\ links'[i] = 0 /\ \A j \in Inode \ {i} : links'[j] = links[j]
    BY <1>1, <2>2, <2>3 DEF Sound, SoundDrive, Shape
  <2>5. i \in open' /\ open' \subseteq open \cup {i, Slot(p)[1]} /\ held' = held /\ open \subseteq open'
    BY <2>1 DEF Leaves
  <2>6. Opened' /\ ~NothingLeftOpen'
    BY <1>2, <1>3, <2>2, <2>3, <2>5 DEF Opened, NothingLeftOpen
  <2>7. SoundDrive'
    BY <1>1, <2>1, <2>2, <2>4, <2>6, DriveMakesUnnamed DEF Sound
  <2> QED BY <1>1, <2>2, <2>3, <2>7
<1> QED BY <1>4, <1>5 DEF NotCreated

LEMMA OpenNewThrowsSound ==
  ASSUME Sound, NEW p \in Seq(Name), OpenNewThrows(p), UNCHANGED calls
  PROVE  Sound'
<1>1. p # <<>> /\ tree' = Cached(Front(p)) /\ NotCreated(p)
  BY DEF OpenNewThrows, NotCreated, Opening, LooksUpParent, Parent
<1>2. /\ SoundDrive' /\ entries' = entries
      /\ \A j \in Inode : kind[j] # "dead" => kind'[j] = kind[j]
  BY <1>1, NotCreatedSound
<1>3. TreeSound(tree)'
  BY <1>1, <1>2, LooksUp, FrontIsPath
<1> QED BY <1>2, <1>3 DEF Sound

LEMMA CreateCatalogSound ==
  ASSUME Sound, NEW p \in Seq(Name), CreateCatalog(p), UNCHANGED calls
  PROVE  Sound'
<1>1. /\ p # <<>> /\ Find(p) = None /\ ParentOpens(p) /\ tree' = Cached(p)
  BY DEF CreateCatalog
<1>2. /\ Slot(p) \in Inode \X Name /\ kind[Slot(p)[1]] = "catalog" /\ Slot(p) \notin Pairs
      /\ Slot(p)[1] \in Inode /\ Slot(p)[1] \notin open
  BY <1>1, LookedUp
<1>3. open \in SUBSET Inode /\ held \in SUBSET open /\ \A j \in open : kind[j] # "dead"
  BY DEF Sound, SoundDrive, Opened
<1>4. CASE Leaves({Slot(p)[1]}) /\ UNCHANGED <<kind, links, entries>>
  <2>1. open' = open \cup {Slot(p)[1]} /\ held' = held
    BY <1>4 DEF Leaves
  <2>2. Opened' /\ ~NothingLeftOpen'
    BY <1>2, <1>3, <1>4, <2>1 DEF Opened, NothingLeftOpen
  <2>3. SoundDrive'
    BY <1>4, <2>2, DriveOpens DEF Sound
  <2>4. TreeSound(tree)'
    BY <1>1, <1>4, LooksUp
  <2> QED BY <2>3, <2>4 DEF Sound
<1>5. ASSUME NEW i \in Fresh, kind' = [kind EXCEPT ![i] = "catalog"], links' = [links EXCEPT ![i] = 0],
             IF Last(p) \in LongName
             THEN Leaves({Slot(p)[1]}) /\ UNCHANGED entries
             ELSE entries' = With(entries, Slot(p), i) /\ UNCHANGED <<open, held>>
      PROVE  Sound'
  <2>1. i \in Inode /\ kind[i] = "dead" /\ i \notin open
    BY DEF Fresh
  <2>2. kind'[i] = "catalog" /\ \A j \in Inode \ {i} : kind'[j] = kind[j]
    BY <1>5, <2>1 DEF Sound, SoundDrive, Shape
  <2>3. links' \in [Inode -> Nat] /\ links'[i] = 0 /\ \A j \in Inode \ {i} : links'[j] = links[j]
    BY <1>5, <2>1 DEF Sound, SoundDrive, Shape
  <2>4. \A j \in Inode : kind[j] # "dead" => kind'[j] = kind[j]
    BY <2>1, <2>2
  <2>5. CASE Last(p) \in LongName
    <3>1. open' = open \cup {Slot(p)[1]} /\ held' = held /\ entries' = entries
      BY <1>5, <2>5 DEF Leaves
    <3>2. Opened' /\ ~NothingLeftOpen'
      BY <1>2, <1>3, <2>4, <3>1 DEF Opened, NothingLeftOpen
    <3>3. SoundDrive'
      BY <1>5, <2>1, <2>3, <3>1, <3>2, DriveMakesUnnamed DEF Sound
    <3>4. TreeSound(tree)'
      BY <1>1, <2>4, <3>1, LooksUp
    <3> QED BY <3>3, <3>4 DEF Sound
  <2>6. CASE Last(p) \notin LongName
    <3>1. entries' = With(entries, Slot(p), i) /\ open' = open /\ held' = held
      BY <1>5, <2>6
    <3>2. Opened' /\ (NothingLeftOpen' => NothingLeftOpen)
      BY <1>3, <2>4, <3>1 DEF Opened, NothingLeftOpen
    <3>3. SoundDrive'
      BY <1>2, <1>5, <2>1, <3>1, <3>2, DriveMakes DEF Sound
    <3>4. TreeSound(tree)'
      BY <1>1, <2>4, <3>1, CreatedTree
    <3> QED BY <3>3, <3>4 DEF Sound
  <2> QED BY <2>5, <2>6
<1> QED BY <1>4, <1>5 DEF CreateCatalog


LEMMA LinkSound ==
  ASSUME Sound, NEW p \in Seq(Name), NEW q \in Seq(Name), Link(p, q), UNCHANGED calls
  PROVE  Sound'
<1>1. /\ q # <<>> /\ Find(q) = None /\ ParentOpens(q) /\ tree' = CachedToo(p, q)
      /\ entries' = With(entries, Slot(q), Find(p))
      /\ UNCHANGED <<kind, open, held>>
      /\ ~Linkless /\ kind[Find(p)] = "file" /\ Find(p) # None
  BY DEF Link, Linking, IsFile, Linkless
<1>2. /\ Slot(q) \in Inode \X Name /\ kind[Slot(q)[1]] = "catalog" /\ Slot(q) \notin Pairs
      /\ Find(p) \in Inode
  BY <1>1, LookedUp
<1>3. PICK i \in Inode : i = Find(p)
  BY <1>2
<1>4. links' = [links EXCEPT ![i] = @ + 1]
  BY <1>3 DEF Link
<1>5. SoundDrive'
  BY <1>1, <1>2, <1>3, <1>4, DriveLinks DEF Sound
<1>6. PICK t : t = tree'
  OBVIOUS
<1>7. TreeSound(t) /\ \A z \in Seq(Name) : FindIn(t, z) = FindIn(tree, z)
  <2>1. PICK u : u = Cached(p)
    OBVIOUS
  <2>2. TreeSound(u) /\ \A z \in Seq(Name) : FindIn(u, z) = FindIn(tree, z)
    BY <2>1, CachedSound, CachedKeepsFind DEF Sound, Cached, TreeSound
  <2>3. t = CachedIn(u, q)
    BY <1>1, <1>6, <2>1 DEF CachedToo
  <2>4. <<>> \in DOMAIN u /\ DOMAIN u \subseteq Seq(Name)
    BY <2>2 DEF TreeSound
  <2>5. TreeSound(t)
    BY <2>2, <2>3, CachedSound DEF Sound
  <2>6. \A z \in Seq(Name) : FindIn(t, z) = FindIn(u, z)
    BY <2>3, <2>4, CachedKeepsFind
  <2> QED BY <2>2, <2>5, <2>6
<1>8. TreeSound(tree)'
  BY <1>1, <1>6, <1>7, TreeCreates
<1> QED BY <1>5, <1>8 DEF Sound

\* Calls that throw with inodes in use left open.
LEMMA LinkThrowsSound ==
  ASSUME Sound, NEW p \in Seq(Name), NEW q \in Seq(Name), LinkThrows(p, q), UNCHANGED calls
  PROVE  Sound'
<1>1. /\ q # <<>> /\ tree' = CachedToo(p, q) /\ UNCHANGED <<kind, links, entries>>
      /\ Find(p) # None
  BY DEF LinkThrows, Linking, IsFile
<1>2. TreeSound(tree)'
  BY <1>1, LooksUpTwo
<1>3. Find(p) \in Inode /\ kind[Find(p)] # "dead"
  BY <1>1, LookedUp
<1>4. ParentOpens(q) => Find(Parent(q)) \in Inode /\ kind[Find(Parent(q))] # "dead"
  BY <1>1, LookedUp
<1>5. PICK s \in {{Find(p)}, {Find(p), Find(Parent(q))}} :
        open' = open \cup s /\ held' = held /\ (ParentOpens(q) \/ s = {Find(p)})
  BY DEF LinkThrows, Leaves
<1>6. s \in SUBSET Inode /\ \A i \in s : kind[i] # "dead"
  BY <1>3, <1>4, <1>5
<1> QED BY <1>1, <1>2, <1>5, <1>6, OpensSound

LEMMA UnlinkThrowsSound ==
  ASSUME Sound, NEW p \in Seq(Name), UnlinkThrows(p), UNCHANGED calls
  PROVE  Sound'
<1>1. /\ tree' = Cached(p) /\ UNCHANGED <<kind, links, entries>>
      /\ Find(p) # None /\ kind[Find(p)] = "file"
  BY DEF UnlinkThrows, Linking, IsFile
<1>2. TreeSound(tree)'
  BY <1>1, LooksUp
<1>3. Find(p) \in Inode /\ kind[Find(p)] # "dead"
  BY <1>1, LookedUp
<1>4. p # <<>>
  <2> SUFFICES ASSUME p = <<>> PROVE FALSE
    OBVIOUS
  <2>1. Find(p) = Root
    BY FindFacts DEF Find, FindIn, Sound, TreeSound
  <2> QED BY <1>1, <2>1 DEF Sound, SoundDrive, Names
<1>5. ParentOpens(p) => Find(Parent(p)) \in Inode /\ kind[Find(Parent(p))] # "dead"
  BY <1>4, LookedUp
<1>6. PICK s \in {{Find(p)}, {Find(p), Find(Parent(p))}} :
        open' = open \cup s /\ held' = held /\ (ParentOpens(p) \/ s = {Find(p)})
  BY DEF UnlinkThrows, Leaves
<1>7. s \in SUBSET Inode /\ \A i \in s : kind[i] # "dead"
  BY <1>3, <1>5, <1>6
<1> QED BY <1>1, <1>2, <1>6, <1>7, OpensSound

LEMMA UnlinkSound ==
  ASSUME Sound, NEW p \in Seq(Name), Unlink(p), UNCHANGED calls
  PROVE  Sound'
<1>1. PICK i, x : i = Find(p) /\ x = Slot(p)
  OBVIOUS
<1>2. /\ i # None /\ kind[i] = "file" /\ i \notin open /\ ParentOpens(p) /\ x \in Pairs
      /\ UNCHANGED <<open, held>>
  BY <1>1 DEF Unlink, Linking, IsFile
<1>3. p # <<>>
  <2> SUFFICES ASSUME p = <<>> PROVE FALSE
    OBVIOUS
  <2>1. Find(p) = Root
    BY FindFacts DEF Find, FindIn, Sound, TreeSound
  <2> QED BY <1>1, <1>2, <2>1 DEF Sound, SoundDrive, Names
<1>4. /\ i \in Inode /\ entries[x] = i /\ x \in NamesOf(i)
      /\ links[i] = Cardinality(NamesOf(i)) /\ links[i] \in Nat
  BY <1>1, <1>2, <1>3, LookedUp DEF Sound, SoundDrive, Shape, Names, NamesOf
<1>5. links[i] > 0 /\ links' = [links EXCEPT ![i] = @ - 1]
  BY <1>1 DEF Unlink
<1>6. CASE links[i] = 1
  <2>1. /\ kind' = [kind EXCEPT ![i] = "dead"] /\ tree' = NewTree
        /\ entries' = Dropped([y \in Pairs \ {x} |-> entries[y]], x[1], i)
    BY <1>1, <1>6 DEF Unlink, LastLink, ClearTree
  <2>2. NamesOf(i) = {x}
    <3>1. IsFiniteSet(NamesOf(i)) /\ Cardinality(NamesOf(i)) = 1
      BY <1>4, <1>6, NamesFinite DEF Sound, SoundDrive
    <3>2. PICK y : NamesOf(i) = {y}
      BY <3>1, FS_Singleton
    <3> QED BY <1>4, <3>2
  <2>3. entries' = [y \in Pairs \ NamesOf(i) |-> entries[y]]
    <3>1. \A y \in Pairs \ {x} : entries[y] # i
      BY <2>2 DEF NamesOf
    <3>2. { y \in Pairs \ {x} : y[1] # x[1] \/ [z \in Pairs \ {x} |-> entries[z]][y] # i }
            = Pairs \ {x}
      BY <3>1
    <3> QED BY <2>1, <2>2, <3>2 DEF Dropped
  <2>4. \A y \in Pairs : y[1] # i
    BY <1>2 DEF Sound, SoundDrive, Names
  <2>5. i \in Inode \ {Root}
    BY <1>2, <1>4 DEF Sound, SoundDrive, Names
  <2>6. links' \in [Inode -> Nat] /\ \A j \in Inode \ {i} : links'[j] = links[j]
    BY <1>4, <1>5, <1>6 DEF Sound, SoundDrive, Shape
  <2>7. SoundDrive'
    BY <1>2, <2>1, <2>3, <2>4, <2>5, <2>6, DriveFrees DEF Sound
  <2>8. TreeSound(tree)'
    <3>1. DOMAIN tree' = {<<>>} /\ tree'[<<>>] = Root /\ <<>> \in Seq(Name)
      BY <2>1 DEF NewTree
    <3>2. kind'[Root] = "catalog"
      BY <2>7 DEF SoundDrive, Names
    <3> QED BY <3>1, <3>2, RootIsInode DEF TreeSound
  <2> QED BY <2>7, <2>8 DEF Sound
<1>7. CASE links[i] # 1
  <2>1. /\ kind' = kind /\ tree' = Cached(p)
        /\ entries' = [y \in Pairs \ {x} |-> entries[y]]
    BY <1>1, <1>7 DEF Unlink, LastLink
  <2>2. links[entries[x]] > 1 /\ kind[entries[x]] = "file"
        /\ links' = [links EXCEPT ![entries[x]] = @ - 1]
    BY <1>2, <1>4, <1>5, <1>7
  <2>3. SoundDrive' /\ ~Linkless
    BY <1>2, <2>1, <2>2, DriveUnlinks DEF Sound
  <2>4. PICK t : t = tree'
    OBVIOUS
  <2>5. TreeSound(t)
    BY <2>1, <2>4, CachedSound DEF Sound, Cached
  <2>6. TreeSound(t)'
    BY <1>2, <2>1, <2>2, <2>3, <2>5, TreeLosesEntry
  <2> QED BY <2>3, <2>4, <2>6 DEF Sound, TreeSound
<1> QED BY <1>6, <1>7



LEMMA InitSound ==
  ASSUME Init
  PROVE  Sound
<1>1. /\ DOMAIN entries = {} /\ open = {} /\ held = {} /\ kind[Root] = "catalog"
      /\ \A i \in Inode : NamesOf(i) = {} /\ (i # Root => kind[i] = "dead")
  BY RootIsInode DEF Init, NamesOf
<1>2. Shape
  BY <1>1, FS_EmptySet DEF Init, Shape
<1>3. Names
  <2>1. \A i \in Inode : kind[i] # "file"
    BY <1>1
  <2> QED BY <1>1, <2>1 DEF Names
<1>4. Opened /\ Nameless
  <2>1. Opened
    BY <1>1 DEF Opened
  <2>2. Nameless
    BY <1>1 DEF Nameless
  <2> QED BY <2>1, <2>2
<1>5. SoundDrive
  BY <1>2, <1>3, <1>4 DEF SoundDrive
<1> QED BY <1>5, NewTreeSound DEF Sound, Init


-----------------------------------------------------------------------------
\* What the catalogs say of a path: Resolve, of the entries e.

NextIn(e, i, n) == IF <<i, n>> \in DOMAIN e THEN e[<<i, n>>] ELSE None

ResolveIn(e, p) ==
  LET r[n \in 0 .. Len(p)] ==
        IF n = 0 THEN Root
        ELSE IF <<r[n - 1], p[n]>> \in DOMAIN e THEN e[<<r[n - 1], p[n]>>] ELSE None
  IN r[Len(p)]

LEMMA ResolveIsIn ==
  ASSUME NEW p
  PROVE  Resolve(p) = ResolveIn(entries, p) /\ Resolve(p)' = ResolveIn(entries', p)
  BY DEF Resolve, ResolveIn

\* It takes a step in the catalogs for every component.
LEMMA ResolveFacts ==
  ASSUME NEW e, NEW p \in Seq(Name)
  PROVE  /\ p = <<>> => ResolveIn(e, p) = Root
         /\ p # <<>> => ResolveIn(e, p) = NextIn(e, ResolveIn(e, Front(p)), Last(p))
<1> DEFINE Step(r, q, n) == IF n = 0 THEN Root ELSE NextIn(e, r[n - 1], q[n])
           Upto(r, q, m) == r = [n \in 0 .. m |-> Step(r, q, n)]
<1>1. ASSUME NEW q \in Seq(Name), NEW m \in 0 .. Len(q)
      PROVE  \E r : Upto(r, q, m)
  <2> DEFINE T == { k \in Nat : k <= Len(q) /\ ~ \E r : Upto(r, q, k) }
  <2>1. T = {}
    <3> SUFFICES ASSUME T # {} PROVE FALSE
      OBVIOUS
    <3>1. PICK k \in T : \A j \in T : k <= j
      BY LeastNumber
    <3>2. CASE k = 0
      <4>1. PICK r : r = [n \in 0 .. 0 |-> Root]
        OBVIOUS
      <4>2. Upto(r, q, 0)
        BY <4>1
      <4> QED BY <3>1, <3>2, <4>2
    <3>3. CASE k # 0
      <4>1. k \in Nat /\ k <= Len(q) /\ Len(q) \in Nat
        BY <3>1
      <4>0. k - 1 \in Nat /\ k - 1 <= Len(q) /\ ~(k <= k - 1)
        BY <3>3, <4>1
      <4>2. PICK r : Upto(r, q, k - 1)
        BY <3>1, <4>0
      <4>3. PICK s : s = [n \in 0 .. k |-> IF n = k THEN NextIn(e, r[k - 1], q[k]) ELSE r[n]]
        OBVIOUS
      <4>4. \A n \in 0 .. k - 1 : s[n] = r[n] /\ r[n] = Step(r, q, n)
        BY <3>1, <4>1, <4>2, <4>3
      <4>5. ASSUME NEW n \in 0 .. k PROVE s[n] = Step(s, q, n)
        <5>1. n # 0 => n - 1 \in 0 .. k - 1
          BY <3>1
        <5>2. n # k => n \in 0 .. k - 1
          BY <3>1
        <5> QED BY <3>1, <3>3, <4>3, <4>4, <5>1, <5>2
      <4>6. Upto(s, q, k)
        BY <4>3, <4>5
      <4> QED BY <3>1, <4>6
    <3> QED BY <3>2, <3>3
  <2>2. m \in Nat /\ m <= Len(q)
    OBVIOUS
  <2>3. m \notin T
    BY <2>1
  <2>4. m \in Nat /\ m <= Len(q) /\ m \notin T => \E r : Upto(r, q, m)
    BY DEF T
  <2> QED BY <2>2, <2>3, <2>4
<1>2. ASSUME NEW q \in Seq(Name)
      PROVE  \E r : Upto(r, q, Len(q)) /\ ResolveIn(e, q) = r[Len(q)]
  <2>1. Len(q) \in 0 .. Len(q)
    OBVIOUS
  <2>2. ResolveIn(e, q) = (CHOOSE r : Upto(r, q, Len(q)))[Len(q)]
    BY DEF ResolveIn, NextIn
  <2> QED BY <1>1, <2>1, <2>2
<1>3. PICK r : Upto(r, p, Len(p)) /\ ResolveIn(e, p) = r[Len(p)]
  BY <1>2
<1>4. p = <<>> => ResolveIn(e, p) = Root
  BY <1>3
<1>5. ASSUME p # <<>> PROVE ResolveIn(e, p) = NextIn(e, ResolveIn(e, Front(p)), Last(p))
  <2>1. /\ Front(p) \in Seq(Name) /\ Len(Front(p)) = Len(p) - 1 /\ Len(p) \in Nat \ {0}
        /\ Last(p) = p[Len(p)]
    BY <1>5, FrontIsPath DEF Last
  <2>2. \A n \in 1 .. Len(p) - 1 : Front(p)[n] = p[n]
    BY <2>1 DEF Front
  <2>3. PICK s : Upto(s, Front(p), Len(p) - 1) /\ ResolveIn(e, Front(p)) = s[Len(p) - 1]
    BY <1>2, <2>1
  <2> DEFINE T == { k \in Nat : k <= Len(p) - 1 /\ s[k] # r[k] }
  <2>4. \A k \in 0 .. Len(p) - 1 : r[k] = Step(r, p, k) /\ s[k] = Step(s, Front(p), k)
    <3> SUFFICES ASSUME NEW k \in 0 .. Len(p) - 1
                 PROVE  r[k] = Step(r, p, k) /\ s[k] = Step(s, Front(p), k)
      OBVIOUS
    <3>1. k \in 0 .. Len(p)
      BY <2>1
    <3>2. r[k] = Step(r, p, k)
      BY <1>3, <3>1
    <3>3. s[k] = Step(s, Front(p), k)
      BY <2>3
    <3> QED BY <3>2, <3>3
  <2>5. T = {}
    <3> SUFFICES ASSUME T # {} PROVE FALSE
      OBVIOUS
    <3>1. PICK k \in T : \A j \in T : k <= j
      BY LeastNumber
    <3>2. k \in 0 .. Len(p) - 1 /\ k \in Nat
      BY <2>1, <3>1
    <3>3. k # 0
      BY <2>4, <3>1, <3>2
    <3>4. k - 1 \in Nat /\ k - 1 <= Len(p) - 1 /\ k - 1 \notin T /\ k \in 1 .. Len(p) - 1
      BY <2>1, <3>1, <3>2, <3>3
    <3>6. k - 1 \in 0 .. Len(p) - 1
      BY <3>4
    <3>5. s[k - 1] = r[k - 1] /\ Front(p)[k] = p[k]
      BY <2>2, <3>4, <3>6
    <3> QED BY <2>4, <3>1, <3>2, <3>3, <3>5
  <2>6. s[Len(p) - 1] = r[Len(p) - 1]
    BY <2>1, <2>5
  <2>8. Len(p) \in 0 .. Len(p)
    BY <2>1
  <2>7. r[Len(p)] = Step(r, p, Len(p))
    BY <1>3, <2>8
  <2> QED BY <1>3, <2>1, <2>3, <2>6, <2>7
<1> QED BY <1>4, <1>5

\* The entry of a path, and of each of its prefixes.
SlotIn(e, p) == <<ResolveIn(e, Front(p)), Last(p)>>

LEMMA TrailFacts ==
  ASSUME NEW e, \A x \in DOMAIN e : x[1] # None, NEW q \in Seq(Name), ResolveIn(e, q) # None,
         NEW n \in 0 .. Len(q)
  PROVE  /\ ResolveIn(e, Prefix(q, n)) # None
         /\ n # 0 => /\ SlotIn(e, Prefix(q, n)) \in DOMAIN e
                     /\ e[SlotIn(e, Prefix(q, n))] = ResolveIn(e, Prefix(q, n))
                     /\ SlotIn(e, Prefix(q, n))[1] = ResolveIn(e, Prefix(q, n - 1))
<1> DEFINE T == { k \in Nat : k <= Len(q) /\ ResolveIn(e, Prefix(q, Len(q) - k)) = None }
<1>1. ASSUME NEW m \in 1 .. Len(q)
      PROVE  /\ ResolveIn(e, Prefix(q, m)) = NextIn(e, ResolveIn(e, Prefix(q, m - 1)), q[m])
             /\ SlotIn(e, Prefix(q, m)) = <<ResolveIn(e, Prefix(q, m - 1)), q[m]>>
  <2>1. m \in 0 .. Len(q) /\ m # 0
    OBVIOUS
  <2>2. /\ Prefix(q, m) \in Seq(Name) /\ Prefix(q, m) # <<>>
        /\ Front(Prefix(q, m)) = Prefix(q, m - 1) /\ Last(Prefix(q, m)) = q[m]
    BY <2>1, PrefixFacts
  <2> QED BY <2>2, ResolveFacts DEF SlotIn
<1>2. T = {}
  <2> SUFFICES ASSUME T # {} PROVE FALSE
    OBVIOUS
  <2>1. PICK k \in T : \A j \in T : k <= j
    BY LeastNumber
  <2>2. k # 0
    BY <2>1, PrefixFacts
  <2>3. /\ k \in Nat /\ k <= Len(q) /\ Len(q) \in Nat /\ ResolveIn(e, Prefix(q, Len(q) - k)) = None
    BY <2>1
  <2>4. PICK m \in 1 .. Len(q) : m = Len(q) - k + 1
    BY <2>2, <2>3
  <2>5. m - 1 = Len(q) - k /\ m = Len(q) - (k - 1) /\ k - 1 \in Nat /\ k - 1 <= Len(q)
        /\ k - 1 \notin T
    BY <2>1, <2>2, <2>3, <2>4
  <2>6. ResolveIn(e, Prefix(q, m)) # None
    BY <2>5
  <2> QED BY <1>1, <2>3, <2>4, <2>5, <2>6 DEF NextIn
<1>3. ResolveIn(e, Prefix(q, n)) # None
  <2>1. Len(q) - n \in Nat /\ Len(q) - n <= Len(q) /\ Len(q) - (Len(q) - n) = n
    OBVIOUS
  <2> QED BY <1>2, <2>1
<1>4. ASSUME n # 0
      PROVE  /\ SlotIn(e, Prefix(q, n)) \in DOMAIN e
             /\ e[SlotIn(e, Prefix(q, n))] = ResolveIn(e, Prefix(q, n))
             /\ SlotIn(e, Prefix(q, n))[1] = ResolveIn(e, Prefix(q, n - 1))
  <2>1. n \in 1 .. Len(q)
    BY <1>4
  <2>2. /\ ResolveIn(e, Prefix(q, n)) = NextIn(e, ResolveIn(e, Prefix(q, n - 1)), q[n])
        /\ SlotIn(e, Prefix(q, n)) = <<ResolveIn(e, Prefix(q, n - 1)), q[n]>>
    BY <1>1, <2>1
  <2> QED BY <1>3, <2>2 DEF NextIn
<1> QED BY <1>3, <1>4

\* A path stays what it is while its entries stay.
LEMMA ResolveKept ==
  ASSUME NEW e, \A x \in DOMAIN e : x[1] # None, NEW q \in Seq(Name), ResolveIn(e, q) # None,
         NEW f,
         \A n \in 1 .. Len(q) :
           LET x == SlotIn(e, Prefix(q, n)) IN x \in DOMAIN f /\ f[x] = e[x],
         NEW m \in 0 .. Len(q)
  PROVE  ResolveIn(f, Prefix(q, m)) = ResolveIn(e, Prefix(q, m))
<1> DEFINE T == { k \in Nat : k <= Len(q) /\ ResolveIn(f, Prefix(q, k)) # ResolveIn(e, Prefix(q, k)) }
<1>1. T = {}
  <2> SUFFICES ASSUME T # {} PROVE FALSE
    OBVIOUS
  <2>1. PICK k \in T : \A j \in T : k <= j
    BY LeastNumber
  <2>2. k \in 0 .. Len(q) /\ k \in Nat
    BY <2>1
  <2>3. Prefix(q, k) \in Seq(Name) /\ (k = 0 => Prefix(q, k) = <<>>)
    BY <2>2, PrefixFacts
  <2>4. k # 0
    BY <2>1, <2>3, ResolveFacts
  <2>5. /\ Prefix(q, k) # <<>> /\ Front(Prefix(q, k)) = Prefix(q, k - 1)
        /\ k \in 1 .. Len(q) /\ k - 1 \in Nat /\ k - 1 <= Len(q) /\ k - 1 \notin T
    BY <2>1, <2>2, <2>4, PrefixFacts
  <2>6. PICK x : x = SlotIn(e, Prefix(q, k))
    OBVIOUS
  <2>7. x = <<ResolveIn(f, Prefix(q, k - 1)), Last(Prefix(q, k))>>
    BY <2>5, <2>6 DEF SlotIn
  <2>8. ResolveIn(f, Prefix(q, k)) = NextIn(f, x[1], x[2]) /\ x = <<x[1], x[2]>>
    BY <2>3, <2>5, <2>7, ResolveFacts
  <2>9. x \in DOMAIN f /\ f[x] = e[x] /\ e[x] = ResolveIn(e, Prefix(q, k))
    BY <2>2, <2>4, <2>5, <2>6, TrailFacts
  <2> QED BY <2>1, <2>8, <2>9 DEF NextIn
<1>2. m \in Nat /\ m <= Len(q)
  OBVIOUS
<1> QED BY <1>1, <1>2

\* Without second links no two paths lead to one inode.
LEMMA ResolveUnique ==
  ASSUME SoundDrive, Linkless, NEW p \in Seq(Name), NEW q \in Seq(Name),
         Resolve(p) # None, Resolve(p) = Resolve(q)
  PROVE  p = q
<1> DEFINE R(y) == ResolveIn(entries, y)
           T == { k \in Nat : \E y, z \in Seq(Name) :
                    Len(y) = k /\ y # z /\ R(y) # None /\ R(y) = R(z) }
<1>1. \A x \in Pairs : x[1] # None /\ entries[x] # Root
      /\ \A y \in Pairs : entries[x] = entries[y] => x = y
  BY RootIsInode DEF SoundDrive, Shape, Names
<1>2. ASSUME NEW y \in Seq(Name), y # <<>>, R(y) # None
      PROVE  /\ SlotIn(entries, y) \in Pairs /\ entries[SlotIn(entries, y)] = R(y) /\ R(y) # Root
             /\ R(Front(y)) # None
  <2>1. R(y) = NextIn(entries, R(Front(y)), Last(y))
    BY <1>2, ResolveFacts
  <2>2. SlotIn(entries, y) \in Pairs /\ entries[SlotIn(entries, y)] = R(y)
    BY <1>2, <2>1 DEF NextIn, SlotIn
  <2> QED BY <1>1, <2>2 DEF SlotIn
<1>3. R(<<>>) = Root /\ <<>> \in Seq(Name)
  <2>1. <<>> \in Seq(Name)
    OBVIOUS
  <2>2. ResolveIn(entries, <<>>) = Root
    BY <2>1, ResolveFacts
  <2> QED BY <2>1, <2>2
<1> HIDE DEF R
<1>4. T = {}
  <2> SUFFICES ASSUME T # {} PROVE FALSE
    OBVIOUS
  <2>1. PICK k \in T : \A j \in T : k <= j
    BY LeastNumber
  <2>2. PICK y \in Seq(Name), z \in Seq(Name) :
          Len(y) = k /\ y # z /\ R(y) # None /\ R(y) = R(z)
    BY <2>1
  <2>3. y # <<>> /\ z # <<>>
    BY <1>2, <1>3, <2>2
  <2>4. SlotIn(entries, y) = SlotIn(entries, z)
    BY <1>1, <1>2, <2>2, <2>3
  <2>5. R(Front(y)) = R(Front(z)) /\ Last(y) = Last(z) /\ R(Front(y)) # None
    BY <1>2, <2>2, <2>3, <2>4 DEF SlotIn, R
  <2>6. /\ Front(y) \in Seq(Name) /\ Front(z) \in Seq(Name) /\ Len(Front(y)) = k - 1
        /\ k - 1 \in Nat /\ y = Append(Front(y), Last(y)) /\ z = Append(Front(z), Last(z))
    <3>1. /\ Front(y) \in Seq(Name) /\ Len(Front(y)) = Len(y) - 1 /\ Len(y) \in Nat \ {0}
          /\ y = Append(Front(y), Last(y))
      BY <2>3, FrontIsPath
    <3>2. Front(z) \in Seq(Name) /\ z = Append(Front(z), Last(z))
      BY <2>3, FrontIsPath
    <3>3. Len(y) = k
      BY <2>2
    <3> QED BY <3>1, <3>2, <3>3
  <2>7. Front(y) # Front(z)
    BY <2>2, <2>5, <2>6
  <2>8. k - 1 \in T
    BY <2>5, <2>6, <2>7
  <2> QED BY <2>1, <2>8
<1>5. Len(p) \in Nat /\ R(p) = Resolve(p) /\ R(q) = Resolve(q)
  BY ResolveIsIn DEF R
<1> QED BY <1>4, <1>5

\* What is found is what the catalogs say.
LEMMA FindResolves ==
  ASSUME Sound, Linkless, NEW p \in Seq(Name), Find(p) # None
  PROVE  Resolve(p) = Find(p)
<1> DEFINE T == { k \in Nat : \E q \in Seq(Name) :
                    Len(q) = k /\ Find(q) # None /\ ResolveIn(entries, q) # Find(q) }
<1>1. T = {}
  <2> SUFFICES ASSUME T # {} PROVE FALSE
    OBVIOUS
  <2>1. PICK k \in T : \A j \in T : k <= j
    BY LeastNumber
  <2>2. PICK q \in Seq(Name) : Len(q) = k /\ Find(q) # None /\ ResolveIn(entries, q) # Find(q)
    BY <2>1
  <2>3. CASE q = <<>>
    <3>1. Find(q) = Root
      <4>1. FoundFacts(tree, q) /\ Find(q) = FindIn(tree, q)
        BY Found, LookedUp DEF Sound
      <4> QED BY <2>2, <2>3, <4>1 DEF FoundFacts
    <3> QED BY <2>2, <2>3, <3>1, ResolveFacts
  <2>4. CASE q # <<>>
    <3>1. /\ Find(Parent(q)) \in Inode /\ Slot(q) \in Pairs /\ entries[Slot(q)] = Find(q)
      BY <2>2, <2>4, LookedUp
    <3>2. Front(q) \in Seq(Name) /\ Len(Front(q)) = k - 1 /\ k - 1 \in Nat
      BY <2>2, <2>4, FrontIsPath
    <3>3. Find(Front(q)) # None /\ k - 1 \notin T
      BY <2>1, <3>1, <3>2, RootIsInode DEF Parent
    <3>4. ResolveIn(entries, Front(q)) = Find(Front(q))
      BY <3>2, <3>3
    <3>5. ResolveIn(entries, q) = NextIn(entries, Find(Front(q)), Last(q))
      BY <2>4, <3>4, ResolveFacts
    <3>6. Slot(q) = <<Find(Front(q)), Last(q)>>
      BY DEF Slot, Parent
    <3> QED BY <2>2, <3>1, <3>5, <3>6 DEF NextIn
  <2> QED BY <2>3, <2>4
<1>2. Len(p) \in Nat
  OBVIOUS
<1> QED BY <1>1, <1>2, ResolveIsIn

=============================================================================
