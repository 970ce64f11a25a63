----------------------------- MODULE CatalogProofs -----------------------------
(***************************************************************************)
(* Proofs about Catalog, for any names, inodes and sizes of clusters.      *)
(***************************************************************************)
EXTENDS Catalog, FiniteSetTheorems, NaturalsInduction, WellFoundedInduction, TLAPS

-----------------------------------------------------------------------------
\* The least of a set of numbers.

Smaller == { x \in Nat \X Nat : x[1] < x[2] }

LEMMA SmallerIsWellFounded == IsWellFoundedOn(Smaller, Nat)
  BY NatLessThanWellFounded DEF Smaller, OpToRel

LEMMA MinFacts ==
  ASSUME NEW T \in SUBSET Nat, T # {}
  PROVE  Min(T) \in T /\ \A m \in T : Min(T) <= m
<1>1. PICK n \in T : \A m \in T : <<m, n>> \notin Smaller
  BY SmallerIsWellFounded, WFMin
<1>2. \A m \in T : m < n => <<m, n>> \in Smaller
  BY DEF Smaller
<1>3. \A m \in T : ~(m < n)
  BY <1>1, <1>2
<1>4. \A m \in T : n <= m
  BY <1>3
<1> QED BY <1>4 DEF Min

-----------------------------------------------------------------------------
\* The order of names.

\* A name has the rank of no other, and the ranks go from 0 on without a gap.
LEMMA RankGrows ==
  ASSUME NEW S \in SUBSET Nat, IsFiniteSet(S), NEW a \in S, NEW b \in S, a < b
  PROVE  Rank(S, a) < Rank(S, b)
<1> DEFINE A == { m \in S : m < a }
           B == { m \in S : m < b }
<1>0. a \in Nat /\ b \in Nat /\ \A m \in S : m \in Nat
  OBVIOUS
<1>1. A \in SUBSET B /\ a \in B /\ a \notin A
  <2>1. (\A m \in S : m < a => m < b) /\ ~(a < a)
    BY <1>0
  <2> QED BY <2>1
<1>2. IsFiniteSet(B)
  BY FS_Subset
<1>3. Cardinality(A) <= Cardinality(B) /\ Cardinality(A) # Cardinality(B) /\ IsFiniteSet(A)
  BY <1>1, <1>2, FS_Subset
<1>4. Cardinality(A) \in Nat /\ Cardinality(B) \in Nat
  BY <1>2, <1>3, FS_CardinalityType
<1> QED BY <1>3, <1>4 DEF Rank

LEMMA RankFacts ==
  ASSUME NEW S \in SUBSET Nat, IsFiniteSet(S)
  PROVE  /\ Cardinality(S) \in Nat
         /\ \A n \in S : Rank(S, n) \in 0 .. (Cardinality(S) - 1)
         /\ \A a, b \in S : Rank(S, a) = Rank(S, b) => a = b
         /\ \A k \in 1 .. Cardinality(S) : \E n \in S : Rank(S, n) = k - 1
<1> DEFINE c == Cardinality(S)
           r == [n \in S |-> Rank(S, n)]
<1>1. c \in Nat
  BY FS_CardinalityType
<1>2. ASSUME NEW n \in S PROVE Rank(S, n) \in 0 .. (c - 1)
  <2> DEFINE A == { m \in S : m < n }
  <2>1. A \in SUBSET (S \ {n})
    OBVIOUS
  <2>2. IsFiniteSet(S \ {n}) /\ Cardinality(S \ {n}) = c - 1
    BY FS_RemoveElement
  <2>3. IsFiniteSet(A) /\ Cardinality(A) <= c - 1
    BY <2>1, <2>2, FS_Subset
  <2>4. Cardinality(A) \in Nat
    BY <2>3, FS_CardinalityType
  <2> QED BY <1>1, <2>3, <2>4 DEF Rank
<1>3. ASSUME NEW a \in S, NEW b \in S, Rank(S, a) = Rank(S, b) PROVE a = b
  <2>1. ~(a < b) /\ ~(b < a)
    BY <1>2, <1>3, RankGrows
  <2> QED BY <2>1
<1>4. r \in Injection(S, 0 .. (c - 1))
  BY <1>2, <1>3 DEF Injection, IsInjective
<1>5. IsFiniteSet(0 .. (c - 1)) /\ Cardinality(0 .. (c - 1)) = c
  <2>1. PICK n \in Nat : n = c
    BY <1>1
  <2>2. 0 \in Int /\ n - 1 \in Int
    OBVIOUS
  <2>3. IsFiniteSet(0 .. (n - 1)) /\ Cardinality(0 .. (n - 1)) = IF 0 > n - 1 THEN 0 ELSE n - 1 - 0 + 1
    BY <2>2, FS_Interval
  <2> QED BY <2>1, <2>3
<1>6. r \in Surjection(S, 0 .. (c - 1))
  <2>1. Cardinality(S) = Cardinality(0 .. (c - 1))
    BY <1>5
  <2> QED BY <1>4, <1>5, <2>1, FS_Injection
<1>7. ASSUME NEW k \in 1 .. c PROVE \E n \in S : Rank(S, n) = k - 1
  <2>1. k - 1 \in 0 .. (c - 1)
    BY <1>1
  <2> QED BY <1>6, <2>1 DEF Surjection
<1> QED BY <1>1, <1>2, <1>3, <1>7

-----------------------------------------------------------------------------
\* The invariant.

EntryType == [c_name : Nat, c_inode : Nat]

IsMap(f) ==
  /\ f = [n \in DOMAIN f |-> f[n]]
  /\ DOMAIN f \subseteq Name /\ IsFiniteSet(DOMAIN f)
  /\ \A n \in DOMAIN f : f[n] \in Index

Shape ==
  /\ file \in Seq(EntryType)
  /\ size \in Nat /\ saved \in 0 .. Len(file)
  /\ IsMap(names) /\ IsMap(before)
  /\ step \in Steps /\ put \in Nat /\ tidy \in BOOLEAN

\* What has been read, and what is known of it.
Read ==
  /\ step = "closed" => Scanned(saved) = names
  /\ step \in {"open", "changed", "stuck"} => before = Scanned(saved) /\ put = 0
  /\ step \in {"closed", "open", "changed"} => size = saved
  /\ step = "open" => names = before /\ PairsOf(names) \subseteq indexes

\* The k-th entry of the record on the drive is in a cluster that is given back
\* and zeroed.
Behind(k) == Shrunk /\ BlocksFor(size) * PerBlock < k /\ file[k] = Zeroed

\* Every other entry on the drive is of a name before or after the change, and the
\* two do not contradict each other: so it does not matter which of several entries
\* of one name a scan finds.
Known ==
  /\ \A k \in 1 .. saved :
       \/ <<file[k].c_inode, file[k].c_name>> \in PairsOf(before) \cup PairsOf(names)
       \/ Behind(k)
  /\ \A n \in DOMAIN before \cap DOMAIN names : before[n] = names[n]

\* One change: names go, or one comes.
OneChange ==
  step # "closed" =>
    \/ DOMAIN names \subseteq DOMAIN before
    \/ \E n \in DOMAIN names \ DOMAIN before : DOMAIN names = DOMAIN before \cup {n}

\* How far close is.
Writing ==
  step \in {"writing", "damaged"} =>
    /\ size = Cardinality(DOMAIN names) /\ size <= Len(file) /\ put <= size
    /\ \A k \in 1 .. put : file[k] = InOrder(names)[k]

\* What it has not written over yet.
Unwritten ==
  tidy /\ step # "closed" =>
    /\ saved = Cardinality(DOMAIN before)
    /\ \A k \in (put + 1) .. saved : file[k] = InOrder(before)[k] \/ Behind(k)

CatInv == Shape /\ Read /\ Known /\ OneChange /\ Writing /\ Unwritten

-----------------------------------------------------------------------------
\* The entries in order.

\* The k-th entry is of the name of rank k - 1.
LEMMA OrderFacts ==
  ASSUME NEW h, DOMAIN h \in SUBSET Nat, IsFiniteSet(DOMAIN h)
  PROVE  /\ \A k \in 1 .. Cardinality(DOMAIN h) :
              LET n == InOrder(h)[k].c_name IN
              /\ n \in DOMAIN h /\ Rank(DOMAIN h, n) = k - 1
              /\ InOrder(h)[k] = Entry(n, h[n])
         /\ \A n \in DOMAIN h :
              LET k == Rank(DOMAIN h, n) + 1 IN
              k \in 1 .. Cardinality(DOMAIN h) /\ InOrder(h)[k] = Entry(n, h[n])
<1> DEFINE c == Cardinality(DOMAIN h)
           nth(k) == CHOOSE n \in DOMAIN h : Rank(DOMAIN h, n) = k - 1
<1>1. /\ c \in Nat
      /\ \A n \in DOMAIN h : Rank(DOMAIN h, n) \in 0 .. (c - 1)
      /\ \A a, b \in DOMAIN h : Rank(DOMAIN h, a) = Rank(DOMAIN h, b) => a = b
      /\ \A k \in 1 .. c : \E n \in DOMAIN h : Rank(DOMAIN h, n) = k - 1
  BY RankFacts
<1>2. ASSUME NEW k \in 1 .. c
      PROVE  nth(k) \in DOMAIN h /\ Rank(DOMAIN h, nth(k)) = k - 1
  BY <1>1
<1>3. \A k \in 1 .. c : InOrder(h)[k] = Entry(nth(k), h[nth(k)])
  BY DEF InOrder
<1>4. \A n, i : Entry(n, i).c_name = n
  BY DEF Entry
<1>5. ASSUME NEW n \in DOMAIN h
      PROVE  LET k == Rank(DOMAIN h, n) + 1 IN k \in 1 .. c /\ InOrder(h)[k] = Entry(n, h[n])
  <2>1. PICK k : k = Rank(DOMAIN h, n) + 1
    OBVIOUS
  <2>2. k \in 1 .. c /\ Rank(DOMAIN h, n) = k - 1
    BY <1>1, <2>1
  <2>3. nth(k) = n
    BY <1>1, <1>2, <2>2
  <2> QED BY <1>3, <2>1, <2>2, <2>3
<1> QED BY <1>2, <1>3, <1>4, <1>5

-----------------------------------------------------------------------------
\* What a scan makes of the first n entries of f.

First(f, n, x) == Min({ k \in 1 .. n : f[k].c_name = x })

ScanIn(f, n) == [x \in { f[k].c_name : k \in 1 .. n } |-> f[First(f, n, x)].c_inode]

LEMMA ScannedIsIn == \A n : Scanned(n) = ScanIn(file, n) /\ Scanned(n)' = ScanIn(file', n')
  BY DEF Scanned, ScanIn, First

\* A name has the inode of its first entry.
LEMMA ScanFacts ==
  ASSUME NEW f, NEW n \in Nat
  PROVE  /\ ScanIn(f, n) = [x \in DOMAIN ScanIn(f, n) |-> ScanIn(f, n)[x]]
         /\ \A k \in 1 .. n : f[k].c_name \in DOMAIN ScanIn(f, n)
         /\ \A x \in DOMAIN ScanIn(f, n) :
              \E k \in 1 .. n : f[k].c_name = x /\ f[k].c_inode = ScanIn(f, n)[x]
<1>1. DOMAIN ScanIn(f, n) = { f[k].c_name : k \in 1 .. n }
  BY DEF ScanIn
<1>2. ASSUME NEW x \in DOMAIN ScanIn(f, n)
      PROVE  \E k \in 1 .. n : f[k].c_name = x /\ f[k].c_inode = ScanIn(f, n)[x]
  <2> DEFINE T == { k \in 1 .. n : f[k].c_name = x }
  <2>1. T \in SUBSET Nat /\ T # {}
    BY <1>1
  <2>2. First(f, n, x) \in T
    BY <2>1, MinFacts DEF First
  <2>3. ScanIn(f, n)[x] = f[First(f, n, x)].c_inode
    BY <1>1 DEF ScanIn
  <2> QED BY <2>2, <2>3
<1>3. ScanIn(f, n) = [x \in DOMAIN ScanIn(f, n) |-> ScanIn(f, n)[x]]
  BY <1>1 DEF ScanIn
<1> QED BY <1>1, <1>2, <1>3

LEMMA ScanFinite ==
  ASSUME NEW f, NEW n \in Nat
  PROVE  IsFiniteSet(DOMAIN ScanIn(f, n))
<1> DEFINE g == [k \in 1 .. n |-> f[k].c_name]
           T == DOMAIN ScanIn(f, n)
<1>1. T = { f[k].c_name : k \in 1 .. n }
  BY DEF ScanIn
<1>2. g \in Surjection(1 .. n, T)
  BY <1>1 DEF Surjection
<1>3. IsFiniteSet(1 .. n)
  BY FS_Interval
<1> QED BY <1>2, <1>3, FS_Surjection

\* Only the first n entries matter.
LEMMA ScanSame ==
  ASSUME NEW f, NEW g, NEW n \in Nat, \A k \in 1 .. n : f[k] = g[k]
  PROVE  ScanIn(f, n) = ScanIn(g, n)
<1>1. { f[k].c_name : k \in 1 .. n } = { g[k].c_name : k \in 1 .. n }
  OBVIOUS
<1>2. ASSUME NEW x \in { f[k].c_name : k \in 1 .. n }
      PROVE  f[First(f, n, x)].c_inode = g[First(g, n, x)].c_inode
  <2> DEFINE T == { k \in 1 .. n : f[k].c_name = x }
  <2>1. T = { k \in 1 .. n : g[k].c_name = x }
    OBVIOUS
  <2>2. First(f, n, x) = Min(T) /\ First(g, n, x) = Min(T)
    BY <2>1 DEF First
  <2>3. T \in SUBSET Nat /\ T # {}
    OBVIOUS
  <2>4. Min(T) \in 1 .. n
    BY <2>3, MinFacts
  <2> QED BY <2>2, <2>4
<1> QED BY <1>1, <1>2 DEF ScanIn

\* If each of the entries is of a pair of h, the scan is the part of h they are of.
LEMMA ScanWithin ==
  ASSUME NEW f, NEW n \in Nat, NEW h,
         \A k \in 1 .. n : f[k].c_name \in DOMAIN h /\ f[k].c_inode = h[f[k].c_name]
  PROVE  \A x \in DOMAIN ScanIn(f, n) : x \in DOMAIN h /\ ScanIn(f, n)[x] = h[x]
  BY ScanFacts

\* A scan of the entries of h in order finds h.
LEMMA ScanOfOrdered ==
  ASSUME NEW f, NEW h, h = [x \in DOMAIN h |-> h[x]],
         DOMAIN h \in SUBSET Nat, IsFiniteSet(DOMAIN h),
         \A k \in 1 .. Cardinality(DOMAIN h) : f[k] = InOrder(h)[k]
  PROVE  ScanIn(f, Cardinality(DOMAIN h)) = h
<1>1. PICK c \in Nat : c = Cardinality(DOMAIN h)
  BY FS_CardinalityType
<1>2. \A k \in 1 .. c : /\ f[k].c_name \in DOMAIN h
                        /\ f[k] = Entry(f[k].c_name, h[f[k].c_name])
  BY <1>1, OrderFacts
<1>3. \A k \in 1 .. c : f[k].c_name \in DOMAIN h /\ f[k].c_inode = h[f[k].c_name]
  <2>1. \A n, i : Entry(n, i).c_inode = i
    BY DEF Entry
  <2> QED BY <1>2, <2>1
<1>4. \A x \in DOMAIN h : \E k \in 1 .. c : f[k].c_name = x
  <2> TAKE x \in DOMAIN h
  <2>1. PICK k \in 1 .. c : f[k] = Entry(x, h[x])
    BY <1>1, OrderFacts
  <2> QED BY <2>1 DEF Entry
<1>5. DOMAIN ScanIn(f, c) = DOMAIN h
  BY <1>3, <1>4 DEF ScanIn
<1>6. \A x \in DOMAIN h : ScanIn(f, c)[x] = h[x]
  BY <1>3, <1>5, ScanWithin
<1>7. ScanIn(f, c) = [x \in DOMAIN ScanIn(f, c) |-> ScanIn(f, c)[x]]
  BY ScanFacts
<1> QED BY <1>1, <1>5, <1>6, <1>7

-----------------------------------------------------------------------------
\* Sizes of the file.

LEMMA BlocksFit ==
  ASSUME NEW n \in Nat
  PROVE  BlocksFor(n) * PerBlock \in Nat /\ n <= BlocksFor(n) * PerBlock
<1>1. PICK p \in Nat \ {0} : p = PerBlock
  BY CatalogAssumption
<1>2. n + p - 1 = (p * ((n + p - 1) \div p)) + ((n + p - 1) % p)
  OBVIOUS
<1>3. (n + p - 1) % p \in 0 .. (p - 1)
  OBVIOUS
<1>4. PICK q \in Nat : q = (n + p - 1) \div p
  OBVIOUS
<1>5. p * q = q * p /\ q * p \in Nat
  OBVIOUS
<1> QED BY <1>1, <1>2, <1>3, <1>4, <1>5 DEF BlocksFor

LEMMA FittedFacts ==
  ASSUME Shape, NEW n \in Nat
  PROVE  /\ Fitted(n) \in Seq(EntryType) /\ n <= Len(Fitted(n))
         /\ \A k \in 1 .. n : k <= Len(file) => Fitted(n)[k] = file[k]
<1>1. PICK m \in Nat : m = BlocksFor(n) * PerBlock /\ n <= m
  BY BlocksFit
<1>2. Fitted(n) = [k \in 1 .. m |-> IF k <= Len(file) THEN file[k] ELSE Stale]
  BY <1>1 DEF Fitted
<1>3. Stale \in EntryType
  BY CatalogAssumption DEF EntryType
<1>4. file \in Seq(EntryType) /\ Len(file) \in Nat
  BY DEF Shape
<1>5. \A k \in 1 .. m : (IF k <= Len(file) THEN file[k] ELSE Stale) \in EntryType
  BY <1>3, <1>4
<1> QED BY <1>1, <1>2, <1>5

LEMMA ClearedFacts ==
  ASSUME Shape, NEW n \in Nat
  PROVE  /\ Cleared(n) \in Seq(EntryType) /\ Len(Cleared(n)) = Len(file)
         /\ \A k \in 1 .. Len(file) :
              Cleared(n)[k] = file[k] \/ (BlocksFor(n) * PerBlock < k /\ Cleared(n)[k] = Zeroed)
<1>1. PICK m \in Nat : m = BlocksFor(n) * PerBlock
  BY BlocksFit
<1>2. PICK d \in Nat : d = Direct * PerBlock
  BY CatalogAssumption
<1>3. Cleared(n) = [k \in 1 .. Len(file) |-> IF m < k /\ k <= d THEN Zeroed ELSE file[k]]
  BY <1>1, <1>2 DEF Cleared
<1>4. Zeroed \in EntryType
  BY DEF Zeroed, Entry, EntryType
<1>5. file \in Seq(EntryType) /\ Len(file) \in Nat
  BY DEF Shape
<1>6. \A k \in 1 .. Len(file) : (IF m < k /\ k <= d THEN Zeroed ELSE file[k]) \in EntryType
  BY <1>4, <1>5
<1> QED BY <1>1, <1>3, <1>5, <1>6

\* An entry behind the clusters of n entries that the record counts is in a cluster
\* more than n entries have.
LEMMA BlocksOrder ==
  ASSUME NEW n \in Nat, NEW s \in Nat, NEW k \in 1 .. s, BlocksFor(n) * PerBlock < k
  PROVE  BlocksFor(n) < BlocksFor(s)
<1>1. PICK p \in Nat \ {0} : p = PerBlock
  BY CatalogAssumption
<1>2. PICK a \in Nat : a = BlocksFor(n)
  BY <1>1 DEF BlocksFor
<1>3. PICK b \in Nat : b = BlocksFor(s)
  BY <1>1 DEF BlocksFor
<1>4. a * p < k /\ k <= b * p
  <2>1. s <= b * p /\ b * p \in Nat /\ a * p \in Nat
    BY <1>1, <1>2, <1>3, BlocksFit
  <2> QED BY <1>1, <1>2, <2>1
<1>5. b <= a => b * p <= a * p
  <2> SUFFICES ASSUME b <= a PROVE b * p <= a * p
    OBVIOUS
  <2>1. PICK c \in Nat : a = b + c
    <3>1. a - b \in Nat /\ a = b + (a - b)
      OBVIOUS
    <3> QED BY <3>1
  <2>2. a * p = b * p + c * p /\ c * p \in Nat /\ b * p \in Nat
    BY <2>1
  <2> QED BY <2>2
<1>6. a * p \in Nat /\ b * p \in Nat
  OBVIOUS
<1>7. ~(b <= a)
  BY <1>4, <1>5, <1>6
<1> QED BY <1>2, <1>3, <1>7

-----------------------------------------------------------------------------
\* The invariant holds at first and after every step.

LEMMA NamesAreNumbers ==
  ASSUME NEW h, IsMap(h)
  PROVE  /\ DOMAIN h \in SUBSET Nat /\ IsFiniteSet(DOMAIN h) /\ h = [x \in DOMAIN h |-> h[x]]
         /\ Cardinality(DOMAIN h) \in Nat
  BY CatalogAssumption, FS_CardinalityType DEF IsMap

LEMMA InitInv == Init => CatInv
<1> SUFFICES ASSUME Init PROVE CatInv
  OBVIOUS
<1>1. IsMap(NoNames) /\ PairsOf(NoNames) = {} /\ DOMAIN NoNames = {}
  BY FS_EmptySet DEF NoNames, IsMap, PairsOf
<1>2. ScanIn(file, 0) = NoNames
  BY DEF ScanIn, NoNames
<1>3. Scanned(saved) = NoNames
  BY <1>2, ScannedIsIn DEF Init
<1>4. Shape
  BY <1>1 DEF Init, Shape, Steps
<1> QED BY <1>1, <1>3, <1>4 DEF Init, CatInv, Read, Known, OneChange, Writing, Unwritten

\* What a scan of the drive finds is of the names before or after the change, or of
\* a zeroed entry; these are none of the names.
LEMMA DriveKnown ==
  ASSUME Shape, Known
  PROVE  /\ ~Shrunk => IsMap(Scanned(saved))
         /\ \A x \in DOMAIN Scanned(saved) :
              \/ x \in DOMAIN before /\ Scanned(saved)[x] = before[x]
              \/ x \in DOMAIN names /\ Scanned(saved)[x] = names[x]
              \/ Shrunk /\ x = Zeroed.c_name /\ Scanned(saved)[x] = Zeroed.c_inode
         /\ \A k \in 1 .. saved : /\ file[k].c_name \in DOMAIN Scanned(saved)
                                  /\ Scanned(saved)[file[k].c_name] = file[k].c_inode
<1>1. saved \in Nat /\ Scanned(saved) = ScanIn(file, saved)
  BY ScannedIsIn DEF Shape
<1>2. \A k \in 1 .. saved :
        \/ file[k].c_name \in DOMAIN before /\ file[k].c_inode = before[file[k].c_name]
        \/ file[k].c_name \in DOMAIN names /\ file[k].c_inode = names[file[k].c_name]
        \/ Shrunk /\ file[k].c_name = Zeroed.c_name /\ file[k].c_inode = Zeroed.c_inode
  BY DEF Known, PairsOf, Behind
<1>3. \A x \in DOMAIN ScanIn(file, saved) :
        \/ x \in DOMAIN before /\ ScanIn(file, saved)[x] = before[x]
        \/ x \in DOMAIN names /\ ScanIn(file, saved)[x] = names[x]
        \/ Shrunk /\ x = Zeroed.c_name /\ ScanIn(file, saved)[x] = Zeroed.c_inode
  BY <1>1, <1>2, ScanFacts
<1>4. \A k \in 1 .. saved : file[k].c_name \in DOMAIN ScanIn(file, saved)
  BY <1>1, ScanFacts
<1>5. Zeroed.c_name \notin DOMAIN before /\ Zeroed.c_name \notin DOMAIN names
  BY CatalogAssumption DEF Shape, IsMap, Zeroed, Entry
<1>6. \A k \in 1 .. saved : ScanIn(file, saved)[file[k].c_name] = file[k].c_inode
  <2> TAKE k \in 1 .. saved
  <2> QED BY <1>2, <1>3, <1>4, <1>5 DEF Known
<1>7. IsFiniteSet(DOMAIN ScanIn(file, saved))
  BY <1>1, ScanFinite
<1>8. ScanIn(file, saved) = [x \in DOMAIN ScanIn(file, saved) |-> ScanIn(file, saved)[x]]
  BY <1>1, ScanFacts
<1>9. ~Shrunk => IsMap(ScanIn(file, saved))
  BY <1>3, <1>7, <1>8 DEF IsMap, Shape
<1> QED BY <1>1, <1>3, <1>4, <1>6, <1>9

LEMMA OpenInv == CatInv /\ Open => CatInv'
<1> SUFFICES ASSUME CatInv, Open PROVE CatInv'
  OBVIOUS
<1>1. PICK h : h = Scanned(saved)
  OBVIOUS
<1>2. size = saved /\ names' = h /\ before' = h /\ file' = file /\ saved' = saved /\ put' = 0
      /\ step' = "open" /\ size' = size /\ saved \in Nat
  BY <1>1 DEF CatInv, Read, Open, Shape
<1>3. IsMap(h) /\ \A k \in 1 .. saved : file[k].c_name \in DOMAIN h /\ h[file[k].c_name] = file[k].c_inode
  <2>1. ~Shrunk
    BY DEF Open, Shrunk
  <2> QED BY <1>1, <2>1, DriveKnown DEF CatInv
<1>4. Scanned(saved)' = h
  BY <1>1, <1>2, ScannedIsIn
<1>5. tidy' = (SubSeq(file, 1, saved) = InOrder(h))
  BY <1>1, <1>2 DEF Open
<1>6. Shape'
  BY <1>2, <1>3, <1>5 DEF CatInv, Shape, Steps
<1>7. PairsOf(names)' \subseteq indexes'
  <2>1. h = ScanIn(file, saved)
    BY <1>1, ScannedIsIn
  <2>2. \A x \in DOMAIN h : \E k \in 1 .. saved : file[k].c_name = x /\ file[k].c_inode = h[x]
    BY <1>2, <2>1, ScanFacts
  <2>3. indexes' = { <<file[k].c_inode, file[k].c_name>> : k \in 1 .. saved }
    BY <1>2 DEF Open
  <2> QED BY <1>2, <2>2, <2>3 DEF PairsOf
<1>8. Read'
  BY <1>2, <1>4, <1>7 DEF Read
<1>9. Known'
  BY <1>2, <1>3 DEF Known, PairsOf
<1>10. Unwritten'
  <2> SUFFICES ASSUME SubSeq(file, 1, saved) = InOrder(h)
               PROVE  /\ saved = Cardinality(DOMAIN h)
                      /\ \A k \in 1 .. saved : file[k] = InOrder(h)[k]
    <3>1. put' + 1 = 1 /\ before' = h /\ file' = file /\ saved' = saved
      BY <1>2
    <3> QED BY <1>5, <3>1 DEF Unwritten
  <2>1. PICK c \in Nat : c = Cardinality(DOMAIN h)
    BY <1>3, NamesAreNumbers
  <2>2. InOrder(h) = [k \in 1 .. c |-> InOrder(h)[k]]
    BY <2>1 DEF InOrder
  <2>3. file \in Seq(EntryType) /\ saved \in 0 .. Len(file)
    BY DEF CatInv, Shape
  <2>4. DOMAIN SubSeq(file, 1, saved) = 1 .. saved /\ \A k \in 1 .. saved : SubSeq(file, 1, saved)[k] = file[k]
    BY <2>3
  <2>5. 1 .. saved = 1 .. c
    BY <2>2, <2>4
  <2>6. saved = c
    BY <1>2, <2>1, <2>5
  <2> QED BY <2>1, <2>4, <2>6
<1> QED BY <1>2, <1>6, <1>8, <1>9, <1>10 DEF CatInv, OneChange, Writing

\* What the changes have in common.
LEMMA ChangeInv ==
  ASSUME CatInv, Change, IsMap(names'),
         \A n \in DOMAIN before \cap DOMAIN names' : before[n] = names'[n],
         \/ DOMAIN names' \subseteq DOMAIN before
         \/ \E n \in DOMAIN names' \ DOMAIN before : DOMAIN names' = DOMAIN before \cup {n}
  PROVE  CatInv'
<1>1. /\ step = "open" /\ step' = "changed" /\ file' = file /\ size' = size /\ saved' = saved
      /\ put' = put /\ before' = before /\ tidy' = tidy
  BY DEF Change
<1>2. before = Scanned(saved) /\ put = 0 /\ size = saved
  BY <1>1 DEF CatInv, Read
<1>3. Scanned(saved)' = Scanned(saved)
  BY <1>1, ScannedIsIn
<1>4. \A k \in 1 .. saved : <<file[k].c_inode, file[k].c_name>> \in PairsOf(before)
  BY <1>2, DriveKnown DEF CatInv, PairsOf
<1>5. Shape' /\ Read'
  BY <1>1, <1>2, <1>3 DEF CatInv, Shape, Read, Steps
<1>6. Known'
  BY <1>1, <1>4 DEF Known, PairsOf
<1>7. OneChange' /\ Writing'
  BY <1>1 DEF CatInv, OneChange, Writing
<1>8. Unwritten'
  BY <1>1 DEF CatInv, Unwritten, Behind, Shrunk
<1> QED BY <1>5, <1>6, <1>7, <1>8 DEF CatInv

LEMMA AddInv == CatInv /\ (\E i \in Index, n \in Name : Add(i, n)) => CatInv'
<1> SUFFICES ASSUME CatInv, NEW i \in Index, NEW n \in Name, Add(i, n) PROVE CatInv'
  OBVIOUS
<1>1. /\ Change /\ n \notin DOMAIN names /\ step = "open"
      /\ names' = [x \in DOMAIN names \cup {n} |-> IF x = n THEN i ELSE names[x]]
  BY DEF Add, Change
<1>2. DOMAIN names' = DOMAIN names \cup {n} /\ names' = [x \in DOMAIN names' |-> names'[x]]
      /\ names'[n] = i /\ \A x \in DOMAIN names : names'[x] = names[x]
  BY <1>1
<1>3. IsMap(names) /\ names = before
  BY <1>1 DEF CatInv, Shape, Read
<1>4. IsFiniteSet(DOMAIN names')
  BY <1>2, <1>3, FS_AddElement DEF IsMap
<1>5. IsMap(names')
  BY <1>2, <1>3, <1>4 DEF IsMap
<1>6. \A x \in DOMAIN before \cap DOMAIN names' : before[x] = names'[x]
  BY <1>2, <1>3
<1>7. \E x \in DOMAIN names' \ DOMAIN before : DOMAIN names' = DOMAIN before \cup {x}
  BY <1>1, <1>2, <1>3
<1> QED BY <1>1, <1>5, <1>6, <1>7, ChangeInv

\* Names that go.
LEMMA RemovalInv ==
  ASSUME CatInv, Change, NEW S, names' = [x \in DOMAIN names \ S |-> names[x]]
  PROVE  CatInv'
<1>1. IsMap(names) /\ names = before
  BY DEF CatInv, Shape, Read, Change
<1>2. DOMAIN names' = DOMAIN names \ S /\ names' = [x \in DOMAIN names' |-> names'[x]]
      /\ \A x \in DOMAIN names' : names'[x] = names[x]
  OBVIOUS
<1>3. IsFiniteSet(DOMAIN names')
  BY <1>1, <1>2, FS_Difference DEF IsMap
<1>4. IsMap(names')
  BY <1>1, <1>2, <1>3 DEF IsMap
<1> QED BY <1>1, <1>2, <1>4, ChangeInv

LEMMA RemoveIndexInv == CatInv /\ (\E i \in Index : RemoveIndex(i)) => CatInv'
  BY RemovalInv DEF RemoveIndex

LEMMA RemoveNameInv == CatInv /\ (\E n \in Name : RemoveName(n)) => CatInv'
  BY RemovalInv DEF RemoveName

\* The entries the record counts stay, but for those in clusters given back.
LEMMA ResizeInv == CatInv /\ Resize => CatInv'
<1> SUFFICES ASSUME CatInv, Resize PROVE CatInv'
  OBVIOUS
<1>1. /\ step \in {"open", "changed"} /\ step' = "writing"
      /\ saved' = saved /\ names' = names /\ put' = put /\ before' = before /\ tidy' = tidy
      /\ size = saved /\ put = 0 /\ saved \in 0 .. Len(file) /\ Len(file) \in Nat
  BY DEF CatInv, Resize, Read, Shape
<1>2. size' \in Nat /\ size' = Cardinality(DOMAIN names)
  BY NamesAreNumbers DEF Resize, CatInv, Shape
<1>3. /\ file' \in Seq(EntryType) /\ saved <= Len(file') /\ size' <= Len(file')
      /\ \A k \in 1 .. saved :
           file'[k] = file[k] \/ (BlocksFor(size') * PerBlock < k /\ file'[k] = Zeroed)
  <2>1. CASE size' > size
    <3>1. file' = Fitted(size')
      BY <2>1 DEF Resize
    <3>2. /\ Fitted(size') \in Seq(EntryType) /\ size' <= Len(Fitted(size'))
          /\ \A k \in 1 .. size' : k <= Len(file) => Fitted(size')[k] = file[k]
      BY <1>2, FittedFacts DEF CatInv
    <3>3. Len(Fitted(size')) \in Nat /\ Len(file) \in Nat
      BY <3>2 DEF CatInv, Shape
    <3> QED BY <1>1, <1>2, <2>1, <3>1, <3>2, <3>3
  <2>2. CASE ~(size' > size)
    <3>1. file' = Cleared(size')
      BY <2>2 DEF Resize
    <3>2. /\ Cleared(size') \in Seq(EntryType) /\ Len(Cleared(size')) = Len(file)
          /\ \A k \in 1 .. Len(file) :
               \/ Cleared(size')[k] = file[k]
               \/ BlocksFor(size') * PerBlock < k /\ Cleared(size')[k] = Zeroed
      BY <1>2, ClearedFacts DEF CatInv
    <3> QED BY <1>1, <1>2, <2>2, <3>1, <3>2
  <2> QED BY <2>1, <2>2
<1>4. Shape'
  <2>1. Len(file') \in Nat /\ saved' \in 0 .. Len(file')
    BY <1>1, <1>3
  <2> QED BY <1>1, <1>2, <1>3, <2>1 DEF CatInv, Shape, Steps
<1>5. Read' /\ OneChange'
  BY <1>1 DEF CatInv, Read, OneChange
<1>6. \A k \in 1 .. saved : file'[k] = file[k] \/ Behind(k)'
  <2> SUFFICES ASSUME NEW k \in 1 .. saved, BlocksFor(size') * PerBlock < k, file'[k] = Zeroed
               PROVE  Behind(k)'
    BY <1>3
  <2>1. BlocksFor(size') < BlocksFor(saved)
    BY <1>1, <1>2, BlocksOrder
  <2> QED BY <1>1, <2>1 DEF Behind, Shrunk, BlocksFor
<1>7. \A k \in 1 .. saved : ~Behind(k)
  BY <1>1 DEF Behind, Shrunk
<1>8. Known'
  <2>1. \A k \in 1 .. saved :
          \/ <<file'[k].c_inode, file'[k].c_name>> \in PairsOf(before) \cup PairsOf(names)
          \/ Behind(k)'
    BY <1>6, <1>7 DEF CatInv, Known
  <2> QED BY <1>1, <2>1 DEF CatInv, Known
<1>9. Writing'
  BY <1>1, <1>2, <1>3 DEF Writing
<1>10. Unwritten'
  <2> SUFFICES ASSUME tidy
               PROVE  /\ saved = Cardinality(DOMAIN before)
                      /\ \A k \in 1 .. saved : file'[k] = InOrder(before)[k] \/ Behind(k)'
    <3>1. put' + 1 = 1
      BY <1>1
    <3> QED BY <1>1, <3>1 DEF Unwritten
  <2>1. saved = Cardinality(DOMAIN before) /\ \A k \in 1 .. saved : file[k] = InOrder(before)[k]
    <3>1. put + 1 = 1
      BY <1>1
    <3> QED BY <1>1, <1>7, <3>1 DEF CatInv, Unwritten
  <2> QED BY <1>6, <2>1
<1> QED BY <1>4, <1>5, <1>8, <1>9, <1>10 DEF CatInv

LEMMA ResizeThrowsInv == CatInv /\ ResizeThrows => CatInv'
<1> SUFFICES ASSUME CatInv, ResizeThrows PROVE CatInv'
  OBVIOUS
<1>1. /\ step \in {"open", "changed"} /\ step' = "stuck" /\ file' = file
      /\ saved' = saved /\ names' = names /\ put' = put /\ before' = before /\ tidy' = tidy
      /\ size' = Cardinality(DOMAIN names)
  BY DEF ResizeThrows
<1>2. before = Scanned(saved) /\ put = 0
  BY <1>1 DEF CatInv, Read
<1>3. Scanned(saved)' = Scanned(saved)
  BY <1>1, ScannedIsIn
<1>4. Shape'
  BY <1>1, NamesAreNumbers DEF CatInv, Shape, Steps
<1>5. Read'
  BY <1>1, <1>2, <1>3 DEF Read
<1>6. \A k : ~Behind(k)
  BY <1>1 DEF Behind, Shrunk
<1>7. Known' /\ OneChange' /\ Writing' /\ Unwritten'
  BY <1>1, <1>6 DEF CatInv, Known, OneChange, Writing, Unwritten
<1> QED BY <1>4, <1>5, <1>7 DEF CatInv

LEMMA WriteEntryInv == CatInv /\ WriteEntry => CatInv'
<1> SUFFICES ASSUME CatInv, WriteEntry PROVE CatInv'
  OBVIOUS
<1>1. /\ step = "writing" /\ step' = step /\ size' = size
      /\ saved' = saved /\ names' = names /\ before' = before /\ tidy' = tidy
      /\ put' = put + 1 /\ put < Cardinality(DOMAIN names)
      /\ file' = [file EXCEPT ![put + 1] = InOrder(names)[put + 1]]
  BY DEF WriteEntry
<1>2. PICK c \in Nat : c = Cardinality(DOMAIN names)
  BY NamesAreNumbers DEF CatInv, Shape
<1>3. /\ size = c /\ c <= Len(file) /\ put \in Nat /\ put + 1 \in 1 .. c
      /\ file \in Seq(EntryType) /\ Len(file) \in Nat /\ saved \in 0 .. Len(file)
      /\ \A k \in 1 .. put : file[k] = InOrder(names)[k]
  BY <1>1, <1>2 DEF CatInv, Writing, Shape
<1>4. PICK n \in DOMAIN names : InOrder(names)[put + 1] = Entry(n, names[n])
  <2>1. DOMAIN names \in SUBSET Nat /\ IsFiniteSet(DOMAIN names)
    BY NamesAreNumbers DEF CatInv, Shape
  <2> QED BY <1>2, <1>3, <2>1, OrderFacts
<1>5. Entry(n, names[n]) \in EntryType
  BY CatalogAssumption DEF CatInv, Shape, IsMap, Entry, EntryType
<1>6. /\ file' \in Seq(EntryType) /\ Len(file') = Len(file)
      /\ file'[put + 1] = Entry(n, names[n])
      /\ \A k \in 1 .. Len(file) : k # put + 1 => file'[k] = file[k]
  BY <1>1, <1>3, <1>4, <1>5
<1>7. Shape'
  BY <1>1, <1>3, <1>6 DEF CatInv, Shape
<1>8. Read' /\ OneChange'
  BY <1>1 DEF CatInv, Read, OneChange
<1>12. \A k \in 1 .. saved : k # put + 1 /\ Behind(k) => Behind(k)'
  BY <1>1, <1>3, <1>6 DEF Behind, Shrunk, BlocksFor
<1>9. Known'
  <2>1. ASSUME NEW k \in 1 .. saved
        PROVE  \/ <<file'[k].c_inode, file'[k].c_name>> \in PairsOf(before) \cup PairsOf(names)
               \/ Behind(k)'
    <3>1. CASE k = put + 1
      BY <1>6, <3>1 DEF Entry, PairsOf
    <3>2. CASE k # put + 1
      BY <1>3, <1>6, <1>12, <3>2 DEF CatInv, Known
    <3> QED BY <3>1, <3>2
  <2> QED BY <1>1, <2>1 DEF CatInv, Known
<1>10. Writing'
  <2>1. \A k \in 1 .. put + 1 : file'[k] = InOrder(names)[k]
    BY <1>3, <1>4, <1>6
  <2> QED BY <1>1, <1>2, <1>3, <1>6, <2>1 DEF Writing
<1>11. Unwritten'
  <2>1. \A k \in (put + 2) .. saved :
          k \in (put + 1) .. saved /\ file'[k] = file[k] /\ (Behind(k) => Behind(k)')
    BY <1>3, <1>6, <1>12
  <2>2. put' + 1 = put + 2
    BY <1>1, <1>3
  <2> QED BY <1>1, <2>1, <2>2 DEF CatInv, Unwritten
<1> QED BY <1>7, <1>8, <1>9, <1>10, <1>11 DEF CatInv

LEMMA CloseInodeInv == CatInv /\ CloseInode => CatInv'
<1> SUFFICES ASSUME CatInv, CloseInode PROVE CatInv'
  OBVIOUS
<1>1. /\ step = "writing" /\ step' = "closed" /\ size' = size /\ saved' = size
      /\ names' = names /\ before' = before /\ tidy' = tidy /\ put' = put
      /\ put = Cardinality(DOMAIN names) /\ file' = Fitted(size)
  BY DEF CloseInode
<1>2. PICK c \in Nat : c = Cardinality(DOMAIN names)
  BY NamesAreNumbers DEF CatInv, Shape
<1>3. size = c /\ c <= Len(file) /\ \A k \in 1 .. c : file[k] = InOrder(names)[k]
  BY <1>1, <1>2 DEF CatInv, Writing
<1>4. /\ file' \in Seq(EntryType) /\ c <= Len(file')
      /\ \A k \in 1 .. c : k <= Len(file) => file'[k] = file[k]
  BY <1>1, <1>2, <1>3, FittedFacts DEF CatInv
<1>5. \A k \in 1 .. c : file'[k] = InOrder(names)[k]
  <2>1. Len(file) \in Nat
    BY DEF CatInv, Shape
  <2> QED BY <1>3, <1>4, <2>1
<1>6. /\ DOMAIN names \in SUBSET Nat /\ IsFiniteSet(DOMAIN names)
      /\ names = [x \in DOMAIN names |-> names[x]]
  BY NamesAreNumbers DEF CatInv, Shape
<1>7. ScanIn(file', c) = names
  BY <1>2, <1>5, <1>6, ScanOfOrdered
<1>8. Scanned(saved)' = names
  BY <1>1, <1>3, <1>7, ScannedIsIn
<1>9. Shape'
  <2>1. Len(file') \in Nat /\ saved' \in 0 .. Len(file')
    BY <1>1, <1>3, <1>4
  <2> QED BY <1>1, <1>3, <1>4, <2>1 DEF CatInv, Shape, Steps
<1>10. Read'
  BY <1>1, <1>8 DEF Read
<1>11. Known'
  <2>1. ASSUME NEW k \in 1 .. c
        PROVE  <<file'[k].c_inode, file'[k].c_name>> \in PairsOf(names)
    <3>1. PICK n \in DOMAIN names : InOrder(names)[k] = Entry(n, names[n])
      BY <1>2, <1>6, OrderFacts
    <3> QED BY <1>5, <3>1 DEF Entry, PairsOf
  <2> QED BY <1>1, <1>3, <2>1 DEF CatInv, Known
<1> QED BY <1>1, <1>9, <1>10, <1>11 DEF CatInv, OneChange, Writing, Unwritten

LEMMA CrashInv == CatInv /\ Crash => CatInv'
<1> SUFFICES ASSUME CatInv, Crash PROVE CatInv'
  OBVIOUS
<1>1. PICK h : h = Scanned(saved)
  OBVIOUS
<1>2. /\ step' = "closed" /\ size' = saved /\ saved' = saved /\ file' = Fitted(saved)
      /\ names' = h /\ before' = h /\ tidy' = tidy /\ put' = put /\ ~Shrunk
  BY <1>1 DEF Crash
<1>3. IsMap(h) /\ \A k \in 1 .. saved : file[k].c_name \in DOMAIN h /\ h[file[k].c_name] = file[k].c_inode
  BY <1>1, <1>2, DriveKnown DEF CatInv
<1>4. /\ file' \in Seq(EntryType) /\ saved \in 0 .. Len(file')
      /\ \A k \in 1 .. saved : file'[k] = file[k]
  <2>1. saved \in Nat /\ saved \in 0 .. Len(file) /\ Len(file) \in Nat
    BY DEF CatInv, Shape
  <2>2. /\ Fitted(saved) \in Seq(EntryType) /\ saved <= Len(Fitted(saved))
        /\ \A k \in 1 .. saved : k <= Len(file) => Fitted(saved)[k] = file[k]
    BY <2>1, FittedFacts DEF CatInv
  <2>3. Len(Fitted(saved)) \in Nat
    BY <2>2
  <2> QED BY <1>2, <2>1, <2>2, <2>3
<1>5. Scanned(saved)' = h
  <2>1. saved \in Nat
    BY DEF CatInv, Shape
  <2> QED BY <1>1, <1>2, <1>4, <2>1, ScanSame, ScannedIsIn
<1>6. Shape'
  BY <1>2, <1>3, <1>4 DEF CatInv, Shape, Steps
<1>7. Known'
  <2>1. \A k \in 1 .. saved : <<file'[k].c_inode, file'[k].c_name>> \in PairsOf(h)
    BY <1>3, <1>4 DEF PairsOf
  <2> QED BY <1>2, <2>1 DEF Known
<1> QED BY <1>2, <1>5, <1>6, <1>7 DEF CatInv, Read, OneChange, Writing, Unwritten

LEMMA CrashDamagesInv == CatInv /\ CrashDamages => CatInv'
<1> SUFFICES ASSUME CatInv, CrashDamages PROVE CatInv'
  OBVIOUS
<1>1. /\ step = "writing" /\ step' = "damaged" /\ file' = file /\ size' = size /\ saved' = saved
      /\ names' = names /\ put' = put /\ before' = before /\ tidy' = tidy
  BY DEF CrashDamages, Shrunk
<1>2. \A k : Behind(k)' <=> Behind(k)
  BY <1>1 DEF Behind, Shrunk, BlocksFor
<1> QED BY <1>1, <1>2 DEF CatInv, Shape, Steps, Read, Known, OneChange, Writing, Unwritten

LEMMA NextInv == CatInv /\ [Next]_vars => CatInv'
<1> SUFFICES ASSUME CatInv, [Next]_vars PROVE CatInv'
  OBVIOUS
<1>1. CASE UNCHANGED vars
  <2>1. Scanned(saved)' = Scanned(saved)
    BY <1>1, ScannedIsIn DEF vars
  <2>2. \A k : Behind(k)' <=> Behind(k)
    BY <1>1 DEF vars, Behind, Shrunk, BlocksFor
  <2> QED BY <1>1, <2>1, <2>2 DEF vars, CatInv, Shape, Read, Known, OneChange, Writing, Unwritten
<1>3. CASE End
  BY <1>1, <1>3 DEF End
<1>2. CASE Next
  BY <1>2, OpenInv, AddInv, RemoveIndexInv, RemoveNameInv, ResizeInv, ResizeThrowsInv,
     WriteEntryInv, CloseInodeInv, CrashInv, CrashDamagesInv, <1>3 DEF Next
<1> QED BY <1>1, <1>2

-----------------------------------------------------------------------------
\* The properties.

\* The invariant of a catalog and its handle, crashes at every step included.
THEOREM CatInvAlways == Spec => []CatInv
  BY InitInv, NextInv, PTL DEF Spec

\* After close a scan finds every name, with its inode, and no other.
THEOREM ReopenFindsAllAlways == Spec => []ReopenFindsAll
<1>1. CatInv => ReopenFindsAll
  BY DEF CatInv, Read, ReopenFindsAll
<1> QED BY <1>1, CatInvAlways, PTL

\* remove(index) leaves no name of the inode.
THEOREM RemoveIsTotalAlways == Spec => RemoveIsTotal
<1>1. CatInv /\ [Next]_vars =>
        [\A i \in Index : RemoveIndex(i) => \A n \in DOMAIN names' : names'[n] # i]_vars
  <2> SUFFICES ASSUME CatInv, NEW i \in Index, RemoveIndex(i), NEW n \in DOMAIN names', names'[n] = i
               PROVE  FALSE
    OBVIOUS
  <2>1. PairsOf(names) \subseteq indexes
    BY DEF CatInv, Read, RemoveIndex, Change
  <2>2. n \in DOMAIN names \ Removed(i) /\ names[n] = i
    BY DEF RemoveIndex
  <2>3. <<i, n>> \in indexes
    BY <2>1, <2>2 DEF PairsOf
  <2> QED BY <2>2, <2>3 DEF Removed, NamesOf
<1> QED BY <1>1, CatInvAlways, PTL DEF Spec, RemoveIsTotal

\* The rank of a name is no higher among fewer names, and grows by one at most with
\* one more.
LEMMA RankOfSome ==
  ASSUME NEW B \in SUBSET Nat, IsFiniteSet(B), NEW N \in SUBSET B, NEW x \in N
  PROVE  Rank(N, x) <= Rank(B, x)
<1> DEFINE R == { m \in N : m < x }
           S == { m \in B : m < x }
<1>1. IsFiniteSet(S) /\ R \in SUBSET S
  BY FS_Subset
<1> QED BY <1>1, FS_Subset DEF Rank

LEMMA RankOfMore ==
  ASSUME NEW B \in SUBSET Nat, IsFiniteSet(B), NEW n, NEW N \in SUBSET Nat, N = B \cup {n}, NEW x \in B
  PROVE  Rank(N, x) <= Rank(B, x) + 1
<1> DEFINE R == { m \in N : m < x }
           S == { m \in B : m < x }
<1>1. IsFiniteSet(S)
  BY FS_Subset
<1>2. IsFiniteSet(S \cup {n}) /\ Cardinality(S \cup {n}) = IF n \in S THEN Cardinality(S) ELSE Cardinality(S) + 1
  BY <1>1, FS_AddElement
<1>3. R \in SUBSET (S \cup {n})
  OBVIOUS
<1>4. IsFiniteSet(R) /\ Cardinality(R) <= Cardinality(S \cup {n})
  BY <1>2, <1>3, FS_Subset
<1>5. Cardinality(R) \in Nat /\ Cardinality(S) \in Nat
  BY <1>1, <1>4, FS_CardinalityType
<1> QED BY <1>2, <1>4, <1>5 DEF Rank

\* A name that was kept and is not on the drive was written over where it was, or
\* zeroed there, and is not written yet where it is to be, or lies there behind the
\* size that counts.
LEMMA LostAtBorder ==
  ASSUME CatInv, tidy, NEW x \in DOMAIN before \cap DOMAIN names,
         <<names[x], x>> \notin PairsOf(Scanned(saved))
  PROVE  /\ step \in {"writing", "damaged"} /\ saved \in Nat /\ put \in Nat
         /\ Rank(DOMAIN before, x) + 1 <= saved
         /\ Rank(DOMAIN before, x) + 1 <= put \/ Behind(Rank(DOMAIN before, x) + 1)
         /\ Rank(DOMAIN names, x) + 1 > put \/ Rank(DOMAIN names, x) + 1 > saved
<1>1. before[x] = names[x] /\ saved \in Nat /\ put \in Nat
  BY DEF CatInv, Known, Shape
<1>2. step \in {"writing", "damaged"}
  <2>1. step # "closed" /\ step \notin {"open", "changed", "stuck"}
    BY <1>1 DEF CatInv, Read, PairsOf
  <2> QED BY <2>1 DEF CatInv, Shape, Steps
<1>3. /\ DOMAIN names \in SUBSET Nat /\ IsFiniteSet(DOMAIN names)
      /\ DOMAIN before \in SUBSET Nat /\ IsFiniteSet(DOMAIN before)
  BY NamesAreNumbers DEF CatInv, Shape
<1>4. PICK b : b = Rank(DOMAIN before, x) + 1
  OBVIOUS
<1>5. PICK m : m = Rank(DOMAIN names, x) + 1
  OBVIOUS
<1>6. b \in 1 .. Cardinality(DOMAIN before) /\ InOrder(before)[b] = Entry(x, before[x])
  BY <1>3, <1>4, OrderFacts
<1>7. m \in 1 .. Cardinality(DOMAIN names) /\ InOrder(names)[m] = Entry(x, names[x])
  BY <1>3, <1>5, OrderFacts
<1>8. ASSUME NEW k \in 1 .. saved, file[k] = Entry(x, names[x]) PROVE FALSE
  <2>1. file[k].c_name = x /\ file[k].c_inode = names[x]
    BY <1>8 DEF Entry
  <2>2. x \in DOMAIN Scanned(saved) /\ Scanned(saved)[x] = names[x]
    BY <2>1, DriveKnown DEF CatInv
  <2> QED BY <2>2 DEF PairsOf
<1>9. /\ saved = Cardinality(DOMAIN before)
      /\ \A k \in (put + 1) .. saved : file[k] = InOrder(before)[k] \/ Behind(k)
  BY <1>2 DEF CatInv, Unwritten
<1>10. b <= put \/ Behind(b)
  <2> SUFFICES ASSUME ~(b <= put), ~Behind(b) PROVE FALSE
    OBVIOUS
  <2>1. b \in 1 .. saved /\ b \in (put + 1) .. saved
    BY <1>1, <1>6, <1>9
  <2> QED BY <1>1, <1>6, <1>8, <1>9, <2>1
<1>11. m > put \/ m > saved
  <2> SUFFICES ASSUME ~(m > put), ~(m > saved) PROVE FALSE
    OBVIOUS
  <2>1. m \in 1 .. saved /\ m \in 1 .. put
    BY <1>1, <1>7
  <2>2. file[m] = InOrder(names)[m]
    BY <1>2, <2>1 DEF CatInv, Writing
  <2> QED BY <1>7, <1>8, <2>1, <2>2
<1> QED BY <1>1, <1>2, <1>4, <1>5, <1>6, <1>9, <1>10, <1>11

Kept  == PairsOf(before) \cap PairsOf(names)
Drive == PairsOf(Scanned(saved))
Come  == DOMAIN names \ DOMAIN before
Gone  == DOMAIN before \ DOMAIN names

LEMMA KeptFacts ==
  ASSUME CatInv
  PROVE  /\ DOMAIN names \in SUBSET Nat /\ IsFiniteSet(DOMAIN names)
         /\ DOMAIN before \in SUBSET Nat /\ IsFiniteSet(DOMAIN before)
         /\ \A p \in Kept \ Drive :
              \E x \in DOMAIN before \cap DOMAIN names :
                p = <<names[x], x>> /\ <<names[x], x>> \notin Drive
         /\ step = "closed" => Kept \ Drive = {}
<1>1. /\ DOMAIN names \in SUBSET Nat /\ IsFiniteSet(DOMAIN names)
      /\ DOMAIN before \in SUBSET Nat /\ IsFiniteSet(DOMAIN before)
  BY NamesAreNumbers DEF CatInv, Shape
<1>2. \A p \in Kept \ Drive :
        \E x \in DOMAIN before \cap DOMAIN names :
          p = <<names[x], x>> /\ <<names[x], x>> \notin Drive
  <2> TAKE p \in Kept \ Drive
  <2>1. PICK x \in DOMAIN names : p = <<names[x], x>>
    BY DEF Kept, PairsOf
  <2>2. PICK y \in DOMAIN before : p = <<before[y], y>>
    BY DEF Kept, PairsOf
  <2> QED BY <2>1, <2>2
<1>3. step = "closed" => Kept \ Drive = {}
  BY DEF CatInv, Read, Kept, Drive
<1> QED BY <1>1, <1>2, <1>3

\* If names only go, what is lost was in the clusters given back.
LEMMA LostBehind ==
  ASSUME CatInv, tidy, DOMAIN names \subseteq DOMAIN before,
         NEW x \in DOMAIN before \cap DOMAIN names, <<names[x], x>> \notin Drive
  PROVE  /\ Shrunk /\ size = Cardinality(DOMAIN names) /\ saved = Cardinality(DOMAIN before)
         /\ Rank(DOMAIN before, x) + 1 \in (size + 1) .. saved
<1> DEFINE b == Rank(DOMAIN before, x) + 1
<1>1. /\ step \in {"writing", "damaged"} /\ saved \in Nat /\ put \in Nat
      /\ b <= saved /\ (b <= put \/ Behind(b))
      /\ Rank(DOMAIN names, x) + 1 > put \/ Rank(DOMAIN names, x) + 1 > saved
  BY LostAtBorder DEF Drive
<1>2. Rank(DOMAIN names, x) <= Rank(DOMAIN before, x)
  BY KeptFacts, RankOfSome
<1>3. Rank(DOMAIN names, x) \in Int /\ Rank(DOMAIN before, x) \in Int
  BY KeptFacts, RankFacts
<1>4. Behind(b)
  BY <1>1, <1>2, <1>3
<1>5. size \in Nat /\ size = Cardinality(DOMAIN names) /\ saved = Cardinality(DOMAIN before)
  BY <1>1 DEF CatInv, Shape, Writing, Unwritten
<1>6. size <= BlocksFor(size) * PerBlock /\ BlocksFor(size) * PerBlock \in Nat
  BY <1>5, BlocksFit
<1>7. BlocksFor(size) * PerBlock < b /\ Shrunk
  BY <1>4 DEF Behind
<1> HIDE DEF b
<1>8. b \in Int
  BY <1>3 DEF b
<1>9. b \in (size + 1) .. saved
  BY <1>1, <1>5, <1>6, <1>7, <1>8
<1> QED BY <1>5, <1>7, <1>9 DEF b

\* ... no more names than the change took out.
LEMMA LostToGone ==
  ASSUME CatInv, tidy, DOMAIN names \subseteq DOMAIN before
  PROVE  /\ Cardinality(Kept \ Drive) <= Cardinality(Gone)
         /\ ~Shrunk => Kept \ Drive = {}
<1>1. CASE Kept \ Drive = {}
  <2>1. IsFiniteSet(Gone)
    BY KeptFacts, FS_Difference DEF Gone
  <2>2. Cardinality(Gone) \in Nat
    BY <2>1, FS_CardinalityType
  <2>3. Cardinality(Kept \ Drive) = 0
    BY <1>1, FS_EmptySet
  <2> QED BY <1>1, <2>2, <2>3
<1>2. CASE Kept \ Drive # {}
  <2> DEFINE place == [p \in Kept \ Drive |-> Rank(DOMAIN before, p[2]) + 1]
  <2>1. \A p \in Kept \ Drive : \E x \in DOMAIN before \cap DOMAIN names :
          p = <<names[x], x>> /\ <<names[x], x>> \notin Drive
    BY KeptFacts
  <2>2. /\ Shrunk /\ size = Cardinality(DOMAIN names) /\ saved = Cardinality(DOMAIN before)
    BY <1>2, <2>1, LostBehind
  <2>3. ASSUME NEW p \in Kept \ Drive
        PROVE  /\ p[2] \in DOMAIN before /\ p[2] \in DOMAIN names /\ p = <<names[p[2]], p[2]>>
               /\ Rank(DOMAIN before, p[2]) + 1 \in (size + 1) .. saved
    <3>1. PICK x \in DOMAIN before \cap DOMAIN names :
            p = <<names[x], x>> /\ <<names[x], x>> \notin Drive
      BY <2>1
    <3>2. Rank(DOMAIN before, x) + 1 \in (size + 1) .. saved
      BY <3>1, LostBehind
    <3>3. p[2] = x
      BY <3>1
    <3> QED BY <3>1, <3>2, <3>3
  <2>4. ASSUME NEW p \in Kept \ Drive, NEW q \in Kept \ Drive,
               Rank(DOMAIN before, p[2]) + 1 = Rank(DOMAIN before, q[2]) + 1
        PROVE  p = q
    <3>1. Rank(DOMAIN before, p[2]) \in Int /\ Rank(DOMAIN before, q[2]) \in Int
      BY <2>3, KeptFacts, RankFacts
    <3>2. Rank(DOMAIN before, p[2]) = Rank(DOMAIN before, q[2])
      BY <2>4, <3>1
    <3>3. p[2] = q[2]
      BY <2>3, <3>2, KeptFacts, RankFacts
    <3> QED BY <2>3, <3>3
  <2>5. place \in Injection(Kept \ Drive, (size + 1) .. saved)
    BY <2>3, <2>4 DEF Injection, IsInjective
  <2>6. size \in Nat /\ saved \in Nat
    BY DEF CatInv, Shape
  <2>7. /\ IsFiniteSet((size + 1) .. saved)
        /\ Cardinality((size + 1) .. saved) = IF size + 1 > saved THEN 0 ELSE saved - size
    BY <2>6, FS_Interval
  <2>8. Cardinality(Kept \ Drive) <= Cardinality((size + 1) .. saved)
    BY <2>5, <2>7, FS_Injection
  <2>9. Cardinality(Gone) = saved - size
    <3>1. DOMAIN before \cap DOMAIN names = DOMAIN names
      OBVIOUS
    <3> QED BY <2>2, <3>1, KeptFacts, FS_Difference DEF Gone
  <2>10. saved - size \in Nat
    <3>1. Cardinality(DOMAIN names) <= Cardinality(DOMAIN before)
      BY KeptFacts, FS_Subset
    <3> QED BY <2>2, <2>6, <3>1
  <2>11. Cardinality((size + 1) .. saved) = saved - size
    BY <2>6, <2>7, <2>10
  <2> QED BY <2>2, <2>8, <2>9, <2>11
<1> QED BY <1>1, <1>2

\* If a name comes, what is lost is the one name at the border.
LEMMA LostToCome ==
  ASSUME CatInv, tidy, step # "closed",
         NEW n \in DOMAIN names \ DOMAIN before, DOMAIN names = DOMAIN before \cup {n}
  PROVE  Cardinality(Kept \ Drive) <= 1
<1> DEFINE border == IF put < saved THEN put ELSE saved
<1>1. ASSUME NEW z \in DOMAIN before \cap DOMAIN names, <<names[z], z>> \notin Drive
      PROVE  Rank(DOMAIN before, z) + 1 = border
  <2>1. PICK b : b = Rank(DOMAIN before, z) + 1
    OBVIOUS
  <2>2. /\ step \in {"writing", "damaged"} /\ saved \in Nat /\ put \in Nat
        /\ b <= saved /\ (b <= put \/ Behind(b))
        /\ Rank(DOMAIN names, z) + 1 > put \/ Rank(DOMAIN names, z) + 1 > saved
    BY <1>1, <2>1, LostAtBorder DEF Drive
  <2>3. Rank(DOMAIN names, z) <= Rank(DOMAIN before, z) + 1
    BY KeptFacts, RankOfMore
  <2>4. Rank(DOMAIN names, z) \in Int /\ Rank(DOMAIN before, z) \in Int
    BY KeptFacts, RankFacts
  <2>5. ~Behind(b)
    <3>1. size \in Nat /\ size = Cardinality(DOMAIN names) /\ saved = Cardinality(DOMAIN before)
      BY <2>2 DEF CatInv, Shape, Writing, Unwritten
    <3>2. saved <= size
      BY <3>1, KeptFacts, FS_Subset
    <3>3. size <= BlocksFor(size) * PerBlock /\ BlocksFor(size) * PerBlock \in Nat
      BY <3>1, BlocksFit
    <3>4. ~(BlocksFor(size) * PerBlock < b)
      BY <2>1, <2>2, <2>4, <3>1, <3>2, <3>3
    <3> QED BY <3>4 DEF Behind
  <2> QED BY <2>1, <2>2, <2>3, <2>4, <2>5
<1>2. \A p, q \in Kept \ Drive : p = q
  <2> TAKE p, q \in Kept \ Drive
  <2>1. PICK x \in DOMAIN before \cap DOMAIN names : p = <<names[x], x>> /\ <<names[x], x>> \notin Drive
    BY KeptFacts
  <2>2. PICK y \in DOMAIN before \cap DOMAIN names : q = <<names[y], y>> /\ <<names[y], y>> \notin Drive
    BY KeptFacts
  <2>3. Rank(DOMAIN before, x) + 1 = Rank(DOMAIN before, y) + 1
    BY <1>1, <2>1, <2>2
  <2>4. Rank(DOMAIN before, x) \in Int /\ Rank(DOMAIN before, y) \in Int
    BY KeptFacts, RankFacts
  <2>5. x = y
    BY <2>3, <2>4, KeptFacts, RankFacts
  <2> QED BY <2>1, <2>2, <2>5
<1>3. CASE Kept \ Drive = {}
  BY <1>3, FS_EmptySet
<1>4. CASE Kept \ Drive # {}
  <2>1. PICK p : Kept \ Drive = {p}
    BY <1>2, <1>4
  <2>2. Cardinality({p}) = 1
    BY FS_Singleton
  <2>3. Cardinality(Kept \ Drive) = 1
    BY <2>1, <2>2
  <2> QED BY <2>3
<1> QED BY <1>3, <1>4

\* After a crash at any moment the drive has only names from before or after the
\* change and perhaps the entry of a zeroed cluster, and of the names the change
\* kept it has lost no more than the change added or removed; none if it added none
\* and gave no cluster back.
THEOREM CrashKeepsNamesAlways == Spec => []CrashKeepsNames
<1>1. ASSUME CatInv PROVE CrashKeepsNames
  <2> DEFINE blank == IF Shrunk THEN {<<Zeroed.c_inode, Zeroed.c_name>>} ELSE {}
  <2>1. Drive \subseteq PairsOf(before) \cup PairsOf(names) \cup blank
    BY <1>1, DriveKnown DEF CatInv, PairsOf, Drive
  <2>2. step = "stuck" => Drive = PairsOf(before)
    BY <1>1 DEF CatInv, Read, Drive
  <2>3. /\ IsFiniteSet(Come) /\ Cardinality(Come) \in Nat
        /\ IsFiniteSet(Gone) /\ Cardinality(Gone) \in Nat
    BY <1>1, KeptFacts, FS_Difference, FS_CardinalityType DEF Come, Gone
  <2>4. ASSUME tidy, DOMAIN names \subseteq DOMAIN before
        PROVE  /\ Cardinality(Kept \ Drive) <= Cardinality(Come) + Cardinality(Gone)
               /\ ~Shrunk => Kept \ Drive = {}
    <3>1. Cardinality(Kept \ Drive) <= Cardinality(Gone) /\ (~Shrunk => Kept \ Drive = {})
      BY <1>1, <2>4, LostToGone
    <3>2. Cardinality(Come) = 0
      BY <2>4, FS_EmptySet DEF Come
    <3> QED BY <2>3, <3>1, <3>2
  <2>5. ASSUME tidy, step # "closed",
               NEW n \in DOMAIN names \ DOMAIN before, DOMAIN names = DOMAIN before \cup {n}
        PROVE  Cardinality(Kept \ Drive) <= Cardinality(Come) + Cardinality(Gone)
    <3>1. Cardinality(Kept \ Drive) <= 1
      BY <1>1, <2>5, LostToCome
    <3>2. Come = {n} /\ Gone = {}
      BY <2>5 DEF Come, Gone
    <3>3. Cardinality(Come) = 1 /\ Cardinality(Gone) = 0
      BY <3>2, FS_Singleton, FS_EmptySet
    <3> QED BY <3>1, <3>3
  <2>6. ASSUME step = "closed"
        PROVE  /\ Cardinality(Kept \ Drive) <= Cardinality(Come) + Cardinality(Gone)
               /\ Kept \ Drive = {}
    <3>1. Kept \ Drive = {}
      BY <1>1, <2>6, KeptFacts
    <3>2. Cardinality(Kept \ Drive) = 0
      BY <3>1, FS_EmptySet
    <3> QED BY <2>3, <3>1, <3>2
  <2>7. tidy => Cardinality(Kept \ Drive) <= Cardinality(Come) + Cardinality(Gone)
    BY <1>1, <2>4, <2>5, <2>6 DEF CatInv, OneChange
  <2>8. Come = {} => DOMAIN names \subseteq DOMAIN before
    BY DEF Come
  <2>9. tidy /\ Come = {} /\ ~Shrunk => Kept \ Drive = {}
    BY <2>4, <2>8
  <2> QED BY <2>1, <2>2, <2>7, <2>9 DEF CrashKeepsNames, Kept, Drive, Come, Gone
<1> QED BY <1>1, CatInvAlways, PTL

=============================================================================
