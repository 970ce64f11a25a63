------------------------------ MODULE FileProofs ------------------------------
(***************************************************************************)
(* Proofs about a file from both sides: first TosFile and the FileIO under *)
(* it, its bytes, for blocks, drives, modes and calls of any size; then    *)
(* Fileblock, the clusters an inode reaches.  The two share no state.      *)
(*                                                                         *)
(* NoWrap says what callers keep to: a block below 2^32, so that no sum of *)
(* a pointer, a count and a block wraps.  Beyond it the code computes too  *)
(* few blocks and cuts the file.                                           *)
(***************************************************************************)
EXTENDS TosFile, Fileblock, TLAPS

Room == Capacity * BSize

NoWrap ==
  /\ \A n \in Counts : Room + n + BSize <= Wrap /\ PtrBound + n + BSize <= Wrap
  /\ \A s \in Sizes : s + BSize <= Wrap

-----------------------------------------------------------------------------
\* The inductive invariant, part by part.

\* The pointer is where seek may put it or inside the drive; i_size has not
\* wrapped, and may count bytes that have no block.
Sizing ==
  /\ ptr \in Nat /\ (ptr <= PtrBound \/ ptr <= Room)
  /\ isize \in Nat /\ isize + BSize <= Wrap
  /\ bytes \in Seq(Byte \cup {Stale}) /\ Len(bytes) <= Room

\* What was written lies below both i_size and the last block.
Kept ==
  \A o \in DOMAIN written :
    /\ o \in Nat /\ o < isize /\ o < Len(bytes)
    /\ bytes[o + 1] = written[o]

\* A file opened to append writes behind everything it holds.
Behind == Appends(mode) /\ ~moved => \A o \in DOMAIN written : o < ptr

FileInv == Sizing /\ Kept /\ Behind

-----------------------------------------------------------------------------
\* Blocks and bytes.

LEMMA RoomType == Room \in Nat /\ BSize \in Nat \ {0} /\ Capacity \in Nat /\ Wrap \in Nat
<1>1. PICK c \in Nat, b \in Nat \ {0} : c = Capacity /\ b = BSize
  BY IOAssumption
<1>2. c * b \in Nat
  OBVIOUS
<1> QED BY <1>1, <1>2, IOAssumption DEF Room

LEMMA LeastMost ==
  ASSUME NEW a \in Int, NEW b \in Int
  PROVE  /\ Least(a, b) \in Int /\ Least(a, b) <= a /\ Least(a, b) <= b
         /\ Least(a, b) = a \/ Least(a, b) = b
         /\ Most(a, b) \in Int /\ a <= Most(a, b) /\ b <= Most(a, b)
         /\ Most(a, b) = a \/ Most(a, b) = b
  BY DEF Least, Most

\* How much of a call a file of l bytes takes, from p on.
LEMMA Fits ==
  ASSUME NEW n \in Nat, NEW l \in Nat, NEW p \in Nat
  PROVE  LET done == Least(n, Most(0, l - p))
         IN done \in 0 .. n /\ (done > 0 => p + done <= l)
<1>1. PICK m : m = Most(0, l - p)
  OBVIOUS
<1>2. m \in Int /\ 0 <= m /\ (m = 0 \/ m = l - p)
  BY <1>1, LeastMost
<1>3. PICK d : d = Least(n, m)
  OBVIOUS
<1>4. d \in Int /\ d <= n /\ d <= m /\ (d = n \/ d = m)
  BY <1>2, <1>3, LeastMost
<1>5. d \in 0 .. n /\ (d > 0 => p + d <= l)
  BY <1>2, <1>4
<1> QED BY <1>1, <1>3, <1>5

\* resize_inode asks for blocks enough.
LEMMA BlocksSuffice ==
  ASSUME NEW s \in Nat, s + BSize <= Wrap
  PROVE  TargetBlocks(s) \in Nat /\ s <= TargetBlocks(s) * BSize
<1>1. PICK b \in Nat \ {0} : b = BSize
  BY IOAssumption
<1>2. s + b - 1 \in Nat /\ s + b - 1 < Wrap /\ Wrap \in Nat
  BY <1>1, IOAssumption
<1>3. (s + b - 1) % Wrap = s + b - 1
  BY <1>2
<1>4. s + b - 1 = (b * ((s + b - 1) \div b)) + ((s + b - 1) % b)
  OBVIOUS
<1>5. (s + b - 1) % b \in 0 .. (b - 1)
  OBVIOUS
<1>6. PICK q \in Nat : q = (s + b - 1) \div b
  OBVIOUS
<1>7. b * q = q * b /\ q * b \in Nat
  OBVIOUS
<1>8. TargetBlocks(s) = q
  BY <1>1, <1>3, <1>6 DEF TargetBlocks
<1> QED BY <1>1, <1>4, <1>5, <1>6, <1>7, <1>8

\* Blocks beyond what the drive has are not there; the others keep their bytes.
LEMMA ResizedFacts ==
  ASSUME Sizing, NEW n \in Nat
  PROVE  /\ Resized(n) \in Seq(Byte \cup {Stale})
         /\ Len(Resized(n)) \in Nat /\ DOMAIN Resized(n) = 1 .. Len(Resized(n))
         /\ Len(Resized(n)) <= Room
         /\ \A o \in Nat : o < n * BSize /\ o < Room => o < Len(Resized(n))
         /\ \A k \in 1 .. Len(Resized(n)) : k <= Len(bytes) => Resized(n)[k] = bytes[k]
<1>1. PICK c \in Nat, b \in Nat \ {0} : c = Capacity /\ b = BSize
  BY IOAssumption
<1>2. PICK l \in Nat : l = Least(n, c) /\ l <= c /\ (l = n \/ l = c)
  BY DEF Least
<1>3. PICK m \in Nat : m = l * b /\ m <= c * b /\ (m = n * b \/ m = c * b)
  <2>1. l * b \in Nat /\ l * b <= c * b
    BY <1>2
  <2> QED BY <1>2, <2>1
<1>4. Resized(n) = [k \in 1 .. m |-> IF k <= Len(bytes) THEN bytes[k] ELSE Stale]
  BY <1>1, <1>2, <1>3 DEF Resized
<1>5. \A k \in 1 .. m : (IF k <= Len(bytes) THEN bytes[k] ELSE Stale) \in Byte \cup {Stale}
  BY DEF Sizing
<1>6. Resized(n) \in Seq(Byte \cup {Stale}) /\ Len(Resized(n)) = m
  BY <1>4, <1>5
<1>7. n * BSize = n * b /\ Room = c * b
  BY <1>1 DEF Room
<1> QED BY <1>3, <1>4, <1>6, <1>7

LEMMA DataLength ==
  ASSUME NEW data \in Data
  PROVE  /\ Len(data) \in Counts /\ Len(data) \in Nat \ {0}
         /\ \A k \in 1 .. Len(data) : data[k] \in Byte
<1>1. PICK n \in Counts : data \in [1 .. n -> Byte]
  BY DEF Data
<1>2. n \in Nat \ {0}
  BY IOAssumption
<1>3. data \in Seq(Byte) /\ Len(data) = n
  BY <1>1, <1>2
<1> QED BY <1>1, <1>2, <1>3

-----------------------------------------------------------------------------
\* One lemma per handler of FileIO.

LEMMA ResizeInodeKeeps ==
  ASSUME Sizing, Kept, NoWrap, NEW size \in Sizes, ResizeInode(size)
  PROVE  Sizing' /\ Kept'
<1>1. size \in Nat /\ size + BSize <= Wrap
  BY IOAssumption DEF NoWrap
<1>2. PICK n \in Nat : n = TargetBlocks(size) /\ size <= n * BSize
  BY <1>1, BlocksSuffice
<1>3. PICK new : new = Resized(n)
  OBVIOUS
<1>4. /\ new \in Seq(Byte \cup {Stale}) /\ Len(new) <= Room
      /\ \A o \in Nat : o < n * BSize /\ o < Room => o < Len(new)
      /\ \A k \in 1 .. Len(new) : k <= Len(bytes) => new[k] = bytes[k]
  BY <1>3, ResizedFacts
<1>5. ptr' = ptr /\ isize' = size /\ bytes' = new
      /\ written' = [o \in { o \in DOMAIN written : o < size } |-> written[o]]
  BY <1>2, <1>3 DEF ResizeInode
<1>6. Sizing'
  BY <1>1, <1>4, <1>5 DEF Sizing
<1>7. Kept'
  <2> SUFFICES ASSUME NEW o \in DOMAIN written, o < size
               PROVE  o \in Nat /\ o < size /\ o < Len(new) /\ new[o + 1] = written[o]
    BY <1>5 DEF Kept
  <2>1. o \in Nat /\ o < Len(bytes) /\ bytes[o + 1] = written[o]
    BY DEF Kept
  <2>2. PICK m : m = n * BSize /\ m \in Nat /\ size <= m /\ Len(bytes) \in Nat /\ Len(bytes) <= Room /\ Room \in Nat
    BY <1>2, RoomType DEF Sizing
  <2>3. o < m /\ o < Room
    BY <1>1, <2>1, <2>2
  <2>4. o < Len(new)
    BY <1>4, <2>1, <2>2, <2>3
  <2>5. o + 1 \in 1 .. Len(new) /\ o + 1 <= Len(bytes)
    BY <1>4, <2>1, <2>2, <2>4
  <2> QED BY <1>4, <2>1, <2>4, <2>5
<1> QED BY <1>6, <1>7

LEMMA SeekKeeps ==
  ASSUME Sizing, Kept, NEW origin \in {"set", "cur", "end"}, NEW count \in Seeks,
         Seek(origin, count)
  PROVE  Sizing' /\ Kept'
<1>1. count \in Nat /\ Wrap \in Nat \ {0} /\ PtrBound \in Nat /\ ptr \in Nat /\ isize \in Nat
  BY IOAssumption DEF Sizing
<1>2. (ptr + count) % Wrap \in Nat /\ (isize + count) % Wrap \in Nat
  BY <1>1
<1>3. ptr' \in Nat /\ ptr' <= PtrBound
  BY <1>1, <1>2 DEF Seek
<1>4. UNCHANGED <<isize, bytes, written>>
  BY DEF Seek
<1> QED BY <1>3, <1>4 DEF Sizing, Kept

\* Where a write puts its data, and what it leaves.
LEMMA WriteFacts ==
  ASSUME Sizing, Kept, NoWrap, NEW data \in Data, Write(data)
  PROVE  \E done \in 0 .. Len(data), new \in Seq(Byte \cup {Stale}) :
           /\ isize' = Most(isize, ptr + Len(data))
           /\ ptr' = ptr + done /\ (done > 0 => ptr + done <= Len(new))
           /\ Len(new) <= Room
           /\ bytes' = [k \in 1 .. Len(new) |->
                          IF k > ptr /\ k <= ptr + done THEN data[k - ptr] ELSE new[k]]
           /\ written' = [o \in DOMAIN written \cup (ptr .. (ptr + done - 1)) |->
                            IF o + 1 > ptr /\ o + 1 <= ptr + done
                            THEN data[o + 1 - ptr] ELSE written[o]]
           /\ \A o \in DOMAIN written : o < Len(new) /\ new[o + 1] = bytes[o + 1]
<1>1. PICK count \in Nat \ {0} : count = Len(data) /\ count \in Counts
  BY DataLength
<1>2. /\ ptr \in Nat /\ isize \in Nat /\ isize + BSize <= Wrap /\ Wrap \in Nat /\ BSize \in Nat \ {0}
      /\ Room \in Nat /\ PtrBound \in Nat
      /\ Room + count + BSize <= Wrap /\ PtrBound + count + BSize <= Wrap
      /\ (ptr <= PtrBound \/ ptr <= Room)
  BY <1>1, RoomType, IOAssumption DEF Sizing, NoWrap
<1>3. ptr + count + BSize <= Wrap
  BY <1>2
<1>4. (ptr + count) % Wrap = ptr + count
  BY <1>2, <1>3
<1>5. PICK size \in Nat : /\ size = Most(isize, ptr + count)
                          /\ isize <= size /\ ptr + count <= size /\ size + BSize <= Wrap
  BY <1>2, <1>3 DEF Most
<1>6. PICK n \in Nat : n = TargetBlocks(size) /\ size <= n * BSize
  BY <1>5, BlocksSuffice
<1>7. PICK new : new = Resized(n)
  OBVIOUS
<1>8. /\ new \in Seq(Byte \cup {Stale}) /\ Len(new) <= Room /\ Len(new) \in Nat
      /\ DOMAIN new = 1 .. Len(new)
      /\ \A o \in Nat : o < n * BSize /\ o < Room => o < Len(new)
      /\ \A k \in 1 .. Len(new) : k <= Len(bytes) => new[k] = bytes[k]
  BY <1>7, ResizedFacts
<1>9. PICK done : done = IF Throws(n) THEN 0 ELSE Least(count, Most(0, Len(new) - ptr))
  OBVIOUS
<1>10. done \in 0 .. count /\ (done > 0 => ptr + done <= Len(new))
  <2>1. CASE Throws(n)
    BY <1>2, <1>9, <2>1
  <2>2. CASE ~Throws(n)
    BY <1>2, <1>8, <1>9, <2>2, Fits
  <2> QED BY <2>1, <2>2
<1>11. ptr + done < Wrap
  BY <1>2, <1>3, <1>10
<1>12. /\ isize' = size /\ ptr' = (ptr + done) % Wrap
       /\ bytes' = [k \in DOMAIN new |->
                      IF k > ptr /\ k <= ptr + done THEN data[k - ptr] ELSE new[k]]
       /\ written' = [o \in DOMAIN written \cup (ptr .. (ptr + done - 1)) |->
                        IF o + 1 > ptr /\ o + 1 <= ptr + done
                        THEN data[o + 1 - ptr] ELSE written[o]]
  BY <1>1, <1>4, <1>5, <1>6, <1>7, <1>9 DEF Write
<1>13. ptr' = ptr + done
  <2>1. (ptr + done) % Wrap = ptr + done
    BY <1>2, <1>10, <1>11
  <2> QED BY <1>12, <2>1
<1>14. ASSUME NEW o \in DOMAIN written
       PROVE  o < Len(new) /\ new[o + 1] = bytes[o + 1]
  <2>1. o \in Nat /\ o < isize /\ o < Len(bytes)
    BY DEF Kept
  <2>2. PICK m : m = n * BSize /\ m \in Nat /\ size <= m /\ Len(bytes) \in Nat /\ Len(bytes) <= Room
    BY <1>6, <1>2 DEF Sizing
  <2>3. o < m /\ o < Room
    BY <1>2, <1>5, <2>1, <2>2
  <2>4. o < Len(new)
    BY <1>8, <2>1, <2>2, <2>3
  <2>5. o + 1 \in 1 .. Len(new) /\ o + 1 <= Len(bytes)
    BY <1>8, <2>1, <2>2, <2>4
  <2> QED BY <1>8, <2>4, <2>5
<1> QED BY <1>1, <1>5, <1>8, <1>10, <1>12, <1>13, <1>14

LEMMA WriteKeeps ==
  ASSUME Sizing, Kept, NoWrap, NEW data \in Data, Write(data)
  PROVE  Sizing' /\ Kept'
<1>1. PICK count \in Nat \ {0} : /\ count = Len(data) /\ count \in Counts
                                 /\ \A k \in 1 .. count : data[k] \in Byte
  BY DataLength
<1>2. PICK done \in 0 .. count, new \in Seq(Byte \cup {Stale}) :
        /\ isize' = Most(isize, ptr + count)
        /\ ptr' = ptr + done /\ (done > 0 => ptr + done <= Len(new))
        /\ Len(new) <= Room
        /\ bytes' = [k \in 1 .. Len(new) |->
                       IF k > ptr /\ k <= ptr + done THEN data[k - ptr] ELSE new[k]]
        /\ written' = [o \in DOMAIN written \cup (ptr .. (ptr + done - 1)) |->
                         IF o + 1 > ptr /\ o + 1 <= ptr + done
                         THEN data[o + 1 - ptr] ELSE written[o]]
        /\ \A o \in DOMAIN written : o < Len(new) /\ new[o + 1] = bytes[o + 1]
  BY <1>1, WriteFacts
<1>3. PICK l \in Nat : l = Len(new) /\ l <= Room
  BY <1>2
<1>4. /\ ptr \in Nat /\ isize \in Nat /\ isize + BSize <= Wrap /\ Wrap \in Nat /\ BSize \in Nat \ {0}
      /\ Room \in Nat /\ PtrBound \in Nat
      /\ Room + count + BSize <= Wrap /\ PtrBound + count + BSize <= Wrap
      /\ (ptr <= PtrBound \/ ptr <= Room)
  BY <1>1, RoomType, IOAssumption DEF Sizing, NoWrap
<1>5. isize' \in Nat /\ isize' + BSize <= Wrap /\ isize <= isize' /\ ptr + count <= isize'
  BY <1>2, <1>4 DEF Most
<1>6. ptr' \in Nat /\ (ptr' <= PtrBound \/ ptr' <= Room)
  <2>1. CASE done = 0
    BY <1>2, <1>4, <2>1
  <2>2. CASE done > 0
    BY <1>2, <1>3, <1>4, <2>2
  <2> QED BY <1>2, <2>1, <2>2
<1>7. \A k \in 1 .. l : (IF k > ptr /\ k <= ptr + done THEN data[k - ptr] ELSE new[k])
                          \in Byte \cup {Stale}
  <2> SUFFICES ASSUME NEW k \in 1 .. l
               PROVE  (IF k > ptr /\ k <= ptr + done THEN data[k - ptr] ELSE new[k])
                        \in Byte \cup {Stale}
    OBVIOUS
  <2>1. new[k] \in Byte \cup {Stale}
    BY <1>3
  <2>2. k > ptr /\ k <= ptr + done => k - ptr \in 1 .. count
    BY <1>2, <1>4
  <2> QED BY <1>1, <2>1, <2>2
<1>8. bytes' \in Seq(Byte \cup {Stale}) /\ Len(bytes') = l /\ DOMAIN bytes' = 1 .. l
  BY <1>2, <1>3, <1>7
<1>9. Sizing'
  BY <1>3, <1>5, <1>6, <1>8 DEF Sizing
<1>10. Kept'
  <2> SUFFICES ASSUME NEW o \in DOMAIN written \cup (ptr .. (ptr + done - 1))
               PROVE  o \in Nat /\ o < isize' /\ o < l /\ bytes'[o + 1] = written'[o]
    BY <1>2, <1>8 DEF Kept
  <2>1. CASE o \in ptr .. (ptr + done - 1)
    <3>0. ptr \in Nat
      BY <1>4
    <3>1. o \in Nat /\ done > 0 /\ o + 1 > ptr /\ o + 1 <= ptr + done
      BY <2>1, <3>0
    <3>2. ptr + done <= l
      BY <1>2, <1>3, <3>1
    <3>3. o + 1 \in 1 .. l /\ o < l /\ o < isize'
      BY <1>2, <1>3, <1>4, <1>5, <3>1, <3>2
    <3>4. bytes'[o + 1] = data[o + 1 - ptr]
      <4>1. PICK k \in 1 .. l : k = o + 1 /\ k > ptr /\ k <= ptr + done
        BY <3>1, <3>3
      <4>2. bytes'[k] = data[k - ptr]
        BY <1>2, <1>3, <4>1
      <4>3. o + 1 = k /\ o + 1 - ptr = k - ptr
        BY <1>4, <3>1, <4>1
      <4> QED BY <4>2, <4>3
    <3>5. written'[o] = data[o + 1 - ptr]
      BY <1>2, <3>1
    <3> QED BY <3>1, <3>3, <3>4, <3>5
  <2>2. CASE o \notin ptr .. (ptr + done - 1)
    <3>1. o \in DOMAIN written
      BY <2>2
    <3>2. o \in Nat /\ o < isize /\ bytes[o + 1] = written[o]
      BY <3>1 DEF Kept
    <3>3. o < l /\ new[o + 1] = bytes[o + 1]
      BY <1>2, <1>3, <3>1
    <3>4. o + 1 \in 1 .. l /\ ~(o + 1 > ptr /\ o + 1 <= ptr + done) /\ o < isize'
      BY <1>2, <1>3, <1>4, <1>5, <2>2, <3>2, <3>3
    <3> QED BY <1>2, <1>3, <3>2, <3>3, <3>4
  <2> QED BY <2>1, <2>2
<1> QED BY <1>9, <1>10

LEMMA ReadKeeps ==
  ASSUME Sizing, Kept, NEW count \in Counts, Read(count)
  PROVE  Sizing' /\ Kept' /\ ptr <= ptr' /\ UNCHANGED <<isize, bytes, written>>
<1>1. count \in Nat \ {0} /\ ptr \in Nat /\ isize \in Nat /\ Len(bytes) \in Nat
      /\ Len(bytes) <= Room /\ Room \in Nat
  BY IOAssumption, RoomType DEF Sizing
<1>2. UNCHANGED <<isize, bytes, written>>
  BY DEF Read
<1>3. ptr' \in Nat /\ ptr <= ptr' /\ (ptr' = ptr \/ ptr' <= Room)
  <2>1. CASE ptr >= isize
    BY <1>1, <2>1 DEF Read
  <2>2. CASE ptr < isize
    <3>1. PICK real \in Nat : real = Least(count, isize - ptr)
      <4>1. isize - ptr \in Nat
        BY <1>1, <2>2
      <4> QED BY <1>1, <4>1 DEF Least
    <3>2. PICK done \in Nat : /\ done = Least(real, Most(0, Len(bytes) - ptr))
                              /\ done = 0 \/ ptr + done <= Len(bytes)
      <4>1. PICK d : d = Least(real, Most(0, Len(bytes) - ptr))
        OBVIOUS
      <4>2. d \in 0 .. real /\ (d > 0 => ptr + d <= Len(bytes))
        BY <1>1, <4>1, Fits
      <4> QED BY <4>1, <4>2
    <3>3. ptr' = ptr + done
      BY <1>1, <2>2, <3>1, <3>2 DEF Read
    <3> QED BY <1>1, <3>2, <3>3
  <2> QED BY <1>1, <2>1, <2>2
<1> QED BY <1>1, <1>2, <1>3 DEF Sizing, Kept

\* The buffer of a read, short or not: what is returned stands at its end.
LEMMA ReadGets ==
  ASSUME Sizing, Kept, NEW count \in Counts, Read(count)
  PROVE  ReadDelivers'
<1>1. count \in Nat \ {0} /\ ptr \in Nat /\ isize \in Nat /\ Len(bytes) \in Nat
  BY IOAssumption DEF Sizing
<1>2. UNCHANGED <<bytes, written>>
  BY DEF Read
<1>3. CASE got' = NoRead
  BY <1>3 DEF NoRead, ReadDelivers
<1>4. CASE got' # NoRead
  <2>1. ptr < isize
    BY <1>1, <1>4 DEF Read
  <2>2. PICK real \in 1 .. count : real = Least(count, isize - ptr)
    <3>1. PICK ahead \in Nat \ {0} : ahead = isize - ptr
      BY <1>1, <2>1
    <3>2. (IF count < ahead THEN count ELSE ahead) \in 1 .. count
      BY <1>1
    <3>3. Least(count, isize - ptr) = IF count < ahead THEN count ELSE ahead
      BY <3>1 DEF Least
    <3> QED BY <3>2, <3>3
  <2>3. got' = [from |-> ptr, real |-> real, data |-> Filled(count, real)]
    <3>1. PICK done : done = Least(real, Most(0, Len(bytes) - ptr))
      OBVIOUS
    <3>2. got' = IF done < real THEN NoRead
                 ELSE [from |-> ptr, real |-> real, data |-> Filled(count, real)]
      BY <1>1, <2>1, <2>2, <3>1 DEF Read
    <3> QED BY <1>4, <3>2
  <2>4. got'.from = ptr /\ got'.real = real /\ got'.data = Filled(count, real)
    BY <2>3
  <2>5. Len(got'.data) = count
    BY <1>1, <2>4 DEF Filled
  <2>6. ASSUME NEW k \in 1 .. real, ptr + k - 1 \in DOMAIN written
        PROVE  got'.data[count - real + k] = written[ptr + k - 1]
    <3>1. count - real + k \in 1 .. count /\ ~(count - real + k <= count - real)
      BY <1>1, <2>2
    <3>2. Filled(count, real)[count - real + k]
            = ByteAt(ptr + (count - real + k) - 1 - (count - real))
      BY <3>1 DEF Filled
    <3>3. ptr + (count - real + k) - 1 - (count - real) = ptr + k - 1
      BY <1>1, <2>2
    <3>4. bytes[(ptr + k - 1) + 1] = written[ptr + k - 1]
      BY <2>6 DEF Kept
    <3> QED BY <2>4, <3>2, <3>3, <3>4 DEF ByteAt
  <2> QED BY <1>2, <2>4, <2>5, <2>6 DEF ReadDelivers
<1> QED BY <1>3, <1>4

-----------------------------------------------------------------------------
\* The invariant holds at first and after every step of TOS or the core.

LEMMA InitInv == TosInit => FileInv
<1> SUFFICES ASSUME TosInit PROVE FileInv
  OBVIOUS
<1>1. ptr = 0 /\ isize = 0 /\ bytes = <<>> /\ written = Nothing /\ DOMAIN written = {}
  BY DEF TosInit, Init, Nothing
<1>2. Len(bytes) = 0 /\ bytes \in Seq(Byte \cup {Stale})
  BY <1>1
<1>3. BSize <= Wrap
  <2>1. PICK b \in Nat \ {0}, w \in Nat \ {0} : b = BSize /\ w = Wrap /\ w % b = 0
    BY IOAssumption
  <2>2. w < b => w % b = w
    OBVIOUS
  <2> QED BY <2>1, <2>2
<1>4. PtrBound \in Nat /\ 0 <= PtrBound
  BY IOAssumption
<1>5. Sizing
  BY <1>1, <1>2, <1>3, <1>4, RoomType DEF Sizing
<1> QED BY <1>1, <1>5 DEF FileInv, Kept, Behind

LEMMA OpenKeeps ==
  ASSUME FileInv, NEW m \in Modes, Open(m)
  PROVE  FileInv'
<1>1. ptr \in Nat /\ isize \in Nat /\ isize + BSize <= Wrap /\ PtrBound \in Nat
      /\ Wrap \in Nat /\ BSize \in Nat \ {0}
  BY IOAssumption DEF FileInv, Sizing
<1>2. mode' = m /\ ~moved' /\ ptr' = Begins(m) /\ ptr' <= PtrBound
  BY DEF Open
<1>3. ptr' \in Nat /\ (Appends(m) => ptr' = isize)
  BY <1>1, <1>2 DEF Begins
<1>4. CASE Exist(m) \/ Appends(m)
  <2>1. UNCHANGED <<isize, bytes, written>>
    BY <1>4 DEF Open
  <2>2. Sizing' /\ Kept'
    BY <1>2, <1>3, <2>1 DEF FileInv, Sizing, Kept
  <2>3. Behind'
    BY <1>2, <1>3, <2>1 DEF FileInv, Kept, Behind
  <2> QED BY <2>2, <2>3 DEF FileInv
<1>5. CASE ~(Exist(m) \/ Appends(m))
  <2>1. isize' = 0 /\ bytes' = Resized(0) /\ DOMAIN written' = {}
    BY <1>5 DEF Open, Nothing
  <2>2. bytes' \in Seq(Byte \cup {Stale}) /\ Len(bytes') <= Room
    BY <2>1, ResizedFacts DEF FileInv
  <2>3. Sizing'
    BY <1>1, <1>2, <1>3, <2>1, <2>2 DEF Sizing
  <2> QED BY <2>1, <2>3 DEF FileInv, Kept, Behind
<1> QED BY <1>4, <1>5

\* A handler of TOS that neither opens nor seeks keeps the append's promise.
LEMMA ReadKeepsInv ==
  ASSUME FileInv, NEW count \in Counts, Read(count), UNCHANGED tosVars
  PROVE  FileInv'
<1>1. Sizing' /\ Kept' /\ ptr <= ptr' /\ UNCHANGED <<isize, bytes, written>>
  BY ReadKeeps DEF FileInv
<1>2. mode' = mode /\ moved' = moved
  BY DEF tosVars
<1>3. Behind'
  <2> SUFFICES ASSUME Appends(mode), ~moved, NEW o \in DOMAIN written PROVE o < ptr'
    BY <1>1, <1>2 DEF Behind
  <2>1. o < ptr /\ o \in Nat
    BY DEF FileInv, Behind, Kept
  <2>2. ptr \in Nat /\ ptr' \in Nat
    BY <1>1 DEF FileInv, Sizing
  <2> QED BY <1>1, <2>1, <2>2
<1> QED BY <1>1, <1>3 DEF FileInv

LEMMA WriteKeepsInv ==
  ASSUME FileInv, NoWrap, NEW data \in Data, Write(data), UNCHANGED tosVars
  PROVE  FileInv'
<1>1. Sizing' /\ Kept'
  BY WriteKeeps DEF FileInv
<1>2. mode' = mode /\ moved' = moved
  BY DEF tosVars
<1>3. PICK done \in Nat : ptr' = ptr + done /\ DOMAIN written' = DOMAIN written \cup (ptr .. (ptr + done - 1))
  <2>1. Len(data) \in Nat
    BY DataLength
  <2>2. \E done \in 0 .. Len(data) : ptr' = ptr + done
             /\ DOMAIN written' = DOMAIN written \cup (ptr .. (ptr + done - 1))
    BY WriteFacts DEF FileInv
  <2> QED BY <2>1, <2>2
<1>4. Behind'
  <2> SUFFICES ASSUME Appends(mode), ~moved, NEW o \in DOMAIN written' PROVE o < ptr'
    BY <1>2 DEF Behind
  <2>1. ptr \in Nat
    BY DEF FileInv, Sizing
  <2>2. CASE o \in DOMAIN written
    <3>1. o < ptr /\ o \in Nat
      BY <2>2 DEF FileInv, Behind, Kept
    <3> QED BY <1>3, <2>1, <3>1
  <2>3. CASE o \in ptr .. (ptr + done - 1)
    BY <1>3, <2>1, <2>3
  <2> QED BY <1>3, <2>2, <2>3
<1> QED BY <1>1, <1>4 DEF FileInv

LEMMA NextKeeps ==
  ASSUME FileInv, NoWrap, TosNext
  PROVE  FileInv'
<1>1. ASSUME NEW m \in Modes, Open(m) PROVE FileInv'
  BY <1>1, OpenKeeps
<1>2. CASE Close
  <2>1. ptr' = 0 /\ mode' = "none" /\ UNCHANGED <<isize, bytes, written>>
    BY <1>2 DEF Close
  <2>2. ~Appends(mode') /\ PtrBound \in Nat
    BY <2>1, IOAssumption DEF Appends
  <2> QED BY <2>1, <2>2 DEF FileInv, Sizing, Kept, Behind
<1>3. ASSUME NEW count \in Counts, TosRead(count) \/ Core(Read(count)) PROVE FileInv'
  BY <1>3, ReadKeepsInv DEF TosRead, Core
<1>4. ASSUME NEW data \in Data, TosWrite(data) \/ Core(Write(data)) PROVE FileInv'
  BY <1>4, WriteKeepsInv DEF TosWrite, Core
<1>5. ASSUME NEW origin \in {"set", "cur", "end"}, NEW count \in Seeks,
             TosSeek(origin, count) \/ Core(Seek(origin, count))
      PROVE  FileInv'
  <2>1. Sizing' /\ Kept'
    BY <1>5, SeekKeeps DEF TosSeek, Core, FileInv
  <2>2. moved' \/ mode' = "core"
    BY <1>5 DEF TosSeek, Core, tosVars
  <2>3. Behind'
    BY <2>2 DEF Behind, Appends
  <2> QED BY <2>1, <2>3 DEF FileInv
<1>6. ASSUME NEW size \in Sizes, Core(ResizeInode(size)) PROVE FileInv'
  <2>1. Sizing' /\ Kept'
    BY <1>6, ResizeInodeKeeps DEF Core, FileInv
  <2>2. mode' = "core"
    BY <1>6 DEF Core, tosVars
  <2>3. Behind'
    BY <2>2 DEF Behind, Appends
  <2> QED BY <2>1, <2>3 DEF FileInv
<1> QED BY <1>1, <1>2, <1>3, <1>4, <1>5, <1>6 DEF TosNext

LEMMA StutterKeeps == FileInv /\ UNCHANGED allVars => FileInv'
  BY DEF FileInv, Sizing, Kept, Behind, allVars, vars, tosVars

\* What a file of any size holds, under any calls of any number of blocks:
\* the drive may fill, the pointer may be anywhere, i_size may be ahead of
\* the blocks.
THEOREM FileInvAlways == ASSUME NoWrap PROVE TosSpec => []FileInv
<1>1. FileInv /\ [TosNext]_allVars => FileInv'
  BY NextKeeps, StutterKeeps
<1> QED BY <1>1, InitInv, PTL DEF TosSpec

\* A byte that was written stays, at its offset and with its value, until it
\* is overwritten or cut off.
THEOREM WrittenStaysAlways == ASSUME NoWrap PROVE TosSpec => []WrittenStays
<1>1. FileInv => WrittenStays
  BY DEF FileInv, Kept, WrittenStays, ByteAt
<1> QED BY <1>1, FileInvAlways, PTL

\* A read returns, at the end of its buffer, what was written from the file pointer
\* on, a read of more than the file has left included.
THEOREM ReadDeliversAlways == ASSUME NoWrap PROVE TosSpec => []ReadDelivers
<1>1. TosInit => ReadDelivers
  BY DEF TosInit, Init, NoRead, ReadDelivers
<1>2. FileInv /\ ReadDelivers /\ [TosNext]_allVars => ReadDelivers'
  <2> SUFFICES ASSUME FileInv, ReadDelivers, [TosNext]_allVars PROVE ReadDelivers'
    OBVIOUS
  <2>1. ASSUME NEW count \in Counts, Read(count) PROVE ReadDelivers'
    BY <2>1, ReadGets DEF FileInv
  <2>2. ASSUME got' = NoRead PROVE ReadDelivers'
    BY <2>2 DEF NoRead, ReadDelivers
  <2>3. CASE UNCHANGED allVars
    BY <2>3 DEF ReadDelivers, allVars, vars
  <2>4. CASE TosNext
    <3>1. ASSUME NEW m \in Modes, Open(m) PROVE got' = NoRead
      BY <3>1 DEF Open
    <3>2. Close => got' = NoRead
      BY DEF Close
    <3>3. ASSUME NEW data \in Data, Write(data) PROVE got' = NoRead
      BY <3>3 DEF Write
    <3>4. ASSUME NEW origin \in {"set", "cur", "end"}, NEW count \in Seeks, Seek(origin, count)
          PROVE  got' = NoRead
      BY <3>4 DEF Seek
    <3>5. ASSUME NEW size \in Sizes, ResizeInode(size) PROVE got' = NoRead
      BY <3>5 DEF ResizeInode
    <3> QED BY <2>1, <2>2, <2>4, <3>1, <3>2, <3>3, <3>4, <3>5
         DEF TosNext, TosRead, TosWrite, TosSeek, Core
  <2> QED BY <2>3, <2>4
<1> QED BY <1>1, <1>2, FileInvAlways, PTL DEF TosSpec

\* A file changes only as the mode it was opened with says.
THEOREM ChangesAsOpenedAlways == ASSUME NoWrap PROVE TosSpec => ChangesAsOpened
<1> DEFINE Change ==
       mode' = mode =>
         /\ mode = "r"  => UNCHANGED <<isize, bytes, written>>
         /\ mode = "r+" => UNCHANGED isize
         /\ Appends(mode) /\ ~moved =>
              \A o \in DOMAIN written : o \in DOMAIN written' /\ written'[o] = written[o]
<1>1. FileInv /\ [TosNext]_allVars => Change \/ UNCHANGED allVars
  <2> SUFFICES ASSUME FileInv, [TosNext]_allVars PROVE Change \/ UNCHANGED allVars
    OBVIOUS
  <2>1. ASSUME NEW m \in Modes, Open(m) PROVE Change
    BY <2>1 DEF Open, Modes
  <2>2. CASE Close
    BY <2>2 DEF Close, Modes
  <2>3. ASSUME NEW count \in Counts, Read(count) PROVE Change
    BY <2>3 DEF Read
  <2>4. ASSUME NEW data \in Data, TosWrite(data) PROVE Change
    <3>1. mode # "r" /\ (mode = "r+" => (ptr + Len(data)) % Wrap <= isize) /\ Write(data)
      BY <2>4 DEF TosWrite, Writes, Extends, Modes
    <3>2. mode = "r+" => isize' = isize
      <4>1. isize \in Nat /\ (ptr + Len(data)) % Wrap \in Int
        <5>1. Len(data) \in Nat /\ ptr \in Nat /\ isize \in Nat /\ Wrap \in Nat \ {0}
          BY DataLength, IOAssumption DEF FileInv, Sizing
        <5> QED BY <5>1
      <4>2. isize' = Most(isize, (ptr + Len(data)) % Wrap)
        BY <3>1 DEF Write
      <4> QED BY <3>1, <4>1, <4>2 DEF Most
    <3>3. ASSUME Appends(mode), ~moved, NEW o \in DOMAIN written
          PROVE  o \in DOMAIN written' /\ written'[o] = written[o]
      <4>1. o < ptr /\ o \in Nat /\ ptr \in Nat
        BY <3>3 DEF FileInv, Behind, Kept, Sizing
      <4>2. PICK done \in 0 .. Len(data) :
              written' = [x \in DOMAIN written \cup (ptr .. (ptr + done - 1)) |->
                            IF x + 1 > ptr /\ x + 1 <= ptr + done
                            THEN data[x + 1 - ptr] ELSE written[x]]
        BY <3>1, WriteFacts DEF FileInv
      <4>3. done \in Int
        BY DataLength
      <4> QED BY <4>1, <4>2, <4>3
    <3> QED BY <3>1, <3>2, <3>3
  <2>5. ASSUME NEW origin \in {"set", "cur", "end"}, NEW count \in Seeks, Seek(origin, count)
        PROVE  Change
    BY <2>5 DEF Seek
  <2>6. ASSUME mode = "core" PROVE Change
    BY <2>6 DEF Appends
  <2>7. CASE TosNext
    BY <2>1, <2>2, <2>3, <2>4, <2>5, <2>6, <2>7 DEF TosNext, TosRead, TosSeek, Core
  <2> QED BY <2>7
<1> QED BY <1>1, FileInvAlways, PTL DEF TosSpec, ChangesAsOpened

-----------------------------------------------------------------------------
(***************************************************************************)
(* The clusters under it: Fileblock, for inodes, drives and allocators of  *)
(* any size.                                                               *)
(***************************************************************************)

\* Files that end inside the first child of level 2.  Beyond it a resize that
\* shrinks and grows again follows an address of a cluster given back.
WithinFirstChild == \A f \in File : MaxSize[f] <= Direct + ACount + ACount

\* The roles a cluster can have: Use, the cluster about to be set, and what
\* a step of the running resize has made and i_fsize does not count yet.
Role == File \X {"data", "top", "child", "addr"} \X Nat

Setting == {"set", "top", "child"}

IsTaken(u, size, p, f) ==
  \/ u[2] = "data" /\ u[3] < size[u[1]]
  \/ /\ u[2] = "top" /\ u[3] \in {1, 2}
     /\ size[u[1]] > First(u[3]) \/ (u[1] = f /\ p \in {"top", "child"} /\ Level(size[f]) = u[3])
  \/ u[2] = "child" /\ u[3] = 0 /\ (size[u[1]] > First(2) \/ (u[1] = f /\ p = "child"))
  \/ u[2] = "addr" /\ u[3] = 0 /\ u[1] = f /\ p \in Setting

Taken == { u \in Role : IsTaken(u, fsize, pc, cur) }

Kid(f) == IF pc = "child" /\ cur = f THEN child ELSE content[Top(f, 2)][0]

Holder(u) ==
  CASE u[2] = "data"  -> given[u[1]][u[3]]
    [] u[2] = "top"   -> Top(u[1], u[3])
    [] u[2] = "child" -> Kid(u[1])
    [] u[2] = "addr"  -> addr

Holders == [u \in Taken |-> Holder(u)]

\* A cluster has one role, or is free, or was dropped.
Sound(own, fr, lo) ==
  /\ \A u, v \in DOMAIN own : own[u] = own[v] => u = v
  /\ \A u \in DOMAIN own : own[u] \in Cluster /\ own[u] \notin fr /\ own[u] \notin lo
  /\ fr \subseteq Cluster /\ lo \subseteq Cluster /\ fr \cap lo = {}
  /\ \A c \in Cluster : c \in fr \/ c \in lo \/ \E u \in DOMAIN own : own[u] = c

\* The running resize.
Job ==
  /\ pc = "shrink" => left \in 1 .. fsize[cur]
  /\ pc = "extend" \/ pc \in Setting => left >= 1 /\ fsize[cur] + left <= MaxSize[cur]
  /\ pc \notin Setting => addr = Zero
  /\ pc = "top" => Lv > 0 /\ Index = First(Lv)
  /\ pc = "child" => Lv = 2

\* What was given for an index is where the index leads.
Placed ==
  \A f \in File :
    /\ \A i \in 0 .. (fsize[f] - 1) :
         /\ i < First(1) => blocks[f][i] = given[f][i]
         /\ i >= First(1) /\ i < First(2) => content[Top(f, 1)][i - First(1)] = given[f][i]
         /\ i >= First(2) => content[Kid(f)][i - First(2)] = given[f][i]
    /\ fsize[f] > First(2) => content[Top(f, 2)][0] = Kid(f)

\* A top that was just made lists nothing.
Fresh == pc = "top" /\ Lv = 2 => content[Top(cur, 2)][0] = Zero

BlockInv ==
  BlockTypeOK /\ Job /\ Placed /\ Fresh /\ Sound(Holders, free, lost)

-----------------------------------------------------------------------------
\* Levels.

LEMMA Numbers ==
  /\ Direct \in Nat /\ ACount \in Nat /\ ACount > 0
  /\ First(1) = Direct /\ First(2) = Direct + ACount
  /\ \A f \in File : MaxSize[f] \in Nat
  /\ Zero \notin Cluster /\ IsFiniteSet(Cluster)
  /\ \A i \in Nat : /\ i < Direct <=> Level(i) = 0
                    /\ i >= Direct /\ i < Direct + ACount <=> Level(i) = 1
                    /\ i >= Direct + ACount <=> Level(i) = 2
                    /\ Level(i) \in {0, 1, 2}
<1>1. Direct \in Nat /\ ACount \in Nat /\ ACount > 0
  BY BlockAssumption
<1>2. \A f \in File : MaxSize[f] \in Nat
  <2>1. Direct + ACount + ACount * ACount \in Int
    <3>1. PICK d \in Nat, a \in Nat : d = Direct /\ a = ACount
      BY <1>1
    <3> QED BY <3>1
  <2>2. \A f \in File : MaxSize[f] \in 0 .. (Direct + ACount + ACount * ACount)
    BY BlockAssumption
  <2> QED BY <2>1, <2>2
<1>3. First(1) = Direct /\ First(2) = Direct + ACount
  BY DEF First
<1>4. \A i \in Nat : /\ i < Direct <=> Level(i) = 0
                     /\ i >= Direct /\ i < Direct + ACount <=> Level(i) = 1
                     /\ i >= Direct + ACount <=> Level(i) = 2
                     /\ Level(i) \in {0, 1, 2}
  BY <1>1 DEF Level
<1> QED BY <1>1, <1>2, <1>3, <1>4, BlockAssumption

\* Inside the first child the outer index is 0.
LEMMA FirstChild ==
  ASSUME NEW i \in Nat, i >= Direct + ACount, i < Direct + ACount + ACount
  PROVE  Outer(i) = 0 /\ Inner(i) = i - First(2) /\ Inner(i) \in Slot
<1>1. PICK a \in Nat : a = ACount /\ a > 0
  BY Numbers
<1>2. PICK x \in Nat : x = i - (Direct + a) /\ x < a
  BY <1>1, Numbers
<1>3. x \div a = 0 /\ x % a = x
  <2>1. x = a * (x \div a) + (x % a) /\ x % a \in 0 .. (a - 1)
    BY <1>1
  <2>2. PICK q \in Int : q = x \div a
    BY <1>1
  <2>3. q >= 1 => a * q >= a
    BY <1>1
  <2>4. q <= -1 => a * q <= -a
    BY <1>1
  <2>5. PICK r \in 0 .. (a - 1) : r = x % a
    BY <2>1
  <2>6. x = a * q + r
    BY <2>1, <2>2, <2>5
  <2>7. q = 0
    BY <1>1, <1>2, <2>3, <2>4, <2>5, <2>6
  <2>8. a * q = 0
    BY <1>1, <2>7
  <2> QED BY <2>2, <2>5, <2>6, <2>7, <2>8
<1>4. Outer(i) = x \div a /\ Inner(i) = x % a /\ x = i - First(2)
  BY <1>1, <1>2, Numbers DEF Outer, Inner
<1> QED BY <1>1, <1>2, <1>3, <1>4 DEF Slot

-----------------------------------------------------------------------------
\* What may become of roles.

\* A free cluster gets a new role.
LEMMA SoundTake ==
  ASSUME NEW own, NEW own2, NEW fr, NEW lo, NEW c, NEW r, Sound(own, fr, lo),
         c \in fr, r \notin DOMAIN own, DOMAIN own2 = DOMAIN own \cup {r},
         \A u \in DOMAIN own : own2[u] = own[u],
         own2[r] = c
  PROVE  Sound(own2, fr \ {c}, lo)
  BY DEF Sound

\* A cluster changes its role.
LEMMA SoundMove ==
  ASSUME NEW own, NEW own2, NEW fr, NEW lo, NEW q, NEW r, Sound(own, fr, lo),
         q \in DOMAIN own, r \notin DOMAIN own,
         DOMAIN own2 = (DOMAIN own \ {q}) \cup {r},
         \A u \in DOMAIN own \ {q} : own2[u] = own[u],
         own2[r] = own[q]
  PROVE  Sound(own2, fr, lo)
  BY DEF Sound

\* Roles end, and their clusters are free.
LEMMA SoundFree ==
  ASSUME NEW own, NEW own2, NEW fr, NEW lo, NEW R, Sound(own, fr, lo),
         R \subseteq DOMAIN own, DOMAIN own2 = DOMAIN own \ R,
         \A u \in DOMAIN own \ R : own2[u] = own[u]
  PROVE  Sound(own2, fr \cup { own[u] : u \in R }, lo)
  BY DEF Sound

\* Roles end, and their clusters are dropped.
LEMMA SoundDrop ==
  ASSUME NEW own, NEW own2, NEW fr, NEW lo, NEW R, Sound(own, fr, lo),
         R \subseteq DOMAIN own, DOMAIN own2 = DOMAIN own \ R,
         \A u \in DOMAIN own \ R : own2[u] = own[u]
  PROVE  Sound(own2, fr, lo \cup { own[u] : u \in R })
  BY DEF Sound

\* A role as it is read.
LEMMA TakenFacts ==
  ASSUME NEW size, NEW p, NEW f, NEW u \in Role, IsTaken(u, size, p, f)
  PROVE  \E g \in File, n \in Nat :
           \/ u = <<g, "data", n>> /\ n < size[g]
           \/ /\ u = <<g, "top", n>> /\ n \in {1, 2}
              /\ size[g] > First(n) \/ (g = f /\ p \in {"top", "child"} /\ Level(size[f]) = n)
           \/ u = <<g, "child", 0>> /\ (size[g] > First(2) \/ (g = f /\ p = "child"))
           \/ u = <<g, "addr", 0>> /\ g = f /\ p \in Setting
  BY DEF IsTaken, Role, Setting

LEMMA HoldersFacts ==
  /\ DOMAIN Holders = Taken
  /\ \A f \in File :
       /\ \A i \in Nat : i < fsize[f] =>
            <<f, "data", i>> \in Taken /\ Holders[<<f, "data", i>>] = given[f][i]
       /\ fsize[f] > First(2) \/ (f = cur /\ pc = "child") =>
            <<f, "child", 0>> \in Taken /\ Holders[<<f, "child", 0>>] = Kid(f)
       /\ f = cur /\ pc \in Setting =>
            <<f, "addr", 0>> \in Taken /\ Holders[<<f, "addr", 0>>] = addr
<1>1. DOMAIN Holders = Taken /\ \A u \in Taken : Holders[u] = Holder(u)
  BY DEF Holders
<1>2. ASSUME NEW f \in File
      PROVE  /\ \A i \in Nat : <<f, "data", i>> \in Role /\ Holder(<<f, "data", i>>) = given[f][i]
             /\ <<f, "child", 0>> \in Role /\ Holder(<<f, "child", 0>>) = Kid(f)
             /\ <<f, "addr", 0>> \in Role /\ Holder(<<f, "addr", 0>>) = addr
  BY DEF Role, Holder
<1>3. ASSUME NEW f \in File, NEW i \in Nat, i < fsize[f]
      PROVE  <<f, "data", i>> \in Taken
  BY <1>2, <1>3 DEF Taken, IsTaken
<1>5. ASSUME NEW f \in File, fsize[f] > First(2) \/ (f = cur /\ pc = "child")
      PROVE  <<f, "child", 0>> \in Taken
  BY <1>2, <1>5 DEF Taken, IsTaken
<1>6. ASSUME NEW f \in File, f = cur /\ pc \in Setting
      PROVE  <<f, "addr", 0>> \in Taken
  BY <1>2, <1>6 DEF Taken, IsTaken
<1> QED BY <1>1, <1>2, <1>3, <1>5, <1>6

LEMMA HoldersTop ==
  ASSUME NEW f \in File, NEW l \in {1, 2},
         fsize[f] > First(l) \/ (f = cur /\ pc \in {"top", "child"} /\ Lv = l)
  PROVE  <<f, "top", l>> \in Taken /\ Holders[<<f, "top", l>>] = Top(f, l)
<1>1. PICK u : u = <<f, "top", l>>
  OBVIOUS
<1>2. u \in Role /\ u[1] = f /\ u[2] = "top" /\ u[3] = l
  BY <1>1 DEF Role
<1>3. u \in Taken
  BY <1>2 DEF Taken, IsTaken, Lv, Index
<1>4. Holders[u] = Top(f, l)
  BY <1>2, <1>3 DEF Holders, Holder
<1> QED BY <1>1, <1>3, <1>4

-----------------------------------------------------------------------------
\* What the invariant says of the clusters that have a role.

LEMMA HeldFacts ==
  ASSUME BlockInv
  PROVE  /\ \A f \in File, i \in Nat : i < fsize[f] => given[f][i] \in Cluster \ free
         /\ \A f \in File, l \in {1, 2} :
              fsize[f] > First(l) \/ (f = cur /\ pc \in {"top", "child"} /\ Lv = l) =>
                Top(f, l) \in Cluster \ free
         /\ \A f \in File :
              fsize[f] > First(2) \/ (f = cur /\ pc = "child") => Kid(f) \in Cluster \ free
         /\ pc \in Setting => addr \in Cluster \ free
<1>1. \A u \in Taken : Holders[u] \in Cluster \ free
  BY HoldersFacts DEF BlockInv, Sound
<1>2. cur \in File
  BY DEF BlockInv, BlockTypeOK
<1>3. ASSUME NEW f \in File, NEW i \in Nat, i < fsize[f]
      PROVE  given[f][i] \in Cluster \ free
  BY <1>1, <1>3, HoldersFacts
<1>4. ASSUME NEW f \in File, NEW l \in {1, 2},
             fsize[f] > First(l) \/ (f = cur /\ pc \in {"top", "child"} /\ Lv = l)
      PROVE  Top(f, l) \in Cluster \ free
  BY <1>1, <1>4, HoldersTop
<1>5. ASSUME NEW f \in File, fsize[f] > First(2) \/ (f = cur /\ pc = "child")
      PROVE  Kid(f) \in Cluster \ free
  BY <1>1, <1>5, HoldersFacts
<1>6. pc \in Setting => addr \in Cluster \ free
  BY <1>1, <1>2, HoldersFacts
<1> QED BY <1>3, <1>4, <1>5, <1>6

LEMMA AllocateDataKeeps ==
  ASSUME BlockInv, AllocateData
  PROVE  BlockInv'
<1>1. PICK c \in Offer(free) : addr' = c /\ free' = free \ {c}
  BY DEF AllocateData
<1>2. c \in free /\ c \in Cluster
  BY OfferAssumption DEF BlockInv, BlockTypeOK
<1>3. pc = "extend" /\ pc' = "set" /\ UNCHANGED <<content, fsize, blocks, cur, left, child, given, lost>>
  BY DEF AllocateData, inodes
<1>4. PICK r : r = <<cur, "addr", 0>>
  OBVIOUS
<1>5. cur \in File
  BY DEF BlockInv, BlockTypeOK
<1>6. Taken' = Taken \cup {r} /\ r \notin Taken
  BY <1>3, <1>4, <1>5 DEF Taken, IsTaken, Role, Setting
<1>7. \A f \in File : Top(f, 1)' = Top(f, 1) /\ Top(f, 2)' = Top(f, 2) /\ Kid(f)' = Kid(f)
  BY <1>3 DEF Top, Kid
<1>8. \A u \in Taken : Holders'[u] = Holders[u]
  <2> SUFFICES ASSUME NEW u \in Taken PROVE Holders'[u] = Holders[u]
    OBVIOUS
  <2>1. Holders'[u] = Holder(u)' /\ Holders[u] = Holder(u)
    BY <1>6 DEF Holders
  <2>2. u \in Role /\ u[2] # "addr"
    BY <1>3 DEF Taken, IsTaken, Setting
  <2>3. Holder(u)' = Holder(u)
    BY <1>3, <1>7, <2>2 DEF Holder, Role, Top
  <2> QED BY <2>1, <2>3
<1>9. Holders'[r] = c
  <2>1. Holders'[r] = Holder(r)'
    BY <1>6 DEF Holders
  <2> QED BY <1>1, <1>4, <2>1 DEF Holder
<1>10. Sound(Holders', free', lost')
  <2>1. DOMAIN Holders' = Taken' /\ DOMAIN Holders = Taken
    BY DEF Holders
  <2>2. Sound(Holders, free, lost)
    BY DEF BlockInv
  <2>3. Sound(Holders', free \ {c}, lost)
    BY <1>2, <1>6, <1>8, <1>9, <2>1, <2>2, SoundTake
  <2> QED BY <1>1, <1>3, <2>3
<1>11. BlockTypeOK'
  BY <1>1, <1>2, <1>3 DEF BlockInv, BlockTypeOK, Address
<1>12. Job' /\ Fresh'
  BY <1>3 DEF BlockInv, Job, Fresh, Setting
<1>13. Placed'
  BY <1>3, <1>7 DEF BlockInv, Placed
<1> QED BY <1>10, <1>11, <1>12, <1>13 DEF BlockInv

LEMMA AllocateTopKeeps ==
  ASSUME BlockInv, AllocateTop
  PROVE  BlockInv'
<1>1. PICK c \in Offer(free) : /\ free' = free \ {c}
                               /\ content' = [content EXCEPT ![c] = Blank]
                               /\ blocks' = [blocks EXCEPT ![cur][Direct + Lv - 1] = c]
  BY DEF AllocateTop
<1>2. c \in free /\ c \in Cluster
  BY OfferAssumption DEF BlockInv, BlockTypeOK
<1>3. pc = "set" /\ pc' = "top" /\ UNCHANGED <<fsize, cur, left, addr, child, given, lost>>
  BY DEF AllocateTop, NeedsTop
<1>4. cur \in File /\ fsize[cur] \in Nat /\ Index = fsize[cur] /\ Index' = Index /\ Lv' = Lv
      /\ Lv \in {1, 2} /\ Index <= First(Lv) /\ Lv = Level(fsize[cur])
  BY <1>3, Numbers DEF BlockInv, BlockTypeOK, AllocateTop, NeedsTop, Lv, Index
<1>5. /\ Index = First(Lv)
      /\ Lv = 1 => fsize[cur] = First(1)
      /\ Lv = 2 => fsize[cur] = First(2)
      /\ First(1) \in Nat /\ First(2) \in Nat /\ First(1) < First(2)
  <2>1. Lv = 1 => fsize[cur] >= First(1)
    BY <1>4, Numbers
  <2>2. Lv = 2 => fsize[cur] >= First(2)
    BY <1>4, Numbers
  <2>3. First(1) \in Nat /\ First(2) \in Nat /\ First(1) < First(2)
    BY Numbers
  <2> QED BY <1>4, <2>1, <2>2, <2>3
<1>6. PICK r : r = <<cur, "top", Lv>>
  OBVIOUS
<1>7. Taken' = Taken \cup {r} /\ r \notin Taken
  <2>1. r \in Role /\ IsTaken(r, fsize', pc', cur') /\ ~IsTaken(r, fsize, pc, cur)
    <3>1. r \in Role /\ r[1] = cur /\ r[2] = "top" /\ r[3] = Lv
      BY <1>4, <1>6 DEF Role
    <3>2. IsTaken(r, fsize', pc', cur')
      BY <1>3, <1>4, <3>1 DEF IsTaken
    <3>3. ~(fsize[cur] > First(Lv))
      BY <1>4, <1>5
    <3>4. ~IsTaken(r, fsize, pc, cur)
      BY <1>3, <3>1, <3>3 DEF IsTaken
    <3> QED BY <3>1, <3>2, <3>4
  <2>2. ASSUME NEW u \in Role, u # r
        PROVE  IsTaken(u, fsize', pc', cur') <=> IsTaken(u, fsize, pc, cur)
    BY <1>3, <1>4, <1>6, <2>2 DEF IsTaken, Role, Setting
  <2> QED BY <2>1, <2>2 DEF Taken
<1>8. Direct \in Nat /\ blocks \in [File -> [0 .. (Direct + 1) -> Address]]
      /\ content \in [Cluster -> [Slot -> Address \cup {Text}]]
  BY Numbers DEF BlockInv, BlockTypeOK
<1>9. \A f \in File : \A b \in 0 .. (Direct + 1) :
        blocks'[f][b] = IF f = cur /\ b = Direct + Lv - 1 THEN c ELSE blocks[f][b]
  BY <1>1, <1>4, <1>8
<1>10. \A d \in Cluster : content'[d] = IF d = c THEN Blank ELSE content[d]
  BY <1>1, <1>8
<1>11. \A f \in File, l \in {1, 2} : Top(f, l)' = IF f = cur /\ l = Lv THEN c ELSE Top(f, l)
  BY <1>4, <1>8, <1>9 DEF Top
<1>12. \A f \in File : fsize[f] > First(2) => Kid(f)' = Kid(f) /\ Top(f, 2)' = Top(f, 2)
  <2> SUFFICES ASSUME NEW f \in File, fsize[f] > First(2)
               PROVE  Kid(f)' = Kid(f) /\ Top(f, 2)' = Top(f, 2)
    OBVIOUS
  <2>1. Top(f, 2)' = Top(f, 2)
    <3>1. f = cur => fsize[cur] > First(2)
      OBVIOUS
    <3>2. ~(f = cur /\ Lv = 2)
      BY <1>4, <1>5, <3>1
    <3> QED BY <1>11, <3>2
  <2>2. Top(f, 2) \in Cluster /\ Top(f, 2) # c
    BY <1>2, HeldFacts
  <2> QED BY <1>3, <1>10, <2>1, <2>2 DEF Kid
<1>13. \A u \in Taken : Holders'[u] = Holders[u]
  <2> SUFFICES ASSUME NEW u \in Taken PROVE Holders'[u] = Holders[u]
    OBVIOUS
  <2>1. Holders'[u] = Holder(u)' /\ Holders[u] = Holder(u)
    BY <1>7 DEF Holders
  <2>2. u \in Role /\ u # r /\ (u[2] = "child" => fsize[u[1]] > First(2))
        /\ (u[2] = "top" => u[3] \in {1, 2})
    BY <1>3, <1>7 DEF Taken, IsTaken
  <2>3. u[2] = "top" => ~(u[1] = cur /\ u[3] = Lv)
    BY <1>6, <2>2 DEF Role
  <2>4. u[2] = "top" => Top(u[1], u[3])' = Top(u[1], u[3])
    BY <1>11, <2>2, <2>3 DEF Role
  <2>5. Holder(u)' = Holder(u)
    BY <1>3, <1>12, <2>2, <2>4 DEF Holder, Role, Top
  <2> QED BY <2>1, <2>5
<1>14. Holders'[r] = c
  <2>1. Holders'[r] = Holder(r)'
    BY <1>7 DEF Holders
  <2> QED BY <1>4, <1>6, <1>11, <2>1 DEF Holder, Top
<1>15. Sound(Holders', free', lost')
  <2>1. DOMAIN Holders' = Taken' /\ DOMAIN Holders = Taken
    BY DEF Holders
  <2>2. Sound(Holders, free, lost)
    BY DEF BlockInv
  <2>3. Sound(Holders', free \ {c}, lost)
    BY <1>2, <1>7, <1>13, <1>14, <2>1, <2>2, SoundTake
  <2> QED BY <1>1, <1>3, <2>3
<1>16. BlockTypeOK'
  <2>1. Blank \in [Slot -> Address \cup {Text}]
    BY DEF Blank, Address
  <2>2. content' \in [Cluster -> [Slot -> Address \cup {Text}]]
    BY <1>1, <1>8, <2>1
  <2>3. blocks' \in [File -> [0 .. (Direct + 1) -> Address]]
    BY <1>1, <1>2, <1>8 DEF Address
  <2> QED BY <1>1, <1>2, <1>3, <2>2, <2>3 DEF BlockInv, BlockTypeOK
<1>17. Job'
  BY <1>3, <1>4, <1>5, Numbers DEF BlockInv, Job, Setting
<1>18. Placed'
  <2> SUFFICES ASSUME NEW f \in File, NEW i \in 0 .. (fsize[f] - 1)
               PROVE  /\ i < First(1) => blocks'[f][i] = given[f][i]
                      /\ i >= First(1) /\ i < First(2) => content'[Top(f, 1)'][i - First(1)] = given[f][i]
                      /\ i >= First(2) => content'[Kid(f)'][i - First(2)] = given[f][i]
                      /\ fsize[f] > First(2) => content'[Top(f, 2)'][0] = Kid(f)'
    <3>1. \A f \in File : fsize[f] > First(2) => 0 \in 0 .. (fsize[f] - 1)
      BY Numbers DEF BlockInv, BlockTypeOK
    <3> QED BY <1>3, <3>1 DEF Placed
  <2>1. fsize[f] \in Nat /\ i \in Nat /\ i < fsize[f]
    BY Numbers DEF BlockInv, BlockTypeOK
  <2>2. i < First(1) => blocks'[f][i] = blocks[f][i]
    BY <1>4, <1>8, <1>9, <2>1, Numbers
  <2>3. i >= First(1) => Top(f, 1)' = Top(f, 1) /\ Top(f, 1) \in Cluster /\ Top(f, 1) # c
    <3>1. i >= First(1) => fsize[f] > First(1)
      BY <2>1, Numbers
    <3>2. i >= First(1) => ~(f = cur /\ 1 = Lv)
      <4>1. f = cur /\ i >= First(1) => fsize[cur] > First(1)
        BY <3>1
      <4> QED BY <1>4, <1>5, <4>1
    <3> QED BY <1>2, <1>11, <3>1, <3>2, HeldFacts
  <2>4. i >= First(2) => fsize[f] > First(2)
    BY <2>1, Numbers
  <2>5. fsize[f] > First(2) => /\ Kid(f)' = Kid(f) /\ Kid(f) \in Cluster /\ Kid(f) # c
                               /\ Top(f, 2)' = Top(f, 2) /\ Top(f, 2) \in Cluster /\ Top(f, 2) # c
    BY <1>2, <1>12, HeldFacts
  <2> QED BY <1>10, <2>1, <2>2, <2>3, <2>4, <2>5 DEF BlockInv, Placed
<1>19. Fresh'
  <2>1. Lv = 2 => Top(cur, 2)' = c /\ cur' = cur /\ Lv' = Lv
    BY <1>3, <1>4, <1>11
  <2>2. content'[c][0] = Zero
    <3>1. 0 \in Slot
      BY Numbers DEF Slot
    <3> QED BY <1>2, <1>10, <3>1 DEF Blank
  <2> QED BY <2>1, <2>2, <1>3, <1>4, <1>11 DEF Fresh
<1> QED BY <1>15, <1>16, <1>17, <1>18, <1>19 DEF BlockInv

\* Inside the bound an index of level 2 is in the first child.
LEMMA JobIndex ==
  ASSUME BlockInv, WithinFirstChild, pc \in Setting
  PROVE  /\ cur \in File /\ Index = fsize[cur] /\ Index \in Nat /\ Index < MaxSize[cur]
         /\ Lv = Level(fsize[cur]) /\ Lv \in {0, 1, 2}
         /\ First(1) \in Nat /\ First(2) \in Nat /\ First(1) < First(2)
         /\ Lv = 0 <=> Index < First(1)
         /\ Lv = 1 <=> Index >= First(1) /\ Index < First(2)
         /\ Lv = 2 <=> Index >= First(2)
         /\ Lv = 2 => Outer(Index) = 0 /\ Inner(Index) = Index - First(2) /\ Inner(Index) \in Slot
<1>1. /\ cur \in File /\ Index = fsize[cur] /\ fsize[cur] \in 0 .. MaxSize[cur]
      /\ left >= 1 /\ left \in Int /\ fsize[cur] + left <= MaxSize[cur]
      /\ Lv = Level(fsize[cur]) /\ MaxSize[cur] <= Direct + ACount + ACount
  <2>1. cur \in File /\ fsize[cur] \in 0 .. MaxSize[cur] /\ left \in 0 .. MaxSize[cur]
    BY DEF BlockInv, BlockTypeOK
  <2>2. left >= 1 /\ fsize[cur] + left <= MaxSize[cur]
    BY DEF BlockInv, Job
  <2> QED BY <2>1, <2>2, Numbers DEF Index, Lv, WithinFirstChild
<1>2. Index \in Nat /\ Index < MaxSize[cur] /\ Index < Direct + ACount + ACount
  BY <1>1, Numbers
<1>3. /\ First(1) = Direct /\ First(2) = Direct + ACount
      /\ First(1) \in Nat /\ First(2) \in Nat /\ First(1) < First(2)
  BY Numbers
<1>4. /\ Lv \in {0, 1, 2}
      /\ Lv = 0 <=> Index < First(1)
      /\ Lv = 1 <=> Index >= First(1) /\ Index < First(2)
      /\ Lv = 2 <=> Index >= First(2)
  BY <1>1, <1>2, <1>3, Numbers
<1>5. Lv = 2 => Outer(Index) = 0 /\ Inner(Index) = Index - First(2) /\ Inner(Index) \in Slot
  BY <1>2, <1>3, <1>4, FirstChild
<1> QED BY <1>1, <1>2, <1>3, <1>4, <1>5

\* Only a level-2 top that was just made lacks its child.
LEMMA NeedsChildWhen ==
  ASSUME BlockInv, WithinFirstChild
  PROVE  /\ NeedsChild => pc = "top" /\ Lv = 2 /\ fsize[cur] = First(2)
         /\ HasTop /\ Lv = 2 /\ ~NeedsChild => pc = "set" /\ fsize[cur] > First(2)
<1> SUFFICES ASSUME HasTop, Lv = 2
             PROVE  /\ NeedsChild => pc = "top" /\ fsize[cur] = First(2)
                    /\ ~NeedsChild => pc = "set" /\ fsize[cur] > First(2)
  BY DEF NeedsChild
<1>1. pc \in Setting /\ (pc = "set" \/ pc = "top")
  BY DEF HasTop, Setting
<1>2. Outer(Index) = 0 /\ Index = fsize[cur] /\ cur \in File
  BY <1>1, JobIndex
<1>3. CASE pc = "top"
  BY <1>2, <1>3 DEF BlockInv, Fresh, Job, NeedsChild
<1>4. CASE pc = "set"
  <2>1. fsize[cur] > First(2)
    BY <1>2, <1>4 DEF HasTop
  <2>2. content[Top(cur, 2)][0] = Kid(cur) /\ Kid(cur) \in Cluster
    BY <1>2, <2>1, HeldFacts DEF BlockInv, Placed
  <2> QED BY <1>2, <1>4, <2>1, <2>2, Numbers DEF NeedsChild
<1> QED BY <1>1, <1>3, <1>4

LEMMA AllocateChildKeeps ==
  ASSUME BlockInv, WithinFirstChild, AllocateChild
  PROVE  BlockInv'
<1>1. PICK c \in Offer(free) : /\ free' = free \ {c} /\ child' = c
                               /\ content' = [content EXCEPT ![c] = Blank]
  BY DEF AllocateChild
<1>2. c \in free /\ c \in Cluster
  BY OfferAssumption DEF BlockInv, BlockTypeOK
<1>3. /\ pc = "top" /\ pc' = "child" /\ Lv = 2 /\ fsize[cur] = First(2)
      /\ UNCHANGED <<fsize, blocks, cur, left, addr, given, lost>>
  BY NeedsChildWhen DEF AllocateChild, inodes
<1>4. cur \in File /\ Lv = Level(fsize[cur]) /\ Lv' = 2 /\ Index' = Index
  BY <1>3 DEF BlockInv, BlockTypeOK, Lv, Index
<1>5. PICK r : r = <<cur, "child", 0>>
  OBVIOUS
<1>6. ~(fsize[cur] > First(2))
  BY <1>3, Numbers
<1>7. Taken' = Taken \cup {r} /\ r \notin Taken
  <2>1. r \in Role /\ r[1] = cur /\ r[2] = "child" /\ r[3] = 0
    BY <1>4, <1>5 DEF Role
  <2>2. IsTaken(r, fsize', pc', cur') /\ ~IsTaken(r, fsize, pc, cur)
    BY <1>3, <1>6, <2>1 DEF IsTaken
  <2>3. ASSUME NEW u \in Role, u # r
        PROVE  IsTaken(u, fsize', pc', cur') <=> IsTaken(u, fsize, pc, cur)
    BY <1>3, <1>4, <1>5, <2>3 DEF IsTaken, Role, Setting
  <2> QED BY <2>1, <2>2, <2>3 DEF Taken
<1>8. \A d \in Cluster : content'[d] = IF d = c THEN Blank ELSE content[d]
  BY <1>1 DEF BlockInv, BlockTypeOK
<1>9. \A f \in File, l \in {1, 2} : Top(f, l)' = Top(f, l)
  BY <1>3 DEF Top
<1>10. \A f \in File : fsize[f] > First(2) => f # cur /\ Kid(f)' = Kid(f)
  <2> SUFFICES ASSUME NEW f \in File, fsize[f] > First(2)
               PROVE  f # cur /\ Kid(f)' = Kid(f)
    OBVIOUS
  <2>1. f # cur
    BY <1>6
  <2>2. Top(f, 2) \in Cluster /\ Top(f, 2) # c
    BY <1>2, HeldFacts
  <2> QED BY <1>3, <1>8, <1>9, <2>1, <2>2 DEF Kid
<1>11. \A u \in Taken : Holders'[u] = Holders[u]
  <2> SUFFICES ASSUME NEW u \in Taken PROVE Holders'[u] = Holders[u]
    OBVIOUS
  <2>1. Holders'[u] = Holder(u)' /\ Holders[u] = Holder(u)
    BY <1>7 DEF Holders
  <2>2. u \in Role /\ (u[2] = "child" => fsize[u[1]] > First(2))
        /\ (u[2] = "top" => u[3] \in {1, 2})
    BY <1>3, <1>7 DEF Taken, IsTaken
  <2>3. Holder(u)' = Holder(u)
    BY <1>3, <1>9, <1>10, <2>2 DEF Holder, Role, Top
  <2> QED BY <2>1, <2>3
<1>12. Holders'[r] = c
  <2>1. Holders'[r] = Holder(r)'
    BY <1>7 DEF Holders
  <2> QED BY <1>1, <1>3, <1>4, <1>5, <2>1 DEF Holder, Kid
<1>13. Sound(Holders', free', lost')
  <2>1. DOMAIN Holders' = Taken' /\ DOMAIN Holders = Taken
    BY DEF Holders
  <2>2. Sound(Holders, free, lost)
    BY DEF BlockInv
  <2>3. Sound(Holders', free \ {c}, lost)
    BY <1>2, <1>7, <1>11, <1>12, <2>1, <2>2, SoundTake
  <2> QED BY <1>1, <1>3, <2>3
<1>14. BlockTypeOK'
  <2>1. Blank \in [Slot -> Address \cup {Text}]
    BY DEF Blank, Address
  <2>2. content' \in [Cluster -> [Slot -> Address \cup {Text}]]
    BY <1>1, <2>1 DEF BlockInv, BlockTypeOK
  <2> QED BY <1>1, <1>2, <1>3, <2>2 DEF BlockInv, BlockTypeOK, Address
<1>15. Job'
  BY <1>3, <1>4 DEF BlockInv, Job, Setting
<1>16. Placed'
  <2> SUFFICES ASSUME NEW f \in File, NEW i \in 0 .. (fsize[f] - 1)
               PROVE  /\ i < First(1) => blocks[f][i] = given[f][i]
                      /\ i >= First(1) /\ i < First(2) => content'[Top(f, 1)'][i - First(1)] = given[f][i]
                      /\ i >= First(2) => content'[Kid(f)'][i - First(2)] = given[f][i]
                      /\ fsize[f] > First(2) => content'[Top(f, 2)'][0] = Kid(f)'
    <3>1. \A f \in File : fsize[f] > First(2) => 0 \in 0 .. (fsize[f] - 1)
      BY Numbers DEF BlockInv, BlockTypeOK
    <3> QED BY <1>3, <3>1 DEF Placed
  <2>1. fsize[f] \in Nat /\ i \in Nat /\ i < fsize[f]
    BY Numbers DEF BlockInv, BlockTypeOK
  <2>2. i >= First(1) => fsize[f] > First(1)
    BY <2>1, Numbers
  <2>3. i >= First(1) => Top(f, 1) \in Cluster /\ Top(f, 1) # c
    BY <1>2, <2>2, HeldFacts
  <2>4. i >= First(2) => fsize[f] > First(2)
    BY <2>1, Numbers
  <2>5. fsize[f] > First(2) => /\ Kid(f)' = Kid(f) /\ Kid(f) \in Cluster /\ Kid(f) # c
                               /\ Top(f, 2) \in Cluster /\ Top(f, 2) # c
    BY <1>2, <1>10, HeldFacts
  <2> QED BY <1>8, <1>9, <2>1, <2>3, <2>4, <2>5 DEF BlockInv, Placed
<1>17. Fresh'
  BY <1>3 DEF Fresh
<1> QED BY <1>13, <1>14, <1>15, <1>16, <1>17 DEF BlockInv

LEMMA FindChildKeeps ==
  ASSUME BlockInv, WithinFirstChild, FindChild
  PROVE  BlockInv'
<1>1. /\ pc = "set" /\ pc' = "child" /\ Lv = 2 /\ fsize[cur] > First(2)
      /\ child' = content[Top(cur, 2)][Outer(Index)]
      /\ UNCHANGED <<free, content, fsize, blocks, cur, left, addr, given, lost>>
  BY NeedsChildWhen DEF FindChild, inodes
<1>2. cur \in File /\ Lv = Level(fsize[cur]) /\ Lv' = 2 /\ Index' = Index /\ Outer(Index) = 0
  BY <1>1, JobIndex DEF Setting, Lv, Index
<1>3. \A f \in File, l \in {1, 2} : Top(f, l)' = Top(f, l)
  BY <1>1 DEF Top
<1>4. \A f \in File : Kid(f)' = Kid(f)
  BY <1>1, <1>2, <1>3 DEF Kid
<1>5. Taken' = Taken
  <2>1. First(1) < First(2) /\ First(2) \in Nat /\ First(1) \in Nat
    BY Numbers
  <2>2. ASSUME NEW u \in Role
        PROVE  IsTaken(u, fsize', pc', cur') <=> IsTaken(u, fsize, pc, cur)
    BY <1>1, <1>2, <2>1 DEF IsTaken, Role, Setting
  <2> QED BY <2>2 DEF Taken
<1>6. \A u \in Taken : Holder(u)' = Holder(u)
  <2> SUFFICES ASSUME NEW u \in Taken PROVE Holder(u)' = Holder(u)
    OBVIOUS
  <2>1. u \in Role /\ (u[2] = "top" => u[3] \in {1, 2})
    BY DEF Taken, IsTaken
  <2> QED BY <1>1, <1>3, <1>4, <2>1 DEF Holder, Role, Top
<1>7. Holders' = Holders
  BY <1>5, <1>6 DEF Holders
<1>8. BlockTypeOK'
  <2>1. Kid(cur) \in Cluster
    BY <1>1, <1>2, HeldFacts
  <2>2. child' \in Address
    BY <1>1, <1>2, <2>1 DEF Kid, Address
  <2> QED BY <1>1, <2>2 DEF BlockInv, BlockTypeOK
<1>9. Job' /\ Fresh'
  BY <1>1, <1>2 DEF BlockInv, Job, Fresh, Setting
<1>10. Placed'
  BY <1>1, <1>3, <1>4 DEF BlockInv, Placed
<1> QED BY <1>1, <1>7, <1>8, <1>9, <1>10 DEF BlockInv

LEMMA InitBlockInv == BlockInit => BlockInv
<1> SUFFICES ASSUME BlockInit PROVE BlockInv
  OBVIOUS
<1>1. /\ free = Cluster /\ lost = {} /\ cur \in File /\ pc = "idle" /\ left = 0
      /\ addr = Zero /\ child = Zero
      /\ fsize = [f \in File |-> 0] /\ content = [c \in Cluster |-> Bytes]
      /\ blocks = [f \in File |-> [b \in 0 .. (Direct + 1) |-> Zero]]
      /\ given = [f \in File |-> [i \in 0 .. (MaxSize[f] - 1) |-> Zero]]
  BY DEF BlockInit
<1>2. First(1) \in Nat /\ First(2) \in Nat
  BY Numbers
<1>3. Taken = {}
  <2>1. ASSUME NEW u \in Role PROVE ~IsTaken(u, fsize, pc, cur)
    <3>1. u[1] \in File /\ u[3] \in Nat /\ fsize[u[1]] = 0
      BY <1>1 DEF Role
    <3>2. ~(u[3] < 0) /\ (u[3] \in {1, 2} => ~(0 > First(u[3]))) /\ ~(0 > First(2))
      BY <1>2, <3>1
    <3> QED BY <1>1, <3>1, <3>2 DEF IsTaken, Setting
  <2> QED BY <2>1 DEF Taken
<1>4. Sound(Holders, free, lost)
  <2>1. DOMAIN Holders = {}
    BY <1>3 DEF Holders
  <2> QED BY <1>1, <2>1 DEF Sound
<1>5. BlockTypeOK
  <2>1. Bytes \in [Slot -> Address \cup {Text}] /\ Zero \in Address
    BY DEF Bytes, Address
  <2>2. (\A f \in File : 0 \in 0 .. MaxSize[f]) /\ fsize \in [File -> Nat] /\ DOMAIN given = File
    BY <1>1, Numbers
  <2>3. blocks \in [File -> [0 .. (Direct + 1) -> Address]]
    BY <1>1, <2>1
  <2>4. \A f \in File : given[f] \in [0 .. (MaxSize[f] - 1) -> Address]
    BY <1>1, <2>1
  <2> QED BY <1>1, <2>1, <2>2, <2>3, <2>4 DEF BlockTypeOK
<1>6. Job /\ Fresh
  BY <1>1 DEF Job, Fresh, Setting
<1>7. Placed
  <2>1. \A f \in File : fsize[f] = 0
    BY <1>1
  <2>2. 0 .. (0 - 1) = {} /\ ~(0 > First(2))
    BY <1>2
  <2> QED BY <2>1, <2>2 DEF Placed
<1> QED BY <1>4, <1>5, <1>6, <1>7 DEF BlockInv

\* Steps that change no role.
LEMMA ResizeKeeps ==
  ASSUME BlockInv, NEW f \in File, NEW size \in 0 .. MaxSize[f], Resize(f, size)
  PROVE  BlockInv'
<1>1. /\ pc = "idle" /\ pc' \in {"extend", "shrink"} /\ cur' = f
      /\ UNCHANGED <<free, content, fsize, blocks, addr, child, given, lost>>
  BY DEF Resize, inodes
<1>2. fsize[f] \in 0 .. MaxSize[f] /\ MaxSize[f] \in Nat
  BY Numbers DEF BlockInv, BlockTypeOK
<1>3. \/ pc' = "extend" /\ left' = size - fsize[f] /\ size > fsize[f]
      \/ pc' = "shrink" /\ left' = fsize[f] - size /\ size < fsize[f]
  BY <1>2 DEF Resize
<1>4. \A g \in File : Kid(g)' = Kid(g) /\ Top(g, 1)' = Top(g, 1) /\ Top(g, 2)' = Top(g, 2)
  BY <1>1 DEF Kid, Top
<1>5. Taken' = Taken
  <2>1. ASSUME NEW u \in Role
        PROVE  IsTaken(u, fsize', pc', cur') <=> IsTaken(u, fsize, pc, cur)
    BY <1>1 DEF IsTaken, Setting
  <2> QED BY <2>1 DEF Taken
<1>6. \A u \in Taken : Holder(u)' = Holder(u)
  <2> SUFFICES ASSUME NEW u \in Taken PROVE Holder(u)' = Holder(u)
    OBVIOUS
  <2>1. u \in Role
    BY DEF Taken
  <2> QED BY <1>1, <1>4, <2>1 DEF Holder, Role, Top
<1>7. Holders' = Holders
  BY <1>5, <1>6 DEF Holders
<1>8. BlockTypeOK'
  <2>1. left' \in 0 .. MaxSize[f]
    BY <1>2, <1>3
  <2> QED BY <1>1, <2>1 DEF BlockInv, BlockTypeOK
<1>9. Job'
  <2>1. addr = Zero
    BY <1>1 DEF BlockInv, Job, Setting
  <2>2. pc' = "shrink" => left' \in 1 .. fsize[f]
    BY <1>2, <1>3
  <2>3. pc' = "extend" => left' >= 1 /\ fsize[f] + left' <= MaxSize[f]
    BY <1>2, <1>3
  <2> QED BY <1>1, <2>1, <2>2, <2>3 DEF Job, Setting
<1>10. Fresh' /\ Placed'
  BY <1>1, <1>4 DEF BlockInv, Fresh, Placed
<1> QED BY <1>1, <1>7, <1>8, <1>9, <1>10 DEF BlockInv

LEMMA BlockStutter == BlockInv /\ UNCHANGED blockVars => BlockInv'
<1> SUFFICES ASSUME BlockInv, UNCHANGED blockVars PROVE BlockInv'
  OBVIOUS
<1>1. UNCHANGED <<free, content, fsize, blocks, pc, cur, left, addr, child, given, lost>>
  BY DEF blockVars
<1>2. Taken' = Taken
  BY <1>1 DEF Taken, IsTaken
<1>3. \A u \in Taken : Holder(u)' = Holder(u)
  BY <1>1 DEF Holder, Kid, Top
<1>4. Holders' = Holders
  BY <1>2, <1>3 DEF Holders
<1>5. BlockTypeOK' /\ Job' /\ Placed' /\ Fresh'
  BY <1>1 DEF BlockInv, BlockTypeOK, Job, Placed, Fresh, Kid, Top, Lv, Index
<1> QED BY <1>1, <1>4, <1>5 DEF BlockInv

LEMMA AllocateThrowsKeeps ==
  ASSUME BlockInv, WithinFirstChild, AllocateThrows
  PROVE  BlockInv'
<1>1. /\ pc = "extend" \/ (pc = "set" /\ NeedsTop) \/ (pc = "top" /\ Lv = 2 /\ fsize[cur] = First(2))
      /\ pc' = "idle" /\ left' = 0 /\ addr' = Zero
      /\ lost' = lost \cup ({addr} \ {Zero}) \cup (IF pc = "top" THEN {Top(cur, 2)} ELSE {})
      /\ UNCHANGED <<free, content, fsize, blocks, cur, child, given>>
  BY NeedsChildWhen DEF AllocateThrows, NeedsTop, inodes
<1>2. cur \in File /\ Lv = Level(fsize[cur])
  BY DEF BlockInv, BlockTypeOK, Lv, Index
<1>3. PICK R : R = Taken \ Taken'
  OBVIOUS
<1>4. Taken' \subseteq Taken
  BY <1>1 DEF Taken, IsTaken, Setting
<1>5. \A f \in File : Kid(f)' = Kid(f) /\ Top(f, 1)' = Top(f, 1) /\ Top(f, 2)' = Top(f, 2)
  BY <1>1 DEF Kid, Top
<1>6. \A u \in Taken' : Holders'[u] = Holders[u]
  <2> SUFFICES ASSUME NEW u \in Taken' PROVE Holders'[u] = Holders[u]
    OBVIOUS
  <2>1. Holders'[u] = Holder(u)' /\ Holders[u] = Holder(u)
    BY <1>4 DEF Holders
  <2>2. u \in Role /\ u[2] # "addr"
    BY <1>1 DEF Taken, IsTaken, Setting
  <2>3. Holder(u)' = Holder(u)
    BY <1>1, <1>5, <2>2 DEF Holder, Role, Top
  <2> QED BY <2>1, <2>3
<1>7. Sound(Holders, free, lost) /\ DOMAIN Holders = Taken /\ DOMAIN Holders' = Taken'
  BY DEF BlockInv, Holders
<1>8. Sound(Holders', free, lost \cup { Holders[u] : u \in R })
  BY <1>3, <1>4, <1>6, <1>7, SoundDrop
<1>9. lost' = lost \cup { Holders[u] : u \in R }
  <2>1. CASE pc = "extend"
    <3>1. addr = Zero /\ lost' = lost
      BY <1>1, <2>1 DEF BlockInv, Job, Setting
    <3>2. Taken' = Taken
      BY <1>1, <2>1 DEF Taken, IsTaken, Setting
    <3> QED BY <1>3, <3>1, <3>2
  <2>2. CASE pc = "set"
    <3>1. PICK q : q = <<cur, "addr", 0>>
      OBVIOUS
    <3>2. q \in Taken /\ Holders[q] = addr
      BY <1>2, <2>2, <3>1, HoldersFacts DEF Setting
    <3>3. addr # Zero /\ lost' = lost \cup {addr}
      BY <1>1, <2>2, HeldFacts, Numbers DEF Setting
    <3>4. R = {q}
      <4>1. q \in Role /\ q[2] = "addr"
        BY <1>2, <3>1 DEF Role
      <4>2. q \notin Taken'
        BY <1>1, <4>1 DEF Taken, IsTaken, Setting
      <4>3. ASSUME NEW u \in Taken, u # q PROVE u \in Taken'
        BY <1>1, <2>2, <3>1, <4>3 DEF Taken, IsTaken, Role, Setting
      <4> QED BY <1>3, <3>2, <4>2, <4>3
    <3> QED BY <3>2, <3>3, <3>4
  <2>3. CASE pc = "top"
    <3>1. PICK q, t : q = <<cur, "addr", 0>> /\ t = <<cur, "top", 2>>
      OBVIOUS
    <3>2. q \in Taken /\ Holders[q] = addr
      BY <1>2, <2>3, <3>1, HoldersFacts DEF Setting
    <3>3. t \in Taken /\ Holders[t] = Top(cur, 2)
      BY <1>1, <1>2, <2>3, <3>1, HoldersTop
    <3>4. addr # Zero /\ lost' = lost \cup {addr} \cup {Top(cur, 2)}
      BY <1>1, <2>3, HeldFacts, Numbers DEF Setting
    <3>5. R = {q, t}
      <4>1. q \in Role /\ q[2] = "addr" /\ t \in Role /\ t[1] = cur /\ t[2] = "top" /\ t[3] = 2
        BY <1>2, <3>1 DEF Role
      <4>2. ~(fsize[cur] > First(2))
        BY <1>1, <2>3, Numbers
      <4>3. q \notin Taken' /\ t \notin Taken'
        BY <1>1, <4>1, <4>2 DEF Taken, IsTaken, Setting
      <4>4. ASSUME NEW u \in Taken, u # q, u # t PROVE u \in Taken'
        BY <1>1, <1>2, <2>3, <3>1, <4>4 DEF Taken, IsTaken, Role, Setting
      <4> QED BY <1>3, <3>2, <3>3, <4>3, <4>4
    <3> QED BY <3>2, <3>3, <3>4, <3>5
  <2> QED BY <1>1, <2>1, <2>2, <2>3
<1>10. BlockTypeOK'
  <2>1. lost' \in SUBSET Cluster
    BY <1>8, <1>9 DEF Sound
  <2>2. 0 \in 0 .. MaxSize[cur] /\ Zero \in Address
    BY <1>2, Numbers DEF Address
  <2> QED BY <1>1, <2>1, <2>2 DEF BlockInv, BlockTypeOK
<1>11. Job' /\ Fresh'
  BY <1>1 DEF Job, Fresh, Setting
<1>12. Placed'
  BY <1>1, <1>5 DEF BlockInv, Placed
<1> QED BY <1>1, <1>8, <1>9, <1>10, <1>11, <1>12 DEF BlockInv

\* A file has a top, a child.
HasTopOf(f, l) == fsize[f] > First(l) \/ (f = cur /\ pc \in {"top", "child"} /\ Lv = l)
HasKid(f) == fsize[f] > First(2) \/ (f = cur /\ pc = "child")

\* The clusters that list addresses are all different.
LEMMA Apart ==
  ASSUME BlockInv
  PROVE  /\ \A f, g \in File, l, m \in {1, 2} :
              HasTopOf(f, l) /\ HasTopOf(g, m) /\ Top(f, l) = Top(g, m) => f = g /\ l = m
         /\ \A f, g \in File : HasKid(f) /\ HasKid(g) /\ Kid(f) = Kid(g) => f = g
         /\ \A f, g \in File, l \in {1, 2} : HasTopOf(f, l) /\ HasKid(g) => Top(f, l) # Kid(g)
<1>1. \A u, v \in Taken : Holders[u] = Holders[v] => u = v
  BY HoldersFacts DEF BlockInv, Sound
<1>2. ASSUME NEW f \in File, NEW g \in File, NEW l \in {1, 2}, NEW m \in {1, 2},
             HasTopOf(f, l), HasTopOf(g, m), Top(f, l) = Top(g, m)
      PROVE  f = g /\ l = m
  <2>1. <<f, "top", l>> \in Taken /\ Holders[<<f, "top", l>>] = Top(f, l)
    BY <1>2, HoldersTop DEF HasTopOf
  <2>2. <<g, "top", m>> \in Taken /\ Holders[<<g, "top", m>>] = Top(g, m)
    BY <1>2, HoldersTop DEF HasTopOf
  <2>3. <<f, "top", l>> = <<g, "top", m>>
    BY <1>1, <1>2, <2>1, <2>2
  <2> QED BY <2>3
<1>3. ASSUME NEW f \in File, NEW g \in File, HasKid(f), HasKid(g), Kid(f) = Kid(g)
      PROVE  f = g
  <2>1. <<f, "child", 0>> \in Taken /\ Holders[<<f, "child", 0>>] = Kid(f)
    BY <1>3, HoldersFacts DEF HasKid
  <2>2. <<g, "child", 0>> \in Taken /\ Holders[<<g, "child", 0>>] = Kid(g)
    BY <1>3, HoldersFacts DEF HasKid
  <2>3. <<f, "child", 0>> = <<g, "child", 0>>
    BY <1>1, <1>3, <2>1, <2>2
  <2> QED BY <2>3
<1>4. ASSUME NEW f \in File, NEW g \in File, NEW l \in {1, 2}, HasTopOf(f, l), HasKid(g)
      PROVE  Top(f, l) # Kid(g)
  <2>1. <<f, "top", l>> \in Taken /\ Holders[<<f, "top", l>>] = Top(f, l)
    BY <1>4, HoldersTop DEF HasTopOf
  <2>2. <<g, "child", 0>> \in Taken /\ Holders[<<g, "child", 0>>] = Kid(g)
    BY <1>4, HoldersFacts DEF HasKid
  <2>3. <<f, "top", l>> # <<g, "child", 0>>
    OBVIOUS
  <2> QED BY <1>1, <2>1, <2>2, <2>3
<1> QED BY <1>2, <1>3, <1>4

\* What Store changes in i_blocks and on the drive.
LEMMA StoreWrites ==
  ASSUME BlockInv, WithinFirstChild, Store
  PROVE  /\ pc \in Setting /\ (Lv > 0 => HasTopOf(cur, Lv)) /\ (Lv = 2 <=> pc = "child")
         /\ \A f \in File, b \in 0 .. (Direct + 1) :
              blocks'[f][b] = IF f = cur /\ b = Index /\ Lv = 0 THEN addr ELSE blocks[f][b]
         /\ \A d \in Cluster :
              (Lv = 1 => d # Top(cur, 1)) /\ (Lv = 2 => d # child /\ d # Top(cur, 2)) =>
                content'[d] = content[d]
         /\ Lv = 1 => \A s \in Slot :
              content'[Top(cur, 1)][s] =
                IF s = Index - First(1) THEN addr ELSE content[Top(cur, 1)][s]
         /\ Lv = 2 => /\ content'[Top(cur, 2)][0] = child
                      /\ \A s \in Slot :
                           content'[child][s] =
                             IF s = Index - First(2) THEN addr ELSE content[child][s]
         /\ content' \in [Cluster -> [Slot -> Address \cup {Text}]]
         /\ blocks' \in [File -> [0 .. (Direct + 1) -> Address]]
<1>1. /\ blocks \in [File -> [0 .. (Direct + 1) -> Address]] /\ Direct \in Nat
      /\ content \in [Cluster -> [Slot -> Address \cup {Text}]] /\ cur \in File
      /\ addr \in Address /\ child \in Address
  BY Numbers DEF BlockInv, BlockTypeOK
<1>2. pc \in Setting
  BY DEF Store, HasTop, Setting
<1>3. /\ Index = fsize[cur] /\ Index \in Nat
      /\ First(1) \in Nat /\ First(2) \in Nat /\ First(1) < First(2) /\ First(1) = Direct
      /\ First(2) = Direct + ACount /\ ACount \in Nat
      /\ Lv \in {0, 1, 2}
      /\ Lv = 0 <=> Index < First(1)
      /\ Lv = 1 <=> Index >= First(1) /\ Index < First(2)
      /\ Lv = 2 <=> Index >= First(2)
      /\ Lv = 2 => Outer(Index) = 0 /\ Inner(Index) = Index - First(2) /\ Inner(Index) \in Slot
  BY <1>2, JobIndex, Numbers
<1>4. CASE pc = "set" /\ Lv = 0 /\ blocks' = [blocks EXCEPT ![cur][Index] = addr] /\ content' = content
  BY <1>1, <1>2, <1>3, <1>4
<1>5. CASE /\ HasTop /\ Lv = 1 /\ blocks' = blocks
           /\ content' = [content EXCEPT ![Top(cur, 1)][Index - First(1)] = addr]
  <2>1. HasTopOf(cur, 1) /\ pc # "child"
    BY <1>3, <1>5 DEF HasTopOf, HasTop
  <2>2. Top(cur, 1) \in Cluster
    BY <1>1, <2>1, HeldFacts DEF HasTopOf
  <2>3. Index - First(1) \in Slot
    BY <1>3, <1>5 DEF Slot
  <2>4. PICK t, s0 : t = Top(cur, 1) /\ s0 = Index - First(1)
    OBVIOUS
  <2>5. content' = [content EXCEPT ![t][s0] = addr] /\ t \in Cluster /\ s0 \in Slot
    BY <1>5, <2>2, <2>3, <2>4
  <2>6. /\ \A d \in Cluster : d # t => content'[d] = content[d]
        /\ \A s \in Slot : content'[t][s] = IF s = s0 THEN addr ELSE content[t][s]
        /\ content' \in [Cluster -> [Slot -> Address \cup {Text}]]
    BY <1>1, <2>5
  <2> QED BY <1>1, <1>2, <1>5, <2>1, <2>4, <2>6
<1>6. CASE /\ pc = "child" /\ blocks' = blocks
           /\ content' = [content EXCEPT ![child][Inner(Index)] = addr,
                                         ![Top(cur, 2)][Outer(Index)] = child]
  <2>1. Lv = 2 /\ HasTopOf(cur, 2) /\ HasKid(cur) /\ Kid(cur) = child
    BY <1>1, <1>6 DEF BlockInv, Job, HasTopOf, HasKid, Kid
  <2>2. Top(cur, 2) \in Cluster /\ child \in Cluster /\ Top(cur, 2) # child
    BY <1>1, <2>1, HeldFacts, Apart DEF HasTopOf, HasKid
  <2>3. PICK t, s0 : t = Top(cur, 2) /\ s0 = Inner(Index)
    OBVIOUS
  <2>4. 0 \in Slot /\ s0 \in Slot /\ s0 = Index - First(2) /\ Outer(Index) = 0
    BY <1>3, <2>1, <2>3, Numbers DEF Slot
  <2>5. content' = [content EXCEPT ![child][s0] = addr, ![t][0] = child]
    BY <1>6, <2>3, <2>4
  <2>6. /\ \A d \in Cluster : d # t /\ d # child => content'[d] = content[d]
        /\ \A s \in Slot : content'[child][s] = IF s = s0 THEN addr ELSE content[child][s]
        /\ content'[t][0] = child
        /\ content' \in [Cluster -> [Slot -> Address \cup {Text}]]
    BY <1>1, <2>2, <2>3, <2>4, <2>5
  <2>7. \A s \in Slot : content'[child][s] = IF s = Index - First(2) THEN addr ELSE content[child][s]
    BY <2>4, <2>6
  <2>8. content'[Top(cur, 2)][0] = child /\ \A d \in Cluster : d # Top(cur, 2) /\ d # child => content'[d] = content[d]
    BY <2>3, <2>6
  <2>9. Lv # 0 /\ Lv # 1 /\ HasTopOf(cur, Lv)
    BY <2>1
  <2>10. blocks' \in [File -> [0 .. (Direct + 1) -> Address]] /\ content' \in [Cluster -> [Slot -> Address \cup {Text}]]
    BY <1>1, <1>6, <2>6
  <2> QED BY <1>2, <1>6, <2>1, <2>7, <2>8, <2>9, <2>10
<1> QED BY <1>4, <1>5, <1>6 DEF Store

LEMMA StoreKeeps ==
  ASSUME BlockInv, WithinFirstChild, Store
  PROVE  BlockInv'
<1>1. PICK i \in Nat : i = Index
  BY JobIndex, StoreWrites
<1>2. /\ cur \in File /\ fsize[cur] = i /\ i < MaxSize[cur] /\ MaxSize[cur] \in Nat
      /\ Lv = Level(fsize[cur]) /\ Lv \in {0, 1, 2}
      /\ First(1) \in Nat /\ First(2) \in Nat /\ First(1) < First(2)
      /\ Lv = 0 <=> i < First(1)
      /\ Lv = 1 <=> i >= First(1) /\ i < First(2)
      /\ Lv = 2 <=> i >= First(2)
  BY <1>1, StoreWrites, JobIndex, Numbers
<1>3. /\ fsize' = [fsize EXCEPT ![cur] = i + 1] /\ given' = [given EXCEPT ![cur][i] = addr]
      /\ addr' = Zero /\ child' = Zero /\ left' = left - 1
      /\ pc' = IF left = 1 THEN "idle" ELSE "extend"
      /\ UNCHANGED <<free, cur, lost>>
  BY <1>1 DEF Store, Iterated
<1>4. pc' \in {"idle", "extend"} /\ pc \in Setting
  BY <1>3, StoreWrites
<1>5. /\ fsize \in [File -> Nat] /\ DOMAIN given = File /\ left \in Nat /\ left >= 1
      /\ \A f \in File : given[f] \in [0 .. (MaxSize[f] - 1) -> Address] /\ fsize[f] \in 0 .. MaxSize[f]
      /\ fsize[cur] + left <= MaxSize[cur]
  <2>1. left \in 0 .. MaxSize[cur]
    BY DEF BlockInv, BlockTypeOK
  <2>2. left >= 1 /\ fsize[cur] + left <= MaxSize[cur]
    BY <1>4 DEF BlockInv, Job
  <2> QED BY <2>1, <2>2, <1>2 DEF BlockInv, BlockTypeOK
<1>6. /\ \A f \in File : fsize'[f] = IF f = cur THEN i + 1 ELSE fsize[f]
      /\ fsize' \in [File -> Nat] /\ DOMAIN given' = File
      /\ \A f \in File : given'[f] \in [0 .. (MaxSize[f] - 1) -> Address]
      /\ \A f \in File : \A j \in 0 .. (MaxSize[f] - 1) :
           given'[f][j] = IF f = cur /\ j = i THEN addr ELSE given[f][j]
  <2>1. i \in 0 .. (MaxSize[cur] - 1) /\ addr \in Address
    BY <1>2 DEF BlockInv, BlockTypeOK
  <2>2. /\ \A f \in File : fsize'[f] = IF f = cur THEN i + 1 ELSE fsize[f]
        /\ fsize' \in [File -> Nat] /\ DOMAIN given' = File
    BY <1>2, <1>3, <1>5
  <2>3. /\ given'[cur] = [given[cur] EXCEPT ![i] = addr]
        /\ \A f \in File \ {cur} : given'[f] = given[f]
    BY <1>2, <1>3, <1>5
  <2>4. /\ given'[cur] \in [0 .. (MaxSize[cur] - 1) -> Address]
        /\ \A j \in 0 .. (MaxSize[cur] - 1) :
             given'[cur][j] = IF j = i THEN addr ELSE given[cur][j]
    BY <1>2, <1>5, <2>1, <2>3
  <2> QED BY <1>5, <2>2, <2>3, <2>4
<1>7. \A f \in File, l \in {1, 2} : Top(f, l)' = Top(f, l)
  <2> SUFFICES ASSUME NEW f \in File, NEW l \in {1, 2} PROVE Top(f, l)' = Top(f, l)
    OBVIOUS
  <2>1. Direct + l - 1 \in 0 .. (Direct + 1) /\ Direct + l - 1 >= Direct /\ Direct = First(1)
    BY Numbers
  <2>2. PICK b \in 0 .. (Direct + 1) : b = Direct + l - 1
    BY <2>1
  <2>3. blocks'[f][b] = IF f = cur /\ b = Index /\ Lv = 0 THEN addr ELSE blocks[f][b]
    BY StoreWrites
  <2>4. ~(b = Index /\ Lv = 0)
    BY <1>1, <1>2, <2>1, <2>2
  <2> QED BY <2>2, <2>3, <2>4 DEF Top
\* The roles before and after.
<1>8. PICK q, r : q = <<cur, "addr", 0>> /\ r = <<cur, "data", i>>
  OBVIOUS
<1>9. q \in Taken /\ Holders[q] = addr /\ r \notin Taken /\ r \in Role
  <2>1. q \in Taken /\ Holders[q] = addr
    BY <1>2, <1>4, <1>8, HoldersFacts
  <2>2. r \in Role /\ r[1] = cur /\ r[2] = "data" /\ r[3] = i
    BY <1>2, <1>8 DEF Role
  <2>3. ~(i < fsize[cur])
    BY <1>2
  <2> QED BY <2>1, <2>2, <2>3 DEF Taken, IsTaken
<1>10. /\ fsize'[cur] > First(1) <=> fsize[cur] > First(1) \/ (pc \in {"top", "child"} /\ Lv = 1)
       /\ fsize'[cur] > First(2) <=> fsize[cur] > First(2) \/ (pc \in {"top", "child"} /\ Lv = 2)
       /\ fsize'[cur] > First(2) <=> fsize[cur] > First(2) \/ pc = "child"
  <2>1. (Lv = 2 <=> pc = "child") /\ (Lv > 0 => HasTopOf(cur, Lv))
    BY StoreWrites
  <2>2. fsize'[cur] = i + 1 /\ (fsize'[cur] > First(1) <=> i >= First(1)) /\ (fsize'[cur] > First(2) <=> i >= First(2))
    BY <1>2, <1>6
  <2>3. i = First(1) => Lv = 1 /\ pc \in {"top", "child"}
    BY <1>2, <2>1 DEF HasTopOf
  <2>4. Lv = 2 => pc \in {"top", "child"}
    BY <2>1
  <2>5. i < First(1) => Lv = 0
    BY <1>2
  <2> QED BY <1>2, <2>1, <2>2, <2>3, <2>4, <2>5
<1>11. Taken' = (Taken \ {q}) \cup {r}
  <2>1. r \in Taken'
    <3>1. r[1] = cur /\ r[2] = "data" /\ r[3] = i /\ i < fsize'[cur]
      BY <1>2, <1>6, <1>8
    <3> QED BY <1>9, <3>1 DEF Taken, IsTaken
  <2>2. q \notin Taken'
    <3>1. q[2] = "addr"
      BY <1>8
    <3> QED BY <1>4, <3>1 DEF Taken, IsTaken, Setting
  <2>3. ASSUME NEW u \in Role, u # q, u # r
        PROVE  IsTaken(u, fsize', pc', cur') <=> IsTaken(u, fsize, pc, cur)
    <3>1. CASE u[1] # cur
      <4>1. u[1] \in File /\ fsize'[u[1]] = fsize[u[1]] /\ cur' = cur
        BY <1>3, <1>6, <3>1 DEF Role
      <4> QED BY <3>1, <4>1 DEF IsTaken
    <3>2. CASE u[1] = cur /\ u[2] = "data"
      <4>1. u = <<cur, "data", u[3]>> /\ u[3] \in Nat
        BY <3>2 DEF Role
      <4>2. u[3] # i
        BY <1>8, <2>3, <4>1
      <4>3. u[3] < fsize'[cur] <=> u[3] < fsize[cur]
        BY <1>2, <1>6, <4>1, <4>2
      <4> QED BY <3>2, <4>3 DEF IsTaken
    <3>3. CASE u[1] = cur /\ u[2] = "top"
      BY <1>2, <1>3, <1>4, <1>10, <3>3 DEF IsTaken
    <3>4. CASE u[1] = cur /\ u[2] = "child"
      BY <1>3, <1>4, <1>10, <3>4 DEF IsTaken
    <3>5. CASE u[1] = cur /\ u[2] = "addr"
      <4>1. u = <<cur, "addr", u[3]>> /\ u[3] # 0
        BY <1>8, <2>3, <3>5 DEF Role
      <4> QED BY <3>5, <4>1 DEF IsTaken
    <3> QED BY <3>1, <3>2, <3>3, <3>4, <3>5 DEF Role
  <2> QED BY <1>9, <2>1, <2>2, <2>3 DEF Taken
\* The clusters that list addresses and are not written.
<1>12. /\ \A f \in File : f # cur /\ fsize[f] > First(1) => content'[Top(f, 1)] = content[Top(f, 1)]
       /\ \A f \in File : f # cur /\ fsize[f] > First(2) =>
            content'[Top(f, 2)] = content[Top(f, 2)] /\ content'[Kid(f)] = content[Kid(f)]
       /\ Lv = 2 => content'[Top(cur, 1)] = content[Top(cur, 1)]
  <2>1. (Lv = 1 => HasTopOf(cur, 1)) /\ (Lv = 2 => HasTopOf(cur, 2) /\ HasKid(cur) /\ Kid(cur) = child)
    BY <1>2, StoreWrites DEF HasKid, Kid
  <2>2. \A d \in Cluster : (Lv = 1 => d # Top(cur, 1)) /\ (Lv = 2 => d # child /\ d # Top(cur, 2))
                            => content'[d] = content[d]
    BY StoreWrites
  <2>3. ASSUME NEW f \in File, f # cur, fsize[f] > First(1)
        PROVE  content'[Top(f, 1)] = content[Top(f, 1)]
    <3>1. HasTopOf(f, 1) /\ Top(f, 1) \in Cluster
      BY <2>3, HeldFacts DEF HasTopOf
    <3>2. (Lv = 1 => Top(f, 1) # Top(cur, 1)) /\ (Lv = 2 => Top(f, 1) # child /\ Top(f, 1) # Top(cur, 2))
      BY <1>2, <2>1, <2>3, <3>1, Apart
    <3> QED BY <2>2, <3>1, <3>2
  <2>4. ASSUME NEW f \in File, f # cur, fsize[f] > First(2)
        PROVE  content'[Top(f, 2)] = content[Top(f, 2)] /\ content'[Kid(f)] = content[Kid(f)]
    <3>1. HasTopOf(f, 2) /\ Top(f, 2) \in Cluster /\ HasKid(f) /\ Kid(f) \in Cluster
      BY <2>4, HeldFacts DEF HasTopOf, HasKid
    <3>2. (Lv = 1 => Top(f, 2) # Top(cur, 1)) /\ (Lv = 2 => Top(f, 2) # child /\ Top(f, 2) # Top(cur, 2))
      BY <1>2, <2>1, <2>4, <3>1, Apart
    <3>3. (Lv = 1 => Kid(f) # Top(cur, 1)) /\ (Lv = 2 => Kid(f) # child /\ Kid(f) # Top(cur, 2))
      BY <1>2, <2>1, <2>4, <3>1, Apart
    <3> QED BY <2>2, <3>1, <3>2, <3>3
  <2>5. ASSUME Lv = 2 PROVE content'[Top(cur, 1)] = content[Top(cur, 1)]
    <3>1. fsize[cur] > First(1)
      BY <1>2, <2>5
    <3>2. HasTopOf(cur, 1) /\ Top(cur, 1) \in Cluster
      BY <1>2, <3>1, HeldFacts DEF HasTopOf
    <3>3. Top(cur, 1) # child /\ Top(cur, 1) # Top(cur, 2)
      BY <1>2, <2>1, <2>5, <3>2, Apart
    <3> QED BY <2>2, <2>5, <3>2, <3>3
  <2> QED BY <2>3, <2>4, <2>5
<1>13. /\ \A f \in File : Kid(f)' = content'[Top(f, 2)][0]
       /\ \A f \in File : f # cur /\ fsize[f] > First(2) => Kid(f)' = Kid(f)
       /\ \A f \in File : f = cur /\ Lv = 2 => Kid(f)' = child /\ Kid(f) = child
  <2>1. \A f \in File : Kid(f)' = content'[Top(f, 2)][0]
    BY <1>4, <1>7 DEF Kid
  <2>2. \A f \in File : f # cur => Kid(f) = content[Top(f, 2)][0]
    BY DEF Kid
  <2>3. ASSUME NEW f \in File, f = cur, Lv = 2 PROVE Kid(f)' = child /\ Kid(f) = child
    <3>1. pc = "child" /\ content'[Top(f, 2)][0] = child
      BY <2>3, StoreWrites
    <3>2. Kid(f) = child
      BY <2>3, <3>1 DEF Kid
    <3> QED BY <2>1, <3>1, <3>2
  <2> QED BY <1>12, <2>1, <2>2, <2>3
<1>14. \A u \in Taken \ {q} : Holders'[u] = Holders[u]
  <2> SUFFICES ASSUME NEW u \in Taken, u # q PROVE Holders'[u] = Holders[u]
    OBVIOUS
  <2>1. Holders'[u] = Holder(u)' /\ Holders[u] = Holder(u) /\ u \in Role
    BY <1>11 DEF Holders, Taken
  <2>2. CASE u[2] = "data"
    <3>1. u[1] \in File /\ u[3] \in Nat /\ u[3] < fsize[u[1]] /\ u[3] \in 0 .. (MaxSize[u[1]] - 1)
      <4>1. u[1] \in File /\ u[3] \in Nat /\ u[3] < fsize[u[1]]
        BY <2>2 DEF Taken, IsTaken, Role
      <4> QED BY <1>5, <4>1, Numbers
    <3>2. ~(u[1] = cur /\ u[3] = i)
      BY <1>2, <3>1
    <3> QED BY <1>6, <2>1, <2>2, <3>1, <3>2 DEF Holder
  <2>3. CASE u[2] = "top"
    <3>1. u[1] \in File /\ u[3] \in {1, 2}
      BY <2>3 DEF Taken, IsTaken, Role
    <3> QED BY <1>7, <2>1, <2>3, <3>1 DEF Holder, Top
  <2>4. CASE u[2] = "child"
    <3>1. u[1] \in File /\ (fsize[u[1]] > First(2) \/ (u[1] = cur /\ pc = "child"))
      BY <2>4 DEF Taken, IsTaken, Role
    <3>2. u[1] = cur => Lv = 2
      <4>1. fsize[cur] > First(2) => Lv = 2
        BY <1>2
      <4> QED BY <3>1, <4>1, StoreWrites
    <3>3. Kid(u[1])' = Kid(u[1])
      <4>1. CASE u[1] = cur
        BY <1>13, <3>1, <3>2, <4>1
      <4>2. CASE u[1] # cur
        BY <1>13, <3>1, <4>2
      <4> QED BY <4>1, <4>2
    <3> QED BY <2>1, <2>4, <3>3 DEF Holder
  <2>5. CASE u[2] = "addr"
    <3>1. u[3] = 0 /\ u[1] = cur
      BY <2>5 DEF Taken, IsTaken
    <3> QED BY <1>8, <2>1, <2>5, <3>1 DEF Role
  <2> QED BY <2>1, <2>2, <2>3, <2>4, <2>5 DEF Role
<1>15. Holders'[r] = Holders[q]
  <2>1. Holders'[r] = Holder(r)' /\ r[1] = cur /\ r[2] = "data" /\ r[3] = i
    BY <1>8, <1>11 DEF Holders
  <2>2. Holder(r)' = given'[cur][i]
    BY <2>1 DEF Holder
  <2> QED BY <1>2, <1>6, <1>9, <2>1, <2>2
<1>16. Sound(Holders', free', lost')
  <2>1. DOMAIN Holders' = Taken' /\ DOMAIN Holders = Taken
    BY DEF Holders
  <2>2. Sound(Holders, free, lost)
    BY DEF BlockInv
  <2>3. Sound(Holders', free, lost)
    BY <1>9, <1>11, <1>14, <1>15, <2>1, <2>2, SoundMove
  <2> QED BY <1>3, <2>3
<1>17. BlockTypeOK'
  <2>1. \A f \in File : fsize'[f] \in 0 .. MaxSize[f]
    <3> SUFFICES ASSUME NEW f \in File PROVE fsize'[f] \in 0 .. MaxSize[f]
      OBVIOUS
    <3>1. fsize'[f] = IF f = cur THEN i + 1 ELSE fsize[f]
      BY <1>6
    <3>2. CASE f = cur
      <4>1. i + 1 \in 0 .. MaxSize[cur]
        BY <1>2
      <4> QED BY <3>1, <3>2, <4>1
    <3>3. CASE f # cur
      BY <1>5, <3>1, <3>3
    <3> QED BY <3>2, <3>3
  <2>2. left' \in 0 .. MaxSize[cur] /\ Zero \in Address
    <3>1. left' = left - 1
      BY <1>3
    <3>2. left - 1 \in 0 .. MaxSize[cur]
      <4>1. left \in 0 .. MaxSize[cur]
        BY DEF BlockInv, BlockTypeOK
      <4> QED BY <1>2, <1>5, <4>1
    <3> QED BY <3>1, <3>2 DEF Address
  <2> QED BY <1>2, <1>3, <1>4, <1>6, <2>1, <2>2, StoreWrites DEF BlockInv, BlockTypeOK
<1>18. Job'
  <2>1. pc' = "extend" => left # 1
    BY <1>3
  <2>2. pc' = "extend" => left' >= 1 /\ fsize'[cur] + left' <= MaxSize[cur]
    BY <1>2, <1>3, <1>5, <1>6, <2>1
  <2> QED BY <1>3, <1>4, <2>2 DEF Job, Setting
<1>19. Fresh'
  BY <1>4 DEF Fresh
<1>20. Placed'
  <2>1. ASSUME NEW f \in File, NEW j \in 0 .. (fsize'[f] - 1)
        PROVE  /\ j < First(1) => blocks'[f][j] = given'[f][j]
               /\ j >= First(1) /\ j < First(2) => content'[Top(f, 1)'][j - First(1)] = given'[f][j]
               /\ j >= First(2) => content'[Kid(f)'][j - First(2)] = given'[f][j]
    <3>1. j \in Nat /\ j \in 0 .. (MaxSize[f] - 1) /\ j < fsize'[f] /\ fsize[f] \in Nat
      <4>1. fsize[f] \in Nat /\ fsize'[f] \in Nat /\ MaxSize[f] \in Nat
        BY <1>5, <1>6, Numbers
      <4>2. fsize'[f] <= MaxSize[f]
        <5>1. CASE f = cur
          <6>1. fsize'[f] = i + 1 /\ i < MaxSize[f]
            BY <1>2, <1>6, <5>1
          <6> QED BY <4>1, <6>1
        <5>2. CASE f # cur
          BY <1>5, <1>6, <4>1, <5>2
        <5> QED BY <5>1, <5>2
      <4> QED BY <4>1, <4>2
    <3>2. j < First(1) => j \in 0 .. (Direct + 1)
      BY <3>1, Numbers
    <3>3. /\ j >= First(1) /\ j < First(2) => j - First(1) \in Slot
          /\ f = cur /\ j >= First(2) => j - First(2) \in Slot
      <4>1. f = cur => j < Direct + ACount + ACount
        BY <1>2, <3>1, Numbers DEF WithinFirstChild
      <4> QED BY <3>1, <4>1, Numbers DEF Slot
    <3>4. CASE f # cur
      <4>1. given'[f][j] = given[f][j] /\ j < fsize[f] /\ j \in 0 .. (fsize[f] - 1)
        BY <1>6, <3>1, <3>4
      <4>2. j < First(1) => blocks'[f][j] = blocks[f][j]
        BY <3>2, <3>4, StoreWrites
      <4>3. j >= First(1) => fsize[f] > First(1)
        BY <1>2, <3>1, <4>1
      <4>4. j >= First(2) => fsize[f] > First(2)
        BY <1>2, <3>1, <4>1
      <4>5. /\ j < First(1) => blocks[f][j] = given[f][j]
            /\ j >= First(1) /\ j < First(2) => content[Top(f, 1)][j - First(1)] = given[f][j]
            /\ j >= First(2) => content[Kid(f)][j - First(2)] = given[f][j]
        BY <4>1 DEF BlockInv, Placed
      <4> QED BY <1>7, <1>12, <1>13, <3>4, <4>1, <4>2, <4>3, <4>4, <4>5
    <3>5. CASE f = cur /\ j = i
      <4>1. given'[f][j] = addr
        BY <1>6, <3>1, <3>5
      <4>2. j < First(1) => blocks'[f][j] = addr
        BY <1>1, <1>2, <3>2, <3>5, StoreWrites
      <4>3. j >= First(1) /\ j < First(2) => content'[Top(f, 1)][j - First(1)] = addr
        BY <1>1, <1>2, <3>3, <3>5, StoreWrites
      <4>4. j >= First(2) => content'[child][j - First(2)] = addr /\ Kid(f)' = child
        BY <1>1, <1>2, <1>13, <3>3, <3>5, StoreWrites
      <4> QED BY <1>7, <3>5, <4>1, <4>2, <4>3, <4>4
    <3>6. CASE f = cur /\ j # i
      <4>1. given'[f][j] = given[f][j] /\ j < i /\ j \in 0 .. (fsize[f] - 1)
        BY <1>2, <1>6, <3>1, <3>6
      <4>2. j < First(1) => blocks'[f][j] = blocks[f][j]
        BY <1>1, <3>2, <3>6, StoreWrites
      <4>3. j >= First(1) /\ j < First(2) => content'[Top(f, 1)][j - First(1)] = content[Top(f, 1)][j - First(1)]
        <5>1. j >= First(1) => Lv = 1 \/ Lv = 2
          BY <1>2, <3>1, <4>1
        <5>2. j - First(1) # i - First(1)
          BY <1>2, <3>1, <3>6
        <5> QED BY <1>1, <1>12, <3>3, <3>6, <5>1, <5>2, StoreWrites
      <4>4. j >= First(2) => Lv = 2 /\ content'[child][j - First(2)] = content[child][j - First(2)]
        <5>1. j >= First(2) => Lv = 2
          BY <1>2, <3>1, <4>1
        <5>2. j - First(2) # i - First(2)
          BY <1>2, <3>1, <3>6
        <5> QED BY <1>1, <3>3, <3>6, <5>1, <5>2, StoreWrites
      <4>5. /\ j < First(1) => blocks[f][j] = given[f][j]
            /\ j >= First(1) /\ j < First(2) => content[Top(f, 1)][j - First(1)] = given[f][j]
            /\ j >= First(2) => content[Kid(f)][j - First(2)] = given[f][j]
        BY <4>1 DEF BlockInv, Placed
      <4>6. j >= First(2) => content'[Kid(f)'][j - First(2)] = given[f][j]
        BY <1>13, <3>6, <4>4, <4>5
      <4>7. j >= First(1) /\ j < First(2) => content'[Top(f, 1)'][j - First(1)] = given[f][j]
        BY <1>7, <3>6, <4>3, <4>5
      <4> QED BY <4>1, <4>2, <4>5, <4>6, <4>7
    <3> QED BY <3>4, <3>5, <3>6
  <2>2. \A f \in File : content'[Top(f, 2)'][0] = Kid(f)'
    BY <1>7, <1>13
  <2> QED BY <2>1, <2>2 DEF Placed
<1> QED BY <1>16, <1>17, <1>18, <1>19, <1>20 DEF BlockInv

\* get_cluster finds what was given.
LEMMA GetFacts ==
  ASSUME BlockInv, WithinFirstChild, NEW f \in File, NEW i \in Nat, i < fsize[f]
  PROVE  Get(f, i) = given[f][i]
<1>1. fsize[f] \in 0 .. MaxSize[f] /\ MaxSize[f] \in Nat /\ MaxSize[f] <= Direct + ACount + ACount
  BY Numbers DEF BlockInv, BlockTypeOK, WithinFirstChild
<1>2. i \in 0 .. (fsize[f] - 1) /\ i < Direct + ACount + ACount
  BY <1>1, Numbers
<1>3. /\ i < First(1) => blocks[f][i] = given[f][i]
      /\ i >= First(1) /\ i < First(2) => content[Top(f, 1)][i - First(1)] = given[f][i]
      /\ i >= First(2) => content[Kid(f)][i - First(2)] = given[f][i]
      /\ i >= First(2) => content[Top(f, 2)][0] = Kid(f)
  <2>1. i >= First(2) => fsize[f] > First(2)
    BY <1>1, Numbers
  <2> QED BY <1>2, <2>1 DEF BlockInv, Placed
<1>4. CASE Level(i) = 0
  BY <1>3, <1>4, Numbers DEF Get
<1>5. CASE Level(i) = 1
  BY <1>3, <1>5, Numbers DEF Get
<1>6. CASE Level(i) = 2
  <2>1. i >= First(2) /\ i >= Direct + ACount
    BY <1>6, Numbers
  <2>2. Outer(i) = 0 /\ Inner(i) = i - First(2)
    BY <1>2, <2>1, FirstChild
  <2> QED BY <1>3, <1>6, <2>1, <2>2 DEF Get
<1> QED BY <1>4, <1>5, <1>6, Numbers

\* What shrink gives back with the last index.
LEMMA GivenBackFacts ==
  ASSUME BlockInv, WithinFirstChild, NEW f \in File, NEW i \in Nat, fsize[f] = i + 1
  PROVE  GivenBack(f, i) = {given[f][i]} \cup (IF i = First(1) THEN {Top(f, 1)} ELSE {})
                                         \cup (IF i = First(2) THEN {Top(f, 2), Kid(f)} ELSE {})
<1>1. /\ fsize[f] \in 0 .. MaxSize[f] /\ MaxSize[f] \in Nat /\ MaxSize[f] <= Direct + ACount + ACount
      /\ i < fsize[f] /\ i < Direct + ACount + ACount
  BY Numbers DEF BlockInv, BlockTypeOK, WithinFirstChild
<1>2. Get(f, i) = given[f][i]
  BY <1>1, GetFacts
<1>3. First(1) = Direct /\ First(2) = Direct + ACount /\ First(1) \in Nat /\ First(2) \in Nat /\ First(1) < First(2)
  BY Numbers
<1>4. CASE Level(i) = 0
  <2>1. i # First(1) /\ i # First(2)
    BY <1>3, <1>4, Numbers
  <2> QED BY <1>2, <1>4, <2>1 DEF GivenBack
<1>5. CASE Level(i) = 1
  <2>1. i # First(2)
    BY <1>3, <1>5, Numbers
  <2> QED BY <1>2, <1>5, <2>1 DEF GivenBack
<1>6. CASE Level(i) = 2
  <2>1. i >= First(2) /\ i >= Direct + ACount /\ i # First(1)
    BY <1>3, <1>6, Numbers
  <2>2. Outer(i) = 0 /\ Inner(i) = i - First(2)
    BY <1>1, <2>1, FirstChild
  <2>3. Inner(i) = 0 <=> i = First(2)
    BY <1>3, <2>2
  <2>4. content[Top(f, 2)][0] = Kid(f)
    <3>1. fsize[f] > First(2)
      BY <1>1, <1>3, <2>1
    <3> QED BY <3>1 DEF BlockInv, Placed
  <2> QED BY <1>2, <1>6, <2>1, <2>2, <2>3, <2>4 DEF GivenBack
<1> QED BY <1>4, <1>5, <1>6, Numbers

LEMMA ShrinkKeeps ==
  ASSUME BlockInv, WithinFirstChild, Shrink
  PROVE  BlockInv'
<1>1. /\ pc = "shrink" /\ cur \in File /\ fsize[cur] \in 0 .. MaxSize[cur] /\ MaxSize[cur] \in Nat
      /\ left \in 1 .. fsize[cur]
      /\ First(1) \in Nat /\ First(2) \in Nat /\ First(1) < First(2)
  <2>1. pc = "shrink" /\ left \in 1 .. fsize[cur]
    BY DEF Shrink, BlockInv, Job
  <2>2. cur \in File /\ fsize[cur] \in 0 .. MaxSize[cur]
    BY DEF BlockInv, BlockTypeOK
  <2> QED BY <2>1, <2>2, Numbers
<1>2. PICK i \in Nat : i = fsize[cur] - 1 /\ fsize[cur] = i + 1
  BY <1>1
<1>3. PICK G : G = GivenBack(cur, i)
  OBVIOUS
<1>4. /\ free' = free \cup G
      /\ fsize' = [fsize EXCEPT ![cur] = i] /\ given' = [given EXCEPT ![cur][i] = Zero]
      /\ content' = [c \in Cluster |-> IF c \in G THEN Bytes ELSE content[c]]
      /\ blocks' = IF Level(i) = 0 THEN [blocks EXCEPT ![cur][i] = Zero] ELSE blocks
      /\ left' = left - 1 /\ pc' = (IF left = 1 THEN "idle" ELSE "shrink")
      /\ UNCHANGED <<cur, addr, child, lost>>
  BY <1>2, <1>3 DEF Shrink, Iterated
<1>5. /\ fsize \in [File -> Nat] /\ DOMAIN given = File /\ Direct \in Nat
      /\ \A f \in File : given[f] \in [0 .. (MaxSize[f] - 1) -> Address] /\ fsize[f] \in 0 .. MaxSize[f]
      /\ blocks \in [File -> [0 .. (Direct + 1) -> Address]]
      /\ content \in [Cluster -> [Slot -> Address \cup {Text}]]
  BY Numbers DEF BlockInv, BlockTypeOK
<1>6. pc' \in {"idle", "shrink"}
  BY <1>4
<1>7. /\ \A f \in File : fsize'[f] = IF f = cur THEN i ELSE fsize[f]
      /\ fsize' \in [File -> Nat] /\ DOMAIN given' = File
      /\ \A f \in File : given'[f] \in [0 .. (MaxSize[f] - 1) -> Address]
      /\ \A f \in File : \A j \in 0 .. (MaxSize[f] - 1) :
           given'[f][j] = IF f = cur /\ j = i THEN Zero ELSE given[f][j]
  <2>1. i \in 0 .. (MaxSize[cur] - 1) /\ Zero \in Address
    BY <1>1, <1>2 DEF Address
  <2> QED BY <1>1, <1>4, <1>5, <2>1
<1>7a. \A f \in File : /\ fsize'[f] \in Nat /\ fsize[f] \in Nat /\ MaxSize[f] \in Nat
                       /\ fsize'[f] <= fsize[f] /\ fsize[f] <= MaxSize[f]
  <2> SUFFICES ASSUME NEW f \in File
               PROVE  /\ fsize'[f] \in Nat /\ fsize[f] \in Nat /\ MaxSize[f] \in Nat
                      /\ fsize'[f] <= fsize[f] /\ fsize[f] <= MaxSize[f]
    OBVIOUS
  <2>1. fsize[f] \in Nat /\ MaxSize[f] \in Nat /\ fsize[f] <= MaxSize[f]
    BY <1>5, Numbers
  <2>2. CASE f = cur
    BY <1>2, <1>7, <2>1, <2>2
  <2>3. CASE f # cur
    BY <1>7, <2>1, <2>3
  <2> QED BY <2>1, <2>2, <2>3
<1>8. /\ blocks' \in [File -> [0 .. (Direct + 1) -> Address]]
      /\ \A f \in File, b \in 0 .. (Direct + 1) :
           blocks'[f][b] = IF f = cur /\ b = i /\ i < First(1) THEN Zero ELSE blocks[f][b]
  <2>1. Zero \in Address /\ (Level(i) = 0 <=> i < First(1)) /\ First(1) = Direct
    BY Numbers DEF Address
  <2>2. CASE Level(i) = 0
    <3>1. i \in 0 .. (Direct + 1)
      BY <1>5, <2>1, <2>2
    <3> QED BY <1>1, <1>4, <1>5, <2>1, <2>2, <3>1
  <2>3. CASE Level(i) # 0
    BY <1>4, <1>5, <2>1, <2>3
  <2> QED BY <2>2, <2>3
<1>9. /\ content' \in [Cluster -> [Slot -> Address \cup {Text}]]
      /\ \A d \in Cluster : d \notin G => content'[d] = content[d]
  <2>1. Bytes \in [Slot -> Address \cup {Text}]
    BY DEF Bytes
  <2> QED BY <1>4, <1>5, <2>1
<1>10. \A f \in File, l \in {1, 2} : Top(f, l)' = Top(f, l)
  <2> SUFFICES ASSUME NEW f \in File, NEW l \in {1, 2} PROVE Top(f, l)' = Top(f, l)
    OBVIOUS
  <2>1. PICK b \in 0 .. (Direct + 1) : b = Direct + l - 1 /\ b >= First(1)
    BY Numbers
  <2>2. ~(b = i /\ i < First(1))
    BY <1>1, <2>1
  <2>3. blocks'[f][b] = blocks[f][b]
    BY <1>8, <2>2
  <2> QED BY <2>1, <2>3 DEF Top
\* The roles that end.
<1>11. PICK R : R = Taken \ Taken'
  OBVIOUS
<1>12. Taken' \subseteq Taken
  <2> SUFFICES ASSUME NEW u \in Role, IsTaken(u, fsize', pc', cur') PROVE IsTaken(u, fsize, pc, cur)
    BY DEF Taken
  <2>1. u[1] \in File /\ u[3] \in Nat /\ fsize'[u[1]] \in Nat /\ fsize[u[1]] \in Nat /\ fsize'[u[1]] <= fsize[u[1]]
    BY <1>7a DEF Role
  <2>2. pc' \notin {"top", "child"} /\ pc' # "child" /\ pc' \notin Setting
    BY <1>6 DEF Setting
  <2>3. /\ u[3] < fsize'[u[1]] => u[3] < fsize[u[1]]
        /\ fsize'[u[1]] > First(1) => fsize[u[1]] > First(1)
        /\ fsize'[u[1]] > First(2) => fsize[u[1]] > First(2)
    BY <1>1, <2>1
  <2> QED BY <2>2, <2>3 DEF IsTaken
<1>13. PICK d, t1, t2, k : /\ d = <<cur, "data", i>> /\ t1 = <<cur, "top", 1>>
                           /\ t2 = <<cur, "top", 2>> /\ k = <<cur, "child", 0>>
  OBVIOUS
<1>14. R = {d} \cup (IF i = First(1) THEN {t1} ELSE {}) \cup (IF i = First(2) THEN {t2, k} ELSE {})
  <2>1. pc \notin {"top", "child"} /\ pc \notin Setting /\ pc' \notin {"top", "child"} /\ pc' \notin Setting
    BY <1>1, <1>6 DEF Setting
  <2>2. /\ fsize[cur] > First(1) <=> i >= First(1)
        /\ fsize[cur] > First(2) <=> i >= First(2)
        /\ fsize'[cur] > First(1) <=> i > First(1)
        /\ fsize'[cur] > First(2) <=> i > First(2)
    BY <1>1, <1>2, <1>7
  <2>3. /\ d \in Role /\ d[1] = cur /\ d[2] = "data" /\ d[3] = i
        /\ t1 \in Role /\ t1[1] = cur /\ t1[2] = "top" /\ t1[3] = 1
        /\ t2 \in Role /\ t2[1] = cur /\ t2[2] = "top" /\ t2[3] = 2
        /\ k \in Role /\ k[1] = cur /\ k[2] = "child" /\ k[3] = 0
    BY <1>1, <1>13 DEF Role
  <2>4. d \in R
    <3>1. i < fsize[cur] /\ ~(i < fsize'[cur])
      BY <1>1, <1>2, <1>7
    <3> QED BY <1>11, <2>3, <3>1 DEF Taken, IsTaken
  <2>5. t1 \in R <=> i = First(1)
    <3>1. t1 \in R <=> fsize[cur] > First(1) /\ ~(fsize'[cur] > First(1))
      BY <1>4, <1>11, <2>1, <2>3 DEF Taken, IsTaken
    <3> QED BY <1>1, <2>2, <3>1
  <2>6. t2 \in R <=> i = First(2)
    <3>1. t2 \in R <=> fsize[cur] > First(2) /\ ~(fsize'[cur] > First(2))
      BY <1>4, <1>11, <2>1, <2>3 DEF Taken, IsTaken
    <3> QED BY <1>1, <2>2, <3>1
  <2>7. k \in R <=> i = First(2)
    <3>1. k \in R <=> fsize[cur] > First(2) /\ ~(fsize'[cur] > First(2))
      BY <1>1, <1>4, <1>6, <1>11, <2>3 DEF Taken, IsTaken
    <3> QED BY <1>1, <2>2, <3>1
  <2>8. ASSUME NEW u \in R PROVE u \in {d, t1, t2, k}
    <3>1. u \in Role /\ IsTaken(u, fsize, pc, cur) /\ ~IsTaken(u, fsize', pc', cur')
      BY <1>11 DEF Taken
    <3>2. u[1] = cur
      <4>1. CASE u[1] # cur
        <5>1. u[1] \in File /\ fsize'[u[1]] = fsize[u[1]] /\ cur' = cur
          BY <1>4, <1>7, <3>1, <4>1 DEF Role
        <5> QED BY <3>1, <4>1, <5>1 DEF IsTaken
      <4> QED BY <4>1
    <3>3. CASE u[2] = "data"
      <4>1. u = <<cur, "data", u[3]>> /\ u[3] \in Nat /\ u[3] < fsize[cur] /\ ~(u[3] < fsize'[cur])
        BY <3>1, <3>2, <3>3 DEF IsTaken, Role
      <4>2. u[3] = i
        BY <1>1, <1>2, <1>7, <4>1
      <4> QED BY <1>13, <4>1, <4>2
    <3>4. CASE u[2] = "top"
      <4>1. u = <<cur, "top", u[3]>> /\ u[3] \in {1, 2}
        BY <3>1, <3>2, <3>4 DEF IsTaken, Role
      <4> QED BY <1>13, <4>1
    <3>5. CASE u[2] = "child"
      <4>1. u = <<cur, "child", u[3]>> /\ u[3] = 0
        BY <3>1, <3>2, <3>5 DEF IsTaken, Role
      <4> QED BY <1>13, <4>1
    <3>6. u[2] # "addr"
      BY <2>1, <3>1 DEF IsTaken
    <3> QED BY <3>1, <3>3, <3>4, <3>5, <3>6 DEF Role
  <2> QED BY <2>4, <2>5, <2>6, <2>7, <2>8
<1>15. G = { Holders[u] : u \in R }
  <2>1. Holders[d] = given[cur][i]
    <3>1. i < fsize[cur]
      BY <1>2
    <3> QED BY <1>1, <1>13, <3>1, HoldersFacts
  <2>2. i = First(1) => Holders[t1] = Top(cur, 1)
    <3>1. i = First(1) => fsize[cur] > First(1)
      BY <1>1, <1>2
    <3> QED BY <1>1, <1>13, <3>1, HoldersTop
  <2>3. i = First(2) => Holders[t2] = Top(cur, 2) /\ Holders[k] = Kid(cur)
    <3>1. i = First(2) => fsize[cur] > First(2)
      BY <1>1, <1>2
    <3> QED BY <1>1, <1>13, <3>1, HoldersTop, HoldersFacts
  <2>4. G = {given[cur][i]} \cup (IF i = First(1) THEN {Top(cur, 1)} ELSE {})
                            \cup (IF i = First(2) THEN {Top(cur, 2), Kid(cur)} ELSE {})
    BY <1>1, <1>2, <1>3, GivenBackFacts
  <2>5. ~(i = First(1) /\ i = First(2))
    BY <1>1
  <2>6. CASE i = First(1)
    BY <1>14, <2>1, <2>2, <2>4, <2>5, <2>6
  <2>7. CASE i = First(2)
    BY <1>14, <2>1, <2>3, <2>4, <2>5, <2>7
  <2>8. CASE i # First(1) /\ i # First(2)
    BY <1>14, <2>1, <2>4, <2>8
  <2> QED BY <2>6, <2>7, <2>8
<1>16. Sound(Holders, free, lost) /\ DOMAIN Holders = Taken /\ DOMAIN Holders' = Taken'
  BY DEF BlockInv, Holders
\* The clusters that stay in use are not given back.
<1>17. \A u \in Taken' : Holders[u] \in Cluster \ G
  <2> SUFFICES ASSUME NEW u \in Taken', Holders[u] \in G PROVE FALSE
    BY <1>12, <1>16 DEF Sound
  <2>1. PICK v \in R : Holders[u] = Holders[v]
    BY <1>15
  <2>2. u = v
    BY <1>11, <1>12, <1>16, <2>1 DEF Sound
  <2> QED BY <1>11, <2>1, <2>2
<1>18. /\ \A f \in File, l \in {1, 2} : fsize'[f] > First(l) => Top(f, l) \in Cluster \ G
       /\ \A f \in File : fsize'[f] > First(2) => Kid(f) \in Cluster \ G
  <2>1. ASSUME NEW f \in File, NEW l \in {1, 2}, fsize'[f] > First(l)
        PROVE  Top(f, l) \in Cluster \ G
    <3>1. PICK u : u = <<f, "top", l>>
      OBVIOUS
    <3>2. u \in Role /\ u[1] = f /\ u[2] = "top" /\ u[3] = l
      BY <3>1 DEF Role
    <3>3. u \in Taken'
      BY <2>1, <3>2 DEF Taken, IsTaken
    <3>4. Holders[u] = Top(f, l)
      BY <1>12, <3>2, <3>3 DEF Holders, Holder
    <3> QED BY <1>17, <3>3, <3>4
  <2>2. ASSUME NEW f \in File, fsize'[f] > First(2)
        PROVE  Kid(f) \in Cluster \ G
    <3>1. PICK u : u = <<f, "child", 0>>
      OBVIOUS
    <3>2. u \in Role /\ u[1] = f /\ u[2] = "child" /\ u[3] = 0
      BY <3>1 DEF Role
    <3>3. u \in Taken'
      BY <2>2, <3>2 DEF Taken, IsTaken
    <3>4. Holders[u] = Kid(f)
      BY <1>12, <3>2, <3>3 DEF Holders, Holder
    <3> QED BY <1>17, <3>3, <3>4
  <2> QED BY <2>1, <2>2
<1>19. \A f \in File : fsize'[f] > First(2) => Kid(f)' = Kid(f)
  <2> SUFFICES ASSUME NEW f \in File, fsize'[f] > First(2) PROVE Kid(f)' = Kid(f)
    OBVIOUS
  <2>1. Kid(f) = content[Top(f, 2)][0] /\ Kid(f)' = content'[Top(f, 2)][0]
    BY <1>1, <1>6, <1>10 DEF Kid
  <2> QED BY <1>9, <1>18, <2>1
<1>20. \A u \in Taken' : Holders'[u] = Holders[u]
  <2> SUFFICES ASSUME NEW u \in Taken' PROVE Holders'[u] = Holders[u]
    OBVIOUS
  <2>1. Holders'[u] = Holder(u)' /\ Holders[u] = Holder(u) /\ u \in Role
    BY <1>12 DEF Holders, Taken
  <2>2. CASE u[2] = "data"
    <3>1. u[1] \in File /\ u[3] \in Nat /\ u[3] < fsize'[u[1]]
      BY <2>2 DEF Taken, IsTaken, Role
    <3>2. ~(u[1] = cur /\ u[3] = i) /\ u[3] < fsize[u[1]]
      BY <1>2, <1>5, <1>7, <3>1
    <3>3. u[3] \in 0 .. (MaxSize[u[1]] - 1)
      BY <1>5, <3>1, <3>2, Numbers
    <3> QED BY <1>7, <2>1, <2>2, <3>1, <3>2, <3>3 DEF Holder
  <2>3. CASE u[2] = "top"
    <3>1. u[1] \in File /\ u[3] \in {1, 2}
      BY <2>3 DEF Taken, IsTaken, Role
    <3> QED BY <1>10, <2>1, <2>3, <3>1 DEF Holder, Top
  <2>4. CASE u[2] = "child"
    <3>1. u[1] \in File /\ fsize'[u[1]] > First(2)
      BY <1>6, <2>4 DEF Taken, IsTaken, Role
    <3> QED BY <1>19, <2>1, <2>4, <3>1 DEF Holder
  <2>5. u[2] # "addr"
    BY <1>6 DEF Taken, IsTaken, Setting
  <2> QED BY <2>1, <2>2, <2>3, <2>4, <2>5 DEF Role
<1>21. Sound(Holders', free', lost')
  <2>1. R \subseteq Taken /\ Taken' = Taken \ R
    BY <1>11, <1>12
  <2>2. Sound(Holders', free \cup { Holders[u] : u \in R }, lost)
    BY <1>16, <1>20, <2>1, SoundFree
  <2> QED BY <1>4, <1>15, <2>2
<1>22. BlockTypeOK'
  <2>1. \A f \in File : fsize'[f] \in 0 .. MaxSize[f]
    BY <1>7a
  <2>2. left' \in 0 .. MaxSize[cur]
    BY <1>1, <1>4
  <2>3. free' \in SUBSET Cluster
    BY <1>21 DEF Sound
  <2> QED BY <1>4, <1>6, <1>7, <1>8, <1>9, <2>1, <2>2, <2>3 DEF BlockInv, BlockTypeOK
<1>23. Job'
  <2>1. pc' = "shrink" => left # 1
    BY <1>4
  <2>2. pc' = "shrink" => left' \in 1 .. fsize'[cur]
    BY <1>1, <1>2, <1>4, <1>7, <2>1
  <2>3. addr = Zero
    BY <1>1 DEF BlockInv, Job, Setting
  <2> QED BY <1>4, <1>6, <2>2, <2>3 DEF Job, Setting
<1>24. Fresh'
  BY <1>6 DEF Fresh
<1>25. Placed'
  <2>1. ASSUME NEW f \in File, NEW j \in 0 .. (fsize'[f] - 1)
        PROVE  /\ j < First(1) => blocks'[f][j] = given'[f][j]
               /\ j >= First(1) /\ j < First(2) => content'[Top(f, 1)'][j - First(1)] = given'[f][j]
               /\ j >= First(2) => content'[Kid(f)'][j - First(2)] = given'[f][j]
    <3>1. fsize[f] \in Nat /\ fsize'[f] \in Nat /\ MaxSize[f] \in Nat /\ fsize[f] <= MaxSize[f]
          /\ fsize'[f] <= fsize[f] /\ (f = cur => fsize'[f] = i)
      BY <1>7, <1>7a
    <3>2. j \in Nat /\ j \in 0 .. (MaxSize[f] - 1) /\ j \in 0 .. (fsize[f] - 1) /\ j < fsize'[f]
          /\ ~(f = cur /\ j = i)
      BY <3>1
    <3>3. given'[f][j] = given[f][j]
      BY <1>7, <3>2
    <3>4. j < First(1) => blocks'[f][j] = blocks[f][j]
      <4>1. j < First(1) => j \in 0 .. (Direct + 1)
        BY <3>2, Numbers
      <4> QED BY <1>8, <3>2, <4>1
    <3>5. j >= First(1) => content'[Top(f, 1)'] = content[Top(f, 1)]
      <4>1. j >= First(1) => fsize'[f] > First(1)
        BY <1>1, <3>1, <3>2
      <4> QED BY <1>9, <1>10, <1>18, <4>1
    <3>6. j >= First(2) => content'[Kid(f)'] = content[Kid(f)]
      <4>1. j >= First(2) => fsize'[f] > First(2)
        BY <1>1, <3>1, <3>2
      <4> QED BY <1>9, <1>18, <1>19, <4>1
    <3>7. /\ j < First(1) => blocks[f][j] = given[f][j]
          /\ j >= First(1) /\ j < First(2) => content[Top(f, 1)][j - First(1)] = given[f][j]
          /\ j >= First(2) => content[Kid(f)][j - First(2)] = given[f][j]
      BY <3>2 DEF BlockInv, Placed
    <3> QED BY <3>3, <3>4, <3>5, <3>6, <3>7
  <2>2. \A f \in File : content'[Top(f, 2)'][0] = Kid(f)'
    BY <1>6 DEF Kid
  <2> QED BY <2>1, <2>2 DEF Placed
<1> QED BY <1>21, <1>22, <1>23, <1>24, <1>25 DEF BlockInv

LEMMA BlockNextKeeps ==
  ASSUME BlockInv, WithinFirstChild, BlockNext
  PROVE  BlockInv'
<1>1. CASE \E f \in File : \E size \in 0 .. MaxSize[f] : Resize(f, size)
  BY <1>1, ResizeKeeps
<1>2. CASE AllocateData
  BY <1>2, AllocateDataKeeps
<1>3. CASE AllocateTop
  BY <1>3, AllocateTopKeeps
<1>4. CASE AllocateChild
  BY <1>4, AllocateChildKeeps
<1>5. CASE FindChild
  BY <1>5, FindChildKeeps
<1>6. CASE Store
  BY <1>6, StoreKeeps
<1>7. CASE AllocateThrows
  BY <1>7, AllocateThrowsKeeps
<1>8. CASE Shrink
  BY <1>8, ShrinkKeeps
<1> QED BY <1>1, <1>2, <1>3, <1>4, <1>5, <1>6, <1>7, <1>8 DEF BlockNext

\* Inside the bound a file has no second child.
LEMMA OneChild ==
  ASSUME BlockInv, WithinFirstChild, NEW f \in File, NEW k \in Slot,
         fsize[f] > First(2) + k * ACount
  PROVE  k = 0 /\ fsize[f] > First(2)
<1>1. PICK a \in Nat, b \in Nat, n \in Nat : a = ACount /\ a > 0 /\ b = First(2) /\ n = fsize[f] /\ n <= b + a
  <2>1. fsize[f] \in 0 .. MaxSize[f] /\ MaxSize[f] \in Nat /\ MaxSize[f] <= Direct + ACount + ACount
    BY Numbers DEF BlockInv, BlockTypeOK, WithinFirstChild
  <2> QED BY <2>1, Numbers
<1>2. k \in Nat /\ n > b + k * a
  BY <1>1 DEF Slot
<1>3. k >= 1 => k * a >= a
  <2>1. k * a = (k - 1) * a + a
    BY <1>1, <1>2
  <2>2. k >= 1 => (k - 1) * a \in Nat
    BY <1>1, <1>2
  <2> QED BY <1>1, <1>2, <2>1, <2>2
<1>4. k * a \in Nat
  BY <1>1, <1>2
<1> QED BY <1>1, <1>2, <1>3, <1>4

\* The uses of a file are roles, and lead to the clusters that have them.
LEMMA UsesAreRoles ==
  ASSUME BlockInv, WithinFirstChild
  PROVE  /\ \A u \in Use : u \in Taken /\ At(u) = Holders[u]
         /\ pc = "idle" => Taken \subseteq Use
<1>1. ASSUME NEW u \in Use PROVE u \in Taken /\ At(u) = Holders[u]
  <2>1. PICK f \in File : u \in Uses(f)
    BY DEF Use
  <2>2. fsize[f] \in Nat
    BY DEF BlockInv, BlockTypeOK
  <2>3. CASE u \in { <<f, "data", i>> : i \in 0 .. (fsize[f] - 1) }
    <3>1. PICK i \in 0 .. (fsize[f] - 1) : u = <<f, "data", i>>
      BY <2>3
    <3>2. i \in Nat /\ i < fsize[f]
      BY <2>2
    <3>3. At(u) = Get(f, i)
      BY <3>1 DEF At
    <3> QED BY <3>1, <3>2, <3>3, GetFacts, HoldersFacts
  <2>4. CASE u \in { <<f, "top", l>> : l \in { k \in 1 .. 2 : fsize[f] > First(k) } }
    <3>1. PICK l \in 1 .. 2 : u = <<f, "top", l>> /\ fsize[f] > First(l)
      BY <2>4
    <3>2. l \in {1, 2}
      OBVIOUS
    <3>3. At(u) = Top(f, l)
      BY <3>1 DEF At
    <3> QED BY <3>1, <3>2, <3>3, HoldersTop
  <2>5. CASE u \in { <<f, "child", k>> : k \in { k \in Slot : fsize[f] > First(2) + k * ACount } }
    <3>1. PICK k \in Slot : u = <<f, "child", k>> /\ fsize[f] > First(2) + k * ACount
      BY <2>5
    <3>2. k = 0 /\ fsize[f] > First(2)
      BY <3>1, OneChild
    <3>3. At(u) = content[Top(f, 2)][0]
      BY <3>1, <3>2 DEF At
    <3>4. content[Top(f, 2)][0] = Kid(f)
      BY <3>2 DEF BlockInv, Placed
    <3> QED BY <3>1, <3>2, <3>3, <3>4, HoldersFacts
  <2> QED BY <2>1, <2>3, <2>4, <2>5 DEF Uses
<1>2. ASSUME pc = "idle", NEW u \in Taken PROVE u \in Use
  <2>1. PICK f \in File, n \in Nat :
           \/ u = <<f, "data", n>> /\ n < fsize[f]
           \/ u = <<f, "top", n>> /\ n \in {1, 2} /\ fsize[f] > First(n)
           \/ u = <<f, "child", 0>> /\ fsize[f] > First(2)
    <3>1. u \in Role /\ IsTaken(u, fsize, pc, cur)
      BY DEF Taken
    <3> QED BY <1>2, <3>1, TakenFacts DEF Setting
  <2>2. fsize[f] \in Nat /\ First(2) \in Nat /\ ACount \in Nat
    BY Numbers DEF BlockInv, BlockTypeOK
  <2>3. CASE u = <<f, "data", n>> /\ n < fsize[f]
    <3>1. n \in 0 .. (fsize[f] - 1)
      BY <2>2, <2>3
    <3> QED BY <2>3, <3>1 DEF Use, Uses
  <2>4. CASE u = <<f, "top", n>> /\ n \in {1, 2} /\ fsize[f] > First(n)
    <3>1. n \in 1 .. 2
      BY <2>4
    <3> QED BY <2>4, <3>1 DEF Use, Uses
  <2>5. CASE u = <<f, "child", 0>> /\ fsize[f] > First(2)
    <3>1. 0 \in Slot /\ fsize[f] > First(2) + 0 * ACount
      BY <2>2, <2>5, Numbers DEF Slot
    <3> QED BY <2>5, <3>1 DEF Use, Uses
  <2> QED BY <2>1, <2>3, <2>4, <2>5
<1> QED BY <1>1, <1>2

\* The resize in progress included, under any order of resizes of any files
\* and with a drive that fills anywhere in them.
THEOREM BlockInvAlways == ASSUME WithinFirstChild PROVE BlockSpec => []BlockInv
<1>1. BlockInv /\ [BlockNext]_blockVars => BlockInv'
  BY BlockNextKeeps, BlockStutter
<1> QED BY <1>1, InitBlockInv, PTL DEF BlockSpec

\* A cluster serves one purpose of one file, and a used one is not free.
THEOREM NoSharingAlways == ASSUME WithinFirstChild PROVE BlockSpec => []NoSharing
<1>1. BlockInv => NoSharing
  <2> SUFFICES ASSUME BlockInv PROVE NoSharing
    OBVIOUS
  <2>1. Sound(Holders, free, lost) /\ DOMAIN Holders = Taken
    BY DEF BlockInv, Holders
  <2>2. \A u \in Use : u \in Taken /\ At(u) = Holders[u]
    BY UsesAreRoles
  <2>3. \A u, v \in Use : At(u) = At(v) => u = v
    BY <2>1, <2>2 DEF Sound
  <2>4. Used \cap free = {}
    BY <2>1, <2>2 DEF Sound, Used
  <2> QED BY <2>3, <2>4 DEF NoSharing
<1> QED BY <1>1, BlockInvAlways, PTL

\* Only a throwing m_allocate leaks clusters.
THEOREM AccountedAlways == ASSUME WithinFirstChild PROVE BlockSpec => []Accounted
<1>1. BlockInv => Accounted
  <2> SUFFICES ASSUME BlockInv, pc = "idle"
               PROVE  free \cup Used \cup lost = Cluster /\ lost \cap (free \cup Used) = {}
    BY DEF Accounted
  <2>1. Sound(Holders, free, lost) /\ DOMAIN Holders = Taken
    BY DEF BlockInv, Holders
  <2>2. Use = Taken /\ \A u \in Use : At(u) = Holders[u]
    BY UsesAreRoles
  <2>3. Used = { Holders[u] : u \in Taken }
    BY <2>2 DEF Used
  <2> QED BY <2>1, <2>3 DEF Sound
<1> QED BY <1>1, BlockInvAlways, PTL

\* get_cluster returns what set_cluster was given.
THEOREM GetReturnsSetAlways == ASSUME WithinFirstChild PROVE BlockSpec => []GetReturnsSet
<1>1. BlockInv => GetReturnsSet
  <2> SUFFICES ASSUME BlockInv, NEW f \in File, NEW i \in 0 .. (fsize[f] - 1)
               PROVE  Get(f, i) = given[f][i]
    BY DEF GetReturnsSet
  <2>1. fsize[f] \in Nat
    BY DEF BlockInv, BlockTypeOK
  <2>2. i \in Nat /\ i < fsize[f]
    BY <2>1
  <2> QED BY <2>2, GetFacts
<1> QED BY <1>1, BlockInvAlways, PTL

=============================================================================
