------------------------------- MODULE FileIO -------------------------------
(***************************************************************************)
(* read, write, seek and resize_inode of FilesystemCore on one open inode: *)
(* the file pointer, i_size in bytes, the blocks that back it, and the     *)
(* bytes in them.  Fileblock models which clusters the blocks are.         *)
(*                                                                         *)
(* Sizes and pointers are uint32_t: every sum is taken modulo Wrap.        *)
(***************************************************************************)
EXTENDS Integers, Sequences

CONSTANTS BSize,        \* s_bsize
          Wrap,         \* 2^32
          Capacity,     \* blocks m_allocate can provide before it throws
          Byte,         \* the bytes callers write
          Stale,        \* a byte of a block nobody cleared
          Counts,       \* the counts callers read and write
          Sizes,        \* the sizes callers resize to
          Seeks,        \* the offsets callers pass to seek
          PtrBound      \* bound: how far they move the file pointer by it

ASSUME IOAssumption ==
  /\ BSize \in Nat \ {0} /\ Wrap \in Nat \ {0} /\ Wrap % BSize = 0
  /\ Capacity \in Nat
  /\ Stale \notin Byte \cup {0} /\ 0 \notin Byte
  /\ Counts \subseteq 1 .. (Wrap - 1)
  /\ Sizes \subseteq 0 .. (Wrap - 1)
  /\ Seeks \subseteq 0 .. (Wrap - 1)
  /\ PtrBound \in 0 .. (Wrap - 1)

VARIABLES
  ptr,          \* fs_ptr
  isize,        \* i_size
  bytes,        \* the bytes of the blocks, in the order of the file
  written,      \* history: what callers wrote and did not cut off, by offset
  got           \* the last read: where it began, its buffer, what it returned

vars == <<ptr, isize, bytes, written, got>>

Nothing == [x \in {} |-> 0]
NoRead  == [from |-> 0, data |-> <<>>, real |-> 0]

Init ==
  /\ ptr = 0 /\ isize = 0
  /\ bytes = <<>>
  /\ written = Nothing
  /\ got = NoRead

Least(a, b) == IF a < b THEN a ELSE b
Most(a, b)  == IF a < b THEN b ELSE a

\* Slip: the division rounds down.
TargetBlocksDown(size) == size \div BSize

\* resize_inode's block count, "precise ceil division without using double".
TargetBlocks(size) == ((size + BSize - 1) % Wrap) \div BSize

\* The bytes after FileblockAllocator::resize to n blocks: a new block holds
\* what it held before, and extend stops where m_allocate throws.
Resized(n) ==
  [k \in 1 .. Least(n, Capacity) * BSize |->
     IF k <= Len(bytes) THEN bytes[k] ELSE Stale]

Throws(n) == n > Capacity

ByteAt(o) == bytes[o + 1]

\* resize_inode as the catalogs, clear() and free call it; i_size is set
\* before the blocks are there.
ResizeInode(size) ==
  /\ isize' = size
  /\ bytes' = Resized(TargetBlocks(size))
  /\ written' = [o \in { o \in DOMAIN written : o < size } |-> written[o]]
  /\ got' = NoRead
  /\ UNCHANGED ptr

Seek(origin, count) ==
  /\ ptr' = CASE origin = "set" -> count
              [] origin = "cur" -> (ptr + count) % Wrap
              [] origin = "end" -> (isize + count) % Wrap
  /\ ptr' <= PtrBound
  /\ got' = NoRead
  /\ UNCHANGED <<isize, bytes, written>>

\* write: the file is resized to hold ptr + count, then filled block by block.
Write(data) ==
  LET count == Len(data)
      size  == Most(isize, (ptr + count) % Wrap)
      n     == TargetBlocks(size)
      new   == Resized(n)
      done  == IF Throws(n) THEN 0      \* what is stored before anything throws
               ELSE Least(count, Most(0, Len(new) - ptr))
      Put(k) == k > ptr /\ k <= ptr + done
  IN
  /\ isize' = size
  /\ bytes' = [k \in DOMAIN new |-> IF Put(k) THEN data[k - ptr] ELSE new[k]]
  /\ ptr' = (ptr + done) % Wrap
  /\ written' = [o \in DOMAIN written \cup (ptr .. (ptr + done - 1)) |->
                   IF Put(o + 1) THEN data[o + 1 - ptr] ELSE written[o]]
  /\ got' = NoRead

\* Slip: the offset inside the first block is dropped.
FilledFromBlock(count, real) ==
  [k \in 1 .. count |->
     IF k <= count - real THEN 0
     ELSE ByteAt((ptr \div BSize) * BSize + k - 1 - (count - real))]

\* read's buffer: the count asked for, with `real' bytes at its end.
Filled(count, real) ==
  [k \in 1 .. count |->
     IF k <= count - real THEN 0 ELSE ByteAt(ptr + k - 1 - (count - real))]

\* read: the buffer, zeroed by the caller, is filled from its end, at
\* data + (count - byte_remain); get_cluster throws beyond the last block.
Read(count) ==
  LET real == Least(count, isize - ptr)
      done == Least(real, Most(0, Len(bytes) - ptr))
  IN
  /\ IF ptr >= isize THEN got' = NoRead /\ UNCHANGED ptr
     ELSE /\ ptr' = ptr + done
          /\ got' = IF done < real THEN NoRead
                    ELSE [from |-> ptr, real |-> real, data |-> Filled(count, real)]
  /\ UNCHANGED <<isize, bytes, written>>

Data == UNION { [1 .. n -> Byte] : n \in Counts }

Next ==
  \/ \E size \in Sizes : ResizeInode(size)
  \/ \E origin \in {"set", "cur", "end"}, count \in Seeks : Seek(origin, count)
  \/ \E data \in Data : Write(data)
  \/ \E count \in Counts : Read(count)

Spec == Init /\ [][Next]_vars

-----------------------------------------------------------------------------

TypeOK ==
  /\ ptr \in 0 .. (Wrap - 1) /\ isize \in 0 .. (Wrap - 1)
  /\ Len(bytes) <= Capacity * BSize /\ Len(bytes) % BSize = 0
  /\ \A k \in DOMAIN bytes : bytes[k] \in Byte \cup {Stale}
  /\ DOMAIN written \subseteq 0 .. (Wrap - 1)

\* A byte that was written stays in the file, at its offset and with its
\* value, through writes elsewhere, growth, a full drive and any seek, until
\* it is overwritten or cut off.
WrittenStays ==
  \A o \in DOMAIN written : o < Len(bytes) /\ ByteAt(o) = written[o]

\* read delivers, in as many bytes as it says, what was written from the file
\* pointer on: in the last bytes of its buffer, whether the read is short, begins
\* or ends inside a block or crosses one, and whatever the file went through.
ReadDelivers ==
  \A k \in 1 .. got.real :
    (got.from + k - 1) \in DOMAIN written =>
      got.data[Len(got.data) - got.real + k] = written[got.from + k - 1]

\* read's "count", and its result, are of bytes at the beginning of `data': a
\* read of more than the file has left delivers what is left there.
ReadFillsFront ==
  \A k \in 1 .. got.real :
    (got.from + k - 1) \in DOMAIN written => got.data[k] = written[got.from + k - 1]

\* i_size, "File size (in bytes)", counts only bytes that have a block.
SizeIsBacked == isize <= Len(bytes)

=============================================================================
