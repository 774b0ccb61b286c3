------------------------------ MODULE ByteBuffer ------------------------------
(***************************************************************************)
(* ByteBuffer (src/XNet/ByteBuffer.h, ByteBuffer.cpp) and the conversions  *)
(* of Endian.h: a vector of bytes with a reader and a writer index.        *)
(*                                                                         *)
(*    0 .. prependable .. m_readerIndex .. readable .. m_writerIndex ..    *)
(*    writable .. size                                                     *)
(*                                                                         *)
(* The functions of the class are operators from a buffer to a buffer,     *)
(* so that readFd and shrink can call others; an operation of a user is an *)
(* action.  A buffer belongs to one thread.                                *)
(*                                                                         *)
(* `queue' is what a queue of bytes holds after the same calls: each       *)
(* operation is taken in step with the one that it stands for there.       *)
(*                                                                         *)
(* An integer is the sequence of its bytes in the memory of the host,      *)
(* least significant first (the server runs on x86 Linux).                 *)
(***************************************************************************)
EXTENDS Integers, Sequences, SequencesExt

CONSTANTS
  Byte,            \* the bytes that occur
  Data,            \* what users append, prepend or receive
  Integer,         \* the integers they write, of 1, 2, 4 or 8 bytes
  Request,         \* the sizes they ask space for
  kCheapPrepend,   \* 8
  InitialSize,     \* 1024
  ExtraSize,       \* sizeof extrabuf
  MaxReadable      \* bound: bytes in the buffer

Widths == {1, 2, 4, 8}

ASSUME BufferAssumption ==
  /\ Byte \subseteq 0..255 /\ {0, 255} \subseteq Byte
  /\ Data \subseteq Seq(Byte)
  /\ Integer \subseteq UNION {[1..k -> Byte] : k \in Widths}
  /\ Request \subseteq Nat
  /\ kCheapPrepend \in Nat /\ InitialSize \in Nat /\ ExtraSize \in Nat
  /\ MaxReadable \in Nat

VARIABLES
  buf,    \* the buffer
  peak,   \* history: the most bytes it had to hold, or to have room for
  queue   \* history: the queue of bytes that the user believes it to be

vars == <<buf, peak, queue>>

Q == INSTANCE ByteQueue WITH content <- queue

\* The constructor: the vector is filled with zeros.
New(size) == [size |-> kCheapPrepend + size,
              bytes |-> [i \in 0..(kCheapPrepend + size - 1) |-> 0],
              m_readerIndex |-> kCheapPrepend, m_writerIndex |-> kCheapPrepend]

Init == buf = New(InitialSize) /\ peak = 0 /\ Q!QInit
-----------------------------------------------------------------------------
(* The functions of the class.                                             *)

readableBytes(b)    == b.m_writerIndex - b.m_readerIndex
writableBytes(b)    == b.size - b.m_writerIndex
prependableBytes(b) == b.m_readerIndex

\* The bytes from peek() to beginWrite().
Readable(b) == [i \in 1..readableBytes(b) |-> b.bytes[b.m_readerIndex + i - 1]]

\* std::copy to begin() + at.  What would go behind the end is not kept: it is
\* memory of somebody else.
CopyTo(b, at, data) ==
  [b EXCEPT !.bytes = [i \in 0..(b.size - 1) |->
     IF i \in at..(at + Len(data) - 1) THEN data[i - at + 1] ELSE b.bytes[i]]]

\* m_buffer.resize: new bytes are zero.
Resize(b, size) ==
  [b EXCEPT !.size = size,
            !.bytes = [i \in 0..(size - 1) |-> IF i < b.size THEN b.bytes[i] ELSE 0]]

\* The bytes are moved to the front, behind the reserve.
MoveDown(b) ==
  [CopyTo(b, kCheapPrepend, Readable(b)) EXCEPT
     !.m_readerIndex = kCheapPrepend, !.m_writerIndex = kCheapPrepend + readableBytes(b)]

\* Mutant: the buffer grows although there is room in front.
GrowAlways(b, len) == Resize(b, b.m_writerIndex + len)

\* Mutant: the reserve is forgotten in the test, and the early return is reached.
MakeSpaceNoReserve(b, len) ==
  IF writableBytes(b) + prependableBytes(b) < len
  THEN Resize(b, b.m_writerIndex + len)
  ELSE IF kCheapPrepend >= b.m_readerIndex THEN b ELSE MoveDown(b)

makeSpace(b, len) ==
  IF writableBytes(b) + prependableBytes(b) < len + kCheapPrepend
  THEN Resize(b, b.m_writerIndex + len)
  ELSE IF kCheapPrepend >= b.m_readerIndex THEN b ELSE MoveDown(b)

ensureWritableBytes(b, len) == IF writableBytes(b) < len THEN makeSpace(b, len) ELSE b

\* It refuses what is more than there is room for; append does not look.
hasWritten(b, len) == IF len > writableBytes(b) THEN b
                      ELSE [b EXCEPT !.m_writerIndex = @ + len]

\* Mutant: more can be taken back than there is.
UnwriteUnchecked(b, len) == [b EXCEPT !.m_writerIndex = @ - len]

unwrite(b, len) == IF len > readableBytes(b) THEN b
                   ELSE [b EXCEPT !.m_writerIndex = @ - len]

append(b, data) ==
  LET e == ensureWritableBytes(b, Len(data))
  IN hasWritten(CopyTo(e, e.m_writerIndex, data), Len(data))

prepend(b, data) ==
  IF Len(data) > prependableBytes(b) THEN b
  ELSE LET at == b.m_readerIndex - Len(data)
       IN CopyTo([b EXCEPT !.m_readerIndex = at], at, data)

retrieveAll(b) == [b EXCEPT !.m_readerIndex = kCheapPrepend,
                            !.m_writerIndex = kCheapPrepend]

retrieve(b, len) ==
  IF len > readableBytes(b) THEN b
  ELSE IF len < readableBytes(b) THEN [b EXCEPT !.m_readerIndex = @ + len]
  ELSE retrieveAll(b)

\* shrink: the bytes go to a new buffer, and the two are swapped.
shrink(b, reserve) ==
  append(ensureWritableBytes(New(InitialSize), readableBytes(b) + reserve), Readable(b))

\* Mutant: the rest is appended before the writable bytes are counted.
ReadFdOverwrites(b, data) ==
  LET room == writableBytes(b)
  IN IF Len(data) < room
     THEN [CopyTo(b, b.m_writerIndex, data) EXCEPT !.m_writerIndex = @ + Len(data)]
     ELSE append(CopyTo(b, b.m_writerIndex, SubSeq(data, 1, room)),
                 SubSeq(data, room + 1, Len(data)))

\* readFd: readv puts what it read in the writable bytes, and the rest, if there is
\* any, in extrabuf, from where it is appended.
readFd(b, data) ==
  LET room == writableBytes(b)
  IN IF Len(data) < room
     THEN [CopyTo(b, b.m_writerIndex, data) EXCEPT !.m_writerIndex = @ + Len(data)]
     ELSE append([CopyTo(b, b.m_writerIndex, SubSeq(data, 1, room))
                    EXCEPT !.m_writerIndex = b.size],
                 SubSeq(data, room + 1, Len(data)))

\* extrabuf is used only if the writable bytes are fewer.
ReadLimit(b) == writableBytes(b) + (IF writableBytes(b) < ExtraSize THEN ExtraSize ELSE 0)
-----------------------------------------------------------------------------
(* Integers.                                                               *)

Zero(k)     == [i \in 1..k |-> 0]
MinusOne(k) == [i \in 1..k |-> 255]

\* htobe64, htobe32 and htobe16 turn the bytes round.
hostToNetwork(x) == Reverse(x)

\* A narrow integer that becomes a 64-bit one keeps its sign.
Widen(x) == x \o (IF x[Len(x)] >= 128 THEN MinusOne(8 - Len(x)) ELSE Zero(8 - Len(x)))

\* Mutant: the bytes of a 64-bit integer are not turned round.
ConvertNothing(x) == x

\* networkToHost64, on an integer of any width: it is widened, turned round, and
\* the low bytes are returned.
networkToHost64(x) == SubSeq(Reverse(Widen(x)), 1, Len(x))

\* peekInt64, peekInt32, peekInt16 and peekInt8.
peekInt(b, k) ==
  IF readableBytes(b) < k THEN MinusOne(k)
  ELSE IF k = 1 THEN SubSeq(Readable(b), 1, 1)
  ELSE networkToHost64(SubSeq(Readable(b), 1, k))
-----------------------------------------------------------------------------
(* The operations.  The arguments of peek, find and the read of an integer  *)
(* that is not there change nothing, and are no actions.                   *)

\* An operation that needs room for so many bytes in all.
Needs(n) == /\ n <= MaxReadable
            /\ peak' = IF n > peak THEN n ELSE peak

AppendData(data) == /\ Needs(readableBytes(buf) + Len(data))
                    /\ buf' = append(buf, data) /\ Q!PutBack(data)

\* It returns false, and the header is not in, if there is no room in front.
PrependData(data) == /\ Needs(readableBytes(buf) + Len(data))
                     /\ buf' = prepend(buf, data)
                     /\ IF Len(data) > prependableBytes(buf) THEN Q!Keep
                                                             ELSE Q!PutFront(data)

\* appendInt64 and prependInt64, and those of the narrower integers.
AppendInt(x)  == AppendData(hostToNetwork(x))
PrependInt(x) == PrependData(hostToNetwork(x))

\* retrieve, and through it retrieveUntil, retrieveInt64 .. 8, retrieveAsString and
\* readInt64 .. 8.
Retrieve(len) == buf' = retrieve(buf, len) /\ Q!TakeFront(len) /\ UNCHANGED peak

RetrieveAll == buf' = retrieveAll(buf) /\ Q!Clear /\ UNCHANGED peak

Unwrite(len) == buf' = unwrite(buf, len) /\ Q!TakeBack(len) /\ UNCHANGED peak

EnsureWritable(len) == /\ Needs(readableBytes(buf) + len)
                       /\ buf' = ensureWritableBytes(buf, len) /\ Q!Keep

\* A user writes at beginWrite() and reports it with hasWritten.
WriteDirect(data) == /\ Len(data) <= writableBytes(buf)
                     /\ Needs(readableBytes(buf) + Len(data))
                     /\ buf' = hasWritten(CopyTo(buf, buf.m_writerIndex, data), Len(data))
                     /\ Q!PutBack(data)

Shrink(reserve) == /\ Needs(readableBytes(buf) + reserve)
                   /\ buf' = shrink(buf, reserve) /\ Q!Keep

\* readv reads what has arrived; where it reads nothing or fails, nothing changes.
ReadFd(data) == /\ Len(data) \in 1..ReadLimit(buf)
                /\ Needs(readableBytes(buf) + Len(data))
                /\ buf' = readFd(buf, data) /\ Q!PutBack(data)

Next ==
  \/ \E data \in Data : AppendData(data) \/ PrependData(data) \/ WriteDirect(data) \/ ReadFd(data)
  \/ \E x \in Integer : AppendInt(x) \/ PrependInt(x)
  \/ \E len \in Request : Retrieve(len) \/ Unwrite(len) \/ EnsureWritable(len) \/ Shrink(len)
  \/ RetrieveAll

Spec == Init /\ [][Next]_vars
-----------------------------------------------------------------------------
(* The properties.                                                         *)

\* A vector with two indices inside it, in their order.
WellFormed(b) ==
  /\ b \in [size : Nat, bytes : [0..(b.size - 1) -> Byte],
            m_readerIndex : 0..b.size, m_writerIndex : 0..b.size]
  /\ b.m_readerIndex <= b.m_writerIndex
  /\ kCheapPrepend <= b.size

\* The indices are ordered and inside the vector, whatever was prepended, moved,
\* taken back or read: otherwise begin()+m_writerIndex is memory of somebody else.
TypeOK == WellFormed(buf) /\ peak \in 0..MaxReadable

\* The buffer is the queue its user believes it to be, call for call: all that was put
\* in and not taken out is there, in order, whatever growth, move to the front, swap of
\* vectors, refused header or scattered read came between.
ImplementsQueue == Readable(buf) = queue

\* ensureWritableBytes(len) leaves len writable bytes, so append may copy so many
\* without looking: makeSpace's early return, which makes no space, is not taken
\* although a prepend may have left less than the reserve in front.
SpaceOnRequest ==
  \A len \in Request : writableBytes(ensureWritableBytes(buf, len)) >= len

\* makeSpace does not make the vector much too large ("is the resize not a little too
\* much?", ByteBuffer.h:383): it stays below twice what it ever had to hold, next to
\* the reserve and the initial size, however long it is used.
SizeFor(b, n) == b.size <= kCheapPrepend + InitialSize \/ b.size < kCheapPrepend + 2 * n

WasteBounded == SizeFor(buf, peak)

\* An integer is read back as it was written, at the back of an empty buffer or in front
\* of what it holds.
ReadsBack(x) ==
  /\ readableBytes(buf) = 0 => peekInt(append(buf, hostToNetwork(x)), Len(x)) = x
  /\ Len(x) <= prependableBytes(buf) => peekInt(prepend(buf, hostToNetwork(x)), Len(x)) = x

\* A 64-bit integer, and a byte, is read back as it was written, behind any use of the
\* buffer before.
WideIntegersReadBack == \A x \in {y \in Integer : Len(y) \in {1, 8}} : ReadsBack(x)

\* So is one of 32 or 16 bits: Endian.h has a networkToHost32 for a hostToNetwork32 and
\* a networkToHost16 for a hostToNetwork16 (lines 14-20, 26-32), and peekInt32 and
\* peekInt16 stand beside appendInt32 and appendInt16.
NarrowIntegersReadBack == \A x \in {y \in Integer : Len(y) \in {2, 4}} : ReadsBack(x)
=============================================================================
