--------------------------- MODULE ByteBufferProofs ---------------------------
(***************************************************************************)
(* Proofs about ByteBuffer, for vectors of every size and all data.        *)
(*                                                                         *)
(* One lemma per function of the class says what it does to the readable   *)
(* bytes and to the indices; a step of the buffer is then the step of the  *)
(* queue of bytes that is taken with it.                                   *)
(***************************************************************************)
EXTENDS ByteBuffer, TLAPS

LEMMA ReadableSeq ==
  ASSUME NEW b, WellFormed(b)
  PROVE  /\ Readable(b) \in Seq(Byte)
         /\ Len(Readable(b)) = readableBytes(b)
         /\ readableBytes(b) \in Nat /\ writableBytes(b) \in Nat
         /\ prependableBytes(b) \in Nat
         /\ \A i \in 1..readableBytes(b) : Readable(b)[i] = b.bytes[b.m_readerIndex + i - 1]
<1>1. /\ readableBytes(b) \in Nat /\ writableBytes(b) \in Nat
      /\ prependableBytes(b) \in Nat
  BY DEF WellFormed, readableBytes, writableBytes, prependableBytes
<1>2. \A i \in 1..readableBytes(b) : b.bytes[b.m_readerIndex + i - 1] \in Byte
  BY DEF WellFormed, readableBytes
<1> QED
  BY <1>1, <1>2 DEF Readable

\* Two buffers with the same bytes between their indices hold the same.
LEMMA SameReadable ==
  ASSUME NEW a, NEW b, WellFormed(a), WellFormed(b),
         readableBytes(a) = readableBytes(b),
         \A i \in 1..readableBytes(b) :
           a.bytes[a.m_readerIndex + i - 1] = b.bytes[b.m_readerIndex + i - 1]
  PROVE  Readable(a) = Readable(b)
BY DEF Readable

LEMMA CopyToWellFormed ==
  ASSUME NEW b, WellFormed(b), NEW at \in Nat, NEW data \in Seq(Byte)
  PROVE  /\ WellFormed(CopyTo(b, at, data))
         /\ CopyTo(b, at, data).size = b.size
         /\ CopyTo(b, at, data).m_readerIndex = b.m_readerIndex
         /\ CopyTo(b, at, data).m_writerIndex = b.m_writerIndex
         /\ \A i \in 0..(b.size - 1) :
              CopyTo(b, at, data).bytes[i] =
                IF i \in at..(at + Len(data) - 1) THEN data[i - at + 1] ELSE b.bytes[i]
<1> DEFINE f == [i \in 0..(b.size - 1) |->
                   IF i \in at..(at + Len(data) - 1) THEN data[i - at + 1] ELSE b.bytes[i]]
<1>1. f \in [0..(b.size - 1) -> Byte]
  BY DEF WellFormed
<1>2. CopyTo(b, at, data) = [b EXCEPT !.bytes = f]
  BY DEF CopyTo
<1> HIDE DEF f
<1>3. /\ [b EXCEPT !.bytes = f].size = b.size
      /\ [b EXCEPT !.bytes = f].bytes = f
      /\ [b EXCEPT !.bytes = f].m_readerIndex = b.m_readerIndex
      /\ [b EXCEPT !.bytes = f].m_writerIndex = b.m_writerIndex
  BY DEF WellFormed
<1>4. WellFormed([b EXCEPT !.bytes = f])
  BY <1>1, <1>3 DEF WellFormed
<1> QED
  BY <1>2, <1>3, <1>4 DEF f

LEMMA ResizeWellFormed ==
  ASSUME NEW b, WellFormed(b), NEW n \in Nat, b.size <= n
  PROVE  /\ WellFormed(Resize(b, n))
         /\ Resize(b, n).size = n
         /\ Resize(b, n).m_readerIndex = b.m_readerIndex
         /\ Resize(b, n).m_writerIndex = b.m_writerIndex
         /\ Readable(Resize(b, n)) = Readable(b)
<1> DEFINE f == [i \in 0..(n - 1) |-> IF i < b.size THEN b.bytes[i] ELSE 0]
<1>1. f \in [0..(n - 1) -> Byte]
  BY BufferAssumption DEF WellFormed
<1>2. Resize(b, n) = [b EXCEPT !.size = n, !.bytes = f]
  BY DEF Resize
<1>3. \A i \in 0..(b.size - 1) : f[i] = b.bytes[i]
  BY DEF WellFormed
<1> HIDE DEF f
<1> DEFINE a == [b EXCEPT !.size = n, !.bytes = f]
<1>4. /\ a.size = n /\ a.bytes = f
      /\ a.m_readerIndex = b.m_readerIndex /\ a.m_writerIndex = b.m_writerIndex
  BY DEF WellFormed
<1>5. a \in [size : {n}, bytes : {f}, m_readerIndex : {b.m_readerIndex},
             m_writerIndex : {b.m_writerIndex}]
  BY DEF WellFormed
<1> HIDE DEF a
<1>6. WellFormed(a)
  BY <1>1, <1>4, <1>5, BufferAssumption DEF WellFormed
<1>7. Readable(a) = Readable(b)
  <2>1. readableBytes(a) = readableBytes(b)
    BY <1>4 DEF readableBytes
  <2>2. \A i \in 1..readableBytes(b) : b.m_readerIndex + i - 1 \in 0..(b.size - 1)
    BY DEF WellFormed, readableBytes
  <2>3. \A i \in 1..readableBytes(b) :
          a.bytes[a.m_readerIndex + i - 1] = b.bytes[b.m_readerIndex + i - 1]
    BY <1>3, <1>4, <2>2
  <2> QED
    BY <2>1, <2>3, <1>6, SameReadable
<1> QED
  BY <1>2, <1>4, <1>6, <1>7 DEF a

LEMMA MoveDownWellFormed ==
  ASSUME NEW b, WellFormed(b), kCheapPrepend < b.m_readerIndex
  PROVE  /\ WellFormed(MoveDown(b))
         /\ MoveDown(b).size = b.size
         /\ MoveDown(b).m_readerIndex = kCheapPrepend
         /\ MoveDown(b).m_writerIndex = kCheapPrepend + readableBytes(b)
         /\ Readable(MoveDown(b)) = Readable(b)
<1> DEFINE c == CopyTo(b, kCheapPrepend, Readable(b))
           w == kCheapPrepend + readableBytes(b)
           a == [c EXCEPT !.m_readerIndex = kCheapPrepend, !.m_writerIndex = w]
<1>0. kCheapPrepend \in Nat
  BY BufferAssumption
<1>1. /\ Readable(b) \in Seq(Byte) /\ Len(Readable(b)) = readableBytes(b)
      /\ readableBytes(b) \in Nat
      /\ \A i \in 1..readableBytes(b) : Readable(b)[i] = b.bytes[b.m_readerIndex + i - 1]
  BY ReadableSeq
<1>2. /\ WellFormed(c) /\ c.size = b.size
      /\ \A i \in 0..(b.size - 1) :
           c.bytes[i] = IF i \in kCheapPrepend..(kCheapPrepend + readableBytes(b) - 1)
                        THEN Readable(b)[i - kCheapPrepend + 1] ELSE b.bytes[i]
  <2>1. /\ WellFormed(c) /\ c.size = b.size
        /\ \A i \in 0..(b.size - 1) :
             c.bytes[i] = IF i \in kCheapPrepend..(kCheapPrepend + Len(Readable(b)) - 1)
                          THEN Readable(b)[i - kCheapPrepend + 1] ELSE b.bytes[i]
    BY <1>0, <1>1, CopyToWellFormed
  <2> QED
    BY <1>1, <2>1
<1>3. w \in 0..b.size /\ kCheapPrepend \in 0..b.size /\ kCheapPrepend <= w
  BY <1>0, <1>1 DEF WellFormed, readableBytes
<1> HIDE DEF c
<1>4. /\ WellFormed(a) /\ a.size = c.size /\ a.bytes = c.bytes
      /\ a.m_readerIndex = kCheapPrepend /\ a.m_writerIndex = w
  <2>1. kCheapPrepend \in 0..c.size /\ w \in 0..c.size
    BY <1>2, <1>3
  <2> HIDE DEF w
  <2> QED
    BY <1>2, <1>3, <2>1 DEF a, WellFormed
<1>5. MoveDown(b) = a
  BY DEF MoveDown, c
<1> HIDE DEF a
<1>6. \A i \in 1..readableBytes(b) : a.bytes[kCheapPrepend + i - 1] = Readable(b)[i]
  <2> TAKE i \in 1..readableBytes(b)
  <2>1. /\ kCheapPrepend + i - 1 \in 0..(b.size - 1)
        /\ kCheapPrepend + i - 1 \in kCheapPrepend..(kCheapPrepend + readableBytes(b) - 1)
        /\ (kCheapPrepend + i - 1) - kCheapPrepend + 1 = i
    BY <1>0, <1>1, <1>3 DEF WellFormed
  <2> QED
    BY <2>1, <1>2, <1>4
<1>7. readableBytes(a) = readableBytes(b)
  BY <1>0, <1>1, <1>4 DEF readableBytes
<1>8. Readable(a) = Readable(b)
  <2>1. \A i \in 1..readableBytes(b) :
          a.bytes[a.m_readerIndex + i - 1] = b.bytes[b.m_readerIndex + i - 1]
    BY <1>1, <1>4, <1>6
  <2> QED
    BY <2>1, <1>4, <1>7, SameReadable
<1> QED
  BY <1>2, <1>4, <1>5, <1>8

\* makeSpace makes it: the case in which it returns early needs a reader index below
\* the reserve, and then the room in front is too little for the first test to fail.
LEMMA MakeSpaceMakesSpace ==
  ASSUME NEW b, WellFormed(b), NEW len \in Nat, writableBytes(b) < len,
         NEW n \in Nat, SizeFor(b, n), NEW m \in Nat, n <= m, readableBytes(b) + len <= m
  PROVE  /\ WellFormed(makeSpace(b, len))
         /\ writableBytes(makeSpace(b, len)) >= len
         /\ Readable(makeSpace(b, len)) = Readable(b)
         /\ readableBytes(makeSpace(b, len)) = readableBytes(b)
         /\ SizeFor(makeSpace(b, len), m)
<1>0. /\ kCheapPrepend \in Nat /\ InitialSize \in Nat
      /\ b.size \in Nat /\ b.m_readerIndex \in Nat /\ b.m_writerIndex \in Nat
      /\ b.m_readerIndex <= b.m_writerIndex /\ b.m_writerIndex <= b.size
  BY BufferAssumption DEF WellFormed
<1>1. CASE writableBytes(b) + prependableBytes(b) < len + kCheapPrepend
  <2>1. makeSpace(b, len) = Resize(b, b.m_writerIndex + len)
    BY <1>1 DEF makeSpace
  <2>2. b.m_writerIndex + len \in Nat /\ b.size <= b.m_writerIndex + len
    BY <1>0 DEF writableBytes
  <2> DEFINE a == Resize(b, b.m_writerIndex + len)
  <2>3. /\ WellFormed(a) /\ a.size = b.m_writerIndex + len
        /\ a.m_readerIndex = b.m_readerIndex /\ a.m_writerIndex = b.m_writerIndex
        /\ Readable(a) = Readable(b)
    BY <2>2, ResizeWellFormed
  <2> HIDE DEF a
  <2>4. writableBytes(a) >= len /\ readableBytes(a) = readableBytes(b)
    BY <1>0, <2>3 DEF writableBytes, readableBytes
  <2>5. SizeFor(a, m)
    BY <1>0, <1>1, <2>3 DEF SizeFor, writableBytes, readableBytes, prependableBytes
  <2> QED
    BY <2>1, <2>3, <2>4, <2>5 DEF a
<1>2. CASE ~(writableBytes(b) + prependableBytes(b) < len + kCheapPrepend)
  <2>1. kCheapPrepend < b.m_readerIndex
    BY <1>0, <1>2 DEF writableBytes, prependableBytes
  <2>2. makeSpace(b, len) = MoveDown(b)
    BY <1>0, <1>2, <2>1 DEF makeSpace
  <2> DEFINE a == MoveDown(b)
  <2>3. /\ WellFormed(a) /\ a.size = b.size
        /\ a.m_readerIndex = kCheapPrepend
        /\ a.m_writerIndex = kCheapPrepend + readableBytes(b)
        /\ Readable(a) = Readable(b)
    BY <2>1, MoveDownWellFormed
  <2> HIDE DEF a
  <2>4. writableBytes(a) >= len /\ readableBytes(a) = readableBytes(b)
    BY <1>0, <1>2, <2>3 DEF writableBytes, readableBytes, prependableBytes
  <2>5. SizeFor(a, m)
    BY <1>0, <2>3 DEF SizeFor
  <2> QED
    BY <2>2, <2>3, <2>4, <2>5 DEF a
<1> QED
  BY <1>1, <1>2

LEMMA EnsureMakesSpace ==
  ASSUME NEW b, WellFormed(b), NEW len \in Nat,
         NEW n \in Nat, SizeFor(b, n), NEW m \in Nat, n <= m, readableBytes(b) + len <= m
  PROVE  /\ WellFormed(ensureWritableBytes(b, len))
         /\ writableBytes(ensureWritableBytes(b, len)) >= len
         /\ Readable(ensureWritableBytes(b, len)) = Readable(b)
         /\ readableBytes(ensureWritableBytes(b, len)) = readableBytes(b)
         /\ SizeFor(ensureWritableBytes(b, len), m)
<1>1. CASE writableBytes(b) < len
  BY <1>1, MakeSpaceMakesSpace DEF ensureWritableBytes
<1>2. CASE ~(writableBytes(b) < len)
  <2>1. writableBytes(b) \in Nat
    BY ReadableSeq
  <2>2. SizeFor(b, m)
    BY BufferAssumption DEF SizeFor, WellFormed
  <2> QED
    BY <1>2, <2>1, <2>2 DEF ensureWritableBytes
<1> QED
  BY <1>1, <1>2

LEMMA ConcatAt ==
  ASSUME NEW s \in Seq(Byte), NEW t \in Seq(Byte)
  PROVE  /\ s \o t \in Seq(Byte) /\ Len(s \o t) = Len(s) + Len(t)
         /\ \A i \in 1..Len(s) : (s \o t)[i] = s[i]
         /\ \A i \in (Len(s) + 1)..(Len(s) + Len(t)) : (s \o t)[i] = t[i - Len(s)]
OBVIOUS

LEMMA SameSeq ==
  ASSUME NEW s \in Seq(Byte), NEW t \in Seq(Byte), Len(s) = Len(t),
         \A i \in 1..Len(s) : s[i] = t[i]
  PROVE  s = t
OBVIOUS

\* Bytes that are copied behind the writer index, and then counted, are readable
\* behind those that were.
Written(b, data) ==
  [CopyTo(b, b.m_writerIndex, data) EXCEPT !.m_writerIndex = b.m_writerIndex + Len(data)]

LEMMA WrittenIsReadable ==
  ASSUME NEW b, WellFormed(b), NEW data \in Seq(Byte), Len(data) <= writableBytes(b)
  PROVE  /\ WellFormed(Written(b, data))
         /\ Written(b, data).size = b.size
         /\ Written(b, data).m_readerIndex = b.m_readerIndex
         /\ Written(b, data).m_writerIndex = b.m_writerIndex + Len(data)
         /\ Readable(Written(b, data)) = Readable(b) \o data
<1> DEFINE c == CopyTo(b, b.m_writerIndex, data)
           w == b.m_writerIndex + Len(data)
           a == [c EXCEPT !.m_writerIndex = w]
<1>0. /\ b.size \in Nat /\ b.m_readerIndex \in Nat /\ b.m_writerIndex \in Nat
      /\ b.m_readerIndex <= b.m_writerIndex /\ b.m_writerIndex <= b.size
      /\ Len(data) \in Nat /\ b.m_writerIndex + Len(data) <= b.size
  BY DEF WellFormed, writableBytes
<1>1. /\ WellFormed(c) /\ c.size = b.size
      /\ c.m_readerIndex = b.m_readerIndex
      /\ \A i \in 0..(b.size - 1) :
           c.bytes[i] = IF i \in b.m_writerIndex..(b.m_writerIndex + Len(data) - 1)
                        THEN data[i - b.m_writerIndex + 1] ELSE b.bytes[i]
  BY <1>0, CopyToWellFormed
<1> HIDE DEF c
<1>2. /\ WellFormed(a) /\ a.size = b.size /\ a.bytes = c.bytes
      /\ a.m_readerIndex = b.m_readerIndex
      /\ a.m_writerIndex = b.m_writerIndex + Len(data)
  <2>1. w \in 0..c.size /\ c.m_readerIndex <= w
    BY <1>0, <1>1
  <2>2. a.m_writerIndex = w /\ a.m_writerIndex = b.m_writerIndex + Len(data)
    BY <1>1 DEF WellFormed
  <2> HIDE DEF w
  <2> QED
    BY <1>1, <2>1, <2>2 DEF WellFormed
<1>3. Written(b, data) = a
  BY DEF Written, c
<1> HIDE DEF a
<1>4. /\ Readable(b) \in Seq(Byte) /\ Len(Readable(b)) = readableBytes(b)
      /\ \A i \in 1..readableBytes(b) : Readable(b)[i] = b.bytes[b.m_readerIndex + i - 1]
  BY ReadableSeq
<1>5. /\ Readable(a) \in Seq(Byte) /\ Len(Readable(a)) = readableBytes(a)
      /\ \A i \in 1..readableBytes(a) : Readable(a)[i] = a.bytes[a.m_readerIndex + i - 1]
  BY <1>2, ReadableSeq
<1>6. readableBytes(a) = readableBytes(b) + Len(data)
  BY <1>0, <1>2 DEF readableBytes
<1>7. readableBytes(b) = b.m_writerIndex - b.m_readerIndex
  BY DEF readableBytes
<1>8. /\ Readable(b) \o data \in Seq(Byte)
      /\ Len(Readable(b) \o data) = readableBytes(b) + Len(data)
      /\ \A i \in 1..readableBytes(b) : (Readable(b) \o data)[i] = Readable(b)[i]
      /\ \A i \in (readableBytes(b) + 1)..(readableBytes(b) + Len(data)) :
           (Readable(b) \o data)[i] = data[i - readableBytes(b)]
  <2>1. LET s == Readable(b)
        IN /\ s \o data \in Seq(Byte) /\ Len(s \o data) = Len(s) + Len(data)
           /\ \A i \in 1..Len(s) : (s \o data)[i] = s[i]
           /\ \A i \in (Len(s) + 1)..(Len(s) + Len(data)) : (s \o data)[i] = data[i - Len(s)]
    <3> HIDE DEF a
    <3> QED
      BY <1>4, ConcatAt
  <2> QED
    BY <1>4, <2>1
<1>9. \A i \in 1..readableBytes(a) : Readable(a)[i] = (Readable(b) \o data)[i]
  <2> SUFFICES ASSUME NEW i \in 1..readableBytes(a)
               PROVE  Readable(a)[i] = (Readable(b) \o data)[i]
    OBVIOUS
  <2>1. /\ b.m_readerIndex + i - 1 \in 0..(b.size - 1)
        /\ Readable(a)[i] = c.bytes[b.m_readerIndex + i - 1]
    BY <1>0, <1>2, <1>5, <1>6, <1>7
  <2>2. CASE i <= readableBytes(b)
    <3>1. b.m_readerIndex + i - 1 \notin b.m_writerIndex..(b.m_writerIndex + Len(data) - 1)
      BY <1>0, <1>7, <2>2
    <3>2. i \in 1..readableBytes(b)
      BY <1>0, <1>7, <2>2
    <3> QED
      BY <1>1, <1>4, <1>8, <2>1, <3>1, <3>2
  <2>3. CASE i > readableBytes(b)
    <3>1. /\ b.m_readerIndex + i - 1 \in b.m_writerIndex..(b.m_writerIndex + Len(data) - 1)
          /\ (b.m_readerIndex + i - 1) - b.m_writerIndex + 1 = i - readableBytes(b)
      BY <1>0, <1>6, <1>7, <2>3
    <3>2. i \in (readableBytes(b) + 1)..(readableBytes(b) + Len(data))
      BY <1>0, <1>6, <1>7, <2>3
    <3> QED
      BY <1>1, <1>8, <2>1, <3>1, <3>2
  <2>4. i <= readableBytes(b) \/ i > readableBytes(b)
    BY <1>0, <1>6, <1>7
  <2> QED
    BY <2>2, <2>3, <2>4
<1>10. Readable(a) = Readable(b) \o data
  BY <1>5, <1>6, <1>8, <1>9, SameSeq
<1> QED
  BY <1>2, <1>3, <1>10

\* append puts its data behind what the buffer holds, in a vector that is not too large.
LEMMA AppendAppends ==
  ASSUME NEW b, WellFormed(b), NEW data \in Seq(Byte),
         NEW n \in Nat, SizeFor(b, n), NEW m \in Nat, n <= m,
         readableBytes(b) + Len(data) <= m
  PROVE  /\ WellFormed(append(b, data))
         /\ Readable(append(b, data)) = Readable(b) \o data
         /\ SizeFor(append(b, data), m)
<1> DEFINE e == ensureWritableBytes(b, Len(data))
           c == CopyTo(e, e.m_writerIndex, data)
<1>1. /\ WellFormed(e) /\ writableBytes(e) >= Len(data)
      /\ Readable(e) = Readable(b) /\ SizeFor(e, m)
  BY EnsureMakesSpace
<1>2. append(b, data) = hasWritten(c, Len(data))
  BY DEF append
<1> HIDE DEF e
<1>3. Len(data) <= writableBytes(e) /\ Len(data) \in Nat
  BY <1>1, ReadableSeq
<1>4. /\ WellFormed(Written(e, data)) /\ Written(e, data).size = e.size
      /\ Readable(Written(e, data)) = Readable(e) \o data
  BY <1>1, <1>3, WrittenIsReadable
<1>5. /\ WellFormed(c) /\ writableBytes(c) = writableBytes(e)
      /\ c.m_writerIndex = e.m_writerIndex
  <2>1. e.m_writerIndex \in Nat
    BY <1>1 DEF WellFormed
  <2> QED
    BY <2>1, <1>1, CopyToWellFormed DEF writableBytes
<1>6. hasWritten(c, Len(data)) = [c EXCEPT !.m_writerIndex = @ + Len(data)]
  <2>1. ~(Len(data) > writableBytes(c))
    BY <1>1, <1>3, <1>5, ReadableSeq
  <2> HIDE DEF c
  <2> QED
    BY <2>1 DEF hasWritten
<1>7. hasWritten(c, Len(data)) = Written(e, data)
  <2>1. Written(e, data) = [c EXCEPT !.m_writerIndex = e.m_writerIndex + Len(data)]
    BY DEF Written
  <2> HIDE DEF c
  <2> QED
    BY <2>1, <1>5, <1>6
<1> QED
  BY <1>1, <1>2, <1>4, <1>7 DEF SizeFor

LEMMA DataIsBytes ==
  /\ Data \subseteq Seq(Byte)
  /\ \A x \in Integer : hostToNetwork(x) \in Seq(Byte)
<1>1. ASSUME NEW x \in Integer
      PROVE  hostToNetwork(x) \in Seq(Byte)
  <2>1. PICK k \in Widths : x \in [1..k -> Byte]
    BY BufferAssumption
  <2>2. k \in Nat /\ x \in Seq(Byte) /\ Len(x) = k
    BY <2>1 DEF Widths
  <2>3. \A i \in 1..k : x[(k - i) + 1] \in Byte
    BY <2>1, <2>2
  <2> QED
    BY <2>2, <2>3 DEF hostToNetwork, Reverse
<1> QED
  BY <1>1, BufferAssumption

\* prepend puts a header in front of what the buffer holds, or does nothing.
LEMMA PrependPrepends ==
  ASSUME NEW b, WellFormed(b), NEW data \in Seq(Byte)
  PROVE  /\ WellFormed(prepend(b, data))
         /\ prepend(b, data).size = b.size
         /\ IF Len(data) > prependableBytes(b)
            THEN prepend(b, data) = b
            ELSE Readable(prepend(b, data)) = data \o Readable(b)
<1>1. CASE Len(data) > prependableBytes(b)
  BY <1>1 DEF prepend
<1>2. CASE ~(Len(data) > prependableBytes(b))
  <2> DEFINE at == b.m_readerIndex - Len(data)
             c  == [b EXCEPT !.m_readerIndex = at]
             a  == CopyTo(c, at, data)
  <2>0. /\ b.size \in Nat /\ b.m_readerIndex \in Nat /\ b.m_writerIndex \in Nat
        /\ b.m_readerIndex <= b.m_writerIndex /\ b.m_writerIndex <= b.size
        /\ Len(data) \in Nat /\ at \in Nat /\ at \in 0..b.size /\ at <= b.m_writerIndex
        /\ b.m_readerIndex = at + Len(data)
    BY <1>2 DEF WellFormed, prependableBytes
  <2>1. prepend(b, data) = a
    BY <1>2 DEF prepend
  <2> HIDE DEF at
  <2>2. /\ WellFormed(c) /\ c.size = b.size /\ c.bytes = b.bytes
        /\ c.m_readerIndex = at /\ c.m_writerIndex = b.m_writerIndex
    BY <2>0 DEF WellFormed
  <2> HIDE DEF c
  <2>3. /\ WellFormed(a) /\ a.size = b.size
        /\ a.m_readerIndex = at /\ a.m_writerIndex = b.m_writerIndex
        /\ \A i \in 0..(b.size - 1) :
             a.bytes[i] = IF i \in at..(at + Len(data) - 1)
                          THEN data[i - at + 1] ELSE b.bytes[i]
    <3>1. /\ WellFormed(a) /\ a.size = c.size
          /\ a.m_readerIndex = c.m_readerIndex /\ a.m_writerIndex = c.m_writerIndex
          /\ \A i \in 0..(c.size - 1) :
               a.bytes[i] = IF i \in at..(at + Len(data) - 1)
                            THEN data[i - at + 1] ELSE c.bytes[i]
      <4>1. WellFormed(c) /\ at \in Nat
        BY <2>0, <2>2
      <4> QED
        BY <4>1, CopyToWellFormed
    <3> QED
      BY <2>2, <3>1
  <2> HIDE DEF a
  <2>4. /\ Readable(b) \in Seq(Byte) /\ Len(Readable(b)) = readableBytes(b)
        /\ \A i \in 1..readableBytes(b) : Readable(b)[i] = b.bytes[b.m_readerIndex + i - 1]
    BY ReadableSeq
  <2>5. /\ Readable(a) \in Seq(Byte) /\ Len(Readable(a)) = readableBytes(a)
        /\ \A i \in 1..readableBytes(a) : Readable(a)[i] = a.bytes[a.m_readerIndex + i - 1]
    BY <2>3, ReadableSeq
  <2>6. /\ readableBytes(a) = Len(data) + readableBytes(b)
        /\ readableBytes(b) = b.m_writerIndex - b.m_readerIndex
    BY <2>0, <2>3 DEF readableBytes
  <2>7. LET s == data
            t == Readable(b)
        IN /\ s \o t \in Seq(Byte) /\ Len(s \o t) = Len(s) + Len(t)
           /\ \A i \in 1..Len(s) : (s \o t)[i] = s[i]
           /\ \A i \in (Len(s) + 1)..(Len(s) + Len(t)) : (s \o t)[i] = t[i - Len(s)]
    BY <2>4, ConcatAt
  <2>8. \A i \in 1..readableBytes(a) : Readable(a)[i] = (data \o Readable(b))[i]
    <3> SUFFICES ASSUME NEW i \in 1..readableBytes(a)
                 PROVE  Readable(a)[i] = (data \o Readable(b))[i]
      OBVIOUS
    <3>1. at + i - 1 \in 0..(b.size - 1) /\ Readable(a)[i] = a.bytes[at + i - 1]
      BY <2>0, <2>3, <2>5, <2>6
    <3>2. CASE i <= Len(data)
      <4>1. /\ at + i - 1 \in at..(at + Len(data) - 1) /\ (at + i - 1) - at + 1 = i
            /\ i \in 1..Len(data)
        BY <2>0, <2>6, <3>2
      <4> QED
        BY <2>3, <2>7, <3>1, <4>1
    <3>3. CASE i > Len(data)
      <4>1. /\ at + i - 1 \notin at..(at + Len(data) - 1)
            /\ at + i - 1 = b.m_readerIndex + (i - Len(data)) - 1
            /\ i - Len(data) \in 1..readableBytes(b)
            /\ i \in (Len(data) + 1)..(Len(data) + readableBytes(b))
        BY <2>0, <2>6, <3>3
      <4> QED
        BY <2>3, <2>4, <2>7, <3>1, <4>1
    <3>4. i <= Len(data) \/ i > Len(data)
      BY <2>0, <2>6
    <3> QED
      BY <3>2, <3>3, <3>4
  <2>9. Readable(a) = data \o Readable(b)
    <3>1. Len(Readable(a)) = Len(data \o Readable(b))
      BY <2>4, <2>5, <2>6, <2>7
    <3> QED
      BY <2>5, <2>7, <2>8, <3>1, SameSeq
  <2> QED
    BY <1>2, <2>1, <2>3, <2>9
<1> QED
  BY <1>1, <1>2

LEMMA SubSeqAt ==
  ASSUME NEW s \in Seq(Byte), NEW n \in 0..Len(s)
  PROVE  /\ SubSeq(s, n + 1, Len(s)) \in Seq(Byte)
         /\ Len(SubSeq(s, n + 1, Len(s))) = Len(s) - n
         /\ \A i \in 1..(Len(s) - n) : SubSeq(s, n + 1, Len(s))[i] = s[n + i]
         /\ SubSeq(s, 1, n) \in Seq(Byte)
         /\ Len(SubSeq(s, 1, n)) = n
         /\ \A i \in 1..n : SubSeq(s, 1, n)[i] = s[i]
OBVIOUS

LEMMA RetrieveAllEmpties ==
  ASSUME NEW b, WellFormed(b)
  PROVE  /\ WellFormed(retrieveAll(b))
         /\ retrieveAll(b).size = b.size
         /\ Readable(retrieveAll(b)) = << >>
         /\ SubSeq(Readable(b), Len(Readable(b)) + 1, Len(Readable(b))) = << >>
<1> DEFINE a == retrieveAll(b)
           s == Readable(b)
<1>1. /\ WellFormed(a) /\ a.size = b.size
      /\ a.m_readerIndex = kCheapPrepend /\ a.m_writerIndex = kCheapPrepend
  <2>1. kCheapPrepend \in 0..b.size
    BY BufferAssumption DEF WellFormed
  <2>2. /\ a.size = b.size /\ a.bytes = b.bytes
        /\ a.m_readerIndex = kCheapPrepend /\ a.m_writerIndex = kCheapPrepend
        /\ a \in [size : {b.size}, bytes : {b.bytes}, m_readerIndex : {kCheapPrepend},
                  m_writerIndex : {kCheapPrepend}]
    BY DEF retrieveAll, WellFormed
  <2> HIDE DEF a
  <2> QED
    BY <2>1, <2>2, BufferAssumption DEF WellFormed
<1>2. readableBytes(a) = 0
  BY <1>1, BufferAssumption DEF readableBytes
<1>3. s \in Seq(Byte) /\ Len(s) \in Nat
  BY ReadableSeq
<1>4. Readable(a) \in Seq(Byte) /\ Len(Readable(a)) = 0
  BY <1>1, <1>2, ReadableSeq
<1> HIDE DEF a, s
<1>5. Readable(a) = << >> /\ SubSeq(s, Len(s) + 1, Len(s)) = << >>
  BY <1>3, <1>4
<1> QED
  BY <1>1, <1>5 DEF a, s

\* retrieve takes bytes from the front, or nothing if there are not so many.
LEMMA RetrieveTakesFront ==
  ASSUME NEW b, WellFormed(b), NEW len \in Nat
  PROVE  /\ WellFormed(retrieve(b, len))
         /\ retrieve(b, len).size = b.size
         /\ Readable(retrieve(b, len)) =
              IF len > Len(Readable(b)) THEN Readable(b)
              ELSE SubSeq(Readable(b), len + 1, Len(Readable(b)))
<1> DEFINE s == Readable(b)
<1>0. /\ s \in Seq(Byte) /\ Len(s) = readableBytes(b) /\ Len(s) \in Nat
      /\ readableBytes(b) = b.m_writerIndex - b.m_readerIndex
      /\ \A i \in 1..Len(s) : s[i] = b.bytes[b.m_readerIndex + i - 1]
  BY ReadableSeq DEF readableBytes
<1>1. CASE len > readableBytes(b)
  <2>1. retrieve(b, len) = b
    BY <1>1 DEF retrieve
  <2> HIDE DEF s
  <2> QED
    BY <1>0, <1>1, <2>1 DEF s
<1>2. CASE len < readableBytes(b)
  <2> DEFINE r == b.m_readerIndex + len
             a == [b EXCEPT !.m_readerIndex = r]
  <2>1. retrieve(b, len) = a
    BY <1>0, <1>2 DEF retrieve
  <2>9. r = b.m_readerIndex + len /\ r \in 0..b.size /\ r <= b.m_writerIndex
    BY <1>0, <1>2 DEF WellFormed
  <2> HIDE DEF r
  <2>2. /\ WellFormed(a) /\ a.size = b.size /\ a.bytes = b.bytes
        /\ a.m_readerIndex = b.m_readerIndex + len /\ a.m_writerIndex = b.m_writerIndex
    BY <2>9 DEF WellFormed
  <2> HIDE DEF a
  <2>3. /\ Readable(a) \in Seq(Byte) /\ Len(Readable(a)) = readableBytes(a)
        /\ \A i \in 1..readableBytes(a) : Readable(a)[i] = b.bytes[b.m_readerIndex + len + i - 1]
    BY <2>2, ReadableSeq
  <2>4. readableBytes(a) = Len(s) - len /\ len \in 0..Len(s)
    BY <1>0, <1>2, <2>2 DEF readableBytes, WellFormed
  <2> HIDE DEF s
  <2>5. \A i \in 1..(Len(s) - len) : Readable(a)[i] = SubSeq(s, len + 1, Len(s))[i]
    <3> SUFFICES ASSUME NEW i \in 1..(Len(s) - len)
                 PROVE  Readable(a)[i] = SubSeq(s, len + 1, Len(s))[i]
      OBVIOUS
    <3>1. SubSeq(s, len + 1, Len(s))[i] = s[len + i]
      BY <1>0, <2>4, SubSeqAt
    <3>2. len + i \in 1..Len(s) /\ b.m_readerIndex + (len + i) - 1 = b.m_readerIndex + len + i - 1
      BY <1>0, <2>4 DEF WellFormed
    <3> QED
      BY <1>0, <2>3, <2>4, <3>1, <3>2
  <2>6. Readable(a) = SubSeq(s, len + 1, Len(s))
    BY <1>0, <2>3, <2>4, <2>5, SubSeqAt, SameSeq
  <2> QED
    BY <2>1, <2>2, <2>4, <2>6 DEF s
<1>3. CASE len = readableBytes(b)
  BY <1>0, <1>3, RetrieveAllEmpties DEF retrieve
<1> QED
  BY <1>0, <1>1, <1>2, <1>3

\* unwrite takes bytes from the back, or nothing if there are not so many.
LEMMA UnwriteTakesBack ==
  ASSUME NEW b, WellFormed(b), NEW len \in Nat
  PROVE  /\ WellFormed(unwrite(b, len))
         /\ unwrite(b, len).size = b.size
         /\ Readable(unwrite(b, len)) =
              IF len > Len(Readable(b)) THEN Readable(b)
              ELSE SubSeq(Readable(b), 1, Len(Readable(b)) - len)
<1> DEFINE s == Readable(b)
<1>0. /\ s \in Seq(Byte) /\ Len(s) = readableBytes(b) /\ Len(s) \in Nat
      /\ readableBytes(b) = b.m_writerIndex - b.m_readerIndex
      /\ \A i \in 1..Len(s) : s[i] = b.bytes[b.m_readerIndex + i - 1]
  BY ReadableSeq DEF readableBytes
<1>1. CASE len > readableBytes(b)
  <2>1. unwrite(b, len) = b
    BY <1>1 DEF unwrite
  <2> HIDE DEF s
  <2> QED
    BY <1>0, <1>1, <2>1 DEF s
<1>2. CASE ~(len > readableBytes(b))
  <2> DEFINE w == b.m_writerIndex - len
             a == [b EXCEPT !.m_writerIndex = w]
             n == Len(s) - len
  <2>1. unwrite(b, len) = a
    BY <1>2 DEF unwrite
  <2>9. w = b.m_writerIndex - len /\ w \in 0..b.size /\ b.m_readerIndex <= w
    BY <1>0, <1>2 DEF WellFormed
  <2> HIDE DEF w
  <2>2. /\ WellFormed(a) /\ a.size = b.size /\ a.bytes = b.bytes
        /\ a.m_readerIndex = b.m_readerIndex /\ a.m_writerIndex = b.m_writerIndex - len
    BY <2>9 DEF WellFormed
  <2> HIDE DEF a
  <2>3. /\ Readable(a) \in Seq(Byte) /\ Len(Readable(a)) = readableBytes(a)
        /\ \A i \in 1..readableBytes(a) : Readable(a)[i] = b.bytes[b.m_readerIndex + i - 1]
    BY <2>2, ReadableSeq
  <2>4. readableBytes(a) = n /\ n \in 0..Len(s)
    BY <1>0, <1>2, <2>2 DEF readableBytes, WellFormed
  <2> HIDE DEF n
  <2>5. Readable(a) = SubSeq(s, 1, n)
    <3> HIDE DEF s
    <3>1. \A i \in 1..n : Readable(a)[i] = SubSeq(s, 1, n)[i]
      <4> SUFFICES ASSUME NEW i \in 1..n PROVE Readable(a)[i] = SubSeq(s, 1, n)[i]
        OBVIOUS
      <4>1. SubSeq(s, 1, n)[i] = s[i] /\ i \in 1..Len(s)
        BY <1>0, <2>4, SubSeqAt
      <4> QED
        BY <1>0, <2>3, <2>4, <4>1
    <3> QED
      BY <1>0, <2>3, <2>4, <3>1, SubSeqAt, SameSeq
  <2>6. ~(len > Len(s))
    BY <1>0, <1>2
  <2> HIDE DEF s
  <2> QED
    BY <2>1, <2>2, <2>4, <2>5, <2>6 DEF n, s
<1> QED
  BY <1>1, <1>2

LEMMA NewIsEmpty ==
  /\ WellFormed(New(InitialSize)) /\ SizeFor(New(InitialSize), 0)
  /\ Readable(New(InitialSize)) = << >> /\ readableBytes(New(InitialSize)) = 0
<1> DEFINE a == New(InitialSize)
<1>1. /\ a.size = kCheapPrepend + InitialSize
      /\ a.m_readerIndex = kCheapPrepend /\ a.m_writerIndex = kCheapPrepend
  BY DEF New
<1>2. WellFormed(a)
  BY BufferAssumption DEF WellFormed, New
<1> HIDE DEF a
<1>3. readableBytes(a) = 0
  BY <1>1, BufferAssumption DEF readableBytes
<1>4. Readable(a) \in Seq(Byte) /\ Len(Readable(a)) = 0
  BY <1>2, <1>3, ReadableSeq
<1>5. Readable(a) = << >>
  BY <1>4
<1>6. SizeFor(a, 0)
  BY <1>1, BufferAssumption DEF SizeFor
<1> QED
  BY <1>2, <1>3, <1>5, <1>6 DEF a

\* shrink keeps what the buffer holds.
LEMMA ShrinkKeeps ==
  ASSUME NEW b, WellFormed(b), NEW reserve \in Nat,
         NEW m \in Nat, readableBytes(b) + reserve <= m
  PROVE  /\ WellFormed(shrink(b, reserve))
         /\ Readable(shrink(b, reserve)) = Readable(b)
         /\ SizeFor(shrink(b, reserve), m)
<1> DEFINE o == New(InitialSize)
           e == ensureWritableBytes(o, readableBytes(b) + reserve)
<1>1. /\ Readable(b) \in Seq(Byte) /\ Len(Readable(b)) = readableBytes(b)
      /\ readableBytes(b) \in Nat
  BY ReadableSeq
<1>2. /\ WellFormed(o) /\ SizeFor(o, 0) /\ Readable(o) = << >> /\ readableBytes(o) = 0
  BY NewIsEmpty
<1>3. shrink(b, reserve) = append(e, Readable(b))
  BY DEF shrink
<1> HIDE DEF o
<1>4. /\ WellFormed(e) /\ Readable(e) = << >> /\ readableBytes(e) = 0 /\ SizeFor(e, m)
  <2>1. readableBytes(b) + reserve \in Nat /\ 0 <= m
    BY <1>1
  <2>2. readableBytes(o) + (readableBytes(b) + reserve) <= m
    BY <1>1, <1>2
  <2> QED
    BY <1>2, <2>1, <2>2, EnsureMakesSpace
<1> HIDE DEF e
<1>5. readableBytes(e) + Len(Readable(b)) <= m
  BY <1>1, <1>4
<1>6. /\ WellFormed(append(e, Readable(b)))
      /\ Readable(append(e, Readable(b))) = << >> \o Readable(b)
      /\ SizeFor(append(e, Readable(b)), m)
  <2>1. m <= m
    OBVIOUS
  <2>2. Readable(append(e, Readable(b))) = Readable(e) \o Readable(b)
    BY <1>1, <1>4, <1>5, <2>1, AppendAppends
  <2>3. WellFormed(append(e, Readable(b))) /\ SizeFor(append(e, Readable(b)), m)
    BY <1>1, <1>4, <1>5, <2>1, AppendAppends
  <2> QED
    BY <1>4, <2>2, <2>3
<1>7. << >> \o Readable(b) = Readable(b)
  BY <1>1
<1> QED
  BY <1>3, <1>6, <1>7

LEMMA SplitConcat ==
  ASSUME NEW s \in Seq(Byte), NEW d \in Seq(Byte), NEW n \in 0..Len(d)
  PROVE  (s \o SubSeq(d, 1, n)) \o SubSeq(d, n + 1, Len(d)) = s \o d
<1> DEFINE x == SubSeq(d, 1, n)
           y == SubSeq(d, n + 1, Len(d))
           l == (s \o x) \o y
<1>0. Len(s) \in Nat /\ Len(d) \in Nat /\ n \in 0..Len(d)
  OBVIOUS
<1>1. /\ x \in Seq(Byte) /\ Len(x) = n /\ \A i \in 1..n : x[i] = d[i]
      /\ y \in Seq(Byte) /\ Len(y) = Len(d) - n
      /\ \A i \in 1..(Len(d) - n) : y[i] = d[n + i]
  BY SubSeqAt
<1> HIDE DEF x, y
<1>2. /\ s \o x \in Seq(Byte) /\ Len(s \o x) = Len(s) + Len(x)
      /\ \A i \in 1..Len(s) : (s \o x)[i] = s[i]
      /\ \A i \in (Len(s) + 1)..(Len(s) + Len(x)) : (s \o x)[i] = x[i - Len(s)]
  BY <1>1, ConcatAt
<1> DEFINE z == s \o x
<1>3. /\ z \o y \in Seq(Byte) /\ Len(z \o y) = Len(z) + Len(y)
      /\ \A i \in 1..Len(z) : (z \o y)[i] = z[i]
      /\ \A i \in (Len(z) + 1)..(Len(z) + Len(y)) : (z \o y)[i] = y[i - Len(z)]
  <2> HIDE DEF z
  <2>1. z \in Seq(Byte)
    BY <1>2 DEF z
  <2> QED
    BY <1>1, <2>1, ConcatAt
<1>4. /\ s \o d \in Seq(Byte) /\ Len(s \o d) = Len(s) + Len(d)
      /\ \A i \in 1..Len(s) : (s \o d)[i] = s[i]
      /\ \A i \in (Len(s) + 1)..(Len(s) + Len(d)) : (s \o d)[i] = d[i - Len(s)]
  BY ConcatAt
<1>5. /\ l = z \o y /\ Len(l) = Len(s) + Len(d) /\ Len(z) = Len(s) + n
      /\ \A i \in 1..(Len(s) + Len(d)) : l[i] = (s \o d)[i]
  <2>1. l = z \o y /\ Len(z) = Len(s) + n
    BY <1>1, <1>2
  <2>2. Len(l) = Len(s) + Len(d)
    BY <1>0, <1>1, <1>3, <2>1
  <2>3. ASSUME NEW i \in 1..(Len(s) + Len(d)) PROVE l[i] = (s \o d)[i]
    <3>1. CASE i <= Len(s)
      <4>1. i \in 1..Len(s) /\ i \in 1..Len(z)
        BY <1>0, <2>1, <3>1
      <4>2. l[i] = z[i]
        BY <1>3, <2>1, <4>1
      <4> QED
        BY <1>2, <1>4, <4>1, <4>2
    <3>2. CASE i > Len(s) /\ i <= Len(s) + n
      <4>1. /\ i - Len(s) \in 1..n /\ i \in 1..Len(z)
            /\ i \in (Len(s) + 1)..(Len(s) + Len(x))
            /\ i \in (Len(s) + 1)..(Len(s) + Len(d))
        BY <1>0, <1>1, <2>1, <3>2
      <4>2. l[i] = z[i]
        BY <1>3, <2>1, <4>1
      <4>3. z[i] = x[i - Len(s)] /\ x[i - Len(s)] = d[i - Len(s)]
        BY <1>1, <1>2, <4>1
      <4> QED
        BY <1>4, <4>1, <4>2, <4>3
    <3>3. CASE i > Len(s) + n
      <4>1. /\ i - Len(z) \in 1..(Len(d) - n) /\ n + (i - Len(z)) = i - Len(s)
            /\ i \in (Len(z) + 1)..(Len(z) + Len(y))
            /\ i \in (Len(s) + 1)..(Len(s) + Len(d))
        BY <1>0, <1>1, <2>1, <3>3
      <4>2. l[i] = y[i - Len(z)]
        BY <1>3, <2>1, <4>1
      <4>3. y[i - Len(z)] = d[i - Len(s)]
        BY <1>1, <4>1
      <4> QED
        BY <1>4, <4>1, <4>2, <4>3
    <3>4. i <= Len(s) \/ (i > Len(s) /\ i <= Len(s) + n) \/ i > Len(s) + n
      BY <1>0
    <3> QED
      BY <3>1, <3>2, <3>3, <3>4
  <2> QED
    BY <2>1, <2>2, <2>3
<1>6. l = s \o d
  <2>1. Len(l) = Len(s \o d) /\ l \in Seq(Byte) /\ \A i \in 1..Len(l) : l[i] = (s \o d)[i]
    BY <1>3, <1>4, <1>5
  <2> HIDE DEF l
  <2> QED
    BY <1>4, <2>1, SameSeq
<1> QED
  BY <1>6 DEF l, x, y

\* readFd appends what was read, whether it fits, fills the vector or is more.
LEMMA ReadFdAppends ==
  ASSUME NEW b, WellFormed(b), NEW data \in Seq(Byte),
         NEW n \in Nat, SizeFor(b, n), NEW m \in Nat, n <= m,
         readableBytes(b) + Len(data) <= m
  PROVE  /\ WellFormed(readFd(b, data))
         /\ Readable(readFd(b, data)) = Readable(b) \o data
         /\ SizeFor(readFd(b, data), m)
<1> DEFINE room == writableBytes(b)
<1>0. /\ room \in Nat /\ b.size = b.m_writerIndex + room
      /\ b.m_writerIndex \in Nat /\ Len(data) \in Nat
      /\ Readable(b) \in Seq(Byte) /\ readableBytes(b) \in Nat
  BY ReadableSeq DEF writableBytes, WellFormed
<1>1. CASE Len(data) < room
  <2>1. readFd(b, data) = Written(b, data)
    <3>1. CopyTo(b, b.m_writerIndex, data).m_writerIndex = b.m_writerIndex
      BY <1>0, CopyToWellFormed
    <3> QED
      BY <1>1, <3>1 DEF readFd, Written
  <2>2. /\ WellFormed(Written(b, data)) /\ Written(b, data).size = b.size
        /\ Readable(Written(b, data)) = Readable(b) \o data
    BY <1>0, <1>1, WrittenIsReadable
  <2>3. SizeFor(Written(b, data), m)
    BY <1>0, <2>2, BufferAssumption DEF SizeFor
  <2> QED
    BY <2>1, <2>2, <2>3
<1>2. CASE ~(Len(data) < room)
  <2> DEFINE first == SubSeq(data, 1, room)
             rest  == SubSeq(data, room + 1, Len(data))
             w     == Written(b, first)
  <2>1. /\ first \in Seq(Byte) /\ Len(first) = room
        /\ rest \in Seq(Byte) /\ Len(rest) = Len(data) - room
    <3>1. room \in 0..Len(data)
      BY <1>0, <1>2
    <3> HIDE DEF room
    <3> QED
      BY <3>1, SubSeqAt
  <2>2. readFd(b, data) = append(w, rest)
    BY <1>0, <1>2, <2>1 DEF readFd, Written
  <2> HIDE DEF first, rest
  <2>3. /\ WellFormed(w) /\ w.size = b.size /\ w.m_readerIndex = b.m_readerIndex
        /\ w.m_writerIndex = b.m_writerIndex + room
        /\ Readable(w) = Readable(b) \o first
    <3>1. Len(first) <= writableBytes(b)
      BY <1>0, <2>1
    <3>2. /\ WellFormed(w) /\ w.size = b.size /\ w.m_readerIndex = b.m_readerIndex
          /\ w.m_writerIndex = b.m_writerIndex + Len(first)
          /\ Readable(w) = Readable(b) \o first
      BY <2>1, <3>1, WrittenIsReadable
    <3> QED
      BY <2>1, <3>2
  <2> HIDE DEF w
  <2>4. readableBytes(w) = readableBytes(b) + room
    BY <1>0, <2>3 DEF readableBytes, WellFormed
  <2>5. SizeFor(w, n)
    BY <2>3 DEF SizeFor
  <2>6. readableBytes(w) + Len(rest) <= m
    BY <1>0, <2>1, <2>4
  <2>7. /\ WellFormed(append(w, rest)) /\ SizeFor(append(w, rest), m)
        /\ Readable(append(w, rest)) = Readable(w) \o rest
    BY <2>1, <2>3, <2>5, <2>6, AppendAppends
  <2>8. (Readable(b) \o first) \o rest = Readable(b) \o data
    <3>1. room \in 0..Len(data)
      BY <1>0, <1>2
    <3> HIDE DEF room
    <3> QED
      BY <1>0, <3>1, SplitConcat DEF first, rest
  <2> QED
    BY <2>2, <2>3, <2>7, <2>8
<1> QED
  BY <1>1, <1>2
-----------------------------------------------------------------------------
IInv == TypeOK /\ WasteBounded /\ ImplementsQueue

LEMMA InitInv == Init => IInv
BY NewIsEmpty, BufferAssumption DEF Init, IInv, TypeOK, WasteBounded, ImplementsQueue, Q!QInit

LEMMA NeedsPeak ==
  ASSUME TypeOK, NEW n \in Nat, Needs(n)
  PROVE  peak' \in 0..MaxReadable /\ peak <= peak' /\ n <= peak'
BY BufferAssumption DEF TypeOK, Needs

LEMMA Holds ==
  ASSUME IInv
  PROVE  /\ WellFormed(buf) /\ SizeFor(buf, peak) /\ peak \in Nat
         /\ readableBytes(buf) \in Nat
BY ReadableSeq DEF IInv, TypeOK, WasteBounded

\* A step to a buffer that is not too large, in which the buffer and the queue come to
\* hold the same.
LEMMA KeepsInv ==
  ASSUME NEW a, WellFormed(a), buf' = a, peak' \in 0..MaxReadable, SizeFor(a, peak'),
         queue' = Readable(a)
  PROVE  IInv'
BY DEF IInv, TypeOK, WasteBounded, ImplementsQueue

\* One to a buffer of the same size is not too large.
LEMMA SameSizeStep ==
  ASSUME IInv, NEW a, WellFormed(a), a.size = buf.size, buf' = a,
         peak' \in 0..MaxReadable, peak <= peak', queue' = Readable(a)
  PROVE  IInv'
<1>1. SizeFor(a, peak')
  BY BufferAssumption, Holds DEF SizeFor, WellFormed
<1> QED
  BY <1>1, KeepsInv

LEMMA AppendStep ==
  ASSUME IInv, NEW data \in Seq(Byte), AppendData(data)
  PROVE  IInv'
<1>1. /\ WellFormed(buf) /\ SizeFor(buf, peak) /\ peak \in Nat
  BY Holds
<1>2. readableBytes(buf) + Len(data) \in Nat
  BY <1>1, ReadableSeq
<1>3. peak' \in 0..MaxReadable /\ peak <= peak' /\ readableBytes(buf) + Len(data) <= peak'
  BY <1>2, NeedsPeak DEF IInv, AppendData
<1>4. /\ WellFormed(append(buf, data)) /\ SizeFor(append(buf, data), peak')
      /\ Readable(append(buf, data)) = Readable(buf) \o data
  <2>1. peak' \in Nat
    BY <1>3, BufferAssumption
  <2> QED
    BY <1>1, <1>3, <2>1, AppendAppends
<1>5. buf' = append(buf, data) /\ queue' = Readable(buf) \o data
  BY DEF AppendData, Q!PutBack, IInv, ImplementsQueue
<1> QED
  BY <1>3, <1>4, <1>5, KeepsInv

LEMMA PrependStep ==
  ASSUME IInv, NEW data \in Seq(Byte), PrependData(data)
  PROVE  IInv'
<1>1. readableBytes(buf) + Len(data) \in Nat /\ WellFormed(buf)
  BY Holds
<1>2. peak' \in 0..MaxReadable /\ peak <= peak'
  BY <1>1, NeedsPeak DEF IInv, PrependData
<1>3. /\ buf' = prepend(buf, data)
      /\ queue' = IF Len(data) > prependableBytes(buf) THEN Readable(buf)
                                                       ELSE data \o Readable(buf)
  BY DEF PrependData, Q!Keep, Q!PutFront, IInv, ImplementsQueue
<1>4. queue' = Readable(prepend(buf, data))
  BY <1>1, <1>3, PrependPrepends
<1> QED
  BY <1>1, <1>2, <1>3, <1>4, PrependPrepends, SameSizeStep

LEMMA WriteDirectStep ==
  ASSUME IInv, NEW data \in Seq(Byte), WriteDirect(data)
  PROVE  IInv'
<1>1. /\ readableBytes(buf) + Len(data) \in Nat /\ WellFormed(buf)
      /\ Len(data) <= writableBytes(buf)
  BY Holds DEF WriteDirect
<1>2. peak' \in 0..MaxReadable /\ peak <= peak'
  BY <1>1, NeedsPeak DEF IInv, WriteDirect
<1>3. /\ WellFormed(Written(buf, data)) /\ Written(buf, data).size = buf.size
      /\ Readable(Written(buf, data)) = Readable(buf) \o data
  BY <1>1, WrittenIsReadable
<1>4. buf' = Written(buf, data)
  <2> DEFINE c == CopyTo(buf, buf.m_writerIndex, data)
  <2>1. /\ c.size = buf.size /\ c.m_writerIndex = buf.m_writerIndex
    BY <1>1, CopyToWellFormed DEF WellFormed
  <2>2. buf' = hasWritten(c, Len(data))
    BY DEF WriteDirect
  <2>3. Written(buf, data) = [c EXCEPT !.m_writerIndex = buf.m_writerIndex + Len(data)]
    BY DEF Written
  <2>4. ~(Len(data) > writableBytes(buf))
    BY <1>1, ReadableSeq
  <2> HIDE DEF c
  <2> QED
    BY <2>1, <2>2, <2>3, <2>4 DEF hasWritten, writableBytes
<1>5. queue' = Readable(buf) \o data
  BY DEF WriteDirect, Q!PutBack, IInv, ImplementsQueue
<1> QED
  BY <1>2, <1>3, <1>4, <1>5, SameSizeStep

LEMMA ReadFdStep ==
  ASSUME IInv, NEW data \in Seq(Byte), ReadFd(data)
  PROVE  IInv'
<1>1. readableBytes(buf) + Len(data) \in Nat
  BY Holds
<1>2. peak' \in 0..MaxReadable /\ peak <= peak' /\ readableBytes(buf) + Len(data) <= peak'
  BY <1>1, NeedsPeak DEF IInv, ReadFd
<1>3. peak' \in Nat
  BY <1>2, BufferAssumption
<1>4. /\ WellFormed(readFd(buf, data)) /\ SizeFor(readFd(buf, data), peak')
      /\ Readable(readFd(buf, data)) = Readable(buf) \o data
  BY <1>2, <1>3, Holds, ReadFdAppends
<1>5. buf' = readFd(buf, data) /\ queue' = Readable(buf) \o data
  BY DEF ReadFd, Q!PutBack, IInv, ImplementsQueue
<1> QED
  BY <1>2, <1>4, <1>5, KeepsInv

LEMMA EnsureStep ==
  ASSUME IInv, NEW len \in Nat, EnsureWritable(len)
  PROVE  IInv'
<1>1. readableBytes(buf) + len \in Nat
  BY Holds
<1>2. peak' \in 0..MaxReadable /\ peak <= peak' /\ readableBytes(buf) + len <= peak'
  BY <1>1, NeedsPeak DEF IInv, EnsureWritable
<1>3. peak' \in Nat
  BY <1>2, BufferAssumption
<1>4. LET e == ensureWritableBytes(buf, len)
      IN WellFormed(e) /\ SizeFor(e, peak') /\ Readable(e) = Readable(buf)
  BY <1>2, <1>3, Holds, EnsureMakesSpace
<1>5. buf' = ensureWritableBytes(buf, len) /\ queue' = Readable(buf)
  BY DEF EnsureWritable, Q!Keep, IInv, ImplementsQueue
<1> QED
  BY <1>2, <1>4, <1>5, KeepsInv

LEMMA ShrinkStep ==
  ASSUME IInv, NEW reserve \in Nat, Shrink(reserve)
  PROVE  IInv'
<1>1. readableBytes(buf) + reserve \in Nat
  BY Holds
<1>2. peak' \in 0..MaxReadable /\ peak <= peak' /\ readableBytes(buf) + reserve <= peak'
  BY <1>1, NeedsPeak DEF IInv, Shrink
<1>3. peak' \in Nat
  BY <1>2, BufferAssumption
<1>4. /\ WellFormed(shrink(buf, reserve)) /\ SizeFor(shrink(buf, reserve), peak')
      /\ Readable(shrink(buf, reserve)) = Readable(buf)
  BY <1>2, <1>3, Holds, ShrinkKeeps
<1>5. buf' = shrink(buf, reserve) /\ queue' = Readable(buf)
  BY DEF Shrink, Q!Keep, IInv, ImplementsQueue
<1> QED
  BY <1>2, <1>4, <1>5, KeepsInv

LEMMA NextStep ==
  ASSUME IInv, Next
  PROVE  IInv'
<1>0. WellFormed(buf) /\ peak \in Nat /\ peak \in 0..MaxReadable /\ queue = Readable(buf)
  BY Holds DEF IInv, TypeOK, ImplementsQueue
<1>p. UNCHANGED peak => peak' \in 0..MaxReadable /\ peak <= peak'
  BY <1>0
<1>1. ASSUME NEW data \in Data, AppendData(data) \/ PrependData(data)
                                \/ WriteDirect(data) \/ ReadFd(data)
      PROVE  IInv'
  BY <1>1, DataIsBytes, AppendStep, PrependStep, WriteDirectStep, ReadFdStep
<1>2. ASSUME NEW x \in Integer, AppendInt(x) \/ PrependInt(x)
      PROVE  IInv'
  BY <1>2, DataIsBytes, AppendStep, PrependStep DEF AppendInt, PrependInt
<1>3. ASSUME NEW len \in Nat, Retrieve(len)
      PROVE  IInv'
  <2>1. /\ buf' = retrieve(buf, len) /\ UNCHANGED peak
        /\ queue' = Readable(retrieve(buf, len))
    BY <1>0, <1>3, RetrieveTakesFront DEF Retrieve, Q!TakeFront
  <2> QED
    BY <1>0, <1>p, <2>1, RetrieveTakesFront, SameSizeStep
<1>4. ASSUME NEW len \in Nat, Unwrite(len)
      PROVE  IInv'
  <2>1. /\ buf' = unwrite(buf, len) /\ UNCHANGED peak
        /\ queue' = Readable(unwrite(buf, len))
    BY <1>0, <1>4, UnwriteTakesBack DEF Unwrite, Q!TakeBack
  <2> QED
    BY <1>0, <1>p, <2>1, UnwriteTakesBack, SameSizeStep
<1>5. ASSUME NEW len \in Nat, EnsureWritable(len) \/ Shrink(len)
      PROVE  IInv'
  BY <1>5, EnsureStep, ShrinkStep
<1>6. CASE RetrieveAll
  <2>1. /\ buf' = retrieveAll(buf) /\ UNCHANGED peak
        /\ queue' = Readable(retrieveAll(buf))
    BY <1>0, <1>6, RetrieveAllEmpties DEF RetrieveAll, Q!Clear
  <2> QED
    BY <1>0, <1>p, <2>1, RetrieveAllEmpties, SameSizeStep
<1> QED
  BY <1>1, <1>2, <1>3, <1>4, <1>5, <1>6, BufferAssumption DEF Next

LEMMA StepInv == IInv /\ [Next]_vars => IInv'
<1>1. IInv /\ UNCHANGED vars => IInv'
  BY DEF IInv, TypeOK, WasteBounded, ImplementsQueue, vars, Readable, readableBytes
<1> QED
  BY <1>1, NextStep
-----------------------------------------------------------------------------
(* The theorems.                                                           *)

LEMMA Invariance == Spec => []IInv
BY InitInv, StepInv, PTL DEF Spec

\* The indices stay in their order and inside the vector (ByteBuffer.h:401-403).
THEOREM TypeCorrect == Spec => []TypeOK
<1>1. IInv => TypeOK
  BY DEF IInv
<1> QED
  BY <1>1, Invariance, PTL

\* The vector never grows to twice what it had to hold (ByteBuffer.h:381-399).
THEOREM WasteIsBounded == Spec => []WasteBounded
<1>1. IInv => WasteBounded
  BY DEF IInv
<1> QED
  BY <1>1, Invariance, PTL

\* What ensureWritableBytes is asked for is there afterwards, so that append never
\* copies behind the end of the vector (ByteBuffer.h:184-205, 381-399).
THEOREM SpaceIsMade == Spec => []SpaceOnRequest
<1>1. IInv => SpaceOnRequest
  <2> SUFFICES ASSUME IInv, NEW len \in Nat
               PROVE  writableBytes(ensureWritableBytes(buf, len)) >= len
    BY BufferAssumption DEF SpaceOnRequest
  <2>1. PICK m \in Nat : peak <= m /\ readableBytes(buf) + len <= m
    <3>1. peak + readableBytes(buf) + len \in Nat
      BY Holds
    <3> QED
      BY <3>1, Holds
  <2> QED
    BY <2>1, Holds, EnsureMakesSpace
<1> QED
  BY <1>1, Invariance, PTL

\* The buffer holds what a queue of bytes holds after the same calls.
THEOREM ImplementsTheQueue == Spec => []ImplementsQueue
<1>1. IInv => ImplementsQueue
  BY DEF IInv
<1> QED
  BY <1>1, Invariance, PTL
-----------------------------------------------------------------------------
(* Integers.                                                               *)

LEMMA ReverseAt ==
  ASSUME NEW S, NEW s \in Seq(S)
  PROVE  /\ Reverse(s) \in Seq(S) /\ Len(Reverse(s)) = Len(s)
         /\ \A i \in 1..Len(s) : Reverse(s)[i] = s[(Len(s) - i) + 1]
<1>1. \A i \in 1..Len(s) : (Len(s) - i) + 1 \in 1..Len(s)
  OBVIOUS
<1> QED
  BY <1>1 DEF Reverse

Octet == 0..255

\* The bytes of a 64-bit integer above its k lowest repeat its sign.
SignAbove(w, k) == \E v \in {0, 255} : \A i \in (k + 1)..8 : w[i] = v

LEMMA WidenAt ==
  ASSUME NEW k \in {2, 4}, NEW x \in Seq(Byte), Len(x) = k
  PROVE  /\ Widen(x) \in Seq(Octet) /\ Len(Widen(x)) = 8
         /\ SignAbove(Widen(x), k)
<1>0. k \in Nat /\ 8 - k \in Nat
  OBVIOUS
<1>1. x \in Seq(Octet)
  <2>1. \A i \in 1..k : x[i] \in Octet
    <3>1. \A i \in 1..Len(x) : x[i] \in Byte
      OBVIOUS
    <3> QED
      BY <3>1, BufferAssumption DEF Octet
  <2> QED
    BY <2>1
<1>2. ASSUME NEW v \in {0, 255}
      PROVE  \A u : u = x \o [i \in 1..(8 - k) |-> v] =>
               u \in Seq(Octet) /\ Len(u) = 8 /\ \A i \in (k + 1)..8 : u[i] = v
  <2> DEFINE t == [i \in 1..(8 - k) |-> v]
             w == x \o t
  <2>1. /\ t \in Seq(Octet) /\ Len(t) = 8 - k
        /\ \A i \in 1..(8 - k) : t[i] = v
    <3>1. \A i \in 1..(8 - k) : v \in Octet
      BY DEF Octet
    <3> QED
      BY <1>0, <3>1
  <2> HIDE DEF t
  <2>2. w \in Seq(Octet) /\ Len(w) = 8
    BY <1>0, <1>1, <2>1
  <2>3. ASSUME NEW i \in (k + 1)..8 PROVE w[i] = v
    <3>1. i \in (Len(x) + 1)..(Len(x) + Len(t)) /\ i - Len(x) \in 1..(8 - k)
      BY <1>0, <2>1
    <3>2. w[i] = t[i - Len(x)]
      BY <1>1, <2>1, <3>1
    <3> QED
      BY <2>1, <3>1, <3>2
  <2> QED
    BY <2>2, <2>3 DEF t
<1>3. CASE x[Len(x)] >= 128
  <2>1. Widen(x) = x \o [i \in 1..(8 - k) |-> 255]
    BY <1>3 DEF Widen, MinusOne
  <2>2. \A u : u = x \o [i \in 1..(8 - k) |-> 255] =>
          u \in Seq(Octet) /\ Len(u) = 8 /\ \A i \in (k + 1)..8 : u[i] = 255
    BY <1>2
  <2> QED
    <3>1. Widen(x) \in Seq(Octet) /\ Len(Widen(x)) = 8
      BY <2>1, <2>2
    <3>2. \A i \in (k + 1)..8 : Widen(x)[i] = 255
      BY <2>1, <2>2
    <3>3. SignAbove(Widen(x), k)
      BY <3>2 DEF SignAbove
    <3> QED
      BY <3>1, <3>3
<1>4. CASE ~(x[Len(x)] >= 128)
  <2>1. Widen(x) = x \o [i \in 1..(8 - k) |-> 0]
    BY <1>4 DEF Widen, Zero
  <2>2. \A u : u = x \o [i \in 1..(8 - k) |-> 0] =>
          u \in Seq(Octet) /\ Len(u) = 8 /\ \A i \in (k + 1)..8 : u[i] = 0
    BY <1>2
  <2> QED
    <3>1. Widen(x) \in Seq(Octet) /\ Len(Widen(x)) = 8
      BY <2>1, <2>2
    <3>2. \A i \in (k + 1)..8 : Widen(x)[i] = 0
      BY <2>1, <2>2
    <3>3. SignAbove(Widen(x), k)
      BY <3>2 DEF SignAbove
    <3> QED
      BY <3>1, <3>3
<1> QED
  BY <1>3, <1>4

\* The low bytes of the turned integer are the high bytes of the widened one.
LEMMA NarrowIsSign ==
  ASSUME NEW k \in {2, 4}, NEW x \in Seq(Byte), Len(x) = k
  PROVE  networkToHost64(x) \in {Zero(k), MinusOne(k)}
<1> DEFINE w == Widen(x)
           r == Reverse(w)
           h == SubSeq(r, 1, k)
<1>0. k \in Nat /\ k <= 4
  OBVIOUS
<1>1. /\ w \in Seq(Octet) /\ Len(w) = 8
      /\ SignAbove(w, k)
  <2> HIDE DEF r, h
  <2>1. w \in Seq(Octet) /\ Len(w) = 8
    BY WidenAt
  <2>2. SignAbove(w, k)
    BY WidenAt
  <2> QED
    BY <2>1, <2>2
<1>2. /\ r \in Seq(Octet) /\ Len(r) = 8
      /\ \A i \in 1..8 : r[i] = w[(8 - i) + 1]
  <2> HIDE DEF w
  <2>1. /\ Reverse(w) \in Seq(Octet) /\ Len(Reverse(w)) = Len(w)
        /\ \A i \in 1..Len(w) : Reverse(w)[i] = w[(Len(w) - i) + 1]
    <3>1. w \in Seq(Octet)
      BY <1>1
    <3> HIDE DEF r, h
    <3> QED
      BY <3>1, ReverseAt
  <2> QED
    BY <1>1, <2>1
<1> HIDE DEF w, r
<1>3. \A i \in 1..k : i \in 1..8 /\ (8 - i) + 1 \in (k + 1)..8
  BY <1>0
<1>4. Len(h) = k /\ h = [i \in 1..k |-> r[i]] /\ \A i \in 1..k : h[i] = r[i]
  BY <1>0, <1>2
<1> HIDE DEF h
<1>5. \E v \in {0, 255} : \A i \in 1..k : h[i] = v
  <2>1. PICK v \in {0, 255} : \A i \in (k + 1)..8 : w[i] = v
    BY <1>1 DEF SignAbove
  <2>2. \A i \in 1..k : h[i] = v
    BY <1>2, <1>3, <1>4, <2>1
  <2> QED
    BY <2>2
<1>6. h \in {Zero(k), MinusOne(k)}
  <2>1. CASE \A i \in 1..k : h[i] = 0
    BY <1>4, <2>1 DEF Zero
  <2>2. CASE \A i \in 1..k : h[i] = 255
    BY <1>4, <2>2 DEF MinusOne
  <2> QED
    BY <1>5, <2>1, <2>2
<1> QED
  BY <1>6 DEF networkToHost64, w, r, h

\* peekInt32 and peekInt16 return 0 or -1, whatever the peer sent
\* (ByteBuffer.h:292-310, Endian.h).
THEOREM NarrowIntegersAreLost ==
  Spec => [](\A k \in {2, 4} : peekInt(buf, k) \in {Zero(k), MinusOne(k)})
<1>1. IInv => \A k \in {2, 4} : peekInt(buf, k) \in {Zero(k), MinusOne(k)}
  <2> SUFFICES ASSUME IInv, NEW k \in {2, 4}
               PROVE  peekInt(buf, k) \in {Zero(k), MinusOne(k)}
    OBVIOUS
  <2>1. CASE readableBytes(buf) < k
    BY <2>1 DEF peekInt
  <2>2. CASE ~(readableBytes(buf) < k)
    <3> DEFINE x == SubSeq(Readable(buf), 1, k)
    <3>1. /\ Readable(buf) \in Seq(Byte) /\ Len(Readable(buf)) = readableBytes(buf)
          /\ readableBytes(buf) \in Nat
      BY Holds, ReadableSeq
    <3>2. x \in Seq(Byte) /\ Len(x) = k
      BY <2>2, <3>1, SubSeqAt
    <3>3. peekInt(buf, k) = networkToHost64(x)
      BY <2>2 DEF peekInt
    <3> HIDE DEF x
    <3> QED
      BY <3>2, <3>3, NarrowIsSign
  <2> QED
    BY <2>1, <2>2
<1> QED
  BY <1>1, Invariance, PTL

LEMMA WideTurnsBack ==
  ASSUME NEW x \in Seq(Byte), Len(x) = 8
  PROVE  networkToHost64(hostToNetwork(x)) = x
<1> DEFINE y == Reverse(x)
           z == Reverse(y)
<1>1. /\ y \in Seq(Byte) /\ Len(y) = 8
      /\ \A i \in 1..8 : y[i] = x[(8 - i) + 1]
  <2>1. /\ y \in Seq(Byte) /\ Len(y) = Len(x)
        /\ \A i \in 1..Len(x) : y[i] = x[(Len(x) - i) + 1]
    BY ReverseAt
  <2> QED
    BY <2>1
<1> HIDE DEF y
<1>2. Widen(y) = y
  <2>1. Zero(8 - Len(y)) = << >> /\ MinusOne(8 - Len(y)) = << >>
    <3>1. 8 - Len(y) = 0
      BY <1>1
    <3>2. [i \in 1..0 |-> 0] = << >> /\ [i \in 1..0 |-> 255] = << >>
      OBVIOUS
    <3> QED
      BY <3>1, <3>2 DEF Zero, MinusOne
  <2>2. Widen(y) = y \o << >>
    BY <2>1 DEF Widen
  <2> QED
    BY <1>1, <2>2
<1>3. /\ z \in Seq(Byte) /\ Len(z) = 8
      /\ \A i \in 1..8 : z[i] = y[(8 - i) + 1]
  <2>1. /\ z \in Seq(Byte) /\ Len(z) = Len(y)
        /\ \A i \in 1..Len(y) : z[i] = y[(Len(y) - i) + 1]
    BY <1>1, ReverseAt
  <2> QED
    BY <1>1, <2>1
<1>4. \A i \in 1..8 : z[i] = x[i]
  <2> HIDE DEF z
  <2> SUFFICES ASSUME NEW i \in 1..8 PROVE z[i] = x[i]
    OBVIOUS
  <2>1. (8 - i) + 1 \in 1..8 /\ (8 - ((8 - i) + 1)) + 1 = i
    OBVIOUS
  <2> QED
    BY <1>1, <1>3, <2>1
<1>5. z = x /\ SubSeq(z, 1, 8) = z
  <2> HIDE DEF z
  <2> QED
    BY <1>3, <1>4, SameSeq
<1> QED
  BY <1>1, <1>2, <1>5 DEF networkToHost64, hostToNetwork, y

\* Bytes in front of others are read first.
LEMMA PeekFront ==
  ASSUME NEW b, WellFormed(b), NEW d \in Seq(Byte), NEW t \in Seq(Byte),
         Readable(b) = d \o t, Len(d) \in {1, 8}
  PROVE  peekInt(b, Len(d)) = IF Len(d) = 1 THEN d ELSE networkToHost64(d)
<1>1. readableBytes(b) = Len(d) + Len(t)
  BY ReadableSeq
<1>2. SubSeq(d \o t, 1, Len(d)) = d
  <2> DEFINE s == SubSeq(d \o t, 1, Len(d))
  <2>1. /\ d \o t \in Seq(Byte) /\ Len(d) \in 0..Len(d \o t)
        /\ \A i \in 1..Len(d) : (d \o t)[i] = d[i]
    OBVIOUS
  <2>2. s \in Seq(Byte) /\ Len(s) = Len(d) /\ \A i \in 1..Len(d) : s[i] = (d \o t)[i]
    BY <2>1, SubSeqAt
  <2> HIDE DEF s
  <2>3. s = d
    BY <2>1, <2>2, SameSeq
  <2> QED
    BY <2>3 DEF s
<1>3. ~(readableBytes(b) < Len(d))
  BY <1>1
<1> QED
  BY <1>2, <1>3 DEF peekInt

\* A 64-bit or an 8-bit integer is read back as it was written
\* (ByteBuffer.h:234-238, 252-255, 282-290, 312-325, 339-342).
THEOREM WideIntegersAreKept == Spec => []WideIntegersReadBack
<1>1. ASSUME IInv, NEW x \in Integer, Len(x) \in {1, 8}
      PROVE  /\ readableBytes(buf) = 0 => peekInt(append(buf, hostToNetwork(x)), Len(x)) = x
             /\ Len(x) <= prependableBytes(buf) =>
                  peekInt(prepend(buf, hostToNetwork(x)), Len(x)) = x
  <2> DEFINE d == hostToNetwork(x)
  <2>1. x \in Seq(Byte) /\ Len(x) \in Nat
    <3>1. PICK k \in Widths : x \in [1..k -> Byte]
      BY BufferAssumption
    <3> QED
      BY <3>1 DEF Widths
  <2>2. d \in Seq(Byte) /\ Len(d) = Len(x)
    BY <2>1, ReverseAt DEF hostToNetwork
  <2>3. (IF Len(d) = 1 THEN d ELSE networkToHost64(d)) = x
    <3>1. CASE Len(x) = 1
      <4>1. d[1] = x[1]
        BY <2>1, <3>1, ReverseAt DEF hostToNetwork
      <4> HIDE DEF d
      <4>2. d = x
        BY <2>1, <2>2, <3>1, <4>1, SameSeq
      <4> QED
        BY <2>2, <3>1, <4>2
    <3>2. CASE Len(x) = 8
      BY <2>1, <2>2, <3>2, WideTurnsBack
    <3> QED
      BY <1>1, <3>1, <3>2
  <2> HIDE DEF d
  <2>4. /\ WellFormed(buf) /\ SizeFor(buf, peak) /\ peak \in Nat
        /\ readableBytes(buf) \in Nat /\ prependableBytes(buf) \in Nat
        /\ Readable(buf) \in Seq(Byte) /\ Len(Readable(buf)) = readableBytes(buf)
    BY <1>1, Holds, ReadableSeq
  <2>5. ASSUME readableBytes(buf) = 0
        PROVE  peekInt(append(buf, d), Len(x)) = x
    <3> DEFINE m == peak + readableBytes(buf) + Len(d)
    <3>1. m \in Nat /\ peak <= m /\ readableBytes(buf) + Len(d) <= m
      BY <2>2, <2>4
    <3>2. WellFormed(append(buf, d)) /\ Readable(append(buf, d)) = Readable(buf) \o d
      <4> HIDE DEF m
      <4> QED
        BY <2>2, <2>4, <3>1, AppendAppends
    <3>3. Readable(buf) \o d = d \o << >>
      BY <2>2, <2>4, <2>5
    <3>4. << >> \in Seq(Byte)
      OBVIOUS
    <3> HIDE DEF m
    <3>5. peekInt(append(buf, d), Len(d)) = IF Len(d) = 1 THEN d ELSE networkToHost64(d)
      BY <1>1, <2>2, <3>2, <3>3, <3>4, PeekFront
    <3> QED
      BY <2>2, <2>3, <3>5
  <2>6. ASSUME Len(x) <= prependableBytes(buf)
        PROVE  peekInt(prepend(buf, d), Len(x)) = x
    <3>1. WellFormed(prepend(buf, d)) /\ Readable(prepend(buf, d)) = d \o Readable(buf)
      <4>1. ~(Len(d) > prependableBytes(buf))
        BY <2>1, <2>2, <2>4, <2>6
      <4> QED
        BY <2>2, <2>4, <4>1, PrependPrepends
    <3>2. peekInt(prepend(buf, d), Len(d)) = IF Len(d) = 1 THEN d ELSE networkToHost64(d)
      BY <1>1, <2>2, <2>4, <3>1, PeekFront
    <3> QED
      BY <2>2, <2>3, <3>2
  <2> QED
    BY <2>5, <2>6 DEF d
<1>2. IInv => WideIntegersReadBack
  BY <1>1 DEF WideIntegersReadBack, ReadsBack
<1> QED
  BY <1>2, Invariance, PTL
=============================================================================
