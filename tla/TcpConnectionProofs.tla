------------------------- MODULE TcpConnectionProofs -------------------------
(***************************************************************************)
(* Proofs about TcpConnection, for any messages, any threads other than    *)
(* the loop thread, any high water mark, any number of calls, either of    *)
(* the two bodies of shutdownInLoop and either reading of the channel.     *)
(***************************************************************************)
EXTENDS TcpConnection, SequenceTheorems, FiniteSetTheorems, TLAPS

\* StreamIntact, strengthened: a message is given up only when the socket takes
\* nothing any more, so that from then on nothing is written.
StreamInv ==
  IF dropped THEN ~CanWrite /\ IsPrefix(wire, given)
             ELSE given = wire \o m_outputBuffer

IInv == TypeOK /\ StreamInv /\ WriteInterest /\ DownExactlyOnce

USE DEF vars, sockVars, peerVars, sendVars, cbVars, stateVars, interest, pollVars,
        chanVars, callVars

-----------------------------------------------------------------------------
(* Sequences and functors.                                                 *)

LEMMA PrefixOfConcat ==
  ASSUME NEW S, NEW s \in Seq(S), NEW t \in Seq(S), NEW u \in Seq(S), IsPrefix(s, t)
  PROVE  IsPrefix(s, t \o u)
<1>1. CASE s = <<>>
  <2>1. Len(s) = 0 /\ Len(t \o u) \in Nat
    BY <1>1, ConcatProperties, LenProperties
  <2>2. SubSeq(s, 1, 0) = <<>> /\ SubSeq(t \o u, 1, 0) = <<>>
    BY SubSeqEmpty
  <2> QED BY <2>1, <2>2 DEF IsPrefix
<1>2. CASE s # <<>>
  <2>1. Len(s) \in 1..Len(t) /\ SubSeq(s, 1, Len(s)) = SubSeq(t, 1, Len(s))
    BY <1>2, EmptySeq, LenProperties DEF IsPrefix
  <2>2. SubSeq(t \o u, 1, Len(s)) = SubSeq(t, 1, Len(s))
    BY <2>1, SubSeqOfConcat1
  <2>3. Len(s) <= Len(t \o u)
    BY <2>1, ConcatProperties, LenProperties
  <2> QED BY <2>1, <2>2, <2>3 DEF IsPrefix
<1> QED BY <1>1, <1>2

LEMMA PrefixOfItself ==
  ASSUME NEW S, NEW s \in Seq(S)
  PROVE  IsPrefix(s, s)
BY LenProperties DEF IsPrefix

\* A sequence is split at n and put together again.
LEMMA SplitAt ==
  ASSUME NEW S, NEW s \in Seq(S), NEW n \in 1..Len(s)
  PROVE  /\ SubSeq(s, 1, n) \in Seq(S)
         /\ SubSeq(s, n + 1, Len(s)) \in Seq(S)
         /\ s = SubSeq(s, 1, n) \o SubSeq(s, n + 1, Len(s))
         /\ SubSeq(s, n + 1, Len(s)) = <<>> <=> n = Len(s)
<1>1. Len(s) \in Nat
  BY LenProperties
<1>2. /\ SubSeq(s, 1, n) \in Seq(S)
      /\ SubSeq(s, n + 1, Len(s)) \in Seq(S)
      /\ Len(SubSeq(s, n + 1, Len(s))) = IF n + 1 <= Len(s) THEN Len(s) - n ELSE 0
  <2>1. \A i \in 1..n : s[i] \in S
    BY <1>1, ElementOfSeq
  <2>2. \A i \in n + 1..Len(s) : s[i] \in S
    BY <1>1, ElementOfSeq
  <2>3. SubSeq(s, 1, n) \in Seq(S)
    BY <1>1, <2>1, SubSeqProperties
  <2>4. /\ SubSeq(s, n + 1, Len(s)) \in Seq(S)
        /\ Len(SubSeq(s, n + 1, Len(s))) = IF n + 1 <= Len(s)
                                           THEN Len(s) - (n + 1) + 1 ELSE 0
    BY <1>1, <2>2, SubSeqProperties
  <2> QED BY <1>1, <2>3, <2>4
<1>3. s = SubSeq(s, 1, n) \o SubSeq(s, n + 1, Len(s))
  BY <1>1, ConcatAdjacentSubSeq, SubSeqFull
<1>4. n = Len(s) => SubSeq(s, n + 1, Len(s)) = <<>>
  BY <1>1, SubSeqEmpty
<1>5. n # Len(s) => SubSeq(s, n + 1, Len(s)) # <<>>
  <2>1. n # Len(s) => Len(SubSeq(s, n + 1, Len(s))) # 0
    BY <1>1, <1>2
  <2>2. Len(<<>>) = 0
    OBVIOUS
  <2> QED BY <2>1, <2>2
<1> QED BY <1>2, <1>3, <1>4, <1>5

LEMMA BytesAssociate ==
  \A s, t, u \in Seq(Byte) : (s \o t) \o u = s \o (t \o u)
BY ConcatAssociative

LEMMA FunctorType ==
  /\ \A op \in {"connectEstablished", "connectDestroyed", "shutdownInLoop",
                "forceCloseInLoop", "writeComplete", "highWaterMark"} :
       Do(op) \in Functor
  /\ \A msg \in Message : DoSend(msg) \in Functor
  /\ \A f \in Functor : f.op = "sendInLoop" => f.msg \in Message
BY DEF Functor, Do, DoSend

LEMMA MessageType ==
  \A msg \in Message : msg \in Seq(Byte) /\ msg # <<>>
BY ConnectionAssumption

\* The queue of functors and the handlers to call are used up from the front.
LEMMA RunningType ==
  ASSUME TypeOK, NEW op, Running(op)
  PROVE  /\ Head(pending) \in Functor /\ Head(pending).op = op
         /\ Tail(pending) \in Seq(Functor)
BY DEF TypeOK, Running

\* What the channel asks for is stored, whatever becomes of the call.
LEMMA UpdateType ==
  ASSUME TypeOK, NEW asked \in SUBSET Event, UpdateChannel(asked)
  PROVE  events' = asked /\ events' \in SUBSET Event /\ watched' \in SUBSET Event
BY DEF UpdateChannel, TypeOK, Event

LEMMA StartType ==
  ASSUME TypeOK, StartWriting
  PROVE  IsWriting' /\ events' \in SUBSET Event /\ watched' \in SUBSET Event
<1>1. CASE IsWriting
  BY <1>1 DEF StartWriting, IsWriting, TypeOK
<1>2. CASE ~IsWriting
  <2>1. events \cup kWriteEvent \in SUBSET Event
    BY DEF TypeOK, Event, kWriteEvent
  <2> QED BY <1>2, <2>1, UpdateType DEF StartWriting, IsWriting
<1> QED BY <1>1, <1>2

LEMMA HandlingType ==
  ASSUME TypeOK, NEW h, Handling(h)
  PROVE  dispatch' \in Seq(Task)
BY DEF TypeOK, Handling

LEMMA DispatchType == \A revents : HandlersFor(revents) \in Seq(Task)
<1> SUFFICES ASSUME NEW revents PROVE HandlersFor(revents) \in Seq(Task)
  OBVIOUS
<1> DEFINE close == IF "HUP" \in revents /\ "IN" \notin revents
                    THEN <<"handleClose">> ELSE <<>>
           error == IF "ERR" \in revents THEN <<"handleError">> ELSE <<>>
           read  == IF "IN" \in revents THEN <<"handleRead">> ELSE <<>>
           write == IF "OUT" \in revents THEN <<"handleWrite">> ELSE <<>>
<1>1. /\ close \in Seq(Task) /\ error \in Seq(Task)
      /\ read \in Seq(Task) /\ write \in Seq(Task)
  <2>1. \A h \in Handler : <<h>> \in Seq(Task)
    BY DEF Task
  <2>2. <<>> \in Seq(Task)
    OBVIOUS
  <2>3. /\ "handleClose" \in Handler /\ "handleError" \in Handler
        /\ "handleRead" \in Handler /\ "handleWrite" \in Handler
    BY DEF Handler
  <2> QED BY <2>1, <2>2, <2>3
<1>2. HandlersFor(revents) = ((close \o error) \o read) \o write
  BY DEF HandlersFor
<1> HIDE DEF close, error, read, write
<1>3. close \o error \in Seq(Task)
  BY <1>1, ConcatProperties
<1>4. (close \o error) \o read \in Seq(Task)
  BY <1>1, <1>3, ConcatProperties
<1> QED BY <1>1, <1>2, <1>4, ConcatProperties
-----------------------------------------------------------------------------
(* handleClose and sendInLoop, wherever they are called from.              *)

LEMMA CloseInv ==
  ASSUME IInv, NEW queue \in Seq(Functor), HandleClose(queue),
         dispatch' \in Seq(Task),
         UNCHANGED <<resurrected, pollVars, sendVars, sockVars, peerVars, callVars>>
  PROVE  IInv'
<1> USE DEF IInv
<1>1. pending' \in Seq(Functor)
  BY FunctorType, AppendProperties DEF HandleClose
<1>2. CASE m_state = "kDisconnected"
  <2>1. TypeOK'
    BY <1>1, <1>2 DEF HandleClose, TypeOK
  <2>2. UNCHANGED <<m_state, interest, downs, closes>>
    BY <1>2 DEF HandleClose
  <2> QED BY <2>1, <2>2 DEF StreamInv, WriteInterest, DownExactlyOnce, CanWrite, IsWriting
<1>3. CASE m_state # "kDisconnected"
  <2>1. /\ m_state' = "kDisconnected" /\ UpdateChannel(kNoneEvent) /\ owned' = FALSE
        /\ downs' = downs + 1 /\ closes' = closes + 1
    BY <1>3 DEF HandleClose
  <2>2. TypeOK'
    <3>1. /\ m_state' \in State
          /\ events' \in SUBSET Event /\ watched' \in SUBSET Event
      BY <2>1, UpdateType DEF State, kNoneEvent
    <3>2. downs \in Nat /\ closes \in Nat
      BY DEF TypeOK
    <3>3. downs' \in Nat /\ closes' \in Nat
      BY <2>1, <3>2
    <3>4. owned' \in BOOLEAN
      BY <2>1
    <3> QED BY <1>1, <3>1, <3>3, <3>4 DEF TypeOK
  <2>3. StreamInv'
    BY DEF StreamInv, CanWrite
  <2>4. WriteInterest'
    BY <2>1 DEF WriteInterest
  <2>5. DownExactlyOnce'
    BY <1>3, <2>1 DEF DownExactlyOnce, TypeOK
  <2> QED BY <2>2, <2>3, <2>4, <2>5
<1> QED BY <1>2, <1>3

\* The bytes after head are appended to the output buffer.
LEMMA BufferInv ==
  ASSUME IInv, m_state # "kDisconnected",
         NEW head \in Seq(Byte), NEW rest \in Seq(Byte), rest # <<>>,
         head = <<>> \/ (m_outputBuffer = <<>> /\ ~dropped),
         NEW queue \in Seq(Functor), BufferRest(rest, queue),
         wire' = wire \o head, given' = given \o (head \o rest),
         calls' \in 0..MaxCalls,
         dispatch' \in Seq(Task),
         UNCHANGED <<stateVars, pollVars, dropped, shutWr, peerVars, owned, fpc, fmsg,
                     cbVars>>
  PROVE  IInv'
<1> USE DEF IInv
<1>0. given \in Seq(Byte) /\ head \o rest \in Seq(Byte)
  BY ConcatProperties DEF TypeOK
<1>1. m_outputBuffer \in Seq(Byte) /\ wire \in Seq(Byte)
  BY DEF TypeOK
<1>2. m_outputBuffer' = m_outputBuffer \o rest /\ StartWriting
  BY DEF BufferRest
<1>3. /\ m_outputBuffer' \in Seq(Byte) /\ wire' \in Seq(Byte) /\ given' \in Seq(Byte)
      /\ m_outputBuffer' # <<>>
  BY <1>0, <1>1, <1>2, ConcatProperties, ConcatEqualIffEmpty
<1>4. pending' \in Seq(Functor)
  BY FunctorType, AppendProperties DEF BufferRest
<1>5. TypeOK'
  BY <1>2, <1>3, <1>4, StartType DEF TypeOK
<1>6. IsWriting'
  BY <1>2, StartType
<1>7. ASSUME ~dropped PROVE given' = wire' \o m_outputBuffer'
  <2>0. given = wire \o m_outputBuffer
    BY <1>7 DEF StreamInv
  <2>1. CASE head = <<>>
    <3>0. head \o rest = rest /\ wire \o head = wire
      BY <1>1, <2>1, ConcatEmptySeq
    <3>1. wire' = wire /\ given' = given \o rest
      BY <1>1, <3>0
    <3>2. (wire \o m_outputBuffer) \o rest = wire \o (m_outputBuffer \o rest)
      BY <1>1, BytesAssociate
    <3> QED BY <1>2, <2>0, <3>1, <3>2
  <2>2. CASE m_outputBuffer = <<>>
    <3>0. m_outputBuffer \o rest = rest /\ wire \o m_outputBuffer = wire
      BY <1>1, <2>2, ConcatEmptySeq
    <3>1. m_outputBuffer' = rest /\ given = wire
      BY <1>2, <2>0, <2>2, <3>0
    <3>2. (wire \o head) \o rest = wire \o (head \o rest)
      BY <1>1, BytesAssociate
    <3> QED BY <3>1, <3>2
  <2> QED BY <2>1, <2>2
<1>8. ASSUME dropped PROVE ~CanWrite' /\ IsPrefix(wire', given')
  <2>1. wire' = wire
    BY <1>1, <1>8, ConcatEmptySeq
  <2>2. IsPrefix(wire, given \o (head \o rest))
    BY <1>0, <1>1, <1>8, PrefixOfConcat DEF StreamInv
  <2> QED BY <1>8, <2>1, <2>2 DEF StreamInv, CanWrite
<1>9. StreamInv'
  BY <1>7, <1>8 DEF StreamInv
<1>10. WriteInterest' /\ DownExactlyOnce'
  BY <1>3, <1>6 DEF WriteInterest, DownExactlyOnce
<1> QED BY <1>5, <1>9, <1>10

LEMMA SendInv ==
  ASSUME IInv, NEW msg \in Message, NEW queue \in Seq(Functor), SendInLoop(msg, queue),
         calls' \in 0..MaxCalls,
         UNCHANGED <<stateVars, pollVars, shutWr, peerVars, dispatch, owned, fpc, fmsg,
                     cbVars>>
  PROVE  IInv'
<1> USE DEF IInv
<1>1. /\ msg \in Seq(Byte) /\ msg # <<>> /\ dispatch' \in Seq(Task)
      /\ wire \in Seq(Byte) /\ given \in Seq(Byte) /\ m_outputBuffer \in Seq(Byte)
  BY MessageType DEF TypeOK
<1>2. CASE m_state = "kDisconnected"
  <2>1. pending' = queue /\ UNCHANGED <<sendVars, interest, wire>>
    BY <1>2 DEF SendInLoop
  <2>2. TypeOK'
    BY <2>1 DEF TypeOK
  <2> QED BY <2>1, <2>2 DEF StreamInv, WriteInterest, DownExactlyOnce, CanWrite, IsWriting
<1>3. CASE m_state # "kDisconnected"
  <2>1. given' = given \o msg
    BY <1>3 DEF SendInLoop
  <2>2. ASSUME BufferRest(msg, queue), UNCHANGED <<wire, dropped>>
        PROVE  IInv'
    <3>1. <<>> \in Seq(Byte) /\ wire' = wire \o <<>> /\ given' = given \o (<<>> \o msg)
      BY <1>1, <2>1, <2>2, EmptySeq, ConcatEmptySeq
    <3> QED BY <1>1, <1>3, <2>2, <3>1, BufferInv
  <2>3. CASE IsWriting \/ m_outputBuffer # <<>>
    <3>1. BufferRest(msg, queue) /\ UNCHANGED <<wire, dropped>>
      BY <1>3, <2>3 DEF SendInLoop
    <3> QED BY <2>2, <3>1
  <2>4. CASE ~IsWriting /\ m_outputBuffer = <<>>
    <3>1. CASE \E n \in 1..Len(msg) : WriteSome(msg, queue, n)
      <4>1. PICK n \in 1..Len(msg) : WriteSome(msg, queue, n)
        BY <3>1
      <4>2. ~dropped /\ UNCHANGED dropped /\ wire' = wire \o SubSeq(msg, 1, n)
        BY <4>1 DEF WriteSome, StreamInv
      <4>3. /\ SubSeq(msg, 1, n) \in Seq(Byte)
            /\ SubSeq(msg, n + 1, Len(msg)) \in Seq(Byte)
            /\ msg = SubSeq(msg, 1, n) \o SubSeq(msg, n + 1, Len(msg))
            /\ SubSeq(msg, n + 1, Len(msg)) = <<>> <=> n = Len(msg)
        BY <1>1, SplitAt
      <4>4. CASE n = Len(msg)
        <5>1. /\ pending' = Append(queue, Do("writeComplete"))
              /\ UNCHANGED <<m_outputBuffer, interest>>
          BY <4>1, <4>4 DEF WriteSome
        <5>2. pending' \in Seq(Functor)
          BY <5>1, FunctorType, AppendProperties
        <5>3. SubSeq(msg, 1, n) = msg
          BY <1>1, <4>4, SubSeqFull
        <5>4. given = wire
          BY <1>1, <2>4, <4>2, ConcatEmptySeq DEF StreamInv
        <5>5. wire' = wire \o msg /\ given' = wire' /\ m_outputBuffer' = <<>>
              /\ wire' \in Seq(Byte)
          BY <1>1, <2>1, <2>4, <4>2, <5>1, <5>3, <5>4, ConcatProperties
        <5>6. TypeOK'
          BY <4>2, <5>1, <5>2, <5>5 DEF TypeOK
        <5>7. StreamInv'
          BY <4>2, <5>5, ConcatEmptySeq DEF StreamInv
        <5> QED BY <2>4, <5>1, <5>5, <5>6, <5>7
                DEF WriteInterest, DownExactlyOnce, IsWriting
      <4>5. CASE n # Len(msg)
        <5>1. BufferRest(SubSeq(msg, n + 1, Len(msg)), queue)
          BY <4>1, <4>5 DEF WriteSome
        <5> QED BY <1>1, <1>3, <2>1, <2>4, <4>2, <4>3, <4>5, <5>1, BufferInv
      <4> QED BY <4>4, <4>5
    <3>2. CASE BufferRest(msg, queue) /\ UNCHANGED <<wire, dropped>>
      BY <2>2, <3>2
    <3>3. CASE /\ ~CanWrite /\ dropped' = TRUE /\ pending' = queue
               /\ UNCHANGED <<m_outputBuffer, interest, wire>>
      <4>1. given' \in Seq(Byte)
        BY <1>1, <2>1, ConcatProperties
      <4>2. TypeOK'
        BY <3>3, <4>1 DEF TypeOK
      <4>3. IsPrefix(wire, given)
        BY <1>1, <2>4, ConcatEmptySeq, PrefixOfItself DEF StreamInv
      <4>4. IsPrefix(wire', given')
        BY <1>1, <2>1, <3>3, <4>3, PrefixOfConcat
      <4>5. StreamInv'
        BY <3>3, <4>4 DEF StreamInv, CanWrite
      <4> QED BY <2>4, <3>3, <4>2, <4>5 DEF WriteInterest, DownExactlyOnce, IsWriting
    <3> QED BY <1>3, <2>4, <3>1, <3>2, <3>3 DEF SendInLoop
  <2> QED BY <2>3, <2>4
<1> QED BY <1>2, <1>3
-----------------------------------------------------------------------------
(* The steps.                                                              *)

LEMMA InitInv == Init => IInv
<1> SUFFICES ASSUME Init PROVE IInv
  OBVIOUS
<1>1. <<>> \in Seq(Byte) /\ <<>> \in Seq(Task)
  OBVIOUS
<1>2. pending \in Seq(Functor)
  BY FunctorType DEF Init
<1>3. /\ fpc \in [Foreign -> {"idle", "send", "shutdown", "forceClose",
                             "queueShutdown", "queueForceClose"}]
      /\ fmsg \in [Foreign -> Message \cup {<<>>}]
      /\ \A t \in Foreign : fpc[t] # "send"
  BY DEF Init
<1>4. calls \in 0..MaxCalls
  BY ConnectionAssumption DEF Init
<1>5. TypeOK
  BY <1>1, <1>2, <1>3, <1>4 DEF Init, TypeOK, State, kNoneEvent
<1>6. StreamInv
  <2>1. <<>> \o <<>> = <<>>
    BY <1>1, ConcatEmptySeq
  <2> QED BY <2>1 DEF Init, StreamInv
<1>7. WriteInterest /\ DownExactlyOnce
  BY DEF Init, WriteInterest, DownExactlyOnce, IsWriting, kNoneEvent, kWriteEvent
<1> QED BY <1>5, <1>6, <1>7 DEF IInv

\* A step that leaves the stream, the state and the channel as they are keeps
\* the invariant if it keeps the types.
LEMMA FrameInv ==
  ASSUME IInv, TypeOK', UNCHANGED <<stateVars, sendVars, wire, cbVars>>,
         CanWrite' => CanWrite,
         ~clobbered' => ~clobbered /\ (IsWriting' <=> IsWriting)
  PROVE  IInv'
BY DEF IInv, StreamInv, WriteInterest, DownExactlyOnce

\* The socket takes n bytes of the output buffer.
LEMMA FlushInv ==
  ASSUME IInv, CanWrite, IsWriting, NEW n \in 1..Len(m_outputBuffer), Flush(n),
         dispatch' \in Seq(Task),
         UNCHANGED <<resurrected, given, dropped, pollVars, peerVars, callVars>>
  PROVE  IInv'
<1> USE DEF IInv
<1>1. m_outputBuffer \in Seq(Byte) /\ wire \in Seq(Byte) /\ ~dropped
      /\ given = wire \o m_outputBuffer
  BY DEF TypeOK, StreamInv
<1> DEFINE head == SubSeq(m_outputBuffer, 1, n)
           rest == SubSeq(m_outputBuffer, n + 1, Len(m_outputBuffer))
<1>2. /\ head \in Seq(Byte) /\ rest \in Seq(Byte)
      /\ m_outputBuffer = head \o rest
      /\ rest = <<>> <=> n = Len(m_outputBuffer)
  BY <1>1, SplitAt
<1>3. wire' = wire \o head /\ m_outputBuffer' = rest
  BY DEF Flush
<1> HIDE DEF head, rest
<1>4. wire' \in Seq(Byte) /\ m_outputBuffer' \in Seq(Byte)
  BY <1>1, <1>2, <1>3, ConcatProperties
<1>5. given' = wire' \o m_outputBuffer'
  <2>1. (wire \o head) \o rest = wire \o (head \o rest)
    BY <1>1, <1>2, BytesAssociate
  <2> QED BY <1>1, <1>2, <1>3, <2>1
<1>6. pending' \in Seq(Functor)
  <2>1. pending \in Seq(Functor) /\ Do("writeComplete") \in Functor
    BY FunctorType DEF TypeOK
  <2>2. Append(pending, Do("writeComplete")) \in Seq(Functor)
    BY <2>1, AppendProperties
  <2>3. pending' \in {pending, Append(pending, Do("writeComplete"))}
    BY DEF Flush
  <2> QED BY <2>1, <2>2, <2>3
<1>7. events' \in SUBSET Event /\ watched' \in SUBSET Event
  <2>1. events \ kWriteEvent \in SUBSET Event
    BY DEF TypeOK
  <2> QED BY <2>1, UpdateType DEF Flush, TypeOK
<1>8. shutWr' \in BOOLEAN
  BY DEF Flush, TypeOK
<1>9. TypeOK'
  BY <1>4, <1>6, <1>7, <1>8 DEF Flush, TypeOK
<1>10. StreamInv'
  BY <1>1, <1>5 DEF StreamInv
<1>11. WriteInterest'
  <2>1. CASE n = Len(m_outputBuffer)
    BY <1>2, <1>3, <2>1 DEF Flush, UpdateChannel, WriteInterest, IsWriting, kWriteEvent
  <2>2. CASE n # Len(m_outputBuffer)
    BY <1>2, <1>3, <2>2 DEF Flush, WriteInterest, IsWriting
  <2> QED BY <2>1, <2>2
<1>12. DownExactlyOnce'
  BY DEF Flush, DownExactlyOnce
<1> QED BY <1>9, <1>10, <1>11, <1>12

LEMMA DispatchedInv ==
  ASSUME IInv, Polls \/ Dispatched
  PROVE  IInv'
<1>0. TypeOK
  BY DEF IInv
<1>1. CASE Polls
  <2>1. PICK revents \in SUBSET Event : Poll(revents)
    BY <1>1 DEF Polls
  <2>2. dispatch' \in Seq(Task) /\ events' \in SUBSET Event /\ clobbered' \in BOOLEAN
    BY <1>0, <2>1, DispatchType DEF Poll, TypeOK
  <2>3. UNCHANGED <<stateVars, watched, removed, reading, sendVars, sockVars, peerVars,
                    pending, owned, callVars, cbVars>>
    BY <2>1 DEF Poll
  <2>4. TypeOK'
    BY <1>0, <2>2, <2>3 DEF TypeOK
  <2>5. ~clobbered' => ~clobbered /\ (IsWriting' <=> IsWriting)
    BY <1>0, <2>1 DEF Poll, IsWriting, kWriteEvent, TypeOK
  <2> QED BY <2>3, <2>4, <2>5, FrameInv DEF CanWrite
<1>2. CASE CloseHandler
  <2>1. dispatch' \in Seq(Task)
    BY <1>0, <1>2, HandlingType DEF CloseHandler
  <2>2. pending \in Seq(Functor)
    BY <1>0 DEF TypeOK
  <2> QED BY <1>2, <2>1, <2>2, CloseInv DEF CloseHandler
<1>3. CASE HandleRead
  <2>1. dispatch' \in Seq(Task)
    BY <1>0, <1>3, HandlingType DEF HandleRead
  <2>2. pending \in Seq(Functor)
    BY <1>0 DEF TypeOK
  <2>3. CASE UNCHANGED <<m_state, interest, pending, owned, downs, closes>>
    <3>1. TypeOK'
      BY <1>0, <1>3, <2>1, <2>3 DEF HandleRead, TypeOK
    <3> QED BY <1>3, <2>3, <3>1, FrameInv DEF HandleRead, CanWrite, IsWriting
  <2>4. CASE HandleClose(pending)
    BY <1>3, <2>1, <2>2, <2>4, CloseInv DEF HandleRead
  <2> QED BY <1>3, <2>3, <2>4 DEF HandleRead
<1>4. CASE HandleWrite
  <2>1. dispatch' \in Seq(Task)
    BY <1>0, <1>4, HandlingType DEF HandleWrite
  <2>2. pending \in Seq(Functor)
    BY <1>0 DEF TypeOK
  <2>3. UNCHANGED <<resurrected, given, dropped, pollVars, peerVars, callVars>>
    BY <1>4 DEF HandleWrite
  <2>4. CASE IsWriting /\ CanWrite /\ \E n \in 1..Len(m_outputBuffer) : Flush(n)
    BY <2>1, <2>3, <2>4, FlushInv
  <2>5. CASE HandleClose(pending) /\ UNCHANGED <<m_outputBuffer, sockVars>>
    BY <2>1, <2>2, <2>3, <2>5, CloseInv
  <2>6. CASE UNCHANGED <<m_state, interest, pending, owned, downs, closes,
                         m_outputBuffer, sockVars>>
    <3>1. TypeOK'
      BY <1>0, <2>1, <2>3, <2>6 DEF TypeOK
    <3> QED BY <2>3, <2>6, <3>1, FrameInv DEF CanWrite, IsWriting
  <2> QED BY <1>4, <2>4, <2>5, <2>6 DEF HandleWrite
<1>5. CASE EnableReading
  <2>1. dispatch' \in Seq(Task) /\ pending \in Seq(Functor)
    BY <1>0, <1>5, HandlingType DEF EnableReading, TypeOK
  <2>2. UNCHANGED <<resurrected, pollVars, sendVars, sockVars, peerVars, callVars>>
    BY <1>5 DEF EnableReading
  <2>3. CASE HandleClose(pending)
    BY <2>1, <2>2, <2>3, CloseInv
  <2>4. CASE /\ UpdateChannel(events \cup kReadEvent)
             /\ UNCHANGED <<m_state, pending, owned, downs, closes>>
    <3>1. events \cup kReadEvent \in SUBSET Event
      BY <1>0 DEF TypeOK, Event, kReadEvent
    <3>2. /\ events' = events \cup kReadEvent
          /\ events' \in SUBSET Event /\ watched' \in SUBSET Event
      BY <1>0, <2>4, <3>1, UpdateType
    <3>3. TypeOK'
      BY <1>0, <2>1, <2>2, <2>4, <3>2 DEF TypeOK
    <3>4. IsWriting' <=> IsWriting
      BY <3>2 DEF IsWriting, kReadEvent, kWriteEvent
    <3> QED BY <2>2, <2>4, <3>3, <3>4, FrameInv DEF CanWrite
  <2> QED BY <1>5, <2>3, <2>4 DEF EnableReading
<1> QED BY <1>1, <1>2, <1>3, <1>4, <1>5 DEF Dispatched

\* Neither touches the stream; the end of the connection is reported by the step that
\* makes it kDisconnected.
LEMMA EstablishInv ==
  ASSUME IInv, ConnectEstablished \/ ConnectDestroyed
  PROVE  IInv'
<1> USE DEF IInv
<1>1. /\ Tail(pending) \in Seq(Functor) /\ pending' = Tail(pending)
      /\ UNCHANGED <<resurrected, sendVars, sockVars, peerVars, callVars, owned, closes,
                     clobbered, reading>>
  BY RunningType DEF ConnectEstablished, ConnectDestroyed, Running
<1>2. CASE ConnectEstablished
  <2>1. UNCHANGED <<chanVars, downs>>
    BY <1>2 DEF ConnectEstablished
  <2>2. CASE m_state = "kConnecting" /\ m_state' = "kConnected"
    <3>1. dispatch' \in Seq(Task)
      <4>1. dispatch' = <<"enableReading">>
        BY <1>2, <2>2 DEF ConnectEstablished
      <4>2. "enableReading" \in Task
        BY DEF Task
      <4> QED BY <4>1, <4>2
    <3>2. TypeOK'
      BY <1>1, <2>1, <2>2, <3>1 DEF TypeOK, State
    <3> QED BY <1>1, <2>1, <2>2, <3>2
            DEF StreamInv, CanWrite, WriteInterest, DownExactlyOnce, IsWriting
  <2>3. CASE UNCHANGED <<m_state, dispatch>>
    <3>1. TypeOK'
      BY <1>1, <2>1, <2>3 DEF TypeOK
    <3> QED BY <1>1, <2>1, <2>3, <3>1, FrameInv DEF CanWrite, IsWriting
  <2> QED BY <1>2, <2>2, <2>3 DEF ConnectEstablished
<1>3. CASE ConnectDestroyed
  <2>1. removed' \in BOOLEAN /\ watched' \in SUBSET Event /\ UNCHANGED dispatch
    BY <1>3 DEF ConnectDestroyed, TypeOK, kNoneEvent
  <2>2. CASE m_state = "kConnected"
    <3>1. m_state' = "kDisconnected" /\ events' = kNoneEvent /\ downs' = downs + 1
      BY <1>3, <2>2 DEF ConnectDestroyed
    <3>2. events' \in SUBSET Event /\ m_state' \in State
      BY <3>1 DEF kNoneEvent, State
    <3>3. downs \in Nat /\ closes \in Nat /\ downs' \in Nat
      BY <3>1 DEF TypeOK
    <3>4. TypeOK'
      BY <1>1, <2>1, <3>2, <3>3 DEF TypeOK
    <3>5. StreamInv' /\ WriteInterest'
      BY <1>1, <3>1 DEF StreamInv, CanWrite, WriteInterest
    <3>6. DownExactlyOnce'
      BY <1>1, <2>2, <3>1, <3>3 DEF DownExactlyOnce
    <3> QED BY <3>4, <3>5, <3>6
  <2>3. CASE m_state # "kConnected"
    <3>1. UNCHANGED <<m_state, events, downs>>
      BY <1>3, <2>3 DEF ConnectDestroyed
    <3>2. TypeOK'
      BY <1>1, <2>1, <3>1 DEF TypeOK
    <3> QED BY <1>1, <3>1, <3>2, FrameInv DEF CanWrite, IsWriting
  <2> QED BY <2>2, <2>3
<1> QED BY <1>2, <1>3

LEMMA ShutdownType ==
  ASSUME TypeOK, ShutdownInLoop
  PROVE  shutWr' \in BOOLEAN /\ (shutWr => shutWr')
BY DEF TypeOK, ShutdownInLoop

LEMMA FunctorInv ==
  ASSUME IInv, RunFunctor
  PROVE  IInv'
<1> USE DEF IInv
<1>2. CASE ConnectEstablished \/ ConnectDestroyed
  BY <1>2, EstablishInv
<1> SUFFICES ASSUME RunSend \/ RunShutdown \/ ForceCloseInLoop \/ RunCallback PROVE IInv'
  BY <1>2 DEF RunFunctor
<1>1. /\ Tail(pending) \in Seq(Functor)
      /\ UNCHANGED <<dispatch, peerVars, callVars>>
      /\ dispatch' \in Seq(Task)
      /\ calls' \in 0..MaxCalls
  BY RunningType DEF RunSend, RunShutdown, ForceCloseInLoop, RunCallback, Running, TypeOK
<1>3. CASE RunSend
  <2>1. Head(pending).msg \in Message
    BY <1>3, RunningType, FunctorType DEF RunSend
  <2>2. UNCHANGED <<stateVars, pollVars, shutWr, owned, cbVars>>
        /\ SendInLoop(Head(pending).msg, Tail(pending))
    BY <1>3 DEF RunSend
  <2> QED BY <1>1, <2>1, <2>2, SendInv
<1>4. CASE RunShutdown
  <2>1. shutWr' \in BOOLEAN /\ (shutWr => shutWr')
    BY <1>4, ShutdownType DEF RunShutdown
  <2>2. TypeOK'
    BY <1>1, <1>4, <2>1 DEF RunShutdown, TypeOK
  <2> QED BY <1>1, <1>4, <2>1, <2>2, FrameInv DEF RunShutdown, CanWrite, IsWriting
<1>5. CASE ForceCloseInLoop
  <2>1. UNCHANGED <<resurrected, pollVars, sendVars, sockVars>>
    BY <1>5 DEF ForceCloseInLoop
  <2>2. CASE HandleClose(Tail(pending))
    BY <1>1, <2>1, <2>2, CloseInv
  <2>3. CASE /\ pending' = Tail(pending)
             /\ UNCHANGED <<m_state, interest, owned, downs, closes>>
    <3>1. TypeOK'
      BY <1>1, <2>1, <2>3 DEF TypeOK
    <3> QED BY <1>1, <2>1, <2>3, <3>1, FrameInv DEF CanWrite, IsWriting
  <2> QED BY <1>5, <2>2, <2>3 DEF ForceCloseInLoop
<1>6. CASE RunCallback
  <2>1. TypeOK'
    BY <1>1, <1>6 DEF RunCallback, TypeOK
  <2> QED BY <1>1, <1>6, <2>1, FrameInv DEF RunCallback, CanWrite, IsWriting
<1> QED BY <1>3, <1>4, <1>5, <1>6

\* The state goes from kConnected or kDisConnecting to kDisConnecting.
LEMMA DisConnectingInv ==
  ASSUME IInv, TypeOK', m_state \in {"kConnected", "kDisConnecting"},
         m_state' = "kDisConnecting",
         UNCHANGED <<resurrected, chanVars, sendVars, wire, cbVars>>,
         CanWrite' => CanWrite
  PROVE  IInv'
BY DEF IInv, StreamInv, WriteInterest, DownExactlyOnce, IsWriting

LEMMA LoopCallInv ==
  ASSUME IInv, LoopCall
  PROVE  IInv'
<1> USE DEF IInv
<1>0. ASSUME NewCall PROVE calls' \in 0..MaxCalls
  BY <1>0, ConnectionAssumption DEF NewCall, TypeOK
<1>1. ASSUME NEW msg \in Message, Send(msg) PROVE IInv'
  <2>1. calls' \in 0..MaxCalls /\ pending \in Seq(Functor)
    BY <1>0, <1>1 DEF Send, LoopCalls, TypeOK
  <2> QED BY <1>1, <2>1, SendInv DEF Send
<1>2. CASE Shutdown
  <2>1. shutWr' \in BOOLEAN /\ (shutWr => shutWr') /\ calls' \in 0..MaxCalls
    BY <1>0, <1>2, ShutdownType DEF Shutdown, LoopCalls
  <2>2. TypeOK'
    BY <1>2, <2>1 DEF Shutdown, TypeOK, State
  <2> QED BY <1>2, <2>1, <2>2, DisConnectingInv DEF Shutdown, CanWrite
<1>3. CASE ForceClose
  <2>1. calls' \in 0..MaxCalls
    BY <1>0, <1>3 DEF ForceClose, LoopCalls
  <2>2. pending' \in Seq(Functor)
    BY <1>3, FunctorType, AppendProperties DEF ForceClose, TypeOK
  <2>3. TypeOK'
    BY <1>3, <2>1, <2>2 DEF ForceClose, TypeOK, State
  <2> QED BY <1>3, <2>3, DisConnectingInv DEF ForceClose, CanWrite
<1>4. CASE OwnerDestroys
  <2>1. pending' \in Seq(Functor)
    BY <1>4, FunctorType, AppendProperties DEF OwnerDestroys, TypeOK
  <2>2. TypeOK'
    BY <1>4, <2>1 DEF OwnerDestroys, TypeOK
  <2> QED BY <1>4, <2>2, FrameInv DEF OwnerDestroys, CanWrite, IsWriting
<1> QED BY <1>1, <1>2, <1>3, <1>4 DEF LoopCall

\* Another thread changes m_state only to kDisConnecting; over kDisconnected it
\* sets resurrected.
LEMMA ForeignInv ==
  ASSUME IInv, NEW t \in Foreign, ForeignBegin(t) \/ ForeignEnd(t)
  PROVE  IInv'
<1> USE DEF IInv
<1> DEFINE At == {"idle", "send", "shutdown", "forceClose", "queueShutdown",
                  "queueForceClose"}
           FpcOK == fpc \in [Foreign -> At]
           FmsgOK == /\ fmsg \in [Foreign -> Message \cup {<<>>}]
                     /\ \A u \in Foreign : fpc[u] = "send" => fmsg[u] \in Message
<1>1. FpcOK' /\ FmsgOK'
  <2>1. FpcOK /\ FmsgOK
    BY DEF TypeOK
  <2>2. ASSUME NEW msg \in Message, ForeignSend(t, msg) PROVE FpcOK' /\ FmsgOK'
    BY <2>1, <2>2 DEF ForeignSend, ForeignStep
  <2>3. CASE ForeignQueueSend(t)
    BY <2>1, <2>3 DEF ForeignQueueSend, ForeignStep
  <2>4. CASE \/ ForeignShutdown(t) \/ ForeignForceClose(t)
             \/ ForeignSetState(t) \/ ForeignQueue(t)
    BY <2>1, <2>4 DEF ForeignShutdown, ForeignForceClose, ForeignSetState, ForeignQueue,
                      ForeignStep
  <2> QED BY <2>2, <2>3, <2>4 DEF ForeignBegin, ForeignEnd
<1>2. calls' \in 0..MaxCalls
  BY ConnectionAssumption
     DEF ForeignBegin, ForeignEnd, ForeignSend, ForeignQueueSend, ForeignShutdown,
         ForeignForceClose, ForeignSetState, ForeignQueue, NewCall, TypeOK
<1>3. pending' \in Seq(Functor)
  <2>1. CASE ForeignQueueSend(t)
    <3>1. fmsg[t] \in Message
      BY <2>1 DEF ForeignQueueSend, ForeignStep, TypeOK
    <3> QED BY <2>1, <3>1, FunctorType, AppendProperties DEF ForeignQueueSend, TypeOK
  <2>2. CASE ForeignQueue(t)
    <3>1. PICK op \in {"shutdownInLoop", "forceCloseInLoop"} :
            pending' = Append(pending, Do(op))
      BY <2>2 DEF ForeignQueue
    <3>2. pending \in Seq(Functor) /\ Do(op) \in Functor
      BY FunctorType DEF TypeOK
    <3> QED BY <3>1, <3>2, AppendProperties
  <2>3. CASE UNCHANGED pending
    BY <2>3 DEF TypeOK
  <2> QED BY <2>1, <2>2, <2>3 DEF ForeignBegin, ForeignEnd, ForeignSend, ForeignShutdown,
                                  ForeignForceClose, ForeignSetState
<1>4. UNCHANGED <<chanVars, sendVars, sockVars, peerVars, dispatch, owned, cbVars>>
  BY DEF ForeignBegin, ForeignEnd, ForeignSend, ForeignQueueSend, ForeignShutdown,
         ForeignForceClose, ForeignSetState, ForeignQueue, ForeignStep
<1>5. CASE UNCHANGED stateVars
  <2>1. TypeOK'
    BY <1>1, <1>2, <1>3, <1>4, <1>5 DEF TypeOK
  <2> QED BY <1>4, <1>5, <2>1, FrameInv DEF CanWrite, IsWriting
<1>6. CASE ForeignSetState(t)
  <2>1. m_state' = "kDisConnecting"
        /\ resurrected' = (resurrected \/ m_state = "kDisconnected")
    BY <1>6 DEF ForeignSetState
  <2>2. m_state' \in State /\ resurrected' \in BOOLEAN
    BY <2>1 DEF State, TypeOK
  <2>3. TypeOK'
    BY <1>1, <1>2, <1>3, <1>4, <2>2 DEF TypeOK
  <2>4. StreamInv'
    BY <1>4 DEF StreamInv, CanWrite
  <2>5. WriteInterest'
    BY <1>4, <2>1 DEF WriteInterest, IsWriting, TypeOK
  <2>6. DownExactlyOnce'
    BY <1>4, <2>1 DEF DownExactlyOnce, TypeOK
  <2> QED BY <2>3, <2>4, <2>5, <2>6
<1> QED BY <1>5, <1>6 DEF ForeignBegin, ForeignEnd, ForeignSend, ForeignQueueSend,
                          ForeignShutdown, ForeignForceClose, ForeignQueue

LEMMA PeerInv ==
  ASSUME IInv, PeerCloses \/ PeerResets
  PROVE  IInv'
<1>1. TypeOK'
  BY DEF IInv, TypeOK, PeerCloses, PeerResets
<1> QED BY <1>1, FrameInv DEF PeerCloses, PeerResets, CanWrite, IsWriting

LEMMA StepInv == IInv /\ [Next]_vars => IInv'
<1> SUFFICES ASSUME IInv, [Next]_vars PROVE IInv'
  OBVIOUS
<1>1. CASE Next
  BY <1>1, DispatchedInv, FunctorInv, LoopCallInv, ForeignInv, PeerInv DEF Next
<1>2. CASE UNCHANGED vars
  <2>1. TypeOK'
    BY <1>2 DEF IInv, TypeOK
  <2> QED BY <1>2, <2>1, FrameInv DEF CanWrite, IsWriting
<1> QED BY <1>1, <1>2
-----------------------------------------------------------------------------
\* The inductive invariant holds in every reachable state.
THEOREM Safety == Spec => []IInv
BY InitInv, StepInv, PTL DEF Spec

\* The variables keep their types.
THEOREM TypeCorrect == Spec => []TypeOK
<1>1. IInv => TypeOK
  BY DEF IInv
<1> QED BY <1>1, Safety, PTL

\* Whatever the threads, the kernel and the peer do, the socket takes a prefix of
\* what was given to sendInLoop, and unless a message was given up on a fault the
\* output buffer holds exactly the rest.
THEOREM StreamStaysIntact == Spec => []StreamIntact
<1>1. IInv => StreamIntact
  <2> SUFFICES ASSUME IInv PROVE StreamIntact
    OBVIOUS
  <2>1. wire \in Seq(Byte) /\ m_outputBuffer \in Seq(Byte)
    BY DEF IInv, TypeOK
  <2>2. IsPrefix(wire, wire \o m_outputBuffer)
    BY <2>1, PrefixOfItself, PrefixOfConcat
  <2> QED BY <2>2 DEF IInv, StreamInv, StreamIntact
<1> QED BY <1>1, Safety, PTL

\* While the connection is not disconnected it asks for writability exactly when bytes
\* are buffered, unless another thread has overwritten kDisconnected or a report of
\* epoll what the channel asks for; whatever the poller and epoll refuse.
THEOREM WritesWhenNeeded == Spec => []WriteInterest
<1>1. IInv => WriteInterest
  BY DEF IInv
<1> QED BY <1>1, Safety, PTL

\* The end of the connection is reported exactly once, unless another thread has
\* overwritten kDisconnected.
THEOREM OneDown == Spec => []DownExactlyOnce
<1>1. IInv => DownExactlyOnce
  BY DEF IInv
<1> QED BY <1>1, Safety, PTL
-----------------------------------------------------------------------------
(* The functors queued, counted: what the two user callbacks report.       *)

\* What a functor of the queue leaves of it, or all of it.
Left(queue) == queue = pending \/ (pending # <<>> /\ queue = Tail(pending))

Report == {"writeComplete", "highWaterMark"}

\* The step queues no report.
Quiet == \E queue : /\ Left(queue)
                    /\ \/ pending' = queue
                       \/ \E f \in Functor : f.op \notin Report /\ pending' = Append(queue, f)

LEMMA CountType ==
  ASSUME NEW queue \in Seq(Functor), NEW op
  PROVE  /\ IsFiniteSet({i \in 1..Len(queue) : queue[i].op = op})
         /\ Count(op, queue) \in Nat
<1>1. IsFiniteSet(1..Len(queue))
  BY FS_Interval, LenProperties
<1>2. IsFiniteSet({i \in 1..Len(queue) : queue[i].op = op})
  <2>1. {i \in 1..Len(queue) : queue[i].op = op} \in SUBSET (1..Len(queue))
    OBVIOUS
  <2> QED BY <1>1, <2>1, FS_Subset
<1> QED BY <1>2, FS_CardinalityType DEF Count

LEMMA CountAppend ==
  ASSUME NEW queue \in Seq(Functor), NEW f \in Functor, NEW op
  PROVE  Count(op, Append(queue, f)) = Count(op, queue) + (IF f.op = op THEN 1 ELSE 0)
<1> DEFINE more == Append(queue, f)
           S == {i \in 1..Len(queue) : queue[i].op = op}
           T == {i \in 1..Len(more) : more[i].op = op}
<1>1. /\ Len(queue) \in Nat /\ Len(more) = Len(queue) + 1 /\ more[Len(queue) + 1] = f
      /\ \A i \in 1..Len(queue) : more[i] = queue[i]
  BY AppendProperties, LenProperties
<1>2. IsFiniteSet(S) /\ Count(op, queue) = Cardinality(S) /\ Count(op, queue) \in Nat
  BY CountType DEF Count
<1>3. Count(op, Append(queue, f)) = Cardinality(T)
  BY DEF Count
<1> HIDE DEF more
<1>4. CASE f.op = op
  <2>1. T = S \cup {Len(queue) + 1} /\ Len(queue) + 1 \notin S
    BY <1>1, <1>4
  <2>2. Cardinality(S \cup {Len(queue) + 1}) = Cardinality(S) + 1
    BY <1>2, <2>1, FS_AddElement
  <2> QED BY <1>2, <1>3, <1>4, <2>1, <2>2
<1>5. CASE f.op # op
  <2>1. T = S
    BY <1>1, <1>5
  <2>2. Count(op, Append(queue, f)) = Count(op, queue)
    BY <1>2, <1>3, <2>1
  <2> QED BY <1>2, <1>5, <2>2
<1> QED BY <1>4, <1>5

LEMMA CountTail ==
  ASSUME NEW queue \in Seq(Functor), queue # <<>>, NEW op
  PROVE  /\ Count(op, Tail(queue)) <= Count(op, queue)
         /\ Head(queue).op # op => Count(op, Tail(queue)) = Count(op, queue)
<1> DEFINE rest == Tail(queue)
           S == {i \in 1..Len(rest) : rest[i].op = op}
           T == {i \in 1..Len(queue) : queue[i].op = op}
           g == [i \in S |-> i + 1]
<1>1. /\ Len(queue) \in Nat /\ Len(rest) = Len(queue) - 1 /\ rest \in Seq(Functor)
      /\ \A i \in 1..Len(rest) : rest[i] = queue[i + 1]
      /\ Head(queue) = queue[1] /\ Len(queue) > 0
  BY HeadTailProperties, LenProperties, EmptySeq
<1>2. IsFiniteSet(S) /\ Count(op, rest) = Cardinality(S)
  BY <1>1, CountType DEF Count
<1>3. IsFiniteSet(T) /\ Count(op, queue) = Cardinality(T)
  BY CountType DEF Count
<1> HIDE DEF rest
<1>4. g \in Injection(S, T)
  <2>1. \A i \in S : g[i] \in T
    BY <1>1
  <2>2. \A i, j \in S : g[i] = g[j] => i = j
    BY <1>1
  <2>3. g \in [S -> T]
    BY <2>1
  <2> QED BY <2>2, <2>3 DEF Injection, IsInjective
<1>5. Head(queue).op # op => g \in Surjection(S, T)
  <2>1. ASSUME Head(queue).op # op, NEW j \in T PROVE \E i \in S : g[i] = j
    <3>1. j # 1 /\ j \in 1..Len(queue) /\ queue[j].op = op
      BY <1>1, <2>1
    <3>2. j - 1 \in 1..Len(rest) /\ (j - 1) + 1 = j
      BY <1>1, <3>1
    <3>3. j - 1 \in S
      BY <1>1, <3>1, <3>2
    <3> QED BY <3>2, <3>3
  <2>2. g \in [S -> T]
    BY <1>4 DEF Injection
  <2> QED BY <2>1, <2>2 DEF Surjection
<1>6. Cardinality(S) <= Cardinality(T)
      /\ (Cardinality(S) = Cardinality(T) <=> g \in Surjection(S, T))
  BY <1>3, <1>4, FS_Injection
<1> QED BY <1>2, <1>3, <1>5, <1>6 DEF rest

LEMMA LeftCount ==
  ASSUME TypeOK, NEW queue, Left(queue), NEW op
  PROVE  /\ queue \in Seq(Functor)
         /\ Count(op, queue) \in Nat /\ Count(op, pending) \in Nat
         /\ Count(op, queue) <= Count(op, pending)
         /\ Head(pending).op # op => Count(op, queue) = Count(op, pending)
<1>1. pending \in Seq(Functor)
  BY DEF TypeOK
<1>2. CASE queue = pending
  <2>1. Count(op, pending) \in Nat
    BY <1>1, CountType
  <2> QED BY <1>1, <1>2, <2>1
<1>3. CASE pending # <<>> /\ queue = Tail(pending)
  <2>1. queue \in Seq(Functor)
    BY <1>1, <1>3
  <2> QED BY <1>1, <1>3, <2>1, CountType, CountTail
<1> QED BY <1>2, <1>3 DEF Left

LEMMA QuietCount ==
  ASSUME TypeOK, Quiet, NEW op \in Report
  PROVE  Count(op, pending') <= Count(op, pending)
<1>1. PICK queue : /\ Left(queue)
                   /\ \/ pending' = queue
                      \/ \E f \in Functor : f.op \notin Report /\ pending' = Append(queue, f)
  BY DEF Quiet
<1>2. CASE pending' = queue
  BY <1>1, <1>2, LeftCount
<1>3. ASSUME NEW f \in Functor, f.op \notin Report, pending' = Append(queue, f)
      PROVE  Count(op, pending') <= Count(op, pending)
  <2>1. queue \in Seq(Functor) /\ Count(op, queue) \in Nat
        /\ Count(op, queue) <= Count(op, pending)
    BY <1>1, LeftCount
  <2>2. Count(op, pending') = Count(op, queue)
    BY <1>3, <2>1, CountAppend
  <2> QED BY <2>1, <2>2
<1> QED BY <1>1, <1>2, <1>3

\* Closing queues the destruction at most.
LEMMA QuietClose == ASSUME NEW queue, Left(queue), HandleClose(queue) PROVE Quiet
<1>1. Do("connectDestroyed") \in Functor /\ Do("connectDestroyed").op \notin Report
  BY FunctorType DEF Do, Report
<1> QED BY <1>1 DEF HandleClose, Quiet

\* A step is quiet and adds nothing to the buffer, or it is a sendInLoop, or it
\* takes bytes from the buffer.
Sending == \E msg, queue :
             /\ msg \in Message /\ Left(queue) /\ SendInLoop(msg, queue)
             /\ queue # pending => Head(pending).op = "sendInLoop"

Flushing == \E n \in 1..Len(m_outputBuffer) : Flush(n) /\ UNCHANGED <<given, dropped>>

LEMMA StepKinds ==
  ASSUME IInv, Next
  PROVE  (Quiet /\ UNCHANGED m_outputBuffer) \/ Sending \/ Flushing
<1>0. TypeOK /\ Left(pending)
  BY DEF IInv, Left
<1>1. ASSUME UNCHANGED <<pending, m_outputBuffer>> PROVE Quiet /\ UNCHANGED m_outputBuffer
  BY <1>1 DEF Quiet, Left
<1>2. CASE Polls \/ PeerCloses \/ PeerResets \/ Shutdown
  <2>1. UNCHANGED <<pending, m_outputBuffer>>
    BY <1>2 DEF Polls, Poll, PeerCloses, PeerResets, Shutdown
  <2> QED BY <1>1, <2>1
<1>3. CASE CloseHandler \/ HandleRead \/ EnableReading
  <2>1. UNCHANGED m_outputBuffer /\ (UNCHANGED pending \/ HandleClose(pending))
    BY <1>3 DEF CloseHandler, HandleRead, EnableReading
  <2> QED BY <1>0, <1>1, <2>1, QuietClose
<1>4. CASE HandleWrite
  <2>1. CASE \E n \in 1..Len(m_outputBuffer) : Flush(n)
    BY <1>4, <2>1 DEF HandleWrite, Flushing
  <2>2. CASE UNCHANGED m_outputBuffer /\ (UNCHANGED pending \/ HandleClose(pending))
    BY <1>0, <1>1, <2>2, QuietClose
  <2> QED BY <1>4, <2>1, <2>2 DEF HandleWrite
<1>5. CASE RunFunctor
  <2>1. pending # <<>> /\ Left(Tail(pending))
    BY <1>5 DEF RunFunctor, ConnectEstablished, ConnectDestroyed, RunSend, RunShutdown,
                ForceCloseInLoop, RunCallback, Running, Left
  <2>2. CASE RunSend
    <3>1. Head(pending).op = "sendInLoop" /\ Head(pending) \in Functor
      BY <1>0, <2>2, RunningType DEF RunSend
    <3> QED BY <2>1, <2>2, <3>1, FunctorType DEF RunSend, Sending
  <2>3. CASE ~RunSend
    <3>1. UNCHANGED m_outputBuffer /\ (pending' = Tail(pending) \/ HandleClose(Tail(pending)))
      BY <1>5, <2>3 DEF RunFunctor, ConnectEstablished, ConnectDestroyed, RunShutdown,
                        ForceCloseInLoop, RunCallback
    <3> QED BY <2>1, <3>1, QuietClose DEF Quiet
  <2> QED BY <2>2, <2>3
<1>6. ASSUME NEW msg \in Message, Send(msg) PROVE Sending
  BY <1>0, <1>6 DEF Send, Sending
<1>7. ASSUME UNCHANGED m_outputBuffer, NEW f \in Functor, f.op \notin Report,
             pending' = Append(pending, f)
      PROVE  Quiet /\ UNCHANGED m_outputBuffer
  BY <1>0, <1>7 DEF Quiet
<1>8. CASE ForceClose \/ OwnerDestroys
  <2>1. PICK op \in {"forceCloseInLoop", "connectDestroyed"} :
          pending' = Append(pending, Do(op)) /\ UNCHANGED m_outputBuffer
    BY <1>8 DEF ForceClose, OwnerDestroys
  <2> QED BY <1>7, <2>1, FunctorType DEF Do, Report
<1>9. ASSUME NEW t \in Foreign, ForeignBegin(t) \/ ForeignEnd(t)
      PROVE  Quiet /\ UNCHANGED m_outputBuffer
  <2>1. UNCHANGED m_outputBuffer
    BY <1>9 DEF ForeignBegin, ForeignEnd, ForeignSend, ForeignQueueSend, ForeignShutdown,
                ForeignForceClose, ForeignSetState, ForeignQueue, ForeignStep
  <2>2. CASE ForeignQueueSend(t)
    <3>1. fmsg[t] \in Message /\ pending' = Append(pending, DoSend(fmsg[t]))
      BY <1>0, <2>2 DEF ForeignQueueSend, ForeignStep, TypeOK
    <3> QED BY <1>7, <2>1, <3>1, FunctorType DEF DoSend, Report
  <2>3. CASE ForeignQueue(t)
    <3>1. PICK op \in {"shutdownInLoop", "forceCloseInLoop"} :
            pending' = Append(pending, Do(op))
      BY <2>3 DEF ForeignQueue
    <3> QED BY <1>7, <2>1, <3>1, FunctorType DEF Do, Report
  <2>4. CASE UNCHANGED pending
    BY <1>1, <2>1, <2>4
  <2> QED BY <1>9, <2>2, <2>3, <2>4 DEF ForeignBegin, ForeignEnd, ForeignSend,
             ForeignShutdown, ForeignForceClose, ForeignSetState
<1> QED BY <1>2, <1>3, <1>4, <1>5, <1>6, <1>8, <1>9 DEF Next, Dispatched, LoopCall

\* BufferRest queues the mark exactly when the buffer crosses it.
LEMMA RestReports ==
  ASSUME IInv, NEW queue, Left(queue), queue # pending => Head(pending).op = "sendInLoop",
         NEW rest \in Seq(Byte), BufferRest(rest, queue)
  PROVE  /\ Count("writeComplete", pending') <= Count("writeComplete", pending)
         /\ Count("highWaterMark", pending') > Count("highWaterMark", pending)
              <=> /\ Len(m_outputBuffer) < HighWaterMark
                  /\ Len(m_outputBuffer') >= HighWaterMark
<1>1. /\ queue \in Seq(Functor)
      /\ \A op \in Report : Count(op, queue) = Count(op, pending) /\ Count(op, pending) \in Nat
  <2>1. ASSUME NEW op \in Report
        PROVE  Count(op, queue) = Count(op, pending) /\ Count(op, pending) \in Nat
    <3>1. CASE queue = pending
      BY <3>1, LeftCount DEF IInv
    <3>2. CASE queue # pending
      <4>1. Head(pending).op # op
        BY <3>2 DEF Report
      <4> QED BY <4>1, LeftCount DEF IInv
    <3> QED BY <3>1, <3>2
  <2> QED BY <2>1, LeftCount DEF IInv
<1>2. Len(m_outputBuffer') = Len(m_outputBuffer) + Len(rest)
      /\ Len(m_outputBuffer) \in Nat /\ Len(rest) \in Nat
  BY ConcatProperties, LenProperties DEF BufferRest, IInv, TypeOK
<1>3. HighWaterMark \in Nat
  BY ConnectionAssumption
<1> DEFINE crosses == /\ Len(m_outputBuffer) + Len(rest) >= HighWaterMark
                      /\ Len(m_outputBuffer) < HighWaterMark
<1>4. pending' = IF crosses THEN Append(queue, Do("highWaterMark")) ELSE queue
  BY DEF BufferRest
<1>5. /\ Count("highWaterMark", Append(queue, Do("highWaterMark"))) =
           Count("highWaterMark", queue) + 1
      /\ Count("writeComplete", Append(queue, Do("highWaterMark"))) =
           Count("writeComplete", queue)
  <2>1. Do("highWaterMark") \in Functor /\ Do("highWaterMark").op = "highWaterMark"
    BY FunctorType DEF Do
  <2>2. Count("writeComplete", queue) \in Nat
    BY <1>1 DEF Report
  <2> QED BY <1>1, <2>1, <2>2, CountAppend
<1> QED BY <1>1, <1>2, <1>3, <1>4, <1>5 DEF Report

\* What sendInLoop did to the buffer and to the socket, and what it reported.
LEMMA SendReports ==
  ASSUME IInv, NEW msg \in Message, NEW queue, Left(queue), SendInLoop(msg, queue),
         queue # pending => Head(pending).op = "sendInLoop"
  PROVE  /\ Count("writeComplete", pending') > Count("writeComplete", pending) =>
              m_outputBuffer' = <<>> /\ UNCHANGED dropped
         /\ Count("highWaterMark", pending') > Count("highWaterMark", pending)
              <=> /\ Len(m_outputBuffer) < HighWaterMark
                  /\ Len(m_outputBuffer') >= HighWaterMark
<1>0. msg \in Seq(Byte) /\ HighWaterMark \in Nat /\ Len(m_outputBuffer) \in Nat
  BY MessageType, ConnectionAssumption, LenProperties DEF IInv, TypeOK
<1>1. CASE pending' = queue /\ UNCHANGED m_outputBuffer
  <2>1. Quiet
    BY <1>1 DEF Quiet
  <2>2. \A op \in Report : /\ Count(op, pending') <= Count(op, pending)
                           /\ Count(op, pending) \in Nat /\ Count(op, pending') \in Nat
    BY <1>1, <2>1, QuietCount, LeftCount DEF IInv
  <2> QED BY <1>0, <1>1, <2>2 DEF Report
<1>2. ASSUME NEW rest \in Seq(Byte), BufferRest(rest, queue)
      PROVE  /\ ~(Count("writeComplete", pending') > Count("writeComplete", pending))
             /\ Count("highWaterMark", pending') > Count("highWaterMark", pending)
                  <=> /\ Len(m_outputBuffer) < HighWaterMark
                      /\ Len(m_outputBuffer') >= HighWaterMark
  <2>1. pending' \in Seq(Functor) /\ pending \in Seq(Functor)
    <3>1. queue \in Seq(Functor) /\ Do("highWaterMark") \in Functor
      BY LeftCount, FunctorType DEF IInv
    <3> QED BY <1>2, <3>1, AppendProperties DEF BufferRest, IInv, TypeOK
  <2>2. Count("writeComplete", pending') \in Nat /\ Count("writeComplete", pending) \in Nat
    BY <2>1, CountType
  <2> QED BY <1>2, <2>2, RestReports
<1>3. ASSUME ~IsWriting, m_outputBuffer = <<>>,
             NEW n \in 1..Len(msg), WriteSome(msg, queue, n)
      PROVE  /\ Count("writeComplete", pending') > Count("writeComplete", pending) =>
                  m_outputBuffer' = <<>> /\ UNCHANGED dropped
             /\ Count("highWaterMark", pending') > Count("highWaterMark", pending)
                  <=> /\ Len(m_outputBuffer) < HighWaterMark
                      /\ Len(m_outputBuffer') >= HighWaterMark
  <2>1. CASE n = Len(msg)
    <3>1. /\ pending' = Append(queue, Do("writeComplete"))
          /\ UNCHANGED <<m_outputBuffer, dropped>>
      BY <1>3, <2>1 DEF WriteSome
    <3>2. Do("writeComplete") \in Functor /\ Do("writeComplete").op # "highWaterMark"
      BY FunctorType DEF Do
    <3>3. queue \in Seq(Functor) /\ Count("highWaterMark", queue) \in Nat
          /\ Count("highWaterMark", queue) <= Count("highWaterMark", pending)
          /\ Count("highWaterMark", pending) \in Nat
      BY LeftCount DEF IInv
    <3>4. Count("highWaterMark", pending') = Count("highWaterMark", queue)
      BY <3>1, <3>2, <3>3, CountAppend
    <3>5. ~(Count("highWaterMark", pending') > Count("highWaterMark", pending))
      BY <3>3, <3>4
    <3> QED BY <1>0, <1>3, <3>1, <3>5
  <2>2. CASE n # Len(msg)
    <3>1. BufferRest(SubSeq(msg, n + 1, Len(msg)), queue)
      BY <1>3, <2>2 DEF WriteSome
    <3>2. SubSeq(msg, n + 1, Len(msg)) \in Seq(Byte)
      BY <1>0, SplitAt
    <3> QED BY <1>2, <3>1, <3>2
  <2> QED BY <2>1, <2>2
<1> QED BY <1>0, <1>1, <1>2, <1>3 DEF SendInLoop

\* The socket takes bytes of the buffer: the report comes with the last of them.
LEMMA FlushReports ==
  ASSUME IInv, Flushing
  PROVE  /\ Count("writeComplete", pending') > Count("writeComplete", pending) =>
              m_outputBuffer' = <<>> /\ UNCHANGED dropped
         /\ ~(Count("highWaterMark", pending') > Count("highWaterMark", pending))
         /\ Len(m_outputBuffer') <= Len(m_outputBuffer)
<1>1. PICK n \in 1..Len(m_outputBuffer) : Flush(n) /\ UNCHANGED <<given, dropped>>
  BY DEF Flushing
<1>2. /\ m_outputBuffer \in Seq(Byte) /\ Len(m_outputBuffer) \in Nat
      /\ pending \in Seq(Functor)
  BY LenProperties DEF IInv, TypeOK
<1>3. m_outputBuffer' = SubSeq(m_outputBuffer, n + 1, Len(m_outputBuffer))
  BY <1>1 DEF Flush
<1>4. Len(m_outputBuffer') <= Len(m_outputBuffer)
  BY <1>2, <1>3, SplitAt, SubSeqProperties
<1>5. \A op \in Report : Count(op, pending) \in Nat
  BY <1>2, CountType
<1>6. CASE n = Len(m_outputBuffer)
  <2>1. m_outputBuffer' = <<>> /\ pending' = Append(pending, Do("writeComplete"))
    BY <1>1, <1>2, <1>3, <1>6, SplitAt DEF Flush
  <2>2. Do("writeComplete") \in Functor /\ Do("writeComplete").op # "highWaterMark"
    BY FunctorType DEF Do
  <2>3. Count("highWaterMark", pending') = Count("highWaterMark", pending)
    BY <1>2, <1>5, <2>1, <2>2, CountAppend DEF Report
  <2> QED BY <1>1, <1>4, <1>5, <2>1, <2>3 DEF Report
<1>7. CASE n # Len(m_outputBuffer)
  <2>1. UNCHANGED pending
    BY <1>1, <1>7 DEF Flush
  <2> QED BY <1>4, <1>5, <2>1 DEF Report
<1> QED BY <1>6, <1>7

\* The write-complete callback is queued only when all that was given is written: a
\* direct write that takes a part of a message, or a flush that leaves bytes, queues none.
THEOREM CompleteIsWritten == Spec => WriteCompleteMeansWritten
<1>1. ASSUME IInv, [Next]_vars,
             Count("writeComplete", pending') > Count("writeComplete", pending)
      PROVE  m_outputBuffer' = <<>> /\ (dropped \/ wire' = given')
  <2>0. pending \in Seq(Functor) /\ Count("writeComplete", pending) \in Nat
    BY <1>1, CountType DEF IInv, TypeOK
  <2>1. Next
    BY <1>1, <2>0
  <2>2. ~Quiet
    <3>1. pending' \in Seq(Functor) /\ Count("writeComplete", pending') \in Nat
      BY <1>1, StepInv, CountType DEF IInv, TypeOK
    <3> QED BY <1>1, <2>0, <3>1, QuietCount DEF IInv, Report
  <2>3. m_outputBuffer' = <<>> /\ UNCHANGED dropped
    BY <1>1, <2>1, <2>2, StepKinds, SendReports, FlushReports DEF Sending
  <2>4. wire' \in Seq(Byte) /\ (~dropped' => given' = wire' \o m_outputBuffer')
        /\ dropped' \in BOOLEAN
    BY <1>1, StepInv DEF IInv, TypeOK, StreamInv
  <2> QED BY <2>3, <2>4, ConcatEmptySeq
<1>2. IInv /\ [Next]_vars =>
        [Count("writeComplete", pending') > Count("writeComplete", pending) =>
           m_outputBuffer' = <<>> /\ (dropped \/ wire' = given')]_vars
  BY <1>1
<1> QED BY <1>2, Safety, PTL DEF Spec, WriteCompleteMeansWritten

\* The high water mark is queued by the very steps in which the buffer crosses it, each
\* time it does, and by no other.
THEOREM MarkOnCrossing == Spec => HighWaterOnCrossing
<1> DEFINE Reports == Count("highWaterMark", pending') > Count("highWaterMark", pending)
           Crosses == /\ Len(m_outputBuffer) < HighWaterMark
                      /\ Len(m_outputBuffer') >= HighWaterMark
<1>1. ASSUME IInv, [Next]_vars PROVE Reports <=> Crosses
  <2>0. /\ Len(m_outputBuffer) \in Nat /\ Len(m_outputBuffer') \in Nat
        /\ HighWaterMark \in Nat
        /\ Count("highWaterMark", pending) \in Nat
        /\ Count("highWaterMark", pending') \in Nat
    BY <1>1, StepInv, LenProperties, CountType, ConnectionAssumption DEF IInv, TypeOK
  <2>1. CASE UNCHANGED vars
    BY <2>0, <2>1
  <2>2. CASE Quiet /\ UNCHANGED m_outputBuffer
    <3>1. Count("highWaterMark", pending') <= Count("highWaterMark", pending)
      BY <1>1, <2>2, QuietCount DEF IInv, Report
    <3> QED BY <2>0, <2>2, <3>1
  <2>3. CASE Sending
    BY <1>1, <2>3, SendReports DEF Sending
  <2>4. CASE Flushing
    BY <1>1, <2>0, <2>4, FlushReports
  <2> QED BY <1>1, <2>1, <2>2, <2>3, <2>4, StepKinds
<1>2. IInv /\ [Next]_vars => [Reports <=> Crosses]_vars
  BY <1>1
<1> QED BY <1>2, Safety, PTL DEF Spec, HighWaterOnCrossing
-----------------------------------------------------------------------------
(* The refinement of ByteStream.                                           *)

\* What a step may do to the stream: a message more is given, bytes more are taken by
\* the socket if it takes bytes at all, and a socket that takes none never does again.
StreamStep ==
  /\ given' = given \/ \E msg \in Message : given' = given \o msg
  /\ wire' = wire \/ (CanWrite /\ \E bytes \in Seq(Byte) : wire' = wire \o bytes)
  /\ (~CanWrite => ~CanWrite') /\ CanWrite' \in BOOLEAN

LEMMA SendStream ==
  ASSUME NEW msg \in Message, NEW queue, SendInLoop(msg, queue), UNCHANGED <<broken, shutWr>>
  PROVE  StreamStep
<1>1. given' = given \/ given' = given \o msg
  BY DEF SendInLoop
<1>2. ASSUME NEW n \in 1..Len(msg), WriteSome(msg, queue, n)
      PROVE  CanWrite /\ \E bytes \in Seq(Byte) : wire' = wire \o bytes
  <2>1. SubSeq(msg, 1, n) \in Seq(Byte)
    BY MessageType, SplitAt
  <2> QED BY <1>2, <2>1 DEF WriteSome
<1>3. wire' = wire \/ (CanWrite /\ \E bytes \in Seq(Byte) : wire' = wire \o bytes)
  BY <1>2 DEF SendInLoop
<1> QED BY <1>1, <1>3 DEF StreamStep, CanWrite

LEMMA AllStream == ASSUME IInv, Next PROVE StreamStep
<1>0. broken \in BOOLEAN /\ shutWr \in BOOLEAN /\ broken' \in BOOLEAN /\ shutWr' \in BOOLEAN
  BY StepInv DEF IInv, TypeOK
<1>1. ASSUME UNCHANGED <<given, wire>>, broken => broken', shutWr => shutWr'
      PROVE  StreamStep
  BY <1>0, <1>1 DEF StreamStep, CanWrite
<1>2. CASE \/ Polls \/ CloseHandler \/ HandleRead \/ EnableReading
           \/ PeerCloses \/ PeerResets
  <2>1. UNCHANGED <<given, wire, shutWr>> /\ (broken => broken')
    BY <1>2 DEF Polls, Poll, CloseHandler, HandleRead, EnableReading, PeerCloses, PeerResets
  <2> QED BY <1>1, <2>1
<1>3. CASE HandleWrite
  <2>1. UNCHANGED <<given, broken>>
    BY <1>3 DEF HandleWrite
  <2>2. ASSUME CanWrite, NEW n \in 1..Len(m_outputBuffer), Flush(n) PROVE StreamStep
    <3>1. SubSeq(m_outputBuffer, 1, n) \in Seq(Byte)
      BY SplitAt DEF IInv, TypeOK
    <3>2. wire' = wire \o SubSeq(m_outputBuffer, 1, n)
      BY <2>2 DEF Flush
    <3> QED BY <1>0, <2>1, <2>2, <3>1, <3>2 DEF StreamStep, CanWrite
  <2>3. CASE UNCHANGED sockVars
    BY <1>1, <2>1, <2>3
  <2> QED BY <1>3, <2>2, <2>3 DEF HandleWrite
<1>4. CASE RunFunctor
  <2>1. CASE RunSend
    <3>1. Head(pending).msg \in Message
      BY <2>1, RunningType, FunctorType DEF RunSend, IInv
    <3> QED BY <2>1, <3>1, SendStream DEF RunSend, Running
  <2>2. CASE ~RunSend
    <3>1. UNCHANGED <<given, wire, broken>> /\ (UNCHANGED shutWr \/ ShutdownInLoop)
      BY <1>4, <2>2 DEF RunFunctor, ConnectEstablished, ConnectDestroyed, RunShutdown,
                        ForceCloseInLoop, RunCallback, Running
    <3> QED BY <1>1, <3>1, ShutdownType DEF IInv
  <2> QED BY <2>1, <2>2
<1>5. ASSUME NEW msg \in Message, Send(msg) PROVE StreamStep
  BY <1>5, SendStream DEF Send
<1>6. CASE Shutdown \/ ForceClose \/ OwnerDestroys
  <2>1. UNCHANGED <<given, wire, broken>> /\ (UNCHANGED shutWr \/ ShutdownInLoop)
    BY <1>6 DEF Shutdown, ForceClose, OwnerDestroys
  <2> QED BY <1>1, <2>1, ShutdownType DEF IInv
<1>7. ASSUME NEW t \in Foreign, ForeignBegin(t) \/ ForeignEnd(t) PROVE StreamStep
  <2>1. UNCHANGED <<given, wire, broken, shutWr>>
    BY <1>7 DEF ForeignBegin, ForeignEnd, ForeignSend, ForeignQueueSend, ForeignShutdown,
                ForeignForceClose, ForeignSetState, ForeignQueue, ForeignStep
  <2> QED BY <1>1, <2>1
<1> QED BY <1>2, <1>3, <1>4, <1>5, <1>6, <1>7 DEF Next, Dispatched, LoopCall

\* A TcpConnection is an ordered stream of bytes: sendInLoop is Accept, the bytes that a
\* direct write or handleWrite moves are Deliver, a reset or a half close ends it.
THEOREM StreamImplemented == Spec => ImplementsStream
<1>1. Init => Stream!SInit
  BY DEF Init, Stream!SInit, CanWrite
<1>2. IInv /\ [Next]_vars => [Stream!SNext]_<<given, wire, CanWrite>>
  <2> SUFFICES ASSUME IInv, Next PROVE Stream!SNext
    BY DEF CanWrite
  <2>1. StreamStep
    BY AllStream
  <2>2. /\ wire \in Seq(Byte) /\ wire' \in Seq(Byte) /\ given' \in Seq(Byte)
        /\ m_outputBuffer' \in Seq(Byte) /\ StreamInv'
    BY StepInv DEF IInv, TypeOK
  <2>3. Len(wire') <= Len(given') /\ wire' = SubSeq(given', 1, Len(wire'))
    <3>1. IsPrefix(wire', given')
      BY <2>2, PrefixOfItself, PrefixOfConcat DEF StreamInv
    <3>2. Len(wire') \in Nat /\ Len(given') \in Nat
      BY <2>2, LenProperties
    <3>3. SubSeq(wire', 1, Len(wire')) = wire'
      BY <2>2, SubSeqFull
    <3> QED BY <3>1, <3>2, <3>3 DEF IsPrefix
  <2>4. Len(wire) <= Len(wire')
    <3>1. ASSUME NEW bytes \in Seq(Byte), wire' = wire \o bytes PROVE Len(wire) <= Len(wire')
      BY <2>2, <3>1, ConcatProperties, LenProperties
    <3>2. Len(wire) <= Len(wire)
      BY <2>2, LenProperties
    <3> QED BY <2>1, <3>1, <3>2 DEF StreamStep
  <2>5. Len(wire') \in Len(wire)..Len(given')
    BY <2>2, <2>3, <2>4, LenProperties
  <2>6. Stream!Accept
    BY <2>1 DEF StreamStep, Stream!Accept
  <2>7. CASE CanWrite
    <3>1. CanWrite' \in BOOLEAN
      BY <2>1 DEF StreamStep
    <3>2. Stream!Deliver
      BY <2>3, <2>5, <2>7, <3>1 DEF Stream!Deliver
    <3> QED BY <2>6, <3>2 DEF Stream!SNext
  <2>8. CASE ~CanWrite
    <3>1. wire' = wire /\ ~CanWrite'
      BY <2>1, <2>8 DEF StreamStep
    <3>2. CanWrite' = CanWrite
      BY <2>8, <3>1 DEF CanWrite
    <3>3. Stream!Closed
      BY <2>8, <3>1, <3>2 DEF Stream!Closed
    <3> QED BY <2>6, <3>3 DEF Stream!SNext
  <2> QED BY <2>7, <2>8
<1> QED
  BY <1>1, <1>2, Safety, PTL DEF Spec, ImplementsStream, Stream!SSpec, Stream!svars
-----------------------------------------------------------------------------
(* The half close with any number of threads, for the body of              *)
(* shutdownInLoop at line 93.                                              *)

\* A step keeps HalfCloseLosesNothing when, should the connection still be up after it,
\* it was up before, and the buffer is empty if the write side is or becomes shut.
LEMMA HalfFrame ==
  ASSUME IInv, HalfCloseLosesNothing,
         m_state' # "kDisconnected" /\ ~resurrected'
           => m_state # "kDisconnected" /\ ~resurrected,
         ~clobbered' => ~clobbered,
         (shutWr' /\ m_state # "kDisconnected" /\ ~resurrected /\ m_outputBuffer = <<>>)
           => m_outputBuffer' = <<>>,
         shutWr' => shutWr \/ ~IsWriting
  PROVE  HalfCloseLosesNothing'
BY DEF IInv, WriteInterest, HalfCloseLosesNothing

LEMMA HalfDispatched ==
  ASSUME ~ShutsWhenWriting, IInv, HalfCloseLosesNothing, Dispatched
  PROVE  HalfCloseLosesNothing'
<1>1. ASSUME HandleClose(pending), UNCHANGED <<resurrected, pollVars, sendVars, sockVars>>
      PROVE  HalfCloseLosesNothing'
  BY <1>1, HalfFrame DEF HandleClose
<1>2. CASE CloseHandler
  BY <1>1, <1>2 DEF CloseHandler
<1>3. CASE HandleRead
  <2>1. CASE HandleClose(pending)
    BY <1>1, <1>3, <2>1 DEF HandleRead
  <2>2. CASE UNCHANGED m_state
    BY <1>3, <2>2, HalfFrame DEF HandleRead
  <2> QED BY <1>3, <2>1, <2>2 DEF HandleRead
<1>4. CASE HandleWrite
  <2>1. UNCHANGED <<resurrected, pollVars>>
    BY <1>4 DEF HandleWrite
  <2>2. ASSUME CanWrite, NEW n \in 1..Len(m_outputBuffer), Flush(n)
        PROVE  HalfCloseLosesNothing'
    <3>1. CASE n = Len(m_outputBuffer)
      <4>1. m_outputBuffer' = SubSeq(m_outputBuffer, n + 1, Len(m_outputBuffer))
        BY <2>2 DEF Flush
      <4>2. m_outputBuffer' = <<>>
        BY <3>1, <4>1 DEF IInv, TypeOK
      <4> QED BY <4>2 DEF HalfCloseLosesNothing
    <3>2. CASE n # Len(m_outputBuffer)
      BY <2>2, <3>2 DEF Flush, CanWrite, HalfCloseLosesNothing
    <3> QED BY <3>1, <3>2
  <2>3. CASE HandleClose(pending) /\ UNCHANGED <<m_outputBuffer, sockVars>>
    BY <2>1, <2>3, HalfFrame DEF HandleClose
  <2>4. CASE UNCHANGED <<m_state, m_outputBuffer, sockVars>>
    BY <2>1, <2>4, HalfFrame
  <2> QED BY <1>4, <2>2, <2>3, <2>4 DEF HandleWrite
<1>5. CASE EnableReading
  <2>1. CASE HandleClose(pending)
    BY <1>1, <1>5, <2>1 DEF EnableReading
  <2>2. CASE UNCHANGED m_state
    BY <1>5, <2>2, HalfFrame DEF EnableReading
  <2> QED BY <1>5, <2>1, <2>2 DEF EnableReading
<1> QED BY <1>2, <1>3, <1>4, <1>5 DEF Dispatched

\* A send after the half close gives its message up: the buffer stays empty.
LEMMA HalfSend ==
  ASSUME IInv, HalfCloseLosesNothing, NEW msg, NEW queue,
         SendInLoop(msg, queue), UNCHANGED <<m_state, resurrected, clobbered, shutWr>>
  PROVE  HalfCloseLosesNothing'
<1>1. (shutWr /\ m_state # "kDisconnected" /\ ~resurrected /\ ~clobbered) =>
        m_outputBuffer' = m_outputBuffer
  BY DEF SendInLoop, WriteSome, CanWrite, IInv, WriteInterest, HalfCloseLosesNothing
<1> QED BY <1>1 DEF HalfCloseLosesNothing

LEMMA HalfShutdown ==
  ASSUME ~ShutsWhenWriting, IInv, ShutdownInLoop
  PROVE  shutWr' => shutWr \/ ~IsWriting
BY DEF ShutdownInLoop, IInv, TypeOK, IsWriting

LEMMA HalfFunctor ==
  ASSUME ~ShutsWhenWriting, IInv, HalfCloseLosesNothing, RunFunctor
  PROVE  HalfCloseLosesNothing'
<1>1. CASE ConnectEstablished
  BY <1>1, HalfFrame DEF ConnectEstablished
<1>2. CASE ConnectDestroyed
  BY <1>2, HalfFrame DEF ConnectDestroyed
<1>3. CASE RunSend
  BY <1>3, HalfSend DEF RunSend
<1>4. CASE RunShutdown
  BY <1>4, HalfShutdown, HalfFrame DEF RunShutdown
<1>5. CASE ForceCloseInLoop
  BY <1>5, HalfFrame DEF ForceCloseInLoop, HandleClose
<1>6. CASE RunCallback
  BY <1>6, HalfFrame DEF RunCallback
<1> QED BY <1>1, <1>2, <1>3, <1>4, <1>5, <1>6 DEF RunFunctor

LEMMA HalfLoopCall ==
  ASSUME ~ShutsWhenWriting, IInv, HalfCloseLosesNothing, LoopCall
  PROVE  HalfCloseLosesNothing'
<1>1. ASSUME NEW msg \in Message, Send(msg) PROVE HalfCloseLosesNothing'
  BY <1>1, HalfSend DEF Send
<1>2. CASE Shutdown
  BY <1>2, HalfShutdown, HalfFrame DEF Shutdown
<1>3. CASE ForceClose
  BY <1>3, HalfFrame DEF ForceClose
<1>4. CASE OwnerDestroys
  BY <1>4, HalfFrame DEF OwnerDestroys
<1> QED BY <1>1, <1>2, <1>3, <1>4 DEF LoopCall

LEMMA HalfForeign ==
  ASSUME IInv, HalfCloseLosesNothing,
         NEW t \in Foreign, ForeignBegin(t) \/ ForeignEnd(t)
  PROVE  HalfCloseLosesNothing'
<1>1. CASE ForeignSetState(t)
  <2>1. UNCHANGED <<m_outputBuffer, shutWr, clobbered>>
    BY <1>1 DEF ForeignSetState, ForeignStep
  <2> QED BY <1>1, <2>1 DEF ForeignSetState, HalfCloseLosesNothing
<1>2. CASE ~ForeignSetState(t)
  <2>1. UNCHANGED <<m_state, resurrected, m_outputBuffer, shutWr, clobbered>>
    BY <1>2 DEF ForeignBegin, ForeignEnd, ForeignStep, ForeignSend, ForeignQueueSend,
                ForeignShutdown, ForeignForceClose, ForeignQueue
  <2> QED BY <2>1 DEF HalfCloseLosesNothing
<1> QED BY <1>1, <1>2

LEMMA HalfStep ==
  ~ShutsWhenWriting /\ IInv /\ HalfCloseLosesNothing /\ [Next]_vars
    => HalfCloseLosesNothing'
<1> SUFFICES ASSUME ~ShutsWhenWriting, IInv, HalfCloseLosesNothing, [Next]_vars
             PROVE  HalfCloseLosesNothing'
  OBVIOUS
<1>1. CASE Polls
  <2>1. UNCHANGED <<m_state, resurrected, m_outputBuffer, shutWr>>
    BY <1>1 DEF Polls, Poll
  <2>2. clobbered => clobbered'
    BY <1>1 DEF Polls, Poll
  <2> QED BY <2>1, <2>2, HalfFrame
<1>2. CASE PeerCloses \/ PeerResets
  BY <1>2, HalfFrame DEF PeerCloses, PeerResets
<1>3. CASE UNCHANGED vars
  BY <1>3, HalfFrame
<1> QED BY <1>1, <1>2, <1>3, HalfDispatched, HalfFunctor, HalfLoopCall, HalfForeign
        DEF Next

\* With the body of shutdownInLoop at line 93, and any number of threads calling send,
\* shutdown and forceClose at any time, the write side of a connection that is up is
\* shut only when the output buffer is empty, and the buffer stays empty from then on:
\* as long as no report of epoll changes what isWriting tells shutdownInLoop.
THEOREM HalfCloseIsClean ==
  ASSUME ~ShutsWhenWriting
  PROVE  Spec => []HalfCloseLosesNothing
<1>1. Init => HalfCloseLosesNothing
  BY DEF Init, HalfCloseLosesNothing
<1>2. IInv /\ HalfCloseLosesNothing /\ [Next]_vars => HalfCloseLosesNothing'
  BY HalfStep
<1> QED BY <1>1, <1>2, Safety, PTL DEF Spec
-----------------------------------------------------------------------------
(* The half close, for a connection that only the loop thread uses and the  *)
(* body of shutdownInLoop at line 93.  Another thread may have put a send   *)
(* in the queue behind a shutdown: then this does not hold.                 *)

\* shutdown closes the write side only when all that was given has gone out, and
\* nothing is given after it: unless the peer reset the connection, all of it is
\* on the wire; or a report of epoll has changed what isWriting tells.
HalfCloseAfterDrain == (shutWr /\ ~broken /\ ~clobbered) => wire = given

\* No send and no shutdown waits in the queue.
NoSends(queue) ==
  \A i \in 1..Len(queue) : queue[i].op \notin {"sendInLoop", "shutdownInLoop"}

SoloInv == /\ ~resurrected
           /\ NoSends(pending)
           /\ shutWr => m_state \in {"kDisConnecting", "kDisconnected"}
           /\ HalfCloseAfterDrain

LEMMA NoSendsTail ==
  ASSUME NEW queue \in Seq(Functor), queue # <<>>, NoSends(queue)
  PROVE  NoSends(Tail(queue)) /\ Head(queue).op \notin {"sendInLoop", "shutdownInLoop"}
<1>1. Len(queue) \in Nat \ {0}
  BY EmptySeq
<1>2. /\ Len(Tail(queue)) = Len(queue) - 1
      /\ \A i \in 1..Len(Tail(queue)) : Tail(queue)[i] = queue[i + 1]
  BY HeadTailProperties
<1>3. Head(queue) = queue[1]
  OBVIOUS
<1> QED BY <1>1, <1>2, <1>3 DEF NoSends

LEMMA NoSendsAppend ==
  ASSUME NEW queue \in Seq(Functor), NoSends(queue),
         NEW op \in {"connectDestroyed", "forceCloseInLoop", "writeComplete",
                     "highWaterMark"}
  PROVE  NoSends(Append(queue, Do(op)))
<1>1. Do(op) \in Functor /\ Do(op).op = op
  BY FunctorType DEF Do
<1>2. /\ Len(Append(queue, Do(op))) = Len(queue) + 1 /\ Len(queue) \in Nat
      /\ \A i \in 1..Len(queue) : Append(queue, Do(op))[i] = queue[i]
      /\ Append(queue, Do(op))[Len(queue) + 1] = Do(op)
  BY <1>1, AppendProperties, LenProperties
<1> QED BY <1>1, <1>2 DEF NoSends

LEMMA SoloClose ==
  ASSUME SoloInv, NEW queue \in Seq(Functor), NoSends(queue), HandleClose(queue),
         UNCHANGED <<resurrected, clobbered, sendVars, sockVars, peerVars>>
  PROVE  SoloInv'
<1>1. NoSends(pending')
  BY NoSendsAppend DEF HandleClose
<1>2. shutWr' => m_state' \in {"kDisConnecting", "kDisconnected"}
  BY DEF HandleClose, SoloInv
<1> QED BY <1>1, <1>2 DEF SoloInv, HalfCloseAfterDrain, NoSends

LEMMA SoloFrame ==
  ASSUME SoloInv, NoSends(pending'),
         shutWr => m_state' \in {"kDisConnecting", "kDisconnected"},
         UNCHANGED <<resurrected, given, wire, shutWr>>, broken => broken',
         clobbered => clobbered'
  PROVE  SoloInv'
BY DEF SoloInv, HalfCloseAfterDrain, NoSends

LEMMA SoloDispatched ==
  ASSUME ~ShutsWhenWriting, IInv, SoloInv, Dispatched
  PROVE  SoloInv'
<1>1. pending \in Seq(Functor) /\ NoSends(pending)
  BY DEF IInv, TypeOK, SoloInv
<1>2. CASE /\ HandleClose(pending)
           /\ UNCHANGED <<resurrected, clobbered, sendVars, sockVars, peerVars>>
  BY <1>1, <1>2, SoloClose
<1>3. CASE UNCHANGED <<resurrected, clobbered, m_state, pending, sendVars, sockVars, peerVars>>
  BY <1>1, <1>3, SoloFrame DEF SoloInv
<1>4. ASSUME HandleWrite, CanWrite, NEW n \in 1..Len(m_outputBuffer), Flush(n)
      PROVE  SoloInv'
  <2>1. NoSends(pending')
    <3>1. pending' \in {pending, Append(pending, Do("writeComplete"))}
      BY <1>4 DEF Flush
    <3> QED BY <1>1, <3>1, NoSendsAppend
  <2>2. CASE ~shutWr'
    BY <1>4, <2>1, <2>2 DEF HandleWrite, SoloInv, HalfCloseAfterDrain, NoSends
  <2>3. CASE shutWr'
    <3>1. ~shutWr
      BY <1>4 DEF CanWrite
    <3>2. n = Len(m_outputBuffer) /\ m_state = "kDisConnecting" /\ m_state' = m_state
      BY <1>4, <2>3, <3>1 DEF Flush
    <3>3. m_outputBuffer \in Seq(Byte) /\ wire \in Seq(Byte)
          /\ given = wire \o m_outputBuffer
      BY <1>4 DEF IInv, TypeOK, StreamInv
    <3>4. SubSeq(m_outputBuffer, 1, n) = m_outputBuffer
      BY <3>2, <3>3, SubSeqFull
    <3>5. wire' = given /\ given' = given
      BY <1>4, <3>3, <3>4 DEF Flush, HandleWrite
    <3> QED BY <1>4, <2>1, <3>2, <3>5
            DEF HandleWrite, SoloInv, HalfCloseAfterDrain, NoSends
  <2> QED BY <2>2, <2>3
<1>5. CASE HandleWrite
  <2>1. UNCHANGED <<resurrected, clobbered, given, dropped, peerVars>>
    BY <1>5 DEF HandleWrite
  <2> QED BY <1>2, <1>3, <1>4, <1>5, <2>1 DEF HandleWrite
<1>6. CASE CloseHandler \/ HandleRead \/ EnableReading
  BY <1>2, <1>3, <1>6 DEF CloseHandler, HandleRead, EnableReading
<1> QED BY <1>5, <1>6 DEF Dispatched

LEMMA SoloFunctor ==
  ASSUME IInv, SoloInv, RunFunctor
  PROVE  SoloInv'
<1>1. /\ pending \in Seq(Functor) /\ pending # <<>>
      /\ UNCHANGED peerVars
  BY DEF IInv, TypeOK, RunFunctor, ConnectEstablished, ConnectDestroyed, RunSend,
         RunShutdown, ForceCloseInLoop, RunCallback, Running
<1>2. /\ Tail(pending) \in Seq(Functor) /\ NoSends(Tail(pending))
      /\ Head(pending).op \notin {"sendInLoop", "shutdownInLoop"}
  BY <1>1, NoSendsTail, HeadTailProperties DEF SoloInv
<1>3. ~RunSend /\ ~RunShutdown
  BY <1>2 DEF RunSend, RunShutdown, Running
<1>4. UNCHANGED <<resurrected, clobbered, sendVars, sockVars>>
  BY <1>3 DEF RunFunctor, ConnectEstablished, ConnectDestroyed, ForceCloseInLoop,
              RunCallback
<1>5. CASE HandleClose(Tail(pending))
  BY <1>1, <1>2, <1>4, <1>5, SoloClose
<1>6. CASE /\ pending' = Tail(pending)
           /\ \/ UNCHANGED m_state
              \/ m_state \in {"kConnecting", "kConnected"}
  <2>1. shutWr => m_state' \in {"kDisConnecting", "kDisconnected"}
    BY <1>6 DEF SoloInv
  <2> QED BY <1>1, <1>2, <1>4, <1>6, <2>1, SoloFrame
<1> QED BY <1>3, <1>5, <1>6
        DEF RunFunctor, ConnectEstablished, ConnectDestroyed, ForceCloseInLoop,
            RunCallback

LEMMA SoloLoopCall ==
  ASSUME ~ShutsWhenWriting, IInv, SoloInv, LoopCall
  PROVE  SoloInv'
<1>1. pending \in Seq(Functor) /\ NoSends(pending)
  BY DEF IInv, TypeOK, SoloInv
<1>2. ASSUME NEW msg \in Message, Send(msg) PROVE SoloInv'
  <2>1. ~shutWr /\ m_state # "kDisconnected"
        /\ UNCHANGED <<shutWr, resurrected, clobbered, m_state, broken>>
    BY <1>2 DEF Send, SoloInv
  <2>2. NoSends(pending')
    <3>1. ASSUME NEW rest, BufferRest(rest, pending) PROVE NoSends(pending')
      BY <1>1, <3>1, NoSendsAppend DEF BufferRest
    <3>2. ASSUME NEW n \in 1..Len(msg), WriteSome(msg, pending, n) PROVE NoSends(pending')
      BY <1>1, <3>1, <3>2, NoSendsAppend DEF WriteSome
    <3> QED BY <1>1, <1>2, <2>1, <3>1, <3>2 DEF Send, SendInLoop
  <2> QED BY <2>1, <2>2 DEF SoloInv, HalfCloseAfterDrain, NoSends
<1>3. CASE Shutdown
  <2>1. ~shutWr /\ m_state = "kConnected" /\ m_state' = "kDisConnecting"
        /\ UNCHANGED <<resurrected, clobbered, pending, given, wire, broken>>
    BY <1>3 DEF Shutdown, SoloInv
  <2>2. (shutWr' /\ ~broken /\ ~clobbered) => wire = given
    <3> SUFFICES ASSUME shutWr', ~broken, ~clobbered PROVE wire = given
      OBVIOUS
    <3>1. ~IsWriting
      BY <1>3, <2>1 DEF Shutdown, ShutdownInLoop, SoloInv
    <3>2. m_outputBuffer = <<>> /\ wire \in Seq(Byte)
      BY <2>1, <3>1 DEF IInv, TypeOK, WriteInterest, SoloInv
    <3>3. ~dropped
      BY <2>1 DEF IInv, StreamInv, CanWrite
    <3> QED BY <3>2, <3>3, ConcatEmptySeq DEF IInv, StreamInv
  <2> QED BY <2>1, <2>2 DEF SoloInv, HalfCloseAfterDrain, NoSends
<1>4. CASE ForceClose
  <2>1. NoSends(pending')
    BY <1>1, <1>4, NoSendsAppend DEF ForceClose
  <2> QED BY <1>4, <2>1, SoloFrame DEF ForceClose
<1>5. CASE OwnerDestroys
  <2>1. NoSends(pending')
    BY <1>1, <1>5, NoSendsAppend DEF OwnerDestroys
  <2> QED BY <1>5, <2>1, SoloFrame DEF OwnerDestroys, SoloInv
<1> QED BY <1>2, <1>3, <1>4, <1>5 DEF LoopCall

LEMMA SoloStep ==
  ASSUME Foreign = {}, ~ShutsWhenWriting, IInv, SoloInv, [Next]_vars
  PROVE  SoloInv'
<1>1. CASE Polls \/ PeerCloses \/ PeerResets \/ UNCHANGED vars
  <2>1. /\ UNCHANGED <<m_state, pending, resurrected, given, wire, shutWr>>
        /\ broken => broken'
    BY <1>1 DEF Polls, Poll, PeerCloses, PeerResets
  <2>2. clobbered => clobbered'
    BY <1>1 DEF Polls, Poll, PeerCloses, PeerResets
  <2> QED BY <2>1, <2>2, SoloFrame DEF SoloInv, NoSends
<1> QED BY <1>1, SoloDispatched, SoloFunctor, SoloLoopCall DEF Next

\* When only the loop thread uses the connection, shutdown closes the write side
\* only after everything that was ever given is on the wire, unless the peer has
\* reset the connection, or a report of epoll has changed what isWriting tells.
THEOREM ShutdownNeverTruncates ==
  ASSUME Foreign = {}, ~ShutsWhenWriting
  PROVE  Spec => []HalfCloseAfterDrain
<1>1. Init => SoloInv
  <2> SUFFICES ASSUME Init PROVE SoloInv
    OBVIOUS
  <2>1. NoSends(pending)
    BY DEF Init, NoSends, Do
  <2> QED BY <2>1 DEF Init, SoloInv, HalfCloseAfterDrain
<1>2. IInv /\ SoloInv /\ [Next]_vars => SoloInv'
  BY SoloStep
<1>3. SoloInv => HalfCloseAfterDrain
  BY DEF SoloInv
<1> QED BY <1>1, <1>2, <1>3, Safety, PTL DEF Spec
=============================================================================
