---------------------------- MODULE TcpConnection ----------------------------
(***************************************************************************)
(* TcpConnection (src/XNet/TcpConnection.h, src/XNet/TcpConnection.cpp):   *)
(* one connection, driven by the thread of its EventLoop and used from     *)
(* that thread and from others.                                            *)
(*                                                                         *)
(* Loop thread: it polls, calls the handlers the events ask for one after  *)
(* the other, and runs the functors queued for it in order.  A handler     *)
(* runs to its end in one step: what it leaves to user code (the message   *)
(* and connection callbacks) comes last in it, or finds the connection     *)
(* disconnected and can do nothing, so a call made by a callback is a step *)
(* right after the handler.  Other threads: send, shutdown and forceClose  *)
(* read m_state first and act on it later, with no lock.                   *)
(*                                                                         *)
(* The channel and the poller are those of Channel.h and EPollPoller.cpp.  *)
(* Two lines of them defeat the rest: set_revents stores the report of     *)
(* epoll in m_events (Channel.h:42), and "index == kNew || kDeleted" is    *)
(* always true (EPollPoller.cpp:63), so that every call of updateChannel   *)
(* is an ADD.  `reading' says how these two lines are taken: as they are   *)
(* written, or as they are meant.  As they are written no handler is ever  *)
(* called; as they are meant the handlers run, and all that they do can    *)
(* go wrong too.  What is claimed below holds in both.                     *)
(*                                                                         *)
(* EventLoop.cpp and TcpServer.cpp are not in the repository: the queue of *)
(* functors and the owner, which destroys the connection when its close    *)
(* callback is called or when it likes, are modelled from their use.       *)
(***************************************************************************)
EXTENDS Integers, Sequences, SequencesExt, ChannelEvents

CONSTANTS
  Byte,             \* the bytes of the messages
  Message,          \* what callers send: non-empty sequences of bytes
  Foreign,          \* the threads other than the loop thread that use it
  HighWaterMark,    \* m_highWaterMark
  ShutsWhenWriting, \* which of the two bodies of shutdownInLoop is built:
                    \* that of line 289 (TRUE) or that of line 93 (FALSE)
  Readings,         \* the readings of Channel.h:42 and EPollPoller.cpp:63
  MaxCalls          \* bound: calls of send, shutdown and forceClose

ASSUME ConnectionAssumption ==
  /\ Message \subseteq Seq(Byte) \ {<<>>}
  /\ HighWaterMark \in Nat
  /\ ShutsWhenWriting \in BOOLEAN
  /\ Readings \subseteq {"written", "meant"}
  /\ MaxCalls \in Nat

VARIABLES
  m_state,         \* StateE
  reading,         \* how the two lines are read; never changes
  events,          \* m_events of the channel: what it asks to be polled for
  watched,         \* what epoll watches for it; {}: it is not registered
  removed,         \* the channel was removed from the poller
  m_outputBuffer,  \* bytes waiting for the socket
  shutWr,          \* SHUT_WR was done on the socket
  wire,            \* bytes the kernel took, in order
  broken,          \* the connection was reset: every write fails
  peerFin,         \* the peer has closed its side
  dispatch,        \* what the loop thread still has to call in the handler or the
                   \* functor it runs: handlers, or the end of connectEstablished
  pending,         \* functors queued in the loop
  owned,           \* the owner has not yet asked for the destruction
  fpc, fmsg,       \* each other thread: where it is, its message
  calls,           \* calls made so far
  given,           \* history: bytes given to sendInLoop while not disconnected
  dropped,         \* history: sendInLoop gave up a message on a fault
  downs, closes,   \* history: connection callbacks DOWN, close callbacks
  resurrected,     \* history: another thread overwrote kDisconnected
  clobbered        \* history: a report of epoll changed whether OUT is asked for

sockVars  == <<shutWr, wire>>
peerVars  == <<broken, peerFin>>
sendVars  == <<m_outputBuffer, given, dropped>>
cbVars    == <<downs, closes>>
stateVars == <<m_state, resurrected>>
interest  == <<events, watched>>
pollVars  == <<removed, clobbered, reading>>
chanVars  == <<interest, pollVars>>
callVars  == <<fpc, fmsg, calls>>

vars == <<stateVars, chanVars, sendVars, sockVars, peerVars, dispatch, pending, owned,
          callVars, cbVars>>

State == {"kDisconnected", "kConnecting", "kConnected", "kDisConnecting"}

\* A functor: the function and the message it is bound to, if any.
Functor == [op : {"connectEstablished", "connectDestroyed", "shutdownInLoop",
                  "forceCloseInLoop", "writeComplete", "highWaterMark"},
            msg : {<<>>}] \cup [op : {"sendInLoop"}, msg : Message]

\* What the loop thread may have to call.
Task == Handler \cup {"enableReading"}

Do(op)       == [op |-> op, msg |-> <<>>]
DoSend(msg)  == [op |-> "sendInLoop", msg |-> msg]

\* The owner has asked the loop for connectEstablished.
Init ==
  /\ m_state = "kConnecting" /\ events = kNoneEvent /\ watched = {} /\ removed = FALSE
  /\ reading \in Readings /\ clobbered = FALSE
  /\ m_outputBuffer = <<>> /\ given = <<>> /\ dropped = FALSE
  /\ shutWr = FALSE /\ wire = <<>>
  /\ broken = FALSE /\ peerFin = FALSE
  /\ dispatch = <<>> /\ pending = <<Do("connectEstablished")>> /\ owned = TRUE
  /\ fpc = [t \in Foreign |-> "idle"] /\ fmsg = [t \in Foreign |-> <<>>] /\ calls = 0
  /\ downs = 0 /\ closes = 0 /\ resurrected = FALSE
-----------------------------------------------------------------------------
(* The functions the handlers share.  `queue' is the queue of functors they *)
(* find; each determines pending'.                                          *)

IsWriting == kWriteEvent \subseteq events

\* The kernel takes bytes until the connection is reset or shut for writing.
CanWrite == ~broken /\ ~shutWr

\* Channel::update and updateChannel for the new events.  The channel may be refused,
\* by the poller or by epoll_ctl; as written, always when it is registered (EEXIST).
\* Only connectEstablished looks at the result.
UpdateChannel(asked) ==
  /\ events' = asked
  /\ \/ UNCHANGED watched
     \/ /\ ~removed
        /\ reading = "written" => watched = {}
        /\ watched' = IF watched # {} /\ asked = kNoneEvent THEN {}
                      ELSE asked \cup {"HUP", "ERR"}

\* Mutant: the state is not tested.
CloseAgain(queue) ==
  /\ m_state' = "kDisconnected" /\ UpdateChannel(kNoneEvent)
  /\ downs' = downs + 1 /\ closes' = closes + 1
  /\ owned' = FALSE
  /\ pending' = IF owned THEN Append(queue, Do("connectDestroyed")) ELSE queue

\* handleClose, with its two callbacks; the owner answers the close callback by
\* queueing connectDestroyed.
HandleClose(queue) ==
  IF m_state = "kDisconnected"
  THEN pending' = queue /\ UNCHANGED <<m_state, interest, owned, downs, closes>>
  ELSE /\ m_state' = "kDisconnected" /\ UpdateChannel(kNoneEvent)
       /\ downs' = downs + 1 /\ closes' = closes + 1
       /\ owned' = FALSE
       /\ pending' = IF owned THEN Append(queue, Do("connectDestroyed")) ELSE queue

\* Mutant: isWriting is not tested.
ShutdownAtOnce == shutWr' = TRUE

\* shutdownInLoop: the two definitions in the file test the opposite.
ShutdownInLoop == shutWr' = (shutWr \/ (IsWriting = ShutsWhenWriting))

\* if(!isWriting()) enableWriting(): the result is not looked at.
StartWriting == IF IsWriting THEN UNCHANGED interest
                             ELSE UpdateChannel(events \cup kWriteEvent)

\* Mutant: the mark is reported at every append above it.
MarkEveryAppend(rest, queue) ==
  /\ m_outputBuffer' = m_outputBuffer \o rest
  /\ StartWriting
  /\ pending' = IF Len(m_outputBuffer) + Len(rest) >= HighWaterMark
                THEN Append(queue, Do("highWaterMark")) ELSE queue

\* The rest of sendInLoop: what was not written is appended to the buffer.
BufferRest(rest, queue) ==
  LET oldlen == Len(m_outputBuffer)
      newlen == oldlen + Len(rest)
  IN /\ m_outputBuffer' = m_outputBuffer \o rest
     /\ StartWriting
     /\ pending' = IF newlen >= HighWaterMark /\ oldlen < HighWaterMark
                   THEN Append(queue, Do("highWaterMark")) ELSE queue

\* Mutant: after a partial write the whole message is appended (no "+nwrote").
WriteAndBufferAll(msg, queue, n) ==
  /\ CanWrite
  /\ wire' = wire \o SubSeq(msg, 1, n)
  /\ IF n = Len(msg)
     THEN /\ pending' = Append(queue, Do("writeComplete"))
          /\ UNCHANGED <<m_outputBuffer, interest>>
     ELSE BufferRest(msg, queue)
  /\ UNCHANGED dropped

\* Mutant: the write-complete callback after any write that took something.
CompleteOnPartial(msg, queue, n) ==
  /\ CanWrite
  /\ wire' = wire \o SubSeq(msg, 1, n)
  /\ IF n = Len(msg)
     THEN /\ pending' = Append(queue, Do("writeComplete"))
          /\ UNCHANGED <<m_outputBuffer, interest>>
     ELSE BufferRest(SubSeq(msg, n + 1, Len(msg)), Append(queue, Do("writeComplete")))
  /\ UNCHANGED dropped

\* The direct write of sendInLoop takes n bytes.
WriteSome(msg, queue, n) ==
  /\ CanWrite
  /\ wire' = wire \o SubSeq(msg, 1, n)
  /\ IF n = Len(msg)
     THEN /\ pending' = Append(queue, Do("writeComplete"))
          /\ UNCHANGED <<m_outputBuffer, interest>>
     ELSE BufferRest(SubSeq(msg, n + 1, Len(msg)), queue)
  /\ UNCHANGED dropped

\* Mutant: bytes that wait in the buffer are overtaken.
SendOvertakes(msg, queue) ==
  IF m_state = "kDisconnected"
  THEN pending' = queue /\ UNCHANGED <<sendVars, interest, wire>>
  ELSE /\ given' = given \o msg
       /\ \/ \E n \in 1..Len(msg) : WriteSome(msg, queue, n)
          \/ ~shutWr /\ BufferRest(msg, queue) /\ UNCHANGED <<wire, dropped>>
          \/ /\ ~CanWrite /\ dropped' = TRUE /\ pending' = queue
             /\ UNCHANGED <<m_outputBuffer, interest, wire>>

SendInLoop(msg, queue) ==
  IF m_state = "kDisconnected"
  THEN pending' = queue /\ UNCHANGED <<sendVars, interest, wire>>
  ELSE /\ given' = given \o msg
       /\ IF IsWriting \/ m_outputBuffer # <<>>
          THEN BufferRest(msg, queue) /\ UNCHANGED <<wire, dropped>>
          ELSE \/ \E n \in 1..Len(msg) : WriteSome(msg, queue, n)
               \/ \* EWOULDBLOCK, or an error that is only logged
                  ~shutWr /\ BufferRest(msg, queue) /\ UNCHANGED <<wire, dropped>>
               \/ \* EPIPE, ECONNRESET: faultError
                  /\ ~CanWrite /\ dropped' = TRUE /\ pending' = queue
                  /\ UNCHANGED <<m_outputBuffer, interest, wire>>
-----------------------------------------------------------------------------
(* The handlers, called by handleEvent in the order of dispatch, and the   *)
(* end of connectEstablished.                                              *)

Handling(h) == /\ dispatch # <<>> /\ Head(dispatch) = h
               /\ dispatch' = Tail(dispatch)

CloseHandler ==
  /\ Handling("handleClose") \/ Handling("handleError")
  /\ HandleClose(pending)
  /\ UNCHANGED <<resurrected, pollVars, sendVars, sockVars, peerVars, callVars>>

\* readFd returns the number of bytes read, which go to the user, 0 when the peer has
\* closed, or any error, also one that would pass: handleError ends in handleClose.
HandleRead ==
  /\ Handling("handleRead")
  /\ \/ UNCHANGED <<m_state, interest, pending, owned, downs, closes>>
     \/ HandleClose(pending)
  /\ UNCHANGED <<resurrected, pollVars, sendVars, sockVars, peerVars, callVars>>

\* Mutant: disableWriting is forgotten.
FlushKeepsWriting(n) ==
  /\ wire' = wire \o SubSeq(m_outputBuffer, 1, n)
  /\ m_outputBuffer' = SubSeq(m_outputBuffer, n + 1, Len(m_outputBuffer))
  /\ UNCHANGED <<m_state, interest, pending, shutWr, owned, downs, closes>>

\* The socket takes n bytes of the buffer.
Flush(n) ==
  /\ wire' = wire \o SubSeq(m_outputBuffer, 1, n)
  /\ m_outputBuffer' = SubSeq(m_outputBuffer, n + 1, Len(m_outputBuffer))
  /\ IF n = Len(m_outputBuffer)
     THEN /\ UpdateChannel(events \ kWriteEvent)
          /\ pending' = Append(pending, Do("writeComplete"))
          /\ shutWr' = (shutWr \/ (m_state = "kDisConnecting" /\ ~ShutsWhenWriting))
     ELSE UNCHANGED <<interest, pending, shutWr>>
  /\ UNCHANGED <<m_state, owned, downs, closes>>

HandleWrite ==
  /\ Handling("handleWrite")
  /\ IF IsWriting
     THEN \/ CanWrite /\ \E n \in 1..Len(m_outputBuffer) : Flush(n)
          \/ \* any error, also one that would pass
             HandleClose(pending) /\ UNCHANGED <<m_outputBuffer, sockVars>>
     ELSE UNCHANGED <<m_state, interest, pending, owned, downs, closes,
                      m_outputBuffer, sockVars>>
  /\ UNCHANGED <<resurrected, given, dropped, pollVars, peerVars, callVars>>

\* enableReading and the rest of connectEstablished: it may be refused.
EnableReading ==
  /\ Handling("enableReading")
  /\ \/ /\ UpdateChannel(events \cup kReadEvent) /\ watched' # {}
        /\ UNCHANGED <<m_state, pending, owned, downs, closes>>
     \/ HandleClose(pending)
  /\ UNCHANGED <<resurrected, pollVars, sendVars, sockVars, peerVars, callVars>>

\* epoll_wait reports some of what is watched.  As written, fillActiveChannels stores
\* the report in m_events, and handleEvent finds m_revents empty.
Poll(revents) ==
  /\ dispatch = <<>> /\ revents \subseteq watched
  /\ "ERR" \in revents => broken
  /\ "HUP" \in revents => broken \/ (shutWr /\ peerFin)
  /\ \/ /\ reading = "written" /\ events' = revents
        /\ clobbered' = (clobbered \/ IsWriting # ("OUT" \in revents))
        /\ UNCHANGED dispatch
     \/ /\ reading = "meant" /\ dispatch' = HandlersFor(revents)
        /\ UNCHANGED <<events, clobbered>>
  /\ UNCHANGED <<stateVars, watched, removed, reading, sendVars, sockVars, peerVars,
                 pending, owned, callVars, cbVars>>
-----------------------------------------------------------------------------
(* The functors, run by the loop thread in the order they were queued.     *)

Running(op) == /\ dispatch = <<>> /\ pending # <<>> /\ Head(pending).op = op
               /\ UNCHANGED <<peerVars, callVars>>

\* setState(kConnected), which other threads see before enableReading is called.
ConnectEstablished ==
  /\ Running("connectEstablished")
  /\ pending' = Tail(pending)
  /\ IF m_state = "kConnecting"
     THEN m_state' = "kConnected" /\ dispatch' = <<"enableReading">>
     ELSE UNCHANGED <<m_state, dispatch>>
  /\ UNCHANGED <<resurrected, chanVars, sendVars, sockVars, owned, cbVars>>

\* Channel::remove does nothing while the channel has events of interest.
ConnectDestroyed ==
  /\ Running("connectDestroyed")
  /\ pending' = Tail(pending)
  /\ IF m_state = "kConnected"
     THEN m_state' = "kDisconnected" /\ events' = kNoneEvent /\ downs' = downs + 1
     ELSE UNCHANGED <<m_state, events, downs>>
  /\ IF events' = kNoneEvent THEN removed' = TRUE /\ watched' = {}
                             ELSE UNCHANGED <<removed, watched>>
  /\ UNCHANGED <<resurrected, clobbered, reading, dispatch, sendVars, sockVars, owned,
                 closes>>

RunSend ==
  /\ Running("sendInLoop")
  /\ SendInLoop(Head(pending).msg, Tail(pending))
  /\ UNCHANGED <<stateVars, pollVars, dispatch, shutWr, owned, cbVars>>

RunShutdown ==
  /\ Running("shutdownInLoop") /\ ShutdownInLoop
  /\ pending' = Tail(pending)
  /\ UNCHANGED <<stateVars, chanVars, dispatch, sendVars, wire, owned, cbVars>>

\* Mutant: the state kDisConnecting, which forceClose has just set, is forgotten.
ForceCloseIfConnected ==
  /\ Running("forceCloseInLoop")
  /\ IF m_state = "kConnected"
     THEN HandleClose(Tail(pending))
     ELSE /\ pending' = Tail(pending)
          /\ UNCHANGED <<m_state, interest, owned, downs, closes>>
  /\ UNCHANGED <<resurrected, pollVars, dispatch, sendVars, sockVars>>

ForceCloseInLoop ==
  /\ Running("forceCloseInLoop")
  /\ IF m_state \in {"kConnected", "kDisConnecting"}
     THEN HandleClose(Tail(pending))
     ELSE /\ pending' = Tail(pending)
          /\ UNCHANGED <<m_state, interest, owned, downs, closes>>
  /\ UNCHANGED <<resurrected, pollVars, dispatch, sendVars, sockVars>>

\* The user's callbacks; what they call is a step of its own.
RunCallback ==
  /\ Running("writeComplete") \/ Running("highWaterMark")
  /\ pending' = Tail(pending)
  /\ UNCHANGED <<stateVars, chanVars, dispatch, sendVars, sockVars, owned, cbVars>>
-----------------------------------------------------------------------------
(* Calls made in the loop thread, from callbacks of this connection or of  *)
(* others: runInLoop runs the function at once.                            *)

NewCall == calls < MaxCalls /\ calls' = calls + 1

\* No user code runs before the end of connectEstablished.
LoopCalls == NewCall /\ dispatch # <<"enableReading">>

Send(msg) ==
  /\ LoopCalls /\ m_state = "kConnected"
  /\ SendInLoop(msg, pending)
  /\ UNCHANGED <<stateVars, pollVars, shutWr, peerVars, dispatch, owned, fpc, fmsg,
                 cbVars>>

Shutdown ==
  /\ LoopCalls /\ m_state = "kConnected"
  /\ m_state' = "kDisConnecting"
  /\ ShutdownInLoop
  /\ UNCHANGED <<resurrected, chanVars, sendVars, wire, peerVars, dispatch, pending,
                 owned, fpc, fmsg, cbVars>>

ForceClose ==
  /\ LoopCalls /\ m_state \in {"kConnected", "kDisConnecting"}
  /\ m_state' = "kDisConnecting"
  /\ pending' = Append(pending, Do("forceCloseInLoop"))
  /\ UNCHANGED <<resurrected, chanVars, sendVars, sockVars, peerVars, dispatch, owned,
                 fpc, fmsg, cbVars>>

\* The owner gives the connection up by itself.
OwnerDestroys ==
  /\ owned /\ owned' = FALSE
  /\ pending' = Append(pending, Do("connectDestroyed"))
  /\ UNCHANGED <<stateVars, chanVars, sendVars, sockVars, peerVars, dispatch, callVars,
                 cbVars>>
-----------------------------------------------------------------------------
(* Calls made in another thread: the test of m_state, then the rest.       *)

ForeignStep(t, from, to) == /\ fpc[t] = from /\ fpc' = [fpc EXCEPT ![t] = to]
                            /\ UNCHANGED <<chanVars, sendVars, sockVars, peerVars,
                                           dispatch, owned, cbVars>>

ForeignSend(t, msg) ==
  /\ ForeignStep(t, "idle", "send") /\ NewCall
  /\ m_state = "kConnected"
  /\ fmsg' = [fmsg EXCEPT ![t] = msg]
  /\ UNCHANGED <<stateVars, pending>>

ForeignQueueSend(t) ==
  /\ ForeignStep(t, "send", "idle")
  /\ pending' = Append(pending, DoSend(fmsg[t]))
  /\ fmsg' = [fmsg EXCEPT ![t] = <<>>]
  /\ UNCHANGED <<stateVars, calls>>

ForeignShutdown(t) ==
  /\ ForeignStep(t, "idle", "shutdown") /\ NewCall
  /\ m_state = "kConnected"
  /\ UNCHANGED <<stateVars, pending, fmsg>>

ForeignForceClose(t) ==
  /\ ForeignStep(t, "idle", "forceClose") /\ NewCall
  /\ m_state \in {"kConnected", "kDisConnecting"}
  /\ UNCHANGED <<stateVars, pending, fmsg>>

\* setState(kDisConnecting), whatever the state has become.
ForeignSetState(t) ==
  /\ \/ ForeignStep(t, "shutdown", "queueShutdown")
     \/ ForeignStep(t, "forceClose", "queueForceClose")
  /\ m_state' = "kDisConnecting"
  /\ resurrected' = (resurrected \/ m_state = "kDisconnected")
  /\ UNCHANGED <<pending, fmsg, calls>>

ForeignQueue(t) ==
  /\ \/ /\ ForeignStep(t, "queueShutdown", "idle")
        /\ pending' = Append(pending, Do("shutdownInLoop"))
     \/ /\ ForeignStep(t, "queueForceClose", "idle")
        /\ pending' = Append(pending, Do("forceCloseInLoop"))
  /\ UNCHANGED <<stateVars, fmsg, calls>>
-----------------------------------------------------------------------------
(* The peer.                                                               *)

PeerCloses == /\ ~peerFin /\ peerFin' = TRUE
              /\ UNCHANGED <<stateVars, chanVars, sendVars, sockVars, broken, dispatch,
                             pending, owned, callVars, cbVars>>

PeerResets == /\ ~broken /\ broken' = TRUE
              /\ UNCHANGED <<stateVars, chanVars, sendVars, sockVars, peerFin, dispatch,
                             pending, owned, callVars, cbVars>>
-----------------------------------------------------------------------------
Dispatched == CloseHandler \/ HandleRead \/ HandleWrite \/ EnableReading

RunFunctor == \/ ConnectEstablished \/ ConnectDestroyed \/ RunSend \/ RunShutdown
              \/ ForceCloseInLoop \/ RunCallback

LoopCall == (\E msg \in Message : Send(msg)) \/ Shutdown \/ ForceClose \/ OwnerDestroys

ForeignBegin(t) == \/ \E msg \in Message : ForeignSend(t, msg)
                   \/ ForeignShutdown(t) \/ ForeignForceClose(t)

ForeignEnd(t) == ForeignQueueSend(t) \/ ForeignSetState(t) \/ ForeignQueue(t)

Polls == \E revents \in (SUBSET Event) \ {{}} : Poll(revents)

Next == \/ Polls \/ Dispatched \/ RunFunctor \/ LoopCall
        \/ \E t \in Foreign : ForeignBegin(t) \/ ForeignEnd(t)
        \/ PeerCloses \/ PeerResets

Spec == Init /\ [][Next]_vars

\* The loop goes on: it calls the handlers it has to call and runs the functors at
\* every turn.  A call that has begun ends.
Fairness == /\ WF_vars(Dispatched)
            /\ SF_vars(RunFunctor)
            /\ \A t \in Foreign : WF_vars(ForeignEnd(t))

FairSpec == Spec /\ Fairness
-----------------------------------------------------------------------------
(* Properties.                                                             *)

TypeOK ==
  /\ m_state \in State
  /\ reading \in Readings /\ removed \in BOOLEAN /\ clobbered \in BOOLEAN
  /\ events \in SUBSET Event /\ watched \in SUBSET Event
  /\ m_outputBuffer \in Seq(Byte) /\ given \in Seq(Byte) /\ wire \in Seq(Byte)
  /\ dropped \in BOOLEAN /\ shutWr \in BOOLEAN
  /\ broken \in BOOLEAN /\ peerFin \in BOOLEAN
  /\ dispatch \in Seq(Task) /\ pending \in Seq(Functor) /\ owned \in BOOLEAN
  /\ fpc \in [Foreign -> {"idle", "send", "shutdown", "forceClose", "queueShutdown",
                          "queueForceClose"}]
  /\ fmsg \in [Foreign -> Message \cup {<<>>}]
  /\ \A t \in Foreign : fpc[t] = "send" => fmsg[t] \in Message
  /\ calls \in 0..MaxCalls
  /\ downs \in Nat /\ closes \in Nat /\ resurrected \in BOOLEAN

\* What the socket took is a prefix of what sendInLoop was given, in that order;
\* unless a message was given up on a fault, the rest is exactly the output
\* buffer.  Direct writes, partial writes and handleWrite never leave a hole.
StreamIntact == /\ IsPrefix(wire, given)
                /\ ~dropped => given = wire \o m_outputBuffer

\* The connection is an ordered stream of bytes: what callers gave comes out in that
\* order, and nothing does once the connection is reset or shut for writing.
Stream == INSTANCE ByteStream WITH accepted <- given, delivered <- wire,
                                   open <- CanWrite
ImplementsStream == Stream!SSpec

\* Until the connection is disconnected the channel asks for writability exactly when
\* there is something to write, unless a report of epoll has overwritten what it asks.
WriteInterest == (m_state # "kDisconnected" /\ ~resurrected /\ ~clobbered) =>
                   (IsWriting <=> m_outputBuffer # <<>>)

\* The end is reported exactly once, whatever the order of HUP, ERR, errors of
\* read and write, forceClose and connectDestroyed, as long as no other thread
\* has set kDisConnecting over kDisconnected.
DownExactlyOnce ==
  ~resurrected => /\ downs = IF m_state = "kDisconnected" THEN 1 ELSE 0
                  /\ closes <= downs

\* A half close leaves no bytes behind: whatever the threads do, the write side is shut
\* only when the output buffer is empty, and nothing is put into it afterwards; unless
\* a report of epoll has hidden from shutdownInLoop that there are bytes to write.
HalfCloseLosesNothing ==
  (shutWr /\ m_state # "kDisconnected" /\ ~resurrected /\ ~clobbered) =>
    m_outputBuffer = <<>>

\* The comment at TcpConnection.cpp:201-203: handleClose tests the state so that
\* a connection is not closed twice.
CloseOnce == closes <= 1

\* How many times a functor is in a queue.
Count(op, queue) == Cardinality({i \in 1..Len(queue) : queue[i].op = op})

\* TcpConnection.h:45: the write-complete callback is for data sent with success;
\* it is queued only when nothing is left to write.
WriteCompleteMeansWritten ==
  [][Count("writeComplete", pending') > Count("writeComplete", pending) =>
       m_outputBuffer' = <<>> /\ (dropped \/ wire' = given')]_vars

\* TcpConnection.cpp:277: the high water mark is reported when the buffer crosses it,
\* and not again while it stays above.
HighWaterOnCrossing ==
  [][Count("highWaterMark", pending') > Count("highWaterMark", pending)
       <=> (Len(m_outputBuffer) < HighWaterMark /\ Len(m_outputBuffer') >= HighWaterMark)]_vars

\* forceClose ends the connection.
ForceCloseCloses ==
  (\E i \in 1..Len(pending) : pending[i].op = "forceCloseInLoop")
    ~> m_state = "kDisconnected"
=============================================================================
