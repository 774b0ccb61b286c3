---------------------------- MODULE ReactorProofs ----------------------------
(***************************************************************************)
(* Proofs about Reactor, for any connections, however many of them get the *)
(* same descriptor number one after another.                               *)
(*                                                                         *)
(* Every step of the reactor is a step of EPollPoller or leaves it alone   *)
(* (PollerStep), so what EPollPollerProofs proves of the poller holds      *)
(* here.  Two invariants are added to it.  QInv says how the functors that *)
(* wait go with the life of their connection: a connection that is still   *)
(* kConnecting has its connectEstablished waiting, before its              *)
(* connectDestroyed, and a thread in a call keeps its connection alive.    *)
(* PInv says, connection by connection, what the poller has of it: nothing *)
(* until connectEstablished calls enableReading, its registration and its  *)
(* entry while it is connected, and after it was released nothing unless   *)
(* it is late or unfinished.  A connection that was refused stays out      *)
(* because the entry it was refused for stays (Stale), so that closing it  *)
(* again, after a thread stored kDisConnecting over kDisconnected, cannot  *)
(* put it into the map.                                                    *)
(***************************************************************************)
EXTENDS Reactor, EPollPollerProofs

Live    == {"owned", "disowned", "released"}
Over    == {"released", "destroyed"}
Closing == {"kDisConnecting", "kDisconnected"}

\* The connections, the functors and the turn have their types.
QType ==
  /\ m_state \in [Channel -> State]
  /\ life \in [Channel -> Life]
  /\ pendingFunctors \in Seq(Functors)
  /\ phase \in {"poll", "handle", "functors"}
  /\ todo \in 0..Len(pendingFunctors)
  /\ call \in [Thread -> Calls \cup {NoCall}]
  /\ late \subseteq Channel /\ unfinished \subseteq Channel /\ resurrected \subseteq Channel

\* A functor keeps its connection alive, and so does a call.
FunctorsLive ==
  \A i \in 1..Len(pendingFunctors) : life[pendingFunctors[i].conn] \in Live

CallsLive ==
  \A t \in Thread : call[t] # NoCall => /\ life[call[t].conn] \in Live
                                        /\ m_state[call[t].conn] # "kConnecting"

RemoveIsLate ==
  \A i \in 1..Len(pendingFunctors) :
    pendingFunctors[i].op = "remove" => m_state[pendingFunctors[i].conn] \in Closing

\* Only the functor that is running is in the middle of connectEstablished.
EnablingFirst ==
  \A i \in 1..Len(pendingFunctors) :
    pendingFunctors[i].op = "enableReading" =>
      /\ i = 1 /\ phase = "functors" /\ todo > 0
      /\ m_state[pendingFunctors[i].conn] \in {"kConnected", "kDisConnecting"}
      /\ life[pendingFunctors[i].conn] \in {"owned", "disowned"}

EstablishWaits ==
  \A c \in Channel :
    (m_state[c] = "kConnecting" /\ life[c] \in {"owned", "disowned"}) =>
      \E j \in 1..Len(pendingFunctors) :
        pendingFunctors[j] = Functor("connectEstablished", c)

EstablishFirst ==
  \A c \in Channel, i \in 1..Len(pendingFunctors) :
    (m_state[c] = "kConnecting" /\ pendingFunctors[i] = Functor("connectDestroyed", c)) =>
      \E j \in 1..Len(pendingFunctors) :
        j < i /\ pendingFunctors[j] = Functor("connectEstablished", c)

\* The ends of a life.
LifeAndState ==
  \A c \in Channel : /\ life[c] = "unborn" => m_state[c] = "kConnecting"
                     /\ life[c] \in Over => m_state[c] \in Closing
                     /\ c \in resurrected => m_state[c] \in Closing

\* A descriptor has one connection at a time.
OneOwner ==
  \A c1, c2 \in Channel :
    (c1 # c2 /\ fd[c1] = fd[c2]) =>
      life[c1] \in {"unborn", "destroyed"} \/ life[c2] \in {"unborn", "destroyed"}

QInv == /\ QType /\ FunctorsLive /\ CallsLive /\ RemoveIsLate
        /\ EstablishWaits /\ EstablishFirst /\ EnablingFirst /\ LifeAndState /\ OneOwner

Alive(c) == /\ m_state[c] \in {"kConnected", "kDisConnecting"}
            /\ life[c] # "destroyed" /\ ~Establishing(c) /\ c \notin resurrected

\* connectEstablished has not called enableReading yet.
Unregistered(c) == m_state[c] = "kConnecting" \/ Establishing(c)

Bound(c) ==
  /\ Unregistered(c) => m_index[c] = kNew /\ m_events[c] = {}
  /\ Alive(c) => /\ m_events[c] # {}
                 /\ kernel[fd[c]] = [ch |-> c, events |-> kReadEvent]
                 /\ m_channels[fd[c]] = c
  /\ m_state[c] = "kDisconnected" /\ m_events[c] # {} => c \in late
  /\ life[c] \in Over /\ m_state[c] = "kDisConnecting" => c \in unfinished \cup resurrected
  /\ life[c] \in Over /\ m_channels[fd[c]] = c => c \in late \cup unfinished
  /\ m_index[c] = kNew /\ ~Unregistered(c) => Stale(fd[c])

PInv == \A c \in Channel : Bound(c)
-----------------------------------------------------------------------------
(* The reactor implements the poller's clients.                            *)

LEMMA PollerStep == [ReactorNext]_reactorVars => [Next]_vars
<1> SUFFICES ASSUME [ReactorNext]_reactorVars PROVE [Next]_vars
  OBVIOUS
<1>1. ASSUME NEW c \in Channel, Open(c) \/ GiveUp(c) \/ \E t \in Thread : InCall(t, c)
      PROVE  UNCHANGED vars
  BY <1>1 DEF Open, GiveUp, InCall, Shutdown, ForceClose, Enter, StoreState,
              QueueForceClose
<1>2. ASSUME NEW c \in Channel, Destroy(c) PROVE [Next]_vars
  BY <1>2, PollerAssumption DEF Destroy, Next
<1>3. ASSUME NEW c \in Channel, HandleClose(c) PROVE [Next]_vars
  BY <1>3 DEF HandleClose, Next, ChannelOp
<1>4. ASSUME NEW c \in Channel, Released(c) PROVE [Next]_vars
  BY <1>4 DEF Released, RemoveIfQuiet, Next, ChannelOp
<1>5. ASSUME NEW c \in Channel, RunFunctor(c) PROVE [Next]_vars
  <2>1. CASE ConnectEstablished(c) \/ EnableAfterSetState(c)
    BY <2>1, <1>3 DEF ConnectEstablished, EnableAfterSetState, Establish,
                      EnableReadingSucceeds, Next, ChannelOp
  <2>2. CASE ForceCloseInLoop(c)
    BY <2>2, <1>3 DEF ForceCloseInLoop
  <2>3. CASE ConnectDestroyed(c)
    BY <2>3, <1>4 DEF ConnectDestroyed, Next, ChannelOp
  <2>4. CASE RemoveAfterCallback(c)
    BY <2>4, <1>4 DEF RemoveAfterCallback
  <2> QED BY <1>5, <2>1, <2>2, <2>3, <2>4 DEF RunFunctor
<1>6. ASSUME NEW batch \in Batches, PollReports(batch) PROVE [Next]_vars
  BY <1>6 DEF PollReports, Next
<1>7. ASSUME PollTimesOut \/ HandleActive \/ TakeFunctors \/ EndTurn PROVE [Next]_vars
  BY <1>7 DEF PollTimesOut, HandleActive, TakeFunctors, EndTurn, Next
<1>8. CASE UNCHANGED reactorVars
  BY <1>8 DEF reactorVars
<1> QED BY <1>1, <1>2, <1>5, <1>6, <1>7, <1>8 DEF ReactorNext, LoopStep

\* The connections use the poller only through its channels' operations: a step of
\* the reactor is a step of EPollPoller or leaves it alone.
THEOREM ReactorUsesThePoller == ReactorSpec => UsesThePoller
<1>1. ReactorInit => Init
  BY DEF ReactorInit
<1> QED BY <1>1, PollerStep, PTL DEF ReactorSpec, UsesThePoller
-----------------------------------------------------------------------------
(* The functors that wait and the lives of their connections.              *)

\* Taking the first functor away and putting others behind.
LEMMA TailThenQueued ==
  ASSUME NEW S, NEW s \in Seq(S), s # <<>>, NEW q \in Seq(S)
  PROVE  /\ Tail(s) \o q \in Seq(S)
         /\ Len(Tail(s) \o q) = Len(s) - 1 + Len(q)
         /\ \A i \in 1..Len(s) - 1 : (Tail(s) \o q)[i] = s[i + 1]
         /\ \A i \in 1..Len(q) : (Tail(s) \o q)[Len(s) - 1 + i] = q[i]
OBVIOUS

LEMMA HeadReplaced ==
  ASSUME NEW S, NEW s \in Seq(S), s # <<>>, NEW f \in S
  PROVE  /\ <<f>> \o Tail(s) \in Seq(S)
         /\ Len(<<f>> \o Tail(s)) = Len(s)
         /\ (<<f>> \o Tail(s))[1] = f
         /\ \A i \in 2..Len(s) : (<<f>> \o Tail(s))[i] = s[i]
OBVIOUS

LEMMA Behind ==
  ASSUME NEW S, NEW s \in Seq(S), NEW f \in S
  PROVE  /\ Append(s, f) \in Seq(S)
         /\ Len(Append(s, f)) = Len(s) + 1
         /\ \A i \in 1..Len(s) : Append(s, f)[i] = s[i]
         /\ Append(s, f)[Len(s) + 1] = f
OBVIOUS

LEMMA FunctorType ==
  ASSUME NEW op \in Op, NEW c \in Channel
  PROVE  /\ Functor(op, c) \in Functors
         /\ Functor(op, c).op = op /\ Functor(op, c).conn = c
BY DEF Functor, Functors

LEMMA FunctorsDiffer ==
  ASSUME NEW o1, NEW o2, NEW x1, NEW x2, Functor(o1, x1) = Functor(o2, x2)
  PROVE  o1 = o2 /\ x1 = x2
<1>1. /\ Functor(o1, x1).op = o1 /\ Functor(o1, x1).conn = x1
      /\ Functor(o2, x2).op = o2 /\ Functor(o2, x2).conn = x2
  BY DEF Functor
<1> QED BY <1>1

\* What one functor of c may do to the states and lives: c's only, and never back.
MovesOn(c) ==
  /\ m_state' \in [Channel -> State] /\ life' \in [Channel -> Life]
  /\ \A x \in Channel : x # c => m_state'[x] = m_state[x] /\ life'[x] = life[x]
  /\ m_state[c] \in Closing => m_state'[c] \in Closing
  /\ m_state[c] # "kConnecting" => m_state'[c] # "kConnecting"
  /\ life[c] # "unborn" => life'[c] # "unborn"

LEMMA CallsMoveOn ==
  ASSUME QInv, NEW c \in Channel, MovesOn(c), UNCHANGED call,
         life[c] \in Live => life'[c] \in Live
  PROVE  CallsLive'
<1> SUFFICES ASSUME NEW t \in Thread, call[t] # NoCall
             PROVE  /\ life'[call[t].conn] \in Live
                    /\ m_state'[call[t].conn] # "kConnecting"
  BY DEF CallsLive
<1>1. call[t] \in Calls
  BY DEF QInv, QType
<1>2. PICK x \in Channel : x = call[t].conn
  BY <1>1 DEF Calls
<1>3. life[x] \in Live /\ m_state[x] # "kConnecting"
  BY <1>2 DEF QInv, CallsLive
<1> QED BY <1>2, <1>3 DEF MovesOn

\* A functor is queued by a thread: for a connection its owner has.
LEMMA Queueing ==
  ASSUME QInv, NEW c \in Channel, NEW op \in Op,
         pendingFunctors' = Append(pendingFunctors, Functor(op, c)),
         MovesOn(c), UNCHANGED <<m_state, phase, todo, late, unfinished, resurrected>>,
         call' \in [Thread -> Calls \cup {NoCall}], CallsLive',
         life'[c] \in Live,
         life[c] = "unborn" => /\ op = "connectEstablished"
                               /\ \A x \in Channel \ {c} : fd[x] = fd[c] =>
                                    life[x] \in {"unborn", "destroyed"},
         life[c] # "unborn" => life[c] \in Live,
         life[c] \in {"unborn", "owned"} => life'[c] \in {"owned", "disowned"},
         life[c] \in {"disowned", "released"} => life'[c] = life[c],
         op = "connectDestroyed" => life[c] = "owned",
         op \notin {"remove", "enableReading"}
  PROVE  QInv'
<1> USE DEF QInv, QType
<1> DEFINE n == Len(pendingFunctors)
<1>1. /\ n \in Nat /\ n + 1 \in 1..n + 1
      /\ \A i \in 1..n + 1 : i \in 1..n \/ i = n + 1
  OBVIOUS
<1>2. /\ pendingFunctors' \in Seq(Functors)
      /\ Len(pendingFunctors') = n + 1
      /\ \A i \in 1..n : pendingFunctors'[i] = pendingFunctors[i]
      /\ pendingFunctors'[n + 1] = Functor(op, c)
  BY Behind, FunctorType
<1>3. \A i \in 1..n : pendingFunctors[i] \in Functors
  OBVIOUS
<1>4. \A i \in 1..n : pendingFunctors[i].conn \in Channel
  BY <1>3 DEF Functors
<1>5. QType'
  BY <1>1, <1>2 DEF MovesOn
<1> HIDE DEF n
<1>6. FunctorsLive'
  <2> SUFFICES ASSUME NEW i \in 1..n + 1
               PROVE  life'[pendingFunctors'[i].conn] \in Live
    BY <1>2 DEF FunctorsLive
  <2>1. CASE i \in 1..n
    <3>1. PICK x \in Channel : x = pendingFunctors[i].conn /\ x = pendingFunctors'[i].conn
      BY <2>1, <1>2, <1>4
    <3>2. life[x] \in Live
      BY <2>1, <3>1 DEF FunctorsLive, n
    <3> QED BY <3>1, <3>2 DEF MovesOn
  <2>2. CASE i = n + 1
    BY <2>2, <1>2, FunctorType
  <2> QED BY <1>1, <2>1, <2>2
<1>7. RemoveIsLate'
  <2> SUFFICES ASSUME NEW i \in 1..n + 1, pendingFunctors'[i].op = "remove"
               PROVE  m_state'[pendingFunctors'[i].conn] \in Closing
    BY <1>2 DEF RemoveIsLate
  <2>1. CASE i \in 1..n
    <3>1. PICK x \in Channel : x = pendingFunctors[i].conn /\ x = pendingFunctors'[i].conn
      BY <2>1, <1>2, <1>4
    <3>2. m_state[x] \in Closing
      BY <2>1, <1>2, <3>1 DEF RemoveIsLate, n
    <3> QED BY <3>1, <3>2 DEF MovesOn
  <2>2. CASE i = n + 1
    BY <2>2, <1>2, FunctorType
  <2> QED BY <1>1, <2>1, <2>2
<1>8. EstablishWaits'
  <2> SUFFICES ASSUME NEW x \in Channel, m_state'[x] = "kConnecting",
                      life'[x] \in {"owned", "disowned"}
               PROVE  \E j \in 1..n + 1 :
                        pendingFunctors'[j] = Functor("connectEstablished", x)
    BY <1>2 DEF EstablishWaits
  <2>1. CASE life[c] = "unborn" /\ x = c
    BY <2>1, <1>1, <1>2
  <2>2. CASE ~(life[c] = "unborn" /\ x = c)
    <3>1. m_state[x] = "kConnecting" /\ life[x] \in {"owned", "disowned"}
      BY <2>2 DEF MovesOn, Live
    <3>2. PICK j \in 1..n : pendingFunctors[j] = Functor("connectEstablished", x)
      BY <3>1 DEF EstablishWaits, n
    <3> QED BY <1>1, <1>2, <3>2
  <2> QED BY <2>1, <2>2
<1>9. EstablishFirst'
  <2> SUFFICES ASSUME NEW x \in Channel, NEW i \in 1..n + 1,
                      m_state'[x] = "kConnecting",
                      pendingFunctors'[i] = Functor("connectDestroyed", x)
               PROVE  \E j \in 1..n + 1 :
                        j < i /\ pendingFunctors'[j] = Functor("connectEstablished", x)
    BY <1>2 DEF EstablishFirst
  <2>1. m_state[x] = "kConnecting"
    BY DEF MovesOn
  <2>2. CASE i \in 1..n
    <3>1. PICK j \in 1..n : j < i /\ pendingFunctors[j] = Functor("connectEstablished", x)
      BY <2>1, <2>2, <1>2 DEF EstablishFirst, n
    <3> QED BY <3>1, <1>1, <1>2
  <2>3. CASE i = n + 1
    <3>1. op = "connectDestroyed" /\ x = c
      BY <2>3, <1>2, FunctorsDiffer
    <3>2. life[x] \in {"owned", "disowned"}
      BY <3>1
    <3>3. PICK j \in 1..n : pendingFunctors[j] = Functor("connectEstablished", x)
      BY <2>1, <3>2 DEF EstablishWaits, n
    <3>4. j \in 1..n + 1 /\ j < i /\ pendingFunctors'[j] = pendingFunctors[j]
      BY <2>3, <1>1, <1>2
    <3> QED BY <3>3, <3>4
  <2> QED BY <1>1, <2>2, <2>3
<1>10. LifeAndState'
  BY DEF LifeAndState, MovesOn, Over, Live
<1>11. OneOwner'
  <2> SUFFICES ASSUME NEW x \in Channel, NEW y \in Channel, x # y, fd[x] = fd[y]
               PROVE  life'[x] \in {"unborn", "destroyed"} \/ life'[y] \in {"unborn", "destroyed"}
    BY DEF OneOwner
  <2>1. CASE life[c] = "unborn"
    BY <2>1 DEF OneOwner, MovesOn
  <2>2. CASE life[c] # "unborn"
    BY <2>2 DEF OneOwner, MovesOn, Live
  <2> QED BY <2>1, <2>2
<1>12. EnablingFirst'
  <2> SUFFICES ASSUME NEW i \in 1..n + 1, pendingFunctors'[i].op = "enableReading"
               PROVE  /\ i = 1 /\ phase = "functors" /\ todo > 0
                      /\ m_state[pendingFunctors'[i].conn] \in {"kConnected", "kDisConnecting"}
                      /\ life'[pendingFunctors'[i].conn] \in {"owned", "disowned"}
    BY <1>2 DEF EnablingFirst
  <2>1. i # n + 1
    BY <1>2, FunctorType
  <2>2. i \in 1..n
    BY <2>1, <1>1
  <2>3. PICK x \in Channel : x = pendingFunctors[i].conn /\ x = pendingFunctors'[i].conn
    BY <2>2, <1>2, <1>4
  <2>4. /\ i = 1 /\ phase = "functors" /\ todo > 0
        /\ m_state[x] \in {"kConnected", "kDisConnecting"}
        /\ life[x] \in {"owned", "disowned"}
    BY <2>2, <2>3, <1>2 DEF EnablingFirst, n
  <2>5. life'[x] \in {"owned", "disowned"}
    BY <2>4 DEF MovesOn
  <2> QED BY <2>3, <2>4, <2>5
<1> QED BY <1>5, <1>6, <1>7, <1>8, <1>9, <1>10, <1>11, <1>12

\* A functor of c has run, and may have left connectDestroyed behind.
LEMMA Finishing ==
  ASSUME QInv, NEW c \in Channel, NEW op \in Op, todo > 0,
         Head(pendingFunctors) = Functor(op, c),
         MovesOn(c), UNCHANGED <<phase, call, late, resurrected>>,
         unfinished' \subseteq Channel,
         life'[c] \in Live,
         life[c] = "released" => life'[c] = "released",
         life'[c] = "released" => m_state'[c] \in Closing,
         op = "connectEstablished" => m_state'[c] # "kConnecting",
         NEW q \in {<<>>, <<Functor("connectDestroyed", c)>>}, Done(q),
         q # <<>> => m_state'[c] # "kConnecting"
  PROVE  QInv'
<1> USE DEF QInv, QType
<1> DEFINE n == Len(pendingFunctors)
           cd == Functor("connectDestroyed", c)
<1>1. cd \in Functors
  BY FunctorType DEF Op
<1>2. /\ q \in Seq(Functors) /\ Len(q) \in {0, 1}
      /\ Len(q) = 1 => q[1] = cd /\ m_state'[c] # "kConnecting"
  <2>1. CASE q = <<>>
    BY <2>1
  <2>2. CASE q = <<cd>>
    BY <2>2, <1>1
  <2> QED BY <2>1, <2>2
<1>3. /\ n \in Nat /\ n > 0 /\ pendingFunctors # <<>> /\ 1 \in 1..n
      /\ pendingFunctors[1] = Functor(op, c)
  OBVIOUS
<1>4. /\ pendingFunctors' \in Seq(Functors)
      /\ Len(pendingFunctors') = n - 1 + Len(q)
      /\ \A i \in 1..n - 1 : pendingFunctors'[i] = pendingFunctors[i + 1]
      /\ \A i \in 1..Len(q) : pendingFunctors'[n - 1 + i] = q[i]
  <2>1. pendingFunctors' = Tail(pendingFunctors) \o q
    BY DEF Done
  <2> QED BY <2>1, <1>2, <1>3, TailThenQueued
<1>5. \A i \in 1..n : pendingFunctors[i].conn \in Channel
  <2>1. \A i \in 1..n : pendingFunctors[i] \in Functors
    OBVIOUS
  <2> QED BY <2>1 DEF Functors
<1>6. QType'
  BY <1>1, <1>2, <1>3, <1>4 DEF MovesOn, Done
\* A functor that waits now waited behind the first, or is the one left behind.
<1>7. ASSUME NEW i \in 1..Len(pendingFunctors')
      PROVE  \/ /\ i \in 1..n - 1 /\ i + 1 \in 1..n
                /\ pendingFunctors'[i] = pendingFunctors[i + 1]
             \/ pendingFunctors'[i] = cd /\ m_state'[c] # "kConnecting"
  <2>1. CASE i \in 1..n - 1
    BY <2>1, <1>3, <1>4
  <2>2. CASE i \notin 1..n - 1
    <3> DEFINE l == Len(q)
    <3> HIDE DEF n, l
    <3>2. n \in Nat /\ n > 0 /\ l \in {0, 1} /\ i \in 1..n - 1 + l
      BY <1>2, <1>3, <1>4 DEF l
    <3>3. l = 1 /\ i = n - 1 + 1
      BY <3>2, <2>2
    <3>1. Len(q) = 1 /\ i = n - 1 + 1
      BY <3>3 DEF l
    <3> QED BY <3>1, <1>2, <1>4
  <2> QED BY <2>1, <2>2
\* A functor of a connection that is still connecting stays, one place further.
<1>8. ASSUME NEW x \in Channel, NEW j \in 1..n, m_state'[x] = "kConnecting",
             pendingFunctors[j] = Functor("connectEstablished", x)
      PROVE  /\ j - 1 \in 1..Len(pendingFunctors')
             /\ pendingFunctors'[j - 1] = Functor("connectEstablished", x)
  <2>1. j # 1
    <3> SUFFICES ASSUME j = 1 PROVE FALSE
      OBVIOUS
    <3> QED BY <1>3, <1>8, FunctorsDiffer
  <2>2. j - 1 \in 1..n - 1 /\ (j - 1) + 1 = j
    BY <2>1, <1>3
  <2>3. j - 1 \in 1..Len(pendingFunctors')
    BY <2>2, <1>2, <1>3, <1>4
  <2>4. pendingFunctors'[j - 1] = pendingFunctors[(j - 1) + 1]
    BY <2>2, <1>4
  <2> QED BY <2>2, <2>3, <2>4, <1>8
<1>9. life[c] \in Live
  BY <1>3, FunctorType DEF FunctorsLive
<1> HIDE DEF n, cd
<1>10. FunctorsLive'
  <2> SUFFICES ASSUME NEW i \in 1..Len(pendingFunctors')
               PROVE  life'[pendingFunctors'[i].conn] \in Live
    BY DEF FunctorsLive
  <2>1. CASE pendingFunctors'[i] = cd
    BY <2>1, FunctorType DEF cd, Op
  <2>2. CASE i + 1 \in 1..n /\ pendingFunctors'[i] = pendingFunctors[i + 1]
    <3>1. PICK x \in Channel : x = pendingFunctors[i + 1].conn /\ x = pendingFunctors'[i].conn
      BY <2>2, <1>5
    <3>2. life[x] \in Live
      BY <2>2, <3>1 DEF FunctorsLive, n
    <3> QED BY <3>1, <3>2 DEF MovesOn
  <2> QED BY <1>7, <2>1, <2>2
<1>11. RemoveIsLate'
  <2> SUFFICES ASSUME NEW i \in 1..Len(pendingFunctors'), pendingFunctors'[i].op = "remove"
               PROVE  m_state'[pendingFunctors'[i].conn] \in Closing
    BY DEF RemoveIsLate
  <2>1. CASE pendingFunctors'[i] = cd
    BY <2>1, FunctorType DEF cd, Op
  <2>2. CASE i + 1 \in 1..n /\ pendingFunctors'[i] = pendingFunctors[i + 1]
    <3>1. PICK x \in Channel : x = pendingFunctors[i + 1].conn /\ x = pendingFunctors'[i].conn
      BY <2>2, <1>5
    <3>2. m_state[x] \in Closing
      BY <2>2, <3>1 DEF RemoveIsLate, n
    <3> QED BY <3>1, <3>2 DEF MovesOn
  <2> QED BY <1>7, <2>1, <2>2
<1>12. EstablishWaits'
  <2> SUFFICES ASSUME NEW x \in Channel, m_state'[x] = "kConnecting",
                      life'[x] \in {"owned", "disowned"}
               PROVE  \E j \in 1..Len(pendingFunctors') :
                        pendingFunctors'[j] = Functor("connectEstablished", x)
    BY DEF EstablishWaits
  <2>1. m_state[x] = "kConnecting" /\ life[x] \in {"owned", "disowned"}
    BY <1>9 DEF MovesOn, Live
  <2>2. PICK j \in 1..n : pendingFunctors[j] = Functor("connectEstablished", x)
    BY <2>1 DEF EstablishWaits, n
  <2> QED BY <2>2, <1>8
<1>13. EstablishFirst'
  <2> SUFFICES ASSUME NEW x \in Channel, NEW i \in 1..Len(pendingFunctors'),
                      m_state'[x] = "kConnecting",
                      pendingFunctors'[i] = Functor("connectDestroyed", x)
               PROVE  \E j \in 1..Len(pendingFunctors') :
                        j < i /\ pendingFunctors'[j] = Functor("connectEstablished", x)
    BY DEF EstablishFirst
  <2>1. m_state[x] = "kConnecting"
    BY DEF MovesOn
  <2>2. i + 1 \in 1..n /\ pendingFunctors'[i] = pendingFunctors[i + 1]
    <3>1. CASE pendingFunctors'[i] = cd /\ m_state'[c] # "kConnecting"
      BY <3>1, FunctorsDiffer DEF cd
    <3> QED BY <3>1, <1>7
  <2>3. PICK j \in 1..n : j < i + 1 /\ pendingFunctors[j] = Functor("connectEstablished", x)
    BY <2>1, <2>2 DEF EstablishFirst, n
  <2>4. j - 1 \in 1..Len(pendingFunctors') /\ j - 1 < i
        /\ pendingFunctors'[j - 1] = Functor("connectEstablished", x)
    BY <2>3, <1>3, <1>8
  <2> QED BY <2>4
<1>14. LifeAndState'
  BY DEF LifeAndState, MovesOn, Over, Live
<1>15. OneOwner'
  BY <1>9 DEF OneOwner, MovesOn, Live
<1>16. EnablingFirst'
  <2> SUFFICES ASSUME NEW i \in 1..Len(pendingFunctors'),
                      pendingFunctors'[i].op = "enableReading"
               PROVE  FALSE
    BY DEF EnablingFirst
  <2>1. CASE pendingFunctors'[i] = cd
    BY <2>1, FunctorType DEF cd, Op
  <2>2. CASE i + 1 \in 1..n /\ pendingFunctors'[i] = pendingFunctors[i + 1]
    <3>1. i + 1 = 1
      BY <2>2 DEF EnablingFirst, n
    <3> QED BY <3>1
  <2> QED BY <1>7, <2>1, <2>2
<1>17. CallsLive'
  BY CallsMoveOn
<1> QED BY <1>6, <1>10, <1>11, <1>12, <1>13, <1>14, <1>15, <1>16, <1>17

\* connectEstablished has set the state, or connectDestroyed has come as far as the
\* callback.
LEMMA Interrupted ==
  ASSUME QInv, NEW c \in Channel, NEW op \in Op, NEW rest \in {"remove", "enableReading"},
         Runs(op, c), GoesOn(rest, c), NEW state \in State, SetState(c, state),
         \/ /\ rest = "enableReading"
            /\ m_state[c] = "kConnecting" /\ state = "kConnected"
         \/ /\ op = "connectDestroyed" /\ rest = "remove"
            /\ m_state[c] = "kConnected" /\ state = "kDisconnected"
  PROVE  QInv'
<1> USE DEF QInv, QType
<1>0. /\ todo > 0 /\ phase = "functors" /\ Head(pendingFunctors) = Functor(op, c)
      /\ pendingFunctors' = <<Functor(rest, c)>> \o Tail(pendingFunctors)
      /\ UNCHANGED <<life, phase, todo, call, late, unfinished, resurrected>>
  BY DEF Runs, GoesOn, history
<1> DEFINE n == Len(pendingFunctors)
           rm == Functor(rest, c)
<1>1. /\ n \in Nat /\ n > 0 /\ pendingFunctors # <<>> /\ 1 \in 1..n
      /\ pendingFunctors[1] = Functor(op, c)
      /\ \A i \in 1..n : i = 1 \/ i \in 2..n
  BY <1>0
<1>2. rm \in Functors /\ rm.op = rest /\ rm.conn = c
  BY FunctorType DEF Op
<1>3. /\ pendingFunctors' \in Seq(Functors)
      /\ Len(pendingFunctors') = n
      /\ pendingFunctors'[1] = rm
      /\ \A i \in 2..n : pendingFunctors'[i] = pendingFunctors[i]
  BY <1>0, <1>1, <1>2, HeadReplaced
<1>4. \A i \in 1..n : pendingFunctors[i].conn \in Channel
  <2>1. \A i \in 1..n : pendingFunctors[i] \in Functors
    OBVIOUS
  <2> QED BY <2>1 DEF Functors
<1>5. /\ m_state' \in [Channel -> State]
      /\ m_state'[c] = state /\ state \in {"kConnected", "kDisconnected"}
      /\ \A x \in Channel : x # c => m_state'[x] = m_state[x]
  BY DEF SetState
<1>6. QType'
  BY <1>0, <1>3, <1>5
<1>7. life[c] \in Live
  BY <1>1, FunctorType DEF FunctorsLive, Op
<1>8. ASSUME NEW x \in Channel, NEW j \in 1..n,
             pendingFunctors[j] = Functor("connectEstablished", x),
             m_state'[x] = "kConnecting"
      PROVE  pendingFunctors'[j] = Functor("connectEstablished", x)
  <2>1. j # 1
    <3>1. x # c
      BY <1>5, <1>8
    <3> QED BY <3>1, <1>1, <1>8, FunctorsDiffer
  <2> QED BY <2>1, <1>1, <1>3, <1>8
<1> HIDE DEF n, rm
<1>9. FunctorsLive'
  <2> SUFFICES ASSUME NEW i \in 1..n
               PROVE  life[pendingFunctors'[i].conn] \in Live
    BY <1>0, <1>3 DEF FunctorsLive
  <2>1. CASE i = 1
    BY <2>1, <1>2, <1>3, <1>7
  <2>2. CASE i \in 2..n
    BY <2>2, <1>1, <1>3 DEF FunctorsLive, n
  <2> QED BY <2>1, <2>2, <1>1
<1>10. RemoveIsLate'
  <2> SUFFICES ASSUME NEW i \in 1..n, pendingFunctors'[i].op = "remove"
               PROVE  m_state'[pendingFunctors'[i].conn] \in Closing
    BY <1>3 DEF RemoveIsLate
  <2>1. CASE i = 1
    BY <2>1, <1>2, <1>3, <1>5 DEF Closing
  <2>2. CASE i \in 2..n
    <3>1. PICK x \in Channel : x = pendingFunctors[i].conn /\ x = pendingFunctors'[i].conn
      BY <2>2, <1>1, <1>3, <1>4
    <3>2. m_state[x] \in Closing
      BY <2>2, <1>1, <1>3, <3>1 DEF RemoveIsLate, n
    <3> QED BY <3>1, <3>2, <1>5 DEF Closing
  <2> QED BY <2>1, <2>2, <1>1
<1>11. EstablishWaits'
  <2> SUFFICES ASSUME NEW x \in Channel, m_state'[x] = "kConnecting",
                      life[x] \in {"owned", "disowned"}
               PROVE  \E j \in 1..n : pendingFunctors'[j] = Functor("connectEstablished", x)
    BY <1>0, <1>3 DEF EstablishWaits
  <2>1. m_state[x] = "kConnecting"
    BY <1>5
  <2>2. PICK j \in 1..n : pendingFunctors[j] = Functor("connectEstablished", x)
    BY <2>1 DEF EstablishWaits, n
  <2> QED BY <2>2, <1>8
<1>12. EstablishFirst'
  <2> SUFFICES ASSUME NEW x \in Channel, NEW i \in 1..n, m_state'[x] = "kConnecting",
                      pendingFunctors'[i] = Functor("connectDestroyed", x)
               PROVE  \E j \in 1..n :
                        j < i /\ pendingFunctors'[j] = Functor("connectEstablished", x)
    BY <1>3 DEF EstablishFirst
  <2>1. m_state[x] = "kConnecting"
    BY <1>5
  <2>2. i # 1
    <3>1. pendingFunctors'[i].op = "connectDestroyed"
      BY FunctorType DEF Op
    <3> QED BY <3>1, <1>2, <1>3
  <2>3. pendingFunctors[i] = Functor("connectDestroyed", x)
    BY <2>2, <1>1, <1>3
  <2>4. PICK j \in 1..n : j < i /\ pendingFunctors[j] = Functor("connectEstablished", x)
    BY <2>1, <2>3 DEF EstablishFirst, n
  <2> QED BY <2>4, <1>8
<1>13. life[c] \notin {"unborn"} /\ (m_state[c] = "kConnecting" => life[c] \notin Over)
       /\ c \notin resurrected
  BY <1>7 DEF LifeAndState, Live, Closing
<1>14. LifeAndState'
  <2> SUFFICES ASSUME NEW x \in Channel
               PROVE  /\ life[x] = "unborn" => m_state'[x] = "kConnecting"
                      /\ life[x] \in Over => m_state'[x] \in Closing
                      /\ x \in resurrected => m_state'[x] \in Closing
    BY <1>0 DEF LifeAndState
  <2>1. CASE x # c
    BY <2>1, <1>5 DEF LifeAndState
  <2>2. CASE x = c
    BY <2>2, <1>5, <1>13 DEF LifeAndState, Closing
  <2> QED BY <2>1, <2>2
<1>15. OneOwner'
  BY <1>0 DEF OneOwner
<1>16. EnablingFirst'
  <2> SUFFICES ASSUME NEW i \in 1..n, pendingFunctors'[i].op = "enableReading"
               PROVE  /\ i = 1
                      /\ m_state'[pendingFunctors'[i].conn] \in {"kConnected", "kDisConnecting"}
                      /\ life[pendingFunctors'[i].conn] \in {"owned", "disowned"}
    BY <1>0, <1>3 DEF EnablingFirst
  <2>1. i = 1
    BY <1>1, <1>3 DEF EnablingFirst, n
  <2>2. rest = "enableReading" /\ pendingFunctors'[i].conn = c
    BY <2>1, <1>2, <1>3
  <2> QED BY <2>1, <2>2, <1>5, <1>7, <1>13 DEF Live, Over
<1>17. CallsLive'
  <2>1. MovesOn(c)
    BY <1>0, <1>5 DEF MovesOn, Closing
  <2> QED BY <2>1, <1>0, CallsMoveOn
<1> QED BY <1>6, <1>9, <1>10, <1>11, <1>12, <1>14, <1>15, <1>16, <1>17

\* Nothing is queued and nothing runs: a step of a call, the end of a connection.
LEMMA Elsewhere ==
  ASSUME QInv, NEW c \in Channel, MovesOn(c),
         UNCHANGED <<pendingFunctors, phase, todo, late, unfinished>>,
         call' \in [Thread -> Calls \cup {NoCall}], CallsLive',
         m_state'[c] = m_state[c] \/ m_state'[c] = "kDisConnecting",
         m_state'[c] = "kConnecting" <=> m_state[c] = "kConnecting",
         resurrected \subseteq resurrected', resurrected' \subseteq resurrected \cup {c},
         c \in resurrected' => m_state'[c] \in Closing,
         \/ UNCHANGED life
         \/ /\ life[c] = "released" /\ life'[c] = "destroyed"
            /\ UNCHANGED m_state
            /\ \A i \in 1..Len(pendingFunctors) : pendingFunctors[i].conn # c
  PROVE  QInv'
<1> USE DEF QInv
<1>1. QType'
  BY DEF QType, MovesOn
<1>2. \A i \in 1..Len(pendingFunctors) : pendingFunctors[i].conn \in Channel
  <2>1. \A i \in 1..Len(pendingFunctors) : pendingFunctors[i] \in Functors
    BY DEF QType
  <2> QED BY <2>1 DEF Functors
<1>3. FunctorsLive' /\ RemoveIsLate'
  BY <1>2 DEF FunctorsLive, RemoveIsLate, MovesOn
<1>4. EstablishWaits' /\ EstablishFirst'
  BY DEF EstablishWaits, EstablishFirst, MovesOn
<1>5. LifeAndState'
  BY DEF LifeAndState, MovesOn, Over, Closing
<1>6. OneOwner'
  BY DEF OneOwner, MovesOn
<1>7. EnablingFirst'
  BY <1>2 DEF EnablingFirst, MovesOn
<1> QED BY <1>1, <1>3, <1>4, <1>5, <1>6, <1>7

LEMMA HeadLives ==
  ASSUME QInv, NEW c \in Channel, NEW op \in Op, Runs(op, c)
  PROVE  /\ life[c] \in Live
         /\ op = "remove" => m_state[c] \in Closing
         /\ op = "connectDestroyed" => m_state[c] # "kConnecting"
         /\ op = "enableReading" => /\ m_state[c] \in {"kConnected", "kDisConnecting"}
                                   /\ life[c] \in {"owned", "disowned"}
<1> USE DEF QInv, QType
<1>1. /\ Len(pendingFunctors) > 0 /\ 1 \in 1..Len(pendingFunctors)
      /\ pendingFunctors[1] = Functor(op, c)
      /\ \A j \in 1..Len(pendingFunctors) : ~(j < 1)
  BY DEF Runs
<1>2. life[c] \in Live
  BY <1>1, FunctorType DEF FunctorsLive
<1>3. op = "remove" => m_state[c] \in Closing
  BY <1>1, FunctorType DEF RemoveIsLate
<1>4. op = "connectDestroyed" => m_state[c] # "kConnecting"
  BY <1>1 DEF EstablishFirst
<1>5. op = "enableReading" => /\ m_state[c] \in {"kConnected", "kDisConnecting"}
                             /\ life[c] \in {"owned", "disowned"}
  BY <1>1, FunctorType DEF EnablingFirst
<1> QED BY <1>2, <1>3, <1>4, <1>5

LEMMA ClosingKeepsQ ==
  ASSUME QInv, NEW c \in Channel, NEW op \in Op, Runs(op, c), HandleClose(c),
         UNCHANGED history
  PROVE  QInv'
<1>1. life[c] \in Live
  BY HeadLives
<1>2. /\ m_state' = [m_state EXCEPT ![c] = "kDisconnected"]
      /\ m_state \in [Channel -> State] /\ life \in [Channel -> Life]
      /\ unfinished' \subseteq Channel
      /\ UNCHANGED <<phase, call, late, resurrected>>
      /\ todo > 0 /\ Head(pendingFunctors) = Functor(op, c)
  BY DEF HandleClose, SetState, QInv, QType, Runs, history
<1>3. PICK q \in {<<>>, <<Functor("connectDestroyed", c)>>} :
        /\ Done(q)
        /\ \/ life' = [life EXCEPT ![c] = "disowned"] /\ life[c] = "owned"
           \/ life' = life
  BY DEF HandleClose, SetLife
<1>4. MovesOn(c)
  BY <1>2, <1>3 DEF MovesOn, State, Life, Closing
<1>5. /\ life'[c] \in Live
      /\ life[c] = "released" => life'[c] = "released"
      /\ m_state'[c] = "kDisconnected"
  BY <1>1, <1>2, <1>3 DEF Live
<1>6. m_state'[c] \in Closing /\ m_state'[c] # "kConnecting"
  BY <1>5 DEF Closing
<1> QED BY <1>2, <1>3, <1>4, <1>5, <1>6, Finishing

LEMMA ReleasingKeepsQ ==
  ASSUME QInv, NEW c \in Channel, NEW op \in Op, Runs(op, c), Released(c),
         op # "connectEstablished", m_state[c] \in Closing
  PROVE  QInv'
<1>1. /\ life' = [life EXCEPT ![c] = "released"] /\ m_state' = m_state
      /\ m_state \in [Channel -> State] /\ life \in [Channel -> Life]
      /\ unfinished' \subseteq Channel
      /\ UNCHANGED <<phase, call, late, resurrected>>
      /\ Done(<<>>) /\ todo > 0 /\ Head(pendingFunctors) = Functor(op, c)
  BY DEF Released, SetLife, QInv, QType, Runs
<1>2. MovesOn(c)
  BY <1>1 DEF MovesOn, Life
<1>3. life'[c] = "released" /\ life'[c] \in Live /\ m_state'[c] \in Closing
  BY <1>1 DEF Live
<1> QED BY <1>1, <1>2, <1>3, Finishing

LEMMA FunctorKeepsQ ==
  ASSUME QInv, NEW c \in Channel, RunFunctor(c)
  PROVE  QInv'
<1>1. /\ m_state \in [Channel -> State] /\ life \in [Channel -> Life]
      /\ late \subseteq Channel /\ unfinished \subseteq Channel
  BY DEF QInv, QType
\* The functor does nothing to the connection.
<1>2. ASSUME NEW op \in Op, Runs(op, c), UNCHANGED <<connVars, history>>, Done(<<>>),
             op = "connectEstablished" => m_state[c] # "kConnecting"
      PROVE  QInv'
  <2>1. MovesOn(c) /\ life'[c] = life[c] /\ m_state'[c] = m_state[c]
    BY <1>1, <1>2 DEF MovesOn, connVars
  <2>2. life[c] \in Live
    BY <1>2, HeadLives
  <2>3. /\ todo > 0 /\ Head(pendingFunctors) = Functor(op, c)
        /\ UNCHANGED <<phase, call, late, resurrected>> /\ unfinished' \subseteq Channel
    BY <1>1, <1>2 DEF Runs, history
  <2>4. life[c] = "released" => m_state[c] \in Closing
    BY DEF QInv, LifeAndState, Over
  <2> QED BY <1>2, <2>1, <2>2, <2>3, <2>4, Finishing
<1>3. CASE ConnectEstablished(c)
  <2>1. Runs("connectEstablished", c) /\ "connectEstablished" \in Op
    BY <1>3 DEF ConnectEstablished, Op
  <2>2. CASE m_state[c] # "kConnecting"
    BY <1>3, <2>1, <2>2, <1>2 DEF ConnectEstablished
  <2>3. CASE m_state[c] = "kConnecting"
    <3>1. /\ SetState(c, "kConnected") /\ GoesOn("enableReading", c)
          /\ "kConnected" \in State
      BY <1>3, <2>3 DEF ConnectEstablished, State
    <3> QED BY <2>1, <2>3, <3>1, Interrupted
  <2> QED BY <2>2, <2>3
<1>4. CASE EnableAfterSetState(c)
  <2>1. /\ Runs("enableReading", c) /\ "enableReading" \in Op
        /\ UNCHANGED history
    BY <1>4 DEF EnableAfterSetState, Op
  <2> QED BY <1>2, <1>4, <2>1, ClosingKeepsQ DEF EnableAfterSetState, Establish
<1>5. CASE ForceCloseInLoop(c)
  <2>1. "forceCloseInLoop" \in Op
    BY DEF Op
  <2> QED BY <1>2, <1>5, <2>1, ClosingKeepsQ DEF ForceCloseInLoop
<1>6. CASE ConnectDestroyed(c)
  <2>1. Runs("connectDestroyed", c) /\ "connectDestroyed" \in Op
    BY <1>6 DEF ConnectDestroyed, Op
  <2>2. CASE m_state[c] = "kConnected"
    <3>1. /\ SetState(c, "kDisconnected") /\ GoesOn("remove", c)
          /\ "kDisconnected" \in State
      BY <1>6, <2>2 DEF ConnectDestroyed, State
    <3> QED BY <2>1, <2>2, <3>1, Interrupted
  <2>3. CASE m_state[c] # "kConnected"
    <3>1. m_state[c] \in Closing
      BY <1>1, <2>1, <2>3, HeadLives DEF State, Closing
    <3> QED BY <1>6, <2>1, <2>3, <3>1, ReleasingKeepsQ DEF ConnectDestroyed
  <2> QED BY <2>2, <2>3
<1>7. CASE RemoveAfterCallback(c)
  <2>1. Runs("remove", c) /\ "remove" \in Op
    BY <1>7 DEF RemoveAfterCallback, Op
  <2>2. m_state[c] \in Closing
    BY <2>1, HeadLives
  <2> QED BY <1>7, <2>1, <2>2, ReleasingKeepsQ DEF RemoveAfterCallback
<1> QED BY <1>3, <1>4, <1>5, <1>6, <1>7 DEF RunFunctor

\* A thread in a call has a connection that is neither unborn nor destroyed, and was
\* connected.
LEMMA InACall ==
  ASSUME QInv, NEW t \in Thread, NEW c \in Channel, NEW op, call[t] = Functor(op, c),
         op # "none"
  PROVE  life[c] \in Live /\ m_state[c] # "kConnecting"
<1>1. call[t].conn = c /\ call[t] # NoCall
  BY DEF Functor, NoCall
<1> QED BY <1>1 DEF QInv, CallsLive

LEMMA CallKeepsQ ==
  ASSUME QInv, NEW t \in Thread, NEW c \in Channel, InCall(t, c)
  PROVE  QInv'
<1>1. /\ m_state \in [Channel -> State] /\ life \in [Channel -> Life]
      /\ pendingFunctors \in Seq(Functors) /\ call \in [Thread -> Calls \cup {NoCall}]
      /\ late \subseteq Channel /\ unfinished \subseteq Channel
      /\ resurrected \subseteq Channel
  BY DEF QInv, QType
<1>2. /\ life[c] \in Live /\ m_state[c] # "kConnecting"
      /\ life' = life
      /\ MovesOn(c) /\ m_state'[c] # "kConnecting"
      /\ m_state'[c] = m_state[c] \/ m_state'[c] = "kDisConnecting"
      /\ resurrected \subseteq resurrected' /\ resurrected' \subseteq resurrected \cup {c}
      /\ c \in resurrected' => m_state'[c] \in Closing
  <2>1. CASE Shutdown(t, c) \/ ForceClose(t, c)
    <3>1. m_state[c] \in {"kConnected", "kDisConnecting"} /\ life[c] # "destroyed"
          /\ UNCHANGED <<connVars, history>>
      BY <2>1 DEF Shutdown, ForceClose, Enter
    <3>2. life[c] \in Live
      BY <1>1, <3>1 DEF QInv, LifeAndState, Live, Life
    <3> QED BY <1>1, <3>1, <3>2 DEF MovesOn, connVars, history, QInv, LifeAndState
  <2>2. CASE StoreState(t, c)
    <3>1. life[c] \in Live /\ m_state[c] # "kConnecting"
      BY <2>2, InACall DEF StoreState
    <3>2. /\ m_state' = [m_state EXCEPT ![c] = "kDisConnecting"] /\ life' = life
          /\ resurrected' \in {resurrected, resurrected \cup {c}}
      BY <2>2 DEF StoreState, SetState
    <3> QED BY <1>1, <3>1, <3>2 DEF MovesOn, State, Closing, Live
  <2>3. CASE QueueForceClose(t, c)
    <3>1. life[c] \in Live /\ m_state[c] # "kConnecting"
      BY <2>3, InACall DEF QueueForceClose
    <3>2. UNCHANGED <<connVars, history>>
      BY <2>3 DEF QueueForceClose
    <3> QED BY <1>1, <3>1, <3>2 DEF MovesOn, connVars, history, QInv, LifeAndState
  <2> QED BY <2>1, <2>2, <2>3 DEF InCall
<1>3. /\ call' \in [Thread -> Calls \cup {NoCall}]
      /\ \A u \in Thread : \/ call'[u] = call[u] \/ call'[u] = NoCall
                           \/ call'[u].conn = c
  <2>1. PICK k \in {NoCall} \cup {Functor(op, c) : op \in {"shutdown", "forceClose", "queue"}} :
          call' = [call EXCEPT ![t] = k]
    BY DEF InCall, Shutdown, ForceClose, Enter, StoreState, QueueForceClose
  <2>2. k \in Calls \cup {NoCall} /\ (k = NoCall \/ k.conn = c)
    BY DEF Calls, Functor
  <2> QED BY <1>1, <2>1, <2>2
<1>4. CallsLive'
  <2> SUFFICES ASSUME NEW u \in Thread, call'[u] # NoCall
               PROVE  /\ life'[call'[u].conn] \in Live
                      /\ m_state'[call'[u].conn] # "kConnecting"
    BY DEF CallsLive
  <2>1. CASE call'[u].conn = c
    BY <2>1, <1>2
  <2>2. CASE call'[u] = call[u] /\ call'[u].conn # c
    <3>1. call[u] \in Calls
      BY <1>1, <2>2
    <3>2. PICK x \in Channel : x = call[u].conn
      BY <3>1 DEF Calls
    <3>3. life[x] \in Live /\ m_state[x] # "kConnecting"
      BY <2>2, <3>2 DEF QInv, CallsLive
    <3> QED BY <1>2, <2>2, <3>2, <3>3 DEF MovesOn
  <2> QED BY <1>3, <2>1, <2>2
<1>5. CASE QueueForceClose(t, c)
  <2>1. /\ pendingFunctors' = Append(pendingFunctors, Functor("forceCloseInLoop", c))
        /\ UNCHANGED <<m_state, phase, todo, late, unfinished, resurrected>>
        /\ "forceCloseInLoop" \in Op
    BY <1>5 DEF QueueForceClose, connVars, history, Op
  <2>2. /\ life'[c] \in Live /\ life[c] # "unborn" /\ life'[c] = life[c]
        /\ life[c] = "owned" => life'[c] \in {"owned", "disowned"}
    BY <1>2 DEF Live
  <2> QED BY <1>2, <1>3, <1>4, <2>1, <2>2, Queueing
<1>6. CASE ~QueueForceClose(t, c)
  <2>1. UNCHANGED <<pendingFunctors, phase, todo, late, unfinished>>
    BY <1>6 DEF InCall, Shutdown, ForceClose, Enter, StoreState, loopVars, history
  <2> QED BY <1>2, <1>3, <1>4, <2>1, Elsewhere
<1> QED BY <1>5, <1>6

LEMMA OwnerKeepsQ ==
  ASSUME QInv, NEW c \in Channel, Open(c) \/ GiveUp(c) \/ Destroy(c)
  PROVE  QInv'
<1>1. /\ m_state \in [Channel -> State] /\ life \in [Channel -> Life]
      /\ pendingFunctors \in Seq(Functors) /\ call \in [Thread -> Calls \cup {NoCall}]
      /\ c \in resurrected => m_state[c] \in Closing
  BY DEF QInv, QType, LifeAndState
<1>2. CASE Open(c)
  <2>1. MovesOn(c) /\ life'[c] = "owned" /\ life[c] = "unborn"
    BY <1>1, <1>2 DEF Open, SetLife, MovesOn, Life
  <2>2. /\ pendingFunctors' = Append(pendingFunctors, Functor("connectEstablished", c))
        /\ UNCHANGED <<m_state, phase, todo, call, late, unfinished, resurrected>>
        /\ "connectEstablished" \in Op
        /\ \A x \in Channel \ {c} : fd[x] = fd[c] => life[x] \in {"unborn", "destroyed"}
    BY <1>2 DEF Open, Op, history
  <2>3. CallsLive' /\ life'[c] \in Live
    BY <2>1, <2>2, CallsMoveOn DEF Live
  <2> QED BY <1>1, <2>1, <2>2, <2>3, Queueing
<1>3. CASE GiveUp(c)
  <2>1. MovesOn(c) /\ life'[c] = "disowned" /\ life[c] = "owned"
    BY <1>1, <1>3 DEF GiveUp, SetLife, MovesOn, Life
  <2>2. /\ pendingFunctors' = Append(pendingFunctors, Functor("connectDestroyed", c))
        /\ UNCHANGED <<m_state, phase, todo, call, late, unfinished, resurrected>>
        /\ "connectDestroyed" \in Op
    BY <1>3 DEF GiveUp, Op, history
  <2>3. CallsLive' /\ life'[c] \in Live /\ life[c] \in Live
    BY <2>1, <2>2, CallsMoveOn DEF Live
  <2> QED BY <1>1, <2>1, <2>2, <2>3, Queueing
<1>4. CASE Destroy(c)
  <2>1. /\ MovesOn(c) /\ life[c] = "released" /\ life'[c] = "destroyed"
        /\ \A x \in Channel : x # c => life'[x] = life[x]
    BY <1>1, <1>4 DEF Destroy, SetLife, MovesOn, Life
  <2>2. /\ \A i \in 1..Len(pendingFunctors) : pendingFunctors[i].conn # c
        /\ \A t \in Thread : call[t].conn # c
        /\ UNCHANGED <<m_state, pendingFunctors, phase, todo, call, late, unfinished,
                      resurrected>>
    BY <1>1, <1>4 DEF Destroy, loopVars, history
  <2>3. CallsLive'
    <3> SUFFICES ASSUME NEW u \in Thread, call[u] # NoCall
                 PROVE  /\ life'[call[u].conn] \in Live
                        /\ m_state[call[u].conn] # "kConnecting"
      BY <2>2 DEF CallsLive
    <3>1. call[u] \in Calls
      BY <1>1
    <3>2. PICK x \in Channel : x = call[u].conn
      BY <3>1 DEF Calls
    <3> QED BY <2>1, <2>2, <3>2 DEF QInv, CallsLive
  <2> QED BY <1>1, <2>1, <2>2, <2>3, Elsewhere
<1> QED BY <1>2, <1>3, <1>4

LEMMA QStep == QInv /\ [ReactorNext]_reactorVars => QInv'
<1> SUFFICES ASSUME QInv, [ReactorNext]_reactorVars PROVE QInv'
  OBVIOUS
<1>1. ASSUME UNCHANGED <<connVars, pendingFunctors, call, unfinished, resurrected>>,
             phase' \in {"poll", "handle", "functors"}, todo' \in 0..Len(pendingFunctors),
             phase = "functors" => todo = 0 \/ (phase' = phase /\ todo' = todo),
             late' \subseteq Channel
      PROVE  QInv'
  <2>1. QType' /\ LifeAndState' /\ OneOwner'
    BY <1>1 DEF QInv, QType, LifeAndState, OneOwner, connVars
  <2>2. FunctorsLive' /\ RemoveIsLate' /\ CallsLive'
    BY <1>1 DEF QInv, FunctorsLive, CallsLive, RemoveIsLate, connVars
  <2>3. EstablishWaits' /\ EstablishFirst'
    BY <1>1 DEF QInv, EstablishWaits, EstablishFirst, connVars
  <2>4. EnablingFirst'
    BY <1>1 DEF QInv, EnablingFirst, connVars
  <2> QED BY <2>1, <2>2, <2>3, <2>4 DEF QInv
<1>2. /\ pendingFunctors \in Seq(Functors) /\ Len(pendingFunctors) \in Nat
      /\ late \subseteq Channel
      /\ phase \in {"poll", "handle", "functors"} /\ todo \in 0..Len(pendingFunctors)
  BY DEF QInv, QType
<1>3. ASSUME NEW batch \in Batches, PollReports(batch) PROVE QInv'
  BY <1>1, <1>2, <1>3 DEF PollReports
<1>4. ASSUME PollTimesOut \/ HandleActive \/ TakeFunctors \/ EndTurn PROVE QInv'
  BY <1>1, <1>2, <1>4 DEF PollTimesOut, HandleActive, TakeFunctors, EndTurn, loopVars,
                          history
<1>5. CASE UNCHANGED reactorVars
  BY <1>1, <1>2, <1>5 DEF reactorVars, loopVars, history
<1> QED BY <1>3, <1>4, <1>5, FunctorKeepsQ, OwnerKeepsQ, CallKeepsQ
        DEF ReactorNext, LoopStep

LEMMA QInit == ReactorInit => QInv
<1> SUFFICES ASSUME ReactorInit PROVE QInv
  OBVIOUS
<1>1. pendingFunctors = <<>> /\ Len(pendingFunctors) = 0 /\ pendingFunctors \in Seq(Functors)
  BY DEF ReactorInit
<1>2. QType
  BY <1>1 DEF ReactorInit, QType, State, Life
<1>3. FunctorsLive /\ RemoveIsLate /\ EstablishFirst /\ EnablingFirst
  BY <1>1 DEF FunctorsLive, RemoveIsLate, EstablishFirst, EnablingFirst
<1>4. EstablishWaits /\ LifeAndState /\ OneOwner /\ CallsLive
  BY DEF ReactorInit, EstablishWaits, LifeAndState, OneOwner, Over, CallsLive
<1> QED BY <1>2, <1>3, <1>4 DEF QInv
-----------------------------------------------------------------------------
(* What the poller has of a connection.                                    *)

\* What an operation on another channel leaves to x.
Untouched(x) ==
  /\ m_events'[x] = m_events[x] /\ m_index'[x] = m_index[x]
  /\ m_channels'[fd[x]] = x <=> m_channels[fd[x]] = x
  /\ m_channels[fd[x]] = x => kernel'[fd[x]] = kernel[fd[x]]

LEMMA SetEventsFrame ==
  ASSUME IInv, NEW c \in Channel, NEW events \in SUBSET Event, SetEvents(c, events)
  PROVE  /\ \A x \in Channel : x # c => Untouched(x)
         /\ m_events'[c] = events
         /\ m_channels[fd[c]] = c => m_channels'[fd[c]] = c
         /\ kernel' # kernel => /\ kernel'[fd[c]] = [ch |-> c, events |-> events]
                                /\ m_channels'[fd[c]] = c
                                /\ m_index'[c] # kNew
         /\ m_index'[c] = kNew => m_index[c] = kNew /\ m_channels[fd[c]] # NoChannel
         /\ m_channels'[fd[c]] = c =>
              \/ m_channels[fd[c]] = c
              \/ m_index[c] = kNew /\ m_channels[fd[c]] = NoChannel
         /\ \A d \in Fd : m_channels[d] # NoChannel => m_channels'[d] = m_channels[d]
<1> USE PollerAssumption DEF IInv, TypeOK
<1>1. /\ fd[c] \in Fd /\ c # NoChannel
      /\ \A x \in Channel : fd[x] \in Fd /\ x # NoChannel
  OBVIOUS
<1>2. m_events' = [m_events EXCEPT ![c] = events]
  BY DEF SetEvents
<1>3. CASE /\ ~(IF m_index[c] = kNew THEN m_channels[fd[c]] = NoChannel
                                    ELSE m_channels[fd[c]] = c)
           /\ UNCHANGED <<m_channels, m_index, kernel>>
  BY <1>1, <1>2, <1>3 DEF Untouched
<1>4. CASE /\ IF m_index[c] = kNew THEN m_channels[fd[c]] = NoChannel
                                   ELSE m_channels[fd[c]] = c
           /\ m_channels' = [m_channels EXCEPT ![fd[c]] = c]
           /\ m_index' = [m_index EXCEPT ![c] = kAdded]
           /\ EpollAdd(c, events)
  <2>1. \A x \in Channel : x # c => Untouched(x)
    <3> SUFFICES ASSUME NEW x \in Channel, x # c PROVE Untouched(x)
      OBVIOUS
    <3>1. m_events'[x] = m_events[x] /\ m_index'[x] = m_index[x]
      BY <1>2, <1>4
    <3>2. CASE fd[x] = fd[c]
      BY <1>1, <1>4, <3>1, <3>2 DEF Untouched
    <3>3. CASE fd[x] # fd[c]
      BY <1>1, <1>4, <3>1, <3>3 DEF Untouched, EpollAdd
    <3> QED BY <3>2, <3>3
  <2>2. kernel' # kernel => kernel'[fd[c]] = [ch |-> c, events |-> events]
    BY <1>1, <1>4 DEF EpollAdd
  <2>3. m_index'[c] # kNew
    BY <1>4 DEF kNew, kAdded
  <2>4. /\ m_channels'[fd[c]] = c
        /\ \A d \in Fd : m_channels[d] # NoChannel => m_channels'[d] = m_channels[d]
    BY <1>1, <1>4
  <2> QED BY <1>1, <1>2, <1>4, <2>1, <2>2, <2>3, <2>4
<1> QED BY <1>3, <1>4 DEF SetEvents, UpdateChannel

LEMMA RemoveFrame ==
  ASSUME IInv, NEW c \in Channel, RemoveIfQuiet(c)
  PROVE  /\ \A x \in Channel : x # c => Untouched(x)
         /\ m_events' = m_events /\ m_index' = m_index
         /\ m_events[c] = {} => m_channels'[fd[c]] # c
         /\ m_events[c] # {} => UNCHANGED <<m_channels, kernel>>
         /\ m_channels'[fd[c]] = c => m_channels[fd[c]] = c
         /\ \A d \in Fd : m_channels[d] # c => m_channels'[d] = m_channels[d]
<1> USE PollerAssumption DEF IInv, TypeOK
<1>1. /\ fd[c] \in Fd /\ c # NoChannel
      /\ \A x \in Channel : fd[x] \in Fd /\ x # NoChannel
  OBVIOUS
<1>2. CASE m_events[c] # kNoneEvent
  BY <1>2 DEF RemoveIfQuiet, vars, Untouched, kNoneEvent
<1>3. CASE m_events[c] = kNoneEvent /\ m_channels[fd[c]] # c
  BY <1>1, <1>3 DEF RemoveIfQuiet, Remove, RemoveChannel, Untouched, kNoneEvent
<1>4. CASE m_events[c] = kNoneEvent /\ m_channels[fd[c]] = c
  <2>1. m_index[c] = kAdded
    BY <1>1, <1>4 DEF MapOwned
  <2>2. /\ m_channels' = [m_channels EXCEPT ![fd[c]] = NoChannel]
        /\ kernel' = [kernel EXCEPT ![fd[c]] = NoRegistration]
        /\ m_index' = m_index /\ m_events' = m_events
    BY <1>4, <2>1 DEF RemoveIfQuiet, Remove, RemoveChannel, EpollDel
  <2>3. \A x \in Channel : x # c => Untouched(x)
    <3> SUFFICES ASSUME NEW x \in Channel, x # c PROVE Untouched(x)
      OBVIOUS
    <3>1. CASE fd[x] = fd[c]
      BY <1>1, <1>4, <2>2, <3>1 DEF Untouched
    <3>2. CASE fd[x] # fd[c]
      BY <1>1, <2>2, <3>2 DEF Untouched
    <3> QED BY <3>1, <3>2
  <2> QED BY <1>1, <1>4, <2>2, <2>3 DEF kNoneEvent
<1> QED BY <1>2, <1>3, <1>4

\* A step of a functor leaves the life of every other connection and the entry of every
\* other channel.
LEMMA FunctorSparesStale ==
  ASSUME IInv, QInv, NEW c \in Channel, RunFunctor(c), NEW d \in Fd, Stale(d)
  PROVE  Stale(d)'
<1>1. life \in [Channel -> Life] /\ m_channels[d] \in Channel
  BY DEF QInv, QType, IInv, TypeOK, Stale
<1>2. m_channels[d] # c
  <2>1. PICK op \in Op : Runs(op, c)
    BY DEF RunFunctor, ConnectEstablished, EnableAfterSetState, ForceCloseInLoop,
           ConnectDestroyed, RemoveAfterCallback, Op
  <2> QED BY <2>1, HeadLives DEF Stale, Live
<1>3. \A x \in Channel : x # c => life'[x] = life[x]
  BY <1>1 DEF RunFunctor, ConnectEstablished, EnableAfterSetState, ForceCloseInLoop,
              ConnectDestroyed, RemoveAfterCallback, Establish, HandleClose, Released,
              SetLife, GoesOn, connVars
<1>4. m_channels'[d] = m_channels[d]
  <2>1. ASSUME NEW events \in SUBSET Event, SetEvents(c, events)
        PROVE  m_channels'[d] = m_channels[d]
    BY <2>1, SetEventsFrame DEF Stale
  <2>2. ASSUME Released(c) PROVE m_channels'[d] = m_channels[d]
    BY <2>2, <1>2, RemoveFrame DEF Released
  <2>3. ASSUME DisableAll(c) PROVE m_channels'[d] = m_channels[d]
    BY <2>1, <2>3 DEF DisableAll, kNoneEvent
  <2>4. ASSUME EnableReading(c) PROVE m_channels'[d] = m_channels[d]
    <3>1. m_events[c] \cup kReadEvent \in SUBSET Event
      BY DEF IInv, TypeOK, kReadEvent, Event
    <3> QED BY <2>1, <2>4, <3>1 DEF EnableReading
  <2>5. ASSUME UNCHANGED vars PROVE m_channels'[d] = m_channels[d]
    BY <2>5 DEF vars
  <2> QED BY <2>2, <2>3, <2>4, <2>5
          DEF RunFunctor, ConnectEstablished, EnableAfterSetState, ForceCloseInLoop,
              ConnectDestroyed, RemoveAfterCallback, Establish, HandleClose,
              EnableReadingSucceeds
<1> QED BY <1>1, <1>2, <1>3, <1>4 DEF Stale

LEMMA StepSparesStale ==
  ASSUME IInv, QInv, [ReactorNext]_reactorVars, NEW d \in Fd, Stale(d)
  PROVE  Stale(d)'
<1>1. life \in [Channel -> Life] /\ m_channels[d] \in Channel
  BY DEF QInv, QType, IInv, TypeOK, Stale
<1>2. ASSUME NEW c \in Channel,
             \/ Open(c) \/ GiveUp(c) \/ Destroy(c)
             \/ \E t \in Thread : InCall(t, c)
      PROVE  Stale(d)'
  <2>1. m_channels' = m_channels
    BY <1>2 DEF Open, GiveUp, Destroy, CloseFd, InCall, Shutdown, ForceClose, Enter,
                StoreState, QueueForceClose, vars
  <2>2. life'[m_channels[d]] = "destroyed"
    BY <1>1, <1>2 DEF Stale, Open, GiveUp, Destroy, SetLife, InCall, Shutdown,
                      ForceClose, Enter, StoreState, QueueForceClose, connVars
  <2> QED BY <2>1, <2>2 DEF Stale
<1>3. ASSUME UNCHANGED <<m_channels, life>> PROVE Stale(d)'
  BY <1>3 DEF Stale
<1>4. ASSUME NEW batch \in Batches, PollReports(batch) PROVE Stale(d)'
  BY <1>3, <1>4 DEF PollReports, Poll, connVars
<1>5. ASSUME PollTimesOut \/ HandleActive \/ TakeFunctors \/ EndTurn PROVE Stale(d)'
  BY <1>3, <1>5 DEF PollTimesOut, HandleActive, TakeFunctors, EndTurn, HandleEvent, vars,
                    connVars
<1>6. CASE UNCHANGED reactorVars
  BY <1>3, <1>6 DEF reactorVars, vars, connVars
<1> QED BY <1>2, <1>4, <1>5, <1>6, FunctorSparesStale DEF ReactorNext, LoopStep
-----------------------------------------------------------------------------
(* What becomes of a connection in the middle of connectEstablished.       *)

\* A functor that is done leaves none that is in the middle of connectEstablished.
LEMMA NoneEstablishing ==
  ASSUME QInv, NEW c \in Channel, NEW op \in Op, Runs(op, c),
         NEW q \in {<<>>, <<Functor("connectDestroyed", c)>>}, Done(q),
         NEW x \in Channel
  PROVE  ~Establishing(x)'
<1> SUFFICES ASSUME pendingFunctors' # <<>>, Head(pendingFunctors') = Functor("enableReading", x)
             PROVE  FALSE
  BY DEF Establishing
<1>1. /\ pendingFunctors \in Seq(Functors) /\ Len(pendingFunctors) \in Nat
      /\ Len(pendingFunctors) > 0 /\ pendingFunctors # <<>>
  BY DEF QInv, QType, Runs
<1>2. Functor("connectDestroyed", c) \in Functors
  BY FunctorType DEF Op
<1>3. /\ q \in Seq(Functors) /\ Len(q) \in Nat
      /\ q # <<>> => q[1] = Functor("connectDestroyed", c)
  <2>1. CASE q = <<>>
    BY <2>1
  <2>2. CASE q = <<Functor("connectDestroyed", c)>>
    BY <2>2, <1>2
  <2> QED BY <2>1, <2>2
<1>4. pendingFunctors' = Tail(pendingFunctors) \o q
  BY DEF Done
<1>5. /\ pendingFunctors' \in Seq(Functors)
      /\ Len(pendingFunctors') = Len(pendingFunctors) - 1 + Len(q)
      /\ \A i \in 1..Len(pendingFunctors) - 1 :
           pendingFunctors'[i] = pendingFunctors[i + 1]
      /\ \A i \in 1..Len(q) : pendingFunctors'[Len(pendingFunctors) - 1 + i] = q[i]
  BY <1>1, <1>3, <1>4, TailThenQueued
<1>6. pendingFunctors'[1] = Functor("enableReading", x)
  BY <1>5
<1>7. CASE Len(pendingFunctors) > 1
  <2>1. pendingFunctors[2] = Functor("enableReading", x) /\ 2 \in 1..Len(pendingFunctors)
    BY <1>1, <1>5, <1>6, <1>7
  <2>2. pendingFunctors[2].op = "enableReading"
    BY <2>1, FunctorType DEF Op
  <2> QED BY <2>1, <2>2 DEF QInv, EnablingFirst
<1>8. CASE Len(pendingFunctors) = 1
  <2>1. Len(q) > 0 /\ q # <<>> /\ 1 \in 1..Len(q)
    BY <1>1, <1>3, <1>5, <1>8
  <2>2. pendingFunctors'[1] = q[1]
    BY <1>5, <1>8, <2>1
  <2> QED BY <2>1, <2>2, <1>3, <1>6, FunctorsDiffer
<1> DEFINE n == Len(pendingFunctors)
<1>9. n = 1 \/ n > 1
  <2>1. n \in Nat /\ n > 0
    BY <1>1
  <2> HIDE DEF n
  <2> QED BY <2>1
<1> QED BY <1>7, <1>8, <1>9

\* While a functor of c runs, no other connection is in the middle of its own, and c only
\* when the functor is that one.
LEMMA OneEstablishes ==
  ASSUME NEW c \in Channel, NEW op \in Op, Runs(op, c), NEW x \in Channel, Establishing(x)
  PROVE  x = c /\ op = "enableReading"
<1>1. Functor("enableReading", x) = Functor(op, c)
  BY DEF Runs, Establishing
<1> QED BY <1>1, FunctorsDiffer

LEMMA QueuedBehind ==
  ASSUME QInv, NEW c \in Channel, NEW op \in Op \ {"enableReading"},
         pendingFunctors' = Append(pendingFunctors, Functor(op, c)), NEW x \in Channel
  PROVE  Establishing(x)' <=> Establishing(x)
<1>1. pendingFunctors \in Seq(Functors) /\ Functor(op, c) \in Functors
  BY FunctorType DEF QInv, QType
<1>2. CASE pendingFunctors = <<>>
  <2>1. pendingFunctors' # <<>> /\ Head(pendingFunctors') = Functor(op, c)
    BY <1>1, <1>2
  <2>2. Functor(op, c) # Functor("enableReading", x)
    BY FunctorsDiffer
  <2> QED BY <1>2, <2>1, <2>2 DEF Establishing
<1>3. CASE pendingFunctors # <<>>
  <2>1. pendingFunctors' # <<>> /\ Head(pendingFunctors') = Head(pendingFunctors)
    BY <1>1, <1>3
  <2> QED BY <1>3, <2>1 DEF Establishing
<1> QED BY <1>2, <1>3

\* enableReading is refused only because of a stale entry: the connection before with
\* that descriptor is destroyed, and the next has not got here.
LEMMA RefusedIsStale ==
  ASSUME IInv, QInv, PInv, NEW c \in Channel, Unregistered(c),
         life[c] \in {"owned", "disowned"}, m_channels[fd[c]] # NoChannel
  PROVE  Stale(fd[c])
<1>1. fd[c] \in Fd
  BY PollerAssumption
<1>2. PICK x \in Channel : x = m_channels[fd[c]]
  BY <1>1 DEF IInv, TypeOK
<1>3. fd[x] = fd[c] /\ m_index[x] = kAdded
  BY <1>1, <1>2 DEF IInv, MapOwned
<1>4. x # c
  <2>1. m_index[c] = kNew
    BY DEF PInv, Bound
  <2> QED BY <2>1, <1>3 DEF kNew, kAdded
<1>5. life[x] \in {"unborn", "destroyed"}
  BY <1>3, <1>4 DEF QInv, OneOwner
<1>6. life[x] # "unborn"
  <2>1. life[x] = "unborn" => Unregistered(x)
    BY DEF QInv, LifeAndState, Unregistered
  <2>2. Unregistered(x) => m_index[x] = kNew
    BY DEF PInv, Bound
  <2> QED BY <2>1, <2>2, <1>3 DEF kNew, kAdded
<1> QED BY <1>2, <1>5, <1>6 DEF Stale
-----------------------------------------------------------------------------
(* The steps, connection by connection.                                    *)

LEMMA BoundKept ==
  ASSUME NEW x \in Channel, Bound(x), Untouched(x),
         m_state'[x] = m_state[x], life'[x] = life[x],
         Establishing(x)' <=> Establishing(x), Stale(fd[x]) => Stale(fd[x])',
         late \subseteq late', unfinished \subseteq unfinished',
         resurrected \subseteq resurrected'
  PROVE  Bound(x)'
<1>1. /\ Alive(x)' => Alive(x)
      /\ Unregistered(x)' <=> Unregistered(x)
  BY DEF Alive, Unregistered
<1> QED BY <1>1 DEF Bound, Untouched

\* What epoll reports is registered, so its connection is not kConnecting.
LEMMA BatchReports ==
  ASSUME IInv, NEW batch \in Batches, NEW i \in DOMAIN batch
  PROVE  /\ batch[i].ch \in Channel /\ batch[i].revents # {}
         /\ m_index[batch[i].ch] # kNew
<1> DEFINE Report == {r \in [ch : Channel, revents : (SUBSET Event) \ {{}}] :
                        /\ kernel[fd[r.ch]].ch = r.ch
                        /\ r.revents \subseteq kernel[fd[r.ch]].events \cup Unasked}
<1>1. PICK n \in 1..Cardinality(Fd) : batch \in [1..n -> Report]
  BY DEF Batches
<1>2. batch[i] \in Report
  <2> HIDE DEF Report
  <2> QED BY <1>1
<1>3. batch[i].ch \in Channel /\ batch[i].revents # {} /\ fd[batch[i].ch] \in Fd
      /\ batch[i].ch # NoChannel
  <2>1. batch[i] \in [ch : Channel, revents : (SUBSET Event) \ {{}}]
    BY <1>2
  <2>2. batch[i].ch \in Channel /\ batch[i].revents \in (SUBSET Event) \ {{}}
    BY <2>1
  <2> QED BY <2>2, PollerAssumption
<1>4. kernel[fd[batch[i].ch]].ch = batch[i].ch /\ Registered(fd[batch[i].ch])
  BY <1>2, <1>3 DEF Registered, NoRegistration
<1>5. m_index[batch[i].ch] = kAdded
  BY <1>3, <1>4 DEF IInv, RegistrationOwned
<1> QED BY <1>3, <1>5 DEF kNew, kAdded

\* A functor of c moves only c, and operates only on its channel.
LEMMA OthersBound ==
  ASSUME QInv, PInv, NEW c \in Channel, NEW op \in Op, Runs(op, c),
         \A x \in Channel : x # c => /\ Untouched(x) /\ m_state'[x] = m_state[x]
                                    /\ life'[x] = life[x] /\ ~Establishing(x)',
         \A d \in Fd : Stale(d) => Stale(d)',
         late \subseteq late', unfinished \subseteq unfinished',
         resurrected \subseteq resurrected',
         Bound(c)'
  PROVE  PInv'
<1> SUFFICES ASSUME NEW x \in Channel PROVE Bound(x)'
  BY DEF PInv
<1>1. CASE x = c
  BY <1>1
<1>2. CASE x # c
  <2>1. ~Establishing(x) /\ fd[x] \in Fd
    BY <1>2, OneEstablishes, PollerAssumption
  <2> QED BY <1>2, <2>1, BoundKept DEF PInv
<1> QED BY <1>1, <1>2

LEMMA ClosingKeepsP ==
  ASSUME IInv, QInv, PInv, NEW c \in Channel, NEW op \in Op, Runs(op, c), HandleClose(c),
         m_state[c] \notin {"kConnecting", "kDisconnected"}, UNCHANGED history,
         \A d \in Fd : Stale(d) => Stale(d)'
  PROVE  PInv'
<1>0. fd[c] \in Fd
  BY PollerAssumption
<1>1. SetEvents(c, kNoneEvent) /\ kNoneEvent \in SUBSET Event
  BY DEF HandleClose, DisableAll, kNoneEvent
<1>2. /\ \A x \in Channel : x # c => Untouched(x)
      /\ m_events'[c] = kNoneEvent
      /\ m_index'[c] = kNew => m_index[c] = kNew /\ m_channels[fd[c]] # NoChannel
      /\ m_channels'[fd[c]] = c =>
           m_channels[fd[c]] = c \/ (m_index[c] = kNew /\ m_channels[fd[c]] = NoChannel)
  BY <1>1, SetEventsFrame
<1>3. /\ m_state'[c] = "kDisconnected"
      /\ \A x \in Channel : x # c => m_state'[x] = m_state[x] /\ life'[x] = life[x]
      /\ life'[c] \in Over => life[c] \in Over
  BY DEF HandleClose, SetState, SetLife, QInv, QType, Over
<1>4. \A x \in Channel : ~Establishing(x)'
  BY NoneEstablishing DEF HandleClose
<1>5. Establishing(c) => life[c] \in {"owned", "disowned"}
  BY OneEstablishes, HeadLives
\* A channel that is still new when its connection closes was refused.
<1>6. m_index[c] = kNew /\ m_channels[fd[c]] # NoChannel => Stale(fd[c])
  <2>1. CASE Establishing(c)
    BY <1>5, <2>1, RefusedIsStale DEF Unregistered
  <2>2. CASE ~Establishing(c)
    BY <2>2 DEF PInv, Bound, Unregistered
  <2> QED BY <2>1, <2>2
<1>7. life[c] \in Over => (m_channels'[fd[c]] = c => c \in late \cup unfinished)
  <2> SUFFICES ASSUME life[c] \in Over, m_channels'[fd[c]] = c
               PROVE  c \in late \cup unfinished
    OBVIOUS
  <2>1. ~Unregistered(c)
    BY <1>5 DEF Unregistered, Over
  <2>2. m_index[c] = kNew => m_channels[fd[c]] # NoChannel
    BY <2>1 DEF PInv, Bound, Stale
  <2> QED BY <1>2, <2>2 DEF PInv, Bound
<1>8. Bound(c)'
  BY <1>0, <1>2, <1>3, <1>4, <1>6, <1>7 DEF Bound, Alive, Unregistered, kNoneEvent, history
<1> QED BY <1>2, <1>3, <1>4, <1>8, OthersBound DEF history

LEMMA EstablishedIsBound ==
  ASSUME IInv, QInv, PInv, NEW c \in Channel, Runs("enableReading", c),
         EnableReadingSucceeds(c), Done(<<>>), UNCHANGED <<connVars, history>>,
         \A d \in Fd : Stale(d) => Stale(d)'
  PROVE  PInv'
<1>0. "enableReading" \in Op /\ m_state' = m_state /\ life' = life
  BY DEF Op, connVars
<1>1. Establishing(c)
  BY DEF Runs, Establishing, QInv, QType
<1>2. m_events[c] = {}
  BY <1>1 DEF PInv, Bound, Unregistered
<1>3. SetEvents(c, kReadEvent) /\ kReadEvent \in SUBSET Event /\ kernel' # kernel
  BY <1>2 DEF EnableReadingSucceeds, EnableReading, kReadEvent, Event
<1>4. /\ \A x \in Channel : x # c => Untouched(x)
      /\ m_events'[c] = kReadEvent /\ m_index'[c] # kNew
      /\ kernel'[fd[c]] = [ch |-> c, events |-> kReadEvent]
      /\ m_channels'[fd[c]] = c
  BY <1>3, SetEventsFrame
<1>5. /\ m_state[c] \in {"kConnected", "kDisConnecting"}
      /\ life[c] \in {"owned", "disowned"}
  BY <1>0, HeadLives
<1>6. \A x \in Channel : ~Establishing(x)'
  BY <1>0, NoneEstablishing
<1>7. Bound(c)'
  BY <1>0, <1>4, <1>5, <1>6 DEF Bound, Alive, Unregistered, kReadEvent, Over
<1> QED BY <1>0, <1>4, <1>6, <1>7, OthersBound DEF history

LEMMA ReleasingKeepsP ==
  ASSUME IInv, QInv, PInv, NEW c \in Channel, NEW op \in Op \ {"enableReading"},
         Runs(op, c), Released(c), m_state[c] \in Closing,
         \A d \in Fd : Stale(d) => Stale(d)'
  PROVE  PInv'
<1>0. fd[c] \in Fd /\ ~Establishing(c) /\ life[c] # "destroyed"
  BY PollerAssumption, OneEstablishes, HeadLives DEF Live
<1>1. /\ \A x \in Channel : x # c => Untouched(x)
      /\ m_events' = m_events /\ m_index' = m_index
      /\ m_events[c] = {} => m_channels'[fd[c]] # c
      /\ m_events[c] # {} => UNCHANGED <<m_channels, kernel>>
  BY RemoveFrame DEF Released
<1>2. /\ UNCHANGED <<m_state, late, resurrected>> /\ unfinished \subseteq unfinished'
      /\ m_state[c] = "kDisConnecting" => c \in unfinished'
      /\ life'[c] = "released"
      /\ \A x \in Channel : x # c => life'[x] = life[x]
  BY DEF Released, SetLife, QInv, QType
<1>3. \A x \in Channel : ~Establishing(x)'
  BY NoneEstablishing DEF Released
<1>4. /\ Alive(c)' => Alive(c)
      /\ ~Unregistered(c) /\ ~Unregistered(c)'
  BY <1>0, <1>2, <1>3 DEF Alive, Unregistered, Closing
<1>5. m_channels'[fd[c]] = c => c \in late \cup unfinished'
  BY <1>1, <1>2 DEF PInv, Bound, Closing
<1>6. Bound(c)'
  BY <1>0, <1>1, <1>2, <1>4, <1>5 DEF PInv, Bound
<1> QED BY <1>1, <1>2, <1>3, <1>6, OthersBound

LEMMA FunctorKeepsP ==
  ASSUME IInv, QInv, PInv, NEW c \in Channel, RunFunctor(c)
  PROVE  PInv'
<1>0. \A d \in Fd : Stale(d) => Stale(d)'
  BY FunctorSparesStale
<1>1. ASSUME NEW op \in Op \ {"enableReading"}, Runs(op, c), Done(<<>>),
             UNCHANGED <<vars, connVars, history>>
      PROVE  PInv'
  <2>1. \A x \in Channel : ~Establishing(x)' /\ ~Establishing(x) /\ fd[x] \in Fd
    BY <1>1, NoneEstablishing, OneEstablishes, PollerAssumption
  <2>2. \A x \in Channel : /\ Untouched(x)
                           /\ m_state'[x] = m_state[x] /\ life'[x] = life[x]
    BY <1>1 DEF Untouched, vars, connVars
  <2> QED BY <1>0, <1>1, <2>1, <2>2, BoundKept DEF PInv, history
<1>2. CASE ConnectEstablished(c)
  <2>1. Runs("connectEstablished", c) /\ "connectEstablished" \in Op /\ UNCHANGED vars
    BY <1>2 DEF ConnectEstablished, Op
  <2>2. CASE m_state[c] # "kConnecting"
    BY <1>1, <1>2, <2>1, <2>2 DEF ConnectEstablished
  <2>3. CASE m_state[c] = "kConnecting"
    <3>1. /\ m_state'[c] = "kConnected" /\ life' = life
          /\ \A x \in Channel : x # c => m_state'[x] = m_state[x]
          /\ pendingFunctors' = <<Functor("enableReading", c)>> \o Tail(pendingFunctors)
          /\ UNCHANGED <<late, unfinished, resurrected>>
      BY <1>2, <2>3 DEF ConnectEstablished, GoesOn, SetState, history, QInv, QType
    <3>2. /\ pendingFunctors' # <<>>
          /\ Head(pendingFunctors') = Functor("enableReading", c)
      <4>1. pendingFunctors \in Seq(Functors) /\ pendingFunctors # <<>>
        BY <2>1 DEF QInv, QType, Runs
      <4>2. Functor("enableReading", c) \in Functors
        BY FunctorType DEF Op
      <4> QED BY <3>1, <4>1, <4>2, HeadReplaced
    <3>3. Establishing(c)' /\ \A x \in Channel : x # c => ~Establishing(x)'
      BY <3>2, FunctorsDiffer DEF Establishing
    <3>4. life[c] \notin Over /\ m_index[c] = kNew /\ m_events[c] = {}
      BY <2>3 DEF QInv, LifeAndState, Closing, PInv, Bound, Unregistered
    <3>5. Bound(c)'
      BY <2>1, <3>1, <3>3, <3>4 DEF Bound, Alive, Unregistered, vars
    <3>6. \A x \in Channel : Untouched(x)
      BY <2>1 DEF Untouched, vars
    <3> QED BY <1>0, <2>1, <3>1, <3>3, <3>5, <3>6, OthersBound
  <2> QED BY <2>2, <2>3
<1>3. CASE EnableAfterSetState(c)
  <2>1. Runs("enableReading", c) /\ "enableReading" \in Op /\ UNCHANGED history
    BY <1>3 DEF EnableAfterSetState, Op
  <2>2. m_state[c] \notin {"kConnecting", "kDisconnected"}
    BY <2>1, HeadLives
  <2>3. CASE HandleClose(c)
    BY <1>0, <2>1, <2>2, <2>3, ClosingKeepsP
  <2>4. CASE EnableReadingSucceeds(c) /\ Done(<<>>) /\ UNCHANGED connVars
    BY <1>0, <2>1, <2>4, EstablishedIsBound
  <2> QED BY <1>3, <2>3, <2>4 DEF EnableAfterSetState, Establish
<1>4. CASE ForceCloseInLoop(c)
  <2>1. /\ Runs("forceCloseInLoop", c) /\ "forceCloseInLoop" \in Op
        /\ "forceCloseInLoop" # "enableReading" /\ UNCHANGED history
    BY <1>4 DEF ForceCloseInLoop, Op
  <2>2. CASE m_state[c] \in {"kConnected", "kDisConnecting"}
    BY <1>0, <1>4, <2>1, <2>2, ClosingKeepsP DEF ForceCloseInLoop
  <2>3. CASE m_state[c] \notin {"kConnected", "kDisConnecting"}
    BY <1>1, <1>4, <2>1, <2>3 DEF ForceCloseInLoop
  <2> QED BY <2>2, <2>3
<1>5. CASE ConnectDestroyed(c)
  <2> USE <1>5 DEF ConnectDestroyed
  <2>1. /\ Runs("connectDestroyed", c) /\ "connectDestroyed" \in Op
        /\ "connectDestroyed" # "enableReading" /\ fd[c] \in Fd
    BY PollerAssumption DEF Op
  <2>2. /\ life[c] \in Live /\ m_state[c] \in State \ {"kConnecting"}
        /\ \A x \in Channel : ~Establishing(x)
    BY <2>1, HeadLives, OneEstablishes DEF QInv, QType
  <2>3. CASE m_state[c] = "kConnected"
    <3>1. SetEvents(c, kNoneEvent) /\ kNoneEvent \in SUBSET Event
      BY <2>3 DEF DisableAll, kNoneEvent
    <3>2. /\ \A x \in Channel : x # c => Untouched(x)
          /\ m_events'[c] = kNoneEvent
          /\ m_index'[c] = kNew => m_index[c] = kNew
      BY <3>1, SetEventsFrame
    <3>3. /\ m_state'[c] = "kDisconnected" /\ life' = life
          /\ \A x \in Channel : x # c => m_state'[x] = m_state[x]
          /\ life[c] \notin Over
          /\ UNCHANGED <<late, unfinished, resurrected>>
          /\ pendingFunctors' = <<Functor("remove", c)>> \o Tail(pendingFunctors)
      BY <2>2, <2>3 DEF SetState, GoesOn, QInv, QType, LifeAndState, Closing, history
    <3>4. \A x \in Channel : ~Establishing(x)'
      <4>1. pendingFunctors \in Seq(Functors) /\ pendingFunctors # <<>>
        BY <2>1 DEF QInv, QType, Runs
      <4>2. Functor("remove", c) \in Functors
        BY FunctorType DEF Op
      <4>3. Head(pendingFunctors') = Functor("remove", c)
        BY <3>3, <4>1, <4>2, HeadReplaced
      <4> QED BY <4>3, FunctorsDiffer DEF Establishing
    <3>5. m_index'[c] = kNew => Stale(fd[c])'
      BY <1>0, <2>1, <2>2, <2>3, <3>2 DEF PInv, Bound, Unregistered
    <3>6. Bound(c)'
      BY <3>2, <3>3, <3>4, <3>5 DEF Bound, Alive, Unregistered, kNoneEvent
    <3> QED BY <1>0, <2>1, <3>2, <3>3, <3>4, <3>6, OthersBound
  <2>4. CASE m_state[c] # "kConnected"
    <3>1. m_state[c] \in Closing /\ Released(c)
      BY <2>2, <2>4 DEF State, Closing
    <3> QED BY <1>0, <2>1, <3>1, ReleasingKeepsP
  <2> QED BY <2>3, <2>4
<1>6. CASE RemoveAfterCallback(c)
  <2>1. /\ Runs("remove", c) /\ "remove" \in Op /\ "remove" # "enableReading"
        /\ Released(c)
    BY <1>6 DEF RemoveAfterCallback, Op
  <2>2. m_state[c] \in Closing
    BY <2>1, HeadLives
  <2> QED BY <1>0, <2>1, <2>2, ReleasingKeepsP
<1> QED BY <1>2, <1>3, <1>4, <1>5, <1>6 DEF RunFunctor

LEMMA CallKeepsP ==
  ASSUME IInv, QInv, PInv, NEW t \in Thread, NEW c \in Channel, InCall(t, c)
  PROVE  PInv'
<1>1. /\ UNCHANGED <<vars, life, late, unfinished>> /\ resurrected \subseteq resurrected'
      /\ \A x \in Channel : fd[x] \in Fd /\ Untouched(x)
  BY PollerAssumption DEF InCall, Shutdown, ForceClose, Enter, StoreState,
                          QueueForceClose, connVars, history, Untouched, vars
<1>2. \A x \in Channel : Establishing(x)' <=> Establishing(x)
  <2>1. CASE QueueForceClose(t, c)
    <3>1. "forceCloseInLoop" \in Op \ {"enableReading"}
      BY DEF Op
    <3> QED BY <2>1, <3>1, QueuedBehind DEF QueueForceClose
  <2>2. CASE ~QueueForceClose(t, c)
    BY <2>2 DEF InCall, Shutdown, ForceClose, Enter, StoreState, loopVars, Establishing
  <2> QED BY <2>1, <2>2
<1>3. \A d \in Fd : Stale(d) => Stale(d)'
  BY <1>1 DEF Stale, vars
<1> SUFFICES ASSUME NEW x \in Channel PROVE Bound(x)'
  BY DEF PInv
<1>4. CASE m_state'[x] = m_state[x]
  BY <1>1, <1>2, <1>3, <1>4, BoundKept DEF PInv
<1>5. CASE m_state'[x] # m_state[x]
  <2>1. /\ x = c /\ StoreState(t, c) /\ m_state'[x] = "kDisConnecting"
        /\ m_state[x] # "kConnecting"
    <3>1. StoreState(t, c)
      BY <1>5 DEF InCall, Shutdown, ForceClose, Enter, QueueForceClose, connVars
    <3>2. m_state[c] # "kConnecting"
      BY <3>1, InACall DEF StoreState
    <3> QED BY <1>5, <3>1, <3>2 DEF StoreState, SetState, QInv, QType
  <2>2. m_state[x] = "kDisconnected" => x \in resurrected'
    BY <2>1 DEF StoreState
  <2>3. m_state[x] \in {"kConnected", "kDisConnecting", "kDisconnected"}
    BY <2>1 DEF QInv, QType, State
  <2>4. /\ Alive(x)' => Alive(x)
        /\ Unregistered(x)' <=> Unregistered(x)
    BY <1>1, <1>2, <2>1, <2>2, <2>3 DEF Alive, Unregistered
  <2>5. life[x] \in Over => x \in unfinished \cup resurrected'
    BY <1>1, <2>2, <2>3 DEF PInv, Bound, QInv, LifeAndState, Closing
  <2> QED BY <1>1, <1>3, <2>1, <2>4, <2>5 DEF PInv, Bound, vars
<1> QED BY <1>4, <1>5

LEMMA OwnerKeepsP ==
  ASSUME IInv, QInv, PInv, NEW c \in Channel, Open(c) \/ GiveUp(c) \/ Destroy(c),
         \A d \in Fd : Stale(d) => Stale(d)'
  PROVE  PInv'
<1>1. m_state \in [Channel -> State] /\ life \in [Channel -> Life]
  BY DEF QInv, QType
<1>2. UNCHANGED <<m_state, late, unfinished, resurrected>>
  BY DEF Open, GiveUp, Destroy, history
<1>3. \A x \in Channel : Establishing(x)' <=> Establishing(x)
  <2>1. CASE Open(c) \/ GiveUp(c)
    <3>1. PICK op \in Op \ {"enableReading"} :
            pendingFunctors' = Append(pendingFunctors, Functor(op, c))
      BY <2>1 DEF Open, GiveUp, Op
    <3> QED BY <3>1, QueuedBehind
  <2>2. CASE Destroy(c)
    BY <2>2 DEF Destroy, loopVars, Establishing
  <2> QED BY <2>1, <2>2
<1> SUFFICES ASSUME NEW x \in Channel PROVE Bound(x)'
  BY DEF PInv
<1>4. /\ fd[x] \in Fd /\ fd[c] \in Fd
      /\ Stale(fd[x]) => Stale(fd[x])'
      /\ Unregistered(x)' <=> Unregistered(x)
  BY <1>2, <1>3, PollerAssumption DEF Unregistered
<1>5. CASE Open(c) \/ GiveUp(c)
  <2>1. UNCHANGED vars /\ (x # c => life'[x] = life[x])
    BY <1>1, <1>5 DEF Open, GiveUp, SetLife
  <2>2. CASE x # c
    BY <1>2, <1>3, <1>4, <2>1, <2>2, BoundKept DEF PInv, Untouched, vars
  <2>3. CASE x = c
    <3>1. life'[c] \notin Over /\ (Alive(c)' => Alive(c))
      BY <1>1, <1>2, <1>3, <1>5 DEF Open, GiveUp, SetLife, Alive, Over, QInv, LifeAndState
    <3> QED BY <1>2, <1>4, <2>1, <2>3, <3>1 DEF PInv, Bound, vars
  <2> QED BY <2>2, <2>3
<1>6. CASE Destroy(c)
  <2>1. /\ life[c] = "released" /\ life'[c] = "destroyed"
        /\ x # c => life'[x] = life[x]
        /\ UNCHANGED <<m_events, m_index, m_channels>>
        /\ fd[x] # fd[c] => kernel'[fd[x]] = kernel[fd[x]]
    BY <1>1, <1>4, <1>6 DEF Destroy, SetLife, CloseFd, vars, IInv, TypeOK
  <2>2. CASE x = c
    <3>1. ~Alive(c)' /\ life[c] \in Over
      BY <2>1 DEF Alive, Over
    <3> QED BY <1>2, <1>4, <2>1, <2>2, <3>1 DEF PInv, Bound
  <2>3. CASE x # c /\ fd[x] = fd[c]
    <3>1. life[x] \in {"unborn", "destroyed"}
      BY <2>1, <2>3 DEF QInv, OneOwner
    <3>2. ~Alive(x)'
      BY <1>2, <2>1, <2>3, <3>1 DEF Alive, QInv, LifeAndState
    <3> QED BY <1>2, <1>4, <2>1, <2>3, <3>2 DEF PInv, Bound
  <2>4. CASE x # c /\ fd[x] # fd[c]
    <3>1. Untouched(x)
      BY <2>1, <2>4 DEF Untouched
    <3> QED BY <1>2, <1>3, <1>4, <2>1, <2>4, <3>1, BoundKept DEF PInv
  <2> QED BY <2>2, <2>3, <2>4
<1> QED BY <1>5, <1>6

LEMMA PollKeepsP ==
  ASSUME IInv, QInv, PInv, NEW batch \in Batches, PollReports(batch)
  PROVE  PInv'
<1>1. /\ UNCHANGED <<m_state, life, pendingFunctors, unfinished, resurrected, m_index,
                    m_channels, kernel>>
      /\ late \subseteq late'
  BY DEF PollReports, Poll, connVars
<1> SUFFICES ASSUME NEW x \in Channel PROVE Bound(x)'
  BY DEF PInv
<1>2. /\ Establishing(x)' <=> Establishing(x)
      /\ Stale(fd[x])' <=> Stale(fd[x])
  BY <1>1 DEF Establishing, Stale
<1>3. CASE m_events'[x] = m_events[x]
  BY <1>1, <1>2, <1>3, BoundKept DEF PInv, Untouched
<1>4. CASE m_events'[x] # m_events[x]
  <2>1. PICK i \in DOMAIN batch : batch[i].ch = x /\ m_events'[x] = batch[i].revents
    BY <1>4 DEF PollReports, Poll, StoreRevents, Filled
  <2>2. m_events'[x] # {} /\ m_index[x] # kNew
    BY <2>1, BatchReports
  <2>3. m_state[x] = "kDisconnected" => x \in late'
    BY <2>1 DEF PollReports
  <2>4. /\ Alive(x)' <=> Alive(x)
        /\ Unregistered(x)' <=> Unregistered(x)
    BY <1>1, <1>2 DEF Alive, Unregistered
  <2> QED BY <1>1, <1>2, <2>2, <2>3, <2>4 DEF PInv, Bound
<1> QED BY <1>3, <1>4

LEMMA PStep == IInv /\ QInv /\ PInv /\ [ReactorNext]_reactorVars => PInv'
<1> SUFFICES ASSUME IInv, QInv, PInv, [ReactorNext]_reactorVars PROVE PInv'
  OBVIOUS
<1>0. \A d \in Fd : Stale(d) => Stale(d)'
  BY StepSparesStale
<1>1. ASSUME UNCHANGED <<m_events, m_index, m_channels, kernel, connVars, pendingFunctors,
                         history>>
      PROVE  PInv'
  BY <1>1 DEF PInv, Bound, Alive, Unregistered, Establishing, Stale, connVars, history
<1>2. ASSUME PollTimesOut \/ HandleActive \/ TakeFunctors \/ EndTurn PROVE PInv'
  BY <1>1, <1>2 DEF PollTimesOut, HandleActive, TakeFunctors, EndTurn, HandleEvent,
                    loopVars, vars
<1>3. CASE UNCHANGED reactorVars
  BY <1>1, <1>3 DEF reactorVars, loopVars, vars
<1> QED BY <1>0, <1>2, <1>3, FunctorKeepsP, OwnerKeepsP, CallKeepsP, PollKeepsP
        DEF ReactorNext, LoopStep

LEMMA PInit == ReactorInit => PInv
BY DEF ReactorInit, Init, PInv, Bound, Alive, Unregistered, Over, kNoneEvent, kNew
-----------------------------------------------------------------------------
\* The functors, the lives and the poller agree in every reachable state.
THEOREM ReactorAgrees == ReactorSpec => [](IInv /\ QInv /\ PInv)
<1>1. ReactorInit => IInv /\ QInv /\ PInv
  BY InitInv, QInit, PInit DEF ReactorInit
<1>2. IInv /\ QInv /\ PInv /\ [ReactorNext]_reactorVars => (IInv /\ QInv /\ PInv)'
  BY StepInv, PollerStep, QStep, PStep
<1> QED BY <1>1, <1>2, PTL DEF ReactorSpec

\* The variables of the reactor keep their types.
THEOREM ReactorTypeCorrect == ReactorSpec => []ReactorTypeOK
<1>1. IInv /\ QInv => ReactorTypeOK
  BY DEF IInv, QInv, QType, ReactorTypeOK
<1> QED BY <1>1, ReactorAgrees, PTL

\* A connected connection has its entry and its registration, for reading.
THEOREM ConnectedStaysRegistered == ReactorSpec => []ConnectedIsRegistered
<1>1. PInv => ConnectedIsRegistered
  BY DEF PInv, Bound, Alive, ConnectedIsRegistered
<1> QED BY <1>1, ReactorAgrees, PTL

\* Only a connection that was reported after it was disconnected, or destroyed while it
\* was being closed, leaves its channel in the poller's map.
THEOREM OnlyLateOnesStay == ReactorSpec => []OnlyTheseStay
<1>1. PInv => OnlyTheseStay
  BY DEF PInv, Bound, Over, OnlyTheseStay
<1> QED BY <1>1, ReactorAgrees, PTL

\* A channel that outlives its connection in the map is there for ever, and keeps every
\* later connection with its descriptor from being connected.
THEOREM StaleEntriesStay == ReactorSpec => StaleIsForEver
<1> DEFINE Inv == IInv /\ QInv /\ PInv
           Stays == \A d \in Fd : Stale(d) =>
                      /\ Stale(d)'
                      /\ \A c \in Channel :
                           (fd[c] = d /\ m_state'[c] = "kConnected") => Establishing(c)'
<1>1. Inv /\ Inv' /\ [ReactorNext]_reactorVars => Stays
  <2> SUFFICES ASSUME Inv, Inv', [ReactorNext]_reactorVars, NEW d \in Fd, Stale(d)
               PROVE  /\ Stale(d)'
                      /\ \A c \in Channel :
                           (fd[c] = d /\ m_state'[c] = "kConnected") => Establishing(c)'
    OBVIOUS
  <2>1. Stale(d)'
    BY StepSparesStale
  <2>2. ASSUME NEW c \in Channel, fd[c] = d, m_state'[c] = "kConnected", ~Establishing(c)'
        PROVE  FALSE
    <3>1. life'[c] # "destroyed" /\ c \notin resurrected'
      BY <2>2 DEF QInv, LifeAndState, Over, Closing
    <3>2. m_channels'[d] = c
      BY <2>2, <3>1 DEF PInv, Bound, Alive
    <3> QED BY <2>1, <3>1, <3>2 DEF Stale
  <2> QED BY <2>1, <2>2
<1>2. ReactorSpec => []Inv
  BY ReactorAgrees
<1>3. Inv /\ Inv' /\ [ReactorNext]_reactorVars => [Stays]_reactorVars
  BY <1>1
<1> QED BY <1>2, <1>3, PTL DEF ReactorSpec, StaleIsForEver
=============================================================================
