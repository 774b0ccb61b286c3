------------------------------- MODULE Reactor -------------------------------
(***************************************************************************)
(* The life of the connections of one loop: TcpConnection                  *)
(* (src/XNet/TcpConnection.cpp) over Channel and EPollPoller, driven by the *)
(* loop.  The loop (EventLoop.cpp) and the owner of the connections are    *)
(* not in src/; they are modelled from how src/ uses them: a turn polls,   *)
(* handles the active channels, then runs the functors that were queued    *)
(* when it began; the owner has connectEstablished run once, and           *)
(* connectDestroyed once, when a connection closes or when it gives it up. *)
(* Any thread that holds a connection may call shutdown and forceClose:    *)
(* they read m_state, then store kDisConnecting, then queue, with no lock. *)
(* A destroyed connection closes its descriptor, and the next socket gets  *)
(* the number again.  Here only what reaches the poller is kept of a       *)
(* connection; TcpConnection.tla has the rest.                             *)
(***************************************************************************)
EXTENDS EPollPoller

CONSTANTS
  Thread,        \* the threads that call shutdown and forceClose
  MaxFunctors    \* bound: functors pending when forceClose queues one more

ASSUME ReactorAssumption == MaxFunctors \in Nat

VARIABLES
  m_state,          \* of each connection, named by its channel
  life,             \* how far its owner has got with it
  pendingFunctors,  \* of the loop
  phase, todo,      \* of the loop: where the turn is, functors left to run in it
  call,             \* of each thread: the call it is in, and what comes next in it
  late,             \* history: disconnected when epoll reported them
  unfinished,       \* history: destroyed while they were kDisConnecting
  resurrected       \* history: a thread stored kDisConnecting over kDisconnected

connVars == <<m_state, life>>
loopVars == <<pendingFunctors, phase, todo>>
history  == <<late, unfinished, resurrected>>
reactorVars == <<vars, connVars, loopVars, call, history>>

State == {"kConnecting", "kConnected", "kDisConnecting", "kDisconnected"}
Life  == {"unborn", "owned", "disowned", "released", "destroyed"}
Op    == {"connectEstablished", "enableReading", "forceCloseInLoop", "connectDestroyed",
          "remove"}

Functor(op, c) == [op |-> op, conn |-> c]
Functors == [op : Op, conn : Channel]

\* What a call still has to do: store the state, or queue forceCloseInLoop.
Calls  == [op : {"shutdown", "forceClose", "queue"}, conn : Channel]
NoCall == [op |-> "none", conn |-> NoChannel]

ReactorInit ==
  /\ Init
  /\ m_state = [c \in Channel |-> "kConnecting"]
  /\ life = [c \in Channel |-> "unborn"]
  /\ pendingFunctors = <<>> /\ phase = "poll" /\ todo = 0
  /\ call = [t \in Thread |-> NoCall]
  /\ late = {} /\ unfinished = {} /\ resurrected = {}
-----------------------------------------------------------------------------
(* The connection and its owner, in any thread.                            *)

SetState(c, state) == m_state' = [m_state EXCEPT ![c] = state]
SetLife(c, l)      == life' = [life EXCEPT ![c] = l]

\* The owner has a socket with the number fd[c] and makes a connection of it.
Open(c) ==
  /\ life[c] = "unborn"
  /\ \A other \in Channel \ {c} :
       fd[other] = fd[c] => life[other] \in {"unborn", "destroyed"}
  /\ SetLife(c, "owned")
  /\ pendingFunctors' = Append(pendingFunctors, Functor("connectEstablished", c))
  /\ UNCHANGED <<vars, m_state, phase, todo, call, history>>

\* The owner gives the connection up.
GiveUp(c) ==
  /\ life[c] = "owned"
  /\ SetLife(c, "disowned")
  /\ pendingFunctors' = Append(pendingFunctors, Functor("connectDestroyed", c))
  /\ UNCHANGED <<vars, m_state, phase, todo, call, history>>

Enter(t, op, c) ==
  /\ call[t] = NoCall /\ life[c] # "destroyed"
  /\ call' = [call EXCEPT ![t] = Functor(op, c)]
  /\ UNCHANGED <<vars, connVars, loopVars, history>>

\* shutdown and forceClose read m_state.
Shutdown(t, c)   == Enter(t, "shutdown", c) /\ m_state[c] = "kConnected"
ForceClose(t, c) == /\ Enter(t, "forceClose", c)
                    /\ m_state[c] \in {"kConnected", "kDisConnecting"}

\* setState(kDisConnecting), whatever the state has become.  The functor of shutdown
\* only shuts the socket down.
StoreState(t, c) ==
  /\ \/ call[t] = Functor("shutdown", c) /\ call' = [call EXCEPT ![t] = NoCall]
     \/ /\ call[t] = Functor("forceClose", c)
        /\ call' = [call EXCEPT ![t] = Functor("queue", c)]
  /\ SetState(c, "kDisConnecting")
  /\ resurrected' = IF m_state[c] = "kDisconnected" THEN resurrected \cup {c}
                                                    ELSE resurrected
  /\ UNCHANGED <<vars, life, loopVars, late, unfinished>>

QueueForceClose(t, c) ==
  /\ call[t] = Functor("queue", c) /\ call' = [call EXCEPT ![t] = NoCall]
  /\ Len(pendingFunctors) < MaxFunctors
  /\ pendingFunctors' = Append(pendingFunctors, Functor("forceCloseInLoop", c))
  /\ UNCHANGED <<vars, connVars, phase, todo, history>>

\* The last reference goes, not under a callback and not under a call: m_channel, then
\* m_socket, which closes the descriptor.  The poller's map is not told.
Destroy(c) ==
  /\ life[c] = "released" /\ activeChannels = <<>>
  /\ \A i \in DOMAIN pendingFunctors : pendingFunctors[i].conn # c
  /\ \A t \in Thread : call[t].conn # c
  /\ SetLife(c, "destroyed")
  /\ IF Registered(fd[c]) THEN CloseFd(fd[c]) ELSE UNCHANGED vars
  /\ UNCHANGED <<m_state, loopVars, call, history>>
-----------------------------------------------------------------------------
(* The functors, in the loop thread.                                       *)

Runs(op, c) ==
  /\ phase = "functors" /\ todo > 0
  /\ Head(pendingFunctors) = Functor(op, c)
  /\ UNCHANGED <<phase, call>>

\* The functor is done and leaves others behind.
Done(queued) ==
  /\ pendingFunctors' = Tail(pendingFunctors) \o queued
  /\ todo' = todo - 1

\* The functor goes on after other threads have had their turn.
GoesOn(op, c) ==
  /\ pendingFunctors' = <<Functor(op, c)>> \o Tail(pendingFunctors)
  /\ UNCHANGED <<life, todo, history>>

\* Mutant: a connection that was refused is not reported to its owner.
CloseSilently(c) ==
  SetState(c, "kDisconnected") /\ DisableAll(c) /\ Done(<<>>) /\ UNCHANGED life

\* handleClose, with the owner's close callback: connectDestroyed, once.
HandleClose(c) ==
  /\ SetState(c, "kDisconnected")
  /\ DisableAll(c)
  /\ IF life[c] = "owned"
     THEN SetLife(c, "disowned") /\ Done(<<Functor("connectDestroyed", c)>>)
     ELSE UNCHANGED life /\ Done(<<>>)

\* enableReading returns whether ADD took the channel in.
EnableReadingSucceeds(c) == EnableReading(c) /\ kernel' # kernel

\* setState(kConnected) comes before enableReading: another thread may see it.
ConnectEstablished(c) ==
  /\ Runs("connectEstablished", c)
  /\ IF m_state[c] = "kConnecting"
     THEN SetState(c, "kConnected") /\ GoesOn("enableReading", c)
     ELSE Done(<<>>) /\ UNCHANGED <<connVars, history>>
  /\ UNCHANGED vars

\* Mutant: what enableReading returns is not looked at.
EstablishUnchecked(c) == EnableReading(c) /\ Done(<<>>) /\ UNCHANGED connVars

\* When enableReading fails, handleClose's disableAll updates the channel again: it is
\* refused again, or ADD is tried a second time, so its effect is that of both.
Establish(c) ==
  \/ EnableReadingSucceeds(c) /\ Done(<<>>) /\ UNCHANGED connVars
  \/ HandleClose(c)

EnableAfterSetState(c) == Runs("enableReading", c) /\ Establish(c) /\ UNCHANGED history

ForceCloseInLoop(c) ==
  /\ Runs("forceCloseInLoop", c)
  /\ IF m_state[c] \in {"kConnected", "kDisConnecting"}
     THEN HandleClose(c)
     ELSE Done(<<>>) /\ UNCHANGED <<vars, connVars>>
  /\ UNCHANGED history

\* Channel::remove.
RemoveIfQuiet(c) == IF m_events[c] = kNoneEvent THEN Remove(c) ELSE UNCHANGED vars

\* m_channel->remove(), the end of connectDestroyed; then the owner's functor is gone.
Released(c) ==
  /\ RemoveIfQuiet(c)
  /\ SetLife(c, "released")
  /\ Done(<<>>)
  /\ unfinished' = IF m_state[c] = "kDisConnecting" THEN unfinished \cup {c}
                                                    ELSE unfinished
  /\ UNCHANGED <<m_state, late, resurrected>>

\* A connected connection is disconnected first and the user called back: the rest
\* of the functor, "remove", is a step of its own.
ConnectDestroyed(c) ==
  /\ Runs("connectDestroyed", c)
  /\ IF m_state[c] = "kConnected"
     THEN SetState(c, "kDisconnected") /\ DisableAll(c) /\ GoesOn("remove", c)
     ELSE Released(c)

RemoveAfterCallback(c) == Runs("remove", c) /\ Released(c)
-----------------------------------------------------------------------------
(* The turn of the loop.                                                   *)

\* epoll_wait reports something; a disconnected connection may be in it, for
\* disableAll left its registration as it was.
PollReports(batch) ==
  /\ phase = "poll" /\ phase' = "handle"
  /\ Poll(batch)
  /\ late' = late \cup {c \in Channel : /\ m_state[c] = "kDisconnected"
                                        /\ \E i \in DOMAIN batch : batch[i].ch = c}
  /\ UNCHANGED <<connVars, pendingFunctors, todo, call, unfinished, resurrected>>

\* epoll_wait times out, or another thread woke the loop up.
PollTimesOut ==
  /\ phase = "poll" /\ phase' = "handle"
  /\ UNCHANGED <<vars, connVars, pendingFunctors, todo, call, history>>

\* handleEvent calls nothing: m_revents is never stored (Channel.h:42).
HandleActive ==
  /\ phase = "handle"
  /\ HandleEvent
  /\ UNCHANGED <<connVars, loopVars, call, history>>

\* The functors that are pending now are taken; those they queue wait for the next turn.
TakeFunctors ==
  /\ phase = "handle" /\ activeChannels = <<>>
  /\ phase' = "functors" /\ todo' = Len(pendingFunctors)
  /\ UNCHANGED <<vars, connVars, pendingFunctors, call, history>>

EndTurn ==
  /\ phase = "functors" /\ todo = 0
  /\ phase' = "poll"
  /\ UNCHANGED <<vars, connVars, pendingFunctors, todo, call, history>>
-----------------------------------------------------------------------------
RunFunctor(c) == \/ ConnectEstablished(c) \/ EnableAfterSetState(c)
                 \/ ForceCloseInLoop(c)
                 \/ ConnectDestroyed(c) \/ RemoveAfterCallback(c)

LoopStep == \/ PollTimesOut \/ HandleActive \/ TakeFunctors \/ EndTurn
            \/ \E c \in Channel : RunFunctor(c)
            \/ \E batch \in Batches : PollReports(batch)

InCall(t, c) == \/ Shutdown(t, c) \/ ForceClose(t, c)
                \/ StoreState(t, c) \/ QueueForceClose(t, c)

ReactorNext == \/ LoopStep
               \/ \E c \in Channel : Open(c) \/ GiveUp(c) \/ Destroy(c)
               \/ \E t \in Thread, c \in Channel : InCall(t, c)

ReactorSpec == ReactorInit /\ [][ReactorNext]_reactorVars

\* The loop keeps turning; the owner and the other threads do as they like.
FairReactorSpec == ReactorSpec /\ WF_reactorVars(LoopStep)
-----------------------------------------------------------------------------
(* Properties.                                                             *)

ReactorTypeOK ==
  /\ TypeOK
  /\ m_state \in [Channel -> State]
  /\ life \in [Channel -> Life]
  /\ pendingFunctors \in Seq(Functors)
  /\ phase \in {"poll", "handle", "functors"}
  /\ todo \in 0..Len(pendingFunctors)
  /\ call \in [Thread -> Calls \cup {NoCall}]
  /\ late \subseteq Channel /\ unfinished \subseteq Channel /\ resurrected \subseteq Channel

\* The connections use the poller only through the operations of its channels, so
\* everything that holds of EPollPoller holds here.
UsesThePoller == Init /\ [][Next]_vars

\* connectEstablished has set the state and not yet called enableReading.
Establishing(c) ==
  pendingFunctors # <<>> /\ Head(pendingFunctors) = Functor("enableReading", c)

\* A connection that counts as connected can be reported: from the end of
\* connectEstablished until it is disconnected or destroyed epoll has its channel, and
\* watches it for reading.  It does not hold of one that counts as connected because a
\* thread stored kDisConnecting after the loop had disconnected it.
ConnectedIsRegistered ==
  \A c \in Channel :
    (/\ m_state[c] \in {"kConnected", "kDisConnecting"} /\ life[c] # "destroyed"
     /\ ~Establishing(c) /\ c \notin resurrected) =>
      /\ kernel[fd[c]] = [ch |-> c, events |-> kReadEvent]
      /\ m_channels[fd[c]] = c

\* A destroyed connection is out of the poller's map, unless epoll reported it after it
\* was disconnected (its events came back, so remove did nothing) or it was destroyed
\* while it was kDisConnecting, for whatever reason.
OnlyTheseStay ==
  \A c \in Channel :
    (life[c] = "destroyed" /\ m_channels[fd[c]] = c) => c \in late \cup unfinished

\* The map keeps the channel of a connection that is gone.
Stale(d) == m_channels[d] # NoChannel /\ life[m_channels[d]] = "destroyed"

\* Such an entry is never cleared, and no connection with that descriptor ever gets
\* to the end of connectEstablished again: updateChannel refuses each of them.
StaleIsForEver ==
  [][\A d \in Fd : Stale(d) =>
       /\ Stale(d)'
       /\ \A c \in Channel :
            (fd[c] = d /\ m_state'[c] = "kConnected") => Establishing(c)']_reactorVars

\* A connection that is disconnected is given back by the loop.
ClosedIsReleased ==
  \A c \in Channel :
    m_state[c] = "kDisconnected" ~> life[c] \in {"released", "destroyed"}
=============================================================================
