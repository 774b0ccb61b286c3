-------------------------- MODULE EPollPollerProofs --------------------------
(***************************************************************************)
(* Proofs about EPollPoller, for any channels and any finite set of        *)
(* descriptors, however many channels share one.                           *)
(*                                                                         *)
(* The argument: the map, the index of the channels and epoll agree.  An   *)
(* entry of the map names a channel of that descriptor, whose index is     *)
(* kAdded and which was never removed (MapOwned); a channel whose index is *)
(* kAdded is in the map or was removed (AddedIsKnown); and the index of a  *)
(* removed channel stays kAdded (RemovedIsAdded), so that updateChannel,   *)
(* which looks for its entry, never takes it in again.                     *)
(***************************************************************************)
EXTENDS EPollPoller, FiniteSetTheorems, TLAPS

\* An entry of m_channels is a live channel of that descriptor.
MapOwned ==
  \A d \in Fd : m_channels[d] # NoChannel =>
    /\ fd[m_channels[d]] = d
    /\ m_index[m_channels[d]] = kAdded
    /\ m_channels[d] \notin removed

AddedIsKnown ==
  \A c \in Channel : m_index[c] = kAdded => m_channels[fd[c]] = c \/ c \in removed

RemovedIsAdded == \A c \in removed : m_index[c] = kAdded

IInv == TypeOK /\ MapOwned /\ AddedIsKnown /\ RemovedIsAdded /\ RegistrationOwned
-----------------------------------------------------------------------------
\* The active channels fillActiveChannels collects are a prefix of the batch.
LEMMA FilledIsPrefix ==
  ASSUME NEW n \in Nat, NEW batch, DOMAIN batch = 1..n
  PROVE  Cardinality(Filled(batch)) \in 0..n
<1>1. Filled(batch) \subseteq 1..n
  BY DEF Filled
<1>2. IsFiniteSet(1..n) /\ Cardinality(1..n) = n
  BY FS_Interval
<1>3. Cardinality(Filled(batch)) \in Nat /\ Cardinality(Filled(batch)) <= n
  BY <1>1, <1>2, FS_Subset, FS_CardinalityType
<1> QED BY <1>3

\* A batch is a sequence of reports on channels.
LEMMA BatchType ==
  ASSUME NEW batch \in Batches
  PROVE  \E n \in Nat : /\ DOMAIN batch = 1..n
                        /\ \A i \in 1..n : /\ batch[i].ch \in Channel
                                           /\ batch[i].revents \in SUBSET Event
<1>1. Cardinality(Fd) \in Nat
  BY PollerAssumption, FS_CardinalityType
<1>2. PICK n \in 1..Cardinality(Fd) :
        batch \in [1..n -> {r \in [ch : Channel, revents : (SUBSET Event) \ {{}}] :
                              /\ kernel[fd[r.ch]].ch = r.ch
                              /\ r.revents \subseteq
                                   kernel[fd[r.ch]].events \cup Unasked}]
  BY DEF Batches
<1>3. \A i \in 1..n : batch[i] \in [ch : Channel, revents : SUBSET Event]
  BY <1>2
<1>4. n \in Nat /\ DOMAIN batch = 1..n
  BY <1>1, <1>2
<1> QED BY <1>3, <1>4

LEMMA InitInv == Init => IInv
BY PollerAssumption
   DEF Init, IInv, TypeOK, MapOwned, AddedIsKnown, RemovedIsAdded, RegistrationOwned,
       Registered, NoRegistration, kNoneEvent, kNew, kAdded

\* epoll_ctl(ADD) keeps the shape of the registrations and changes at most the
\* one of the channel's descriptor, to a registration of that channel.
LEMMA AddEffect ==
  ASSUME TypeOK, NEW c \in Channel, NEW events \in SUBSET Event, EpollAdd(c, events)
  PROVE  /\ kernel' \in [Fd -> [ch : Channel, events : SUBSET Event]
                                 \cup {NoRegistration}]
         /\ \A d \in Fd : \/ kernel'[d] = kernel[d]
                          \/ d = fd[c] /\ kernel'[d] = [ch |-> c, events |-> events]
<1>1. fd[c] \in Fd
  BY PollerAssumption
<1> QED BY <1>1 DEF TypeOK, EpollAdd

\* What updateChannel does to the map, the index and epoll keeps them together.
LEMMA UpdateStep ==
  ASSUME IInv, NEW c \in Channel, NEW events \in SUBSET Event,
         SetEvents(c, events)
  PROVE  IInv'
<1> USE DEF IInv
<1>1. fd[c] \in Fd
  BY PollerAssumption
<1>2. m_events' \in [Channel -> SUBSET Event]
  BY DEF SetEvents, TypeOK
<1>3. CASE UNCHANGED <<m_channels, m_index, kernel>>
  BY <1>2, <1>3 DEF SetEvents, TypeOK, MapOwned, AddedIsKnown, RemovedIsAdded,
                    RegistrationOwned, Registered
<1>4. CASE /\ IF m_index[c] = kNew THEN m_channels[fd[c]] = NoChannel
                                   ELSE m_channels[fd[c]] = c
           /\ m_channels' = [m_channels EXCEPT ![fd[c]] = c]
           /\ m_index' = [m_index EXCEPT ![c] = kAdded]
           /\ EpollAdd(c, events)
  <2>1. /\ kernel' \in [Fd -> [ch : Channel, events : SUBSET Event]
                                \cup {NoRegistration}]
        /\ \A d \in Fd : \/ kernel'[d] = kernel[d]
                         \/ d = fd[c] /\ kernel'[d] = [ch |-> c, events |-> events]
    BY <1>4, AddEffect
  <2>2. c \notin removed
    BY <1>1, <1>4, PollerAssumption DEF TypeOK, MapOwned, RemovedIsAdded, kNew, kAdded
  <2>3. UNCHANGED <<m_revents, activeChannels, reported, removed>>
    BY DEF SetEvents
  <2>4. TypeOK'
    BY <1>1, <1>2, <1>4, <2>1, <2>3 DEF TypeOK
  <2>5. MapOwned'
    BY <1>1, <1>4, <2>2, <2>3 DEF TypeOK, MapOwned
  <2>6. AddedIsKnown' /\ RemovedIsAdded'
    BY <1>1, <1>4, <2>3, PollerAssumption DEF TypeOK, AddedIsKnown, RemovedIsAdded,
                                            MapOwned
  <2>7. RegistrationOwned'
    <3> SUFFICES ASSUME NEW d \in Fd, Registered(d)'
                 PROVE  /\ m_channels'[d] = kernel'[d].ch
                        /\ fd[kernel'[d].ch] = d
                        /\ m_index'[kernel'[d].ch] = kAdded
      BY DEF RegistrationOwned
    <3>1. CASE d = fd[c] /\ kernel'[d] = [ch |-> c, events |-> events]
      BY <1>4, <3>1 DEF TypeOK
    <3>2. CASE kernel'[d] = kernel[d]
      <4>1. Registered(d)
        BY <3>2 DEF Registered, NoRegistration
      <4>2. /\ kernel[d].ch \in Channel
            /\ m_channels[d] = kernel[d].ch
            /\ fd[kernel[d].ch] = d
            /\ m_index[kernel[d].ch] = kAdded
        BY <4>1 DEF TypeOK, RegistrationOwned, Registered
      <4> QED BY <1>4, <3>2, <4>2, PollerAssumption DEF TypeOK
    <3> QED BY <2>1, <3>1, <3>2
  <2> QED BY <2>4, <2>5, <2>6, <2>7
<1> QED BY <1>3, <1>4 DEF SetEvents, UpdateChannel

LEMMA RemoveStep ==
  ASSUME IInv, NEW c \in Channel, Remove(c)
  PROVE  IInv'
<1> USE DEF IInv
<1>1. fd[c] \in Fd
  BY PollerAssumption
<1>2. CASE UNCHANGED <<m_channels, m_index, kernel, removed>>
  BY <1>2 DEF Remove, TypeOK, MapOwned, AddedIsKnown, RemovedIsAdded,
              RegistrationOwned, Registered
<1>3. CASE /\ m_channels[fd[c]] = c
           /\ m_channels' = [m_channels EXCEPT ![fd[c]] = NoChannel]
           /\ IF m_index[c] = kAdded THEN EpollDel(c) ELSE UNCHANGED kernel
           /\ m_index' = [m_index EXCEPT ![c] = kAdded]
           /\ removed' = removed \cup {c}
  <2>1. m_index[c] = kAdded
    BY <1>1, <1>3, PollerAssumption DEF MapOwned
  <2>2. kernel' = [kernel EXCEPT ![fd[c]] = NoRegistration]
    BY <1>3, <2>1 DEF EpollDel
  <2>3. m_index' = m_index
    BY <1>3, <2>1 DEF TypeOK
  <2>4. TypeOK'
    BY <1>1, <1>3, <2>2, <2>3 DEF Remove, TypeOK
  <2>5. MapOwned'
    BY <1>1, <1>3, <2>3 DEF TypeOK, MapOwned
  <2>6. AddedIsKnown' /\ RemovedIsAdded'
    BY <1>1, <1>3, <2>1, <2>3, PollerAssumption
       DEF TypeOK, AddedIsKnown, RemovedIsAdded
  <2>7. RegistrationOwned'
    BY <1>1, <1>3, <2>2, <2>3 DEF TypeOK, RegistrationOwned, Registered, NoRegistration
  <2> QED BY <2>4, <2>5, <2>6, <2>7
<1> QED BY <1>2, <1>3 DEF Remove, RemoveChannel

LEMMA PollStep ==
  ASSUME IInv, NEW batch \in Batches, Poll(batch)
  PROVE  IInv'
<1> USE DEF IInv
<1>1. PICK n \in Nat : /\ DOMAIN batch = 1..n
                       /\ \A i \in 1..n : /\ batch[i].ch \in Channel
                                          /\ batch[i].revents \in SUBSET Event
  BY BatchType
<1>2. Cardinality(Filled(batch)) \in 0..n
  BY <1>1, FilledIsPrefix
<1>3. activeChannels' \in Seq(Channel)
  BY <1>1, <1>2 DEF Poll
<1>4. Filled(batch) \subseteq DOMAIN batch
  BY DEF Filled
<1>5. m_events' \in [Channel -> SUBSET Event]
  BY <1>1, <1>4 DEF Poll, StoreRevents, TypeOK
<1>6. reported' \in [Channel -> SUBSET Event]
  BY <1>1 DEF Poll, TypeOK
<1>7. TypeOK'
  BY <1>3, <1>5, <1>6 DEF Poll, StoreRevents, TypeOK
<1> QED BY <1>7 DEF Poll, MapOwned, AddedIsKnown, RemovedIsAdded, RegistrationOwned,
                    Registered

LEMMA StepInv == IInv /\ [Next]_vars => IInv'
<1> SUFFICES ASSUME IInv, [Next]_vars PROVE IInv'
  OBVIOUS
<1>1. ASSUME NEW c \in Channel, ChannelOp(c) PROVE IInv'
  <2>1. m_events[c] \in SUBSET Event
    BY DEF IInv, TypeOK
  <2>2. /\ m_events[c] \cup kReadEvent \in SUBSET Event
        /\ m_events[c] \ kReadEvent \in SUBSET Event
        /\ m_events[c] \cup kWriteEvent \in SUBSET Event
        /\ m_events[c] \ kWriteEvent \in SUBSET Event
        /\ kNoneEvent \in SUBSET Event
    BY <2>1 DEF kReadEvent, kWriteEvent, kNoneEvent, Event
  <2> QED BY <1>1, <2>2, UpdateStep, RemoveStep
          DEF ChannelOp, EnableReading, DisableReading, EnableWriting, DisableWriting,
              DisableAll
<1>2. ASSUME NEW batch \in Batches, Poll(batch) PROVE IInv'
  BY <1>2, PollStep
<1>3. ASSUME HandleEvent PROVE IInv'
  <2>1. Head(activeChannels) \in Channel /\ Tail(activeChannels) \in Seq(Channel)
    BY <1>3 DEF HandleEvent, IInv, TypeOK
  <2>2. TypeOK'
    BY <1>3, <2>1 DEF HandleEvent, IInv, TypeOK
  <2> QED BY <1>3, <2>2 DEF HandleEvent, IInv, MapOwned, AddedIsKnown, RemovedIsAdded,
                            RegistrationOwned, Registered
<1>4. ASSUME NEW d \in Fd, CloseFd(d) PROVE IInv'
  <2>1. TypeOK'
    BY <1>4 DEF CloseFd, IInv, TypeOK
  <2>2. RegistrationOwned'
    BY <1>4 DEF CloseFd, IInv, TypeOK, RegistrationOwned, Registered, NoRegistration
  <2> QED BY <1>4, <2>1, <2>2 DEF CloseFd, IInv, MapOwned, AddedIsKnown, RemovedIsAdded
<1>5. ASSUME UNCHANGED vars PROVE IInv'
  BY <1>5 DEF vars, IInv, TypeOK, MapOwned, AddedIsKnown, RemovedIsAdded,
              RegistrationOwned, Registered
<1> QED BY <1>1, <1>2, <1>3, <1>4, <1>5 DEF Next
-----------------------------------------------------------------------------
\* The map, the indexes and epoll agree in every reachable state.
THEOREM Agreement == Spec => []IInv
BY InitInv, StepInv, PTL DEF Spec

\* The variables keep their types; in particular kDeleted is never stored.
THEOREM TypeCorrect == Spec => []TypeOK
<1>1. IInv => TypeOK
  BY DEF IInv
<1> QED BY <1>1, Agreement, PTL

\* epoll never holds a pointer to a channel the poller does not have, so a batch
\* is never given up by fillActiveChannels.
THEOREM NoStaleRegistration == Spec => []RegistrationOwned
<1>1. IInv => RegistrationOwned
  BY DEF IInv
<1> QED BY <1>1, Agreement, PTL

\* A channel that was removed never comes back into the map or into epoll.
THEOREM RemovedIsForever == Spec => []RemovedStaysOut
<1>1. IInv => RemovedStaysOut
  <2> SUFFICES ASSUME IInv, NEW c \in removed
               PROVE  m_channels[fd[c]] # c /\ kernel[fd[c]].ch # c
    BY DEF RemovedStaysOut
  <2>1. c \in Channel /\ c # NoChannel /\ fd[c] \in Fd
    BY PollerAssumption DEF IInv, TypeOK
  <2>2. m_channels[fd[c]] # c
    BY <2>1 DEF IInv, MapOwned
  <2>3. kernel[fd[c]].ch # c
    BY <2>1, <2>2 DEF IInv, TypeOK, RegistrationOwned, Registered, NoRegistration
  <2> QED BY <2>2, <2>3
<1> QED BY <1>1, Agreement, PTL

\* Of the channels that share a descriptor at most one is added and not removed.
THEOREM OneLiveChannel == Spec => []OneChannelPerFd
<1>1. IInv => OneChannelPerFd
  BY DEF IInv, AddedIsKnown, OneChannelPerFd
<1> QED BY <1>1, Agreement, PTL
=============================================================================
