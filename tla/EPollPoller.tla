----------------------------- MODULE EPollPoller -----------------------------
(***************************************************************************)
(* EPollPoller (src/XNet/EPollPoller.cpp) with the channels that use it    *)
(* (src/XNet/Channel.h, src/XNet/Channel.cpp), as they are written.        *)
(*                                                                         *)
(* Everything runs in the loop thread, so an operation on a channel is one *)
(* step, through Channel, EventLoop and EPollPoller down to epoll_ctl.     *)
(* epoll is modelled from its use: one registration per open descriptor,   *)
(* ADD fails on a descriptor that is registered, DEL on one that is not,   *)
(* and closing a descriptor ends its registration.  The number of a closed *)
(* descriptor is used again for the next socket, with another channel.     *)
(***************************************************************************)
EXTENDS Integers, FiniteSets, Sequences, ChannelEvents

CONSTANTS
  Channel,     \* the channel objects
  Fd,          \* descriptor numbers
  fd,          \* m_fd of each channel
  Unasked,     \* events epoll reports unasked: HUP, ERR
  NoChannel    \* no entry in m_channels

ASSUME PollerAssumption == /\ fd \in [Channel -> Fd]
                           /\ IsFiniteSet(Fd)
                           /\ NoChannel \notin Channel
                           /\ Unasked \subseteq {"HUP", "ERR"}

kNew     == -1
kAdded   == 1
kDeleted == 2

VARIABLES
  m_events,        \* of each channel: what it asks for
  m_revents,       \* of each channel: what epoll reported
  m_index,         \* of each channel: kNew, kAdded or kDeleted
  m_channels,      \* of the poller: the channel of each descriptor
  activeChannels,  \* of the loop: the channels handleEvent is still to be called on
  kernel,          \* epoll: the registration of each descriptor
  reported,        \* history: what epoll_wait reported of the active channels
  removed          \* history: the channels that were removed

vars == <<m_events, m_revents, m_index, m_channels, activeChannels, kernel, reported,
          removed>>

NoRegistration == [ch |-> NoChannel, events |-> {}]

Init ==
  /\ m_events = [c \in Channel |-> kNoneEvent]
  /\ m_revents = [c \in Channel |-> {}]
  /\ m_index = [c \in Channel |-> kNew]
  /\ m_channels = [d \in Fd |-> NoChannel]
  /\ activeChannels = <<>>
  /\ kernel = [d \in Fd |-> NoRegistration]
  /\ reported = [c \in Channel |-> {}] /\ removed = {}
-----------------------------------------------------------------------------
(* EPollPoller.                                                            *)

Registered(d) == kernel[d] # NoRegistration

\* update(XEPOLL_CTL_ADD): it fails on a descriptor that is registered (EEXIST)
\* and may fail on any (EBADF, ENOMEM, ENOSPC).
EpollAdd(c, events) ==
  \/ /\ ~Registered(fd[c])
     /\ kernel' = [kernel EXCEPT ![fd[c]] = [ch |-> c, events |-> events]]
  \/ UNCHANGED kernel

EpollDel(c) == kernel' = [kernel EXCEPT ![fd[c]] = NoRegistration]

\* Mutant: the map is not looked at before a new channel is stored in it.
UpdateUnchecked(c, events) ==
  /\ m_channels' = [m_channels EXCEPT ![fd[c]] = c]
  /\ m_index' = [m_index EXCEPT ![c] = kAdded]
  /\ EpollAdd(c, events)

\* updateChannel, on a channel whose events have just been set.  The condition of
\* line 63, (index==kNew || kDeleted), is always true: the branch that modifies
\* or deletes a registration is never taken, whatever the index.
UpdateChannel(c, events) ==
  IF (IF m_index[c] = kNew THEN m_channels[fd[c]] = NoChannel
                           ELSE m_channels[fd[c]] = c)
  THEN /\ m_channels' = [m_channels EXCEPT ![fd[c]] = c]
       /\ m_index' = [m_index EXCEPT ![c] = kAdded]
       /\ EpollAdd(c, events)
  ELSE UNCHANGED <<m_channels, m_index, kernel>>

\* Mutant: DEL for a channel that is marked deleted, not for one that is added.
RemoveKeepsRegistration(c) ==
  IF m_channels[fd[c]] = c /\ m_index[c] \in {kAdded, kDeleted}
  THEN /\ m_channels' = [m_channels EXCEPT ![fd[c]] = NoChannel]
       /\ IF m_index[c] = kDeleted THEN EpollDel(c) ELSE UNCHANGED kernel
       /\ m_index' = [m_index EXCEPT ![c] = kAdded]
       /\ removed' = removed \cup {c}
  ELSE UNCHANGED <<m_channels, m_index, kernel, removed>>

\* Mutant: the entry of the map is not erased.
RemoveKeepsEntry(c) ==
  IF m_channels[fd[c]] = c /\ m_index[c] \in {kAdded, kDeleted}
  THEN /\ EpollDel(c)
       /\ removed' = removed \cup {c}
       /\ UNCHANGED <<m_channels, m_index>>
  ELSE UNCHANGED <<m_channels, m_index, kernel, removed>>

\* removeChannel leaves the index at kAdded.
RemoveChannel(c) ==
  IF m_channels[fd[c]] = c /\ m_index[c] \in {kAdded, kDeleted}
  THEN /\ m_channels' = [m_channels EXCEPT ![fd[c]] = NoChannel]
       /\ IF m_index[c] = kAdded THEN EpollDel(c) ELSE UNCHANGED kernel
       /\ m_index' = [m_index EXCEPT ![c] = kAdded]
       /\ removed' = removed \cup {c}
  ELSE UNCHANGED <<m_channels, m_index, kernel, removed>>

\* poll and fillActiveChannels: epoll_wait returns some registrations with what
\* happened; at the first one that is not the poller's the rest is given up.
\* set_revents (Channel.h:42) stores into m_events.
Batches ==
  UNION {{b \in [1..n -> {r \in [ch : Channel, revents : (SUBSET Event) \ {{}}] :
                            /\ kernel[fd[r.ch]].ch = r.ch
                            /\ r.revents \subseteq
                                 kernel[fd[r.ch]].events \cup Unasked}] :
            \A i, j \in 1..n : b[i].ch = b[j].ch => i = j} :
         n \in 1..Cardinality(Fd)}

Filled(batch) == {i \in DOMAIN batch :
                    \A j \in 1..i : m_channels[fd[batch[j].ch]] = batch[j].ch}

StoreRevents(batch) ==
  /\ m_events' = [c \in Channel |->
       IF \E i \in Filled(batch) : batch[i].ch = c
       THEN batch[CHOOSE i \in Filled(batch) : batch[i].ch = c].revents
       ELSE m_events[c]]
  /\ UNCHANGED m_revents

Poll(batch) ==
  /\ activeChannels = <<>>
  /\ StoreRevents(batch)
  /\ activeChannels' = [i \in 1..Cardinality(Filled(batch)) |-> batch[i].ch]
  /\ reported' = [c \in Channel |->
       IF \E i \in DOMAIN batch : batch[i].ch = c
       THEN batch[CHOOSE i \in DOMAIN batch : batch[i].ch = c].revents
       ELSE {}]
  /\ UNCHANGED <<m_index, m_channels, kernel, removed>>
-----------------------------------------------------------------------------
(* Channel.                                                                *)

\* enableReading, disableReading, enableWriting, disableWriting, disableAll:
\* set m_events, then update().
SetEvents(c, events) ==
  /\ m_events' = [m_events EXCEPT ![c] = events]
  /\ UpdateChannel(c, events)
  /\ UNCHANGED <<m_revents, activeChannels, reported, removed>>

EnableReading(c)  == SetEvents(c, m_events[c] \cup kReadEvent)
DisableReading(c) == SetEvents(c, m_events[c] \ kReadEvent)
EnableWriting(c)  == SetEvents(c, m_events[c] \cup kWriteEvent)
DisableWriting(c) == SetEvents(c, m_events[c] \ kWriteEvent)
DisableAll(c)     == SetEvents(c, kNoneEvent)

\* remove: nothing while the channel asks for events.
Remove(c) ==
  /\ m_events[c] = kNoneEvent
  /\ RemoveChannel(c)
  /\ UNCHANGED <<m_events, m_revents, activeChannels, reported>>

\* handleEvent on the next active channel; the callbacks are the user's, and
\* what they do to channels are steps of their own.
HandleEvent ==
  /\ activeChannels # <<>>
  /\ activeChannels' = Tail(activeChannels)
  /\ reported' = [reported EXCEPT ![Head(activeChannels)] = {}]
  /\ UNCHANGED <<m_events, m_revents, m_index, m_channels, kernel, removed>>

\* The owner of a descriptor closes it: the kernel forgets the registration.
CloseFd(d) ==
  /\ Registered(d)
  /\ kernel' = [kernel EXCEPT ![d] = NoRegistration]
  /\ UNCHANGED <<m_events, m_revents, m_index, m_channels, activeChannels, reported,
                 removed>>
-----------------------------------------------------------------------------
ChannelOp(c) == \/ EnableReading(c) \/ DisableReading(c)
                \/ EnableWriting(c) \/ DisableWriting(c)
                \/ DisableAll(c) \/ Remove(c)

Next == \/ \E c \in Channel : ChannelOp(c)
        \/ \E batch \in Batches : Poll(batch)
        \/ HandleEvent
        \/ \E d \in Fd : CloseFd(d)

Spec == Init /\ [][Next]_vars
-----------------------------------------------------------------------------
(* Properties.                                                             *)

\* kDeleted is never stored.
TypeOK ==
  /\ m_events \in [Channel -> SUBSET Event]
  /\ m_revents \in [Channel -> SUBSET Event]
  /\ m_index \in [Channel -> {kNew, kAdded}]
  /\ m_channels \in [Fd -> Channel \cup {NoChannel}]
  /\ activeChannels \in Seq(Channel)
  /\ kernel \in [Fd -> [ch : Channel, events : SUBSET Event] \cup {NoRegistration}]
  /\ reported \in [Channel -> SUBSET Event]
  /\ removed \subseteq Channel

\* epoll never holds a pointer to a channel the poller does not have under that
\* descriptor, so fillActiveChannels never meets a stale channel and never gives
\* up the rest of a batch.
RegistrationOwned ==
  \A d \in Fd : Registered(d) =>
    /\ m_channels[d] = kernel[d].ch
    /\ fd[kernel[d].ch] = d
    /\ m_index[kernel[d].ch] = kAdded

\* A channel that was removed has no registration and no entry, for ever: with
\* the index removeChannel leaves, updateChannel refuses it.
RemovedStaysOut ==
  \A c \in removed : m_channels[fd[c]] # c /\ kernel[fd[c]].ch # c

\* Two channels of one descriptor never both count as added: the second is
\* refused until the first is removed.
OneChannelPerFd ==
  \A c1, c2 \in Channel :
    (c1 # c2 /\ fd[c1] = fd[c2] /\ m_index[c1] = kAdded /\ m_index[c2] = kAdded)
      => (c1 \in removed \/ c2 \in removed)

\* Channel.cpp:41-43: the kernel reports errors and hang-ups through revents.
\* handleEvent calls the callbacks of what epoll reported of the channel.
ReportsAreHandled ==
  \A i \in 1..Len(activeChannels) :
    LET c == activeChannels[i]
    IN HandlersFor(m_revents[c]) = HandlersFor(reported[c])
=============================================================================
