----------------------------- MODULE TimerQueue -----------------------------
(***************************************************************************)
(* TimerQueue, Timer and TimerId (src/XNet/TimerQueue.cpp, Timer.cpp): the *)
(* timers of one EventLoop.                                                *)
(*                                                                         *)
(* m_timers is a std::set of (expiration, Timer pointer), so it is ordered *)
(* by the expiration a timer had when it was inserted, then by address.    *)
(* run moves the expiration of a timer and leaves its entry where it is.   *)
(* doTimer goes through the set; the callbacks it calls may add, remove    *)
(* and cancel timers at once, other threads queue the same for the loop.   *)
(* No Timer is ever deleted before the queue is, so an address belongs to  *)
(* one timer.  Timestamp::now is the wall clock: it may be set back.       *)
(*                                                                         *)
(* EventLoop.cpp is not in the repository: the queue of functors, and that *)
(* doTimer and functors run one after the other, are taken from their use. *)
(***************************************************************************)
EXTENDS Integers, Sequences

CONSTANTS
  Timer,       \* the addresses of Timer objects
  Kind,        \* the intervals and repeat counts timers are added with
  MaxTime,     \* bound: the last time there is
  MaxPending   \* bound: functors in the queue of the loop

Forever == -1  \* m_repeatCount == -1

ASSUME TimerAssumption ==
  /\ Timer \subseteq Nat \ {0}
  /\ Kind \subseteq [interval : Nat, repeat : Nat \cup {Forever}]
  /\ MaxTime \in Nat
  /\ MaxPending \in Nat

VARIABLES
  made,           \* the timers that were created
  key,            \* of each timer: the first member of its entry, its `when'
  kind,           \* of each timer: what it was added with
  m_expiration, m_repeatCount, m_canceled,   \* of each timer
  m_timers,       \* the timers that have an entry in the set
  iter, now,      \* the locals of doTimer
  at,             \* where doTimer is
  pending,        \* functors queued in the loop
  clock,          \* the wall clock
  crashed,        \* the process is gone
  runs,           \* history: of each timer, calls of its callback
  inserted,       \* history: the timers that were ever in the set
  removed,        \* history: the timers removeTimerInLoop found and erased
  ahead,          \* history: what doTimer found and has not reached yet
  strayed         \* history: doTimer went on from an entry that was erased

heapVars  == <<made, key, kind, m_canceled>>
timeVars  == <<m_expiration, m_repeatCount, runs>>
setVars   == <<m_timers, inserted, removed>>
scanVars  == <<iter, now, at, ahead, strayed>>

vars == <<heapVars, timeVars, setVars, scanVars, pending, clock, crashed>>

End     == 0                       \* m_timers.end()
NoKind  == [interval |-> 0, repeat |-> Forever]
Functor == [op : {"addTimerInLoop", "removeTimerInLoop", "cancelTimerInLoop"},
            timer : Timer, off : BOOLEAN]

Init ==
  /\ made = {}
  /\ key = [t \in Timer |-> 0] /\ kind = [t \in Timer |-> NoKind]
  /\ m_expiration = [t \in Timer |-> 0]
  /\ m_repeatCount = [t \in Timer |-> Forever]
  /\ m_canceled = [t \in Timer |-> FALSE]
  /\ m_timers = {} /\ inserted = {} /\ removed = {}
  /\ iter = End /\ now = 0 /\ at = "idle" /\ ahead = {} /\ strayed = FALSE
  /\ pending = <<>> /\ clock = 0 /\ crashed = FALSE
  /\ runs = [t \in Timer |-> 0]
-----------------------------------------------------------------------------
(* The set.                                                                *)

\* std::pair compares the time, then the address.
Before(a, b) == key[a] < key[b] \/ (key[a] = key[b] /\ a < b)

IsFirst(t, S) == t \in S /\ \A u \in S : u = t \/ Before(t, u)

Successors(t) == {u \in m_timers : Before(t, u)}

\* iter goes to the first of S; it has then reached that one.
MoveTo(S) == \/ S = {} /\ iter' = End /\ ahead' = ahead
             \/ \E t \in S : /\ IsFirst(t, S)
                             /\ iter' = t /\ ahead' = ahead \ {t}

\* insert
Insert(t) == m_timers' = m_timers \cup {t} /\ inserted' = inserted \cup {t}

\* removeTimerInLoop: the entry, if there is one, is found by the address.
RemoveTimerInLoop(t) ==
  /\ m_timers' = m_timers \ {t}
  /\ removed' = removed \cup ({t} \cap m_timers)
  /\ UNCHANGED inserted

\* cancelTimerInLoop: a timer that has no entry is not touched.
CancelTimerInLoop(t, off) ==
  m_canceled' = IF t \in m_timers THEN [m_canceled EXCEPT ![t] = off] ELSE m_canceled
-----------------------------------------------------------------------------
(* addTimer, removeTimer and cancel: in the loop thread runInLoop does what *)
(* is asked at once, in another thread it is queued.                        *)

\* User code of the loop thread runs between two scans and in callbacks.
InLoopThread == at \in {"idle", "callback"}

Queue(op, t, off) ==
  /\ Len(pending) < MaxPending
  /\ pending' = Append(pending, [op |-> op, timer |-> t, off |-> off])

\* new Timer
NewTimer(t, when, k) ==
  /\ t \notin made /\ made' = made \cup {t}
  /\ key' = [key EXCEPT ![t] = when] /\ kind' = [kind EXCEPT ![t] = k]
  /\ m_expiration' = [m_expiration EXCEPT ![t] = when]
  /\ m_repeatCount' = [m_repeatCount EXCEPT ![t] = k.repeat]
  /\ UNCHANGED <<m_canceled, runs, scanVars, clock, crashed>>

AddTimer(t, when, k) ==
  /\ NewTimer(t, when, k)
  /\ \/ InLoopThread /\ Insert(t) /\ UNCHANGED <<removed, pending>>
     \/ Queue("addTimerInLoop", t, FALSE) /\ UNCHANGED setVars

RemoveTimer(t) ==
  /\ t \in made
  /\ \/ InLoopThread /\ RemoveTimerInLoop(t) /\ UNCHANGED pending
     \/ Queue("removeTimerInLoop", t, FALSE) /\ UNCHANGED setVars
  /\ UNCHANGED <<heapVars, timeVars, scanVars, clock, crashed>>

Cancel(t, off) ==
  /\ t \in made
  /\ \/ InLoopThread /\ CancelTimerInLoop(t, off) /\ UNCHANGED pending
     \/ Queue("cancelTimerInLoop", t, off) /\ UNCHANGED m_canceled
  /\ UNCHANGED <<made, key, kind, timeVars, setVars, scanVars, clock, crashed>>

RunFunctor ==
  /\ at = "idle" /\ pending # <<>> /\ pending' = Tail(pending)
  /\ LET f == Head(pending) IN
       \/ /\ f.op = "addTimerInLoop" /\ Insert(f.timer)
          /\ UNCHANGED <<removed, m_canceled>>
       \/ /\ f.op = "removeTimerInLoop" /\ RemoveTimerInLoop(f.timer)
          /\ UNCHANGED m_canceled
       \/ /\ f.op = "cancelTimerInLoop" /\ CancelTimerInLoop(f.timer, f.off)
          /\ UNCHANGED setVars
  /\ UNCHANGED <<made, key, kind, timeVars, scanVars, clock, crashed>>
-----------------------------------------------------------------------------
(* doTimer.                                                                *)

DoTimer ==
  /\ at = "idle" /\ at' = "test" /\ now' = clock
  /\ \/ m_timers = {} /\ iter' = End /\ ahead' = {}
     \/ \E t \in m_timers : /\ IsFirst(t, m_timers)
                            /\ iter' = t /\ ahead' = m_timers \ {t}
  /\ UNCHANGED <<strayed, heapVars, timeVars, setVars, pending, clock, crashed>>

Due(t) == m_expiration[t] < now

\* The loop ends, and with it the locals: no timer is left, or the one it is at is
\* not due.
StopScan ==
  /\ at = "test" /\ at' = "idle"
  /\ iter # End => ~Due(iter)
  /\ iter' = End /\ now' = 0 /\ ahead' = {} /\ strayed' = FALSE
  /\ UNCHANGED <<heapVars, timeVars, setVars, pending, clock, crashed>>

\* Mutant: a canceled timer is called as well.
CallBackAlways ==
  /\ at = "test" /\ iter # End /\ Due(iter)
  /\ at' = "callback"
  /\ runs' = [runs EXCEPT ![iter] = @ + 1]
  /\ UNCHANGED <<heapVars, m_expiration, m_repeatCount, setVars, iter, now, ahead,
                 strayed, pending, clock, crashed>>

\* run calls the callback of a timer that is not canceled.
CallBack ==
  /\ at = "test" /\ iter # End /\ Due(iter) /\ ~m_canceled[iter]
  /\ at' = "callback"
  /\ runs' = [runs EXCEPT ![iter] = @ + 1]
  /\ UNCHANGED <<heapVars, m_expiration, m_repeatCount, setVars, iter, now, ahead,
                 strayed, pending, clock, crashed>>

\* Mutant: the last run is not recognised.
AdvanceNeverErases(count) ==
  /\ iter \in m_timers /\ at' = "test" /\ MoveTo(Successors(iter))
  /\ UNCHANGED <<setVars, now, strayed, crashed>>

\* Mutant: ++iter also after erase, which already returned the next entry.
AdvanceSkips(count) ==
  /\ iter \in m_timers /\ at' = "test"
  /\ IF count = 0
     THEN /\ m_timers' = m_timers \ {iter}
          /\ \/ Successors(iter) = {} /\ iter' = End /\ ahead' = ahead
             \/ \E t \in Successors(iter) : /\ IsFirst(t, Successors(iter))
                                            /\ MoveTo(Successors(t))
     ELSE MoveTo(Successors(iter)) /\ UNCHANGED m_timers
  /\ UNCHANGED <<inserted, removed, now, strayed, crashed>>

\* The node of an erased entry that iter still points to may be that of another entry
\* by now.  The count read there is the one of its timer: of 0, and the entry goes.
EraseReused ==
  \/ UNCHANGED m_timers
  \/ \E u \in m_timers : m_repeatCount[u] = 0 /\ m_timers' = m_timers \ {u}

\* After run: erase a timer that has no runs left, and go to the next entry.  If the
\* callback has removed its own timer, iter points to freed memory: the process
\* dies, or the loop goes on wherever the node leads it.
Advance(count) ==
  \/ /\ iter \in m_timers /\ at' = "test" /\ MoveTo(Successors(iter))
     /\ m_timers' = IF count = 0 THEN m_timers \ {iter} ELSE m_timers
     /\ UNCHANGED <<inserted, removed, now, strayed, crashed>>
  \/ /\ iter \notin m_timers /\ crashed' = TRUE
     /\ UNCHANGED <<setVars, scanVars>>
  \/ /\ iter \notin m_timers /\ at' = "test" /\ strayed' = TRUE
     /\ EraseReused /\ iter' \in m_timers' \cup {End} /\ ahead' = ahead \ {iter'}
     /\ UNCHANGED <<inserted, removed, now, crashed>>

\* run returns at once; the expiration stays.
SkipCanceled ==
  /\ at = "test" /\ iter # End /\ Due(iter) /\ m_canceled[iter]
  /\ Advance(m_repeatCount[iter])
  /\ UNCHANGED <<heapVars, timeVars, pending, clock>>

\* The rest of run.  A repeat count of 0 is decremented to -1, which is Forever.
Reschedule(t) ==
  /\ m_repeatCount' = [m_repeatCount EXCEPT ![t] = IF @ = Forever THEN @ ELSE @ - 1]
  /\ m_expiration' = IF m_repeatCount'[t] = 0 THEN m_expiration
                     ELSE [m_expiration EXCEPT ![t] = @ + kind[t].interval]

CallbackReturns ==
  /\ at = "callback"
  /\ Reschedule(iter)
  /\ Advance(m_repeatCount'[iter])
  /\ UNCHANGED <<heapVars, runs, pending, clock>>

\* The wall clock goes on, or is set to another time.
ClockChanges == /\ clock' \in 0..MaxTime
                /\ UNCHANGED <<heapVars, timeVars, setVars, scanVars, pending, crashed>>
-----------------------------------------------------------------------------
Scan == DoTimer \/ StopScan \/ CallBack \/ SkipCanceled \/ CallbackReturns

Call == \E t \in Timer : \/ \E when \in 0..MaxTime, k \in Kind : AddTimer(t, when, k)
                         \/ RemoveTimer(t)
                         \/ \E off \in BOOLEAN : Cancel(t, off)

Next == ~crashed /\ (Scan \/ Call \/ RunFunctor \/ ClockChanges)

Spec == Init /\ [][Next]_vars
-----------------------------------------------------------------------------
(* Properties.                                                             *)

TypeOK ==
  /\ made \in SUBSET Timer
  /\ key \in [Timer -> Nat] /\ kind \in [Timer -> Kind \cup {NoKind}]
  /\ m_expiration \in [Timer -> Nat]
  /\ m_repeatCount \in [Timer -> Nat \cup {Forever}]
  /\ m_canceled \in [Timer -> BOOLEAN]
  /\ inserted \in SUBSET made
  /\ m_timers \in SUBSET inserted /\ removed \in SUBSET inserted
  /\ iter \in Timer \cup {End} /\ now \in 0..MaxTime
  /\ at \in {"idle", "test", "callback"}
  /\ ahead \in SUBSET inserted /\ strayed \in BOOLEAN
  /\ pending \in Seq(Functor)
  /\ clock \in 0..MaxTime /\ crashed \in BOOLEAN
  /\ runs \in [Timer -> Nat]

\* TimerQueue implements the service: no timer runs before its turn, more often than it
\* was added for, while it is canceled, or once it has left the set, and none leaves the
\* set before it has had its runs but by removeTimer, or comes back.
Service == INSTANCE TimerService
             WITH asked <- made, begun <- inserted, active <- m_timers, start <- key,
                  off <- m_canceled, time <- now
ImplementsTimers == Service!SSpec

\* A timer that is called is in the middle of a run that is not counted yet.
InRun(t) == at = "callback" /\ iter = t

\* A count of 0 is decremented past 0: a timer added with it goes on for ever.
HasRunsLeft(t) == kind[t].repeat \in {Forever, 0} \/ runs[t] < kind[t].repeat

\* A timer is in the set exactly from its insertion until it is removed or has
\* had its last run: scans, callbacks that change the set and stale ids never
\* lose one, keep one or bring one back.  (Timer.h:19 knows the counts and -1.  One
\* added with a count of 0 has runs left for ever as soon as it has run; until then
\* it goes when a scan finds it canceled, or strays to it.)
QueuedWhileNeeded ==
  \A t \in inserted : ((kind[t].repeat # 0 \/ runs[t] > 0) /\ ~InRun(t)) =>
    (t \in m_timers <=> t \notin removed /\ HasRunsLeft(t))

\* doTimer stops short of a timer that is due only because of an earlier entry
\* whose timer has run and is not due again: the order of the set is stale
\* there, and nowhere else.
MissedOnlyBehindStale ==
  [][(at = "test" /\ at' = "idle" /\ ~strayed) =>
       \A t \in ahead \cap m_timers :
         Due(t) => \E u \in m_timers : Before(u, t) /\ runs[u] > 0 /\ ~Due(u)]_vars
=============================================================================
