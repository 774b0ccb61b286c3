-------------------------- MODULE TimerQueueProofs --------------------------
(***************************************************************************)
(* Proofs about TimerQueue, for any timers, intervals, counts and times.   *)
(*                                                                         *)
(* The properties need to know how the entries of the set, the counts and  *)
(* expirations of the timers and the place of doTimer hang together while  *)
(* a callback runs: its run has begun and is not counted yet, and it may   *)
(* have removed its own timer.                                             *)
(***************************************************************************)
EXTENDS TimerQueue, SequenceTheorems, TLAPS

\* The runs of a timer that are over.
Finished(t) == IF InRun(t) THEN runs[t] - 1 ELSE runs[t]

\* A timer that was never in the set has not run; a functor is about a timer that was
\* created; addTimerInLoop is queued once for a timer.
IsAdd(f) == f.op = "addTimerInLoop"

AddedOnce ==
  /\ \A t \in Timer \ inserted : runs[t] = 0
  /\ \A i \in 1..Len(pending) :
       /\ pending[i].timer \in made
       /\ IsAdd(pending[i]) => pending[i].timer \notin inserted
  /\ \A i, j \in 1..Len(pending) :
       (i # j /\ IsAdd(pending[i]) /\ IsAdd(pending[j]))
         => pending[i].timer # pending[j].timer

\* m_repeatCount counts the runs that are left.
CountsRuns ==
  ~crashed => \A t \in Timer :
    /\ kind[t].repeat = Forever => m_repeatCount[t] = Forever
    /\ kind[t].repeat > 0 => m_repeatCount[t] = kind[t].repeat - Finished(t)
    /\ kind[t].repeat = 0 => m_repeatCount[t] = IF Finished(t) = 0 THEN 0 ELSE Forever

\* m_expiration is that of the next run.
OnSchedule ==
  ~crashed => \A t \in Timer :
    (kind[t].repeat > 0 => Finished(t) < kind[t].repeat)
      => m_expiration[t] = key[t] + Finished(t) * kind[t].interval

\* iter points to an entry, unless a callback has removed it.
AtEntry ==
  /\ m_timers \cap removed = {}
  /\ (at = "test" /\ iter # End) => iter \in m_timers
  /\ at = "callback" => /\ iter \in inserted /\ iter \in m_timers \cup removed
                        /\ runs[iter] > 0
                        /\ kind[iter].repeat > 0 => runs[iter] <= kind[iter].repeat

\* What doTimer has not reached is behind iter in the set.
AheadIsAhead ==
  (at # "idle" /\ ~strayed) =>
    \A t \in ahead \cap m_timers : iter # End /\ Before(iter, t)

\* The place in the set is that of the first run.
NeverEarlier ==
  \A t \in Timer : /\ m_expiration[t] >= key[t]
                   /\ runs[t] = 0 => m_expiration[t] = key[t]

IInv == /\ TypeOK /\ AddedOnce /\ CountsRuns /\ OnSchedule /\ QueuedWhileNeeded
        /\ AtEntry /\ AheadIsAhead /\ NeverEarlier

USE DEF vars, heapVars, timeVars, setVars, scanVars, Forever, End
-----------------------------------------------------------------------------
(* Lemmas.                                                                 *)

\* The interval and the count of a timer are numbers.
LEMMA KindType ==
  ASSUME TypeOK, NEW t \in Timer
  PROVE  kind[t].interval \in Nat /\ kind[t].repeat \in Nat \cup {-1}
BY TimerAssumption DEF TypeOK, NoKind

\* One run more moves the expiration by one interval.
LEMMA OneMore == \A n, d \in Nat : (n + 1) * d = n * d + d
OBVIOUS

\* The order is total on different addresses, and irreflexive.
LEMMA BeforeIrreflexive ==
  ASSUME TypeOK, NEW t \in Timer
  PROVE  ~Before(t, t)
BY TimerAssumption DEF TypeOK, Before

LEMMA InitInv == Init => IInv
<1> SUFFICES ASSUME Init PROVE IInv
  OBVIOUS
<1>1. TypeOK
  <2>1. pending \in Seq(Functor)
    BY DEF Init
  <2>2. kind \in [Timer -> Kind \cup {NoKind}]
    BY DEF Init
  <2>3. clock \in 0..MaxTime /\ now \in 0..MaxTime
    BY TimerAssumption DEF Init
  <2> QED BY <2>1, <2>2, <2>3 DEF Init, TypeOK
<1>2. QueuedWhileNeeded /\ AtEntry /\ AheadIsAhead /\ NeverEarlier
  BY DEF Init, QueuedWhileNeeded, AtEntry, AheadIsAhead, NeverEarlier
<1>3. AddedOnce
  <2>1. Len(pending) = 0
    BY DEF Init
  <2> QED BY <2>1 DEF Init, AddedOnce
<1>4. CountsRuns
  <2> SUFFICES ASSUME NEW t \in Timer
               PROVE  /\ m_repeatCount[t] = -1
                      /\ ~(kind[t].repeat > 0) /\ kind[t].repeat # 0
    BY DEF CountsRuns
  <2> QED BY DEF Init, NoKind
<1>5. OnSchedule
  <2> SUFFICES ASSUME NEW t \in Timer
               PROVE  m_expiration[t] = key[t] + Finished(t) * kind[t].interval
    BY DEF OnSchedule
  <2>1. m_expiration[t] = 0 /\ key[t] = 0 /\ Finished(t) = 0 /\ kind[t].interval = 0
    BY DEF Init, Finished, InRun, NoKind
  <2> QED BY <2>1
<1> QED BY <1>1, <1>2, <1>3, <1>4, <1>5 DEF IInv

\* Steps that leave the timers, the set and doTimer alone.
LEMMA FrameInv ==
  ASSUME IInv,
         UNCHANGED <<made, key, kind, timeVars, setVars, scanVars, pending, crashed>>,
         clock' \in 0..MaxTime, m_canceled' \in [Timer -> BOOLEAN]
  PROVE  IInv'
BY DEF IInv, TypeOK, AddedOnce, CountsRuns, OnSchedule, QueuedWhileNeeded, AtEntry,
       AheadIsAhead, NeverEarlier, Finished, InRun, HasRunsLeft, Before, IsAdd

\* A functor that is queued is about a timer that was created, and is the only one
\* that adds it.
LEMMA QueueStep ==
  ASSUME TypeOK, AddedOnce,
         NEW op, NEW t \in Timer, NEW off \in BOOLEAN, Queue(op, t, off),
         op \in {"addTimerInLoop", "removeTimerInLoop", "cancelTimerInLoop"},
         t \in made', made \subseteq made', inserted' = inserted, runs' = runs,
         op = "addTimerInLoop" => t \notin made
  PROVE  pending' \in Seq(Functor) /\ AddedOnce'
<1> DEFINE f == [op |-> op, timer |-> t, off |-> off]
<1>1. f \in Functor
  BY DEF Functor
<1>2. pending' \in Seq(Functor) /\ Len(pending') = Len(pending) + 1
  BY <1>1 DEF Queue, TypeOK
<1>3. \A i \in 1..Len(pending') :
        pending'[i] = IF i <= Len(pending) THEN pending[i] ELSE f
  BY <1>1 DEF Queue, TypeOK
<1>4. Len(pending) \in Nat
  BY DEF TypeOK
<1> HIDE DEF f
<1>5. f.op = op /\ f.timer = t
  BY DEF f
<1>6. \A u \in Timer \ inserted' : runs'[u] = 0
  BY DEF AddedOnce, TypeOK
<1>7. ASSUME NEW i \in 1..Len(pending')
      PROVE  /\ pending'[i].timer \in made'
             /\ IsAdd(pending'[i]) => pending'[i].timer \notin inserted'
  <2>1. CASE i <= Len(pending)
    BY <1>3, <1>4, <2>1 DEF AddedOnce
  <2>2. CASE i > Len(pending)
    BY <1>3, <1>4, <1>5, <2>2 DEF IsAdd, TypeOK
  <2> QED BY <1>4, <1>2, <2>1, <2>2
<1>8. ASSUME NEW i \in 1..Len(pending'), NEW j \in 1..Len(pending'), i # j,
             IsAdd(pending'[i]), IsAdd(pending'[j])
      PROVE  pending'[i].timer # pending'[j].timer
  <2>1. CASE i <= Len(pending) /\ j <= Len(pending)
    BY <1>3, <1>4, <1>8, <2>1 DEF AddedOnce
  <2>2. CASE i <= Len(pending) /\ j > Len(pending)
    BY <1>3, <1>4, <1>5, <1>8, <2>2 DEF IsAdd, AddedOnce
  <2>3. CASE i > Len(pending) /\ j <= Len(pending)
    BY <1>3, <1>4, <1>5, <1>8, <2>3 DEF IsAdd, AddedOnce
  <2> QED BY <1>2, <1>4, <1>8, <2>1, <2>2, <2>3
<1> QED BY <1>2, <1>6, <1>7, <1>8 DEF AddedOnce
-----------------------------------------------------------------------------
(* Calls and functors.                                                     *)

\* The timer that is added is not one any part of the invariant speaks of yet.
LEMMA AddInv ==
  ASSUME IInv, NEW t \in Timer, NEW when \in 0..MaxTime, NEW k \in Kind, ~crashed,
         AddTimer(t, when, k)
  PROVE  IInv'
<1> USE DEF IInv
<1>1. /\ made' = made \cup {t} /\ t \notin made
      /\ key' = [key EXCEPT ![t] = when] /\ kind' = [kind EXCEPT ![t] = k]
      /\ m_expiration' = [m_expiration EXCEPT ![t] = when]
      /\ m_repeatCount' = [m_repeatCount EXCEPT ![t] = k.repeat]
      /\ UNCHANGED <<m_canceled, runs, scanVars, clock, crashed, removed>>
  BY DEF AddTimer, NewTimer
<1>2. /\ m_timers \subseteq m_timers' /\ m_timers' \subseteq m_timers \cup {t}
      /\ inserted \subseteq inserted' /\ inserted' \subseteq inserted \cup {t}
      /\ t \in inserted' <=> t \in m_timers'
  BY <1>1 DEF AddTimer, Insert, TypeOK
<1>3. pending' \in Seq(Functor) /\ AddedOnce'
  <2>1. CASE Queue("addTimerInLoop", t, FALSE) /\ UNCHANGED setVars
    BY <1>1, <2>1, QueueStep
  <2>2. CASE Insert(t) /\ UNCHANGED pending
    <3>1. inserted' = inserted \cup {t}
      BY <2>2 DEF Insert
    <3> QED BY <1>1, <2>2, <3>1 DEF AddedOnce, TypeOK
  <2> QED BY <2>1, <2>2 DEF AddTimer
<1>4. when \in Nat /\ k.interval \in Nat /\ k.repeat \in Nat \cup {-1}
  BY TimerAssumption
<1>5. TypeOK'
  <2>1. /\ made' \in SUBSET Timer
        /\ inserted' \in SUBSET made' /\ ahead' \in SUBSET inserted'
    BY <1>1, <1>2 DEF TypeOK
  <2>2. m_timers' \in SUBSET inserted' /\ removed' \in SUBSET inserted'
    BY <1>1, <1>2 DEF TypeOK
  <2>3. key' \in [Timer -> Nat] /\ m_expiration' \in [Timer -> Nat]
    BY <1>1, <1>4 DEF TypeOK
  <2>4. kind' \in [Timer -> Kind \cup {NoKind}]
    BY <1>1 DEF TypeOK
  <2>5. m_repeatCount' \in [Timer -> Nat \cup {-1}]
    BY <1>1, <1>4 DEF TypeOK
  <2> QED BY <1>1, <1>3, <2>1, <2>2, <2>3, <2>4, <2>5 DEF TypeOK
<1>6. runs[t] = 0 /\ t \notin inserted /\ t \notin m_timers /\ t \notin ahead
      /\ t \notin removed /\ ~InRun(t)
  BY <1>1 DEF AddedOnce, TypeOK, AtEntry, InRun
<1>7. \A u \in Timer : Finished(u)' = Finished(u) /\ (InRun(u)' <=> InRun(u))
  BY <1>1 DEF Finished, InRun
<1>8. Finished(t) = 0
  BY <1>6 DEF Finished
<1>9. \A u \in Timer \ {t} :
        /\ key'[u] = key[u] /\ kind'[u] = kind[u]
        /\ m_expiration'[u] = m_expiration[u] /\ m_repeatCount'[u] = m_repeatCount[u]
  BY <1>1 DEF TypeOK
<1>10. /\ key'[t] = when /\ kind'[t] = k /\ m_expiration'[t] = when
       /\ m_repeatCount'[t] = k.repeat
  BY <1>1 DEF TypeOK
<1>11. CountsRuns'
  BY <1>1, <1>4, <1>7, <1>8, <1>9, <1>10 DEF CountsRuns
<1>12. OnSchedule'
  <2> SUFFICES ASSUME NEW u \in Timer,
                      kind'[u].repeat > 0 => Finished(u)' < kind'[u].repeat
               PROVE  m_expiration'[u] = key'[u] + Finished(u)' * kind'[u].interval
    BY DEF OnSchedule
  <2>1. CASE u = t
    BY <2>1, <1>4, <1>7, <1>8, <1>10
  <2>2. CASE u # t
    BY <2>2, <1>1, <1>7, <1>9 DEF OnSchedule
  <2> QED BY <2>1, <2>2
<1>13. QueuedWhileNeeded'
  <2> SUFFICES ASSUME NEW u \in inserted',
                      kind'[u].repeat # 0 \/ runs'[u] > 0, ~InRun(u)'
               PROVE  u \in m_timers' <=> u \notin removed' /\ HasRunsLeft(u)'
    BY DEF QueuedWhileNeeded
  <2>1. CASE u = t
    BY <2>1, <1>1, <1>2, <1>4, <1>6, <1>10 DEF HasRunsLeft
  <2>2. CASE u # t
    BY <2>2, <1>1, <1>2, <1>7, <1>9 DEF QueuedWhileNeeded, HasRunsLeft, TypeOK
  <2> QED BY <2>1, <2>2
<1>14. AtEntry'
  BY <1>1, <1>2, <1>6, <1>9 DEF AtEntry, TypeOK
<1>15. AheadIsAhead'
  <2> SUFFICES ASSUME at # "idle", ~strayed, NEW u \in ahead \cap m_timers'
               PROVE  iter # End /\ Before(iter, u)'
    BY <1>1 DEF AheadIsAhead
  <2>1. u # t /\ u \in ahead \cap m_timers
    BY <1>2, <1>6
  <2>2. iter # End /\ Before(iter, u) /\ iter \in Timer
    BY <2>1 DEF AheadIsAhead, TypeOK
  <2>3. iter \in inserted
    BY <2>2 DEF AtEntry, TypeOK
  <2> QED BY <2>1, <2>2, <2>3, <1>1, <1>6, <1>9 DEF Before, TypeOK
<1>16. NeverEarlier'
  BY <1>1, <1>4, <1>9, <1>10 DEF NeverEarlier
<1> QED BY <1>3, <1>5, <1>11, <1>12, <1>13, <1>14, <1>15, <1>16

\* removeTimerInLoop, wherever it runs.
LEMMA RemoveEffect ==
  ASSUME IInv, NEW t \in Timer, RemoveTimerInLoop(t),
         UNCHANGED <<heapVars, timeVars, scanVars, clock, crashed>>,
         at \in {"idle", "callback"}, AddedOnce', pending' \in Seq(Functor)
  PROVE  IInv'
<1> USE DEF IInv
<1>1. /\ m_timers' = m_timers \ {t} /\ removed' = removed \cup ({t} \cap m_timers)
      /\ inserted' = inserted
  BY DEF RemoveTimerInLoop
<1>2. TypeOK'
  BY <1>1 DEF TypeOK
<1>3. CountsRuns' /\ OnSchedule' /\ NeverEarlier'
  BY DEF CountsRuns, OnSchedule, NeverEarlier, Finished, InRun
<1>4. QueuedWhileNeeded'
  BY <1>1 DEF QueuedWhileNeeded, InRun, HasRunsLeft
<1>5. AtEntry'
  BY <1>1 DEF AtEntry
<1>6. AheadIsAhead'
  BY <1>1 DEF AheadIsAhead, Before
<1> QED BY <1>2, <1>3, <1>4, <1>5, <1>6

LEMMA RemoveInv ==
  ASSUME IInv, NEW t \in Timer, RemoveTimer(t)
  PROVE  IInv'
<1>1. CASE InLoopThread /\ RemoveTimerInLoop(t) /\ UNCHANGED pending
  <2>1. AddedOnce'
    BY <1>1 DEF IInv, AddedOnce, RemoveTimer, RemoveTimerInLoop
  <2> QED BY <1>1, <2>1, RemoveEffect DEF RemoveTimer, InLoopThread, IInv, TypeOK
<1>2. CASE Queue("removeTimerInLoop", t, FALSE) /\ UNCHANGED setVars
  <2>1. pending' \in Seq(Functor) /\ AddedOnce'
    BY <1>2, QueueStep DEF RemoveTimer, IInv
  <2> QED BY <1>2, <2>1 DEF IInv, TypeOK, CountsRuns, OnSchedule, QueuedWhileNeeded,
            AtEntry, AheadIsAhead, NeverEarlier, Finished, InRun, HasRunsLeft, Before,
            RemoveTimer
<1> QED BY <1>1, <1>2 DEF RemoveTimer

LEMMA CancelInv ==
  ASSUME IInv, NEW t \in Timer, NEW off \in BOOLEAN, Cancel(t, off)
  PROVE  IInv'
<1>1. m_canceled' \in [Timer -> BOOLEAN]
  BY DEF Cancel, CancelTimerInLoop, IInv, TypeOK
<1>2. CASE UNCHANGED pending
  BY <1>1, <1>2, FrameInv DEF Cancel, IInv, TypeOK
<1>3. CASE Queue("cancelTimerInLoop", t, off)
  <2>1. pending' \in Seq(Functor) /\ AddedOnce'
    BY <1>3, QueueStep DEF Cancel, IInv
  <2> QED BY <1>1, <2>1 DEF IInv, TypeOK, CountsRuns, OnSchedule, QueuedWhileNeeded,
            AtEntry, AheadIsAhead, NeverEarlier, Finished, InRun, HasRunsLeft, Before,
            Cancel
<1> QED BY <1>2, <1>3 DEF Cancel

\* The first functor is taken from the queue; if it adds a timer, that timer is new
\* to the set.
LEMMA TailStep ==
  ASSUME TypeOK, AddedOnce, pending # <<>>, pending' = Tail(pending),
         UNCHANGED <<made, runs>>, inserted \subseteq inserted',
         inserted' \subseteq inserted \cup
                             (IF IsAdd(Head(pending)) THEN {Head(pending).timer} ELSE {})
  PROVE  /\ pending' \in Seq(Functor) /\ AddedOnce'
         /\ Head(pending) \in Functor /\ Head(pending).timer \in made
         /\ IsAdd(Head(pending)) => Head(pending).timer \notin inserted
<1>1. /\ pending \in Seq(Functor) /\ Len(pending) \in Nat \ {0}
      /\ Head(pending) = pending[1]
  BY EmptySeq DEF TypeOK
<1>2. /\ pending' \in Seq(Functor) /\ Len(pending') = Len(pending) - 1
      /\ \A i \in 1..Len(pending') : pending'[i] = pending[i + 1]
  BY <1>1
<1>3. Head(pending) \in Functor /\ Head(pending).timer \in made
      /\ (IsAdd(Head(pending)) => Head(pending).timer \notin inserted)
  BY <1>1 DEF AddedOnce
<1>4. ASSUME NEW i \in 1..Len(pending')
      PROVE  /\ pending'[i].timer \in made
             /\ IsAdd(pending'[i]) => pending'[i].timer \notin inserted'
  <2>1. /\ pending'[i] = pending[i + 1] /\ i + 1 \in 1..Len(pending) /\ i + 1 # 1
        /\ 1 \in 1..Len(pending)
    BY <1>1, <1>2
  <2>2. pending[i + 1].timer \in made
        /\ (IsAdd(pending[i + 1]) => pending[i + 1].timer \notin inserted)
    BY <2>1 DEF AddedOnce
  <2>3. (IsAdd(pending[i + 1]) /\ IsAdd(pending[1]))
          => pending[i + 1].timer # pending[1].timer
    BY <2>1 DEF AddedOnce
  <2> QED BY <1>1, <2>1, <2>2, <2>3
<1>5. ASSUME NEW i \in 1..Len(pending'), NEW j \in 1..Len(pending'), i # j,
             IsAdd(pending'[i]), IsAdd(pending'[j])
      PROVE  pending'[i].timer # pending'[j].timer
  <2>1. /\ pending'[i] = pending[i + 1] /\ i + 1 \in 1..Len(pending)
        /\ pending'[j] = pending[j + 1] /\ j + 1 \in 1..Len(pending)
        /\ i + 1 # j + 1
    BY <1>1, <1>2, <1>5
  <2> QED BY <1>5, <2>1 DEF AddedOnce
<1>6. \A t \in Timer \ inserted' : runs'[t] = 0
  BY DEF AddedOnce
<1> QED BY <1>2, <1>3, <1>4, <1>5, <1>6 DEF AddedOnce

\* A timer that enters the set by a functor has all its runs before it.
LEMMA InsertInv ==
  ASSUME IInv, ~crashed, NEW t \in made, t \notin inserted, Insert(t), at = "idle",
         UNCHANGED <<heapVars, timeVars, removed, scanVars, clock, crashed>>,
         AddedOnce', pending' \in Seq(Functor)
  PROVE  IInv'
<1> USE DEF IInv
<1>1. m_timers' = m_timers \cup {t} /\ inserted' = inserted \cup {t} /\ t \in Timer
      /\ runs[t] = 0 /\ t \notin removed /\ t \notin m_timers
  BY DEF Insert, AddedOnce, TypeOK
<1>2. TypeOK'
  BY <1>1 DEF TypeOK
<1>3. CountsRuns' /\ OnSchedule' /\ NeverEarlier'
  BY DEF CountsRuns, OnSchedule, NeverEarlier, Finished, InRun
<1>4. QueuedWhileNeeded'
  BY <1>1, KindType DEF QueuedWhileNeeded, InRun, HasRunsLeft
<1>5. AtEntry' /\ AheadIsAhead'
  BY <1>1 DEF AtEntry, AheadIsAhead
<1> QED BY <1>2, <1>3, <1>4, <1>5

LEMMA FunctorInv ==
  ASSUME IInv, ~crashed, RunFunctor
  PROVE  IInv'
<1> DEFINE f == Head(pending)
<1>1. f \in Functor /\ f.timer \in made /\ f.timer \in Timer /\ f.off \in BOOLEAN
      /\ (IsAdd(f) => f.timer \notin inserted)
  <2>1. f \in Functor
    BY EmptySeq DEF IInv, TypeOK, RunFunctor
  <2>2. f.timer \in made /\ (IsAdd(f) => f.timer \notin inserted)
    <3>1. f = pending[1] /\ 1 \in 1..Len(pending)
      BY EmptySeq DEF IInv, TypeOK, RunFunctor
    <3> QED BY <3>1 DEF IInv, AddedOnce
  <2> QED BY <2>1, <2>2 DEF Functor
<1>2. CASE /\ f.op = "addTimerInLoop" /\ Insert(f.timer)
           /\ UNCHANGED <<removed, m_canceled>>
  <2>1. pending' \in Seq(Functor) /\ AddedOnce'
    BY <1>2, TailStep DEF RunFunctor, IInv, IsAdd, Insert
  <2> QED BY <1>1, <1>2, <2>1, InsertInv DEF RunFunctor, IsAdd
<1>3. CASE /\ f.op = "removeTimerInLoop" /\ RemoveTimerInLoop(f.timer)
           /\ UNCHANGED m_canceled
  <2>1. pending' \in Seq(Functor) /\ AddedOnce'
    BY <1>3, TailStep DEF RunFunctor, IInv, RemoveTimerInLoop
  <2> QED BY <1>1, <1>3, <2>1, RemoveEffect DEF RunFunctor
<1>4. CASE f.op = "cancelTimerInLoop" /\ CancelTimerInLoop(f.timer, f.off)
           /\ UNCHANGED setVars
  <2>1. pending' \in Seq(Functor) /\ AddedOnce'
    BY <1>4, TailStep DEF RunFunctor, IInv
  <2>2. m_canceled' \in [Timer -> BOOLEAN]
    BY <1>1, <1>4 DEF CancelTimerInLoop, IInv, TypeOK
  <2> QED BY <1>4, <2>1, <2>2 DEF IInv, TypeOK, CountsRuns, OnSchedule,
            QueuedWhileNeeded, AtEntry, AheadIsAhead, NeverEarlier, Finished, InRun,
            HasRunsLeft, Before, RunFunctor
<1> QED BY <1>2, <1>3, <1>4 DEF RunFunctor
-----------------------------------------------------------------------------
(* doTimer.                                                                *)

LEMMA StartInv ==
  ASSUME IInv, DoTimer
  PROVE  IInv'
<1> USE DEF IInv
<1>1. /\ at = "idle" /\ at' = "test" /\ now' = clock
      /\ UNCHANGED <<strayed, heapVars, timeVars, setVars, pending, clock, crashed>>
  BY DEF DoTimer
<1>2. \/ m_timers = {} /\ iter' = End /\ ahead' = {}
      \/ \E t \in m_timers : IsFirst(t, m_timers) /\ iter' = t /\ ahead' = m_timers \ {t}
  BY DEF DoTimer
<1>3. TypeOK' /\ AddedOnce'
  BY <1>1, <1>2 DEF TypeOK, AddedOnce, IsAdd
<1>4. \A t \in Timer : ~InRun(t) /\ ~InRun(t)' /\ Finished(t)' = Finished(t)
  BY <1>1 DEF InRun, Finished
<1>5. CountsRuns' /\ NeverEarlier'
  BY <1>1, <1>4 DEF CountsRuns, NeverEarlier
<1>6. OnSchedule'
  BY <1>1, <1>4 DEF OnSchedule
<1>7. QueuedWhileNeeded'
  BY <1>1, <1>4 DEF QueuedWhileNeeded, HasRunsLeft, TypeOK
<1>8. AtEntry'
  BY <1>1, <1>2 DEF AtEntry
<1>9. AheadIsAhead'
  <2>1. CASE m_timers = {}
    BY <1>1, <2>1 DEF AheadIsAhead
  <2>2. ASSUME NEW t \in m_timers, IsFirst(t, m_timers), iter' = t,
               ahead' = m_timers \ {t}
        PROVE  AheadIsAhead'
    <3>1. t # End
      BY TimerAssumption DEF TypeOK
    <3> QED BY <1>1, <2>2, <3>1 DEF AheadIsAhead, IsFirst, Before
  <2> QED BY <1>2, <2>1, <2>2
<1> QED BY <1>3, <1>5, <1>6, <1>7, <1>8, <1>9

LEMMA StopInv ==
  ASSUME IInv, StopScan
  PROVE  IInv'
<1> USE DEF IInv
<1>1. /\ at = "test" /\ at' = "idle" /\ iter' = End /\ now' = 0 /\ ahead' = {}
      /\ strayed' = FALSE
      /\ UNCHANGED <<heapVars, timeVars, setVars, pending, clock, crashed>>
  BY DEF StopScan
<1>2. TypeOK' /\ AddedOnce'
  <2>1. 0 \in 0..MaxTime
    BY TimerAssumption
  <2>2. TypeOK'
    BY <1>1, <2>1 DEF TypeOK
  <2> QED BY <1>1, <2>2 DEF AddedOnce, IsAdd
<1>3. \A t \in Timer : ~InRun(t) /\ ~InRun(t)' /\ Finished(t)' = Finished(t)
  BY <1>1 DEF InRun, Finished
<1>4. CountsRuns' /\ NeverEarlier' /\ OnSchedule'
  BY <1>1, <1>3 DEF CountsRuns, NeverEarlier, OnSchedule
<1>5. QueuedWhileNeeded' /\ AtEntry' /\ AheadIsAhead'
  BY <1>1, <1>3 DEF QueuedWhileNeeded, HasRunsLeft, TypeOK, AtEntry, AheadIsAhead
<1> QED BY <1>2, <1>4, <1>5

\* When the callback is called the run has begun: it is in runs, and not in
\* m_repeatCount.
LEMMA CallInv ==
  ASSUME IInv, CallBack
  PROVE  IInv'
<1> USE DEF IInv
<1>1. /\ at = "test" /\ at' = "callback" /\ iter # End
      /\ runs' = [runs EXCEPT ![iter] = @ + 1]
      /\ UNCHANGED <<heapVars, m_expiration, m_repeatCount, setVars, iter, now, ahead,
                     strayed, pending, clock, crashed>>
  BY DEF CallBack
<1>2. iter \in Timer /\ iter \in m_timers /\ iter \in inserted /\ iter \notin removed
  BY <1>1 DEF AtEntry, TypeOK
<1>3. /\ runs'[iter] = runs[iter] + 1 /\ runs[iter] \in Nat
      /\ \A t \in Timer \ {iter} : runs'[t] = runs[t]
      /\ \A t \in Timer : runs'[t] \in Nat
  BY <1>1, <1>2 DEF TypeOK
<1>4. \A t \in Timer : /\ Finished(t)' = Finished(t)
                       /\ ~InRun(t) /\ (InRun(t)' <=> t = iter)
  BY <1>1, <1>3 DEF InRun, Finished
<1>5. TypeOK'
  BY <1>1, <1>2 DEF TypeOK
<1>6. AddedOnce'
  BY <1>1, <1>2, <1>3 DEF AddedOnce, IsAdd
<1>7. CountsRuns' /\ OnSchedule'
  BY <1>1, <1>4 DEF CountsRuns, OnSchedule
<1>8. NeverEarlier'
  BY <1>1, <1>3 DEF NeverEarlier
<1>9. QueuedWhileNeeded'
  <2> SUFFICES ASSUME NEW t \in inserted, kind[t].repeat # 0 \/ runs[t] > 0, t # iter
               PROVE  t \in m_timers <=> t \notin removed /\ HasRunsLeft(t)'
    BY <1>1, <1>4 DEF QueuedWhileNeeded, TypeOK
  <2> QED BY <1>1, <1>3, <1>4 DEF QueuedWhileNeeded, HasRunsLeft, TypeOK
<1>10. AtEntry'
  <2>1. kind[iter].repeat > 0 => runs[iter] < kind[iter].repeat
    BY <1>2, <1>4, KindType DEF QueuedWhileNeeded, HasRunsLeft
  <2> QED BY <1>1, <1>2, <1>3, <2>1, KindType DEF AtEntry
<1>11. AheadIsAhead'
  BY <1>1 DEF AheadIsAhead, Before
<1> QED BY <1>5, <1>6, <1>7, <1>8, <1>9, <1>10, <1>11

\* Going to the next entry keeps what is not reached ahead.
LEMMA MoveAhead ==
  ASSUME TypeOK, AtEntry, AheadIsAhead, at # "idle", iter \in m_timers,
         MoveTo(Successors(iter)), UNCHANGED <<key, strayed>>,
         m_timers' \subseteq m_timers
  PROVE  /\ iter' \in (m_timers \ {iter}) \cup {End}
         /\ ahead' \subseteq ahead
         /\ AheadIsAhead'
<1>1. Successors(iter) \subseteq m_timers \ {iter}
  BY BeforeIrreflexive DEF Successors, TypeOK
<1>2. CASE Successors(iter) = {} /\ iter' = End /\ ahead' = ahead
  BY <1>1, <1>2 DEF AheadIsAhead, Successors
<1>3. ASSUME NEW t \in Successors(iter), IsFirst(t, Successors(iter)), iter' = t,
             ahead' = ahead \ {t}
      PROVE  /\ iter' \in (m_timers \ {iter}) \cup {End} /\ ahead' \subseteq ahead
             /\ AheadIsAhead'
  <2>1. t # End /\ t \in m_timers
    BY <1>1, TimerAssumption DEF TypeOK
  <2>2. ASSUME ~strayed, NEW u \in ahead' \cap m_timers'
        PROVE  Before(t, u)
    <3>1. u \in Successors(iter) /\ u # t
      BY <1>3, <2>2 DEF AheadIsAhead, Successors
    <3> QED BY <1>3, <3>1 DEF IsFirst
  <2> QED BY <1>1, <1>3, <2>1, <2>2 DEF AheadIsAhead, Before
<1> QED BY <1>2, <1>3 DEF MoveTo

\* What comes after a run, in all three ways it can go on.
LEMMA AdvanceStep ==
  ASSUME TypeOK, AtEntry, AheadIsAhead, at # "idle", iter # End, NEW count,
         Advance(count), UNCHANGED key
  PROVE  /\ \/ /\ iter \in m_timers /\ at' = "test"
               /\ m_timers' = IF count = 0 THEN m_timers \ {iter} ELSE m_timers
               /\ iter' \in (m_timers \ {iter}) \cup {End}
               /\ UNCHANGED crashed
            \/ /\ iter \notin m_timers /\ crashed' = TRUE
               /\ UNCHANGED <<setVars, scanVars>>
            \/ /\ iter \notin m_timers /\ at' = "test" /\ iter' \in m_timers' \cup {End}
               /\ EraseReused /\ UNCHANGED crashed
         /\ m_timers' \subseteq m_timers /\ UNCHANGED <<inserted, removed, now>>
         /\ ahead' \subseteq ahead /\ strayed' \in BOOLEAN
         /\ AheadIsAhead'
<1>1. CASE /\ iter \in m_timers /\ at' = "test" /\ MoveTo(Successors(iter))
           /\ m_timers' = IF count = 0 THEN m_timers \ {iter} ELSE m_timers
           /\ UNCHANGED <<inserted, removed, now, strayed, crashed>>
  BY <1>1, MoveAhead DEF TypeOK
<1>2. CASE /\ iter \notin m_timers /\ crashed' = TRUE
           /\ UNCHANGED <<setVars, scanVars>>
  BY <1>2 DEF AheadIsAhead, Before, TypeOK
<1>3. CASE /\ iter \notin m_timers /\ at' = "test" /\ strayed' = TRUE
           /\ EraseReused /\ iter' \in m_timers' \cup {End} /\ ahead' = ahead \ {iter'}
           /\ UNCHANGED <<inserted, removed, now, crashed>>
  BY <1>3 DEF AheadIsAhead, EraseReused
<1> QED BY <1>1, <1>2, <1>3 DEF Advance

LEMMA SkipInv ==
  ASSUME IInv, ~crashed, SkipCanceled
  PROVE  IInv'
<1> USE DEF IInv
<1>1. /\ at = "test" /\ iter # End /\ Advance(m_repeatCount[iter])
      /\ UNCHANGED <<heapVars, timeVars, pending, clock>>
  BY DEF SkipCanceled
<1>2. iter \in m_timers /\ iter \in Timer /\ iter \in inserted /\ iter \notin removed
  BY <1>1 DEF AtEntry, TypeOK
<1>3. /\ at' = "test" /\ UNCHANGED <<crashed, inserted, removed, now>>
      /\ m_timers' = IF m_repeatCount[iter] = 0 THEN m_timers \ {iter} ELSE m_timers
      /\ iter' \in (m_timers \ {iter}) \cup {End}
      /\ ahead' \subseteq ahead /\ strayed' \in BOOLEAN /\ AheadIsAhead'
  BY <1>1, <1>2, AdvanceStep
<1>4. TypeOK'
  BY <1>1, <1>3 DEF TypeOK
<1>5. AddedOnce'
  BY <1>1, <1>3 DEF AddedOnce, IsAdd
<1>6. \A t \in Timer : ~InRun(t) /\ ~InRun(t)' /\ Finished(t)' = Finished(t)
  BY <1>1, <1>3 DEF InRun, Finished
<1>7. CountsRuns' /\ OnSchedule' /\ NeverEarlier'
  BY <1>1, <1>3, <1>6 DEF CountsRuns, OnSchedule, NeverEarlier
<1>8. QueuedWhileNeeded'
  <2>1. kind[iter].repeat # 0 \/ runs[iter] > 0 => m_repeatCount[iter] # 0
    <3>1. kind[iter].repeat # 0 \/ runs[iter] > 0 => HasRunsLeft(iter)
      BY <1>2, <1>6 DEF QueuedWhileNeeded
    <3>2. Finished(iter) = runs[iter] /\ runs[iter] \in Nat
      BY <1>2, <1>6 DEF Finished, TypeOK
    <3> QED BY <1>2, <3>1, <3>2, KindType DEF CountsRuns, HasRunsLeft
  <2>2. \A t \in inserted : kind[t].repeat # 0 \/ runs[t] > 0 =>
          (t \in m_timers' <=> t \in m_timers)
    BY <1>3, <2>1
  <2> QED BY <1>1, <1>3, <1>6, <2>2 DEF QueuedWhileNeeded, HasRunsLeft, TypeOK
<1>9. AtEntry'
  BY <1>1, <1>3 DEF AtEntry
<1> QED BY <1>3, <1>4, <1>5, <1>7, <1>8, <1>9

\* The run of iter is over: the count and the expiration follow it.
LEMMA ReturnInv ==
  ASSUME IInv, ~crashed, CallbackReturns
  PROVE  IInv'
<1> USE DEF IInv
<1>1. /\ at = "callback" /\ Reschedule(iter) /\ Advance(m_repeatCount'[iter])
      /\ UNCHANGED <<heapVars, runs, pending, clock>>
  BY DEF CallbackReturns
<1>2. /\ iter \in Timer /\ iter # End /\ iter \in inserted
      /\ runs[iter] > 0 /\ (iter \in m_timers <=> iter \notin removed)
      /\ kind[iter].repeat > 0 => runs[iter] <= kind[iter].repeat
  BY <1>1, TimerAssumption DEF AtEntry, TypeOK
<1> DEFINE left == IF m_repeatCount[iter] = -1 THEN -1 ELSE m_repeatCount[iter] - 1
<1>3. /\ m_repeatCount' = [m_repeatCount EXCEPT ![iter] = left]
      /\ m_repeatCount'[iter] = left
      /\ m_expiration' = IF left = 0 THEN m_expiration
                         ELSE [m_expiration EXCEPT ![iter] = @ + kind[iter].interval]
  BY <1>1, <1>2 DEF Reschedule, TypeOK
<1>4. /\ \/ /\ iter \in m_timers /\ at' = "test"
            /\ m_timers' = IF left = 0 THEN m_timers \ {iter} ELSE m_timers
            /\ iter' \in (m_timers \ {iter}) \cup {End}
            /\ UNCHANGED crashed
         \/ /\ iter \notin m_timers /\ crashed' = TRUE
            /\ UNCHANGED <<setVars, scanVars>>
         \/ /\ iter \notin m_timers /\ at' = "test" /\ iter' \in m_timers' \cup {End}
            /\ EraseReused /\ UNCHANGED crashed
      /\ m_timers' \subseteq m_timers /\ UNCHANGED <<inserted, removed, now>>
      /\ ahead' \subseteq ahead /\ strayed' \in BOOLEAN
      /\ AheadIsAhead'
  <2>1. Advance(left)
    BY <1>1, <1>3
  <2> HIDE DEF left
  <2> QED BY <1>1, <1>2, <2>1, AdvanceStep
<1>5. /\ kind[iter].interval \in Nat /\ kind[iter].repeat \in Nat \cup {-1}
      /\ runs[iter] \in Nat /\ m_repeatCount[iter] \in Nat \cup {-1}
      /\ m_expiration[iter] \in Nat /\ key[iter] \in Nat
  BY <1>2, KindType DEF TypeOK
<1>6. left \in Nat \cup {-1}
  BY <1>5
<1>7. Finished(iter) = runs[iter] - 1
  BY <1>1, <1>2 DEF Finished, InRun
<1>8. /\ kind[iter].repeat = -1 => left = -1
      /\ kind[iter].repeat > 0 => left = kind[iter].repeat - runs[iter]
      /\ kind[iter].repeat = 0 => left = -1
  BY <1>2, <1>5, <1>7 DEF CountsRuns
<1> HIDE DEF left
<1>9. /\ \A t \in Timer \ {iter} : /\ m_repeatCount'[t] = m_repeatCount[t]
                                   /\ m_expiration'[t] = m_expiration[t]
      /\ m_expiration'[iter] = IF left = 0 THEN m_expiration[iter]
                               ELSE m_expiration[iter] + kind[iter].interval
  BY <1>2, <1>3 DEF TypeOK
<1>10. TypeOK'
  <2>1. m_repeatCount' \in [Timer -> Nat \cup {-1}]
    BY <1>2, <1>3, <1>6 DEF TypeOK
  <2>2. m_expiration' \in [Timer -> Nat]
    BY <1>2, <1>3, <1>5 DEF TypeOK
  <2>3. /\ inserted' = inserted /\ m_timers' \in SUBSET inserted
        /\ removed' = removed /\ iter' \in Timer \cup {End} /\ now' = now
        /\ at' \in {"idle", "test", "callback"} /\ crashed' \in BOOLEAN
    BY <1>4 DEF TypeOK
  <2> QED BY <1>1, <1>4, <2>1, <2>2, <2>3 DEF TypeOK
<1>11. AddedOnce'
  BY <1>1, <1>4 DEF AddedOnce, IsAdd
<1>12. ~crashed' => \A t \in Timer : ~InRun(t)' /\ Finished(t)' = runs[t]
  BY <1>1, <1>4 DEF InRun, Finished
<1>13. \A t \in Timer \ {iter} : ~InRun(t) /\ ~InRun(t)' /\ Finished(t) = runs[t]
  BY <1>1, <1>4 DEF InRun, Finished
<1>14. CountsRuns'
  <2> SUFFICES ASSUME ~crashed', NEW t \in Timer
               PROVE  /\ kind[t].repeat = -1 => m_repeatCount'[t] = -1
                      /\ kind[t].repeat > 0 =>
                           m_repeatCount'[t] = kind[t].repeat - runs[t]
                      /\ kind[t].repeat = 0 =>
                           m_repeatCount'[t] = IF runs[t] = 0 THEN 0 ELSE -1
    BY <1>1, <1>12 DEF CountsRuns
  <2>1. CASE t = iter
    BY <2>1, <1>2, <1>3, <1>5, <1>8
  <2>2. CASE t # iter
    BY <2>2, <1>9, <1>13 DEF CountsRuns
  <2> QED BY <2>1, <2>2
<1>15. OnSchedule'
  <2> SUFFICES ASSUME ~crashed', NEW t \in Timer,
                      kind[t].repeat > 0 => runs[t] < kind[t].repeat
               PROVE  m_expiration'[t] = key[t] + runs[t] * kind[t].interval
    BY <1>1, <1>12 DEF OnSchedule
  <2>1. CASE t = iter
    <3>1. left # 0
      BY <2>1, <1>5, <1>8
    <3>2. m_expiration[iter] = key[iter] + (runs[iter] - 1) * kind[iter].interval
      BY <2>1, <1>5, <1>7 DEF OnSchedule
    <3>3. runs[iter] * kind[iter].interval
            = (runs[iter] - 1) * kind[iter].interval + kind[iter].interval
      <4>1. runs[iter] - 1 \in Nat /\ (runs[iter] - 1) + 1 = runs[iter]
        BY <1>2, <1>5
      <4> QED BY <1>5, <4>1, OneMore
    <3>4. (runs[iter] - 1) * kind[iter].interval \in Int
      BY <1>5
    <3> DEFINE before == (runs[iter] - 1) * kind[iter].interval
               after == runs[iter] * kind[iter].interval
    <3> HIDE DEF before, after
    <3>5. m_expiration'[iter] = key[iter] + after
      <4>1. m_expiration'[iter] = m_expiration[iter] + kind[iter].interval
        BY <1>9, <3>1
      <4>2. /\ m_expiration[iter] = key[iter] + before
            /\ after = before + kind[iter].interval
            /\ before \in Int
        BY <3>2, <3>3, <3>4 DEF before, after
      <4> QED BY <1>5, <4>1, <4>2
    <3> QED BY <2>1, <3>5 DEF after
  <2>2. CASE t # iter
    BY <2>2, <1>9, <1>13 DEF OnSchedule
  <2> QED BY <2>1, <2>2
<1>16. NeverEarlier'
  <2> SUFFICES ASSUME NEW t \in Timer
               PROVE  /\ m_expiration'[t] >= key[t]
                      /\ runs[t] = 0 => m_expiration'[t] = key[t]
    BY <1>1 DEF NeverEarlier
  <2>1. CASE t = iter
    <3>1. m_expiration[iter] >= key[iter]
      BY <1>2 DEF NeverEarlier
    <3>2. m_expiration'[iter] >= key[iter]
      BY <3>1, <1>5, <1>9
    <3> QED BY <2>1, <3>2, <1>2, <1>5
  <2>2. CASE t # iter
    BY <2>2, <1>9 DEF NeverEarlier
  <2> QED BY <2>1, <2>2
<1>17. QueuedWhileNeeded'
  <2> SUFFICES ASSUME NEW t \in inserted, kind[t].repeat # 0 \/ runs[t] > 0, ~InRun(t)'
               PROVE  t \in m_timers' <=> t \notin removed /\ HasRunsLeft(t)
    BY <1>1, <1>4 DEF QueuedWhileNeeded, HasRunsLeft
  <2>1. CASE t = iter
    <3>1. at' = "test"
      BY <2>1, <1>1, <1>4 DEF InRun
    <3>2. HasRunsLeft(t) <=> left # 0
      BY <2>1, <1>2, <1>5, <1>8 DEF HasRunsLeft
    <3> QED BY <2>1, <3>1, <3>2, <1>1, <1>2, <1>4
  <2>2. CASE t # iter
    <3>1. t \in m_timers => m_repeatCount[t] # 0
      <4>1. t \in Timer /\ Finished(t) = runs[t] /\ runs[t] \in Nat
        BY <2>2, <1>13 DEF TypeOK
      <4>2. t \in m_timers => HasRunsLeft(t)
        BY <2>2, <1>13, <4>1 DEF QueuedWhileNeeded
      <4> QED BY <4>1, <4>2, KindType DEF CountsRuns, HasRunsLeft
    <3>2. t \in m_timers' <=> t \in m_timers
      BY <2>2, <3>1, <1>4 DEF EraseReused
    <3> QED BY <2>2, <3>2, <1>13 DEF QueuedWhileNeeded, TypeOK
  <2> QED BY <2>1, <2>2
<1>18. AtEntry'
  <2>1. m_timers' \subseteq m_timers /\ m_timers' \cap removed' = {}
    BY <1>4 DEF AtEntry
  <2>2. (at' = "test" /\ iter' # End) => iter' \in m_timers'
    BY <1>1, <1>4
  <2>3. at' = "callback" => UNCHANGED <<iter, m_timers, removed, inserted, runs, kind>>
    BY <1>1, <1>4
  <2> QED BY <1>1, <2>1, <2>2, <2>3 DEF AtEntry
<1> QED BY <1>4, <1>10, <1>11, <1>14, <1>15, <1>16, <1>17, <1>18
-----------------------------------------------------------------------------
(* The theorems.                                                           *)

LEMMA StepInv == IInv /\ [Next]_vars => IInv'
<1> SUFFICES ASSUME IInv, [Next]_vars PROVE IInv'
  OBVIOUS
<1>1. CASE UNCHANGED vars \/ ClockChanges
  BY <1>1, FrameInv DEF ClockChanges, IInv, TypeOK
<1>2. CASE ~crashed /\ Scan
  BY <1>2, StartInv, StopInv, CallInv, SkipInv, ReturnInv DEF Scan
<1>3. CASE ~crashed /\ Call
  BY <1>3, AddInv, RemoveInv, CancelInv DEF Call
<1>4. CASE ~crashed /\ RunFunctor
  BY <1>4, FunctorInv
<1> QED BY <1>1, <1>2, <1>3, <1>4 DEF Next

\* The set, the timers and doTimer stay in step.
THEOREM Agreement == Spec => []IInv
BY InitInv, StepInv, PTL DEF Spec

\* The variables of the timer queue keep their types.
THEOREM TypeCorrect == Spec => []TypeOK
<1>1. IInv => TypeOK
  BY DEF IInv
<1> QED BY <1>1, Agreement, PTL

\* A timer has an entry exactly from its insertion to its removal or last run.
THEOREM NoTimerLost == Spec => []QueuedWhileNeeded
<1>1. IInv => QueuedWhileNeeded
  BY DEF IInv
<1> QED BY <1>1, Agreement, PTL

\* No step runs a timer before its time.
LEMMA RunStep ==
  ASSUME IInv, [Next]_vars, NEW t \in Timer, runs'[t] # runs[t]
  PROVE  /\ runs'[t] = runs[t] + 1
         /\ key[t] + runs[t] * kind[t].interval < now
<1> USE DEF IInv
<1>1. ~crashed /\ CallBack
  BY DEF Next, Scan, Call, DoTimer, StopScan, SkipCanceled, CallbackReturns, AddTimer,
         NewTimer, RemoveTimer, Cancel, RunFunctor, ClockChanges
<1>2. /\ at = "test" /\ iter # End /\ m_expiration[iter] < now
      /\ runs' = [runs EXCEPT ![iter] = @ + 1]
  BY <1>1 DEF CallBack, Due
<1>3. iter \in m_timers /\ iter \in inserted /\ iter \in Timer
  BY <1>2 DEF AtEntry, TypeOK
<1>4. t = iter /\ runs'[t] = runs[t] + 1
  BY <1>2, <1>3 DEF TypeOK
<1>5. ~InRun(t) /\ Finished(t) = runs[t]
  BY <1>2 DEF InRun, Finished
<1>6. kind[t].repeat > 0 => Finished(t) < kind[t].repeat
  BY <1>3, <1>4, <1>5, KindType DEF QueuedWhileNeeded, HasRunsLeft
<1>7. m_expiration[t] = key[t] + runs[t] * kind[t].interval
  BY <1>1, <1>5, <1>6 DEF OnSchedule
<1> QED BY <1>2, <1>4, <1>7

\* When doTimer stops short of a timer that is due, the entry it stops at is stale.
LEMMA StopStep ==
  ASSUME IInv, [Next]_vars, at = "test", at' = "idle", ~strayed,
         NEW t \in ahead \cap m_timers, Due(t)
  PROVE  \E u \in m_timers : Before(u, t) /\ runs[u] > 0 /\ ~Due(u)
<1> USE DEF IInv
<1>1. iter # End => ~Due(iter)
  <2>1. ~DoTimer /\ ~CallBack /\ ~SkipCanceled /\ ~CallbackReturns
    BY AdvanceStep DEF DoTimer, CallBack, SkipCanceled, CallbackReturns
  <2> QED BY <2>1 DEF Next, Scan, StopScan, Call, AddTimer, NewTimer, RemoveTimer, Cancel,
                      RunFunctor, ClockChanges
<1>2. iter # End /\ Before(iter, t)
  BY DEF AheadIsAhead
<1>3. iter \in m_timers /\ iter \in Timer /\ t \in Timer
  BY <1>2 DEF AtEntry, TypeOK
<1>4. runs[iter] > 0
  <2> SUFFICES ASSUME runs[iter] = 0 PROVE FALSE
    BY <1>3 DEF TypeOK
  <2>1. m_expiration[iter] = key[iter] /\ m_expiration[t] >= key[t]
    BY <1>3 DEF NeverEarlier
  <2>2. key[iter] <= key[t]
    BY <1>2, <1>3 DEF Before, TypeOK
  <2>3. ~(m_expiration[iter] < now) /\ m_expiration[t] < now
    BY <1>1, <1>2 DEF Due
  <2>4. /\ m_expiration[iter] \in Nat /\ m_expiration[t] \in Nat
        /\ key[iter] \in Nat /\ key[t] \in Nat /\ now \in Int
    BY <1>3 DEF TypeOK
  <2> QED BY <2>1, <2>2, <2>3, <2>4
<1> QED BY <1>1, <1>2, <1>3, <1>4

\* A due timer is missed by a scan only behind an entry whose timer has run and is not
\* due: as long as the timers before it have not run, none is missed.
THEOREM MissedOnlyIfStale == Spec => MissedOnlyBehindStale
<1>1. IInv /\ [Next]_vars =>
        [(at = "test" /\ at' = "idle" /\ ~strayed) =>
           \A t \in ahead \cap m_timers :
             Due(t) => \E u \in m_timers : Before(u, t) /\ runs[u] > 0 /\ ~Due(u)]_vars
  BY StopStep
<1> QED BY <1>1, Agreement, PTL DEF Spec, MissedOnlyBehindStale
-----------------------------------------------------------------------------
(* The refinement of TimerService.                                         *)

\* A call from outside asks for a timer, removes one or switches one, now or when
\* its functor runs.
LEMMA ServiceCall ==
  ASSUME IInv, ~crashed, Call \/ RunFunctor
  PROVE  Service!SNext
<1> USE DEF IInv
<1>1. /\ made \subseteq Timer /\ inserted \subseteq made /\ m_timers \subseteq inserted
      /\ key \in [Timer -> Nat] /\ kind \in [Timer -> Kind \cup {NoKind}]
  BY DEF TypeOK
<1>2. ASSUME NEW t \in Timer, RemoveTimerInLoop(t),
             UNCHANGED <<made, key, kind, m_canceled, runs, now>>
      PROVE  Service!SNext
  <2>1. CASE t \in m_timers
    <3>1. Service!Remove(t)
      BY <1>2, <2>1 DEF RemoveTimerInLoop, Service!Remove
    <3> QED BY <3>1 DEF Service!SNext
  <2>2. CASE t \notin m_timers
    <3>1. Service!TimeChanges
      BY <1>2, <2>2 DEF RemoveTimerInLoop, Service!TimeChanges
    <3> QED BY <3>1 DEF Service!SNext
  <2> QED BY <2>1, <2>2
<1>3. ASSUME NEW t \in Timer, NEW b \in BOOLEAN, CancelTimerInLoop(t, b),
             UNCHANGED <<made, key, kind, setVars, runs, now>>
      PROVE  Service!SNext
  <2>1. CASE t \in m_timers
    <3>1. Service!Switch(t)
      BY <1>3, <2>1 DEF CancelTimerInLoop, Service!Switch
    <3> QED BY <3>1 DEF Service!SNext
  <2>2. CASE t \notin m_timers
    <3>1. Service!TimeChanges
      BY <1>3, <2>2 DEF CancelTimerInLoop, Service!TimeChanges
    <3> QED BY <3>1 DEF Service!SNext
  <2> QED BY <2>1, <2>2
<1>4. ASSUME UNCHANGED <<made, key, kind, m_canceled, setVars, runs, now>>
      PROVE  Service!SNext
  BY <1>4 DEF Service!TimeChanges, Service!SNext
<1>5. ASSUME NEW t \in Timer, NEW when \in 0..MaxTime, NEW k \in Kind, AddTimer(t, when, k)
      PROVE  Service!SNext
  <2>1. /\ t \notin made /\ made' = made \cup {t}
        /\ key' = [key EXCEPT ![t] = when] /\ kind' = [kind EXCEPT ![t] = k]
        /\ UNCHANGED <<removed, m_canceled, runs, now>>
        /\ Insert(t) \/ UNCHANGED <<inserted, m_timers>>
    BY <1>5 DEF AddTimer, NewTimer
  <2>2. /\ \A u \in Timer \ {t} : key'[u] = key[u] /\ kind'[u] = kind[u]
        /\ kind'[t] \in Kind
    BY <1>1, <2>1
  <2>3. Service!Activate(t) \/ UNCHANGED <<inserted, m_timers>>
    BY <2>1 DEF Insert, Service!Activate
  <2>4. Service!Add(t)
    BY <2>1, <2>2, <2>3 DEF Service!Add
  <2> QED BY <2>4 DEF Service!SNext
<1>6. ASSUME NEW t \in Timer, RemoveTimer(t) PROVE Service!SNext
  BY <1>2, <1>4, <1>6 DEF RemoveTimer
<1>7. ASSUME NEW t \in Timer, NEW b \in BOOLEAN, Cancel(t, b) PROVE Service!SNext
  BY <1>3, <1>4, <1>7 DEF Cancel
<1>8. CASE RunFunctor
  <2> DEFINE f == Head(pending)
  <2>1. f \in Functor /\ f.timer \in made /\ f.timer \in Timer /\ f.off \in BOOLEAN
        /\ (IsAdd(f) => f.timer \notin inserted)
    <3>1. f \in Functor /\ f = pending[1] /\ 1 \in 1..Len(pending)
      BY <1>8, EmptySeq DEF TypeOK, RunFunctor
    <3> QED BY <3>1 DEF AddedOnce, Functor
  <2>2. UNCHANGED <<made, key, kind, runs, now>>
    BY <1>8 DEF RunFunctor
  <2>3. CASE f.op = "addTimerInLoop" /\ Insert(f.timer) /\ UNCHANGED <<removed, m_canceled>>
    <3>1. Service!Begin(f.timer)
      BY <2>1, <2>2, <2>3 DEF IsAdd, Insert, Service!Begin, Service!Activate
    <3> QED BY <2>1, <3>1 DEF Service!SNext
  <2>4. CASE RemoveTimerInLoop(f.timer) /\ UNCHANGED m_canceled
    BY <1>2, <2>1, <2>2, <2>4
  <2>5. CASE CancelTimerInLoop(f.timer, f.off) /\ UNCHANGED setVars
    BY <1>3, <2>1, <2>2, <2>5
  <2> QED BY <1>8, <2>3, <2>4, <2>5 DEF RunFunctor
<1> QED BY <1>5, <1>6, <1>7, <1>8 DEF Call

\* What doTimer does when it leaves a timer: it erases the timer it is at, one without
\* runs at a reused node, or none.
LEMMA ServiceAdvance ==
  ASSUME NEW count, Advance(count)
  PROVE  /\ UNCHANGED <<inserted, removed, now>>
         /\ \/ UNCHANGED m_timers
            \/ count = 0 /\ iter \in m_timers /\ m_timers' = m_timers \ {iter}
            \/ iter \notin m_timers /\ EraseReused
BY DEF Advance

\* A timer whose count is 0 between two runs has had the runs it was added for.
LEMMA CountOfZero ==
  ASSUME IInv, ~crashed, NEW t \in Timer, ~InRun(t), m_repeatCount[t] = 0
  PROVE  runs[t] = kind[t].repeat
<1> USE DEF IInv
<1>1. Finished(t) = runs[t] /\ runs[t] \in Nat
  BY DEF Finished, TypeOK
<1> QED BY <1>1, KindType DEF CountsRuns

\* A run is one of a timer that is active, on and due by its schedule; the timers that
\* doTimer erases have retired.
LEMMA ServiceScan ==
  ASSUME IInv, ~crashed, Scan
  PROVE  Service!SNext
<1> USE DEF IInv
<1>1. CASE DoTimer \/ StopScan
  <2>1. Service!TimeChanges
    BY <1>1 DEF DoTimer, StopScan, Service!TimeChanges
  <2> QED BY <2>1 DEF Service!SNext
<1>2. CASE CallBack
  <2>1. /\ at = "test" /\ iter # End /\ ~m_canceled[iter]
        /\ runs' = [runs EXCEPT ![iter] = @ + 1]
        /\ UNCHANGED <<made, key, kind, m_canceled, setVars, now>>
    BY <1>2 DEF CallBack
  <2>2. iter \in m_timers /\ iter \in inserted /\ iter \in Timer
    BY <2>1 DEF AtEntry, TypeOK
  <2>3. runs'[iter] # runs[iter]
    BY <2>1, <2>2 DEF TypeOK
  <2>4. key[iter] + runs[iter] * kind[iter].interval < now
    BY <1>2, <2>2, <2>3, RunStep DEF Next, Scan
  <2>5. kind[iter].repeat \in {0, Forever} \/ runs[iter] < kind[iter].repeat
    BY <2>1, <2>2, KindType DEF QueuedWhileNeeded, HasRunsLeft, InRun
  <2>6. Service!Run(iter)
    BY <2>1, <2>2, <2>4, <2>5 DEF Service!Run
  <2> QED BY <2>2, <2>6 DEF Service!SNext
<1>3. ASSUME NEW count, Advance(count), UNCHANGED <<heapVars, runs>>,
             count = 0 /\ iter \in m_timers => runs[iter] = kind[iter].repeat
      PROVE  Service!SNext
  <2>1. CASE UNCHANGED m_timers
    <3>1. Service!TimeChanges
      BY <1>3, <2>1, ServiceAdvance DEF Service!TimeChanges
    <3> QED BY <3>1 DEF Service!SNext
  <2>2. CASE count = 0 /\ iter \in m_timers /\ m_timers' = m_timers \ {iter}
    <3>1. iter \in Timer
      BY <2>2 DEF TypeOK
    <3>2. Service!Retire(iter)
      BY <1>3, <2>2, ServiceAdvance DEF Service!Retire
    <3> QED BY <3>1, <3>2 DEF Service!SNext
  <2>3. ASSUME iter \notin m_timers, NEW u \in m_timers, m_repeatCount[u] = 0,
               m_timers' = m_timers \ {u}
        PROVE  Service!SNext
    <3>1. u \in Timer /\ ~InRun(u)
      BY <2>3 DEF TypeOK, InRun
    <3>2. runs[u] = kind[u].repeat
      BY <2>3, <3>1, CountOfZero
    <3>3. Service!Retire(u)
      BY <1>3, <2>3, <3>2, ServiceAdvance DEF Service!Retire
    <3> QED BY <3>1, <3>3 DEF Service!SNext
  <2> QED BY <1>3, <2>1, <2>2, <2>3, ServiceAdvance DEF EraseReused
<1>4. CASE SkipCanceled
  <2>1. /\ at = "test" /\ iter # End /\ m_canceled[iter]
        /\ Advance(m_repeatCount[iter]) /\ UNCHANGED <<heapVars, runs>>
    BY <1>4 DEF SkipCanceled
  <2>2. iter \in m_timers /\ iter \in inserted /\ iter \in Timer
    BY <2>1 DEF AtEntry, TypeOK
  <2>3. m_repeatCount[iter] = 0 => runs[iter] = kind[iter].repeat
    BY <2>1, <2>2, CountOfZero DEF InRun
  <2> QED BY <1>3, <2>1, <2>3
<1>5. CASE CallbackReturns
  <2>1. /\ at = "callback" /\ Reschedule(iter)
        /\ Advance(m_repeatCount'[iter]) /\ UNCHANGED <<heapVars, runs>>
    BY <1>5 DEF CallbackReturns
  <2>2. iter \in inserted /\ iter \in Timer /\ runs[iter] > 0 /\ runs[iter] \in Nat
    BY <2>1 DEF AtEntry, TypeOK
  <2>3. Finished(iter) = runs[iter] - 1
    BY <2>1 DEF InRun, Finished
  <2>4. m_repeatCount'[iter] = IF m_repeatCount[iter] = Forever THEN Forever
                               ELSE m_repeatCount[iter] - 1
    BY <2>1, <2>2 DEF Reschedule, TypeOK
  <2>5. m_repeatCount'[iter] = 0 => runs[iter] = kind[iter].repeat
    BY <2>2, <2>3, <2>4, KindType DEF CountsRuns
  <2> QED BY <1>3, <2>1, <2>2, <2>5
<1> QED BY <1>1, <1>2, <1>4, <1>5 DEF Scan

\* TimerQueue implements the timer service, whatever its callbacks and other threads add,
\* remove and cancel, and however the clock is set.
THEOREM TimersImplemented == Spec => ImplementsTimers
<1>1. Init => Service!SInit
  BY DEF Init, Service!SInit
<1>2. IInv /\ [Next]_vars => [Service!SNext]_(Service!svars)
  <2> SUFFICES ASSUME IInv, Next PROVE Service!SNext
    BY DEF Service!svars
  <2>1. CASE ClockChanges
    <3>1. Service!TimeChanges
      BY <2>1 DEF ClockChanges, Service!TimeChanges
    <3> QED BY <3>1 DEF Service!SNext
  <2> QED BY <2>1, ServiceCall, ServiceScan DEF Next
<1> QED BY <1>1, <1>2, Agreement, PTL DEF Spec, ImplementsTimers, Service!SSpec
=============================================================================
