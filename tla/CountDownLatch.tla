---------------------------- MODULE CountDownLatch ----------------------------
(***************************************************************************)
(* CountDownLatch (src/base/CountDownLatch.h, CountDownLatch.cpp): threads *)
(* wait until others have counted it down.  The test and the sleep of wait *)
(* are one step, and so are the count and the notify of countDown: each is *)
(* done with _mutex held.                                                  *)
(***************************************************************************)
EXTENDS Integers, FiniteSets

CONSTANTS
  Waiter,       \* threads that call wait, again and again
  InitialCount, \* the counts a latch is made with: any int
  LeastCount    \* bound: it is counted down no further

ASSUME LatchAssumption == /\ InitialCount \subseteq Int
                          /\ LeastCount \in Int
                          /\ \A n \in InitialCount : LeastCount <= n

VARIABLES
  _count,
  pc,        \* of each waiter: outside wait, asleep on _cond, or woken
  start,     \* history: the count the latch was made with
  counted,   \* history: calls of countDown
  passed     \* history: the waiters a call of wait has returned to

vars == <<_count, pc, start, counted, passed>>

Init == /\ _count \in InitialCount
        /\ pc = [w \in Waiter |-> "idle"]
        /\ start = _count /\ counted = 0 /\ passed = {}
-----------------------------------------------------------------------------
Return(w) == pc' = [pc EXCEPT ![w] = "idle"] /\ passed' = passed \cup {w}
Sleep(w)  == pc' = [pc EXCEPT ![w] = "asleep"] /\ UNCHANGED passed

\* Mutant: an if in place of the while: who wakes up returns.
TestOnce(w) == IF _count > 0 /\ pc[w] = "idle" THEN Sleep(w) ELSE Return(w)

\* The condition of the while loop.
Test(w) == IF _count > 0 THEN Sleep(w) ELSE Return(w)

\* wait: it is called, or it wakes up and tests again.
Wait(w) == /\ pc[w] \in {"idle", "woken"}
           /\ Test(w)
           /\ UNCHANGED <<_count, start, counted>>

\* Mutant: it wakes one.
NotifyOne ==
  \/ \E w \in Waiter : pc[w] = "asleep" /\ pc' = [pc EXCEPT ![w] = "woken"]
  \/ (\A w \in Waiter : pc[w] # "asleep") /\ UNCHANGED pc

\* _cond.notify_all
NotifyAll == pc' = [w \in Waiter |-> IF pc[w] = "asleep" THEN "woken" ELSE pc[w]]

\* Mutant: the count before the decrement is compared.
NotifiesLate(n) == n = -1

\* countDown notifies only when the count is exactly zero.
Notifies(n) == n = 0

Counted(n) == n - 1

countDown == /\ _count > LeastCount
             /\ _count' = Counted(_count)
             /\ counted' = counted + 1
             /\ IF Notifies(_count') THEN NotifyAll ELSE UNCHANGED pc
             /\ UNCHANGED <<start, passed>>

\* A condition variable may wake up a thread that nobody notified.
Spurious(w) == /\ pc[w] = "asleep"
               /\ pc' = [pc EXCEPT ![w] = "woken"]
               /\ UNCHANGED <<_count, start, counted, passed>>

Next == countDown \/ \E w \in Waiter : Wait(w) \/ Spurious(w)

\* A woken thread runs: it gets the mutex and tests.
Fairness == \A w \in Waiter : WF_vars(pc[w] = "woken" /\ Wait(w))

Spec == Init /\ [][Next]_vars /\ Fairness
-----------------------------------------------------------------------------
(* Properties.                                                             *)

TypeOK == /\ start \in InitialCount /\ counted \in Nat
          /\ _count = start - counted
          /\ pc \in [Waiter -> {"idle", "asleep", "woken"}]
          /\ passed \subseteq Waiter

\* A notification at exactly zero (CountDownLatch.cpp:20) is enough: nobody sleeps
\* on a latch that is open, whatever it was made with and however far below zero it
\* is counted.
NobodySleepsAtZero == \A w \in Waiter : pc[w] = "asleep" => _count > 0

\* wait does not return before the last countDown that was asked for, also when it
\* is woken for no reason.
ReturnsOnlyWhenCounted == passed # {} => counted >= start

\* Who waits at an open latch returns from wait.
WaitersReturn ==
  \A w \in Waiter : (_count <= 0 /\ pc[w] # "idle") ~> pc[w] = "idle"
=============================================================================
