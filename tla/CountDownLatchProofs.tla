------------------------- MODULE CountDownLatchProofs -------------------------
(***************************************************************************)
(* Proofs about CountDownLatch, for any number of waiters and any count.   *)
(***************************************************************************)
EXTENDS CountDownLatch, TLAPS

IInv == TypeOK /\ NobodySleepsAtZero /\ ReturnsOnlyWhenCounted

LEMMA InitInv == Init => IInv
BY LatchAssumption
   DEF Init, IInv, TypeOK, NobodySleepsAtZero, ReturnsOnlyWhenCounted

LEMMA CountIsInt == TypeOK => _count \in Int /\ start \in Int /\ counted \in Nat
BY LatchAssumption DEF TypeOK

LEMMA WaitInv == ASSUME IInv, NEW w \in Waiter, Wait(w) PROVE IInv'
<1>1. UNCHANGED <<_count, start, counted>> /\ _count = start - counted
  BY DEF Wait, IInv, TypeOK
<1>2. CASE _count > 0
  BY <1>1, <1>2
     DEF Wait, Test, Sleep, IInv, TypeOK, NobodySleepsAtZero, ReturnsOnlyWhenCounted
<1>3. CASE ~(_count > 0)
  <2>1. counted >= start
    BY <1>1, <1>3, CountIsInt DEF IInv
  <2> QED
    BY <1>1, <1>3, <2>1
       DEF Wait, Test, Return, IInv, TypeOK, NobodySleepsAtZero, ReturnsOnlyWhenCounted
<1> QED
  BY <1>2, <1>3

\* The count passes zero from above: who slept at a positive count is notified
\* when it gets there, or goes on sleeping at a count that is still positive.
LEMMA CountDownInv == ASSUME IInv, countDown PROVE IInv'
<1>1. /\ _count' = _count - 1 /\ counted' = counted + 1 /\ UNCHANGED <<start, passed>>
      /\ _count \in Int /\ start \in Int /\ counted \in Nat /\ _count = start - counted
  BY CountIsInt DEF countDown, Counted, IInv, TypeOK
<1>2. TypeOK'
  BY <1>1 DEF countDown, NotifyAll, IInv, TypeOK
<1>3. NobodySleepsAtZero'
  <2>1. CASE _count' = 0
    BY <2>1 DEF countDown, Notifies, NotifyAll, IInv, TypeOK, NobodySleepsAtZero
  <2>2. CASE _count' # 0
    BY <1>1, <2>2 DEF countDown, Notifies, IInv, NobodySleepsAtZero
  <2> QED
    BY <2>1, <2>2
<1>4. ReturnsOnlyWhenCounted'
  BY <1>1 DEF IInv, ReturnsOnlyWhenCounted
<1> QED
  BY <1>2, <1>3, <1>4 DEF IInv

LEMMA SpuriousInv == ASSUME IInv, NEW w \in Waiter, Spurious(w) PROVE IInv'
BY DEF Spurious, IInv, TypeOK, NobodySleepsAtZero, ReturnsOnlyWhenCounted

LEMMA Invariance == Spec => []IInv
<1>1. IInv /\ UNCHANGED vars => IInv'
  BY DEF vars, IInv, TypeOK, NobodySleepsAtZero, ReturnsOnlyWhenCounted
<1>2. IInv /\ [Next]_vars => IInv'
  BY <1>1, WaitInv, CountDownInv, SpuriousInv DEF Next
<1> QED
  BY <1>2, InitInv, PTL DEF Spec

\* The count is what the latch was made with less the calls of countDown.
THEOREM TypeCorrect == Spec => []TypeOK
<1>1. IInv => TypeOK
  BY DEF IInv
<1> QED
  BY <1>1, Invariance, PTL

\* One notification, at exactly zero, reaches every sleeper (CountDownLatch.cpp:17-23).
THEOREM NoLostNotification == Spec => []NobodySleepsAtZero
<1>1. IInv => NobodySleepsAtZero
  BY DEF IInv
<1> QED
  BY <1>1, Invariance, PTL

\* No waiter returns early (CountDownLatch.cpp:9-15).
THEOREM NoEarlyReturn == Spec => []ReturnsOnlyWhenCounted
<1>1. IInv => ReturnsOnlyWhenCounted
  BY DEF IInv
<1> QED
  BY <1>1, Invariance, PTL
=============================================================================
