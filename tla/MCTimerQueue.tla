---------------------------- MODULE MCTimerQueue ----------------------------
(* The timers TimerQueue is checked with: runAfter once, runEvery, a count,  *)
(* and the count 0.                                                          *)
EXTENDS TimerQueue

MCKind == {[interval |-> 0, repeat |-> 1], [interval |-> 1, repeat |-> Forever],
           [interval |-> 1, repeat |-> 2], [interval |-> 1, repeat |-> 0]}
=============================================================================
