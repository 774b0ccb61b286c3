---------------------------- MODULE TimerService ----------------------------
(***************************************************************************)
(* What TimerQueue promises to those who add timers.  A timer is active    *)
(* once, from when it begins until it is removed or retires, and never     *)
(* again.  It runs only after its turn, counted in intervals from its      *)
(* start, no more often than it was added for, and not while it is off.    *)
(* Nothing is said of how soon after its turn it runs, nor of the order of *)
(* timers whose turn has come.                                             *)
(***************************************************************************)
EXTENDS Integers

CONSTANTS
  Timer,
  Kind,      \* intervals and repeat counts
  Forever    \* the count of a timer that does not retire

VARIABLES
  asked,     \* the timers that were asked for,
  begun,     \* those of them that have begun,
  active,    \* those of them that may run,
  removed,   \* and those that were removed before they retired
  start,     \* of each timer: the turn of its first run
  kind,      \* of each timer: its interval and repeat count
  off,       \* of each timer: is it canceled?
  runs,      \* of each timer: how often it has run
  time       \* the time it is taken to be; it may go back

svars == <<asked, begun, active, removed, start, kind, off, runs, time>>

SInit == /\ asked = {} /\ begun = {} /\ active = {} /\ removed = {}
         /\ runs = [t \in Timer |-> 0]
         /\ off = [t \in Timer |-> FALSE]

Activate(t) == begun' = begun \cup {t} /\ active' = active \cup {t}

\* A timer is asked for; it may begin at once.
Add(t) == /\ t \notin asked /\ asked' = asked \cup {t}
          /\ Activate(t) \/ UNCHANGED <<begun, active>>
          /\ \A u \in Timer \ {t} : start'[u] = start[u] /\ kind'[u] = kind[u]
          /\ kind'[t] \in Kind
          /\ UNCHANGED <<removed, off, runs, time>>

Begin(t) == /\ t \in asked \ begun /\ Activate(t)
            /\ UNCHANGED <<asked, removed, start, kind, off, runs, time>>

Remove(t) == /\ t \in active /\ active' = active \ {t}
             /\ removed' = removed \cup {t}
             /\ UNCHANGED <<asked, begun, start, kind, off, runs, time>>

Switch(t) == /\ t \in active
             /\ \E b \in BOOLEAN : off' = [off EXCEPT ![t] = b]
             /\ UNCHANGED <<asked, begun, active, removed, start, kind, runs, time>>

\* A count of 0 is as good as Forever.
Run(t) == /\ t \in active /\ ~off[t]
          /\ kind[t].repeat \in {0, Forever} \/ runs[t] < kind[t].repeat
          /\ start[t] + runs[t] * kind[t].interval < time
          /\ runs' = [runs EXCEPT ![t] = @ + 1]
          /\ UNCHANGED <<asked, begun, active, removed, start, kind, off, time>>

\* A timer retires when it has run as often as it was added for.  One added for 0
\* runs may do so before it has run, or run for ever.
Retire(t) == /\ t \in active /\ active' = active \ {t}
             /\ runs[t] = kind[t].repeat
             /\ UNCHANGED <<asked, begun, removed, start, kind, off, runs, time>>

TimeChanges == UNCHANGED <<asked, begun, active, removed, start, kind, off, runs>>

SNext == \/ \E t \in Timer : \/ Add(t) \/ Begin(t) \/ Remove(t) \/ Switch(t)
                             \/ Run(t) \/ Retire(t)
         \/ TimeChanges

SSpec == SInit /\ [][SNext]_svars
=============================================================================
