----------------------------- MODULE LogService -----------------------------
(***************************************************************************)
(* What the asynchronous logger promises its callers: the lines it accepts *)
(* come out one by one, each once, in the order in which they were         *)
(* accepted.  It says nothing of how soon: a line may stay in the service  *)
(* for ever.  AsyncLog is shown to implement this specification.           *)
(***************************************************************************)
EXTENDS Naturals, Sequences

CONSTANT Line          \* the lines a caller may log

VARIABLES accepted,    \* the lines accepted so far, in order
          delivered    \* the lines that have come out, in order

svars == <<accepted, delivered>>

SInit == accepted = <<>> /\ delivered = <<>>

\* A caller's line is accepted.
Accept == /\ \E l \in Line : accepted' = Append(accepted, l)
          /\ UNCHANGED delivered

\* The oldest line that is still inside comes out.
Deliver == /\ Len(delivered) < Len(accepted)
           /\ delivered' = Append(delivered, accepted[Len(delivered) + 1])
           /\ UNCHANGED accepted

SNext == Accept \/ Deliver

SSpec == SInit /\ [][SNext]_svars
=============================================================================
