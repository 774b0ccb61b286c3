---------------------------- MODULE MCEPollPoller ----------------------------
(* Two channels that share a descriptor number, and one on another.        *)
EXTENDS EPollPoller, TLC

CONSTANTS c1, c2, c3

MCfd == c1 :> 5 @@ c2 :> 5 @@ c3 :> 6
=============================================================================
