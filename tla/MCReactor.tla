------------------------------ MODULE MCReactor ------------------------------
(* Two connections that get the same descriptor number, used by two threads. *)
EXTENDS Reactor, TLC

CONSTANTS c1, c2, t1, t2

MCfd == c1 :> 5 @@ c2 :> 5
=============================================================================
