-------------------------- MODULE MCCountDownLatch --------------------------
(* The counts CountDownLatch is checked with: a cfg has no negative numbers. *)
EXTENDS CountDownLatch

MCInitialCount == -1..3
MCLeastCount   == -2
=============================================================================
