--------------------------- MODULE MCTcpConnection ---------------------------
(* The messages TcpConnection is checked with: a cfg has no sequences. *)
EXTENDS TcpConnection

MCMessage == {<<"a">>, <<"b", "c">>}
=============================================================================
