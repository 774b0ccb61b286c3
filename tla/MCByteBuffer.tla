---------------------------- MODULE MCByteBuffer ----------------------------
(***************************************************************************)
(* ByteBuffer on a small vector.                                           *)
(***************************************************************************)
EXTENDS ByteBuffer

MCData    == {<<0, 255>>, <<255, 255, 0>>}
MCInteger == {<<0>>, <<0, 255>>, <<255, 0, 0, 0, 0, 0, 0, 0>>}
=============================================================================
