------------------------------ MODULE ByteQueue ------------------------------
(***************************************************************************)
(* What ByteBuffer promises its users: a queue of bytes.  Chunks are put   *)
(* at its back, headers at its front, and bytes are taken from either end. *)
(* It has no indices, no capacity and no room that could run out.  To take *)
(* more than there is takes nothing.                                       *)
(***************************************************************************)
EXTENDS Integers, Sequences

VARIABLE content

QInit == content = <<>>

PutBack(c)   == content' = content \o c

PutFront(c)  == content' = c \o content

TakeFront(n) == content' = IF n > Len(content) THEN content
                           ELSE SubSeq(content, n + 1, Len(content))

TakeBack(n)  == content' = IF n > Len(content) THEN content
                           ELSE SubSeq(content, 1, Len(content) - n)

Clear        == content' = <<>>

Keep         == content' = content
=============================================================================
