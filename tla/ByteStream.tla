----------------------------- MODULE ByteStream -----------------------------
(***************************************************************************)
(* What a TcpConnection promises those who send on it: an ordered stream   *)
(* of bytes.  A whole message is accepted at once, and any number of bytes *)
(* comes out at a time, in the order in which they were accepted, as long  *)
(* as the stream is open.  A stream that is closed stays closed: it may    *)
(* still accept messages, and none of their bytes comes out.               *)
(***************************************************************************)
EXTENDS Integers, Sequences

CONSTANT Message       \* the sequences of bytes that may be sent

VARIABLES accepted,    \* the bytes accepted so far, in order
          delivered,   \* the bytes that have come out, in order
          open         \* bytes may still come out

svars == <<accepted, delivered, open>>

SInit == accepted = <<>> /\ delivered = <<>> /\ open = TRUE

\* A message may arrive at any time.
Accept == \/ UNCHANGED accepted
          \/ \E msg \in Message : accepted' = accepted \o msg

\* The bytes that come next come out, also those that have just arrived; the end may
\* follow on the last of them.
Deliver == /\ open
           /\ \E n \in Len(delivered)..Len(accepted') : delivered' = SubSeq(accepted', 1, n)
           /\ open' \in BOOLEAN

Closed == ~open /\ UNCHANGED <<delivered, open>>

SNext == Accept /\ (Deliver \/ Closed)

SSpec == SInit /\ [][SNext]_svars
=============================================================================
