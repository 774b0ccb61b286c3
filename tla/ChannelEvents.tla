---------------------------- MODULE ChannelEvents ----------------------------
(***************************************************************************)
(* The pure part of Channel (src/XNet/Channel.h, src/XNet/Channel.cpp):    *)
(* the events of epoll and the callbacks handleEvent makes for them.       *)
(***************************************************************************)
EXTENDS Sequences

kNoneEvent  == {}
kReadEvent  == {"IN"}      \* XPOLLIN | XPOLLPRI, always used together
kWriteEvent == {"OUT"}
Event       == {"IN", "OUT", "HUP", "ERR"}

Handler == {"handleClose", "handleError", "handleRead", "handleWrite"}

\* handleEvent: the callbacks for what epoll reported, in order.  HUP alone means
\* that the connection is gone; with IN the read finds out.
HandlersFor(revents) ==
     (IF "HUP" \in revents /\ "IN" \notin revents THEN <<"handleClose">> ELSE <<>>)
  \o (IF "ERR" \in revents THEN <<"handleError">> ELSE <<>>)
  \o (IF "IN" \in revents THEN <<"handleRead">> ELSE <<>>)
  \o (IF "OUT" \in revents THEN <<"handleWrite">> ELSE <<>>)
=============================================================================
