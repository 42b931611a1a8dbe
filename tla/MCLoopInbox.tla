----------------------------- MODULE MCLoopInbox -----------------------------
(***************************************************************************)
(* LoopInbox on small instances, and the mapping under which it implements *)
(* Mailbox: the queue is what the pointers link, oldest first.             *)
(***************************************************************************)
EXTENDS LoopInbox, SequencesExt

\* The messages that nx links from m on, in the order of the links; at most as
\* many as there are messages, so that a cycle shows as a message listed twice.
Linked(nx) ==
  LET from[k \in 0 .. Cardinality(Msg)] ==
        [l \in Link |-> IF k = 0 \/ l = Null THEN <<>>
                        ELSE <<l>> \o from[k - 1][nx[l]]]
  IN  from
Chain(m) == Linked(next)[Cardinality(Msg)][m]

\* mail, then the list being reversed, the rest of it before its reversed
\* part, then the inbox.
Queue == Chain(mail) \o Reverse(Chain(msg)) \o Chain(fifo) \o Reverse(Chain(inbox))
Free  == {m \in Msg : where[m] = "free"}

MB == INSTANCE Mailbox WITH queue <- Queue, free <- Free

\* The inbox implements the mailbox: whatever the interleaving of the pushes,
\* the exchange, the reversal and the turns that stop at MAIL messages, what is
\* handed out is what was posted, once, in the order of the pushes.
ImplementsMailbox == MB!MOrder

\* ... and while anything is posted, it hands out (loop_turn(), loop_fini()).
KeepsDelivering == MB!MDelivery
=============================================================================
