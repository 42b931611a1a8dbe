------------------------------- MODULE Mailbox -------------------------------
(***************************************************************************)
(* What the inbox of a loop promises (src/src/loop_export.h, loop_post()): *)
(* every message posted is handed to its handler, once, and messages are   *)
(* handed out in the order in which they were posted.                      *)
(***************************************************************************)
EXTENDS Naturals, Sequences

CONSTANT Msg

VARIABLES queue,  \* the messages posted and not yet handed out, oldest first
          free    \* the messages that may be posted

mvars == <<queue, free>>

MInit == queue = <<>> /\ free = Msg

\* The caller picks a message of its own...
Pick(m) == m \in free /\ free' = free \ {m} /\ UNCHANGED queue

\* ... and posts it.
Post(m) ==
  /\ m \notin free /\ \A i \in 1 .. Len(queue) : queue[i] # m
  /\ queue' = Append(queue, m)
  /\ UNCHANGED free

\* The loop hands the oldest message to its handler.
Deliver ==
  /\ queue # <<>>
  /\ queue' = Tail(queue)
  /\ free' = free \cup {Head(queue)}

MNext == Deliver \/ \E m \in Msg : Pick(m) \/ Post(m)

MOrder    == MInit /\ [][MNext]_mvars
MDelivery == WF_mvars(Deliver)
MSpec     == MOrder /\ MDelivery
=============================================================================
