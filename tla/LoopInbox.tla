------------------------------ MODULE LoopInbox ------------------------------
(***************************************************************************)
(* The inbox of an event loop (src/src/loop.c): posters on any thread push *)
(* a message with a compare-and-swap and write the loop's eventfd only if  *)
(* they find the loop asleep; the loop takes the whole list with one       *)
(* exchange, reverses it, and hands out at most MAIL messages a turn.      *)
(*                                                                         *)
(* The list is modelled at the level of the code's pointers.  A shared     *)
(* access is one step; so is each round of the loop that reverses the      *)
(* list.  The only timers and events are the environment's: a wait without *)
(* a time limit ends through the eventfd or not at all.                    *)
(***************************************************************************)
EXTENDS Integers, FiniteSets

CONSTANTS Poster,   \* threads that post to the loop
          Self,     \* the loop's own thread, which posts from a handler
          Msg,      \* messages, each embedded in an object that outlives it
          Null,     \* nullptr
          MAIL      \* messages handed out in one turn at most (256)

ASSUME NullAssumption == Null \notin Msg
ASSUME MsgAssumption  == IsFiniteSet(Msg)
ASSUME SelfAssumption == Self \notin Poster
ASSUME MailAssumption == MAIL \in Nat \ {0}

Thread == Poster \cup {Self}
Link   == Msg \cup {Null}

\* The lists a message goes through: the inbox, the list taken from it, its
\* reversed part, and the mail.  Before, its caller holds it.
OnLoop == {"inbox", "taken", "turned", "mail"}

VARIABLES
  inbox,      \* loop->inbox, the newest message posted
  next,       \* msg->next of every message
  asleep,     \* loop->asleep
  efd,        \* whether the eventfd's count is above 0
  mail,       \* loop->mail, the oldest message taken
  mail_last,  \* loop->mail_last
  flags,      \* "run", "exit" once LOOP_EXIT is set, "fini" in loop_fini()
  ready,      \* whether a ready list has a step
  where,      \* the list each message is in, if any: a history variable
  lpc,        \* the loop's place in loop_turn(), loop_exec() or loop_fini()
  timeout,    \* the wait's limit: "zero", "timed" or "none"
  saw,        \* what the wait reported
  sent,       \* messages handed out this turn
  msg, fifo, last,  \* loop_collect()'s locals
  pc, pm, head      \* each poster's place in loop_post(), and its locals

shared    == <<inbox, next, asleep, efd>>
mailbag   == <<mail, mail_last>>
turn      == <<timeout, saw, sent>>
reversing == <<msg, fifo, last>>
posting   == <<pc, pm, head>>
vars == <<inbox, next, asleep, efd, mail, mail_last, flags, ready, where, lpc,
          timeout, saw, sent, msg, fifo, last, pc, pm, head>>

LoopPlace == {"plan", "doze", "look", "wait", "clear", "events", "collect",
              "reverse", "join", "deliver", "handle", "steps", "exited",
              "gone"}
PostPlace == {"idle", "load", "cas", "swap", "write", "refused"}

TypeOK ==
  /\ inbox \in Link /\ next \in [Msg -> Link]
  /\ asleep \in {0, 1} /\ efd \in {0, 1}
  /\ mail \in Link /\ mail_last \in Link
  /\ flags \in {"run", "exit", "fini"} /\ ready \in {0, 1}
  /\ where \in [Msg -> {"free", "held"} \cup OnLoop]
  /\ lpc \in LoopPlace
  /\ timeout \in {"zero", "timed", "none"} /\ saw \in {"eventfd", "others", "EINTR", "error"}
  /\ sent \in 0 .. MAIL
  /\ msg \in Link /\ fifo \in Link /\ last \in Link
  /\ pc \in [Thread -> PostPlace]
  /\ pm \in [Thread -> Link] /\ head \in [Thread -> Link]

Init ==
  /\ inbox = Null /\ next = [m \in Msg |-> Null] /\ asleep = 0 /\ efd = 0
  /\ mail = Null /\ mail_last = Null
  /\ flags = "run" /\ ready = 0
  /\ where = [m \in Msg |-> "free"]
  /\ lpc = "plan" /\ timeout = "zero" /\ saw = "others" /\ sent = 0
  /\ msg = Null /\ fifo = Null /\ last = Null
  /\ pc = [p \in Thread |-> "idle"]
  /\ pm = [p \in Thread |-> Null] /\ head = [p \in Thread |-> Null]

-----------------------------------------------------------------------------
(* loop_post().  A poster calls it with a message that is in no list: the  *)
(* pending word beside the message sees to that (job.h, brainstem.c).      *)

\* A thread is about to post a message.  The loop posts only from a handler
\* or a step of its own, which may be a handler that loop_fini() runs; the
\* others, until the brainstem has stopped them all.
PostBegin(p) ==
  /\ pc[p] = "idle"
  /\ IF p = Self THEN lpc \in {"events", "handle", "steps"} ELSE flags # "fini"
  /\ \E m \in Msg : /\ where[m] = "free"
                    /\ pm' = [pm EXCEPT ![p] = m]
                    /\ where' = [where EXCEPT ![m] = "held"]
  /\ pc' = [pc EXCEPT ![p] = "load"]
  /\ UNCHANGED <<shared, mailbag, flags, ready, lpc, turn, reversing, head>>

\* The first, relaxed load of the inbox.
PostLoad(p) ==
  /\ pc[p] = "load"
  /\ head' = [head EXCEPT ![p] = inbox]
  /\ pc' = [pc EXCEPT ![p] = "cas"]
  /\ UNCHANGED <<shared, mailbag, flags, ready, where, lpc, turn, reversing, pm>>

\* One round of the loop: a message that is the newest already is refused;
\* else it is linked and swapped in, unless the inbox is not what was loaded
\* (a spurious failure of the weak exchange changes nothing at all).
PostSwap(p) ==
  /\ pc[p] = "cas"
  /\ IF head[p] = pm[p]
     THEN /\ pc' = [pc EXCEPT ![p] = "refused"]
          /\ UNCHANGED <<inbox, next, where, head>>
     ELSE /\ next' = [next EXCEPT ![pm[p]] = head[p]]
          /\ IF inbox = head[p]
             THEN /\ inbox' = pm[p]
                  /\ where' = [where EXCEPT ![pm[p]] = "inbox"]
                  /\ pc' = [pc EXCEPT ![p] = "swap"]
                  /\ UNCHANGED head
             ELSE /\ head' = [head EXCEPT ![p] = inbox]
                  /\ UNCHANGED <<inbox, where, pc>>
  /\ UNCHANGED <<asleep, efd, mailbag, flags, ready, lpc, turn, reversing, pm>>

\* Clear asleep, and see whether it was set.
PostAsleep(p) ==
  /\ pc[p] = "swap"
  /\ asleep' = 0
  /\ pc' = [pc EXCEPT ![p] = IF asleep = 1 THEN "write" ELSE "idle"]
  /\ pm' = [pm EXCEPT ![p] = Null]
  /\ head' = [head EXCEPT ![p] = Null]
  /\ UNCHANGED <<inbox, next, efd, mailbag, flags, ready, where, lpc, turn,
                 reversing>>

\* Write the eventfd.
PostWrite(p) ==
  /\ pc[p] = "write"
  /\ efd' = 1
  /\ pc' = [pc EXCEPT ![p] = "idle"]
  /\ UNCHANGED <<inbox, next, asleep, mailbag, flags, ready, where, lpc, turn,
                 reversing, pm, head>>

PostStep(p) == PostLoad(p) \/ PostSwap(p) \/ PostAsleep(p) \/ PostWrite(p)

-----------------------------------------------------------------------------
(* loop_turn(), called by loop_exec() until LOOP_EXIT.                     *)

\* The loop's condition, then loop_timeout(): no wait while a step or a
\* message is queued, else until a timer is due, or without a limit.
LoopPlan ==
  /\ lpc = "plan"
  /\ IF flags # "run"
     THEN lpc' = "exited" /\ UNCHANGED timeout
     ELSE IF ready = 1 \/ mail # Null
     THEN lpc' = "wait" /\ timeout' = "zero"
     ELSE lpc' = "doze" /\ timeout' \in {"timed", "none"}
  /\ UNCHANGED <<shared, mailbag, flags, ready, where, saw, sent, reversing,
                 posting>>

\* Before a wait that can sleep, say so...
LoopDoze ==
  /\ lpc = "doze"
  /\ asleep' = 1
  /\ lpc' = "look"
  /\ UNCHANGED <<inbox, next, efd, mailbag, flags, ready, where, turn,
                 reversing, posting>>

\* A mistake the checks would catch: no second look at the inbox.
LoopLookNot ==
  /\ lpc = "look"
  /\ timeout' = timeout
  /\ lpc' = "wait"
  /\ UNCHANGED <<shared, mailbag, flags, ready, where, saw, sent, reversing,
                 posting>>

\* ... and look at the inbox again.
LoopLook ==
  /\ lpc = "look"
  /\ timeout' = IF inbox # Null THEN "zero" ELSE timeout
  /\ lpc' = "wait"
  /\ UNCHANGED <<shared, mailbag, flags, ready, where, saw, sent, reversing,
                 posting>>

\* epoll_pwait2() returns: it reports the eventfd, if that is readable; the
\* time is over; or EVENTS other descriptors fill the report, with or without
\* the eventfd.
WaitEnd(why) ==
  /\ lpc = "wait"
  /\ saw' = why
  /\ timeout' = "zero"
  /\ lpc' = "clear"
  /\ UNCHANGED <<shared, mailbag, flags, ready, where, sent, reversing, posting>>

WaitWoken == efd = 1 /\ WaitEnd("eventfd")
WaitOver  == efd = 0 /\ timeout # "none" /\ WaitEnd("others")
WaitOther == WaitEnd("others")

\* It fails: a signal interrupts a wait that sleeps (EINTR), or it cannot
\* wait at all.
WaitInterrupted == efd = 0 /\ timeout # "zero" /\ WaitEnd("EINTR")
WaitFailed      == WaitEnd("error")

\* asleep is cleared before anything else.  An interrupted wait ends the turn
\* with nothing taken; any other error ends loop_exec().
LoopClear ==
  /\ lpc = "clear"
  /\ asleep' = 0
  /\ lpc' = CASE saw = "EINTR" -> "plan" [] saw = "error" -> "exited"
              [] OTHER -> "events"
  /\ saw' = IF saw = "eventfd" THEN saw ELSE "others"
  /\ UNCHANGED <<inbox, next, efd, mailbag, flags, ready, where, timeout, sent,
                 reversing, posting>>

\* The events' callbacks: loop_wake() reads the eventfd, unless a callback
\* before it called loop_exit(); another may ready a step.
LoopEvents ==
  /\ lpc = "events" /\ pc[Self] = "idle"
  /\ \/ efd' = (IF saw = "eventfd" THEN 0 ELSE efd) /\ UNCHANGED flags
     \/ efd' = efd /\ flags' = "exit"
  /\ ready' \in {ready, 1}
  /\ saw' = "others"
  /\ lpc' = "collect"
  /\ UNCHANGED <<inbox, next, asleep, mailbag, where, timeout, sent, reversing,
                 posting>>

\* All that is in one list goes to another.
Moved(a, b) == [m \in Msg |-> IF where[m] = a THEN b ELSE where[m]]

\* loop_collect(): take what was posted with one exchange.  The look before
\* it is the same step: only this loop empties the inbox.
LoopCollect ==
  /\ lpc = "collect"
  /\ IF inbox = Null
     THEN lpc' = "deliver" /\ UNCHANGED <<inbox, where, msg, last>>
     ELSE /\ lpc' = "reverse"
          /\ msg' = inbox /\ last' = inbox /\ inbox' = Null
          /\ where' = Moved("inbox", "taken")
  /\ UNCHANGED <<next, asleep, efd, mailbag, flags, ready, turn, fifo, posting>>

\* One round of the loop that reverses the list.
LoopReverse ==
  /\ lpc = "reverse"
  /\ IF msg = Null
     THEN lpc' = "join" /\ UNCHANGED <<next, msg, fifo, where>>
     ELSE /\ next' = [next EXCEPT ![msg] = fifo]
          /\ fifo' = msg
          /\ msg' = next[msg]
          /\ where' = [where EXCEPT ![msg] = "turned"]
          /\ UNCHANGED lpc
  /\ UNCHANGED <<inbox, asleep, efd, mailbag, flags, ready, turn, last, posting>>

\* A mistake the checks would catch: what earlier turns left is dropped.
LoopJoinOver ==
  /\ lpc = "join"
  /\ mail' = fifo /\ UNCHANGED next
  /\ mail_last' = last
  /\ fifo' = Null /\ last' = Null
  /\ where' = Moved("turned", "mail")
  /\ lpc' = "deliver"
  /\ UNCHANGED <<inbox, asleep, efd, flags, ready, turn, msg, posting>>

\* Append it to what earlier turns left.
LoopJoin ==
  /\ lpc = "join"
  /\ IF mail_last # Null
     THEN next' = [next EXCEPT ![mail_last] = fifo] /\ UNCHANGED mail
     ELSE mail' = fifo /\ UNCHANGED next
  /\ mail_last' = last
  /\ fifo' = Null /\ last' = Null
  /\ where' = Moved("turned", "mail")
  /\ lpc' = "deliver"
  /\ UNCHANGED <<inbox, asleep, efd, flags, ready, turn, msg, posting>>

\* A mistake the checks would catch: mail_last stays as the mail runs out.
LoopDeliverTail ==
  /\ lpc = "deliver" /\ mail # Null
  /\ \/ flags = "run" /\ sent < MAIL /\ sent' = sent + 1
     \/ flags = "fini" /\ UNCHANGED sent
  /\ where' = [where EXCEPT ![mail] = "free"]
  /\ mail' = next[mail]
  /\ UNCHANGED mail_last
  /\ lpc' = "handle"
  /\ UNCHANGED <<shared, flags, ready, timeout, saw, reversing, posting>>

\* A mistake the checks would catch: one message too many in a turn.
LoopDeliverMore ==
  /\ lpc = "deliver" /\ mail # Null
  /\ \/ flags = "run" /\ sent <= MAIL /\ sent' = sent + 1
     \/ flags = "fini" /\ UNCHANGED sent
  /\ where' = [where EXCEPT ![mail] = "free"]
  /\ mail' = next[mail]
  /\ mail_last' = IF next[mail] = Null THEN Null ELSE mail_last
  /\ lpc' = "handle"
  /\ UNCHANGED <<shared, flags, ready, timeout, saw, reversing, posting>>

\* loop_deliver(): the oldest message goes to its handler, and may be posted
\* again from then on.  loop_fini() delivers without a limit.
LoopDeliver ==
  /\ lpc = "deliver" /\ mail # Null
  /\ \/ flags = "run" /\ sent < MAIL /\ sent' = sent + 1
     \/ flags = "fini" /\ UNCHANGED sent
  /\ where' = [where EXCEPT ![mail] = "free"]
  /\ mail' = next[mail]
  /\ mail_last' = IF next[mail] = Null THEN Null ELSE mail_last
  /\ lpc' = "handle"
  /\ UNCHANGED <<shared, flags, ready, timeout, saw, reversing, posting>>

\* A mistake the checks would catch: loop_fini() collects once only.
LoopHandledOnce ==
  /\ lpc = "handle" /\ pc[Self] = "idle"
  /\ ready' \in {ready, 1}
  /\ flags' \in IF flags = "run" THEN {"run", "exit"} ELSE {flags}
  /\ lpc' = "deliver"
  /\ UNCHANGED <<shared, mailbag, where, turn, reversing, posting>>

\* The handler returns: it may have readied a step, or called loop_exit().
\* In loop_fini() the inbox is collected again after each message.
LoopHandled ==
  /\ lpc = "handle" /\ pc[Self] = "idle"
  /\ ready' \in {ready, 1}
  /\ flags' \in IF flags = "run" THEN {"run", "exit"} ELSE {flags}
  /\ lpc' = IF flags = "fini" THEN "collect" ELSE "deliver"
  /\ UNCHANGED <<shared, mailbag, where, turn, reversing, posting>>

\* No more mail this turn: the ready steps come next.
LoopDelivered ==
  /\ lpc = "deliver"
  /\ flags # "fini" /\ (mail = Null \/ sent = MAIL \/ flags = "exit")
  /\ sent' = 0
  /\ lpc' = "steps"
  /\ UNCHANGED <<shared, mailbag, flags, ready, where, timeout, saw, reversing,
                 posting>>

\* The timers that are due and loop_run()'s steps end, and the turn with
\* them: any of them may ready a step or call loop_exit().
LoopSteps ==
  /\ lpc = "steps" /\ pc[Self] = "idle"
  /\ ready' \in {0, 1}
  /\ flags' \in IF flags = "run" THEN {"run", "exit"} ELSE {flags}
  /\ lpc' = "plan"
  /\ UNCHANGED <<shared, mailbag, where, turn, reversing, posting>>

\* brainstem_stop_blockers(), once every thread that posts is joined or done:
\* loop_fini() starts.
LoopFini ==
  /\ lpc = "exited" /\ \A p \in Thread : pc[p] = "idle"
  /\ flags' = "fini"
  /\ lpc' = "collect"
  /\ UNCHANGED <<shared, mailbag, ready, where, turn, reversing, posting>>

\* loop_fini() has handed out everything, and frees the loop.
LoopGone ==
  /\ lpc = "deliver" /\ flags = "fini" /\ mail = Null
  /\ lpc' = "gone"
  /\ UNCHANGED <<shared, mailbag, flags, ready, where, turn, reversing, posting>>

\* The loop's steps but for an end of the wait that the environment decides.
LoopStep ==
  \/ LoopPlan \/ LoopDoze \/ LoopLook \/ WaitWoken \/ WaitOver \/ LoopClear
  \/ LoopEvents \/ LoopCollect \/ LoopReverse \/ LoopJoin \/ LoopDeliver
  \/ LoopHandled \/ LoopDelivered \/ LoopSteps \/ LoopFini \/ LoopGone

Next ==
  \/ \E p \in Thread : PostBegin(p) \/ PostStep(p)
  \/ LoopStep \/ WaitOther \/ WaitInterrupted \/ WaitFailed

\* A running thread is scheduled.  Nothing makes a poster post, a signal
\* arrive, or another descriptor become ready.
Fairness == WF_vars(LoopStep) /\ \A p \in Thread : WF_vars(PostStep(p))

Spec == Init /\ [][Next]_vars /\ Fairness

-----------------------------------------------------------------------------

\* A post between the end of a wait and its clearing of asleep still writes
\* the eventfd, so whenever the loop is about to sleep or sleeps, the next
\* poster finds it asleep, or a wake-up is there or on its way (loop_turn()
\* and loop_post(), "Sequentially consistent with the loop's own store").
WakeArmed ==
  lpc \in {"look", "wait"} /\ timeout # "zero" =>
    asleep = 1 \/ efd = 1 \/ \E p \in Thread : pc[p] = "write"

\* No lost wake-up: a loop that sleeps without a limit while its inbox holds
\* a message is being woken, by the eventfd or by a poster that has yet to
\* look at asleep and will find it set.
NoLostWakeup ==
  lpc = "wait" /\ timeout # "zero" /\ inbox # Null =>
    \/ efd = 1
    \/ \E p \in Thread : pc[p] = "write"
    \/ asleep = 1 /\ \E p \in Thread : pc[p] = "swap"

\* No message is in two lists, and none that its caller may post is in any:
\* each list's links stay in it, no two messages share a successor, and the
\* pointers at the lists' ends are where loop_collect() and loop_deliver()
\* take them to be.  So a handler never gets a message that was not posted,
\* and a poster never writes the link of one that is.
ListsApart ==
  /\ inbox # Null => where[inbox] = "inbox"
  /\ msg # Null => where[msg] = "taken"
  /\ fifo # Null => where[fifo] = "turned"
  /\ mail # Null => where[mail] = "mail"
  /\ mail_last # Null => where[mail_last] = "mail" /\ next[mail_last] = Null
  /\ mail = Null <=> mail_last = Null
  /\ \A m \in Msg : where[m] \in OnLoop /\ next[m] # Null =>
       /\ where[next[m]] = where[m]
       /\ next[m] \notin {inbox, msg, fifo, mail}
       /\ \A n \in Msg : where[n] \in OnLoop /\ next[n] = next[m] => n = m

\* A message posted only after it was handed out is never taken for one that
\* is posted already: the test against EALREADY in loop_post(), on a head
\* loaded earlier, has no false alarm, however messages are reused meanwhile.
NeverRefused == \A p \in Thread : pc[p] # "refused"

\* loop_fini() leaves no message behind, not even one that a handler that it
\* runs posts: each went to its handler, which gives back what the message's
\* object holds.
NothingLeft == lpc = "gone" => \A m \in Msg : where[m] = "free"
=============================================================================
