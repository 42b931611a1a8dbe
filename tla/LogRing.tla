------------------------------- MODULE LogRing -------------------------------
(***************************************************************************)
(* The logger (src/src/log.c): threads put lines into rings of their own,  *)
(* and one thread writes the rings out, sleeps while they are empty, and   *)
(* stops when told to.  Atomics are sequentially consistent, as those of   *)
(* the sleep are in the code; a line counts as one byte.                   *)
(***************************************************************************)
EXTENDS Naturals

CONSTANTS
  Rings,     \* lg.n
  RING,      \* the lines a ring holds
  MaxLines   \* bound: the lines each thread puts

Ring == 1 .. Rings

ASSUME RingsAssumption == Rings \in Nat
ASSUME RoomAssumption  == RING \in Nat \ {0}
ASSUME LinesAssumption == MaxLines \in [Ring -> Nat]

VARIABLES
  ring,      \* struct log_ring of each: head, tail, seen, and the lines in data
  asleep,    \* lg.asleep
  woken,     \* lg.wake_fd has been written
  order,     \* lg.state
  logger,    \* where the logger's thread is, and at which ring
  put,       \* where each thread is in log_emit()
  stopper,   \* and the brainstem in log_stop()
  held       \* history: the heads as log_stop() was called

lvars == <<ring, asleep, woken, order, logger, put, stopper, held>>

Waker == {"idle", "stores", "asks", "swaps", "writes"}

LTypeOK ==
  /\ ring \in [Ring -> [head : Nat, tail : Nat, seen : Nat, data : [0 .. RING - 1 -> Nat]]]
  /\ \A r \in Ring : /\ ring[r].tail <= ring[r].seen /\ ring[r].seen <= ring[r].head
                     /\ ring[r].head <= MaxLines[r]
  /\ {asleep, woken} \subseteq BOOLEAN /\ order \in {"RUNNING", "STOPPING", "DONE"}
  /\ logger.at \in {"reads", "writes", "tails", "checks", "dozes", "looks", "polls", "polled",
                    "wakes", "gone"}
  /\ logger.i \in 0 .. Rings + 1
  /\ put \in [Ring -> Waker] /\ stopper \in {"runs", "swaps", "writes", "waits"}
  /\ held \in [Ring -> Nat]

LInit ==
  /\ ring = [r \in Ring |-> [head |-> 0, tail |-> 0, seen |-> 0,
                             data |-> [b \in 0 .. RING - 1 |-> 0]]]
  /\ asleep = FALSE /\ woken = FALSE /\ order = "RUNNING"
  /\ logger = [at |-> "reads", i |-> 1]
  /\ put = [r \in Ring |-> "idle"] /\ stopper = "runs" /\ held = [r \in Ring |-> 0]

-----------------------------------------------------------------------------
(* The threads that log.                                                   *)

\* log_emit(): what does not fit is dropped; what does is copied past the head.
Copy(r) ==
  LET n == ring[r].head IN
  /\ put[r] = "idle" /\ n < MaxLines[r] /\ RING - (n - ring[r].tail) >= 1
  /\ ring' = [ring EXCEPT ![r].data[n % RING] = n + 1]
  /\ put' = [put EXCEPT ![r] = "stores"]
  /\ UNCHANGED <<asleep, woken, order, logger, stopper, held>>

StoreHead(r) ==
  /\ put[r] = "stores" /\ put' = [put EXCEPT ![r] = "asks"]
  /\ ring' = [ring EXCEPT ![r].head = @ + 1]
  /\ UNCHANGED <<asleep, woken, order, logger, stopper, held>>

\* The rest: if the logger sleeps, one thread alone wakes it.
AskAsleep(r) ==
  /\ put[r] = "asks" /\ put' = [put EXCEPT ![r] = IF asleep THEN "swaps" ELSE "idle"]
  /\ UNCHANGED <<ring, asleep, woken, order, logger, stopper, held>>
SwapAsleep(r) ==
  /\ put[r] = "swaps" /\ put' = [put EXCEPT ![r] = IF asleep THEN "writes" ELSE "idle"]
  /\ asleep' = FALSE /\ UNCHANGED <<ring, woken, order, logger, stopper, held>>
WriteWake(r) ==
  /\ put[r] = "writes" /\ put' = [put EXCEPT ![r] = "idle"]
  /\ woken' = TRUE /\ UNCHANGED <<ring, asleep, order, logger, stopper, held>>

\* log_stop()
LogStop ==
  /\ \/ /\ stopper = "runs" /\ order = "RUNNING" /\ order' = "STOPPING" /\ stopper' = "swaps"
        /\ held' = [r \in Ring |-> ring[r].head] /\ UNCHANGED <<asleep, woken>>
     \/ /\ stopper = "swaps" /\ asleep' = FALSE
        /\ stopper' = IF asleep THEN "writes" ELSE "waits"
        /\ UNCHANGED <<woken, order, held>>
     \/ /\ stopper = "writes" /\ woken' = TRUE /\ stopper' = "waits"
        /\ UNCHANGED <<asleep, order, held>>
  /\ UNCHANGED <<ring, logger, put>>

-----------------------------------------------------------------------------
(* log_thread().                                                           *)

Go(at) == logger' = [at |-> at, i |-> IF at = "looks" THEN 0 ELSE 1]

\* The heads are read, one after the other.
ReadHead ==
  LET r == logger.i IN
  /\ logger.at = "reads"
  /\ IF r \in Ring
     THEN /\ ring' = [ring EXCEPT ![r].seen = ring[r].head] /\ logger' = [logger EXCEPT !.i = @ + 1]
     ELSE /\ Go(IF \E s \in Ring : ring[s].seen # ring[s].tail THEN "writes" ELSE "checks")
          /\ UNCHANGED ring
  /\ UNCHANGED <<asleep, woken, order, put, stopper, held>>

\* log_write_all(), which drops the rest on an error, then the tails.
WriteOut ==
  /\ logger.at = "writes" /\ Go("tails")
  /\ UNCHANGED <<ring, asleep, woken, order, put, stopper, held>>
StoreTail ==
  LET r == logger.i IN
  /\ logger.at = "tails"
  /\ IF r \in Ring
     THEN /\ ring' = [ring EXCEPT ![r].tail = ring[r].seen] /\ logger' = [logger EXCEPT !.i = @ + 1]
     ELSE Go("reads") /\ UNCHANGED ring
  /\ UNCHANGED <<asleep, woken, order, put, stopper, held>>

\* With nothing to write it stops if it has been told to, and else sleeps.
CheckOrder ==
  /\ logger.at = "checks"
  /\ IF order # "RUNNING" THEN order' = "DONE" /\ Go("gone")
     ELSE Go("dozes") /\ UNCHANGED order
  /\ UNCHANGED <<ring, asleep, woken, put, stopper, held>>
\* A mistake the checks would catch: it sleeps without a last look.
DozeBlind ==
  /\ logger.at = "dozes" /\ asleep' = TRUE /\ Go("polls")
  /\ UNCHANGED <<ring, woken, order, put, stopper, held>>

Doze ==
  /\ logger.at = "dozes" /\ asleep' = TRUE /\ Go("looks")
  /\ UNCHANGED <<ring, woken, order, put, stopper, held>>

\* log_pending(): the order, then each ring.
Look ==
  LET r == logger.i IN
  /\ logger.at = "looks"
  /\ IF r > Rings THEN Go("polls")
     ELSE IF IF r = 0 THEN order # "RUNNING" ELSE ring[r].head # ring[r].tail THEN Go("wakes")
     ELSE logger' = [logger EXCEPT !.i = @ + 1]
  /\ UNCHANGED <<ring, asleep, woken, order, put, stopper, held>>
Poll ==
  /\ \/ logger.at = "polls" /\ woken /\ Go("polled") /\ UNCHANGED woken
     \/ logger.at = "polled" /\ woken' = FALSE /\ Go("wakes")
  /\ UNCHANGED <<ring, asleep, order, put, stopper, held>>
WakeUp ==
  /\ logger.at = "wakes" /\ asleep' = FALSE /\ Go("reads")
  /\ UNCHANGED <<ring, woken, order, put, stopper, held>>

LoggerStep == \/ ReadHead \/ WriteOut \/ StoreTail \/ CheckOrder \/ Doze \/ Look \/ Poll
              \/ WakeUp
Emits(r)   == StoreHead(r) \/ AskAsleep(r) \/ SwapAsleep(r) \/ WriteWake(r)

LNext == LoggerStep \/ LogStop \/ \E r \in Ring : Copy(r) \/ Emits(r)

LSpec == LInit /\ [][LNext]_lvars

-----------------------------------------------------------------------------
\* While the logger writes a batch no thread copies over a line of it, and
\* each line of it is the one that was put there (log_emit(), log_thread()).
BatchWhole ==
  logger.at = "writes" =>
    \A r \in Ring : \A n \in ring[r].tail + 1 .. ring[r].seen : ring[r].data[(n - 1) % RING] = n

\* The logger does not stay asleep on a line or on the order to stop: it is
\* woken, or a thread that is about to wake it is on its way (log_pending()).
NoneSleptOn ==
  LET wakers == {r \in Ring : put[r] \in {"asks", "swaps", "writes"}} IN
  logger.at = "polls" /\ ~woken =>
    /\ (\E r \in Ring : ring[r].head # ring[r].tail) \/ order # "RUNNING" =>
         wakers # {} \/ stopper \in {"swaps", "writes"}
    /\ ~asleep => (\E r \in Ring : put[r] = "writes") \/ stopper = "writes"

\* What the rings hold when log_stop() is called is written before the logger
\* is done (log_stop()).
HeldWritten == order = "DONE" => \A r \in Ring : ring[r].tail >= held[r]

\* Lines to be written, or an order to be obeyed.
Undone == \/ order = "RUNNING" /\ \E r \in Ring : ring[r].head # ring[r].tail
          \/ order = "STOPPING"
=============================================================================
