------------------------------ MODULE Blockers ------------------------------
(***************************************************************************)
(* The blocker threads (src/src/blocker.c): a bounded queue of jobs under  *)
(* a lock, the threads that run them and post each back to its loop, and   *)
(* the stop, after which what is still queued is cancelled.  An action is  *)
(* what a thread does with the lock held, or between two times it is.      *)
(***************************************************************************)
EXTENDS Naturals, Sequences, FiniteSets

CONSTANTS Worker,      \* the threads that blocker_start() started
          QUEUE        \* jobs waiting at most

ASSUME WorkerAssumption == Worker # {}
ASSUME QueueAssumption  == QUEUE \in Nat

VARIABLES
  blk,     \* queue, stop, and the calls of pthread_cond_signal() to come
  hand     \* each thread: where it is and the job in its hands

None == <<"none", 0>>
Idle == [at |-> "lock", job |-> None]

BlockersInit ==
  /\ blk = [queue |-> <<>>, stop |-> FALSE, signals |-> 0]
  /\ hand = [w \in Worker |-> Idle]

\* blocker_done()
Done == \A w \in Worker : hand[w].at = "gone"

\* blocker_submit() takes a job.
Takes == ~blk.stop /\ Len(blk.queue) < QUEUE

\* It does, to signal once it has let go of the lock.
Submitted(job) == [blk EXCEPT !.queue = Append(@, job), !.signals = @ + 1]

\* Any of the threads that wait wakes.
Signal ==
  /\ blk.signals > 0 /\ blk' = [blk EXCEPT !.signals = @ - 1]
  /\ IF \E w \in Worker : hand[w].at = "asleep"
     THEN \E w \in Worker : hand[w].at = "asleep" /\ hand' = [hand EXCEPT ![w].at = "lock"]
     ELSE UNCHANGED hand

\* A mistake the checks would catch: a thread that finds the queue stopped
\* does not look at what it holds.
NextAtOnce(w) ==
  /\ hand[w].at = "lock"
  /\ IF blk.stop THEN hand' = [hand EXCEPT ![w].at = "gone"] /\ UNCHANGED blk
     ELSE IF blk.queue = <<>> THEN hand' = [hand EXCEPT ![w].at = "asleep"] /\ UNCHANGED blk
     ELSE /\ hand' = [hand EXCEPT ![w] = [at |-> "work", job |-> Head(blk.queue)]]
          /\ blk' = [blk EXCEPT !.queue = Tail(@)]

\* blocker_next(), and the thread's end: a job is run, or if the blockers
\* stop already, cancelled.
NextJob(w) ==
  /\ hand[w].at = "lock"
  /\ IF blk.queue = <<>>
     THEN hand' = [hand EXCEPT ![w].at = IF blk.stop THEN "gone" ELSE "asleep"] /\ UNCHANGED blk
     ELSE /\ hand' = [hand EXCEPT ![w] = [at |-> IF blk.stop THEN "cancelled" ELSE "work",
                                          job |-> Head(blk.queue)]]
          /\ blk' = [blk EXCEPT !.queue = Tail(@)]

\* The job was run or cancelled, and the thread posts it and goes on.
Freed(w) == [hand EXCEPT ![w] = Idle]

\* blocker_stop(), which wakes them all.
Stopped ==
  /\ blk' = [blk EXCEPT !.stop = TRUE]
  /\ hand' = [w \in Worker |-> IF hand[w].at = "asleep" THEN Idle ELSE hand[w]]
=============================================================================
