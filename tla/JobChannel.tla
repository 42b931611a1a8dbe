----------------------------- MODULE JobChannel -----------------------------
(***************************************************************************)
(* One job, shared by its front (a client loop, src/src/mcp.c) and home    *)
(* (src/src/home.c), over the runs it is reused for: the two embedded      *)
(* messages with their words of pending bits (src/src/job.h), the counted  *)
(* references, the delta mailbox, the journal's callbacks, and the order   *)
(* in which the loops stop.                                                *)
(*                                                                         *)
(* A handler is three steps: it takes the bits, acts on them, and drops    *)
(* its references.  The other thread runs in between.  What the scheduler  *)
(* and the upstream decide about the job is home's nondeterminism here.    *)
(***************************************************************************)
EXTENDS Integers

CONSTANTS MaxRuns,    \* calls the job is used for, one after the other
          MaxEvents,  \* events of an answer that are read, a run
          MaxWrites   \* writes to the journal under way at once

ASSUME RunsAssumption   == MaxRuns \in Nat \ {0}
ASSUME EventsAssumption == MaxEvents \in Nat
ASSUME WritesAssumption == MaxWrites \in Nat \ {0}

VARIABLES
  place,       \* the job: "shelf", "out" or "freed"
  refs,        \* job->refs
  home_bits, home_mail,    \* the word to home, and whether its message is queued
  front_bits, front_mail,  \* the word to the front, likewise
  asks,        \* JOB_STREAM, and whether the call has a journal
  req,         \* the front's side: its request, and its reference
  job,         \* home's side: what home notes of the run, and its reference
  front, home, \* the threads: the loop, the bits a handler took, and the
               \* references it has yet to drop
  runs,        \* runs so far
  draining     \* whether the brainstem has ordered the drain

vars == <<place, refs, home_bits, home_mail, front_bits, front_mail, asks, req,
          job, front, home, runs, draining>>

HomeBits  == {"SUBMIT", "CANCEL", "DRAIN"}
FrontBits == {"DONE", "PROGRESS", "RETURN", "DELTA"}

\* ANSWERED stands for JOB_TEXT too, and FAILED for JOB_SUSPENDED: home treats
\* a job that ended so no differently.
Status    == {"none", "ANSWERED", "FAILED", "BUSY", "CANCELLED"}

\* The request waits, named by its handle, then reads the result; delta is
\* REQ_DELTA, the mailbox being sent on.
ReqType == [state : {"none", "waits", "reads"}, delta : BOOLEAN, hold : 0 .. 1]

\* delta is DELTA_PENDING, then DELTA_ENDED too; told, how often DONE was
\* posted (the type leaves room for an error).
JobType ==
  [state : {"none", "queued", "running", "ended"}, transfer : BOOLEAN,
   dropped : BOOLEAN, delta : {"none", "pending", "ended"},
   pending : 0 .. MaxWrites, opening : BOOLEAN, deferred : BOOLEAN,
   ending : BOOLEAN, error : BOOLEAN, status : Status, answer : BOOLEAN,
   preempted : BOOLEAN, hold : 0 .. 1, told : 0 .. 2, events : 0 .. MaxEvents]

Thread(bits) ==
  [loop : {"run", "exit", "fini", "gone"}, bits : SUBSET bits, hand : 0 .. 2]

TypeOK ==
  /\ place \in {"shelf", "out", "freed"} /\ refs \in Nat
  /\ home_bits \in SUBSET HomeBits /\ home_mail \in BOOLEAN
  /\ front_bits \in SUBSET FrontBits /\ front_mail \in BOOLEAN
  /\ asks \in [stream : BOOLEAN, journal : BOOLEAN]
  /\ req \in ReqType /\ job \in JobType
  /\ front \in Thread(FrontBits) /\ home \in Thread(HomeBits)
  /\ runs \in 0 .. MaxRuns /\ draining \in BOOLEAN

Fresh == [state |-> "none", transfer |-> FALSE, dropped |-> FALSE,
          delta |-> "none", pending |-> 0, opening |-> FALSE,
          deferred |-> FALSE, ending |-> FALSE, error |-> FALSE,
          status |-> "none", answer |-> FALSE, preempted |-> FALSE,
          hold |-> 0, told |-> 0, events |-> 0]
Idle  == [loop |-> "run", bits |-> {}, hand |-> 0]
NoReq == [state |-> "none", delta |-> FALSE, hold |-> 0]

Init ==
  /\ place = "shelf" /\ refs = 0
  /\ home_bits = {} /\ home_mail = FALSE /\ front_bits = {} /\ front_mail = FALSE
  /\ asks = [stream |-> FALSE, journal |-> FALSE]
  /\ req = NoReq /\ job = Fresh /\ front = Idle /\ home = Idle
  /\ runs = 0 /\ draining = FALSE

-----------------------------------------------------------------------------
(* job_post(): only the bit that makes the word non-zero posts the         *)
(* message, with a reference.                                              *)

\* A mistake the checks would catch: a reference for each bit.
PostHomeEach(bit) ==
  /\ home_bits' = home_bits \cup {bit}
  /\ home_mail' = TRUE /\ refs' = refs + 1
  /\ UNCHANGED <<front_bits, front_mail>>

PostHome(bit) ==
  /\ home_bits' = home_bits \cup {bit}
  /\ IF home_bits = {} THEN home_mail' = TRUE /\ refs' = refs + 1
                       ELSE UNCHANGED <<home_mail, refs>>
  /\ UNCHANGED <<front_bits, front_mail>>

PostFront(bit) ==
  /\ front_bits' = front_bits \cup {bit}
  /\ IF front_bits = {} THEN front_mail' = TRUE /\ refs' = refs + 1
                        ELSE UNCHANGED <<front_mail, refs>>
  /\ UNCHANGED <<home_bits, home_mail>>

PostNothing ==
  UNCHANGED <<refs, home_bits, home_mail, front_bits, front_mail>>

FrontFree == front.loop = "run" /\ front.bits = {} /\ front.hand = 0
HomeFree  == home.loop = "run" /\ home.bits = {} /\ home.hand = 0

-----------------------------------------------------------------------------
(* The front (mcp.c).                                                      *)

\* mcp_req_submit(): a reference for each side, and one for the message.
Submit ==
  /\ FrontFree /\ place = "shelf" /\ runs < MaxRuns
  /\ place' = "out" /\ refs' = 3
  /\ home_bits' = {"SUBMIT"} /\ home_mail' = TRUE
  /\ req' = [state |-> "waits", delta |-> FALSE, hold |-> 1]
  /\ job' = [Fresh EXCEPT !.hold = 1]
  /\ asks' \in [stream : BOOLEAN, journal : BOOLEAN]
  /\ runs' = runs + 1
  /\ UNCHANGED <<front_bits, front_mail, front, home, draining>>

\* mcp_req_drop(): the request is cancelled, ends with the drain, or has read
\* the result.  One that waits frees its handle, and leaves the front's
\* reference to the completion.  CANCEL stands for SUSPEND too, which home
\* tells apart only for the provider's own cancellation.
Drop ==
  /\ FrontFree /\ req.state # "none"
  /\ PostHome("CANCEL")
  /\ IF req.state = "waits"
     THEN req' = [req EXCEPT !.state = "none", !.delta = FALSE] /\ UNCHANGED front
     ELSE req' = NoReq /\ front' = [front EXCEPT !.hand = 1]
  /\ UNCHANGED <<place, asks, job, home, runs, draining>>

\* mcp_req_delta(): the last piece of the mailbox has been sent.
Drained ==
  /\ FrontFree /\ req.delta
  /\ PostHome("DRAIN")
  /\ req' = [req EXCEPT !.delta = FALSE]
  /\ UNCHANGED <<place, asks, job, front, home, runs, draining>>

\* A mistake the checks would catch: RETURN counted as a message with a
\* reference.
FrontTakeRef ==
  /\ front.loop \in {"run", "fini"} /\ front.bits = {} /\ front.hand = 0
  /\ front_mail
  /\ front' = [front EXCEPT !.bits = front_bits,
                            !.hand = 1]
  /\ front_bits' = {} /\ front_mail' = FALSE
  /\ UNCHANGED <<place, refs, home_bits, home_mail, asks, req, job, home, runs,
                 draining>>

\* mcp_on_job() takes the bits.
FrontTake ==
  /\ front.loop \in {"run", "fini"} /\ front.bits = {} /\ front.hand = 0
  /\ front_mail
  /\ front' = [front EXCEPT !.bits = front_bits,
                            !.hand = IF "RETURN" \in front_bits THEN 0 ELSE 1]
  /\ front_bits' = {} /\ front_mail' = FALSE
  /\ UNCHANGED <<place, refs, home_bits, home_mail, asks, req, job, home, runs,
                 draining>>

\* The job's last reference is gone: mcp_shelve_job() frees what it holds and
\* keeps it, or once the loop has stopped, the job is freed.
Shelve ==
  /\ place' = IF front.loop = "fini" THEN "freed" ELSE "shelf"
  /\ job' = Fresh

\* Home dropped the last reference: the job itself has come back.
FrontReturned ==
  /\ "RETURN" \in front.bits
  /\ front' = [front EXCEPT !.bits = {}]
  /\ Shelve
  /\ PostNothing
  /\ UNCHANGED <<asks, req, home, runs, draining>>

\* The mailbox is ready, or the job has come further: a request on an event
\* stream sends the mailbox on in its own steps, any other acknowledges it.
FrontProgress ==
  /\ front.loop = "run" /\ front.bits # {} /\ front.bits \cap {"RETURN", "DONE"} = {}
  /\ IF "DELTA" \in front.bits /\ req.state = "waits"
     THEN \/ req' = [req EXCEPT !.delta = TRUE] /\ PostNothing
          \/ PostHome("DRAIN") /\ UNCHANGED req
     ELSE PostNothing /\ UNCHANGED req
  /\ front' = [front EXCEPT !.bits = {}]
  /\ UNCHANGED <<place, asks, job, home, runs, draining>>

\* mcp_req_job_done(): the request that waits reads the result.  DELTA does not
\* come with DONE then (ReadsAlone).
FrontDone ==
  /\ front.loop = "run" /\ "DONE" \in front.bits /\ req.state = "waits"
  /\ req' = [req EXCEPT !.state = "reads"]
  /\ front' = [front EXCEPT !.bits = {}]
  /\ PostNothing
  /\ UNCHANGED <<place, asks, job, home, runs, draining>>

\* No request waits: the completion drops the front's reference too.
FrontDropped ==
  /\ front.loop = "run" /\ "DONE" \in front.bits /\ req.state # "waits"
  /\ req' = [req EXCEPT !.hold = 0]
  /\ front' = [front EXCEPT !.bits = {}, !.hand = 2]
  /\ PostNothing
  /\ UNCHANGED <<place, asks, job, home, runs, draining>>

\* Once the loop has stopped, no request is left.
FrontLate ==
  /\ front.loop = "fini" /\ front.bits # {} /\ "RETURN" \notin front.bits
  /\ IF "DONE" \in front.bits
     THEN /\ req' = [req EXCEPT !.hold = 0]
          /\ front' = [front EXCEPT !.bits = {}, !.hand = 2]
     ELSE front' = [front EXCEPT !.bits = {}] /\ UNCHANGED req
  /\ PostNothing
  /\ UNCHANGED <<place, asks, job, home, runs, draining>>

\* ref_put() at a handler's end.
FrontPut ==
  /\ front.bits = {} /\ front.hand > 0
  /\ refs' = refs - front.hand
  /\ front' = [front EXCEPT !.hand = 0]
  /\ IF refs = front.hand THEN Shelve ELSE UNCHANGED <<place, job>>
  /\ UNCHANGED <<home_bits, home_mail, front_bits, front_mail, asks, req, home,
                 runs, draining>>

-----------------------------------------------------------------------------
(* Home (home.c).                                                          *)

InFlight == job.state \in {"queued", "running"}

\* home_job_drop_answer()
Emptied(j) == [j EXCEPT !.answer = FALSE, !.delta = "none"]

\* A mistake the checks would catch: the completion does not wait for the
\* mailbox.
EndNow(j, s) ==
  LET e == [j EXCEPT !.status = s, !.state = "ended", !.transfer = FALSE]
  IN  IF j.pending > 0 THEN [e EXCEPT !.ending = TRUE]
      ELSE IF j.dropped THEN [Emptied(e) EXCEPT !.told = @ + 1, !.hold = 0]
      ELSE IF s = "CANCELLED" THEN [Emptied(e) EXCEPT !.told = @ + 1]
      ELSE [e EXCEPT !.told = @ + 1]

\* A mistake the checks would catch: no return once a write under way will end
\* the job.
EndOn(j, s) ==
  LET e == [j EXCEPT !.status = s, !.state = "ended", !.transfer = FALSE,
                     !.ending = @ \/ j.pending > 0]
  IN  IF j.dropped THEN [Emptied(e) EXCEPT !.told = @ + 1, !.hold = 0]
      ELSE IF j.delta # "none" THEN [e EXCEPT !.delta = "ended"]
      ELSE IF s = "CANCELLED" THEN [Emptied(e) EXCEPT !.told = @ + 1]
      ELSE [e EXCEPT !.told = @ + 1]

\* home_job_end(): the completion waits for the journal's callbacks, then for
\* the front to drain the mailbox, unless the front has let go, when home lets
\* go too.
End(j, s) ==
  LET e == [j EXCEPT !.status = s, !.state = "ended", !.transfer = FALSE]
  IN  IF j.pending > 0 THEN [e EXCEPT !.ending = TRUE]
      ELSE IF j.dropped THEN [Emptied(e) EXCEPT !.told = @ + 1, !.hold = 0]
      ELSE IF j.delta # "none" THEN [e EXCEPT !.delta = "ended"]
      ELSE IF s = "CANCELLED" THEN [Emptied(e) EXCEPT !.told = @ + 1]
      ELSE [e EXCEPT !.told = @ + 1]

\* home_delta_release()
Released(j) ==
  LET d == [j EXCEPT !.delta = "none"]
  IN  IF j.delta = "ended" THEN End(d, j.status) ELSE d

\* The job is now j: DONE is posted if j says so, and home drops n references
\* at the end, and its own with them if j has given that up.
Becomes(j, n) ==
  /\ job' = j
  /\ IF j.told > job.told THEN PostFront("DONE") ELSE PostNothing
  /\ home' = [home EXCEPT !.bits = {}, !.hand = n + job.hold - j.hold]
  /\ UNCHANGED <<place, asks, req, front, runs, draining>>

\* Home, in a step or a callback of its own, ends a job in flight; what the
\* answer's place holds then, a says.
Finish(s, a) == Becomes(End([job EXCEPT !.answer = a], s), 0)

\* home_job() takes the bits.
HomeTake ==
  /\ home.loop \in {"run", "fini"} /\ home.bits = {} /\ home.hand = 0
  /\ home_mail
  /\ home' = [home EXCEPT !.bits = home_bits, !.hand = 1]
  /\ home_bits' = {} /\ home_mail' = FALSE
  /\ UNCHANGED <<place, refs, front_bits, front_mail, asks, req, job, front,
                 runs, draining>>

\* home_submit(): a job whose front has let go already ends at once.
HomeSubmitCancelled ==
  /\ home.loop = "run" /\ {"SUBMIT", "CANCEL"} \subseteq home.bits
  /\ Becomes([End(job, "CANCELLED") EXCEPT !.hold = 0], 1)

\* home_admit(): queued or ready, or refused: draining, busy, the breaker
\* open or out of memory.
HomeSubmit ==
  /\ home.loop = "run" /\ "SUBMIT" \in home.bits /\ "CANCEL" \notin home.bits
  /\ IF draining
     THEN Becomes(End(job, "CANCELLED"), 1)
     ELSE \/ Becomes([job EXCEPT !.state = "queued"], 1)
          \/ Becomes(End(job, "BUSY"), 1)
          \/ Becomes(End([job EXCEPT !.answer = TRUE], "FAILED"), 1)

\* home_release(): one with a transfer is cancelled in a step, which lets go
\* of it; any other at once.
HomeRelease ==
  /\ home.loop = "run" /\ "CANCEL" \in home.bits /\ "SUBMIT" \notin home.bits
  /\ LET r == Released(job)
     IN  IF r.transfer THEN Becomes([r EXCEPT !.dropped = TRUE], 1)
         ELSE IF InFlight THEN Becomes([End(r, "CANCELLED") EXCEPT !.hold = 0], 1)
         ELSE Becomes([Emptied(r) EXCEPT !.hold = 0], 1)

\* The front has drained the mailbox.
HomeDrained ==
  /\ home.loop = "run" /\ home.bits = {"DRAIN"}
  /\ Becomes(Released(job), 1)

\* home_job_orphan(): home's loop has stopped.
HomeOrphan ==
  /\ home.loop = "fini" /\ home.bits # {}
  /\ LET r == Released(job)
         e == IF "SUBMIT" \in home.bits THEN End([r EXCEPT !.dropped = FALSE], "CANCELLED")
              ELSE IF "CANCEL" \in home.bits THEN Emptied(r) ELSE r
     IN  Becomes(IF "CANCEL" \in home.bits THEN [e EXCEPT !.hold = 0] ELSE e, 1)

\* home_job_put(): the last reference sends the job back to its front.
HomePut ==
  /\ home.bits = {} /\ home.hand > 0
  /\ refs' = refs - home.hand
  /\ home' = [home EXCEPT !.hand = 0]
  /\ IF refs = home.hand
     THEN front_bits' = {"RETURN"} /\ front_mail' = TRUE
     ELSE UNCHANGED <<front_bits, front_mail>>
  /\ UNCHANGED <<place, home_bits, home_mail, asks, req, job, front, runs,
                 draining>>

-----------------------------------------------------------------------------
(* Home's steps and callbacks that concern the job.                        *)

\* home_archive_pending(), for n writes the journal accepted: a reference each.
Archive(j, n) == [j EXCEPT !.pending = @ + n]

\* home_job_waits()
Waits == job.delta # "none" \/ job.pending > 0

\* home_start(): the request goes upstream, with a journal only once its
\* metadata is written (and, reattached, the thinking is verified).
HomeStart ==
  /\ HomeFree /\ job.state = "queued" /\ ~draining
  /\ IF asks.journal
     THEN \E n \in {1, 2} :
            /\ n <= MaxWrites
            /\ job' = [Archive(job, n) EXCEPT !.state = "running", !.opening = TRUE]
            /\ refs' = refs + n
     ELSE /\ job' = [job EXCEPT !.state = "running", !.transfer = TRUE]
          /\ UNCHANGED refs
  /\ UNCHANGED <<place, home_bits, home_mail, front_bits, front_mail, asks, req,
                 front, home, runs, draining>>

\* home_job_progress(), for a front that asked for it.
HomeProgress ==
  /\ HomeFree /\ InFlight /\ ~job.dropped
  /\ PostFront("PROGRESS")
  /\ UNCHANGED <<place, asks, req, job, front, home, runs, draining>>

\* home_take(): an event of the answer is read.  It adds to the result, may
\* start writes of the thinking, and with JOB_STREAM fills the mailbox.
HomeEvent ==
  /\ HomeFree /\ job.state = "running" /\ ~job.opening /\ ~Waits
  /\ job.events < MaxEvents
  /\ \E n \in 0 .. (IF asks.journal THEN 2 ELSE 0), d \in BOOLEAN :
       /\ n <= MaxWrites
       /\ d => asks.stream /\ ~job.dropped
       /\ job' = [Archive(job, n) EXCEPT !.answer = TRUE, !.events = @ + 1,
                                         !.delta = IF d THEN "pending" ELSE "none"]
       /\ front_bits' = IF d THEN front_bits \cup {"DELTA"} ELSE front_bits
       /\ front_mail' = (front_mail \/ d)
       /\ refs' = refs + n + (IF d /\ front_bits = {} THEN 1 ELSE 0)
  /\ UNCHANGED <<place, home_bits, home_mail, asks, req, front, home, runs,
                 draining>>

\* home_job_done(): the transfer has ended.  One with a write under way is
\* deferred, and so is a stream until all of it is read; else it is over.
HomeDelivered ==
  /\ HomeFree /\ job.transfer
  /\ \/ job' = [job EXCEPT !.transfer = FALSE, !.deferred = job.pending > 0]
        /\ PostNothing
        /\ UNCHANGED <<place, asks, req, front, home, runs, draining>>
     \/ /\ job.pending = 0
        /\ \E s \in {"ANSWERED", "FAILED"} :
             (s = "ANSWERED" => job.delta = "none") /\ Finish(s, TRUE)

\* home_drained() and home_read_event(): the stream has been read whole, or
\* an event of it erred.
HomeRead ==
  /\ HomeFree /\ job.state = "running" /\ ~job.opening /\ ~Waits
  /\ \E s \in {"ANSWERED", "FAILED"} : Finish(s, TRUE)

\* home_expire(), the silent step, home_refuse() and an event whose writes
\* the journal refused: a job in flight ends with why in its result; one
\* dropped, as cancelled.
HomeExpire ==
  /\ HomeFree /\ InFlight
  /\ IF job.dropped THEN Finish("CANCELLED", job.answer) ELSE Finish("FAILED", TRUE)

\* The stop step, for a job dropped, and the drain step, for any in flight.
HomeCancel ==
  /\ HomeFree /\ InFlight /\ (job.dropped \/ draining)
  /\ Finish("CANCELLED", job.answer)

\* home_preempt(): once at most, the transfer of a background job, which has
\* no mailbox, is cut and its answer dropped, to start again.
HomePreempt ==
  /\ HomeFree /\ job.transfer /\ ~job.dropped /\ ~job.preempted
  /\ job.pending = 0 /\ ~asks.stream
  /\ job' = [Emptied(job) EXCEPT !.state = "queued", !.transfer = FALSE,
                                 !.preempted = TRUE, !.events = 0]
  /\ PostNothing
  /\ UNCHANGED <<place, asks, req, front, home, runs, draining>>

\* home_journal_done(): a write has ended, with or without an error.
HomeJournal ==
  /\ HomeFree /\ job.pending > 0
  /\ \E e \in BOOLEAN :
       LET w == [job EXCEPT !.pending = @ - 1, !.error = @ \/ e]
           said == [w EXCEPT !.answer = TRUE]
           s == IF w.error /\ w.status # "CANCELLED" THEN "FAILED" ELSE w.status
           open == [w EXCEPT !.opening = FALSE]
       IN  IF w.pending > 0 THEN Becomes(w, 1)
           ELSE IF w.ending
           THEN Becomes(End([(IF w.error /\ w.status # "CANCELLED" THEN said ELSE w)
                              EXCEPT !.ending = FALSE], s), 1)
           ELSE IF ~InFlight THEN Becomes(w, 1)
           ELSE IF w.error THEN Becomes(End(said, "FAILED"), 1)
           ELSE IF w.opening
           THEN \/ Becomes([open EXCEPT !.transfer = TRUE], 1)
                \/ Becomes(End([open EXCEPT !.answer = TRUE], "FAILED"), 1)
           ELSE \/ Becomes([w EXCEPT !.deferred = FALSE], 1)
                \/ /\ w.deferred
                   /\ \E t \in {"ANSWERED", "FAILED"} :
                        Becomes(End([said EXCEPT !.deferred = FALSE], t), 1)

-----------------------------------------------------------------------------
(* Shutdown (brainstem.c): the client loops exit first, then home once it  *)
(* has no job in flight and no write under way; then home's inbox is       *)
(* emptied, then the client loops'.                                        *)

Drain ==
  /\ ~draining /\ draining' = TRUE
  /\ UNCHANGED <<place, refs, home_bits, home_mail, front_bits, front_mail, asks,
                 req, job, front, home, runs>>

\* No request is left, and mcp_destroy() frees the jobs kept.
FrontStop ==
  /\ FrontFree /\ draining /\ req.state = "none"
  /\ front' = [front EXCEPT !.loop = "exit"]
  /\ place' = IF place = "shelf" THEN "freed" ELSE place
  /\ PostNothing
  /\ UNCHANGED <<asks, req, job, home, runs, draining>>

\* A mistake the checks would catch: home waits for its jobs to be back with
\* their fronts.
HomeStopLate ==
  /\ HomeFree /\ front.loop = "exit" /\ ~InFlight /\ job.pending = 0 /\ place # "out"
  /\ home' = [home EXCEPT !.loop = "exit"]
  /\ PostNothing
  /\ UNCHANGED <<place, asks, req, job, front, runs, draining>>

\* home_maybe_exit(), told by home_alone() that the client loops are gone.
HomeStop ==
  /\ HomeFree /\ front.loop = "exit" /\ ~InFlight /\ job.pending = 0
  /\ home' = [home EXCEPT !.loop = "exit"]
  /\ PostNothing
  /\ UNCHANGED <<place, asks, req, job, front, runs, draining>>

HomeFini ==
  /\ home.bits = {} /\ home.hand = 0
  /\ \/ home.loop = "exit" /\ home' = [home EXCEPT !.loop = "fini"]
     \/ home.loop = "fini" /\ ~home_mail /\ home' = [home EXCEPT !.loop = "gone"]
  /\ PostNothing
  /\ UNCHANGED <<place, asks, req, job, front, runs, draining>>

FrontFini ==
  /\ front.bits = {} /\ front.hand = 0 /\ home.loop = "gone"
  /\ \/ front.loop = "exit" /\ front' = [front EXCEPT !.loop = "fini"]
     \/ front.loop = "fini" /\ ~front_mail /\ front' = [front EXCEPT !.loop = "gone"]
  /\ PostNothing
  /\ UNCHANGED <<place, asks, req, job, home, runs, draining>>

Stopped == front.loop = "gone" /\ UNCHANGED vars

-----------------------------------------------------------------------------

FrontHandler == FrontReturned \/ FrontProgress \/ FrontDone \/ FrontDropped
                \/ FrontLate \/ FrontPut \/ FrontFini
HomeHandler == HomeSubmitCancelled \/ HomeSubmit \/ HomeRelease \/ HomeDrained
               \/ HomeOrphan \/ HomePut \/ HomeFini
Upstream == HomeStart \/ HomeProgress \/ HomeEvent \/ HomeDelivered \/ HomeRead
            \/ HomeExpire \/ HomePreempt

Next == Submit \/ Drop \/ Drained \/ FrontTake \/ FrontHandler \/ FrontStop
        \/ HomeTake \/ HomeHandler \/ HomeJournal \/ HomeCancel \/ HomeStop
        \/ Upstream \/ Drain \/ Stopped

\* A handler that runs ends.  A message posted is handed out (LoopInbox), the
\* journal's callback, a message too, among them, and a step that is ready
\* runs: the stop step, the drain's, the exit's.  A request reads its result
\* to the end, and a drain ends the requests.  Nothing is assumed of the
\* upstream, of a client that reads its event stream, or of deadlines.
Fairness ==
  /\ WF_vars(FrontHandler) /\ WF_vars(HomeHandler)
  /\ SF_vars(FrontTake) /\ SF_vars(HomeTake) /\ SF_vars(HomeJournal)
  /\ SF_vars(HomeCancel) /\ SF_vars(FrontStop) /\ SF_vars(HomeStop)
  /\ SF_vars(Drop /\ (req.state = "reads" \/ draining))

Spec == Init /\ [][Next]_vars /\ Fairness

-----------------------------------------------------------------------------

\* A message is queued exactly while its word is non-zero, so it is never
\* posted while queued, which loop_post() forbids; and a job that its front
\* keeps or has freed is in no inbox and in no handler's or callback's hands.
MailMatches ==
  /\ home_mail <=> home_bits # {}
  /\ front_mail <=> front_bits # {}
  /\ place # "out" => /\ ~home_mail /\ ~front_mail
                      /\ home.bits = {} /\ front.bits = {} /\ job.pending = 0

\* A loop that has emptied its inbox for the last time leaves no job behind.
NoJobLeaks == front.loop = "gone" => place = "freed"

\* The references count the front, home, each message queued and each write
\* under way, but for what a handler has yet to drop: no reference is lost
\* and none is dropped twice, in whatever order the two threads let go, and
\* the count is 0 only once the job is on its way back (job.h, "The
\* references count the front, home and each message queued"); messages are
\* queued as the words say, and no job is left when the loops are freed.
RefsExact ==
  /\ refs = req.hold + job.hold + job.pending + front.hand + home.hand
            + (IF home_mail THEN 1 ELSE 0)
            + (IF front_mail /\ "RETURN" \notin front_bits THEN 1 ELSE 0)
  /\ place = "out" /\ refs = 0 <=> "RETURN" \in front_bits \cup front.bits
  /\ MailMatches /\ NoJobLeaks

\* Every run has one completion (job.h, "every job ends in exactly one
\* completion"): DONE is on its way only after home told it and before the
\* front took it, the request reads only then, and a job comes back to its
\* front only once its completion has been taken.
OneCompletion ==
  /\ "DONE" \in front_bits \cup front.bits =>
       job.told = 1 /\ req.state # "reads" /\ req.hold = 1
  /\ "DONE" \in front_bits => "DONE" \notin front.bits
  /\ "RETURN" \in front_bits \cup front.bits => job.told = 1 /\ req.hold = 0
  /\ req.state = "reads" => job.told = 1
  /\ job.told <= 1

\* Home holds back the completion while the front reads the mailbox or the
\* journal writes, and only then: it is not forgotten.
HeldBack ==
  job.state = "ended" /\ job.told = 0 =>
    (job.ending /\ job.pending > 0) \/ job.delta = "ended"

\* What the request reads holds still: home neither changes the status nor
\* frees the result from the completion until the request has let go, nor
\* the mailbox from DELTA until DRAIN; and DONE comes with nothing of the
\* mailbox unread and no write under way; what holds it back ends.
ReadsAlone ==
  /\ req.state = "reads" =>
       /\ job.state = "ended" /\ job.delta = "none" /\ job.pending = 0
       /\ job.status \in {"ANSWERED", "FAILED"} => job.answer
  /\ req.delta => job.delta # "none" /\ job.told = 0
  /\ req.state = "waits" => ~ \E bits \in {front_bits, front.bits} :
                              {"DONE", "DELTA"} \subseteq bits
  /\ HeldBack

\* "gives the result's storage back to its own stash, so that each buffer's
\* storage is taken and given back by one thread" (job.h): when the front
\* keeps or frees a job, home has given back the result.
StorageComesHome == [][place = "out" /\ place' # "out" => ~job.answer]_vars

\* A call that its front let go of comes back to the shelf, or is freed,
\* whatever the upstream does.
LetGoReturns == place = "out" /\ req.state = "none" ~> place # "out"

\* The drain ends with every loop stopped and emptied: home's wait for its
\* jobs and writes and the fronts' wait for their calls do not block each
\* other.
DrainEnds == draining ~> front.loop = "gone"
=============================================================================
