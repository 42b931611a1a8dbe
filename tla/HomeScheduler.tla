--------------------------- MODULE HomeScheduler ---------------------------
(***************************************************************************)
(* Home's scheduler of upstream calls (src/src/home.c): admission, a queue *)
(* for each class and principal, a ring of principals for each class, the  *)
(* upstream slots, preemption of background jobs, and the breaker.         *)
(*                                                                         *)
(* Everything here runs on home's thread, but in steps that other events   *)
(* come between: a function that finds work for a step readies that step   *)
(* and returns.  A step does as much as its share allows and readies       *)
(* itself for the rest, so one round of its loop is one action here, and   *)
(* the step stays ready until its loop finds nothing.  A C function that   *)
(* several handlers call is an operator from struct home to struct home.   *)
(* What the two threads say to each other of a job is in JobChannel.       *)
(***************************************************************************)
EXTENDS Integers, Sequences, FiniteSets, SequencesExt, IntrusiveLists

CONSTANTS Job,        \* the jobs, each used for one call after another
          None,       \* nullptr, no job
          Principal,  \* sessions, addresses or identities
          Class,      \* a job's class: 0 interactive, 1 background
          Who,        \* a job's principal
          Fixed,      \* jobs that are native or durable: never restarted
          Setup,      \* how home_create() may be told to begin
          MaxCalls,   \* --max-calls
          JOB_QUEUED, \* jobs of a class a principal may have queued
          FAILURES,   \* failures in a row that open the breaker
          SLOTS,      \* the slots until the upstream says how many it has
          Slots       \* the numbers of slots home may be told

ASSUME SchedulerAssumption ==
  /\ None \notin Job /\ IsFiniteSet(Job)
  /\ Class \in [Job -> {0, 1}] /\ Who \in [Job -> Principal]
  /\ Fixed \subseteq Job
  /\ {MaxCalls, JOB_QUEUED, FAILURES, SLOTS} \subseteq Nat \ {0}
  /\ Slots # {} /\ Slots \subseteq Nat \ {0}
  /\ Setup \subseteq {s \in [journal : BOOLEAN, asking : BOOLEAN, slots : Slots \cup {SLOTS}] :
                      s.asking => s.slots = SLOTS}

VARIABLE home   \* struct home and what it notes of each job

Breaker == {"CLOSED", "OPEN", "HALF"}
Flag    == {"READY", "RUNNING", "PROBE", "PREEMPTED", "DROPPED", "DELIVERED"}
Step    == {"start", "shed", "preempt", "stop", "drain"}

\* A sequence without repetition: a list that a job or a principal is on.
ListOf(S) == {s \in SeqOf(S, Cardinality(S)) : IsInjective(s)}

TypeOK ==
  /\ home.queue \in [{0, 1} -> [Principal -> ListOf(Job)]]
  /\ home.ring \in [{0, 1} -> ListOf(Principal)]
  /\ home.ready \in [{0, 1} -> ListOf(Job)]
  /\ {home.background, home.preempting, home.dropped} \subseteq ListOf(Job)
  /\ home.due \subseteq Job /\ home.owed \in Int
  /\ home.flags \in [Job -> SUBSET Flag]
  /\ home.transfer \subseteq Job /\ home.pending \subseteq Job
  /\ home.thought \subseteq Job
  /\ home.place \in [Job -> 0 .. Cardinality(Job)]
  /\ home.cuts \in [Job -> 0 .. 2]
  /\ home.readied \in [{0, 1} -> 0 .. Cardinality(Job)]
  /\ {home.running, home.running_bg} \subseteq 0 .. Cardinality(Job)
  /\ home.slots \in Slots \cup {SLOTS} /\ home.asking \in BOOLEAN
  /\ {home.fifo, home.journal} \subseteq BOOLEAN
  /\ home.state \in Breaker /\ home.failures \in 0 .. FAILURES
  /\ home.probing \in BOOLEAN /\ home.draining \in BOOLEAN
  /\ home.armed \subseteq Step

\* home_create(): told the slots, or asking the upstream for them, with calls
\* archived or not.
Init ==
  \E fifo \in BOOLEAN, setup \in Setup :
    home = [queue |-> [c \in {0, 1} |-> [p \in Principal |-> <<>>]],
            ring |-> [c \in {0, 1} |-> <<>>],
            ready |-> [c \in {0, 1} |-> <<>>],
            background |-> <<>>, preempting |-> <<>>, dropped |-> <<>>,
            due |-> {},          \* the jobs in flight: home->timeline
            owed |-> 0,          \* submitted - completed - cancelled - rejected
            flags |-> [j \in Job |-> {}],
            transfer |-> {},     \* jobs with a curl transfer
            pending |-> {},      \* with a journal write under way
            thought |-> {},      \* whose thinking is archived in part
            place |-> [j \in Job |-> 0],   \* job->progress
            cuts |-> [j \in Job |-> 0],    \* preemptions this run: history
            readied |-> [c \in {0, 1} |-> 0],
            running |-> 0, running_bg |-> 0, slots |-> setup.slots,
            asking |-> setup.asking, journal |-> setup.journal,
            fifo |-> fifo,       \* HOME_FIFO: one queue for each class
            state |-> "CLOSED", failures |-> 0,
            probing |-> FALSE, draining |-> FALSE, armed |-> {"start"}]

-----------------------------------------------------------------------------
(* The functions of home.c that its handlers share.                        *)

Has(h, j, f) == f \in h.flags[j]

\* loop_ready_bulk()
Armed(h, s) == [h EXCEPT !.armed = @ \cup {s}]

\* home_background_slots()
BackgroundSlots(h) == IF h.slots >= 2 THEN h.slots - 1 ELSE h.slots

\* home_find_whom(): the queue that a job is for.
Whom(h, j) == IF h.fifo THEN CHOOSE p \in Principal : TRUE ELSE Who[j]

Queued(h, j) == \E i \in DOMAIN h.queue[Class[j]][Whom(h, j)] :
                  h.queue[Class[j]][Whom(h, j)][i] = j

\* A mistake the checks would catch: the jobs behind keep their places.
UnqueueOnly(h, j) ==
  LET c == Class[j]
      p == Whom(h, j)
      q == h.queue[c][p]
      behind == {k \in ToSet(q) : \E a, b \in DOMAIN q : a < b /\ q[a] = j /\ q[b] = k}
  IN  [h EXCEPT !.queue[c][p] = Off(q, j),
                !.ring[c] = IF Len(q) = 1 THEN Off(@, p) ELSE @,
                !.place = IF behind = {} THEN @ ELSE @]

\* home_unqueue(): the jobs behind it come a place nearer; a principal with
\* none left leaves the ring.
Unqueue(h, j) ==
  LET c == Class[j]
      p == Whom(h, j)
      q == h.queue[c][p]
      behind == {k \in ToSet(q) : \E a, b \in DOMAIN q : a < b /\ q[a] = j /\ q[b] = k}
  IN  [h EXCEPT !.queue[c][p] = Off(q, j),
                !.ring[c] = IF Len(q) = 1 THEN Off(@, p) ELSE @,
                !.place = IF h.fifo THEN @
                          ELSE [k \in Job |-> @[k] - (IF k \in behind THEN 1 ELSE 0)]]

\* list_del(&job->queue), whichever list that is.
Unlisted(h, j) ==
  [h EXCEPT !.ready[Class[j]] = Off(@, j), !.background = Off(@, j),
            !.preempting = Off(@, j), !.dropped = Off(@, j)]

\* A mistake the checks would catch: every job counted as a ready one.
RetireReadied(h, j) ==
  LET c == Class[j]
      q == IF Queued(h, j) THEN Unqueue(h, j) ELSE h
      u == [Unlisted(q, j) EXCEPT !.due = @ \ {j},
              !.readied[c] = @ - 1]
  IN  IF ~Has(h, j, "RUNNING") THEN u
      ELSE Armed([u EXCEPT !.running = @ - 1, !.running_bg = @ - c,
                           !.probing = @ /\ ~Has(h, j, "PROBE")], "start")

\* A mistake the checks would catch: the probe leaves without saying so.
RetireProbe(h, j) ==
  LET c == Class[j]
      q == IF Queued(h, j) THEN Unqueue(h, j) ELSE h
      u == [Unlisted(q, j) EXCEPT !.due = @ \ {j},
              !.readied[c] = @ - (IF Has(h, j, "READY") THEN 1 ELSE 0)]
  IN  IF ~Has(h, j, "RUNNING") THEN u
      ELSE Armed([u EXCEPT !.running = @ - 1, !.running_bg = @ - c,
                           !.probing = @], "start")

\* A mistake the checks would catch: a slot becomes free and nobody is told.
RetireQuiet(h, j) ==
  LET c == Class[j]
      q == IF Queued(h, j) THEN Unqueue(h, j) ELSE h
      u == [Unlisted(q, j) EXCEPT !.due = @ \ {j},
              !.readied[c] = @ - (IF Has(h, j, "READY") THEN 1 ELSE 0)]
  IN  IF ~Has(h, j, "RUNNING") THEN u
      ELSE [u EXCEPT !.running = @ - 1, !.running_bg = @ - c,
                           !.probing = @ /\ ~Has(h, j, "PROBE")]

\* home_retire(): off the timeline and its list; one that ran frees its slot.
Retire(h, j) ==
  LET c == Class[j]
      q == IF Queued(h, j) THEN Unqueue(h, j) ELSE h
      u == [Unlisted(q, j) EXCEPT !.due = @ \ {j},
              !.readied[c] = @ - (IF Has(h, j, "READY") THEN 1 ELSE 0)]
  IN  IF ~Has(h, j, "RUNNING") THEN u
      ELSE Armed([u EXCEPT !.running = @ - 1, !.running_bg = @ - c,
                           !.probing = @ /\ ~Has(h, j, "PROBE")], "start")

\* home_job_reset(): what home noted of a run goes.  The code does it as the
\* job comes for the next, with nothing in between that looks.
Reset(h, j) ==
  [h EXCEPT !.flags[j] = {}, !.thought = @ \ {j}, !.place[j] = 0, !.cuts[j] = 0]

\* home_end(), counted once, whatever the count.
End(h, j) ==
  LET r == IF j \in h.due THEN Retire(h, j) ELSE h
  IN  [Reset(r, j) EXCEPT !.owed = @ - 1]

\* home_breaker_open()
BreakerOpen(h) == Armed([h EXCEPT !.state = "OPEN"], "shed")

\* home_job_cuttable(), without its test of ENDED: the mark that ends a stream
\* is not an event here, so a job whose answer is all in may be preempted too.
Cuttable(h, j) ==
  /\ j \notin Fixed /\ j \in h.transfer
  /\ j \notin h.pending /\ j \notin h.thought
  /\ ~Has(h, j, "PROBE") /\ ~Has(h, j, "DELIVERED")

\* home_excess()
Excess(h) ==
  IF h.slots = 1 /\ h.running_bg > 0 /\ h.ring[0] # <<>> THEN 1
  ELSE IF h.running_bg > BackgroundSlots(h) THEN h.running_bg - BackgroundSlots(h)
  ELSE 0

\* A mistake the checks would catch: a job preempted before is preempted
\* again.
PreemptAgain(h) ==
  LET cut == Among(h.background, {j \in Job : Cuttable(h, j)})
      over == Excess(h) - Len(h.preempting)
      n == IF over < 0 THEN 0 ELSE IF over < Len(cut) THEN over ELSE Len(cut)
      chosen == SubSeq(cut, 1, n)
  IN  [h EXCEPT
         !.flags = [j \in Job |-> IF j \in ToSet(chosen) THEN @[j] \cup {"PREEMPTED"} ELSE @[j]],
         !.background = Among(@, Job \ ToSet(chosen)),
         !.preempting = @ \o chosen,
         !.armed = IF n = 0 THEN @ ELSE @ \cup {"preempt"}]

\* home_preempt_excess(): as many as hold slots they may not, but for those
\* being preempted already, the first to have started first, once at most.
PreemptExcess(h) ==
  LET cut == Among(h.background, {j \in Job : Cuttable(h, j) /\ ~Has(h, j, "PREEMPTED")})
      over == Excess(h) - Len(h.preempting)
      n == IF over < 0 THEN 0 ELSE IF over < Len(cut) THEN over ELSE Len(cut)
      chosen == SubSeq(cut, 1, n)
  IN  [h EXCEPT
         !.flags = [j \in Job |-> IF j \in ToSet(chosen) THEN @[j] \cup {"PREEMPTED"} ELSE @[j]],
         !.background = Among(@, Job \ ToSet(chosen)),
         !.preempting = @ \o chosen,
         !.armed = IF n = 0 THEN @ ELSE @ \cup {"preempt"}]

\* home_breaker_probed()
BreakerProbed(h, j, failure) ==
  LET p == [h EXCEPT !.flags[j] = @ \ {"PROBE"}, !.probing = FALSE]
  IN  IF failure THEN BreakerOpen(p)
      ELSE PreemptExcess(Armed([p EXCEPT !.state = "CLOSED", !.failures = 0], "start"))

\* home_breaker_note(): retry, that the answer said when to try again.
BreakerNote(h, j, failure, retry) ==
  IF Has(h, j, "PROBE") THEN BreakerProbed(h, j, failure)
  ELSE IF h.state # "CLOSED" THEN h
  ELSE IF ~failure THEN [h EXCEPT !.failures = 0]
  ELSE LET n == [h EXCEPT !.failures = @ + 1]
       IN  IF n.failures >= FAILURES \/ retry THEN BreakerOpen(n) ELSE n

\* home_finish(), and home_cut(), which cancels the transfer first.
Finish(h, j, failure, retry) == End(BreakerNote(h, j, failure, retry), j)
Cut(h, j, failure) ==
  Finish([h EXCEPT !.transfer = @ \ {j}], j, failure, FALSE)

\* home_cancel()
Cancel(h, j) == End([h EXCEPT !.transfer = @ \ {j}], j)

\* home_first() and home_next()
First(h, c) ==
  IF h.ready[c] # <<>> THEN Head(h.ready[c])
  ELSE IF h.ring[c] = <<>> THEN None
  ELSE Head(h.queue[c][Head(h.ring[c])])

\* A mistake the checks would catch: background jobs start whatever slots
\* they hold.
NextJobAny(h, start) ==
  IF First(h, 0) # None \/ (start /\ h.slots = 0)
  THEN First(h, 0) ELSE First(h, 1)

NextJob(h, start) ==
  IF First(h, 0) # None \/ (start /\ h.running_bg >= BackgroundSlots(h))
  THEN First(h, 0) ELSE First(h, 1)

\* The condition of home_start_step()'s loop.
MayStart(h) ==
  ~h.draining /\ ~h.probing /\ h.state # "OPEN" /\ h.running < h.slots

-----------------------------------------------------------------------------
(* Jobs come and are let go of: home_job().                                *)

\* home_vacant()
Vacant(h, c) ==
  /\ h.state = "CLOSED" /\ h.ring[0] = <<>>
  /\ h.running + h.readied[0] + h.readied[1] < h.slots
  /\ c = 1 => h.ring[1] = <<>> /\ h.running_bg + h.readied[1] < BackgroundSlots(h)

\* home_wait(): at the back of its principal's queue, a new principal at the
\* back of the ring.  An interactive job may preempt.
HomeWait(h, j) ==
  LET c == Class[j]
      p == Whom(h, j)
      w == [h EXCEPT !.due = @ \cup {j},
                     !.ring[c] = IF h.queue[c][p] = <<>> THEN Append(@, p) ELSE @,
                     !.queue[c][p] = Append(@, j),
                     !.place[j] = Len(h.queue[c][p]) + 1]
  IN  IF c = 0 THEN PreemptExcess(w) ELSE w

\* home_admit(): what comes of a job just submitted.
Admit(h, j) ==
  LET c == Class[j]
  IN  IF \/ h.draining \/ h.state = "OPEN" \/ Cardinality(h.due) >= MaxCalls
         \/ ~h.fifo /\ Len(h.queue[c][Whom(h, j)]) >= JOB_QUEUED
      THEN End(h, j)
      ELSE IF Vacant(h, c)
      THEN Armed([h EXCEPT !.due = @ \cup {j}, !.ready[c] = Append(@, j),
                           !.flags[j] = @ \cup {"READY"}, !.readied[c] = @ + 1],
                 "start")
      ELSE Armed(HomeWait(h, j), "start")

\* home_submit(): a job that is in nobody's hands comes for another run.
Submit(j) ==
  /\ j \notin home.due \cup home.pending
  /\ home' = Admit([home EXCEPT !.owed = @ + 1], j)

\* home_release(): one with a transfer is cancelled in the stop step.
Release(j) ==
  /\ j \in home.due /\ ~Has(home, j, "DROPPED")
  /\ home' = IF j \in home.transfer
             THEN Armed([Unlisted(home, j) EXCEPT !.flags[j] = @ \cup {"DROPPED"},
                                                  !.dropped = Append(@, j)], "stop")
             ELSE End(home, j)

-----------------------------------------------------------------------------
(* The steps.                                                              *)

Ready(s) == s \in home.armed
Disarmed(s) == [home EXCEPT !.armed = @ \ {s}]

\* home_start(): half-open, as the probe; the transfer starts, with a journal
\* once the metadata is written, or cannot be started.
Start(h, j, done) ==
  LET probe == h.state = "HALF"
      s == [h EXCEPT !.flags[j] = @ \cup {"RUNNING"} \cup (IF probe THEN {"PROBE"} ELSE {}),
                     !.probing = @ \/ probe,
                     !.running = @ + 1, !.running_bg = @ + Class[j],
                     !.background = IF Class[j] = 1 THEN Append(@, j) ELSE @,
                     !.place[j] = 0]
  IN  CASE done = "fails" -> End(s, j)
        [] done = "opens" /\ h.journal -> [s EXCEPT !.pending = @ \cup {j}]
        [] OTHER -> [s EXCEPT !.transfer = @ \cup {j}]

\* A mistake the checks would catch: the ring's first principal stays first.
StartStepFirst ==
  /\ Ready("start")
  /\ LET j == NextJob(home, TRUE)
         c == Class[j]
         taken == IF Has(home, j, "READY")
                  THEN [Unlisted(home, j) EXCEPT !.flags[j] = @ \ {"READY"},
                                                 !.readied[c] = @ - 1]
                  ELSE Unqueue(home, j)
     IN  IF MayStart(home) /\ j # None
         THEN \E done \in {"opens", "fails"} : home' = Start(taken, j, done)
         ELSE home' = Disarmed("start")

\* A round of home_start_step(): a ready job, or the oldest of the ring's
\* first principal, which goes to the back.
StartStep ==
  /\ Ready("start")
  /\ LET j == NextJob(home, TRUE)
         c == Class[j]
         taken == IF Has(home, j, "READY")
                  THEN [Unlisted(home, j) EXCEPT !.flags[j] = @ \ {"READY"},
                                                 !.readied[c] = @ - 1]
                  ELSE Unqueue([home EXCEPT !.ring[c] = Append(Tail(@), Head(@))], j)
     IN  IF MayStart(home) /\ j # None
         THEN \E done \in {"opens", "fails"} : home' = Start(taken, j, done)
         ELSE home' = Disarmed("start")

\* A round of home_shed_step(): home_refuse().
ShedStep ==
  /\ Ready("shed")
  /\ LET j == NextJob(home, FALSE)
     IN  home' = IF home.state = "OPEN" /\ j # None THEN End(home, j)
                 ELSE Disarmed("shed")

\* A mistake the checks would catch: the slots of background jobs keep the
\* one cut.
PreemptKept(h, j) ==
  Armed([h EXCEPT !.transfer = @ \ {j}, !.flags[j] = {"PREEMPTED", "READY"},
                  !.running = @ - 1,
                  !.ready[1] = <<j>> \o @, !.readied[1] = @ + 1,
                  !.place[j] = 1, !.cuts[j] = @ + 1], "start")

\* home_preempt(): the job waits again, ready, the first of its class (the
\* node that list_append() is given is the first, and the job goes before it).
Preempt(h, j) ==
  Armed([h EXCEPT !.transfer = @ \ {j}, !.flags[j] = {"PREEMPTED", "READY"},
                  !.running = @ - 1, !.running_bg = @ - 1,
                  !.ready[1] = <<j>> \o @, !.readied[1] = @ + 1,
                  !.place[j] = 1, !.cuts[j] = @ + 1], "start")

\* A round of home_preempt_step().
PreemptStep ==
  /\ Ready("preempt")
  /\ IF home.preempting = <<>> THEN home' = Disarmed("preempt")
     ELSE LET j == Head(home.preempting)
              h == [home EXCEPT !.preempting = Tail(@)]
          IN  home' = IF Cuttable(h, j) /\ Excess(h) > 0 THEN Preempt(h, j)
                      ELSE [h EXCEPT !.flags[j] = @ \ {"PREEMPTED"},
                                     !.background = Append(@, j)]

\* A round of home_stop_step().
StopStep ==
  /\ Ready("stop")
  /\ home' = IF home.dropped = <<>> THEN Disarmed("stop")
             ELSE Cancel(home, Head(home.dropped))

\* A round of home_drain_step().
DrainStep ==
  /\ Ready("drain")
  /\ IF home.due = {} THEN home' = Disarmed("drain")
     ELSE \E j \in home.due : home' = Cancel(home, j)

-----------------------------------------------------------------------------
(* Upstream, the journal, the timers and the brainstem.                    *)

\* home_head(): the answer of the probe begins, with no failure's status.
ProbeAnswers(j) ==
  /\ j \in home.transfer /\ Has(home, j, "PROBE")
  /\ home' = BreakerProbed(home, j, FALSE)

\* home_job_done(): a stream, or a transfer with a write under way, is over
\* once all of it is read and written; any other is over now.
Delivered(j) ==
  /\ j \in home.transfer
  /\ LET h == [home EXCEPT !.transfer = @ \ {j}]
     IN  \/ home' = [h EXCEPT !.flags[j] = @ \cup {"DELIVERED"}]
         \/ /\ j \notin home.pending
            /\ \E failure, retry \in BOOLEAN : home' = Finish(h, j, failure, retry)

\* home_take(): an event read has thinking to archive.
Thinks(j) ==
  /\ home.journal /\ j \in home.due \ home.pending
  /\ j \in home.transfer \/ Has(home, j, "DELIVERED")
  /\ home' = [home EXCEPT !.pending = @ \cup {j}, !.thought = @ \cup {j}]

\* home_drained() and home_read_event(): the stream is read to its end, or
\* as far as an error in it.
ReadWhole(j) ==
  /\ j \in home.due \ home.pending
  /\ \/ \E failure, retry \in BOOLEAN :
          Has(home, j, "DELIVERED") /\ home' = Finish(home, j, failure, retry)
     \/ j \in home.transfer /\ home' = Cut(home, j, FALSE)

\* home_journal_done(): the write failed, which cuts the job; or the transfer
\* opens, or cannot; or the reading goes on, if the end was not deferred.
JournalDone(j) ==
  /\ j \in home.pending
  /\ LET h == [home EXCEPT !.pending = @ \ {j}]
         opening == j \notin h.transfer /\ ~Has(h, j, "DELIVERED")
     IN  IF j \notin home.due THEN home' = h
         ELSE \/ \E failure \in BOOLEAN : home' = Cut(h, j, failure)
              \/ opening /\ home' \in {[h EXCEPT !.transfer = @ \cup {j}], End(h, j)}
              \/ ~opening /\ home' = h
              \/ \E failure, retry \in BOOLEAN :
                   Has(h, j, "DELIVERED") /\ home' = Finish(h, j, failure, retry)

\* home_expire(): past its deadline.
Expire(j) ==
  /\ j \in home.due
  /\ home' = CASE Has(home, j, "DROPPED") -> Cancel(home, j)
               [] Has(home, j, "RUNNING") /\ ~Has(home, j, "DROPPED") -> Cut(home, j, TRUE)
               [] OTHER -> End(home, j)

\* home_silent_step(): an answer that sends nothing any more is cut, one
\* dropped too.
Stall(j) == j \in home.transfer /\ home' = Cut(home, j, TRUE)

\* home_breaker_event(): the spell is over.
BreakerEvent ==
  /\ home.state = "OPEN"
  /\ home' = Armed([home EXCEPT !.state = "HALF"], "start")

\* home_props_end() and home_slots(): /props answers, or fails.
SlotsTold(n) ==
  /\ home.asking
  /\ home' = PreemptExcess(Armed([home EXCEPT !.slots = n, !.asking = FALSE], "start"))

\* home_drain()
Drain ==
  /\ ~home.draining
  /\ home' = Armed([home EXCEPT !.draining = TRUE], "drain")

Steps == StartStep \/ ShedStep \/ PreemptStep \/ StopStep \/ DrainStep

Next ==
  \/ \E j \in Job : \/ Submit(j) \/ Release(j) \/ ProbeAnswers(j) \/ Delivered(j)
                    \/ Thinks(j) \/ ReadWhole(j) \/ JournalDone(j) \/ Expire(j)
                    \/ Stall(j)
  \/ Steps
  \/ BreakerEvent \/ Drain \/ \E n \in Slots \cup {SLOTS} : SlotsTold(n)

\* A step that is ready runs; the breaker's timer fires; a job that runs has
\* a deadline, and so does every write.  Nothing else is assumed of the
\* upstream, and nothing of the callers.
Fairness ==
  /\ WF_home(StartStep) /\ WF_home(ShedStep) /\ WF_home(PreemptStep)
  /\ WF_home(StopStep) /\ WF_home(DrainStep) /\ WF_home(BreakerEvent)
  /\ \A j \in Job : /\ WF_home(JournalDone(j))
                    /\ SF_home(Has(home, j, "RUNNING") /\ Expire(j))

Spec == Init /\ [][Next]_home /\ Fairness

-----------------------------------------------------------------------------

\* A job in flight is on the one list that its flags say, a job that is not
\* is on none, and the counts of running and ready jobs, which admission and
\* the steps compare with the slots, are those of the lists; whatever ends a
\* job counts it once: "submitted = completed + cancelled + rejected + in
\* flight" (doc/core-design.md).
Listed ==
  LET ran(j) == j \in home.due /\ Has(home, j, "RUNNING")
      waits(j, c) == j \in home.due /\ Class[j] = c /\ Has(home, j, "READY")
  IN  /\ home.owed = Cardinality(home.due)
      /\ \A c \in {0, 1} : /\ ToSet(home.ready[c]) = {j \in Job : waits(j, c)}
                           /\ home.readied[c] = Len(home.ready[c])
      /\ home.running = Cardinality({j \in Job : ran(j)})
      /\ home.running_bg = Cardinality({j \in Job : ran(j) /\ Class[j] = 1})
      /\ \A j \in Job :
           LET lists == {l \in {home.background, home.preempting, home.dropped} :
                           j \in ToSet(l)}
           IN  /\ ran(j) /\ (Class[j] = 1 \/ Has(home, j, "DROPPED")) => Cardinality(lists) = 1
               /\ ~ran(j) => lists = {}
               /\ Queued(home, j) <=> j \in home.due /\ home.flags[j] = {}
      /\ \A c \in {0, 1} : ToSet(home.ring[c]) = {p \in Principal : home.queue[c][p] # <<>>}
      /\ home.transfer \subseteq {j \in Job : ran(j)}

\* No step is forgotten: while a job could start, the start step is ready, in
\* whichever order jobs end, slots and the breaker change and jobs are
\* dropped or preempted; and likewise the steps that cancel, preempt and
\* drain.
NoLostStep ==
  /\ MayStart(home) /\ NextJob(home, TRUE) # None => Ready("start")
  /\ home.preempting # <<>> => Ready("preempt")
  /\ home.dropped # <<>> => Ready("stop")
  /\ home.draining /\ home.due # {} => Ready("drain")

\* One probe at a time, and only half-open: home knows whether it runs, and
\* every way the probe can end or be let go of says so.
OneProbe ==
  /\ {j \in home.due : Has(home, j, "PROBE")} = {} <=> ~home.probing
  /\ Cardinality({j \in home.due : Has(home, j, "PROBE")}) <= 1
  /\ home.probing => home.state = "HALF"

\* The place that a waiting call is told is its place in its principal's
\* queue, wherever in it jobs leave.
PlacesTrue ==
  ~home.fifo => \A c \in {0, 1}, p \in Principal :
             \A i \in DOMAIN home.queue[c][p] : home.place[home.queue[c][p][i]] = i

\* A job is preempted once at most in a run ("requeued at most once"), and a
\* job preempted never runs on.
PreemptedOnce == \A j \in Job : home.cuts[j] <= 1

\* Background work starts only if no interactive job waits, and leaves a slot
\* of two or more to interactive work, however the slots, the ready lists and
\* the preempted jobs changed since it was admitted.
BackgroundLater ==
  home'.running_bg > home.running_bg =>
    /\ First(home, 0) = None
    /\ home'.slots >= 2 => home'.running_bg < home'.slots

\* "With one slot, an interactive job that has to wait preempts a background
\* job running, the first that is neither the breaker's probe nor one
\* preempted before" (doc/core-design.md): none that may be cut runs on.
InteractivePreempts ==
  home.slots = 1 /\ home.ring[0] # <<>> /\ home.preempting = <<>> =>
    \A j \in ToSet(home.background) : Cuttable(home, j) => Has(home, j, "PREEMPTED")
=============================================================================
