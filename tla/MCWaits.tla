------------------------------ MODULE MCWaits ------------------------------
(***************************************************************************)
(* What waits for another thread: a job that its front has let go of, a    *)
(* drain, and a call that waits on the ledger.  The two parts share no     *)
(* state, so that a behaviour is of one of them, chosen at the start, and  *)
(* the variables of the other stay 0.                                      *)
(***************************************************************************)
EXTENDS Ledger

CONSTANTS t1, t2, w1   \* two loops, and the wait

VARIABLES part,
  place, refs, home_bits, home_mail, front_bits, front_mail, asks, req, job, front, home,
  runs, draining

\* One call, one event of its answer, one write at a time.
Jobs == INSTANCE JobChannel WITH MaxRuns <- 1, MaxEvents <- 1, MaxWrites <- 1

jobsvars == <<place, refs, home_bits, home_mail, front_bits, front_mail, asks, req, job,
              front, home, runs, draining>>
allvars  == <<part, jobsvars, vars>>

WInit ==
  \/ part = "jobs" /\ Jobs!Init /\ ledger = 0 /\ rec = 0 /\ wait = 0 /\ todo = 0 /\ open = 0
  \/ /\ part = "books" /\ Init
     /\ place = 0 /\ refs = 0 /\ home_bits = 0 /\ home_mail = 0 /\ front_bits = 0
     /\ front_mail = 0 /\ asks = 0 /\ req = 0 /\ job = 0 /\ front = 0 /\ home = 0
     /\ runs = 0 /\ draining = 0

Job(A)  == part = "jobs" /\ A /\ UNCHANGED <<part, vars>>
Book(A) == part = "books" /\ A /\ UNCHANGED <<part, jobsvars>>
Closed  == ~open /\ UNCHANGED vars     \* ledger_destroy() has run
WNext ==
  \/ part = "jobs" /\ Jobs!Next /\ UNCHANGED <<part, vars>>
  \/ part = "books" /\ Next /\ UNCHANGED <<part, jobsvars>>
  \/ part = "books" /\ Closed /\ UNCHANGED <<part, jobsvars>>

\* The fairness of JobChannel and of Ledger, a condition of each in one: a
\* behaviour is of one part.
WFairness ==
  /\ WF_allvars(Job(Jobs!FrontHandler) \/ Book(Unlocked(t1)))
  /\ WF_allvars(Job(Jobs!HomeHandler) \/ Book(Unlocked(t2)))
  /\ SF_allvars(Job(Jobs!FrontTake) \/ Book(OnWake(t1, w1)))
  /\ SF_allvars(Job(Jobs!HomeTake) \/ Book(OnWake(t2, w1)))
  /\ SF_allvars(Job(Jobs!HomeJournal) \/ Book(WaitCheck(t1, w1)))
  /\ SF_allvars(Job(Jobs!HomeCancel) \/ Book(WaitCheck(t2, w1)))
  /\ SF_allvars(Job(Jobs!FrontStop) \/ Book(WaitAlarm(t1, w1)))
  /\ SF_allvars(Job(Jobs!HomeStop) \/ Book(WaitAlarm(t2, w1)))
  /\ SF_allvars(Job((req.state = "reads" \/ draining) /\ Jobs!Drop))

WSpec == WInit /\ [][WNext]_allvars /\ WFairness

-----------------------------------------------------------------------------
\* A wait and a record of the ledger have a reference for all that hold them,
\* and a wait is on one chain (ledger_wait_put(), ledger_task_put()).
HeldExactly == part = "books" => RefsExact /\ ChainsApart

\* A call that waits is told of an end or a timer (mcp_slot_wait_step()).
EventsTold == part = "books" => NothingMissed

\* The ledger's counts are those of its lists and within the limits of
\* ledger.h, and an owner is there exactly while it has a record, a wait or a
\* timer (ledger_owner_gc(), ledger_owner_room()).
OwnersKept == part = "books" => OwnersExact /\ WithinLimits

\* A job that its front let go of comes back, whatever the upstream does
\* (home_release(), job_put()); a wait for any job whose owner has one that
\* ended does not stay parked (mcp_on_wake()).
Waiting == \/ part = "jobs" /\ place = "out" /\ req.state = "none"
           \/ part = "books" /\ wait[w1].state = "parked" /\ wait[w1].any
                             /\ Untold(WaitsFor(w1)) # {}
WaitsOver == Waiting ~> ~Waiting

\* The drain ends with every loop stopped and emptied: home's wait for its
\* jobs and writes and the fronts' wait for their calls do not block each
\* other (brainstem_stop_blockers()).
Draining == part = "jobs" /\ draining /\ front.loop # "gone"
DrainEnds == Draining ~> ~Draining
=============================================================================
