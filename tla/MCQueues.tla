------------------------------ MODULE MCQueues ------------------------------
(***************************************************************************)
(* What is kept in lists with counts and limits: home's jobs and the       *)
(* ledger's records.  The two share no state, so that a behaviour is of    *)
(* one of them, chosen at the start, and the variables of the other stay 0.*)
(*                                                                         *)
(* Records are told apart only by what holds them, so that their           *)
(* permutations are symmetries; no liveness is checked here.               *)
(***************************************************************************)
EXTENDS MCHomeScheduler

CONSTANTS r1, r2, r3

\* nullptr is none of what the ledger below has.
ASSUME BooksAssumption == None \notin {"t1", "w1", "a", r1, r2, r3}

VARIABLES part, ledger, rec, wait, todo, open

\* Three records and a wait of one owner, in a ledger for two, on one loop.
Books == INSTANCE Ledger WITH
           Loop <- {"t1"}, Rec <- {r1, r2, r3}, Wait <- {"w1"}, Key <- {"a"},
           Anonymous <- {}, LEDGER_MAX <- 2, LEDGER_MINE <- 2, LEDGER_RUNNING <- 1,
           LEDGER_WAITS <- 1, LEDGER_TIMERS <- 1, LEDGER_OWNERS <- 2
Symmetry == Permutations({r1, r2, r3})

books == <<ledger, rec, wait, todo, open>>

QInit ==
  \/ part = "jobs" /\ Init /\ ledger = 0 /\ rec = 0 /\ wait = 0 /\ todo = 0 /\ open = 0
  \/ part = "books" /\ Books!Init /\ home = 0

Closed == ~open /\ UNCHANGED books     \* ledger_destroy() has run
QNext ==
  \/ part = "jobs" /\ Next /\ UNCHANGED <<part, books>>
  \/ part = "books" /\ (Books!Next \/ Closed) /\ UNCHANGED <<part, home>>

QSpec == QInit /\ [][QNext]_<<part, home, books>>

-----------------------------------------------------------------------------
\* Both keep their types.
Types == (part = "jobs" => TypeOK) /\ (part = "books" => Books!TypeOK)

\* A job is on the lists that its flags say, and on no other (home_unqueue(),
\* home_retire()).
OnLists == part = "jobs" => Listed

\* A step that would find something to do is ready (home_retire(),
\* home_wait(), home_slots()).
StepsReady == part = "jobs" => NoLostStep

\* The breaker has one probe at a time, and waits for no other
\* (home_breaker_probed()).
ProbeAlone == part = "jobs" => OneProbe

\* A job is preempted once, and never runs on (home_preempt_step()).
CutOnce == part = "jobs" => PreemptedOnce

\* Background work starts only if no interactive job waits, and leaves it a
\* slot (home_next(), home_background_slots()).
BackgroundLast == [][part = "jobs" => BackgroundLater]_home

\* The ledger's counts are those of its lists and within the limits of
\* ledger.h, with more records than it has room for (ledger_sweep(),
\* ledger_insert(), ledger_drop()).
RecordsKept == part = "books" => Books!OwnersExact /\ Books!WithinLimits
=============================================================================
