------------------------------ MODULE MCProcess ------------------------------
(***************************************************************************)
(* What goes on beside the client loops: the life of the process's         *)
(* threads, home's queues, the logger, and what is left on disk, the       *)
(* journal's checkpoints and the archive of reasoning text; and the two    *)
(* threads of a client, askai-cli.  They share no state here, so that a    *)
(* behaviour is of one of them, chosen at the start, and the variables of  *)
(* the others stay 0.                                                      *)
(***************************************************************************)
EXTENDS LogRing, Brainstem

VARIABLES part,
  queue, stop, signals, writer, disk, images, table, aged, puts, faults, crashes,
  known, restated, refused, lost,
  file, torn, safe, cache, job, git, said, tries, turn, final,
  home,
  call, req, calls, line, mail, word, posted, credit, net, ui

\* Two SIGHUPs, or a relief, or an error.
OneFault == {[hups |-> 2, reliefs |-> 0, errors |-> 0], [hups |-> 0, reliefs |-> 1, errors |-> 0],
             [hups |-> 0, reliefs |-> 0, errors |-> 1]}
\* One of two jobs is in the legacy WAL, and the table has room for one.
Files == INSTANCE Journal WITH Job <- {"a", "w"}, Wal <- {"w"}, JOURNAL_QUEUE <- 1,
           JOURNAL_CONTROL <- 2, JOURNAL_JOBS <- 1, JOURNAL_RECOVERY <- 3,
           JOURNAL_TERMINAL <- 1, MaxPuts <- 2, MaxFaults <- 1, MaxCrashes <- 1
Texts == INSTANCE Reasoning WITH Turn <- {1}, Piece <- {"x", "y"}, Whole <- 3,
           MaxAttempts <- 3
\* Two principals' interactive jobs on one slot, two of A's and one of B's.
Sched == INSTANCE HomeScheduler WITH Job <- {"a1", "a2", "b"}, Principal <- {"A", "B"},
           None <- "none", Class <- [j \in {"a1", "a2", "b"} |-> 0],
           Who <- [j \in {"a1", "a2", "b"} |-> IF j = "b" THEN "B" ELSE "A"], Fixed <- {},
           Setup <- {[journal |-> FALSE, asking |-> TRUE, slots |-> 1]},
           MaxCalls <- 3, JOB_QUEUED <- 2, FAILURES <- 1, SLOTS <- 1, Slots <- {1}
\* Of two threads that log, one uses its ring twice.
TwiceOnce == <<2, 1>>
\* One call at a time, whose answer's chunks take all the credit each.
Cli   == INSTANCE CliNetwork WITH CallNo <- {1}, CALLS <- 1, CONTROL <- 1, CREDIT <- 1,
           DELIVERY <- 1, MaxChunks <- 2, inbox <- mail

filesvars == <<queue, stop, signals, writer, disk, images, table, aged, puts, faults,
               crashes, known, restated, refused, lost>>
textsvars == <<file, torn, safe, cache, job, git, said, tries, turn, final>>
clientvars == <<call, req, calls, line, mail, word, posted, credit, net, ui>>
pvars == <<part, vars, filesvars, textsvars, home, lvars, clientvars>>

PInit ==
  /\ part \in {"life", "files", "texts", "slots", "lines", "client"}
  /\ IF part = "life" THEN Init
     ELSE /\ blk = 0 /\ hand = 0 /\ bs = 0 /\ state = 0 /\ flags = 0 /\ orders = 0 /\ inbox = 0
          /\ app = 0 /\ ask = 0 /\ relieving = 0 /\ reload = 0 /\ left = 0
  /\ IF part = "files" THEN Files!Init
     ELSE /\ queue = 0 /\ stop = 0 /\ signals = 0 /\ writer = 0 /\ disk = 0 /\ images = 0
          /\ table = 0 /\ aged = 0 /\ puts = 0 /\ faults = 0 /\ crashes = 0 /\ known = 0
          /\ restated = 0 /\ refused = 0 /\ lost = 0
  /\ IF part = "texts" THEN Texts!RInit
     ELSE /\ file = 0 /\ torn = 0 /\ safe = 0 /\ cache = 0 /\ job = 0 /\ git = 0 /\ said = 0 /\ tries = 0
          /\ turn = 0 /\ final = 0
  /\ IF part = "slots" THEN Sched!Init ELSE home = 0
  /\ IF part = "lines" THEN LInit
     ELSE /\ ring = 0 /\ asleep = 0 /\ woken = 0 /\ order = 0 /\ logger = 0 /\ put = 0
          /\ stopper = 0 /\ held = 0
  /\ IF part = "client" THEN Cli!CInit
     ELSE /\ call = 0 /\ req = 0 /\ calls = 0 /\ line = 0 /\ mail = 0 /\ word = 0 /\ posted = 0
          /\ credit = 0 /\ net = 0 /\ ui = 0

rest == <<part, home, lvars, clientvars>>
PNext ==
  \/ part = "life" /\ Next /\ UNCHANGED <<rest, filesvars, textsvars>>
  \/ part = "files" /\ Files!Next /\ UNCHANGED <<rest, vars, textsvars>>
  \/ part = "texts" /\ Texts!RNext /\ UNCHANGED <<rest, vars, filesvars>>
  \/ part = "slots" /\ Sched!Next
     /\ UNCHANGED <<part, vars, filesvars, textsvars, lvars, clientvars>>
  \/ part = "lines" /\ LNext
     /\ UNCHANGED <<part, vars, filesvars, textsvars, home, clientvars>>
  \/ part = "client" /\ Cli!CNext
     /\ UNCHANGED <<part, vars, filesvars, textsvars, home, lvars>>

\* Threads that run go on, the brainstem, the journal's writer, the logger and
\* those of askai-cli among them; home's steps run, and its jobs' transfers
\* end.  What an operator, a user or a fault does is left to chance.  A
\* condition of each part is in one: a behaviour is of one part.
Alive(A)   == part = "life" /\ ~Over /\ A /\ UNCHANGED <<rest, filesvars, textsvars>>
Filed(A)   == part = "files" /\ A /\ UNCHANGED <<rest, vars, textsvars>>
Slotted(A) ==
  part = "slots" /\ A /\ UNCHANGED <<part, vars, filesvars, textsvars, lvars, clientvars>>
Logged(A)  ==
  part = "lines" /\ A /\ UNCHANGED <<part, vars, filesvars, textsvars, home, clientvars>>
Called(A)  ==
  part = "client" /\ A /\ UNCHANGED <<part, vars, filesvars, textsvars, home, lvars>>
Ends(j)    == Slotted(Sched!Has(home, j, "RUNNING") /\ Sched!Expire(j))
Fairness ==
  /\ WF_pvars(\/ Alive(BrainstemStep) \/ Filed(Files!Signal) \/ Slotted(Sched!StartStep)
              \/ Logged(LoggerStep) \/ Called(Cli!NetStep))
  /\ WF_pvars(\/ Alive(Notice) \/ Filed(Files!WriterStep) \/ Slotted(Sched!ShedStep)
              \/ Logged(stopper # "runs" /\ LogStop)
              \/ Called(Cli!NetFair /\ Cli!NetEnds))
  /\ WF_pvars(\/ Alive(ReloadDone) \/ Slotted(Sched!PreemptStep) \/ Logged(Emits(1))
              \/ Called(Cli!UiStep))
  /\ WF_pvars(Alive(Blocked) \/ Slotted(Sched!StopStep) \/ Logged(Emits(2)))
  /\ \A w \in Worker : WF_pvars(Alive(Work(w)) \/ Slotted(Sched!DrainStep))
  /\ \A t \in Thread : WF_pvars(\/ Alive(ThreadStep(t))
                                \/ t = HOME /\ Slotted(Sched!BreakerEvent)
                                \/ t = 1 /\ Ends("a1")
                                \/ t = 2 /\ Ends("a2"))
  /\ WF_pvars(Ends("b")) /\ SF_pvars(Called(Cli!TurnDue /\ Cli!Turn))

PSpec == PInit /\ [][PNext]_pvars /\ Fairness

-----------------------------------------------------------------------------
\* Every part keeps its types.
Types ==
  /\ part = "life" => TypeOK
  /\ part = "files" => Files!TypeOK
  /\ part = "texts" => Texts!RTypeOK
  /\ part = "slots" => Sched!TypeOK
  /\ part = "lines" => LTypeOK
  /\ part = "client" => Cli!CTypeOK

\* Loops, home and blockers stop in order, and an order that the brainstem
\* gives a thread is one that the thread takes (brainstem_stop(),
\* brainstem_wait(), brainstem_thread_order(), blocker_next()).
StopsInOrder == part = "life" => GoesInOrder /\ OrdersArrive

\* A relief is counted down by the loops that share it and trimmed by one, and
\* every SIGHUP that home takes is answered: no reload is lost to one under way
\* (brainstem_relieve(), askai_keep_relieved(), askai_home_reload(),
\* askai_reload_done()).
WorkCounts == part = "life" => ReliefCounts /\ LastReloadAnswered

\* What was acknowledged is found after a crash at any point, and nothing that
\* was not put is; committed reasoning is what the provider sent
\* (journal_checkpoint_write(), journal_thought_commit()).
Recovers ==
  /\ part = "files" => Files!Recovers
  /\ part = "texts" => Texts!Verified

\* A job can be ended though queue and cache are full, and the files never
\* outgrow what the next start accepts (journal_checkpoint_space()).
RoomKept == part = "files" => Files!RoomKept

\* The place that a queued job has been told is its place (home_unqueue()).
PlacesTrue == part = "slots" => Sched!PlacesTrue

\* The logger does not sleep on a line or on the order to stop, and what it
\* writes is what was put: a thread copies over no line that it has still to
\* write (log_emit(), log_pending()).
LinesTrue == part = "lines" => NoneSleptOn /\ BatchWhole

\* log_stop() is to "ask the logger to write what the rings hold, then stop"
\* (log.h): what is in a ring then is written, or dropped on an error.
StopWrites == part = "lines" => HeldWritten

\* The two threads of askai-cli count the same messages and chunks, none names
\* a call that is freed, a request that is cancelled hears of it, and one that
\* is paused goes on (cli_network_post(), cli_network_queue(),
\* cli_network_progress()).
ClientTrue ==
  part = "client" => /\ Cli!CountsTrue /\ Cli!NoneFreed
                     /\ Cli!CancelHeard /\ Cli!HoldsOn

\* The brainstem's stop, with no loop stuck, ends without force; the journal's
\* writer that was told to stop drains its queue and ends; home's drain ends
\* every job, and until then a principal's job that is queued leaves its queue,
\* however often the other's come back; the logger writes what is put while it
\* runs, and stops when it is told to; and askai-cli's network stops, and its
\* calls that were cancelled or have failed end (brainstem_stop(),
\* journal_stop(), home_drain(), home_start_step(), log_stop(),
\* cli_network_destroy()).
Pending == \/ part = "life" /\ bs.stopping /\ ~Over
           \/ part = "files" /\ stop /\ (writer.at # "gone" \/ queue # <<>>)
           \/ part = "slots" /\ ((home.draining /\ home.due # {}) \/ Sched!Queued(home, "b"))
           \/ part = "lines" /\ Undone
           \/ part = "client" /\ ((ui.stopping /\ ui.at # "freed") \/ Cli!Ending(1))
AllEnd == Pending ~> ~Pending
=============================================================================
