----------------------------- MODULE Brainstem -----------------------------
(***************************************************************************)
(* The process's life (src/src/brainstem.c, and what src/src/askai.c has   *)
(* it run): the threads of home and of the client loops, which report      *)
(* their states and take orders, their start, their stop in order, the     *)
(* relief of memory pressure that they share, and a reload of the          *)
(* configuration; with the blocker threads that both use.                  *)
(*                                                                         *)
(* Thread 0 is home's.  A loop's inbox is a set: at most one message of    *)
(* each kind is on its way.  What a loop does besides is left out; it      *)
(* exits at any time once it was told to and its work is done.             *)
(***************************************************************************)
EXTENDS Blockers

CONSTANTS Loops,     \* client loops
          Budget     \* bounds: records of SIGHUPs, reliefs and errors to come

ASSUME LoopsAssumption == Loops \in Nat

VARIABLES
  bs,        \* the brainstem's thread: where it is, which thread it starts
  state,     \* each thread's, as it reports
  flags,     \* its THREAD_CREATED and THREAD_DRAINED
  orders,    \* its word of orders
  inbox,     \* its loop's messages
  app,       \* what the loop knows: orders obeyed, its share of a relief
  ask,       \* the threads that a relief has yet to look at
  relieving,
  reload,    \* struct askai_reload, and the SIGHUPs that home is ordered to
             \* reload at, counted: the last, and the last whose configuration
             \* was read, applied, refused (it is wrong, or the blockers did
             \* not read it), and not taken as the server is not open ("shut")
  left       \* what is left of the budget

vars == <<blk, hand, bs, state, flags, orders, inbox, app, ask, relieving, reload, left>>

HOME    == 0
Client  == 1 .. Loops
Thread  == {HOME} \cup Client
Orders  == {"DRAIN", "ALONE", "OPEN", "RELIEVE", "RELOAD"}
Message == {"order", "walk", "reload"}

NewApp == [drain |-> 0, alone |-> FALSE, open |-> FALSE, exit |-> FALSE, taken |-> FALSE,
           share |-> "none"]

TypeOK ==
  /\ blk.queue \in Seq({"walk", "reload"} \X Thread) /\ Len(blk.queue) <= QUEUE
  /\ \A w \in Worker : hand[w].at \in {"lock", "asleep", "work", "cancelled", "gone"}
  /\ bs.pc \in {"start", "clients", "home", "alone", "blockers", "fini", "gone", "forced"}
  /\ bs.i \in 0 .. Loops + 1 /\ {bs.stopping, bs.late} \subseteq BOOLEAN
  /\ state \in [Thread -> {"JOINED", "STARTING", "RUNNING", "EXITED"}]
  /\ flags \in [Thread -> SUBSET {"CREATED", "DRAINED", "FREED"}]
  /\ orders \in [Thread -> SUBSET Orders] /\ inbox \in [Thread -> SUBSET Message]
  /\ app \in [Thread -> [drain : 0 .. 1, alone : BOOLEAN, open : BOOLEAN, exit : BOOLEAN,
                         taken : BOOLEAN, share : {"none", "share", "trim", "walking"}]]
  /\ ask \subseteq Thread /\ relieving \in 0 .. Loops + 2

Init ==
  /\ BlockersInit
  /\ bs = [pc |-> "start", i |-> 0, stopping |-> FALSE, late |-> FALSE]
  /\ state = [t \in Thread |-> "JOINED"] /\ flags = [t \in Thread |-> {}]
  /\ orders = [t \in Thread |-> {}] /\ inbox = [t \in Thread |-> {}]
  /\ app = [t \in Thread |-> NewApp] /\ ask = {} /\ relieving = 0
  /\ reload = [busy |-> FALSE, again |-> FALSE, error |-> FALSE, wrong |-> FALSE, last |-> 0,
               read |-> 0, applied |-> 0, refused |-> 0, shut |-> 0]
  /\ left \in Budget

Exited(T) == {t \in T : state[t] = "EXITED"}
Running == {t \in Thread : state[t] = "RUNNING"}

-----------------------------------------------------------------------------
(* The brainstem.                                                          *)

\* brainstem_thread_order() to each of T: the message is posted to those whose
\* word was empty.
Ordered(T, bit) ==
  /\ orders' = [t \in Thread |-> IF t \in T THEN orders[t] \cup {bit} ELSE orders[t]]
  /\ inbox' = [t \in Thread |-> IF t \in T /\ orders[t] = {} THEN inbox[t] \cup {"order"}
                                ELSE inbox[t]]

\* brainstem_drain(): each that runs, once.
Drained ==
  LET T == {t \in Running : "DRAINED" \notin flags[t]}
  IN  Ordered(T, "DRAIN")
        /\ flags' = [t \in Thread |-> IF t \in T THEN flags[t] \cup {"DRAINED"} ELSE flags[t]]

\* The brainstem is in brainstem_mind(), between two looks at its signals.
Minds ==
  /\ bs.pc \in {"clients", "alone", "blockers"} \/ (bs.pc = "start" /\ state[bs.i] # "JOINED")
  /\ ask = {}

\* brainstem_thread_start() creates the thread of the number bs.i, or cannot:
\* then the others are stopped.
StartThread ==
  /\ bs.pc = "start" /\ bs.i <= Loops /\ state[bs.i] = "JOINED"
  /\ \/ /\ state' = [state EXCEPT ![bs.i] = "STARTING"]
        /\ flags' = [flags EXCEPT ![bs.i] = {"CREATED"}]
        /\ UNCHANGED <<bs, orders, inbox, left>>
     \/ /\ left.errors > 0 /\ left' = [left EXCEPT !.errors = @ - 1]
        /\ bs' = [bs EXCEPT !.pc = "clients", !.stopping = TRUE]
        /\ Drained /\ UNCHANGED state
  /\ UNCHANGED <<blk, hand, app, ask, relieving, reload>>

\* The thread has reported: the next is started, or if it or the brainstem
\* stops, all are, or all run and home opens its door.
Started ==
  /\ bs.pc = "start" /\ ask = {} /\ state[bs.i] \in {"RUNNING", "EXITED"}
  /\ IF state[bs.i] = "RUNNING" /\ ~bs.stopping /\ bs.i < Loops
     THEN bs' = [bs EXCEPT !.i = @ + 1] /\ UNCHANGED <<flags, orders, inbox>>
     ELSE /\ bs' = [bs EXCEPT !.pc = "clients", !.stopping = @ \/ state[bs.i] = "EXITED"]
          /\ IF state[bs.i] = "RUNNING" /\ ~bs.stopping
             THEN Ordered({HOME}, "OPEN") /\ UNCHANGED flags
             ELSE Drained
  /\ UNCHANGED <<blk, hand, state, app, ask, relieving, reload, left>>

\* A signal to stop, or a thread that exited on its own: brainstem_stop().
StopSignal ==
  /\ Minds /\ ~bs.stopping
  /\ bs' = [bs EXCEPT !.stopping = TRUE] /\ Drained
  /\ UNCHANGED <<blk, hand, state, app, ask, relieving, reload, left>>

Notice == StopSignal /\ Exited(Thread) # {}

\* SIGHUP: the configuration has changed.  brainstem_reload() ignores one
\* that comes before home runs or once all stop.
Hup ==
  /\ Minds /\ ~bs.stopping /\ state[HOME] = "RUNNING"
  /\ left.hups > 0 /\ left' = [left EXCEPT !.hups = @ - 1]
  /\ reload' = [reload EXCEPT !.last = @ + 1]
  /\ Ordered({HOME}, "RELOAD")
  /\ UNCHANGED <<blk, hand, bs, state, flags, app, ask, relieving>>

\* A second signal, a loop that does not start, is stuck in a turn, or does
\* not end within the grace period: the process ends at once.
Forces ==
  /\ \/ Minds /\ bs.stopping
     \/ bs.pc = "start" /\ ask = {} /\ state[bs.i] = "STARTING"
  /\ bs' = [bs EXCEPT !.pc = "forced"]
  /\ UNCHANGED <<blk, hand, state, flags, orders, inbox, app, ask, relieving, reload, left>>

\* A sample finds memory short: brainstem_relieve() counts the loops that run.
Relieve ==
  /\ Minds /\ left.reliefs > 0 /\ left' = [left EXCEPT !.reliefs = @ - 1]
  /\ \A t \in Thread : state[t] # "STARTING"
  /\ Running # {} /\ relieving = 0
  /\ relieving' = Cardinality(Running) + 1 /\ ask' = Thread
  /\ UNCHANGED <<blk, hand, bs, state, flags, orders, inbox, app, reload>>

\* Then it orders them, each if it runs still.
RelieveOrder ==
  /\ \E t \in ask :
       /\ \A u \in ask : t <= u
       /\ ask' = ask \ {t}
       /\ IF state[t] = "RUNNING" THEN Ordered({t}, "RELIEVE") ELSE UNCHANGED <<orders, inbox>>
  /\ UNCHANGED <<blk, hand, bs, state, flags, app, relieving, reload, left>>

\* Threads that exited are joined; one that did so on its own starts the stop.
Joined(T) ==
  /\ state' = [t \in Thread |-> IF t \in Exited(T) THEN "JOINED" ELSE state[t]]
  /\ IF Exited(T) # {} /\ ~bs.stopping THEN Drained ELSE UNCHANGED <<flags, orders, inbox>>

\* brainstem_wait(): the client loops first.
ClientsRun ==
  /\ bs.pc = "clients" /\ ask = {} /\ Joined(Client)
  /\ bs' = [bs EXCEPT !.pc = IF Client \cap Running = {} THEN "home" ELSE @,
                      !.stopping = @ \/ Exited(Client) # {}]
  /\ UNCHANGED <<blk, hand, app, ask, relieving, reload, left>>

\* Then home, told that it is alone.
HomeAlone ==
  /\ bs.pc = "home" /\ bs' = [bs EXCEPT !.pc = "alone"]
  /\ Ordered({HOME} \cap Running, "ALONE")
  /\ UNCHANGED <<blk, hand, state, flags, app, ask, relieving, reload, left>>

\* Home has exited: it and what is left are joined, and the blockers stopped.
StopBlockers ==
  /\ bs.pc = "alone" /\ ask = {} /\ state[HOME] # "RUNNING"
  /\ bs' = [bs EXCEPT !.pc = "blockers", !.stopping = @ \/ Exited(Thread) # {}]
  /\ Joined(Thread) /\ Stopped
  /\ UNCHANGED <<app, ask, relieving, reload, left>>

\* The blockers are done, and the loops are freed; or one is busy for
\* JOIN_MS, and all is left to the process's end.
BlockersDone ==
  /\ bs.pc = "blockers" /\ ask = {}
  /\ bs' = IF Done THEN [bs EXCEPT !.pc = "fini", !.i = 0]
           ELSE [bs EXCEPT !.pc = "gone", !.late = TRUE]
  /\ UNCHANGED <<blk, hand, state, flags, orders, inbox, app, ask, relieving, reload, left>>

\* What a reload's message does once the loop has exited: nothing is applied.
Dropped(t) ==
  reload' = IF "reload" \in inbox[t] THEN [reload EXCEPT !.busy = FALSE, !.again = FALSE]
            ELSE reload

\* loop_fini() of each loop in turn, home's first: what its inbox holds is
\* handled, and an order or the walk of a relief does nothing any more.
LoopFini ==
  /\ bs.pc = "fini"
  /\ IF bs.i > Loops THEN bs' = [bs EXCEPT !.pc = "gone"] /\ UNCHANGED <<flags, inbox, reload>>
     ELSE /\ bs' = [bs EXCEPT !.i = @ + 1]
          /\ flags' = [flags EXCEPT ![bs.i] = @ \cup {"FREED"}]
          /\ inbox' = [inbox EXCEPT ![bs.i] = {}]
          /\ Dropped(bs.i)
  /\ UNCHANGED <<blk, hand, state, orders, app, ask, relieving, left>>

-----------------------------------------------------------------------------
(* A loop's thread.                                                        *)

\* The loop and its app start, and the thread reports it; or it cannot.
ThreadRuns(t) ==
  /\ state[t] = "STARTING"
  /\ \/ state' = [state EXCEPT ![t] = "RUNNING"] /\ UNCHANGED left
     \/ /\ left.errors > 0 /\ left' = [left EXCEPT !.errors = @ - 1]
        /\ state' = [state EXCEPT ![t] = "EXITED"]
  /\ UNCHANGED <<blk, hand, bs, flags, orders, inbox, app, ask, relieving, reload>>

\* The loop takes the order's message.
TakeOrder(t) ==
  /\ state[t] = "RUNNING" /\ ~app[t].taken /\ "order" \in inbox[t]
  /\ inbox' = [inbox EXCEPT ![t] = @ \ {"order"}]
  /\ app' = [app EXCEPT ![t].taken = TRUE]
  /\ UNCHANGED <<blk, hand, bs, state, flags, orders, ask, relieving, reload, left>>

\* The reload r, refused by the blockers; an order yet to be obeyed may fare
\* better.
Unread(r) == [r EXCEPT !.refused = IF "RELOAD" \in orders[HOME]' THEN @ ELSE r.last]

\* A mistake the checks would catch: a reload under way is taken for this one.
ReloadOnce(r) ==
  IF r.busy THEN reload' = r /\ UNCHANGED blk
  ELSE IF Takes THEN reload' = [r EXCEPT !.busy = TRUE] /\ blk' = Submitted(<<"reload", HOME>>)
  ELSE reload' = Unread(r) /\ UNCHANGED blk

\* askai_home_reload(): on a blocker, one at a time, or not at all.
HomeReload(r) ==
  IF r.busy THEN reload' = [r EXCEPT !.again = TRUE] /\ UNCHANGED blk
  ELSE IF Takes THEN reload' = [r EXCEPT !.busy = TRUE] /\ blk' = Submitted(<<"reload", HOME>>)
  ELSE reload' = Unread(r) /\ UNCHANGED blk

\* What an app knows of the orders given.
Obeyed(a, given) ==
  [a EXCEPT !.taken = FALSE,
            !.share = IF "RELIEVE" \in given THEN "share" ELSE @,
            !.drain = @ + (IF "DRAIN" \in given THEN 1 ELSE 0),
            !.alone = @ \/ "ALONE" \in given,
            !.open  = @ \/ "OPEN" \in given]

\* brainstem_thread_obey(): every order given so far, if the loop has not
\* exited.
Obey(t) ==
  /\ state[t] = "RUNNING" /\ app[t].taken
  /\ orders' = [orders EXCEPT ![t] = {}]
  /\ IF app[t].exit THEN app' = [app EXCEPT ![t].taken = FALSE] /\ UNCHANGED <<blk, reload>>
     ELSE /\ app' = [app EXCEPT ![t] = Obeyed(@, orders[t])]
          /\ IF "RELOAD" \in orders[t] THEN HomeReload(reload) ELSE UNCHANGED <<blk, reload>>
  /\ UNCHANGED <<hand, bs, state, flags, inbox, ask, relieving, left>>

\* askai_keep_relieved(): the last loop to end its share trims for all.
Relieved(t) ==
  /\ state[t] = "RUNNING" /\ ~app[t].taken /\ app[t].share = "share"
  /\ relieving' = relieving - 1
  /\ app' = [app EXCEPT ![t].share = IF relieving = 2 THEN "trim" ELSE "none"]
  /\ UNCHANGED <<blk, hand, bs, state, flags, orders, inbox, ask, reload, left>>

\* askai_keep_trim(), at its end: the walk goes to a blocker, or if none takes
\* it, or memory is not short any more, the relief is over.
Trim(t) ==
  /\ state[t] = "RUNNING" /\ ~app[t].taken /\ app[t].share = "trim"
  /\ \/ /\ Takes /\ blk' = Submitted(<<"walk", t>>)
        /\ app' = [app EXCEPT ![t].share = "walking"] /\ UNCHANGED relieving
     \/ app' = [app EXCEPT ![t].share = "none"] /\ relieving' = 0 /\ UNCHANGED blk
  /\ UNCHANGED <<hand, bs, state, flags, orders, inbox, ask, reload, left>>

\* askai_walk_done()
WalkDone(t) ==
  /\ state[t] = "RUNNING" /\ ~app[t].taken /\ "walk" \in inbox[t]
  /\ inbox' = [inbox EXCEPT ![t] = @ \ {"walk"}]
  /\ IF app[t].exit THEN UNCHANGED <<app, relieving>>
     ELSE app' = [app EXCEPT ![t].share = "none"] /\ relieving' = 0
  /\ UNCHANGED <<blk, hand, bs, state, flags, orders, ask, reload, left>>

\* HOME_OPEN: home's door is open once it is told that every loop runs, until
\* it drains.
DoorOpen == app[HOME].open /\ app[HOME].drain = 0

\* askai_reload_apply(): what was read applies, unless it is wrong or the door
\* is not open.
ReloadApplied(r) ==
  IF r.wrong THEN [r EXCEPT !.refused = r.read]
  ELSE IF DoorOpen THEN [r EXCEPT !.applied = r.read]
  ELSE [r EXCEPT !.shut = r.read]

\* askai_reload_done(): a reload that was cancelled is over, as is one whose
\* loop exits; else it is applied, and a SIGHUP meanwhile has another follow.
ReloadDone ==
  /\ state[HOME] = "RUNNING" /\ ~app[HOME].taken /\ "reload" \in inbox[HOME]
  /\ inbox' = [inbox EXCEPT ![HOME] = @ \ {"reload"}]
  /\ UNCHANGED <<hand, bs, state, flags, orders, app, ask, relieving, left>>
  /\ LET done == [reload EXCEPT !.busy = FALSE, !.again = FALSE]
     IN  IF reload.error THEN reload' = Unread(done) /\ UNCHANGED blk
         ELSE IF app[HOME].exit THEN reload' = done /\ UNCHANGED blk
         ELSE IF reload.again THEN HomeReload(ReloadApplied(done))
         ELSE reload' = ReloadApplied(done) /\ UNCHANGED blk

\* Drained, the loop has its work end and exits, home once it is alone; an
\* error of its poll ends it at any time.
LoopExits(t) ==
  /\ state[t] = "RUNNING" /\ ~app[t].taken /\ ~app[t].exit
  /\ \/ app[t].drain > 0 /\ (t = HOME => app[t].alone) /\ UNCHANGED left
     \/ left.errors > 0 /\ left' = [left EXCEPT !.errors = @ - 1]
  /\ app' = [app EXCEPT ![t].exit = TRUE]
  /\ UNCHANGED <<blk, hand, bs, state, flags, orders, inbox, ask, relieving, reload>>

\* The app is stopped, its share of a relief with it, and the thread reports.
ThreadEnds(t) ==
  /\ state[t] = "RUNNING" /\ ~app[t].taken /\ app[t].exit
  /\ state' = [state EXCEPT ![t] = "EXITED"]
  /\ app' = [app EXCEPT ![t].share = "none"]
  /\ UNCHANGED <<blk, hand, bs, flags, orders, inbox, ask, relieving, reload, left>>

\* askai_reload_work(): the blocker reads the last configuration, which may be
\* wrong; or it cancels the job.
Read(r, worked) ==
  IF worked THEN {[r EXCEPT !.read = r.last, !.wrong = x, !.error = FALSE] : x \in BOOLEAN}
  ELSE {[r EXCEPT !.error = TRUE]}

\* A blocker runs its job or cancels it, and posts it to its loop.
Work(w) ==
  /\ hand[w].at \in {"work", "cancelled"} /\ hand' = Freed(w)
  /\ inbox' = [inbox EXCEPT ![hand[w].job[2]] = @ \cup {hand[w].job[1]}]
  /\ reload' \in IF hand[w].job[1] = "walk" THEN {reload} ELSE Read(reload, hand[w].at = "work")
  /\ UNCHANGED <<blk, bs, state, flags, orders, app, ask, relieving, left>>

Blocked == /\ \/ Signal
              \/ \E w \in Worker : NextJob(w)
           /\ UNCHANGED <<bs, state, flags, orders, inbox, app, ask, relieving, reload, left>>

ThreadStep(t) == \/ ThreadRuns(t) \/ TakeOrder(t) \/ Obey(t) \/ Relieved(t) \/ Trim(t)
                 \/ WalkDone(t) \/ LoopExits(t) \/ ThreadEnds(t)

BrainstemStep == StartThread \/ Started \/ RelieveOrder \/ ClientsRun \/ HomeAlone
                   \/ StopBlockers \/ BlockersDone \/ LoopFini

\* The process has ended.
Over == bs.pc \in {"gone", "forced"}

Next ==
  /\ ~Over
  /\ \/ BrainstemStep \/ StopSignal \/ Hup \/ Forces \/ Relieve
     \/ ReloadDone \/ Blocked
     \/ \E t \in Thread : ThreadStep(t)
     \/ \E w \in Worker : Work(w)

-----------------------------------------------------------------------------

\* The stop goes in order: every loop that runs has its one order to drain,
\* home is alone only when no client loop runs, the blockers end with nothing
\* queued, and nobody posts to a loop that was freed.
GoesInOrder ==
  /\ bs.stopping /\ bs.pc \notin {"start", "forced"} =>
       \A t \in Running : "DRAIN" \in orders[t] \/ app[t].drain = 1 \/ app[t].exit
  /\ \A t \in Thread : "DRAIN" \in orders[t] => app[t].drain = 0
  /\ app[HOME].alone \/ "ALONE" \in orders[HOME] => Client \cap Running = {}
  /\ \A t \in Thread : "FREED" \in flags[t] => inbox[t] = {}
  /\ Done => blk.queue = <<>>

\* An order given is an order on its way, until the loop ends: the message is
\* posted when the word was empty and only then.
OrdersArrive ==
  \A t \in Running : orders[t] # {} <=> ("order" \in inbox[t] \/ app[t].taken)

\* The count of a relief is that of the shares to come and of the trim, so
\* that one loop, the last, trims, once ("one trim at most is under way",
\* brainstem.h), and while every loop runs a relief always ends.
ReliefCounts ==
  LET shares == {t \in Thread : \/ t \in ask /\ state[t] = "RUNNING"
                                \/ "RELIEVE" \in orders[t] \/ app[t].share = "share"}
      trims == {t \in Thread : app[t].share \in {"trim", "walking"}}
      n == Cardinality(shares)
  IN  /\ Cardinality(trims) <= 1
      /\ trims # {} => relieving = 1 /\ shares = {}
      /\ n > 0 => relieving >= n + 1
      /\ ~bs.stopping /\ Exited(Thread) = {} /\ (\A t \in Thread : ~app[t].exit) =>
           relieving = IF shares = {} THEN Cardinality(trims) ELSE n + 1

\* No SIGHUP is lost: with no reload ordered or under way, the configuration of
\* the last one applies, or was refused, or was not taken as the door was not
\* open.
LastReloadAnswered ==
  ~reload.busy /\ HOME \in Running /\ ~app[HOME].exit /\ "RELOAD" \notin orders[HOME] =>
    reload.last \in {reload.applied, reload.refused, reload.shut}
=============================================================================
