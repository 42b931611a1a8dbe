------------------------------- MODULE MCParts -------------------------------
(***************************************************************************)
(* The parts of a client loop that stand alone: its ready lists, timers    *)
(* and handles, its tasks, its children, the roster and its instances, and *)
(* the door by which its connections come.                                 *)
(* They share no state, so that a behaviour is of one of them, chosen at   *)
(* the start, and the variables of the others stay 0.                      *)
(***************************************************************************)
EXTENDS Naturals

VARIABLES part,
  task, load, placing, life, count,
  child, os, alive, ending,
  rec, posted, calls, cancels, entered, searched, named, withdrawn,
  inst, listed, busy, idle, gone, generation, call, reap,
  ready, batch, cursor, stage, ran, off,
  heap, slot, due, owed,
  slots, used, vacant, made, given,
  home, lane, srv, conn, client, bodies, app, refs

Pool  == INSTANCE TaskPool WITH Lane <- {1, 2}, Task <- {1, 2}, Slices <- 2, TASK_BACKLOG <- 1
Kids  == INSTANCE Child WITH ChildId <- {1, 2}, CHILD_MAX <- 1, Graceful <- {1}
Names == INSTANCE Roster WITH Cells <- 2, RosterLoop <- {1, 2}, CallKey <- {"k", "m"},
                              MaxCalls <- 3, MaxCancels <- 3
Table == INSTANCE Instances WITH Inst <- {1, 2, 3}, User <- {0, 1, 2}, Call <- {"c", "d"},
                                 INSTANCE_MAX <- 1, MaxFlushes <- 1
Steps == INSTANCE LoopSteps WITH StepId <- {1, 2, 3}
Heap  == INSTANCE TimerHeap WITH Timers <- 5, Arity <- 2, Now <- 1, Never <- 2
Hands == INSTANCE Handles WITH SlotMax <- 2, Gens <- 4, HKind <- {"a", "b"}, MaxMade <- 4
\* The door twice: connections of two addresses on a loop that may be asked for
\* both, and policies that come faster than a loop takes them.
Doors == INSTANCE Door WITH Lane <- {1}, Conn <- {1, 2}, Address <- {1, 2}, Cap <- 1,
                            FdBudget <- 1, Bodies <- 2, Share <- 1, Policies <- 1, Asks <- 2
Rules == INSTANCE Door WITH Lane <- {1}, Conn <- {1}, Address <- {1}, Cap <- 1,
                            FdBudget <- 1, Bodies <- 1, Share <- 1, Policies <- 3, Asks <- 1

poolvars  == <<task, load, placing, life, count>>
kidsvars  == <<child, os, alive, ending>>
namesvars == <<rec, posted, calls, cancels, entered, searched, named, withdrawn>>
tablevars == <<inst, listed, busy, idle, gone, generation, call, reap>>
stepsvars == <<ready, batch, cursor, stage, ran, off>>
heapvars  == <<heap, slot, due, owed>>
handsvars == <<slots, used, vacant, made, given>>
doorvars  == <<home, lane, srv, conn, client, bodies, app, refs>>
vars == <<part, poolvars, kidsvars, namesvars, tablevars, stepsvars, heapvars, handsvars,
          doorvars>>

Init ==
  /\ part \in {"pool", "kids", "names", "table", "steps", "heap", "hands", "door", "rules"}
  /\ IF part = "pool" THEN Pool!TInit
     ELSE task = 0 /\ load = 0 /\ placing = 0 /\ life = 0 /\ count = 0
  /\ IF part = "kids" THEN Kids!CInit ELSE child = 0 /\ os = 0 /\ alive = 0 /\ ending = 0
  /\ IF part = "names" THEN Names!RInit
     ELSE /\ rec = 0 /\ posted = 0 /\ calls = 0 /\ cancels = 0 /\ entered = 0 /\ searched = 0
          /\ named = 0 /\ withdrawn = 0
  /\ IF part = "table" THEN Table!IInit
     ELSE /\ inst = 0 /\ listed = 0 /\ busy = 0 /\ idle = 0 /\ gone = 0 /\ generation = 0
          /\ call = 0 /\ reap = 0
  /\ IF part = "steps" THEN Steps!SInit
     ELSE ready = 0 /\ batch = 0 /\ cursor = 0 /\ stage = 0 /\ ran = 0 /\ off = 0
  /\ IF part = "heap" THEN Heap!HInit ELSE heap = 0 /\ slot = 0 /\ due = 0 /\ owed = 0
  /\ IF part = "hands" THEN Hands!HandInit
     ELSE slots = 0 /\ used = 0 /\ vacant = 0 /\ made = 0 /\ given = 0
  /\ IF part = "door" THEN Doors!DInit ELSE IF part = "rules" THEN Rules!DInit
     ELSE /\ home = 0 /\ lane = 0 /\ srv = 0 /\ conn = 0 /\ client = 0 /\ bodies = 0
          /\ app = 0 /\ refs = 0

PoolStep  == /\ part = "pool" /\ Pool!TNext
             /\ UNCHANGED <<part, kidsvars, namesvars, tablevars, stepsvars, heapvars,
                            handsvars, doorvars>>
KidsStep  == /\ part = "kids" /\ Kids!CNext
             /\ UNCHANGED <<part, poolvars, namesvars, tablevars, stepsvars, heapvars,
                            handsvars, doorvars>>
NamesStep == /\ part = "names" /\ Names!RNext
             /\ UNCHANGED <<part, poolvars, kidsvars, tablevars, stepsvars, heapvars,
                            handsvars, doorvars>>
TableStep == /\ part = "table" /\ Table!INext
             /\ UNCHANGED <<part, poolvars, kidsvars, namesvars, stepsvars, heapvars,
                            handsvars, doorvars>>
StepsStep == /\ part = "steps" /\ Steps!SNext
             /\ UNCHANGED <<part, poolvars, kidsvars, namesvars, tablevars, heapvars,
                            handsvars, doorvars>>
HeapStep  == /\ part = "heap" /\ Heap!HNext
             /\ UNCHANGED <<part, poolvars, kidsvars, namesvars, tablevars, stepsvars,
                            handsvars, doorvars>>
HandsStep == /\ part = "hands" /\ Hands!HandNext
             /\ UNCHANGED <<part, poolvars, kidsvars, namesvars, tablevars, stepsvars,
                            heapvars, doorvars>>
DoorStep  == /\ \/ part = "door" /\ Doors!DNext
                \/ part = "rules" /\ Rules!DNext
             /\ UNCHANGED <<part, poolvars, kidsvars, namesvars, tablevars, stepsvars,
                            heapvars, handsvars>>

Next == PoolStep \/ KidsStep \/ NamesStep \/ TableStep \/ StepsStep \/ HeapStep \/ HandsStep
        \/ DoorStep

\* Threads go on, loops turn once one of them stops, messages arrive and a
\* detached loop's MCP lets its tasks go.
PoolFair ==
  LET stopping == \E l \in {1, 2} : life[l] # "new" /\ life[l] # "runs"
  IN  /\ \A l \in {1, 2} :
           /\ WF_poolvars(part = "pool" /\ Pool!Moves(l))
           /\ WF_poolvars(part = "pool" /\ Pool!Ends(l))
           /\ WF_poolvars(part = "pool" /\ Pool!Attach(l))
           /\ WF_poolvars(part = "pool" /\ stopping /\ Pool!TExit(l))
      /\ \A t \in {1, 2} :
           /\ WF_poolvars(part = "pool" /\ Pool!Runs(t))
           /\ WF_poolvars(part = "pool" /\ life[task[t].owner] = "detached" /\ Pool!TDrop(t))

\* The loop turns, and SIGKILL kills.
KidsFair ==
  \A c \in {1, 2} :
    /\ WF_kidsvars(part = "kids" /\ Kids!CLoop(c))
    /\ WF_kidsvars(part = "kids" /\ Kids!ChildLate(c))
    /\ WF_kidsvars(part = "kids" /\ Kids!ChildStep(c))
    /\ WF_kidsvars(part = "kids" /\ Kids!Spawn(c))
    /\ WF_kidsvars(part = "kids" /\ Kids!DestroyAll(c))
    /\ WF_kidsvars(part = "kids" /\ os[c].signal = "kill" /\ Kids!LeaderExits(c))

\* Messages are posted and arrive.
NamesFair ==
  /\ \A l \in {1, 2} : WF_namesvars(part = "names" /\ Names!PostHit(l))
  /\ \A c \in {1, 2} : WF_namesvars(part = "names" /\ Names!Withdraw(c))

\* Loops turn.
TurnsFair == /\ WF_tablevars(part = "table" /\ Table!ReapStep)
             /\ WF_stepsvars(part = "steps" /\ Steps!STurn)

\* Messages arrive, steps run, a drain's deadline passes; every turn of the loop
\* ends by freeing what it reaps, whatever it began meanwhile.
DoorFair ==
  /\ WF_doorvars(part = "door" /\ Doors!Deadline(1))
  /\ WF_doorvars(part = "door" /\ Doors!DrainStep(1))
  /\ WF_doorvars(part = "door" /\ Doors!HeldStep(1))
  /\ \A c \in {1, 2} : /\ SF_doorvars(part = "door" /\ Doors!Release(1, c))
                       /\ WF_doorvars(part = "door" /\ Doors!DBack(c))

Spec == Init /\ [][Next]_vars /\ PoolFair /\ KidsFair /\ NamesFair /\ TurnsFair /\ DoorFair

-----------------------------------------------------------------------------
\* Every part keeps its types.
TypeOK ==
  /\ part = "pool" => Pool!TTypeOK
  /\ part = "kids" => Kids!CTypeOK
  /\ part = "names" => Names!RTypeOK
  /\ part = "table" => Table!ITypeOK
  /\ part = "steps" => Steps!STypeOK
  /\ part = "heap" => Heap!HTypeOK
  /\ part = "hands" => Hands!HandTypeOK
  /\ part = "door" => Doors!DTypeOK
  /\ part = "rules" => Rules!DTypeOK

\* Tasks, records of the roster, instances and policies live exactly as long
\* as a thread, a message, a table or a call has them (task_put(),
\* roster_call_put(), instance_table_put(), httpd_lane_policy()).
Lives ==
  /\ part = "pool" => Pool!TaskRefs
  /\ part = "names" => Names!RosterRefs
  /\ part = "table" => Table!UsedLives
  /\ part = "rules" => Rules!PoliciesTrue

\* What loops count together is right in every state: the lanes' loads and
\* the pool's counts (task_lane_place(), task_pool_detach()), the children
\* not reaped (child_create(), child_reap()), and the connections and the bytes
\* of bodies (httpd_home_place(), httpd_conn_hold()).
CountsTrue ==
  /\ part = "pool" => Pool!LoadsTrue /\ Pool!CountsBalance
  /\ part = "kids" => Kids!AliveTrue
  /\ part = "door" => Doors!DoorCounts /\ Doors!BudgetsTrue

\* No name reaches another than the one it was given to: not a process group
\* reaped (child_signal()), not a call that no client named
\* (mcp_on_withdraw()), not another user's instance (instance_table_get()),
\* not an object that has a slot after another (loop_lookup()), not a stream
\* whose connection has closed (httpd_conn_cancel()).
OursOnly ==
  /\ part = "kids" => Kids!PidOurs /\ Kids!ToldAtEnd
  /\ part = "names" => Names!OnlyNamed
  /\ part = "table" => Table!SharedByOne
  /\ part = "hands" => Hands!OwnOnly /\ Hands!VacantTrue
  /\ part = "door" => Doors!StreamsServed

\* Steps and timers are queued once, in their order, whatever readies, sets or
\* stops them (loop_ready(), loop_run(), loop_heap_fix(), loop_fire()), and the
\* door's messages are posted once (httpd_home_evict(), httpd_home_policy()).
QueuesTrue ==
  /\ part = "steps" => Steps!QueuedOnce
  /\ part = "heap" => Heap!HeapTrue /\ Heap!OwedFirst
  /\ part = "door" => Doors!PostedOnce
  /\ part = "rules" => Rules!PostedOnce

\* What has to end, of the one numbered i of each part: a task on a lane, a
\* child, a call that a client named, an instance none can get, a step ready, a
\* server that drains and a connection that has closed.
Under(i) ==
  \/ part = "pool" /\ task[i].refs > 0
  \/ part = "kids" /\ child[i].at = "there" /\ child[i].told = 0
  \/ part = "names" /\ i \in named /\ \E x \in calls : x.who = i /\ ~x.replies
  \/ part = "table" /\ i \in Table!ToSet(gone)
  \/ part = "steps" /\ stage # "exit" /\ Steps!ReadyStep(i) /\ i \notin off
  \/ part = "door" /\ \/ conn[i].at \in {"closed", "back"}
                      \/ i = 1 /\ srv[1].at = "drains"

\* It ends, whatever others do: the task goes back or is abandoned, the child
\* is told of or freed (child_step(), child_destroy_all()), the call is ended
\* or replies (mcp_on_withdraw()), the instance is destroyed
\* (instance_table_step()), the step runs or is stopped (loop_run()), the loop
\* ends and the connection goes back (httpd_drain_step(), httpd_conn_back()).
AllEnd == \A i \in {1, 2} : Under(i) ~> ~Under(i)
=============================================================================
