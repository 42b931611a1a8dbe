------------------------------ MODULE TaskPool ------------------------------
(***************************************************************************)
(* Tasks (src/src/task.c): CPU work cut in slices, that its owner submits  *)
(* to the lighter of two client loops, that moves between loops while one  *)
(* holds too many, and that goes back to its owner by a message once it is *)
(* done or found cancelled.  Owner and runner each hold a reference, and   *)
(* either may let go first as the loops stop.                              *)
(*                                                                         *)
(* A loop's load is a word that placers on other threads add to before     *)
(* they post: between the choice of a lane, that addition and the message  *)
(* the other threads go on.                                                *)
(***************************************************************************)
EXTENDS Naturals, FiniteSets

CONSTANTS Lane,          \* the client loops
          Task, Slices,  \* tasks, and the slices that one asks for at most
          TASK_BACKLOG

VARIABLES
  task,    \* struct task of each: where it is and on which loop's lane, its
           \* owner and whether the owner has it, cancelled, references
  load,    \* each lane's
  placing, \* the task that a loop is placing, and where
  life,    \* each loop's
  count    \* struct task_pool_metrics

tvars == <<task, load, placing, life, count>>

\* UINT64_MAX / 2
HALF == 1000

NoTask   == [at |-> "none", lane |-> CHOOSE l \in Lane : TRUE,
             owner |-> CHOOSE l \in Lane : TRUE, owned |-> FALSE, cancel |-> FALSE,
             refs |-> 0, left |-> 0]
NotPlacing == [stage |-> "none", task |-> CHOOSE t \in Task : TRUE,
               to |-> CHOOSE l \in Lane : TRUE]

TTypeOK ==
  /\ task \in [Task -> [at : {"none", "placed", "held", "sent", "back", "abandoned", "freed"},
                        lane : Lane,
                        owner : Lane, owned : BOOLEAN, cancel : BOOLEAN, refs : 0 .. 2,
                        left : 0 .. Slices]]
  /\ load \in [Lane -> Nat]
  /\ placing \in [Lane -> [stage : {"none", "add", "post"}, task : Task, to : Lane]]
  /\ life \in [Lane -> {"new", "runs", "exit", "detached", "stopped", "freed"}]
  /\ count \in [{"submitted", "done", "cancelled", "abandoned"} -> 0 .. Cardinality(Task)]

TInit ==
  /\ task = [t \in Task |-> NoTask] /\ load = [l \in Lane |-> 0]
  /\ placing = [l \in Lane |-> NotPlacing] /\ life = [l \in Lane |-> "new"]
  /\ count = [k \in {"submitted", "done", "cancelled", "abandoned"} |-> 0]

\* The loop's thread runs handlers and steps, and is not in the middle of one.
Turns(l) == life[l] \in {"runs", "exit"} /\ placing[l] = NotPlacing

\* task_put() of n references: the last frees the task.
TPut(x, n) == [x EXCEPT !.refs = @ - n, !.at = IF x.refs = n THEN "freed" ELSE @]

\* What the loop's choice of a lane may come to: the lighter of two picked at
\* random, none its own if other.
Choices(l, other) ==
  LET S == IF other THEN Lane \ {l} ELSE Lane
  IN  IF Lane = {l} THEN {l}
      ELSE IF Cardinality(S) = 1 THEN S
      ELSE {IF load[p[2]] < load[p[1]] THEN p[2] ELSE p[1] : p \in {q \in S \X S : q[1] # q[2]}}

-----------------------------------------------------------------------------
\* task_pool_attach(): tasks may come from now on.
Attach(l) ==
  /\ life[l] = "new" /\ life' = [life EXCEPT ![l] = "runs"]
  /\ UNCHANGED <<task, load, placing, count>>

\* task_submit(): a call of the owner's loop waits for the task.
TSubmit(t, l) ==
  /\ life[l] = "runs" /\ Turns(l) /\ task[t].at = "none"
  /\ \E n \in 1 .. Slices, to \in Choices(l, FALSE) :
       /\ task' = [task EXCEPT ![t] = [NoTask EXCEPT !.at = "placed", !.lane = l, !.owner = l,
                                                     !.owned = TRUE, !.refs = 2, !.left = n]]
       /\ placing' = [placing EXCEPT ![l] = [stage |-> "add", task |-> t, to |-> to]]
  /\ count' = [count EXCEPT !["submitted"] = @ + 1]
  /\ UNCHANGED <<load, life>>

\* task_lane_place(), first: the lane's load counts the task.
PlaceAdd(l) ==
  /\ placing[l].stage = "add"
  /\ placing' = [placing EXCEPT ![l].stage = "post"]
  /\ load' = [load EXCEPT ![placing[l].to] = @ + 1]
  /\ UNCHANGED <<task, life, count>>

\* A mistake the checks would catch: the load is not put right when the task
\* cannot go to the lane chosen.
PlacePostKept(l) ==
  /\ placing[l].stage = "post"
  /\ LET t == placing[l].task
         to == placing[l].to
     IN  IF to # l /\ life[to] # "new"
         THEN task' = [task EXCEPT ![t].at = "sent", ![t].lane = to] /\ UNCHANGED load
         ELSE task' = [task EXCEPT ![t].at = "held", ![t].lane = l] /\ UNCHANGED load
  /\ placing' = [placing EXCEPT ![l] = NotPlacing]
  /\ UNCHANGED <<life, count>>

\* Then it goes there by a message, or stays: its own lane was chosen, or the
\* other has not attached.
PlacePost(l) ==
  /\ placing[l].stage = "post"
  /\ LET t == placing[l].task
         to == placing[l].to
     IN  IF to # l /\ life[to] # "new"
         THEN task' = [task EXCEPT ![t].at = "sent", ![t].lane = to] /\ UNCHANGED load
         ELSE /\ task' = [task EXCEPT ![t].at = "held", ![t].lane = l]
              /\ load' = IF to = l THEN load ELSE [load EXCEPT ![to] = @ - 1, ![l] = @ + 1]
  /\ placing' = [placing EXCEPT ![l] = NotPlacing]
  /\ UNCHANGED <<life, count>>

\* task_abandon(): the runner lets go.
Abandon(x) == TPut([x EXCEPT !.at = "abandoned"], 1)

\* The loop's inbox is handled in its turns, and once all have stopped by
\* loop_fini().
Handles(l) == \/ Turns(l)
              \/ life[l] = "stopped" /\ \A m \in Lane : life[m] \in {"stopped", "freed"}

\* task_arrive()
Arrive(t) ==
  LET l == task[t].lane
  IN  /\ task[t].at = "sent" /\ Handles(l)
      /\ IF life[l] = "runs" THEN task' = [task EXCEPT ![t].at = "held"] /\ UNCHANGED count
         ELSE /\ task' = [task EXCEPT ![t] = Abandon(@)]
              /\ count' = [count EXCEPT !["abandoned"] = @ + 1]
      /\ UNCHANGED <<load, placing, life>>

\* The task leaves its lane, and goes back to its owner's loop.
Back(t, how) ==
  /\ load' = [load EXCEPT ![task[t].lane] = @ - 1]
  /\ task' = [task EXCEPT ![t].at = "back", ![t].left = 0]
  /\ count' = [count EXCEPT ![how] = @ + 1]
  /\ UNCHANGED <<placing, life>>

\* task_step(): a slice, unless the task is cancelled; then it stays for the
\* next or, from a loop that holds many, moves to one that holds two fewer.
Slice(t) ==
  LET l == task[t].lane
      left == task[t].left
  IN  /\ task[t].at = "held" /\ Turns(l)
      /\ \/ task[t].cancel /\ Back(t, "cancelled")
         \/ ~task[t].cancel /\ left = 1 /\ Back(t, "done")
         \/ /\ ~task[t].cancel /\ left > 1
            /\ \E to \in IF load[l] > TASK_BACKLOG THEN Choices(l, TRUE) ELSE {l} :
                 IF to = l \/ load[to] + 2 > load[l]
                 THEN task' = [task EXCEPT ![t].left = @ - 1] /\ UNCHANGED <<load, placing>>
                 ELSE /\ task' = [task EXCEPT ![t].left = @ - 1, ![t].at = "placed"]
                      /\ load' = [load EXCEPT ![l] = @ - 1]
                      /\ placing' = [placing EXCEPT ![l] = [stage |-> "add", task |-> t, to |-> to]]
            /\ UNCHANGED <<life, count>>

\* mcp_spin_back(): the call replies, and both references go; if it has gone,
\* the runner's does.
SpinBack(t) ==
  /\ task[t].at = "back" /\ Handles(task[t].owner)
  /\ task' = [task EXCEPT ![t] = [TPut(@, IF @.owned THEN 2 ELSE 1) EXCEPT !.owned = FALSE]]
  /\ UNCHANGED <<load, placing, life, count>>

\* task_drop(): the call ends before its task is back, or MCP is destroyed.
TDrop(t) ==
  /\ task[t].owned
  /\ Turns(task[t].owner) \/ life[task[t].owner] = "detached"
  /\ task' = [task EXCEPT ![t] = [TPut(@, 1) EXCEPT !.owned = FALSE, !.cancel = TRUE]]
  /\ UNCHANGED <<load, placing, life, count>>

\* LOOP_EXIT
TExit(l) ==
  /\ life[l] = "runs" /\ Turns(l) /\ life' = [life EXCEPT ![l] = "exit"]
  /\ UNCHANGED <<task, load, placing, count>>

\* The load of a lane that none is to choose.
DetachedLoad == HALF

\* task_pool_detach(): what the loop holds never runs again.
Detach(l) ==
  LET held == {t \in Task : task[t].at = "held" /\ task[t].lane = l}
  IN  /\ life[l] = "exit" /\ Turns(l)
      /\ task' = [t \in Task |-> IF t \in held THEN Abandon(task[t]) ELSE task[t]]
      /\ load' = [load EXCEPT ![l] = DetachedLoad]
      /\ count' = [count EXCEPT !["abandoned"] = @ + Cardinality(held)]
      /\ life' = [life EXCEPT ![l] = "detached"]
      /\ UNCHANGED placing

\* mcp_destroy() has ended every call.
TStopped(l) ==
  /\ life[l] = "detached" /\ \A t \in Task : task[t].owner = l => ~task[t].owned
  /\ life' = [life EXCEPT ![l] = "stopped"]
  /\ UNCHANGED <<task, load, placing, count>>

\* loop_fini() has emptied the inbox.
TFini(l) ==
  /\ life[l] = "stopped" /\ Handles(l)
  /\ \A t \in Task : /\ task[t].at = "sent" => task[t].lane # l
                     /\ task[t].at = "back" => task[t].owner # l
  /\ life' = [life EXCEPT ![l] = "freed"]
  /\ UNCHANGED <<task, load, placing, count>>

Moves(l) == PlaceAdd(l) \/ PlacePost(l)
Runs(t)  == Arrive(t) \/ Slice(t) \/ SpinBack(t)
Ends(l)  == Detach(l) \/ TStopped(l) \/ TFini(l)

TNext ==
  \/ \E l \in Lane : Attach(l) \/ Moves(l) \/ TExit(l) \/ Ends(l)
  \/ \E t \in Task, l \in Lane : TSubmit(t, l)
  \/ \E t \in Task : Runs(t) \/ TDrop(t)

-----------------------------------------------------------------------------
\* A task has one reference for its owner while the owner has it, and one for
\* whoever runs, moves or returns it; it is freed with the last, once, and
\* none is left when every loop is freed, whichever of the two stops first.
TaskRefs ==
  /\ \A t \in Task :
       task[t].at \notin {"none", "freed"} =>
         task[t].refs = (IF task[t].owned THEN 1 ELSE 0)
                          + (IF task[t].at = "abandoned" THEN 0 ELSE 1)
  /\ (\A l \in Lane : life[l] = "freed") => \A t \in Task : task[t].at \in {"none", "freed"}

\* A running loop's load is the tasks it holds and those on their way to it,
\* placed but not posted yet ones included, so that placers spread a burst;
\* and a load never goes below nothing, though a loop stops in the middle of
\* a placement.
LoadsTrue ==
  \A l \in Lane :
    LET here == {t \in Task : task[t].at \in {"held", "sent"} /\ task[t].lane = l}
        coming == {m \in Lane : placing[m].stage = "post" /\ placing[m].to = l}
    IN  IF life[l] \in {"new", "runs"} THEN load[l] = Cardinality(here) + Cardinality(coming)
        ELSE load[l] >= Cardinality(coming)

\* task.h: submitted = done + cancelled + abandoned + those under way.
CountsBalance ==
  count["submitted"] = count["done"] + count["cancelled"] + count["abandoned"]
                         + Cardinality({t \in Task : task[t].at \in {"placed", "held", "sent"}})

=============================================================================
