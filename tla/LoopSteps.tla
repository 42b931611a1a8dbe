----------------------------- MODULE LoopSteps -----------------------------
(***************************************************************************)
(* A loop's steps (src/src/loop.c): the ready lists, which of their entries*)
(* a turn runs and in which order, and steps that ready or stop one another*)
(* as the loop goes through the lists.                                     *)
(*                                                                         *)
(* A turn's time is left to chance: a run of the lists makes one step at   *)
(* least, if there is one, and may stop after any.                         *)
(***************************************************************************)
EXTENDS Naturals, Sequences, FiniteSets, SequencesExt

CONSTANTS StepId

VARIABLES
  ready,   \* the lists of the loop
  batch,   \* what is left of those that a loop_run() took
  cursor,  \* the list whose turn it is
  stage,   \* of the turn
  ran,     \* whether this run has made a step
  off      \* history: the steps that the last action ran or stopped

svars == <<ready, batch, cursor, stage, ran, off>>

Interactive == {"FRESH", "ONGOING"}
Lists       == Interactive \cup {"BULK"}
Other(k)    == IF k = "FRESH" THEN "ONGOING" ELSE "FRESH"
Taken       == CASE stage = "interactive" -> Interactive [] stage = "bulk" -> {"BULK"} [] OTHER -> {}

STypeOK ==
  /\ ready \in [Lists -> Seq(StepId)] /\ batch \in [Lists -> Seq(StepId)]
  /\ cursor \in Interactive /\ stage \in {"events", "interactive", "bulk", "exit"} /\ ran \in BOOLEAN
  /\ off \subseteq StepId

SInit ==
  /\ ready = [k \in Lists |-> <<>>] /\ batch = [k \in Lists |-> <<>>]
  /\ cursor = "FRESH" /\ stage = "events" /\ ran = FALSE
  /\ off = {}

On(k)     == ToSet(batch[k]) \cup ToSet(ready[k])
ReadyStep(s) == \E k \in Lists : s \in On(k)

-----------------------------------------------------------------------------
\* loop_unready() of the steps in stop, then loop_ready() or loop_ready_bulk()
\* of one, which a step that is queued already is not.
Changes(stop, add, k, q, b) ==
  /\ batch' = [j \in Lists |-> SelectSeq(b[j], LAMBDA s : s \notin stop)]
  /\ LET r == [j \in Lists |-> SelectSeq(q[j], LAMBDA s : s \notin stop)]
         queued == UNION {ToSet(r[j]) \cup (ToSet(b[j]) \ stop) : j \in Lists}
     IN  ready' = [r EXCEPT ![k] = @ \o SetToSeq(add \ queued)]

\* An event, a message or a timer of the turn readies a step or stops one.
Handler ==
  /\ stage = "events"
  /\ \E stop, add \in SUBSET StepId, k \in {"FRESH", "BULK"} :
       /\ Cardinality(stop) + Cardinality(add) = 1
       /\ Changes(stop, add, k, ready, batch) /\ off' = stop
  /\ UNCHANGED <<cursor, stage, ran>>

\* loop_run() takes the lists.
RunInteractive ==
  /\ stage = "events" /\ stage' = "interactive" /\ ran' = FALSE /\ off' = {}
  /\ batch' = [ready EXCEPT !["BULK"] = <<>>]
  /\ ready' = [k \in Lists |-> IF k = "BULK" THEN ready[k] ELSE <<>>]
  /\ UNCHANGED cursor

\* The list of the next step.
Up == IF stage = "bulk" THEN "BULK" ELSE IF batch[cursor] # <<>> THEN cursor ELSE Other(cursor)

\* The list that a run goes on with, after a step of the list k.
AfterStep(k) == IF stage = "bulk" THEN cursor ELSE Other(k)

\* A step runs: readies itself or another, or stops one.
RunStep ==
  /\ stage \in {"interactive", "bulk"} /\ batch[Up] # <<>>
  /\ ran' = TRUE
  /\ cursor' = AfterStep(Up)
  /\ \E stop, add \in SUBSET StepId, k \in {"ONGOING", "BULK"} :
       /\ Cardinality(stop) + Cardinality(add) <= 1
       /\ Changes(stop, add, k, ready, [batch EXCEPT ![Up] = Tail(@)])
       /\ off' = stop \cup {Head(batch[Up])}
  /\ UNCHANGED stage

\* What did not run goes back to the head of its list.
PutBack(k) == batch[k] \o ready[k]

\* The run is over, its time spent or its lists empty: the bulk list's run
\* follows the other, and the next turn that.
RunOver ==
  /\ stage \in {"interactive", "bulk"}
  /\ ran \/ \A k \in Taken : batch[k] = <<>>
  /\ LET back == [k \in Lists |-> IF k \in Taken THEN PutBack(k) ELSE ready[k]]
     IN  IF stage = "bulk"
         THEN /\ ready' = back /\ batch' = [k \in Lists |-> <<>>]
              /\ stage' = "events" /\ ran' = FALSE
         ELSE /\ ready' = [back EXCEPT !["BULK"] = <<>>]
              /\ batch' = [k \in Lists |-> IF k = "BULK" THEN back[k] ELSE <<>>]
              /\ stage' = "bulk" /\ ran' = FALSE
  /\ off' = {} /\ UNCHANGED cursor

\* LOOP_EXIT, set by any code of the turn: no step runs any more.
SExit ==
  /\ stage # "exit" /\ stage' = "exit"
  /\ ready' = [k \in Lists |-> IF k \in Taken THEN PutBack(k) ELSE ready[k]]
  /\ batch' = [k \in Lists |-> <<>>] /\ off' = {} /\ UNCHANGED <<cursor, ran>>

STurn == RunInteractive \/ RunStep \/ RunOver
SNext == Handler \/ STurn \/ SExit

-----------------------------------------------------------------------------
\* However steps ready and stop one another, a step is queued once at most.
QueuedOnce ==
  LET all == batch["FRESH"] \o batch["ONGOING"] \o batch["BULK"]
               \o ready["FRESH"] \o ready["ONGOING"] \o ready["BULK"]
  IN  Len(all) = Cardinality(ToSet(all))

=============================================================================
