------------------------------ MODULE Request ------------------------------
(***************************************************************************)
(* A request to MCP (src/src/mcp.c), from its stream's head until it is    *)
(* spare again, with all that outlives a step of it: the client's stream,  *)
(* the job at home, the tools' calls, the journal's writes, the records of *)
(* the ledger and the names by which late answers find the request, or do  *)
(* not.  One struct mcp_req serves MaxLives requests, one after another.   *)
(*                                                                         *)
(* A handler is a chain of calls that may end the request at any link, so  *)
(* that each function is an operator from a state x of the loop, and from  *)
(* the luck c that its calls into other parts have, to the state it leaves. *)
(* Compaction, the turns' own jobs and timers, jobs that a restart resumes, *)
(* keep-alives and notifications of progress are left out.                 *)
(***************************************************************************)
EXTENDS Naturals, FiniteSets, Sequences

CONSTANTS MaxLives, MaxTurns, MaxRecs,  \* bounds, MaxTurns that of --max-turns
          Calls,        \* the calls that a turn makes
          Clients,      \* what the requests ask for
          LateLoss      \* whether the stream may fail as a call becomes a task

VARIABLE mcp   \* struct mcp, its one request and what the request deals with

Tools  == {"none", "note", "plain", "ask"}
Client == [tool : Tools, sse : BOOLEAN, tasks : BOOLEAN, stream : BOOLEAN,
           background : BOOLEAN, journal : BOOLEAN]

Working == {"BODY", "PARSE", "DISPATCH", "BUILD", "JOURNAL", "CALL", "TOOL", "CALLS",
            "ANSWER", "TEXT", "ARGS", "TURN", "RESULT"}     \* before PHASE_REPLY
Sent    == {"SEND", "END", "FREE"}                          \* from PHASE_SEND on
Phase   == Working \cup {"REPLY"} \cup Sent
Awaits  == {"submitted", "intended", "reasoned", "finished"}  \* for the journal
Flag    == {"SSE_OK", "SSE", "BLOCKED", "TICK", "DELTA", "WITHDRAWN", "SUSPENDED",
            "DETACH_PENDING", "ARCHIVED_END"}
ASSUME RequestAssumption ==
  /\ MaxLives \in Nat /\ MaxTurns \in Nat \ {0} /\ MaxRecs \in Nat /\ Calls \in Nat
  /\ Clients \subseteq Client

Name    == [what : {"call", "tool", "roster", "record"} \cup Awaits,
            life : 1 .. MaxLives, turn : 0 .. MaxTurns, n : 0 .. MaxRecs + Calls]
NoName  == [what |-> "none", life |-> 0, turn |-> 0, n |-> 0]
RecStatus == {"none", "working", "completed", "failed", "cancelled", "removed"}

\* What may go wrong in a handler, one thing at a time: a journal's queue or a
\* ledger that is full, a client that does not read or is gone; and a message
\* too large to free at once, or work that takes another step.
Lucky == [put |-> TRUE, open |-> TRUE, data |-> "ok", big |-> FALSE, more |-> FALSE]
Luck  == {Lucky, [Lucky EXCEPT !.put = FALSE], [Lucky EXCEPT !.open = FALSE],
          [Lucky EXCEPT !.data = "again"], [Lucky EXCEPT !.data = "gone"],
          [Lucky EXCEPT !.big = TRUE], [Lucky EXCEPT !.more = TRUE]}

\* The loop and what it shares: its one request, which is spare; the names it
\* knows, how often mcp->tasks has the request, the client's stream, the
\* ledger's records, the journal's queue and disk, home's jobs and the loop's
\* inbox.
MInit == mcp =
  [spare |-> TRUE, phase |-> "BODY", s |-> "none", hook |-> "spare",
   flags |-> {}, step |-> FALSE, timer |-> FALSE, promote |-> FALSE, due |-> FALSE,
   reaper |-> FALSE, error |-> "none", task |-> 0, admitted |-> 0, archive |-> FALSE,
   lost |-> FALSE, job |-> "none", turn |-> 0, slots |-> <<>>, part |-> 1,
   launched |-> 0, intents |-> {}, reply |-> "none",
   life |-> 0, opt |-> CHOOSE o \in Client : o.tool = "none",
   names |-> {}, listed |-> 0, stream |-> "ended",
   recs |-> [r \in 1 .. MaxRecs |-> [status |-> "none", got |-> "none", told |-> FALSE]],
   wal |-> <<>>, disk |-> {}, home |-> {}, post |-> {}, drain |-> FALSE,
   draining |-> FALSE, exits |-> FALSE, gone |-> FALSE]

\* The request as mcp_begin() leaves it, but for its client.
Blank(x) ==
  [x EXCEPT !.spare = FALSE, !.phase = "BODY", !.s = "client", !.hook = "none",
            !.flags = {}, !.step = FALSE, !.timer = FALSE, !.promote = FALSE, !.due = FALSE,
            !.reaper = FALSE, !.error = "none", !.task = 0, !.admitted = 0,
            !.archive = FALSE, !.lost = FALSE, !.job = "none", !.turn = 0, !.slots = <<>>,
            !.part = 1, !.launched = 0, !.intents = {}, !.reply = "none"]

-----------------------------------------------------------------------------
\* The names of the request: of its job's completion, of a tool's call, of its
\* place in the roster, of a record's cancel and of a write it waits for.
Named(x, what, n) == [what |-> what, life |-> x.life, turn |-> x.turn, n |-> n]
Record(x, r)      == [what |-> "record", life |-> x.life, turn |-> 0, n |-> r]
Roster(x)         == [what |-> "roster", life |-> x.life, turn |-> 0, n |-> 0]

\* loop_handle() and loop_forget() of names.
Forget(x, names)    == [x EXCEPT !.names = @ \ names]
ForgetAll(x, whats) == Forget(x, {m \in x.names : m.what \in whats})

Ready(x)        == [x EXCEPT !.step = TRUE]                     \* loop_ready_bulk()
Enter(x, phase) == [Ready(x) EXCEPT !.phase = phase]            \* mcp_req_enter()
Dispose(x, c)   == IF c.big THEN [Ready(x) EXCEPT !.reaper = TRUE] ELSE x

Wait(x) ==                                                      \* mcp_req_wait()
  IF x.phase \notin Working THEN x
  ELSE [x EXCEPT !.hook = IF @ = "none" THEN "calls" ELSE @, !.drain = @ \/ x.draining]
Unwait(x) == [x EXCEPT !.hook = "none"]                         \* mcp_req_unwait()
Arm(x)    == [x EXCEPT !.timer = x.promote /\ "BLOCKED" \notin x.flags]

\* A mistake the checks would catch: the tools' calls still find the request.
DropJob(x) ==
  LET y == ForgetAll(x, {"call"}) IN
  [y EXCEPT !.job = "none", !.flags = IF x.job = "none" THEN @ ELSE @ \ {"DELTA"},
            !.slots = <<>>,
            !.home = {j \in @ : x.job = "none" \/ j.name.life # x.life}]

\* mcp_req_drop(): calls and the job are let go, the job cancelled at home.
ReqDrop(x) ==
  LET y == ForgetAll(x, {"call", "tool"}) IN
  [y EXCEPT !.job = "none", !.flags = IF x.job = "none" THEN @ ELSE @ \ {"DELTA"},
            !.slots = <<>>,
            !.home = {j \in @ : x.job = "none" \/ j.name.life # x.life}]

\* mcp_req_status(): a record whose reply is not whole, or an error, failed.
HowEnded(x) ==
  IF x.error = "cancelled" \/ "WITHDRAWN" \in x.flags THEN "cancelled"
  ELSE IF x.error # "none" \/ (x.task # 0 /\ x.recs[x.task].got \notin {"answer", "started"})
       THEN "failed" ELSE "completed"

\* mcp_req_record_end() of record r.
RecordEnd(x, r, status) ==
  [Forget(x, {Record(x, r)}) EXCEPT
     !.recs[r].status = IF @ = "working" THEN status ELSE @]

\* mcp_req_leave(): no notifications/cancelled reaches the call any more.
Leave(x) == ForgetAll(x, {"roster"})

\* mcp_req_end(): the stream ends and the request goes on the spare shelf.
\* What mcp_begin() will set anew is set here already, but for the phase.
ReqEnd(x) ==
  [Blank(x) EXCEPT !.spare = TRUE, !.phase = x.phase, !.s = "none", !.hook = "spare",
                   !.timer = x.timer, !.job = x.job, !.task = x.task,
                   !.admitted = x.admitted,
                   !.stream = IF x.s = "client" THEN "ended" ELSE @]

\* mcp_req_archive() of kind and mcp_req_archive_put(): the write is queued,
\* and the request waits for it by a new name, unless it waits for another.
CanWait(x, c) == c.put /\ \A m \in x.names : m.what \notin Awaits
Queue(x, entry) == [x EXCEPT !.wal = Append(@, entry)]
ReqArchive(x, kind, rec, status) ==
  LET who == Named(x, kind, x.launched) IN
  Queue([x EXCEPT !.names = @ \cup {who}],
        [who |-> who, kind |-> kind, rec |-> rec, status |-> status])
ArchivePut(x, rec, status) ==
  Queue(x, [who |-> NoName, kind |-> "put", rec |-> rec, status |-> status])

\* Whether mcp_req_archive_end() has an end record to write.
EndToWrite(x) ==
  x.archive /\ {"ARCHIVED_END", "SUSPENDED"} \cap x.flags = {}
            /\ ~(x.draining /\ (x.task # 0 \/ x.admitted # 0))

\* The records end, with what the call came to, and the request is spare once
\* nothing of it is left to free.
AdmittedEnd(x) ==
  IF x.admitted = 0 THEN x
  ELSE [RecordEnd(x, x.admitted, "cancelled") EXCEPT !.admitted = 0]
TaskEnd(x) ==
  IF x.task = 0 THEN x
  ELSE [RecordEnd(x, x.task, IF "SUSPENDED" \in x.flags THEN "removed" ELSE HowEnded(x))
          EXCEPT !.task = 0, !.listed = @ - 1,
                 !.recs[x.task].told = x.archive /\ ~x.draining]
Freed(x) == IF x.reaper THEN [x EXCEPT !.phase = "FREE", !.hook = "freeing", !.step = TRUE]
            ELSE ReqEnd(x)

\* mcp_req_archive_end(): the end is written, if it is to be, and waited for
\* but in a drain.
Closing(x, c) == EndToWrite(x) /\ c.put /\ ~x.draining
EndPut(x, c) ==
  LET w == [x EXCEPT !.flags = @ \cup {"ARCHIVED_END"}] IN
  CASE ~EndToWrite(x) -> x
    [] EndToWrite(x) /\ ~c.put -> [w EXCEPT !.error = "failed"]
    [] OTHER -> ArchivePut(w, x.task, HowEnded(x))
LetGo(x, c) ==
  IF Closing(x, c)
  THEN [ReqArchive(x, "finished", x.task, HowEnded(x)) EXCEPT
          !.flags = @ \cup {"ARCHIVED_END"}, !.step = FALSE, !.hook = "ending", !.phase = "END"]
  ELSE Freed(Dispose(TaskEnd(AdmittedEnd(EndPut(x, c))), c))

\* mcp_req_finish().
ReqFinish(x, c) ==
  LetGo(ForgetAll(Unwait(Leave(ReqDrop([x EXCEPT !.timer = FALSE, !.flags = @ \ {"TICK"}]))),
                  Awaits), c)

\* A mistake the checks would catch: a cancel does not wait for the end record.
AbortAtOnce(x, c, e) == ReqFinish([x EXCEPT !.error = e], c)

\* mcp_req_abort(): a call whose end is being written ends as it did.
Abort(x, c, e) ==
  IF x.phase = "END" /\ ~x.draining /\ ~x.exits THEN x
  ELSE ReqFinish([x EXCEPT !.error = IF x.phase = "END" THEN @ ELSE e], c)

-----------------------------------------------------------------------------
\* What mcp_req_write() leaves: EAGAIN blocks the request.  A stand-in's
\* record takes all it is given.
Blocks(x, c) == [x EXCEPT !.flags = IF c.data = "again" /\ x.s = "client"
                                    THEN @ \cup {"BLOCKED"} ELSE @]
Takes(x, got) == IF x.s = "stand" THEN [x EXCEPT !.recs[x.task].got = got] ELSE x

\* mcp_req_send(): a piece of the reply, or all that is left of it.
Send(x, c) ==
  IF "BLOCKED" \in x.flags THEN x
  ELSE IF c.data = "gone" THEN Abort(x, c, "failed")
  ELSE IF ~c.more THEN ReqFinish(Takes(Blocks(x, c), x.reply), c)
  ELSE Ready(Takes(x, "part"))

\* mcp_req_close() with a reply: the call is answered.
Answered(x, c) ==
  IF c.data = "gone" /\ "SSE" \notin x.flags THEN Abort(x, c, "failed")
  ELSE Send([Takes(x, "part") EXCEPT !.phase = "SEND"], c)
Close(x, c, reply) ==
  Answered([ReqDrop(Unwait(x)) EXCEPT !.timer = FALSE, !.reply = reply], c)

\* mcp_req_fail(), and mcp_req_error() of other errors.
Fail(x, c) == IF x.phase \in Sent THEN x ELSE Close(x, c, "error")

\* mcp_req_reply(): the output, then the end of the result.
Reply(x, c) == IF c.more THEN Ready(x) ELSE Close(x, c, "answer")

\* mcp_slot_respond() of the request's own call.
Respond(x, c) == Reply([x EXCEPT !.timer = FALSE, !.phase = "REPLY"], c)

\* mcp_slot_result() of the request's own call.
Result(x, c) == Close(x, c, "answer")

\* mcp_req_record(): the ledger opens a record, if it has room.
FreeRecs(x) == {r \in 1 .. MaxRecs : x.recs[r].status = "none"}
CanOpen(x, c) == c.open /\ FreeRecs(x) # {}
NextRec(x) == CHOOSE r \in FreeRecs(x) : \A q \in FreeRecs(x) : r <= q
Open(x) == [x EXCEPT !.names = @ \cup {Record(x, NextRec(x))},
                     !.recs[NextRec(x)].status = "working"]

\* mcp_req_detach() with a record and what it answers the client: the reply
\* goes to the stream, and the call runs on with the stand-in.
Detach(x, c, r, reply) ==
  IF c.data = "gone" THEN Abort(RecordEnd(x, r, "cancelled"), c, "failed")
  ELSE [Takes(Leave(x), reply) EXCEPT
          !.stream = IF x.s = "client" THEN "ended" ELSE @, !.s = "stand", !.task = r,
          !.listed = @ + 1, !.promote = FALSE, !.timer = FALSE,
          !.flags = @ \ {"SSE_OK", "SSE", "BLOCKED"}]

\* mcp_req_background(): the record admitted, or a new one, or a refusal.
CanDetach(x, c) == c.data # "gone" /\ (x.admitted # 0 \/ CanOpen(x, c))
Background(x, c) ==
  IF x.admitted = 0 /\ ~CanOpen(x, c) THEN Result(x, c)
  ELSE Detach(IF x.admitted = 0 THEN Open(x) ELSE [x EXCEPT !.admitted = 0], c,
              IF x.admitted = 0 THEN NextRec(x) ELSE x.admitted, "started")

-----------------------------------------------------------------------------
\* mcp_req_submit(): a name for the job's completion, then the job goes home.
SubmitAs(x, who) ==
  [x EXCEPT !.turn = who.turn, !.names = @ \cup {who}, !.job = "waits", !.phase = "CALL",
            !.home = @ \cup {[name |-> who, at |-> "runs",
                              durable |-> x.task # 0 /\ x.archive]}]
ReqSubmit(x, c) == IF ~c.open THEN Fail(x, c)
                ELSE SubmitAs(x, Named([x EXCEPT !.turn = @ + 1], "call", 0))

\* mcp_req_checkpoint(): a job is admitted first, and the state is written.
Admits(x) == "DETACH_PENDING" \in x.flags /\ x.admitted = 0
Written(x, c) ==
  IF x.lost \/ (Admits(x) /\ ~CanOpen(x, c)) \/ ~CanWait(x, c) THEN Close(x, c, "error")
  ELSE [ReqArchive(x, "submitted", 0, "none") EXCEPT !.step = FALSE, !.phase = "JOURNAL"]
Checkpoint(x, c) ==
  IF x.lost \/ (Admits(x) /\ ~CanOpen(x, c)) THEN Written(x, c)
  ELSE Written([(IF Admits(x) THEN [Open(x) EXCEPT !.admitted = NextRec(x)] ELSE x)
                  EXCEPT !.archive = TRUE, !.intents = {}], c)

\* mcp_req_turn_submit().
TurnSubmit(x, c) ==
  IF x.draining THEN Fail(x, c)
  ELSE IF x.opt.journal THEN Checkpoint(Wait(x), c) ELSE ReqSubmit(Wait(x), c)

\* mcp_req_archive_submitted(): the checkpoint is durable, or is not.
Submitted(x, c, ok) ==
  LET pends == "DETACH_PENDING" \in x.flags
      y == [x EXCEPT !.flags = @ \ {"DETACH_PENDING"}]
  IN  IF ~ok \/ x.draining THEN Close(x, c, "error")
      ELSE IF pends /\ ~CanDetach(y, c) THEN Background(y, c)
      ELSE ReqSubmit(IF pends THEN Background(y, c) ELSE x, c)

\* mcp_req_stream(): the reply opens as an event stream, if it can.
Stream(x, c) ==
  Arm([x EXCEPT !.flags = IF c.data = "gone" THEN @ \ {"SSE"} ELSE @ \cup {"SSE"}])

\* Those that may be answered by an event stream open one as they wait.
Opens(x, c, flags) == IF flags \cap x.flags = {"SSE_OK"} THEN Stream(x, c) ELSE x

\* mcp_req_ask(): a call that asks the upstream.
Ask(x, c) ==
  LET back == x.opt.background /\ x.task = 0
      asked(y) == Enter(Dispose(Opens(Wait(y), c, {"SSE_OK", "DETACH_PENDING"}), c), "BUILD")
  IN  CASE ~back -> asked(x)
        [] back /\ x.opt.journal -> asked([x EXCEPT !.flags = @ \cup {"DETACH_PENDING"}])
        [] OTHER -> IF CanDetach(x, c) THEN asked(Background(x, c)) ELSE Background(x, c)

\* mcp_slot_start() of the request's own call of a tool that ends at once or
\* that parks the request, mcp_slot_park().
Park(x, c) ==
  [Dispose(Wait(Opens(x, c, {"SSE_OK", "SSE"})), c) EXCEPT
     !.phase = "TOOL", !.names = @ \cup {Named(x, "tool", 0)}]
Start(x, c) == IF c.more THEN Result(x, c) ELSE Park(x, c)

\* mcp_slot_client_background(): the call that background starts is a job.
ClientBackground(x, c) ==
  IF CanDetach(x, c) THEN Start(Background(x, c), c) ELSE Background(x, c)

\* mcp_req_tools_call(); mcp_slot_ask() asks.
Entered(x) ==
  IF x.opt.tasks /\ ~x.opt.stream
  THEN Arm([x EXCEPT !.names = @ \cup {Roster(x)}, !.promote = TRUE])
  ELSE [x EXCEPT !.names = @ \cup {Roster(x)}]
ToolsCall(x, c) ==
  CASE x.draining \/ (~c.open /\ ~x.opt.background) -> Fail(x, c)
    [] OTHER -> IF x.opt.tool = "ask" THEN Ask(Entered(x), c)
                ELSE IF ~x.opt.background THEN Start(Entered(x), c)
                ELSE ClientBackground(Entered(x), c)

\* mcp_req_accept() and mcp_req_message(): a notification has no answer.
Dispatch(x, c) ==
  LET y == [x EXCEPT !.flags = IF x.opt.sse THEN @ \cup {"SSE_OK"} ELSE @] IN
  CASE x.opt.tool = "note" -> ReqFinish(x, c)
    [] x.opt.tool = "none" -> Close(x, c, "answer")
    [] OTHER -> ToolsCall(y, c)

\* mcp_req_parse(): handed on at once if one step parsed all of it.
Parse(x, c) == IF c.more THEN Ready(x)
               ELSE IF c.big THEN Enter(x, "DISPATCH")
               ELSE Dispatch(x, c)

\* mcp_req_build().
Build(x, c) == IF c.more THEN Ready(x) ELSE TurnSubmit(x, c)

-----------------------------------------------------------------------------
\* The turn's calls and their results, then the next turn.  mcp_slot_done():
\* a result is put into the journal's queue, and the request need not wait.
SlotDone(x, k, c) ==
  LET y == Ready([Forget(x, {Named(x, "tool", k)}) EXCEPT !.slots[k] = "done"])
  IN  IF ~x.archive THEN y
      ELSE IF c.put THEN ArchivePut(y, 0, "none") ELSE [y EXCEPT !.lost = TRUE]

\* mcp_req_call_launch(): with a journal, a call's intent is durable first;
\* then the call ends at once, or waits for its tool.
Launch(x, c) ==
  LET k == x.launched + 1
      saves == x.archive /\ k \notin x.intents
      y == Ready(Blocks([x EXCEPT !.launched = k, !.slots[k] = "runs"],
                        IF "SSE" \in x.flags /\ "BLOCKED" \notin x.flags THEN c ELSE Lucky))
  IN  CASE k > Len(x.slots) -> x
        [] k <= Len(x.slots) /\ (x.draining \/ (saves /\ ~CanWait(x, c))) -> Fail(x, c)
        [] OTHER ->
           IF saves THEN [ReqArchive(x, "intended", 0, "none") EXCEPT
                            !.step = FALSE, !.phase = "JOURNAL"]
           ELSE IF c.more THEN SlotDone(y, k, c)
           ELSE [Wait(y) EXCEPT !.names = @ \cup {Named(y, "tool", k)}]

\* mcp_req_intent_saved().
IntentSaved(x, c, ok) ==
  IF ~ok THEN Close(x, c, "error")
  ELSE Enter([x EXCEPT !.intents = @ \cup {x.launched + 1}], "CALLS")

\* mcp_req_calls_next(): the next result in order, else another call.
CallsNext(x, c) ==
  IF x.part > Len(x.slots) THEN TurnSubmit([x EXCEPT !.slots = <<>>], c)
  ELSE IF x.slots[x.part] = "done" THEN Enter(x, "RESULT")
  ELSE Launch([x EXCEPT !.phase = "CALLS"], c)

\* mcp_req_result_write().
ResultWrite(x, c) ==
  IF c.more THEN Ready(x) ELSE CallsNext([x EXCEPT !.part = @ + 1], c)

\* mcp_req_turn_write(): the turn is written and its job let go.
TurnWrite(x, c) ==
  IF c.more THEN Ready(x)
  ELSE CallsNext([ReqDrop(x) EXCEPT !.part = 1, !.launched = 0,
                                 !.slots = [k \in 1 .. Calls |-> "none"]], c)

-----------------------------------------------------------------------------
\* mcp_req_turn_done(): the last turn's calls are not run.
TurnDone(x, has) ==
  IF has = "calls" /\ x.turn < MaxTurns THEN Enter([x EXCEPT !.job = has], "ARGS")
  ELSE Enter([x EXCEPT !.job = "text"], "TEXT")

\* mcp_req_job_done(), as the job ended.
JobDone(x, c, status) ==
  LET y == Unwait(ForgetAll(x, {"call"}))
      d == ReqDrop(y)
  IN  CASE status \in {"text", "calls"} -> TurnDone(y, status)
        [] status = "answered"  -> Enter([y EXCEPT !.job = "answered"], "ANSWER")
        [] status = "cancelled" -> Fail([y EXCEPT !.job = "over"], c)
        [] status = "suspended" -> Respond([d EXCEPT !.flags = @ \cup {"SUSPENDED"}], c)
        [] status = "failed"    -> Respond(d, c)

\* mcp_req_answer() and mcp_req_reasoning(): an archived call's reasoning is
\* durable before its text is read.
Answer(x, c) ==
  IF c.more THEN Ready(x)
  ELSE IF ~x.archive THEN Enter(x, "TEXT")
  ELSE IF CanWait(x, c)
       THEN [ReqArchive(x, "reasoned", 0, "none") EXCEPT !.phase = "JOURNAL"]
       ELSE Fail([x EXCEPT !.phase = "TEXT"], c)

\* mcp_req_text(): home has read a streamed answer's text into its job.
Text(x, c) == IF x.job = "text" THEN Respond(x, c) ELSE Respond(ReqDrop(Dispose(x, c)), c)

\* mcp_req_turn_args().
TurnArgs(x, c) == IF c.more THEN Ready(x) ELSE Enter(x, "TURN")

\* mcp_phase_steps.
PhaseStep(x, c) ==
  CASE x.phase = "PARSE"    -> Parse(x, c)
    [] x.phase = "DISPATCH" -> Dispatch(x, c)
    [] x.phase = "BUILD"    -> Build(x, c)
    [] x.phase = "ANSWER"   -> Answer(x, c)
    [] x.phase = "TEXT"     -> Text(x, c)
    [] x.phase = "ARGS"     -> TurnArgs(x, c)
    [] x.phase = "TURN"     -> TurnWrite(x, c)
    [] x.phase = "CALLS"    -> CallsNext(x, c)
    [] x.phase = "RESULT"   -> ResultWrite(x, c)
    [] x.phase = "REPLY"    -> Reply(x, c)
    [] x.phase = "SEND"     -> Send(x, c)
    [] OTHER -> x
Steps == {"PARSE", "DISPATCH", "BUILD", "ANSWER", "TEXT", "ARGS", "TURN", "CALLS", "RESULT"}

\* mcp_req_promote(): the call's client has its task.
Promote(x, c) == Detach(Open(x), c, NextRec(x), "task")

\* mcp_req_tick(): a call due to become a task does, if the ledger has room.
Promotes(x) == "BLOCKED" \notin x.flags /\ x.promote /\ x.due
Tick(x, c) ==
  LET y == [x EXCEPT !.promote = FALSE] IN
  IF Promotes(x) /\ CanOpen(y, c) THEN Promote(y, c)
  ELSE Arm(IF Promotes(x) THEN y ELSE x)

\* mcp_req_delta(): the mailbox goes to the client, then home may go on.
Delta(x, c) ==
  CASE "BLOCKED" \in x.flags -> x
    [] "BLOCKED" \notin x.flags /\ c.more -> Ready(x)
    [] c.data = "gone" -> Abort(x, c, "failed")
    [] c.data = "again" -> Blocks(x, c)
    [] OTHER ->
       [x EXCEPT !.flags = @ \ {"DELTA"}, !.step = "TICK" \in x.flags,
                 !.home = {IF j.name \in x.names THEN [j EXCEPT !.at = "runs"] ELSE j : j \in @}]

\* mcp_req_step(): a slice of what is left to free is all of it, or not.
Ticked(x, c) ==
  IF "TICK" \in x.flags /\ x.phase \in Working
  THEN Tick([x EXCEPT !.flags = @ \ {"TICK"}], c) ELSE x
Reap(x, c) == IF ~x.reaper THEN x
              ELSE IF c.more THEN Ready(x) ELSE [x EXCEPT !.reaper = FALSE]
Sliced(x, c, reaped) == IF reaped /\ ~x.reaper /\ x.phase = "FREE" THEN ReqEnd(x)
                        ELSE PhaseStep(x, c)
Step(x, c) == IF "DELTA" \in x.flags THEN Delta(x, c)
              ELSE Sliced(Reap(Ticked(x, c), c), c, Ticked(x, c).reaper)

-----------------------------------------------------------------------------
Runs == ~mcp.gone
Live == Runs /\ ~mcp.spare

\* mcp_begin(): a request of a client, on the spare one.
Begin(o) ==
  /\ Runs /\ mcp.spare /\ mcp.life < MaxLives
  /\ mcp' = [Blank(mcp) EXCEPT !.life = @ + 1, !.opt = o, !.stream = "open"]

\* mcp_on_body(), mcp_on_writable() and mcp_on_cancel(): the transport calls.
OnBody(c) == /\ Live /\ mcp.phase = "BODY" /\ mcp.s = "client"
             /\ mcp' = Parse([mcp EXCEPT !.phase = "PARSE"], c)
OnWritable == /\ Live /\ mcp.s = "client" /\ "BLOCKED" \in mcp.flags
              /\ mcp' = Ready([mcp EXCEPT !.flags = (@ \ {"BLOCKED"}) \cup {"TICK"}])
Cancelled(x, c) ==
  LET y == [x EXCEPT !.s = "none", !.stream = "ended"] IN
  IF x.phase = "FREE" THEN y ELSE Abort(y, c, "cancelled")
OnCancel(c) == Live /\ mcp.s = "client" /\ mcp' = Cancelled(mcp, c)

\* mcp_req_step() and mcp_req_timer().
ReqStep(c) ==
  /\ Runs /\ mcp.step
  /\ LateLoss \/ c.data # "gone" \/ ~(Promotes(mcp) /\ mcp.phase \in Steps)
  /\ mcp' = Step([mcp EXCEPT !.step = FALSE], c)
Timer == /\ Runs /\ mcp.timer
         /\ mcp' = Ready([mcp EXCEPT !.timer = FALSE, !.due = TRUE,
                                     !.flags = @ \cup {"TICK"}])

\* A tool's late answer: mcp_slot_wake(), then mcp_slot_finish().
ToolEnds(c) ==
  /\ Live
  /\ \E m \in mcp.names :
       /\ m.what = "tool"
       /\ mcp' = IF m.n = 0 THEN Respond(Unwait(Forget(mcp, {m})), c)
                 ELSE SlotDone(mcp, m.n, c)

\* Home hands text over and waits, or ends the job.
HomeDelta ==
  /\ Runs
  /\ \E j \in mcp.home :
       /\ j.at = "runs" /\ mcp.opt.stream
       /\ mcp' = [mcp EXCEPT !.home = (@ \ {j}) \cup {[j EXCEPT !.at = "held"]},
                             !.post = @ \cup {[what |-> "delta", who |-> j.name, how |-> ""]}]
HomeDone ==
  /\ Runs
  /\ \E j \in mcp.home, how \in {"text", "calls", "answered", "failed", "cancelled",
                                 "suspended"} :
       /\ j.at = "runs"
       /\ how \in {"cancelled", "suspended"} => mcp.draining
       /\ how = "suspended" => j.durable
       /\ mcp' = [mcp EXCEPT !.home = @ \ {j},
                             !.post = @ \cup {[what |-> "done", who |-> j.name, how |-> how]}]

\* The journal writes the next entry, or fails to.
JournalWrite ==
  /\ mcp.wal # <<>>
  /\ \E ok \in BOOLEAN :
       LET w == Head(mcp.wal)
           put == mcp.post \cup {[what |-> "wrote", who |-> w.who,
                                  how |-> IF ok THEN "ok" ELSE "error"]}
       IN  mcp' = [mcp EXCEPT !.wal = Tail(@),
                     !.disk = IF ok THEN @ \cup {[w EXCEPT !.kind = "done"]} ELSE @,
                     !.post = IF w.who = NoName \/ ~Runs THEN @ ELSE put]

\* Another request cancels this one by its id, or its record, mcp_req_cancel()
\* and ledger_cancel().
Cancels ==
  /\ Runs
  /\ \E m \in mcp.names :
       /\ m.what \in {"roster", "record"}
       /\ mcp' = [mcp EXCEPT !.post = @ \cup {[what |-> m.what, who |-> m, how |-> ""]}]

\* mcp_archive_back(): the write that the request waits for has been made.
Wrote(x, c, who, ok) ==
  CASE who.what = "submitted" -> Submitted(x, c, ok)
    [] who.what = "intended"  -> IntentSaved(x, c, ok)
    [] who.what = "reasoned"  -> IF ok THEN Enter(x, "TEXT") ELSE Fail(x, c)
    [] OTHER -> ReqFinish(IF ok THEN x ELSE [x EXCEPT !.error = "failed"], c)

\* A mistake the checks would catch: a delta without an event stream is
\* dropped, and home waits for ever.
OnDeltaDropped(x) ==
  IF "SSE" \in x.flags THEN Ready([x EXCEPT !.flags = @ \cup {"DELTA"}]) ELSE x

\* mcp_on_job(): a delta is for an event stream, else home may go on.
OnDelta(x) ==
  IF "SSE" \in x.flags THEN Ready([x EXCEPT !.flags = @ \cup {"DELTA"}])
  ELSE [x EXCEPT !.home = {[j EXCEPT !.at = "runs"] : j \in @}]

\* mcp_on_withdraw().
OnWithdraw(x, c) ==
  IF x.phase \notin Working THEN x
  ELSE ReqFinish([x EXCEPT !.flags = @ \cup {"WITHDRAWN"}], c)

\* A message reaches the request that its name finds, or none.
Deliver(what, c) ==
  /\ Runs
  /\ \E m \in mcp.post :
       LET x == [mcp EXCEPT !.post = @ \ {m}] IN
       /\ m.what = what
       /\ mcp' = CASE m.who \notin x.names -> x
                   [] m.who \in x.names /\ what = "wrote" ->
                        Wrote(Forget(x, {m.who}), c, m.who, m.how = "ok")
                   [] m.who \in x.names /\ what = "delta" -> OnDelta(x)
                   [] m.who \in x.names /\ what = "done" -> JobDone(x, c, m.how)
                   [] m.who \in x.names /\ what = "roster" -> OnWithdraw(x, c)
                   [] m.who \in x.names /\ what = "record" -> Abort(x, c, "cancelled")

\* mcp_drain() and mcp_drain_step().
McpDrain == /\ Runs /\ ~mcp.draining
         /\ mcp' = [mcp EXCEPT !.draining = TRUE, !.drain = TRUE]
DrainStep(c) ==
  /\ Runs /\ mcp.drain
  /\ mcp' = IF mcp.hook = "calls" THEN Fail(mcp, c) ELSE [mcp EXCEPT !.drain = FALSE]

\* LOOP_EXIT, when no message arrives any more; then the transport cancels
\* the streams, and mcp_destroy().
Destroy(c) ==
  /\ Runs
  /\ LET x == [mcp EXCEPT !.exits = TRUE, !.post = {}]
         s == IF x.s = "client" /\ ~x.spare THEN Cancelled(x, c) ELSE x
         d == [s EXCEPT !.draining = TRUE]
         t == IF d.task # 0 THEN Abort(d, c, "failed") ELSE d
         e == IF t.hook = "ending" THEN Abort(t, c, "failed") ELSE t
     IN  mcp' = [(IF e.hook = "freeing" THEN ReqEnd(e) ELSE e) EXCEPT !.gone = TRUE, !.wal = <<>>]

MNext ==
  \/ \E o \in Clients : Begin(o)
  \/ OnWritable \/ Timer \/ HomeDelta \/ HomeDone \/ JournalWrite \/ Cancels \/ McpDrain
  \/ \E c \in Luck : \/ OnBody(c) \/ OnCancel(c) \/ ReqStep(c) \/ ToolEnds(c)
                     \/ DrainStep(c) \/ Destroy(c)
                     \/ \E what \in {"wrote", "delta", "done", "roster", "record"} :
                          Deliver(what, c)

-----------------------------------------------------------------------------
MTypeOK ==
  /\ mcp.life \in 0 .. MaxLives /\ mcp.opt \in Client /\ mcp.phase \in Phase
  /\ mcp.s \in {"none", "client", "stand"}
  /\ mcp.hook \in {"none", "calls", "ending", "freeing", "spare"}
  /\ mcp.flags \subseteq Flag /\ mcp.names \subseteq Name
  /\ mcp.error \in {"none", "cancelled", "failed"}
  /\ mcp.task \in 0 .. MaxRecs /\ mcp.admitted \in 0 .. MaxRecs
  /\ mcp.job \in {"none", "waits", "text", "calls", "answered", "over"}
  /\ mcp.turn \in 0 .. MaxTurns /\ mcp.listed \in Nat
  /\ \A r \in 1 .. MaxRecs : /\ mcp.recs[r].status \in RecStatus
                             /\ mcp.recs[r].got \in {"none", "part", "answer", "error",
                                                     "started", "task"}

\* A spare request has no call: no job, its own or at home, and no slots
\* (mcp_req_detach(), mcp_req_drop()).
CallOver == mcp.spare => mcp.job = "none" /\ mcp.slots = <<>> /\ mcp.home = {}

\* A spare request has nothing left by which another's answer could reach it,
\* and nothing of it is left: no name, timer, step, job, record or stream
\* (mcp_req_finish(), mcp_req_end()).  Else it is where those look for it that
\* end it: mcp_drain_step() finds no call that it cannot end, and
\* mcp_destroy() finds all that are left.
NothingKept ==
  /\ CallOver
  /\ mcp.spare =>
       /\ mcp.names = {} /\ ~mcp.step /\ ~mcp.timer /\ mcp.listed = 0
       /\ mcp.hook = "spare" /\ mcp.stream = "ended"
  /\ mcp.hook = "calls" => mcp.phase \notin Sent
  /\ (mcp.hook = "ending") = (mcp.phase = "END" /\ ~mcp.spare)
  /\ "DELTA" \in mcp.flags => mcp.job = "waits" /\ "SSE" \in mcp.flags
  /\ mcp.gone => mcp.spare

\* A record that works is of the call that runs, which is on mcp->tasks once,
\* and ends with it (mcp_req_detach(), mcp_req_finish()).
Owned ==
  /\ \A r \in 1 .. MaxRecs :
       mcp.recs[r].status = "working" => r \in {mcp.task, mcp.admitted} /\ ~mcp.spare
  /\ mcp.listed = IF mcp.task = 0 THEN 0 ELSE 1

\* What a journal has to hold first, it holds: the checkpoint of a turn at
\* home, the intent of a tool's call that runs, and how a task has ended
\* before its record says so, even if askai drains after that.
DiskFirst ==
  LET done == {w.who : w \in mcp.disk} IN
  /\ mcp.archive => \A j \in mcp.home :
       \E w \in done : w.what = "submitted" /\ w.life = j.name.life
                                  /\ w.turn + 1 = j.name.turn
  /\ mcp.archive => \A m \in mcp.names : m.what = "tool" /\ m.n > 0 =>
       [m EXCEPT !.what = "intended", !.n = m.n - 1] \in done
  /\ \A r \in 1 .. MaxRecs :
       mcp.recs[r].told /\ mcp.recs[r].status \in {"completed", "cancelled"} =>
         \E w \in mcp.disk : w.rec = r /\ w.status = mcp.recs[r].status

\* A request that is not spare is in sight of something that moves it on: its
\* step, its client, a write in the journal's queue or on its way back, a tool
\* or a job that will answer; a drain leaves it no tool and no job to wait for
\* (mcp_req_wait(), mcp_req_delta(), mcp_drain_step()).
Comes(whats, name) == \E p \in mcp.post : p.what \in whats /\ p.who = name
InSight ==
  \/ mcp.spare \/ mcp.step \/ (mcp.drain /\ mcp.hook = "calls")
  \/ mcp.s = "client" /\ (mcp.phase = "BODY" \/ "BLOCKED" \in mcp.flags)
  \/ \E m \in mcp.names : m.what \in Awaits /\
       (Comes({"wrote"}, m) \/ \E i \in 1 .. Len(mcp.wal) : mcp.wal[i].who = m)
  \/ ~mcp.draining /\ \E m \in mcp.names :
       \/ m.what = "tool"
       \/ m.what = "call" /\ Comes({"done", "delta"}, m)
       \/ m.what = "call" /\ \E j \in mcp.home : j.name = m /\ j.at = "runs"
=============================================================================
