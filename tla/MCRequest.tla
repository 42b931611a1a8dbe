----------------------------- MODULE MCRequest -----------------------------
(***************************************************************************)
(* A client loop's two long-lived things: the request to MCP and the job   *)
(* it may wait for.  Request has the life of a request, with no more of    *)
(* home than its messages; JobChannel has the two threads' words, messages *)
(* and references.  They share no state, so that a behaviour is of one of  *)
(* them, chosen at the start, and the variables of the other stay 0.       *)
(***************************************************************************)
EXTENDS JobChannel, Request

VARIABLE part

\* What a request asks for: it calls tool, if any, and wants all of wants.
Asks(tool, wants) ==
  [tool |-> tool, sse |-> "sse" \in wants, tasks |-> "tasks" \in wants,
   stream |-> "stream" \in wants, background |-> "background" \in wants,
   journal |-> "journal" \in wants]
Clientele ==
  {Asks("none", {}), Asks("note", {}),
   Asks("plain", {"sse", "tasks"}), Asks("plain", {"background"}),
   Asks("ask", {"sse", "tasks"}), Asks("ask", {"background"}),
   Asks("ask", {"sse", "stream", "journal"}), Asks("ask", {"sse", "tasks", "journal"}),
   Asks("ask", {"background", "journal"})}
\* --background and a journal, and a client that knows of tasks.
Doubled == {Asks("ask", {"background", "tasks", "journal"})}

MCInit ==
  \/ /\ part = "request" /\ MInit
     /\ place = 0 /\ refs = 0 /\ home_bits = 0 /\ home_mail = 0 /\ front_bits = 0
     /\ front_mail = 0 /\ asks = 0 /\ req = 0 /\ job = 0 /\ front = 0 /\ home = 0
     /\ runs = 0 /\ draining = 0
  \/ part = "job" /\ Init /\ mcp = 0

\* The process ends with mcp_destroy().
Over == mcp.gone /\ UNCHANGED mcp

MCNext ==
  \/ part = "request" /\ (MNext \/ Over) /\ UNCHANGED <<part, vars>>
  \/ part = "job" /\ Next /\ UNCHANGED <<part, mcp>>

MCSpec == MCInit /\ [][MCNext]_<<part, mcp, vars>>

-----------------------------------------------------------------------------
\* Both keep their types.
BothTypeOK == (part = "request" => MTypeOK) /\ (part = "job" => TypeOK)

\* The job's references, its one completion and what is read of it, on both
\* threads (job_post(), home_job_end(), mcp_req_drop()).
JobRefs     == part = "job" => RefsExact
JobOnce     == part = "job" => OneCompletion
JobReads    == part = "job" => ReadsAlone

\* A spare request has nothing left, and one that is not spare is found by
\* those that end it; a record that works is of the call that runs
\* (mcp_req_finish(), mcp_req_end(), mcp_destroy()).
LetsGo == part = "request" => NothingKept /\ Owned

\* One record for a call, ended with it (mcp_req_detach(), mcp_req_finish()).
OneRecord == part = "request" => Owned

\* "If the answer cannot go, the function ends the record and the call"
\* (mcp_req_detach()), and the slots of a spare request are empty.
CallEnded == part = "request" => CallOver

\* What the journal has to hold first, it holds (mcp_req_archive_submitted(),
\* mcp_req_intent_saved(), mcp_req_archive_end()).
WrittenFirst == part = "request" => DiskFirst

\* No request waits for what cannot come, nor for more than a drain allows
\* (mcp_req_wait(), mcp_drain_step()).
MovesOn == part = "request" => InSight
=============================================================================
