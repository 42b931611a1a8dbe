----------------------------- MODULE CliNetwork -----------------------------
(***************************************************************************)
(* The network thread of askai-cli (src/src/cli_network.c): calls that the *)
(* UI thread admits, each with a request that the network thread runs; the *)
(* chunks of its answer, which go to the UI, are passed on there as far as *)
(* the terminal takes them, and go back for the credit they took; and the  *)
(* cancel, the stop and the end of both.                                   *)
(*                                                                         *)
(* A chunk counts as one byte, and a transfer (libcurl's) sends what and   *)
(* ends when it likes.  The UI handles all of its mail in a turn; what a   *)
(* turn leaves for the next is LoopInbox's.                                *)
(***************************************************************************)
EXTENDS Naturals, FiniteSets, Sequences, SequencesExt

CONSTANTS
  CallNo,     \* the calls there is storage for
  CALLS,      \* CLI_NETWORK_CALLS
  CONTROL,    \* CLI_NETWORK_CONTROL_CALLS
  CREDIT,     \* the chunks of cli_network_credit
  DELIVERY,   \* CLI_NETWORK_DELIVERY
  MaxChunks   \* bound: of an answer

VARIABLES
  call,     \* struct cli_network_call of each, the UI's
  req,      \* what the network has of each
  calls,    \* network->calls
  line,     \* the mail to the network's loop
  inbox,    \* and to the UI's
  word,     \* network->shared
  posted, credit,
  net,      \* the network's thread: where it is, LOOP_EXIT, failure
  ui        \* the UI's: where it is, the waiter's call, and the service it does

cvars == <<call, req, calls, line, inbox, word, posted, credit, net, ui>>

NoCall == [at |-> "none", error |-> FALSE, finished |-> FALSE, received |-> 0]
NoReq  == [at |-> "none", cancelled |-> FALSE, paused |-> FALSE, sent |-> 0]

CTypeOK ==
  /\ call \in [CallNo -> [at : {"none", "listed", "over"}, error : BOOLEAN, finished : BOOLEAN,
                          received : 0 .. MaxChunks]]
  /\ req \in [CallNo -> [at : {"none", "start", "runs", "done"}, cancelled : BOOLEAN, paused : BOOLEAN, sent : 0 .. MaxChunks]]
  /\ calls \in Seq(CallNo) /\ word \subseteq {"PROGRESS", "CANCEL", "JOINED"}
  /\ posted \in Nat /\ credit \in 0 .. CREDIT
  /\ net.at \in {"runs", "resumes", "scans", "left", "ends", "over"}
  /\ {net.exit, net.broken} \subseteq BOOLEAN
  /\ ui.at \in {"turns", "serves", "ends", "cancels", "joined", "freed"}
  /\ ui.waiting \in CallNo \cup {0} /\ ui.round \in Nat /\ ui.delivered \in Nat

CInit ==
  /\ call = [c \in CallNo |-> NoCall] /\ req = [c \in CallNo |-> NoReq] /\ calls = <<>>
  /\ line = <<>> /\ inbox = <<>> /\ word = {} /\ posted = 1 /\ credit = 0
  /\ net = [at |-> "runs", exit |-> FALSE, broken |-> FALSE]
  /\ ui = [at |-> "turns", next |-> "turns", waiting |-> 0, gives |-> FALSE, stopping |-> FALSE,
           broken |-> FALSE, wake |-> FALSE, round |-> 0, delivered |-> 0]

Joined    == "JOINED" \in word
Listed    == {c \in CallNo : call[c].at = "listed"}
Running   == {c \in CallNo : req[c].at = "runs"}
Msg(m, c) == [what |-> m, call |-> c]

-----------------------------------------------------------------------------
(* Both threads.                                                           *)

\* cli_network_queue(): the word and the line after it.
Queued(mail, bit) == IF {bit, "JOINED"} \cap word = {} THEN Append(mail, Msg(bit, 0)) ELSE mail

\* cli_network_finish(), on the network's thread, of the requests in S.
Finish(S) ==
  /\ req' = [c \in CallNo |->
               IF c \in S THEN [req[c] EXCEPT !.at = "done", !.paused = FALSE] ELSE req[c]]
  /\ inbox' = inbox \o SetToSeq({Msg("done", c) : c \in S})
  /\ posted' = posted + Cardinality(S)

-----------------------------------------------------------------------------
(* The network's thread.                                                   *)

\* A mistake the checks would catch: a call that was cancelled at once starts.
StartMailDeaf(c) ==
  \/ /\ ~net.exit /\ req' = [req EXCEPT ![c].at = "runs"] /\ UNCHANGED <<inbox, posted>>
  \/ Finish({c})

\* cli_network_start(); libcurl may refuse the transfer.
StartMail(c) ==
  \/ /\ ~net.exit /\ ~req[c].cancelled /\ req' = [req EXCEPT ![c].at = "runs"]
     /\ UNCHANGED <<inbox, posted>>
  \/ Finish({c})

\* A message of the line.  What cancels or goes on with requests clears its
\* bit first.
NetMail ==
  LET m == Head(line) IN
  /\ net.at = "runs" /\ line # <<>> /\ line' = Tail(line)
  /\ CASE m.what = "start" ->
            StartMail(m.call) /\ UNCHANGED <<word, credit, net>>
       [] m.what = "back" ->                            \* cli_network_chunk_returned()
            /\ credit' = credit - 1
            /\ net' = [net EXCEPT !.at = IF net.exit THEN @ ELSE "resumes"]
            /\ UNCHANGED <<req, inbox, posted, word>>
       [] m.what = "PROGRESS" ->                        \* cli_network_progress_message()
            /\ word' = word \ {"PROGRESS"}
            /\ net' = [net EXCEPT !.at = IF net.exit THEN @ ELSE "resumes"]
            /\ UNCHANGED <<req, inbox, posted, credit>>
       [] m.what = "CANCEL" ->                          \* cli_network_cancel_message()
            /\ word' = word \ {"CANCEL"} /\ net' = [net EXCEPT !.at = "scans"]
            /\ UNCHANGED <<req, inbox, posted, credit>>
       [] m.what = "stop" ->                            \* cli_network_stop_message()
            /\ net' = [net EXCEPT !.exit = TRUE]
            /\ UNCHANGED <<req, inbox, posted, word, credit>>
  /\ UNCHANGED <<call, calls, ui>>

\* The requests that have been cancelled.
Scan ==
  /\ net.at = "scans" /\ net' = [net EXCEPT !.at = "runs"]
  /\ Finish({c \in Running : req[c].cancelled})
  /\ UNCHANGED <<call, calls, line, word, credit, ui>>

\* A chunk goes to the UI.
Sent(c, paused) ==
  /\ req' = [req EXCEPT ![c].sent = @ + 1, ![c].paused = paused]
  /\ credit' = credit + 1 /\ posted' = posted + 1 /\ inbox' = Append(inbox, Msg("chunk", c))

\* cli_network_progress(): as long as there is credit, a transfer that is
\* paused goes on, with the chunk that it was paused for, which may be larger
\* than what there is; or libcurl fails it.
Resume ==
  /\ net.at = "resumes"
  /\ \/ \E c \in Running : req[c].paused /\ credit < CREDIT /\
          \/ Sent(c, FALSE) /\ UNCHANGED net
          \/ credit > 0 /\ net' = [net EXCEPT !.at = "runs"]
                        /\ UNCHANGED <<req, credit, posted, inbox>>
          \/ Finish({c}) /\ UNCHANGED <<net, credit>>
     \/ /\ credit >= CREDIT \/ \A c \in Running : ~req[c].paused
        /\ net' = [net EXCEPT !.at = "runs"] /\ UNCHANGED <<req, credit, posted, inbox>>
  /\ UNCHANGED <<call, calls, line, word, ui>>

\* cli_network_receive(): a chunk for which there is no credit pauses the
\* transfer.
Receive(c) ==
  /\ net.at = "runs" /\ c \in Running /\ ~req[c].paused /\ req[c].sent < MaxChunks
  /\ \/ credit < CREDIT /\ Sent(c, FALSE)
     \/ credit > 0 /\ req' = [req EXCEPT ![c].paused = TRUE] /\ UNCHANGED <<credit, posted, inbox>>
  /\ UNCHANGED <<call, calls, line, word, net, ui>>

\* cli_network_curl_done(), with or without an error.
CurlDone(c) ==
  /\ net.at = "runs" /\ c \in Running
  /\ Finish({c})
  /\ UNCHANGED <<call, calls, line, word, credit, net, ui>>

\* cli_network_curl_fail(), of a transfer or of all.
CurlFail(c) ==
  /\ net.at = "runs" /\ c \in Running /\ ~req[c].cancelled
  /\ \/ /\ req' = [req EXCEPT ![c].cancelled = TRUE]
        /\ line' = Queued(line, "CANCEL") /\ word' = word \cup {"CANCEL"}
        /\ UNCHANGED <<inbox, posted>>
     \/ Finish(Running) /\ UNCHANGED <<line, word>>
  /\ UNCHANGED <<call, calls, credit, net, ui>>

\* cli_network_run(): the loop exits or breaks, admission stops, and what is
\* left is finished before the thread's last message.
NetEnds ==
  /\ \/ /\ net.at = "runs"
        /\ \/ net.exit /\ net' = [net EXCEPT !.at = "left"]
           \/ ~net.exit /\ net' = [net EXCEPT !.at = "left", !.broken = TRUE]
        /\ UNCHANGED <<req, inbox, posted>>
     \/ /\ net.at = "left" /\ net' = [net EXCEPT !.at = "ends"]
        /\ UNCHANGED <<req, inbox, posted>>
     \/ /\ net.at = "ends" /\ Running # {} /\ UNCHANGED net
        /\ \E c \in Running : Finish({c})
     \/ /\ net.at = "ends" /\ Running = {} /\ net' = [net EXCEPT !.at = "over"]
        /\ inbox' = Append(inbox, Msg("ended", 0)) /\ UNCHANGED <<req, posted>>
  /\ UNCHANGED <<call, calls, line, word, credit, ui>>

-----------------------------------------------------------------------------
(* The UI's thread.                                                        *)

\* cli_network_service() begins.
Serve(u) == [u EXCEPT !.at = "serves", !.round = Len(calls), !.delivered = 0]

\* cli_network_admit(), for cli_network_submit(), in a callback too, or for
\* cli_network_perform(), which serves and waits.  Calls for control are admitted past
\* the others' bound.
Submit(c, control, waited) ==
  /\ ui.at \in IF waited THEN {"turns"} ELSE {"turns", "serves"}
  /\ ~Joined /\ ~ui.stopping /\ net.at \notin {"ends", "over"} /\ (waited => ui.waiting = 0)
  /\ call[c].at = "none" /\ \A d \in CallNo : d < c => call[d].at # "none"
  /\ Len(calls) < CALLS + IF control THEN CONTROL ELSE 0
  /\ call' = [call EXCEPT ![c] = [NoCall EXCEPT !.at = "listed"]]
  /\ req' = [req EXCEPT ![c] = [NoReq EXCEPT !.at = "start"]]
  /\ calls' = Append(calls, c) /\ line' = Append(line, Msg("start", c))
  /\ ui' = IF waited THEN [Serve(ui) EXCEPT !.waiting = c, !.round = @ + 1] ELSE ui
  /\ UNCHANGED <<inbox, word, posted, credit, net>>

\* cli_network_call_cancel() of the calls in S, up to the message.
CancelAll(S, next) ==
  /\ call' = [c \in CallNo |-> IF c \in S THEN [call[c] EXCEPT !.error = TRUE] ELSE call[c]]
  /\ req' = [c \in CallNo |-> IF c \in S THEN [req[c] EXCEPT !.cancelled = TRUE] ELSE req[c]]
  /\ ui' = [ui EXCEPT !.at = "cancels", !.next = next, !.wake = TRUE]

\* cli_network_cancel() and cli_network_cancel_call(), of one call, of the
\* waiter's, or of all by force.
Cancel(S) ==
  /\ ui.at = "turns" /\ ~Joined /\ S # {} /\ S \subseteq Listed
  /\ \E c \in S : ~req[c].cancelled
  /\ CancelAll(S, "turns")
  /\ UNCHANGED <<calls, line, inbox, word, posted, credit, net>>

QueueCancel ==
  /\ ui.at = "cancels" /\ ui' = [ui EXCEPT !.at = ui.next]
  /\ line' = Queued(line, "CANCEL") /\ word' = word \cup {"CANCEL"}
  /\ UNCHANGED <<call, req, calls, inbox, posted, credit, net>>

\* cli_loop_turn(), until cli_network_done() once it stops: chunks go on their
\* calls' lists, and a request that is done says so.  After it comes
\* cli_network_service(), but not if a network that broke has broken this loop.
Turn ==
  LET came(m, c) == Cardinality({i \in DOMAIN inbox : inbox[i] = Msg(m, c)})
      ended == Msg("ended", 0) \in Range(inbox)
  IN  /\ ui.at = "turns" /\ ~Joined /\ ~ui.broken /\ ~ui.gives
      /\ ~(ui.stopping /\ posted = 0)
      /\ call' = [c \in CallNo |->
                    [call[c] EXCEPT !.received = @ + came("chunk", c),
                                    !.finished = @ \/ came("done", c) > 0]]
      /\ inbox' = <<>> /\ posted' = posted - Len(inbox)
      /\ ui' = IF ended /\ net.broken THEN [ui EXCEPT !.broken = TRUE]
               ELSE Serve([ui EXCEPT !.wake = FALSE])
      /\ UNCHANGED <<req, calls, line, word, credit, net>>

\* n chunks of a call are taken off its list, and go back to the network
\* (cli_network_chunk_return()).
TakeOff(c, n, error) ==
  /\ call' = [call EXCEPT ![c].received = @ - n, ![c].error = error]
  /\ line' = IF Joined THEN line ELSE line \o [i \in 1 .. n |-> Msg("back", 0)]

\* cli_network_deliver() and cli_network_deliver_chunks(), of the next call:
\* its chunks while the terminal is ready, up to DELIVERY; a callback that
\* fails cancels the call, and the chunks of one that has failed just go back.
ServeCall ==
  LET c    == Head(calls)
      room == DELIVERY - ui.delivered
      most == IF call[c].received < room THEN call[c].received ELSE room
      done(n) == /\ calls' = Append(Tail(calls), c) /\ UNCHANGED req
                 /\ ui' = [ui EXCEPT !.round = @ - 1, !.at = "ends", !.delivered = @ + n]
  IN  /\ ui.at = "serves" /\ calls # <<>> /\ ui.round > 0 /\ room > 0
      /\ \/ call[c].error /\ TakeOff(c, call[c].received, TRUE) /\ done(call[c].received)
         \/ ~call[c].error /\ \E n \in 0 .. most : TakeOff(c, n, FALSE) /\ done(n)
         \/ /\ ~call[c].error /\ \E n \in 0 .. most - 1 :
                 TakeOff(c, n, TRUE) /\ ui' = [ui EXCEPT !.at = "cancels", !.next = "serves",
                                                         !.wake = TRUE, !.delivered = @ + n]
            /\ req' = [req EXCEPT ![c].cancelled = TRUE] /\ UNCHANGED calls
      /\ UNCHANGED <<inbox, word, posted, credit, net>>

\* The call just served is over once its request is done and its chunks are
\* delivered: its callback is called, or its waiter told.
ServeEnd ==
  LET c == Last(calls) IN
  /\ ui.at = "ends" /\ ui' = [ui EXCEPT !.at = "serves"]
  /\ IF call[c].finished /\ call[c].received = 0
     THEN /\ calls' = Front(calls)
          /\ IF c = ui.waiting
             THEN call' = [call EXCEPT ![c].at = "over"] /\ UNCHANGED req
             ELSE call' = [call EXCEPT ![c] = NoCall] /\ req' = [req EXCEPT ![c] = NoReq]
     ELSE UNCHANGED <<call, req, calls>>
  /\ UNCHANGED <<line, inbox, word, posted, credit, net>>

\* The rest of cli_network_service(): another turn comes at once if there is
\* more to deliver, and the network is told that there may be credit.
\* cli_network_destroy() goes on until no call is left.
ServiceEnd ==
  /\ ui.at = "serves" /\ (calls = <<>> \/ ui.round = 0 \/ ui.delivered >= DELIVERY)
  /\ \E ready \in BOOLEAN :
       LET more == \E c \in Listed : IF call[c].received = 0 THEN call[c].finished
                                     ELSE call[c].error \/ ready
           u == [ui EXCEPT !.wake = @ \/ more, !.round = 0, !.delivered = 0, !.next = "turns"]
       IN  ui' = IF ~Joined THEN [u EXCEPT !.at = "turns"]
               ELSE IF calls = <<>> THEN [u EXCEPT !.at = "freed"] ELSE Serve(u)
  /\ line' = Queued(line, "PROGRESS") /\ word' = word \cup {"PROGRESS"}
  /\ UNCHANGED <<call, req, calls, inbox, posted, credit, net>>

\* The terminal has room again for what has come.
Wake ==
  /\ ~Joined /\ ~ui.wake /\ \E c \in Listed : call[c].received > 0
  /\ ui' = [ui EXCEPT !.wake = TRUE]
  /\ UNCHANGED <<call, req, calls, line, inbox, word, posted, credit, net>>

\* cli_network_perform() goes on, its call over.
Waited ==
  LET c == ui.waiting IN
  /\ ui.at = "turns" /\ c # 0 /\ call[c].at = "over"
  /\ call' = [call EXCEPT ![c] = NoCall] /\ req' = [req EXCEPT ![c] = NoReq]
  /\ ui' = [ui EXCEPT !.waiting = 0, !.gives = FALSE]
  /\ UNCHANGED <<calls, line, inbox, word, posted, credit, net>>

\* A turn fails: perform cancels its call, which is served once more, and
\* gives it up if it is not over.
TurnFails ==
  LET c == ui.waiting IN
  /\ ui.at = "turns" /\ c # 0 /\ ~ui.gives /\ call[c].at = "listed"
  /\ call' = [call EXCEPT ![c].error = TRUE] /\ req' = [req EXCEPT ![c].cancelled = TRUE]
  /\ ui' = [Serve(ui) EXCEPT !.at = "cancels", !.next = "serves", !.wake = TRUE, !.gives = TRUE]
  /\ UNCHANGED <<calls, line, inbox, word, posted, credit, net>>
GiveUp ==
  /\ ui.at = "turns" /\ ui.gives /\ call[ui.waiting].at = "listed"
  /\ ui' = [ui EXCEPT !.waiting = 0, !.gives = FALSE]
  /\ UNCHANGED <<call, req, calls, line, inbox, word, posted, credit, net>>

\* cli_network_stop(), nothing waited for.
Stop ==
  /\ ui.at = "turns" /\ ui.waiting = 0 /\ ~ui.stopping
  /\ ui' = [ui EXCEPT !.stopping = TRUE] /\ line' = Append(line, Msg("stop", 0))
  /\ UNCHANGED <<call, req, calls, inbox, word, posted, credit, net>>

\* cli_network_destroy(), once cli_network_done(): the thread is joined, what
\* is left of the line is handled here, as posts are from now on, and every
\* call is cancelled and served.
Join ==
  /\ ui.at = "turns" /\ ui.stopping /\ ~Joined /\ posted = 0 /\ net.at = "over"
  /\ word' = word \cup {"JOINED"} /\ ui' = [ui EXCEPT !.at = "joined"]
  /\ UNCHANGED <<call, req, calls, line, inbox, posted, credit, net>>
LoopFini ==
  LET started == {m.call : m \in {x \in Range(line) : x.what = "start"}} IN
  /\ ui.at = "joined" /\ line' = <<>> /\ word' = {"JOINED"}
  /\ req' = [c \in CallNo |->
               IF c \in started THEN [req[c] EXCEPT !.at = "done", !.cancelled = TRUE]
               ELSE IF c \in Listed THEN [req[c] EXCEPT !.cancelled = TRUE] ELSE req[c]]
  /\ call' = [c \in CallNo |->
                IF c \in Listed THEN [call[c] EXCEPT !.error = TRUE, !.finished = @ \/ c \in started]
                ELSE call[c]]
  /\ ui' = IF calls = <<>> THEN [ui EXCEPT !.at = "freed"] ELSE Serve(ui)
  /\ UNCHANGED <<calls, inbox, posted, credit, net>>

UiStep == \/ QueueCancel \/ ServeCall \/ ServeEnd \/ ServiceEnd \/ Waited \/ GiveUp \/ Join
          \/ LoopFini
NetStep == NetMail \/ Scan \/ Resume

\* What the threads' scheduling makes happen: a loop that was told to exit
\* does, and one that has mail, or is woken, has a turn.
NetFair == net.exit \/ net.at # "runs"
TurnDue == inbox # <<>> \/ ui.wake

CNext ==
  \/ NetStep \/ NetEnds \/ \E c \in CallNo : Receive(c) \/ CurlDone(c) \/ CurlFail(c)
  \/ \E c \in CallNo, control \in BOOLEAN, waited \in BOOLEAN : Submit(c, control, waited)
  \/ \E c \in Listed : Cancel({c})
  \/ Cancel(Listed) \/ Turn \/ UiStep \/ Wake \/ TurnFails \/ Stop
-----------------------------------------------------------------------------
Came(m, c) == Cardinality({i \in DOMAIN inbox : inbox[i] = Msg(m, c)})
InLine(m)  == Cardinality({i \in DOMAIN line : line[i].what = m})

\* The threads count each message to the UI until it is handled, and one for
\* the thread, so that at 0 nothing can come any more; a chunk takes credit
\* from when it is posted to when it is back (cli_network_post(),
\* cli_network_ended(), cli_network_chunk_returned()).
CountsTrue ==
  /\ posted = Len(inbox) + IF net.at = "over" THEN 0 ELSE 1
  /\ Joined \/ credit = InLine("back") + FoldFunction(+, 0, [c \in CallNo |->
                                             Came("chunk", c) + call[c].received])

\* The network's own messages are in its line once at most, when their bits are
\* set, and no message names a call that is freed, or that its waiter frees
\* (cli_network_queue(), cli_network_deliver()).
NoneFreed ==
  /\ \A bit \in {"PROGRESS", "CANCEL"} : InLine(bit) <= IF bit \in word THEN 1 ELSE 0
  /\ \A c \in CallNo \ Listed : /\ Came("chunk", c) + Came("done", c) + call[c].received = 0
                               /\ \A i \in DOMAIN line : line[i].call # c
                               /\ req[c].at \in {"none", "done"}

\* A request that is cancelled as it runs is about to hear of it, whichever
\* thread cancels it and whatever the other was at (cli_network_call_cancel(),
\* cli_network_curl_fail(), cli_network_cancel_message()).
CancelHeard ==
  \A c \in Running : req[c].cancelled =>
    Msg("CANCEL", 0) \in Range(line) \/ ui.at = "cancels" \/ net.at # "runs" \/ net.exit

\* A transfer is paused only as long as a chunk is out whose return lets it go
\* on (cli_network_receive(), cli_network_progress()).
HoldsOn == \A c \in Running : req[c].paused => credit > 0 \/ net.at # "runs" \/ net.exit

\* A call that has failed, or is cancelled, ends unless the UI's loop fails.
Ending(c) == call[c].at = "listed" /\ call[c].error /\ ~ui.broken
=============================================================================
