------------------------------- MODULE Roster -------------------------------
(***************************************************************************)
(* The roster (src/src/roster.c, and what src/src/mcp.c does with it): the *)
(* tool calls that run, in a table that a notifications/cancelled on any   *)
(* loop searches under a lock, and the messages that it posts afterwards   *)
(* to the loops of the calls it found, along the list that the records'    *)
(* member hit makes.                                                       *)
(*                                                                         *)
(* A record's storage is one of Cells, and is used again once it is freed.  *)
(* A call is named by a handle that no other call ever has: its number.    *)
(***************************************************************************)
EXTENDS Naturals, Sequences, FiniteSets, SequencesExt

CONSTANTS Cells,                  \* how many records there is storage for
          RosterLoop, CallKey,
          MaxCalls, MaxCancels    \* bounds

Cell   == 1 .. Cells
NoCell == 0

VARIABLES
  rec,      \* struct roster_call of each cell, and whether it is in the table
  posted,   \* the messages of records on their way
  calls,    \* the calls that run, each with its key, its loop and its record
  cancels,  \* what each loop's roster_cancel() has still to post
  entered, searched   \* calls begun, and searches made
\* History: the calls that a search named, and those a message ended.
VARIABLES named, withdrawn

rvars == <<rec, posted, calls, cancels, entered, searched, named, withdrawn>>

FreeCell == [in |-> FALSE, who |-> 0, refs |-> 0, asked |-> FALSE, hit |-> NoCell]
Idles(l) == cancels[l] = NoCell

RTypeOK ==
  /\ rec \in [Cell -> [in : BOOLEAN, who : 0 .. MaxCalls, refs : Nat, asked : BOOLEAN,
                       hit : Cell \cup {NoCell}]]
  /\ posted \subseteq Cell /\ cancels \in [RosterLoop -> Cell \cup {NoCell}]
  /\ calls \subseteq [who : 1 .. MaxCalls, key : CallKey, loop : RosterLoop, cell : Cell,
                     replies : BOOLEAN]
  /\ entered \in 0 .. MaxCalls /\ searched \in 0 .. MaxCancels
  /\ named \subseteq 1 .. MaxCalls /\ withdrawn \subseteq 1 .. MaxCalls

RInit ==
  /\ rec = [c \in Cell |-> FreeCell] /\ posted = {} /\ calls = {}
  /\ cancels = [l \in RosterLoop |-> NoCell] /\ entered = 0 /\ searched = 0
  /\ named = {} /\ withdrawn = {}

KeyOf(who) == CHOOSE k \in CallKey : \E x \in calls : x.who = who /\ x.key = k

\* roster_call_put(): the last reference frees the record.
RPut(x) == IF x.refs = 1 THEN FreeCell ELSE [x EXCEPT !.refs = @ - 1]

-----------------------------------------------------------------------------
\* mcp_req_enrol(): a tool call starts, on a loop, with a handle of its own.
Enrol(l, k, c) ==
  /\ Idles(l) /\ entered < MaxCalls /\ rec[c].refs = 0 /\ c \notin posted
  /\ entered' = entered + 1
  /\ rec' = [rec EXCEPT ![c] = [FreeCell EXCEPT !.in = TRUE, !.who = entered + 1, !.refs = 1]]
  /\ calls' = calls \cup {[who |-> entered + 1, key |-> k, loop |-> l, cell |-> c,
                           replies |-> FALSE]}
  /\ UNCHANGED <<posted, cancels, searched, named, withdrawn>>

\* mcp_req_leave(): the call ends, or becomes a task.
RLeave(x) ==
  /\ Idles(x.loop) /\ x \in calls
  /\ calls' = calls \ {x}
  /\ rec' = [rec EXCEPT ![x.cell] = RPut([@ EXCEPT !.in = FALSE])]
  /\ UNCHANGED <<posted, cancels, entered, searched, named, withdrawn>>

\* The reply begins; the call stays in the roster until its end.
Replies(x) ==
  /\ Idles(x.loop) /\ x \in calls /\ ~x.replies
  /\ calls' = (calls \ {x}) \cup {[x EXCEPT !.replies = TRUE]}
  /\ UNCHANGED <<rec, posted, cancels, entered, searched, named, withdrawn>>

\* The records that a search matches.
Matches(k) == {c \in Cell : rec[c].in /\ ~rec[c].asked /\ KeyOf(rec[c].who) = k}

\* What follows the record c on the list s.
After(s, c) == LET i == CHOOSE i \in DOMAIN s : s[i] = c
               IN  IF i = Len(s) THEN NoCell ELSE s[i + 1]

\* A mistake the checks would catch: a record asked before is matched again.
SearchAgain(l, k) ==
  LET hits == {c \in Cell : rec[c].in /\ KeyOf(rec[c].who) = k}
  IN  /\ Idles(l) /\ searched < MaxCancels /\ searched' = searched + 1
      /\ \E s \in SetToSeqs(hits) :
           /\ cancels' = [cancels EXCEPT ![l] = IF s = <<>> THEN NoCell ELSE s[1]]
           /\ rec' = [c \in Cell |-> IF c \notin hits THEN rec[c]
                                     ELSE [rec[c] EXCEPT !.asked = TRUE, !.refs = @ + 1,
                                                         !.hit = After(s, c)]]
      /\ named' = named \cup {rec[c].who : c \in hits}
      /\ UNCHANGED <<posted, calls, entered, withdrawn>>

\* roster_cancel(), under the lock: each match is asked, takes a reference and
\* goes on a list, in the order of the buckets.
Search(l, k) ==
  LET hits == Matches(k)
  IN  /\ Idles(l) /\ searched < MaxCancels /\ searched' = searched + 1
      /\ \E s \in SetToSeqs(hits) :
           /\ cancels' = [cancels EXCEPT ![l] = IF s = <<>> THEN NoCell ELSE s[1]]
           /\ rec' = [c \in Cell |-> IF c \notin hits THEN rec[c]
                                     ELSE [rec[c] EXCEPT !.asked = TRUE, !.refs = @ + 1,
                                                         !.hit = After(s, c)]]
      /\ named' = named \cup {rec[c].who : c \in hits}
      /\ UNCHANGED <<posted, calls, entered, withdrawn>>

\* Then each is posted to, its successor read before.
PostHit(l) ==
  /\ ~Idles(l)
  /\ cancels' = [cancels EXCEPT ![l] = rec[cancels[l]].hit]
  /\ posted' = posted \cup {cancels[l]}
  /\ UNCHANGED <<rec, calls, entered, searched, named, withdrawn>>

\* mcp_on_withdraw(): the call that the handle names ends, if it runs and its
\* reply has not begun; one that has begun replies.
Withdraw(c) ==
  /\ c \in posted /\ posted' = posted \ {c}
  /\ LET x == {y \in calls : y.who = rec[c].who /\ ~y.replies}
     IN  /\ \A y \in calls : y.who = rec[c].who => Idles(y.loop)
         /\ calls' = calls \ x
         /\ rec' = [rec EXCEPT ![c] = RPut(IF x = {} THEN @ ELSE RPut([@ EXCEPT !.in = FALSE]))]
         /\ withdrawn' = withdrawn \cup {y.who : y \in x}
  /\ UNCHANGED <<cancels, entered, searched, named>>

RNext ==
  \/ \E l \in RosterLoop, k \in CallKey : Search(l, k) \/ \E c \in Cell : Enrol(l, k, c)
  \/ \E x \in calls : Replies(x) \/ RLeave(x)
  \/ \E l \in RosterLoop : PostHit(l)
  \/ \E c \in Cell : Withdraw(c)

-----------------------------------------------------------------------------
\* The list that a loop's cancel has still to go along: no longer than Cells.
Ahead(l) ==
  LET from[n \in 0 .. Cells] ==
        IF n = 0 THEN cancels[l]
        ELSE IF from[n - 1] = NoCell THEN NoCell ELSE rec[from[n - 1]].hit
  IN  {from[n] : n \in 0 .. Cells} \ {NoCell}

\* A record has one reference for the table and one for a message to come or
\* on its way, at most one in its life, so that neither its posted message
\* nor the list of a search that is being posted is storage of another call.
RosterRefs ==
  \A c \in Cell :
    /\ Cardinality({l \in RosterLoop : c \in Ahead(l)}) + (IF c \in posted THEN 1 ELSE 0) <= 1
    /\ rec[c].refs = (IF rec[c].in THEN 1 ELSE 0) + (IF c \in posted THEN 1 ELSE 0)
                       + Cardinality({l \in RosterLoop : c \in Ahead(l)})

\* Only a call that a client named while it ran is ended, however late the
\* message comes and whatever has its record's storage.
OnlyNamed == withdrawn \subseteq named

=============================================================================
