----------------------------- MODULE Reasoning -----------------------------
(***************************************************************************)
(* The journal's archive of reasoning text (src/src/journal.c): a file for *)
(* each turn, which the writer appends to and a replay is compared with,   *)
(* and the commit of it.  The writer does one item after the other, so the *)
(* handling of an item is one action, with the outcomes it may have.       *)
(*                                                                         *)
(* An attempt is one reading of the provider's answer by home, from its    *)
(* first byte: an interrupted turn is read again in another attempt, whose *)
(* text begins again.  What a file or a message holds is a sequence of     *)
(* pieces of text.                                                         *)
(***************************************************************************)
EXTENDS Naturals, Sequences, FiniteSets, SequencesExt

CONSTANTS Turn,         \* turns of one job
          Piece,        \* pieces of text
          Whole,        \* the longest text
          MaxAttempts   \* bound on the attempts and on the crashes

VARIABLES
  file,     \* the text in each turn's file
  torn,     \* turns with a write's rest in the file, not in its cached size
  safe,     \* how much of it is synchronized
  cache,    \* struct journal_file of each turn: open or not, size, committed
  job,      \* thought_turn, thought_seen, thought_error
  git,      \* the text committed of each turn
  said,     \* the text that the current attempt at each turn sent so far
  tries,    \* the attempts at each turn
  turn,     \* the turn that home attempts now, or None
  final     \* whether its final commit was acknowledged

rvars == <<file, torn, safe, cache, job, git, said, tries, turn, final>>

Text == SeqOf(Piece, Whole)
None == 0      \* turns are numbered from one
Shut == [open |-> FALSE, size |-> 0, committed |-> 0]

RTypeOK ==
  /\ file \in [Turn -> Seq(Piece)] /\ torn \subseteq Turn /\ \A t \in Turn : safe[t] <= Len(file[t])
  /\ cache \in [Turn -> [open : BOOLEAN, size : Nat, committed : Nat]]
  /\ job.turn \in Turn \cup {None} /\ job.seen \in Nat /\ job.error \in BOOLEAN
  /\ said \in [Turn -> Text] /\ tries \in [Turn -> 0 .. MaxAttempts]
  /\ turn \in Turn \cup {None} /\ final \in BOOLEAN

RInit ==
  /\ file = [t \in Turn |-> <<>>] /\ torn = {} /\ safe = [t \in Turn |-> 0]
  /\ cache = [t \in Turn |-> Shut]
  /\ job = [turn |-> None, seen |-> 0, error |-> FALSE]
  /\ git = [t \in Turn |-> <<>>] /\ said = [t \in Turn |-> <<>>]
  /\ tries = [t \in Turn |-> 0] /\ turn = None /\ final = FALSE

-----------------------------------------------------------------------------

\* journal_thought_file(): from the cache, or opened, with its size now and
\* nothing known of commits.
Opened(t) == IF cache[t].open THEN cache[t]
             ELSE [open |-> TRUE, size |-> Len(file[t]), committed |-> 0]

\* journal_job.thought_*, for an item of the turn t: another turn begins anew.
Entry(t, begin) == IF begin \/ job.turn # t THEN [turn |-> t, seen |-> 0, error |-> FALSE]
                   ELSE job

\* Home begins an attempt: the turn's first follows its state record, which
\* resets the job's thought_*; a later one begins with an empty write at zero.
\* What a write left there is read as any text is, if the size is not cached.
Begin(t) ==
  /\ tries[t] < MaxAttempts /\ tries' = [tries EXCEPT ![t] = @ + 1]
  /\ job' = IF tries[t] = 0 THEN [turn |-> None, seen |-> 0, error |-> FALSE]
            ELSE Entry(t, TRUE)
  /\ said' = [said EXCEPT ![t] = <<>>]
  /\ turn' = t /\ final' = FALSE
  /\ torn' = IF cache[t].open THEN torn ELSE torn \ {t}
  /\ UNCHANGED <<file, safe, cache, git>>

\* The bytes that the file is taken to have already are those of text.
Matches(text, t, at, size) ==
  \A i \in DOMAIN text : at + i <= size => at + i <= Len(file[t]) /\ file[t][at + i] = text[i]

\* journal_thought_put() and journal_thought_write(): a piece at the offset
\* that the attempt has come to.
Put(t, p) ==
  LET e == Entry(t, FALSE)
      f == Opened(t)
      at == Len(said[t])
      new == at >= f.size             \* nothing of it is in the file yet
      fits == at <= f.size /\ Matches(<<p>>, t, at, f.size)
  IN  /\ turn = t /\ ~final /\ at < Whole /\ ~e.error
      /\ said' = [said EXCEPT ![t] = Append(@, p)]
      /\ IF fits
         THEN \/ /\ file' = IF new THEN [file EXCEPT ![t] = Append(@, p)] ELSE file
                 /\ cache' = [cache EXCEPT ![t] = IF new THEN [f EXCEPT !.size = @ + 1] ELSE f]
                 /\ job' = [e EXCEPT !.seen = at + 1] /\ UNCHANGED torn
              \* util_write_all() fails, before or after it wrote something.
              \/ /\ new
                 /\ \/ UNCHANGED <<file, torn>>
                    \/ /\ file' = [file EXCEPT ![t] = Append(@, p)]
                       /\ torn' = torn \cup {t}
                 /\ cache' = [cache EXCEPT ![t] = f]
                 /\ job' = [e EXCEPT !.error = TRUE]
         ELSE /\ job' = [e EXCEPT !.error = TRUE]
              /\ cache' = [cache EXCEPT ![t] = f] /\ UNCHANGED <<file, torn>>
      /\ UNCHANGED <<safe, git, tries, turn, final>>

\* How much of the turn's file this attempt has verified.
Seen(t, f) == IF job.turn = t THEN job.seen ELSE 0

\* journal_thought_commit(), at a boundary or, final, at the turn's end: the
\* file as it is now is hashed and the branch moves to it, or git fails.
Commit(t, finish) ==
  LET f == Opened(t)
      failed == job.turn = t /\ job.error
  IN  /\ turn = t /\ ~final
      /\ IF failed THEN UNCHANGED <<safe, cache, git, final>>
         ELSE IF f.size > 0 /\ Seen(t, f) < f.size
         THEN cache' = [cache EXCEPT ![t] = f] /\ UNCHANGED <<safe, git, final>>
         ELSE IF f.size = 0 \/ f.committed = f.size
         THEN cache' = [cache EXCEPT ![t] = f] /\ final' = finish /\ UNCHANGED <<safe, git>>
         ELSE /\ safe' = [safe EXCEPT ![t] = Len(file[t])]
              /\ \/ /\ git' = [git EXCEPT ![t] = file[t]]
                    /\ cache' = [cache EXCEPT ![t] = [f EXCEPT !.committed = f.size]]
                    /\ final' = finish
                 \* fast-import fails, before the reference moves or after it.
                 \/ /\ git' \in {git, [git EXCEPT ![t] = file[t]]}
                    /\ cache' = [cache EXCEPT ![t] = f] /\ UNCHANGED final
  /\ UNCHANGED <<file, torn, job, said, tries, turn>>

\* A file leaves the cache for another's.
Closed(t) ==
  /\ cache[t].open /\ cache' = [cache EXCEPT ![t] = Shut]
  /\ UNCHANGED <<file, torn, safe, job, git, said, tries, turn, final>>

\* The process dies and another starts: a tail that was not synchronized may
\* be lost, and every attempt has to begin anew.
Crash ==
  /\ \E n \in [Turn -> 0 .. Whole] :
       /\ \A t \in Turn : n[t] \in safe[t] .. Len(file[t])
       /\ file' = [t \in Turn |-> SubSeq(file[t], 1, n[t])]
       /\ safe' = n
  /\ cache' = [t \in Turn |-> Shut] /\ torn' = {}
  /\ job' = [turn |-> None, seen |-> 0, error |-> FALSE]
  /\ turn # None /\ turn' = None /\ final' = FALSE
  /\ UNCHANGED <<git, said, tries>>

RNext ==
  \/ \E t \in Turn : \/ Begin(t) \/ Closed(t)
                     \/ \E p \in Piece : Put(t, p)
                     \/ \E finish \in BOOLEAN : Commit(t, finish)
  \/ Crash

-----------------------------------------------------------------------------

\* "Replayed bytes must match the existing file; only a new suffix is
\* appended": the file is never more than what one attempt sent, so a turn's
\* commit is a text that the provider sent, and the final one is the whole
\* text of the attempt that ended.  Not so of a torn turn: the next attempt
\* writes at the end of a file that is longer than its cached size.
Verified ==
  turn # None /\ turn \notin torn =>
    /\ job.turn = turn /\ ~job.error /\ job.seen > 0 /\ cache[turn].open
         /\ job.seen = cache[turn].size => file[turn] = said[turn]
    /\ final => git[turn] = said[turn]
=============================================================================
