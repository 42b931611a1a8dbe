------------------------------- MODULE Child -------------------------------
(***************************************************************************)
(* Child processes of loops (src/src/child.c): from the spawn to the reap, *)
(* with a deadline, a cap on the output and an owner that may let go first.*)
(*                                                                         *)
(* The system's side is os[c]: the child itself, which leads a process     *)
(* group, a process of the group that keeps the output open, the signals   *)
(* sent to the group, and whether there is output to read.  A process may  *)
(* ignore SIGTERM.  How much is read at a time is left to chance, and every*)
(* child has a deadline, as all that the program starts do.                *)
(***************************************************************************)
EXTENDS Naturals, FiniteSets

CONSTANTS ChildId, CHILD_MAX,
          Graceful      \* the children that get SIGTERM first

VARIABLES
  child,  \* struct child of each
  os,     \* the system's part
  alive,  \* the word of that name
  ending  \* the loop stops

cvars == <<child, os, alive, ending>>

NoChild == [at |-> "none", proc |-> FALSE, pipe |-> FALSE, pid |-> FALSE, grace |-> FALSE,
            flags |-> {}, step |-> FALSE, timer |-> FALSE, late |-> FALSE, done |-> FALSE,
            held |-> FALSE, told |-> 0]
NoProcess == [leader |-> "none", other |-> FALSE, signal |-> "none", output |-> FALSE]

CTypeOK ==
  /\ child \in [ChildId -> [at : {"none", "spawn", "there", "freed"}, proc : BOOLEAN, pipe : BOOLEAN,
                            pid : BOOLEAN, grace : BOOLEAN, flags : SUBSET {"OUT", "EXIT", "DUE"},
                            step : BOOLEAN, timer : BOOLEAN, late : BOOLEAN, done : BOOLEAN,
                            held : BOOLEAN, told : 0 .. 1]]
  /\ os \in [ChildId -> [leader : {"none", "runs", "zombie", "reaped"}, other : BOOLEAN,
                         signal : {"none", "term", "kill"}, output : BOOLEAN]]
  /\ alive \in 0 .. 2 * Cardinality(ChildId) /\ ending \in BOOLEAN

CInit ==
  /\ child = [c \in ChildId |-> NoChild] /\ os = [c \in ChildId |-> NoProcess]
  /\ alive = 0 /\ ending = FALSE

\* kill() of the group, which reaches a zombie's group too.
Killed(p, kill) ==
  [p EXCEPT !.signal = IF kill \/ @ = "kill" THEN "kill" ELSE "term"]

\* child_signal() of the child x, whose process is p: the signal and the pipe.
SignalOs(x, p, kill) == IF x.pid THEN Killed(p, kill) ELSE p
Closed(x) == [x EXCEPT !.pipe = FALSE]

-----------------------------------------------------------------------------
(* The system.                                                             *)

\* The leader exits, of itself or of a signal; one that ignores SIGTERM does
\* not exit of that.
LeaderExits(c) ==
  /\ os[c].leader = "runs" /\ child[c].at = "there"
  /\ os' = [os EXCEPT ![c].leader = "zombie"]
  /\ UNCHANGED <<child, alive, ending>>

\* A process that it left behind goes too.
OtherExits(c) ==
  /\ os[c].other /\ os' = [os EXCEPT ![c].other = FALSE]
  /\ UNCHANGED <<child, alive, ending>>

\* It starts one, or writes.
Works(c) ==
  /\ os[c].leader = "runs" /\ child[c].at = "there"
  /\ \/ ~os[c].other /\ os' = [os EXCEPT ![c].other = TRUE]
     \/ ~os[c].output /\ child[c].pipe /\ os' = [os EXCEPT ![c].output = TRUE]
  /\ UNCHANGED <<child, alive, ending>>

-----------------------------------------------------------------------------
(* The owner.                                                              *)

\* child_create(), first: the count, which several loops share.
CountChild(c) ==
  /\ child[c].at = "none" /\ ~ending
  /\ alive' = alive + 1
  /\ child' = [child EXCEPT ![c].at = "spawn", ![c].held = alive < CHILD_MAX]
  /\ UNCHANGED <<os, ending>>

\* Then the spawn: refused when too many are alive, or failed at one of its
\* steps, with the process reaped at once if there was one.
Spawn(c) ==
  /\ child[c].at = "spawn"
  /\ \/ /\ child' = [child EXCEPT ![c] = [NoChild EXCEPT !.at = "freed"]]
        /\ alive' = alive - 1 /\ UNCHANGED os
     \/ /\ child[c].held
        /\ child' = [child EXCEPT ![c] = [NoChild EXCEPT
                       !.at = "there", !.proc = TRUE, !.pipe = TRUE, !.pid = TRUE,
                       !.grace = (c \in Graceful), !.timer = TRUE, !.done = TRUE, !.held = TRUE]]
        /\ os' = [os EXCEPT ![c].leader = "runs"] /\ UNCHANGED alive
  /\ UNCHANGED ending

\* What a child and its process become as child_reap() and child_dispose()
\* end them.
ReapedOs(p) == [p EXCEPT !.leader = IF @ = "zombie" THEN "reaped" ELSE @]

\* child_dispose(): the group is killed, what has exited is reaped, and all
\* is freed.
Dispose(c, x, p) ==
  /\ child' = [child EXCEPT ![c] = [NoChild EXCEPT !.at = "freed", !.told = x.told]]
  /\ os' = [os EXCEPT ![c] = [NoProcess EXCEPT !.leader = IF x.pid THEN ReapedOs(p).leader
                                                         ELSE p.leader]]
  /\ alive' = alive - (IF x.pid THEN 1 ELSE 0)

\* child_destroy(): freed if it has exited, else killed, to be freed then.
DestroyChild(c) ==
  LET x == child[c]
  IN  /\ x.at = "there" /\ x.held
      /\ IF ~x.proc THEN Dispose(c, [x EXCEPT !.done = FALSE], os[c])
         ELSE /\ child' = [child EXCEPT ![c] = [Closed(x) EXCEPT !.done = FALSE, !.held = FALSE,
                                                     !.timer = x.timer /\ x.grace]]
              /\ os' = [os EXCEPT ![c] = SignalOs(x, @, ~x.grace)]
              /\ UNCHANGED alive
      /\ UNCHANGED ending

\* child_release()
ReleaseChild(c) ==
  /\ child[c].at = "there" /\ child[c].held /\ child[c].told = 0
  /\ child' = [child EXCEPT ![c].done = FALSE, ![c].held = FALSE]
  /\ UNCHANGED <<os, alive, ending>>

\* The loop stops, and child_destroy_all() frees each.
EndLoop ==
  /\ ~ending /\ \A c \in ChildId : child[c].at # "spawn"
  /\ ending' = TRUE /\ UNCHANGED <<child, os, alive>>
DestroyAll(c) ==
  /\ ending /\ child[c].at = "there" /\ Dispose(c, child[c], os[c]) /\ UNCHANGED ending

-----------------------------------------------------------------------------
(* The loop.                                                               *)

\* child_event(): what is readable is told at each turn until it is read.
CanRead(c) == child[c].pipe /\ (os[c].output \/ (os[c].leader # "runs" /\ ~os[c].other))

ChildEvent(c) ==
  /\ child[c].at = "there" /\ ~ending
  /\ \E e \in (IF CanRead(c) THEN {"OUT"} ELSE {})
               \cup (IF child[c].proc /\ os[c].leader # "runs" THEN {"EXIT"} ELSE {}) :
       /\ e \notin child[c].flags
       /\ child' = [child EXCEPT ![c].flags = @ \cup {e}, ![c].step = TRUE]
  /\ UNCHANGED <<os, alive, ending>>

\* child_late()
ChildLate(c) ==
  /\ child[c].timer /\ ~ending
  /\ child' = [child EXCEPT ![c].timer = FALSE, ![c].flags = @ \cup {"DUE"}, ![c].step = TRUE]
  /\ UNCHANGED <<os, alive, ending>>

\* child_due(): SIGTERM and the grace, or SIGKILL.
Due(y) ==
  IF "DUE" \notin y.x.flags THEN y
  ELSE IF y.x.grace /\ ~y.x.late /\ y.x.pid
  THEN [x |-> [y.x EXCEPT !.late = TRUE, !.timer = TRUE], p |-> Killed(y.p, FALSE)]
  ELSE [x |-> Closed([y.x EXCEPT !.late = TRUE]), p |-> SignalOs(y.x, y.p, TRUE)]

\* child_read(): all there is, as much as the step may, past the cap, or to
\* the end.
ReadOutcomes(y) ==
  IF ~("OUT" \in y.x.flags /\ y.x.pipe) THEN {[y |-> y, again |-> FALSE]}
  ELSE {[y |-> [y EXCEPT !.p.output = FALSE], again |-> FALSE] : z \in {1}}
       \cup {[y |-> y, again |-> TRUE],
             [y |-> [x |-> Closed(y.x), p |-> SignalOs(y.x, y.p, ~y.x.grace)], again |-> FALSE]}
       \cup {[y |-> [y EXCEPT !.x.pipe = FALSE], again |-> FALSE] :
               z \in IF y.p.leader # "runs" /\ ~y.p.other THEN {1} ELSE {}}

\* child_exited(): its pidfd is closed, and it stays a zombie; or it was
\* reaped elsewhere.
ExitOutcomes(y) ==
  IF ~("EXIT" \in y.x.flags /\ y.x.proc) THEN {y}
  ELSE IF y.p.leader = "runs" THEN {y}
  ELSE {[y EXCEPT !.x.proc = FALSE],
        [y EXCEPT !.x.proc = FALSE, !.x.pid = FALSE, !.p.leader = "reaped"]}

\* child_step(): the deadline, the output, the exit, in this order; then the
\* end, once the child has exited and its output is all in.
ChildStep(c) ==
  /\ child[c].step /\ child[c].at = "there" /\ ~ending
  /\ \E r \in ReadOutcomes(Due([x |-> [child[c] EXCEPT !.step = FALSE], p |-> os[c]])) :
     \E z \in ExitOutcomes(r.y) :
       LET x == [z.x EXCEPT !.flags = IF r.again THEN {"OUT"} ELSE {}, !.step = r.again]
           gone == (IF child[c].pid /\ ~x.pid THEN 1 ELSE 0)
           p == IF x.pid THEN ReapedOs(z.p) ELSE z.p
           y == [x EXCEPT !.pid = FALSE, !.timer = FALSE]
       IN  IF x.proc \/ x.pipe
           THEN /\ child' = [child EXCEPT ![c] = x] /\ os' = [os EXCEPT ![c] = z.p]
                /\ alive' = alive - gone
           ELSE /\ alive' = alive - (IF child[c].pid THEN 1 ELSE 0)
                /\ os' = [os EXCEPT ![c] = [NoProcess EXCEPT !.leader = p.leader]]
                /\ child' = [child EXCEPT ![c] =
                               IF y.done THEN [y EXCEPT !.told = @ + 1]
                               ELSE [NoChild EXCEPT !.at = "freed", !.told = y.told]]
  /\ UNCHANGED ending

CSystem(c) == LeaderExits(c) \/ OtherExits(c) \/ Works(c)
COwner(c)  == CountChild(c) \/ Spawn(c) \/ DestroyChild(c) \/ ReleaseChild(c) \/ DestroyAll(c)
CLoop(c)   == ChildEvent(c) \/ ChildLate(c) \/ ChildStep(c)

CNext == EndLoop \/ \E c \in ChildId : CSystem(c) \/ COwner(c) \/ CLoop(c)

-----------------------------------------------------------------------------
\* A signal goes only to the group of a child that is not reaped, whose id is
\* nobody else's (child.h): the id is forgotten with the reap, though output
\* and deadline outlast the exit.
PidOurs == \A c \in ChildId : child[c].pid => os[c].leader \in {"runs", "zombie"}

\* The count of children not reaped is right on every way out, and those that
\* run are never more than the limit.
AliveTrue ==
  LET counted == {c \in ChildId : child[c].pid \/ child[c].at = "spawn"}
      ours == {c \in ChildId : child[c].pid \/ (child[c].at = "spawn" /\ child[c].held)}
  IN  alive = Cardinality(counted) /\ Cardinality(ours) <= CHILD_MAX

\* The owner is told once, of a child that has exited, is reaped and has no
\* output to come, and not once it has let go; nothing is left to free then.
ToldAtEnd ==
  \A c \in ChildId :
    /\ child[c].at = "there" /\ child[c].told = 1 =>
         ~child[c].proc /\ ~child[c].pipe /\ ~child[c].step /\ ~child[c].timer /\ os[c].leader = "reaped"
    /\ ~ending /\ child[c].at = "freed" => os[c].leader \in {"none", "reaped"}

=============================================================================
