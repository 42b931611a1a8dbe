------------------------------- MODULE Ledger -------------------------------
(***************************************************************************)
(* The ledger of calls that run on after their requests were answered      *)
(* (src/src/ledger.c), as the loops use it (src/src/mcp.c): records, an    *)
(* owner's timers, and an owner's waits, which the end of a record's call  *)
(* and a timer set wake by a message to the waiting call's loop.           *)
(*                                                                         *)
(* What a function does under the ledger's lock is one action.  What it    *)
(* does after, posting the waits it found and dropping the records it      *)
(* removed, are others, and the other loops run in between.  Time is the   *)
(* environment's: a timer fires, an ended record or a fired timer is old   *)
(* enough to go, and a wait's time is up, at any moment.  The bytes of     *)
(* results only make the sweep take more, from the same end.               *)
(***************************************************************************)
EXTENDS Integers, FiniteSets, IntrusiveLists

CONSTANTS Loop,       \* the client loops' threads
          Rec,        \* struct ledger_task: the records, freed and made again
          Wait,       \* struct ledger_wait, likewise
          Key,        \* owners' keys
          Anonymous,  \* those of anonymous clients' addresses
          None,       \* nullptr
          LEDGER_MAX, LEDGER_MINE, LEDGER_RUNNING, LEDGER_WAITS,
          LEDGER_TIMERS, LEDGER_OWNERS

\* Memory is finite, and keys have 64 bits.
ASSUME FiniteAssumption ==
  \A S \in {Loop, Rec, Wait, Key} : IsFiniteSet(S)

ASSUME LedgerAssumption ==
  /\ None \notin Loop \cup Rec \cup Wait \cup Key /\ Anonymous \subseteq Key
  /\ {LEDGER_MAX, LEDGER_RUNNING, LEDGER_WAITS, LEDGER_TIMERS, LEDGER_OWNERS}
       \subseteq Nat \ {0}
  /\ LEDGER_MINE \in Nat /\ LEDGER_MINE > 1

VARIABLES
  ledger,   \* struct ledger and its owners, under the lock
  rec,      \* the records
  wait,     \* the waits, and the calls that wait
  todo,     \* what each loop has yet to post and to drop, the lock released
  open      \* FALSE once ledger_destroy() has run

vars == <<ledger, rec, wait, todo, open>>

Slot == 1 .. LEDGER_TIMERS

FreeRec  == [state |-> "free", loop |-> None, asked |-> FALSE, shown |-> FALSE,
             cancel |-> FALSE, refs |-> 0]
FreeWait == [state |-> "free", loop |-> None, any |-> FALSE, posted |-> FALSE,
             mail |-> FALSE, hand |-> FALSE, covers |-> {}, refs |-> 0]
Empty    == [records |-> [k \in Key |-> <<>>], ended |-> <<>>,
             n |-> [k \in Key |-> 0], running |-> [k \in Key |-> 0],
             waits |-> [k \in Key |-> {}], n_waits |-> [k \in Key |-> 0],
             timers |-> [k \in Key |-> [i \in Slot |-> "none"]],
             owners |-> {}, n_anonymous |-> 0]
Nothing  == [hits |-> <<>>, gone |-> {}]

\* A record's call works, as a task or a job, or has ended, unread or read:
\* the kind of an ended one is of no account.  A wait's call is about to look,
\* has parked, or has its answer; "left", the wait is out of the ledger and
\* only messages hold it.
Working == {"task", "job"}
Ended   == {"ended", "told"}

TypeOK ==
  /\ ledger.records \in [Key -> Seq(Rec)] /\ ledger.ended \in Seq(Rec)
  /\ ledger.n \in [Key -> Int] /\ ledger.running \in [Key -> Int]
  /\ ledger.waits \in [Key -> SUBSET Wait] /\ ledger.n_waits \in [Key -> 0 .. LEDGER_WAITS]
  /\ ledger.timers \in [Key -> [Slot -> {"none", "set", "fired"}]]
  /\ ledger.owners \subseteq Key /\ ledger.n_anonymous \in Int
  /\ rec \in [Rec -> [state : {"free"} \cup Working \cup Ended, loop : Loop \cup {None},
                      asked : BOOLEAN, shown : BOOLEAN, cancel : BOOLEAN, refs : Nat]]
  /\ wait \in [Wait -> [state : {"free", "looks", "parked", "done", "left"},
                        loop : Loop \cup {None}, any : BOOLEAN,
                        posted : BOOLEAN, mail : BOOLEAN, hand : BOOLEAN,
                        covers : SUBSET Slot, refs : Nat]]
  /\ todo \in [Loop -> [hits : Seq(Wait), gone : SUBSET Rec]]
  /\ open \in BOOLEAN

\* ledger_create()
Init ==
  /\ ledger = Empty
  /\ rec = [r \in Rec |-> FreeRec] /\ wait = [w \in Wait |-> FreeWait]
  /\ todo = [t \in Loop |-> Nothing] /\ open = TRUE

-----------------------------------------------------------------------------
(* The functions that hold the lock.                                       *)

\* A loop runs one handler at a time, to its end.
Idle(t) ==
  /\ open /\ todo[t] = Nothing
  /\ ~\E w \in Wait : wait[w].hand /\ wait[w].loop = t

\* The records in the ledger: the table's count.
Tasks(l) == UNION {ToSet(l.records[k]) : k \in Key}
Size(l)  == Cardinality(Tasks(l))

\* The member owner of a record and of a wait in the ledger.
OwnerOf(l, r) == CHOOSE k \in Key : r \in ToSet(l.records[k])
WaitsFor(w)   == CHOOSE k \in Key : w \in ledger.waits[k]

\* A mistake the checks would catch: an owner's timers do not keep it.
GcTimers(l, K) ==
  LET idle == {k \in l.owners \cap K : l.n[k] = 0 /\ l.n_waits[k] = 0}
  IN  [l EXCEPT !.owners = @ \ idle,
                !.n_anonymous = @ - Cardinality(idle \cap Anonymous)]

\* ledger_owner_gc(), of the owners in K.
Gc(l, K) ==
  LET idle == {k \in l.owners \cap K : l.n[k] = 0 /\ l.n_waits[k] = 0
                                      /\ \A i \in Slot : l.timers[k][i] = "none"}
  IN  [l EXCEPT !.owners = @ \ idle,
                !.n_anonymous = @ - Cardinality(idle \cap Anonymous)]

\* ledger_owner_room()
Room(l, k) ==
  /\ Cardinality(l.owners) < LEDGER_OWNERS
  /\ k \in Anonymous => l.n_anonymous < LEDGER_OWNERS \div 2

Fired(l) == {x \in Key \X Slot : l.timers[x[1]][x[2]] = "fired"}

\* ledger_owner_expire(), of the timers in x.
Expired(l, x) ==
  [l EXCEPT !.timers = [k \in Key |-> [i \in Slot |->
                          IF <<k, i>> \in x THEN "none" ELSE @[k][i]]]]

\* ledger_owners_expire()
OwnersExpired(l, x) == Gc(Expired(l, x), Key)

\* ledger_owner_get(): k is an owner in the result, or could not be made.
OwnerGet(l, k, x) ==
  LET m == IF k \in l.owners \/ Room(l, k) THEN l ELSE OwnersExpired(l, x)
  IN  IF k \in m.owners \/ ~Room(m, k) THEN m
      ELSE [m EXCEPT !.owners = @ \cup {k},
                     !.n_anonymous = @ + (IF k \in Anonymous THEN 1 ELSE 0)]

\* ledger_owner_ended()
HasEnded(l, k) == \E r \in ToSet(l.records[k]) : rec[r].state \in Ended
OldestEnded(l, k) ==
  LET Ends(i) == rec[l.records[k][i]].state \in Ended
      i == CHOOSE i \in DOMAIN l.records[k] : Ends(i) /\ \A j \in 1 .. i - 1 : ~Ends(j)
  IN  l.records[k][i]

\* ledger_drop(), of each of R: its owner goes with its last.
Dropped(l, R) ==
  Gc([l EXCEPT !.records = [k \in Key |-> Among(@[k], Rec \ R)],
               !.ended   = Among(@, Rec \ R),
               !.n       = [k \in Key |-> @[k] - Cardinality(ToSet(l.records[k]) \cap R)]],
     {k \in Key : ToSet(l.records[k]) \cap R # {}})

\* ledger_owner_most(): the owners with the most ended records.
Most(l) ==
  LET ended(k) == l.n[k] - l.running[k]
  IN  {k \in l.owners : ended(k) > 0 /\ \A o \in l.owners : ended(o) <= ended(k)}

\* ledger_sweep(): the i oldest ended records go, for their time or the bytes,
\* and with room, one of the owner with the most if the ledger is still full.
\* The results a sweep can have.
Sweeps(l, room) ==
  LET swept(i) == Dropped(l, ToSet(SubSeq(l.ended, 1, i)))
      made(m) == IF ~room \/ Size(m) # LEDGER_MAX \/ Most(m) = {} THEN {m}
                 ELSE {Dropped(m, {OldestEnded(m, k)}) : k \in Most(m)}
  IN  UNION {made(swept(i)) : i \in 0 .. Len(l.ended)}

\* A mistake the checks would catch: a wait is put on a chain again.
WokenAgain(l, k) == l.waits[k]

\* A mistake the checks would catch: nobody is woken.
WokenNone(l, k) == {}

\* ledger_owner_wake(): the waits of k whose messages are not posted, each
\* put on the chain before the last.
Woken(l, k) == {w \in l.waits[k] : ~wait[w].posted}
Chained(W) ==
  [w \in Wait |-> IF w \in W THEN [wait[w] EXCEPT !.posted = TRUE, !.refs = @ + 1]
                             ELSE wait[w]]

\* What a loop that unlocks has yet to do: the waits in W, and the records
\* that left the ledger.
Owes(t, W, l) ==
  todo' = [todo EXCEPT ![t] = [hits |-> SetToSeq(W), gone |-> Tasks(ledger) \ Tasks(l)]]

-----------------------------------------------------------------------------
(* Records.                                                                *)

\* ledger_restore(), and ledger_open(), which restores one that works and
\* begins now: swept, then ledger_insert() removes the owner's oldest ended if
\* it has many.  A job restored from its journal may have begun before others.
\* The timers in x are old enough to go.
Inserted(l, k, r) ==
  LET m == IF l.n[k] >= LEDGER_MINE /\ HasEnded(l, k)
           THEN Dropped(l, {OldestEnded(l, k)}) ELSE l
  IN  {[m EXCEPT !.records[k] = InsertAt(@, i, r), !.n[k] = @ + 1] :
         i \in 1 .. Len(m.records[k]) + 1}

\* A mistake the checks would catch: one job too many.
RefusedLate(l, k, state) ==
  \/ Size(l) = LEDGER_MAX
  \/ k \notin l.owners
  \/ state = "job" /\ l.running[k] > LEDGER_RUNNING

\* The errors of ledger_insert().
Refused(l, k, state) ==
  \/ Size(l) = LEDGER_MAX
  \/ k \notin l.owners
  \/ state = "job" /\ l.running[k] >= LEDGER_RUNNING

New(t, state) ==
  [FreeRec EXCEPT !.state = state, !.loop = t, !.shown = state = "ended", !.refs = 2]

Open(t, k, r) ==
  /\ Idle(t) /\ rec[r] = FreeRec
  /\ \E s \in Sweeps(ledger, TRUE), state \in Working, x \in SUBSET Fired(ledger) :
       LET g == IF Size(s) = LEDGER_MAX THEN s ELSE OwnerGet(s, k, x)
       IN  IF Refused(g, k, state)
           THEN ledger' = g /\ Owes(t, {}, g) /\ UNCHANGED rec
           ELSE \E m \in Inserted(g, k, r) :
                  /\ ledger' = [m EXCEPT !.running[k] = @ + 1]
                  /\ rec' = [rec EXCEPT ![r] = New(t, state)]
                  /\ Owes(t, {}, m)
  /\ UNCHANGED <<wait, open>>

\* ledger_restore() of a call that ended: it wakes the owner's waits, and the
\* bytes of its result may take others, never itself.
Restore(t, k, r) ==
  /\ Idle(t) /\ rec[r] = FreeRec
  /\ \E s \in Sweeps(ledger, TRUE), x \in SUBSET Fired(ledger) :
       LET g == IF Size(s) = LEDGER_MAX THEN s ELSE OwnerGet(s, k, x)
       IN  IF Refused(g, k, "ended")
           THEN ledger' = g /\ Owes(t, {}, g) /\ UNCHANGED <<rec, wait>>
           ELSE \E i \in Inserted(g, k, r) : \E m \in Sweeps(i, FALSE) :
                  /\ rec' = [rec EXCEPT ![r] = New(t, "ended")]
                  /\ ledger' = [m EXCEPT !.ended = Append(@, r)]
                  /\ wait' = Chained(Woken(m, k))
                  /\ Owes(t, Woken(m, k), m)
  /\ UNCHANGED open

\* ledger_end(), after which the call's own reference goes
\* (mcp_req_record_end()): the sweep takes others, never this one.
End(t, r) ==
  /\ Idle(t) /\ rec[r].state \in Working /\ rec[r].loop = t
  /\ LET k == OwnerOf(ledger, r)
     IN  \E l \in Sweeps([ledger EXCEPT !.running[k] = @ - 1], FALSE) :
           /\ ledger' = [l EXCEPT !.ended = Append(@, r)]
           /\ wait' = Chained(Woken(ledger, k))
           /\ todo' = [todo EXCEPT ![t] = [hits |-> SetToSeq(Woken(ledger, k)),
                                          gone |-> {r} \cup (Tasks(ledger) \ Tasks(l))]]
  /\ rec' = [rec EXCEPT ![r].state = "ended", ![r].asked = FALSE]
  /\ UNCHANGED open

\* References for readers.  The bound: a record has one reader at a time.
Read(R) ==
  rec' = [r \in Rec |-> IF r \in R THEN [rec[r] EXCEPT !.shown = TRUE, !.refs = @ + 1]
                                   ELSE rec[r]]

\* ledger_find(): swept, and the record still there found.
Find(t, r) ==
  /\ Idle(t) /\ ~rec[r].shown
  /\ \E l \in Sweeps(ledger, FALSE) :
       ledger' = l /\ Owes(t, {}, l) /\ Read({r} \cap Tasks(l))
  /\ UNCHANGED <<wait, open>>

\* ledger_list(): all of the owner's records, and its old timers expire.
List(t, k) ==
  /\ Idle(t) /\ k \in ledger.owners
  /\ \E s \in Sweeps(ledger, FALSE), x \in SUBSET {y \in Fired(ledger) : y[1] = k} :
       LET l == Gc(Expired(s, x), {k})
       IN  /\ \A r \in ToSet(l.records[k]) : ~rec[r].shown
           /\ ledger' = l /\ Owes(t, {}, l) /\ Read(ToSet(l.records[k]))
  /\ UNCHANGED <<wait, open>>

\* A mistake the checks would catch: two references dropped for one.
PutTwice(q) == IF q.refs = 1 THEN FreeRec ELSE [q EXCEPT !.refs = @ - 2]

\* ledger_task_put(): freed at its last reference.
Put(q) == IF q.refs = 1 THEN FreeRec ELSE [q EXCEPT !.refs = @ - 1]

\* A reader lets go of the record, once it has shown its client the result of
\* a call that ended (mcp_req_task_show(), mcp_slot_client_result()), or
\* having only looked.
ReadRecord(t, r) ==
  /\ Idle(t) /\ rec[r].shown
  /\ \E s \in {rec[r].state} \cup {x \in {"told"} : rec[r].state \in Ended} :
       rec' = [rec EXCEPT ![r] = Put([@ EXCEPT !.shown = FALSE, !.state = s])]
  /\ UNCHANGED <<ledger, wait, todo, open>>

\* A reader cancels it: ledger_task_cancel(), once, and only while it works.
\* That it was asked is of no account once it has ended.
CancelRecord(t, r) ==
  /\ Idle(t) /\ rec[r].shown /\ rec[r].state \in Working /\ ~rec[r].asked
  /\ rec' = [rec EXCEPT ![r].asked = TRUE, ![r].cancel = TRUE, ![r].refs = @ + 1]
  /\ UNCHANGED <<ledger, wait, todo, open>>

\* mcp_on_task_cancel(): the call, if it runs, is aborted, and ends as any.
OnTaskCancel(t, r) ==
  /\ Idle(t) /\ rec[r].cancel /\ rec[r].loop = t
  /\ rec' = [rec EXCEPT ![r] = Put([@ EXCEPT !.cancel = FALSE])]
  /\ UNCHANGED <<ledger, wait, todo, open>>

\* ledger_remove(): a job suspended leaves the ledger once it has ended.
RemoveRecord(t, r) ==
  /\ Idle(t) /\ r \in Tasks(ledger) /\ rec[r].state \in Ended /\ rec[r].loop = t
  /\ ledger' = Dropped(ledger, {r})
  /\ Owes(t, {}, Dropped(ledger, {r}))
  /\ UNCHANGED <<rec, wait, open>>

-----------------------------------------------------------------------------
(* Timers.                                                                 *)

\* ledger_timer_set(): no wait knows of this timer.
TimerSet(t, k) ==
  /\ Idle(t)
  /\ \E x \in SUBSET Fired(ledger) :
       LET g == OwnerGet(ledger, k, x)
           l == Expired(g, {y \in x : y[1] = k})
           empty == {i \in Slot : l.timers[k][i] = "none"}
           i == CHOOSE j \in empty : \A m \in empty : j <= m
       IN  IF k \notin g.owners \/ empty = {}
           THEN ledger' = (IF k \in g.owners THEN l ELSE g) /\ UNCHANGED <<wait, todo>>
           ELSE /\ ledger' = [l EXCEPT !.timers[k][i] = "set"]
                /\ wait' = [w \in Wait |-> [Chained(Woken(l, k))[w] EXCEPT
                              !.covers = IF w \in l.waits[k] THEN @ \ {i} ELSE @]]
                /\ todo' = [todo EXCEPT ![t].hits = SetToSeq(Woken(l, k))]
  /\ UNCHANGED <<rec, open>>

\* ledger_timer_cancel(), of a timer that has not fired.
TimerCancel(t, k, i) ==
  /\ Idle(t) /\ ledger.timers[k][i] = "set"
  /\ \E x \in SUBSET {y \in Fired(ledger) : y[1] = k} :
       ledger' = Gc([Expired(ledger, x) EXCEPT !.timers[k][i] = "none"], {k})
  /\ UNCHANGED <<rec, wait, todo, open>>

TimerFires(k, i) ==
  /\ open /\ ledger.timers[k][i] = "set"
  /\ ledger' = [ledger EXCEPT !.timers[k][i] = "fired"]
  /\ UNCHANGED <<rec, wait, todo, open>>

-----------------------------------------------------------------------------
(* Waits.                                                                  *)

\* ledger_wait_enter(), then the call looks for the first time.  One that
\* names records hears of no others.
WaitEnter(t, k, w) ==
  /\ Idle(t) /\ wait[w] = FreeWait
  /\ \E x \in SUBSET Fired(ledger), any \in BOOLEAN :
       LET g == OwnerGet(ledger, k, x)
       IN  IF k \notin g.owners \/ g.n_waits[k] >= LEDGER_WAITS
           THEN ledger' = g /\ UNCHANGED wait
           ELSE /\ ledger' = [g EXCEPT !.waits[k] = @ \cup {w}, !.n_waits[k] = @ + 1]
                /\ wait' = [wait EXCEPT ![w] = [FreeWait EXCEPT
                     !.state = "looks", !.loop = t, !.any = any, !.refs = 1]]
  /\ UNCHANGED <<rec, todo, open>>

\* What ledger_tell() gives a wait: its owner's ended records that nobody has
\* read, or some of those it names.
Untold(k) == {r \in ToSet(ledger.records[k]) : rec[r].state = "ended"}
Tellings(w) ==
  LET k == WaitsFor(w)
  IN  IF wait[w].any THEN {Untold(k)}
      ELSE SUBSET {r \in ToSet(ledger.records[k]) : rec[r].state \in Ended}

\* mcp_wait_check(): with something to tell the call is done, and lets go of
\* the records once it has reported them; with nothing it parks until a
\* message or its alarm, which is set for the first timer.
WaitCheck(t, w) ==
  /\ Idle(t) /\ wait[w].state = "looks" /\ wait[w].loop = t
  /\ \E told \in Tellings(w) :
       LET k == WaitsFor(w)
           fired == {i \in Slot : ledger.timers[k][i] = "fired"}
           parks == told = {} /\ fired = {}
       IN  /\ ledger' = Expired(ledger, {k} \X fired)
           /\ rec' = [r \in Rec |-> IF r \notin told THEN rec[r]
                                   ELSE [rec[r] EXCEPT !.state = "told", !.refs = @ + 1]]
           /\ todo' = [todo EXCEPT ![t].gone = told]
           /\ wait' = [wait EXCEPT
                ![w].state = IF parks THEN "parked" ELSE "done",
                ![w].covers = {i \in Slot : parks /\ ledger.timers[k][i] = "set"}]
  /\ UNCHANGED open

\* mcp_wait_alarm(), for a timer that has fired.
WaitAlarm(t, w) ==
  /\ Idle(t) /\ wait[w].state = "parked" /\ wait[w].loop = t
  /\ \E i \in wait[w].covers : ledger.timers[WaitsFor(w)][i] # "set"
  /\ wait' = [wait EXCEPT ![w].state = "looks", ![w].covers = {}]
  /\ UNCHANGED <<ledger, rec, todo, open>>

\* A mistake the checks would catch: posted is not cleared.
OnWakeDeaf(t, w) ==
  /\ Idle(t) /\ wait[w].mail /\ wait[w].loop = t
  /\ wait' = [wait EXCEPT ![w].mail = FALSE, ![w].hand = TRUE,
                          ![w].state = IF @ = "parked" THEN "looks" ELSE @,
                          ![w].covers = {}]
  /\ UNCHANGED <<ledger, rec, todo, open>>

\* mcp_on_wake(): the message is heard before the call looks again...
OnWake(t, w) ==
  /\ Idle(t) /\ wait[w].mail /\ wait[w].loop = t
  /\ wait' = [wait EXCEPT ![w].mail = FALSE, ![w].posted = FALSE, ![w].hand = TRUE,
                          ![w].state = IF @ = "parked" THEN "looks" ELSE @,
                          ![w].covers = {}]
  /\ UNCHANGED <<ledger, rec, todo, open>>

\* ledger_wait_put()
PutWait(q) == IF q.refs = 1 THEN FreeWait ELSE [q EXCEPT !.refs = @ - 1]

\* ... and its reference goes.
WakePut(t, w) ==
  /\ wait[w].hand /\ wait[w].loop = t
  /\ wait' = [wait EXCEPT ![w] = PutWait([@ EXCEPT !.hand = FALSE])]
  /\ UNCHANGED <<ledger, rec, todo, open>>

\* ledger_wait_leave(): the call has answered, or its time is up, or it is
\* aborted.
WaitLeave(t, w) ==
  /\ Idle(t) /\ wait[w].state \in {"looks", "parked", "done"} /\ wait[w].loop = t
  /\ LET k == WaitsFor(w)
     IN  ledger' = Gc([ledger EXCEPT !.waits[k] = @ \ {w}, !.n_waits[k] = @ - 1], {k})
  /\ wait' = [wait EXCEPT ![w] = PutWait([@ EXCEPT !.state = "left", !.any = FALSE, !.covers = {}])]
  /\ UNCHANGED <<rec, todo, open>>

-----------------------------------------------------------------------------
(* The lock released.                                                      *)

\* ledger_wake(): a round posts one.
WakeNext(t) ==
  /\ todo[t].hits # <<>>
  /\ wait' = [wait EXCEPT ![Head(todo[t].hits)].mail = TRUE]
  /\ todo' = [todo EXCEPT ![t].hits = Tail(@)]
  /\ UNCHANGED <<ledger, rec, open>>

\* ledger_put_all(), and ledger_look_put() of the records a wait was told of.
PutAll(t) ==
  /\ todo[t].hits = <<>> /\ todo[t].gone # {}
  /\ rec' = [r \in Rec |-> IF r \in todo[t].gone THEN Put(rec[r]) ELSE rec[r]]
  /\ todo' = [todo EXCEPT ![t] = Nothing]
  /\ UNCHANGED <<ledger, wait, open>>

\* ledger_destroy(), once the loops have stopped and their inboxes are empty.
Destroy ==
  /\ \A t \in Loop : Idle(t)
  /\ \A w \in Wait : wait[w] = FreeWait
  /\ \A r \in Rec : rec[r].state \notin Working /\ ~rec[r].shown /\ ~rec[r].cancel
  /\ rec' = [r \in Rec |-> IF r \in Tasks(ledger) THEN Put(rec[r]) ELSE rec[r]]
  /\ ledger' = Empty /\ open' = FALSE
  /\ UNCHANGED <<wait, todo>>

\* The rest of a handler, after the lock.
Unlocked(t) == WakeNext(t) \/ PutAll(t) \/ \E w \in Wait : WakePut(t, w)

\* What a loop runs of itself: messages, alarms, and a wait's queued step.
Handlers(t) ==
  \/ \E w \in Wait : OnWake(t, w) \/ WaitCheck(t, w) \/ WaitAlarm(t, w)
  \/ \E r \in Rec : OnTaskCancel(t, r)

\* What clients' requests and their calls' ends make it run.
Calls(t) ==
  \/ \E r \in Rec : \/ \E k \in Key : Open(t, k, r) \/ Restore(t, k, r)
                    \/ End(t, r) \/ Find(t, r) \/ ReadRecord(t, r) \/ CancelRecord(t, r)
                    \/ RemoveRecord(t, r)
  \/ \E k \in Key : \/ List(t, k) \/ TimerSet(t, k)
                    \/ \E i \in Slot : TimerCancel(t, k, i)
                    \/ \E w \in Wait : WaitEnter(t, k, w)
  \/ \E w \in Wait : WaitLeave(t, w)

Next ==
  \/ \E t \in Loop : Unlocked(t) \/ Handlers(t) \/ Calls(t)
  \/ \E k \in Key, i \in Slot : TimerFires(k, i)
  \/ Destroy

\* A handler runs to its end, and a loop's turns run every message posted,
\* every alarm due and every step queued, whatever requests come in between.
Fairness ==
  \A t \in Loop : /\ WF_vars(Unlocked(t))
                  /\ \A w \in Wait : /\ SF_vars(OnWake(t, w))
                                      /\ SF_vars(WaitCheck(t, w))
                                      /\ SF_vars(WaitAlarm(t, w))

Spec == Init /\ [][Next]_vars /\ Fairness

-----------------------------------------------------------------------------
(* Properties.                                                             *)

Bit(b) == IF b THEN 1 ELSE 0

\* The places that hold a wait in the chains that loops have yet to post.
Chains(w) == UNION {{<<t, i>> : i \in {j \in DOMAIN todo[t].hits : todo[t].hits[j] = w}} :
                      t \in Loop}

(* A record has one reference for the ledger's table, one for the call that
   runs, one for each reader, one for a cancel posted and one for each loop
   that has yet to drop it; a wait one for its call and one for its message,
   chained, queued or in its handler.  At none it is freed, so no loop reads
   freed memory (ledger_task_put(), ledger_wait_put()) and nothing leaks.  *)
RefsExact ==
  /\ \A r \in Rec :
       LET holders == Bit(r \in Tasks(ledger)) + Bit(rec[r].state \in Working)
                        + Bit(rec[r].shown) + Bit(rec[r].cancel)
                        + Cardinality({t \in Loop : r \in todo[t].gone})
       IN  rec[r].refs = holders /\ (rec[r] = FreeRec <=> holders = 0)
  /\ \A w \in Wait :
       LET holders == Bit(wait[w].state \in {"looks", "parked", "done"})
                        + Bit(wait[w].posted) + Bit(wait[w].hand)
       IN  wait[w].refs = holders /\ (wait[w] = FreeWait <=> holders = 0)

(* A wait whose message is posted is on one chain once, or its message is
   queued, never both: its member hit and its message have one list each,
   however the ends of calls race the wait's handler (ledger_owner_wake(),
   ledger_wait_heard()).                                                   *)
ChainsApart ==
  \A w \in Wait : Cardinality(Chains(w)) + Bit(wait[w].mail) = Bit(wait[w].posted)

(* The ledger's counts are those of its lists: an owner's records, those that
   run and its waits, the anonymous owners, and the ended list, of the ended
   records in the table, each once.  An owner is in the table exactly while it
   has something, so that neither is an owner in use freed nor an empty one
   kept (ledger_owner_gc(), ledger_drop()).  A call that runs has its record
   there, so that its end finds the owner, whatever sweeps of others remove
   (ledger_end()).                                                         *)
OwnersExact ==
  /\ \A k \in Key :
       /\ ledger.n[k] = Len(ledger.records[k])
       /\ ledger.running[k] = Cardinality({r \in ToSet(ledger.records[k]) :
                                            rec[r].state \in Working})
       /\ ledger.n_waits[k] = Cardinality(ledger.waits[k])
       /\ k \in ledger.owners <=>
            \/ ledger.records[k] # <<>> \/ ledger.waits[k] # {}
            \/ \E i \in Slot : ledger.timers[k][i] # "none"
  /\ ledger.n_anonymous = Cardinality(ledger.owners \cap Anonymous)
  /\ \A r \in Rec : rec[r].state \in Working => r \in Tasks(ledger)
  /\ IsInjective(ledger.ended)
  /\ ToSet(ledger.ended) = {r \in Tasks(ledger) : rec[r].state \in Ended}

(* The limits of ledger.h: records, owners and anonymous owners, and the jobs
   of one owner that run at once.                                          *)
WithinLimits ==
  /\ Size(ledger) <= LEDGER_MAX /\ Cardinality(ledger.owners) <= LEDGER_OWNERS
  /\ Cardinality(ledger.owners \cap Anonymous) <= LEDGER_OWNERS \div 2
  /\ \A k \in Key : Cardinality({r \in ToSet(ledger.records[k]) :
                       rec[r].state = "job"}) <= LEDGER_RUNNING

(* No event is missed by a parked wait: if its message is not under way, no
   ended record of its owner is unread, should it wait for any, and its alarm
   is set no later than each of the owner's timers (mcp_wait_check()).     *)
NothingMissed ==
  \A w \in Wait : wait[w].state = "parked" /\ ~wait[w].posted =>
    LET k == WaitsFor(w)
    IN  /\ wait[w].any => Untold(k) = {}
        /\ \A i \in Slot : ledger.timers[k][i] # "none" => i \in wait[w].covers

(* A wait for any job whose owner has an ended one that nobody has read does
   not stay parked: its loop hears the message (mcp_on_wake()).            *)
WaitsEnd ==
  \A w \in Wait :
    (wait[w].state = "parked" /\ wait[w].any /\ Untold(WaitsFor(w)) # {})
      ~> wait[w].state # "parked"
=============================================================================
