----------------------------- MODULE HomeProofs -----------------------------
(***************************************************************************)
(* Proofs about HomeScheduler, for any jobs, principals and limits, of     *)
(* what the runs of MCQueues check of it; and that the ledger of those     *)
(* runs keeps its records, from LedgerProofs.                              *)
(*                                                                         *)
(* The functions of home.c that its handlers share are operators from      *)
(* struct home to struct home, and so each has a lemma of its own: given   *)
(* one that is sound it returns another.  A step keeps the invariant       *)
(* because each of the functions it calls does.                            *)
(***************************************************************************)
EXTENDS MCQueues, ListProofs

(***************************************************************************)
(* The inductive invariant.                                                *)
(***************************************************************************)

Struct ==
  [queue : [{0, 1} -> [Principal -> Lists(Job)]], ring : [{0, 1} -> Lists(Principal)],
   ready : [{0, 1} -> Lists(Job)], background : Lists(Job), preempting : Lists(Job),
   dropped : Lists(Job), due : SUBSET Job, owed : Int, flags : [Job -> SUBSET Flag],
   transfer : SUBSET Job, pending : SUBSET Job, thought : SUBSET Job,
   place : [Job -> Int], cuts : [Job -> Int], readied : [{0, 1} -> Int],
   running : Int, running_bg : Int, slots : Int, asking : BOOLEAN, journal : BOOLEAN,
   fifo : BOOLEAN, state : Breaker, failures : Int, probing : BOOLEAN,
   draining : BOOLEAN, armed : SUBSET Step]

Ran(h, j) == j \in h.due /\ Has(h, j, "RUNNING")

\* A queue has the jobs that wait in it, a ring the principals whose queues
\* have any, and a ready list the jobs that are ready.
Lines(h) ==
  \A c \in {0, 1} :
    /\ \A p \in Principal : ToSet(h.queue[c][p]) =
         {j \in h.due : h.flags[j] = {} /\ Class[j] = c /\ Whom(h, j) = p}
    /\ ToSet(h.ring[c]) = {p \in Principal : h.queue[c][p] # <<>>}
    /\ ToSet(h.ready[c]) = {j \in h.due : Class[j] = c /\ Has(h, j, "READY")}
    /\ h.readied[c] = Len(h.ready[c])

\* What runs in the background is on one of two lists until it is dropped.
Runs(h) ==
  /\ ToSet(h.dropped) = {j \in h.due : Has(h, j, "DROPPED")}
  /\ ToSet(h.background) \cup ToSet(h.preempting) =
       {j \in h.due : Class[j] = 1 /\ Has(h, j, "RUNNING") /\ ~Has(h, j, "DROPPED")}
  /\ ToSet(h.background) \cap ToSet(h.preempting) = {}
  /\ h.transfer \subseteq {j \in Job : Ran(h, j) /\ ~Has(h, j, "DELIVERED")}

\* The flags that a job can have at once.
Flagged(h) ==
  \A j \in Job :
    /\ j \notin h.due => h.flags[j] = {}
    /\ Has(h, j, "RUNNING") => ~Has(h, j, "READY")
    /\ Has(h, j, "DROPPED") \/ Has(h, j, "PROBE") => Has(h, j, "RUNNING")
    /\ j \in ToSet(h.preempting) => Has(h, j, "PREEMPTED")
    /\ Has(h, j, "DELIVERED") \/ (j \in h.due /\ j \in h.pending) => Has(h, j, "RUNNING")

Counted(h) ==
  /\ h.owed = Cardinality(h.due)
  /\ h.running = Cardinality({j \in Job : Ran(h, j)})
  /\ h.running_bg = Cardinality({j \in Job : Ran(h, j) /\ Class[j] = 1})

\* One probe, half-open.
Probed(h) ==
  /\ \A i, j \in h.due : Has(h, i, "PROBE") /\ Has(h, j, "PROBE") => i = j
  /\ h.probing <=> \E j \in h.due : Has(h, j, "PROBE")
  /\ h.probing => h.state = "HALF"

Placed(h) ==
  ~h.fifo => \A c \in {0, 1}, p \in Principal :
    \A i \in 1 .. Len(h.queue[c][p]) : h.place[h.queue[c][p][i]] = i

\* A job that was preempted says so, and is not about to be again.
CutsOnce(h) ==
  \A j \in Job :
    \/ h.cuts[j] = 0
    \/ h.cuts[j] = 1 /\ Has(h, j, "PREEMPTED") /\ j \notin ToSet(h.preempting)

Sound(h) ==
  /\ h \in Struct /\ Lines(h) /\ Runs(h) /\ Flagged(h) /\ Counted(h) /\ Probed(h)
  /\ Placed(h) /\ CutsOnce(h)

\* The steps that must be ready: the start step while a job could start...
Waits(h, c) == h.ready[c] # <<>> \/ h.ring[c] # <<>>
Starts(h) ==
  MayStart(h) /\ (Waits(h, 0) \/ (h.running_bg < BackgroundSlots(h) /\ Waits(h, 1))) =>
    "start" \in h.armed
\* ... and those that preempt, cancel and drain while they have jobs to.
Ends(h) ==
  /\ h.preempting # <<>> => "preempt" \in h.armed
  /\ h.dropped # <<>> => "stop" \in h.armed
  /\ h.draining /\ h.due # {} => "drain" \in h.armed

Good(h) == Sound(h) /\ Starts(h) /\ Ends(h)

-----------------------------------------------------------------------------
(* What is given, and what the types say.                                  *)

LEMMA Given ==
  /\ None \notin Job /\ IsFiniteSet(Job) /\ Class \in [Job -> {0, 1}]
  /\ Who \in [Job -> Principal] /\ FAILURES \in Nat /\ MaxCalls \in Nat
  /\ SLOTS \in Nat \ {0} /\ Slots \subseteq Nat \ {0}
  /\ \A s \in Setup : s \in [journal : BOOLEAN, asking : BOOLEAN, slots : Slots \cup {SLOTS}]
BY SchedulerAssumption

LEMMA Fields ==
  ASSUME NEW h \in Struct
  PROVE  /\ h.queue \in [{0, 1} -> [Principal -> Lists(Job)]]
         /\ h.ring \in [{0, 1} -> Lists(Principal)] /\ h.ready \in [{0, 1} -> Lists(Job)]
         /\ h.background \in Lists(Job) /\ h.preempting \in Lists(Job)
         /\ h.dropped \in Lists(Job) /\ h.due \in SUBSET Job /\ h.owed \in Int
         /\ h.flags \in [Job -> SUBSET Flag] /\ h.transfer \in SUBSET Job
         /\ h.pending \in SUBSET Job /\ h.thought \in SUBSET Job /\ h.place \in [Job -> Int]
         /\ h.cuts \in [Job -> Int] /\ h.readied \in [{0, 1} -> Int] /\ h.running \in Int
         /\ h.running_bg \in Int /\ h.slots \in Int /\ h.asking \in BOOLEAN
         /\ h.journal \in BOOLEAN /\ h.fifo \in BOOLEAN /\ h.state \in Breaker
         /\ h.failures \in Int /\ h.probing \in BOOLEAN /\ h.draining \in BOOLEAN
         /\ h.armed \in SUBSET Step
BY DEF Struct

LEMMA WhomIs ==
  ASSUME NEW h \in Struct, NEW j \in Job
  PROVE  Whom(h, j) \in Principal /\ \A r \in Struct : r.fifo = h.fifo => Whom(r, j) = Whom(h, j)
<1>1. Who[j] \in Principal
  BY Given
<1>2. (CHOOSE p \in Principal : TRUE) \in Principal
  BY <1>1
<1> QED BY <1>1, <1>2 DEF Whom

\* Who is first, and of which class.
LEMMA FirstIs ==
  ASSUME NEW h, Sound(h), NEW c \in {0, 1}
  PROVE  /\ First(h, c) # None <=> Waits(h, c)
         /\ First(h, c) # None => First(h, c) \in h.due /\ Class[First(h, c)] = c
         /\ h.ready[c] # <<>> => Has(h, First(h, c), "READY")
         /\ h.ready[c] = <<>> /\ h.ring[c] # <<>> =>
              /\ Head(h.ring[c]) \in Principal /\ Whom(h, First(h, c)) = Head(h.ring[c])
              /\ h.queue[c][Head(h.ring[c])] # <<>> /\ h.flags[First(h, c)] = {}
              /\ First(h, c) = Head(h.queue[c][Head(h.ring[c])])
<1>1. h \in Struct /\ Lines(h)
  BY DEF Sound
<1>2. h.due \subseteq Job /\ h.ready[c] \in Lists(Job) /\ h.ring[c] \in Lists(Principal)
  BY <1>1, Fields
<1>3. CASE h.ready[c] # <<>>
  <2>1. First(h, c) = Head(h.ready[c]) /\ Head(h.ready[c]) \in ToSet(h.ready[c])
    BY <1>2, <1>3, OnList DEF First
  <2> QED BY <1>1, <1>2, <1>3, <2>1, Given DEF Lines, Waits
<1>4. CASE h.ready[c] = <<>> /\ h.ring[c] # <<>>
  <2> DEFINE p == Head(h.ring[c])
  <2>1. p \in Principal /\ p \in ToSet(h.ring[c])
    BY <1>2, <1>4, OnList
  <2>2. h.queue[c][p] \in Lists(Job) /\ h.queue[c][p] # <<>>
    BY <1>1, <2>1, Fields DEF Lines
  <2>3. First(h, c) = Head(h.queue[c][p]) /\ Head(h.queue[c][p]) \in ToSet(h.queue[c][p])
    BY <1>4, <2>2, OnList DEF First
  <2>4. /\ First(h, c) \in h.due /\ h.flags[First(h, c)] = {} /\ Class[First(h, c)] = c
        /\ Whom(h, First(h, c)) = p
    <3>1. ToSet(h.queue[c][p]) = {j \in h.due : h.flags[j] = {} /\ Class[j] = c /\ Whom(h, j) = p}
      BY <1>1, <2>1 DEF Lines
    <3> QED BY <2>3, <3>1
  <2> QED BY <1>2, <1>4, <2>1, <2>2, <2>3, <2>4, Given DEF Waits
<1>5. CASE h.ready[c] = <<>> /\ h.ring[c] = <<>>
  BY <1>5 DEF First, Waits
<1> QED BY <1>3, <1>4, <1>5

LEMMA NextIs ==
  ASSUME NEW h, Sound(h)
  PROVE  /\ NextJob(h, TRUE) # None <=>
              Waits(h, 0) \/ (h.running_bg < BackgroundSlots(h) /\ Waits(h, 1))
         /\ \A start \in BOOLEAN : NextJob(h, start) # None =>
              \E c \in {0, 1} : /\ NextJob(h, start) = First(h, c)
                                /\ c = 1 => ~Waits(h, 0)
                                /\ c = 1 /\ start => h.running_bg < BackgroundSlots(h)
<1>1. h.running_bg \in Int /\ BackgroundSlots(h) \in Int
  BY Fields DEF Sound, BackgroundSlots
<1>2. \A c \in {0, 1} : First(h, c) # None <=> Waits(h, c)
  BY FirstIs
<1> QED BY <1>1, <1>2 DEF NextJob

-----------------------------------------------------------------------------
(* Changes that leave the lists as they are.                               *)

\* What the lists are about.
SameLists(h, r) ==
  /\ r.queue = h.queue /\ r.ring = h.ring /\ r.ready = h.ready
  /\ r.background = h.background /\ r.preempting = h.preempting /\ r.dropped = h.dropped
  /\ r.due = h.due /\ r.owed = h.owed /\ r.place = h.place /\ r.cuts = h.cuts
  /\ r.readied = h.readied /\ r.running = h.running /\ r.running_bg = h.running_bg
  /\ r.fifo = h.fifo

LEMMA Alike ==
  ASSUME NEW h, Sound(h), NEW r \in Struct, Probed(r), SameLists(h, r),
         \A j \in Job : /\ r.flags[j] = {} <=> h.flags[j] = {}
                        /\ Has(r, j, "READY") <=> Has(h, j, "READY")
                        /\ Has(r, j, "RUNNING") <=> Has(h, j, "RUNNING")
                        /\ Has(r, j, "DROPPED") <=> Has(h, j, "DROPPED")
                        /\ Has(r, j, "PREEMPTED") <=> Has(h, j, "PREEMPTED")
                        /\ Has(r, j, "PROBE") => Has(h, j, "PROBE")
                        /\ Has(r, j, "DELIVERED") => Has(h, j, "RUNNING"),
         \A j \in r.pending : j \in h.due => Has(h, j, "RUNNING"),
         \A j \in r.transfer : Ran(h, j) /\ ~Has(r, j, "DELIVERED")
  PROVE  Sound(r)
<1>1. /\ h \in Struct /\ Lines(h) /\ Runs(h) /\ Flagged(h) /\ Counted(h) /\ Placed(h)
      /\ CutsOnce(h)
  BY DEF Sound
<1> USE DEF SameLists
<1>2. h.due \subseteq Job /\ r.transfer \subseteq Job
  BY <1>1, Fields
<1>3. \A j \in Job : Whom(r, j) = Whom(h, j)
  BY <1>1, WhomIs
<1>4. Lines(r)
  BY <1>1, <1>2, <1>3 DEF Lines
<1>5. \A j \in Job : Ran(r, j) <=> Ran(h, j)
  BY DEF Ran
<1>6. Runs(r)
  BY <1>1, <1>2, <1>5 DEF Runs
<1>7. Flagged(r)
  BY <1>1 DEF Flagged
<1>8. Counted(r)
  BY <1>1, <1>5 DEF Counted
<1>9. Placed(r) /\ CutsOnce(r)
  BY <1>1 DEF Placed, CutsOnce
<1> QED BY <1>4, <1>6, <1>7, <1>8, <1>9 DEF Sound

LEMMA RunOn ==
  ASSUME NEW h, Sound(h)
  PROVE  /\ \A j \in h.pending : j \in h.due => Has(h, j, "RUNNING")
         /\ \A j \in Job : Has(h, j, "DELIVERED") => Has(h, j, "RUNNING")
BY Fields DEF Sound, Flagged

LEMMA ArmedIs ==
  ASSUME NEW h \in Struct, NEW s \in Step, NEW r, r = Armed(h, s)
  PROVE  /\ r \in Struct /\ r.armed = h.armed \cup {s} /\ SameLists(h, r)
         /\ r.flags = h.flags /\ r.transfer = h.transfer /\ r.pending = h.pending
         /\ r.thought = h.thought /\ r.slots = h.slots /\ r.asking = h.asking
         /\ r.journal = h.journal /\ r.state = h.state /\ r.failures = h.failures
         /\ r.probing = h.probing /\ r.draining = h.draining
BY DEF Armed, Struct, SameLists

\* A step readied: nothing else is changed.
LEMMA ArmedGood ==
  ASSUME NEW h, Sound(h), NEW s \in Step, NEW r, r = Armed(h, s)
  PROVE  Sound(r) /\ (Starts(h) => Starts(r)) /\ (Ends(h) => Ends(r))
<1>1. h \in Struct /\ Probed(h) /\ Runs(h)
  BY DEF Sound
<1> HIDE DEF Armed
<1>2. r \in Struct /\ Probed(r)
  BY <1>1, ArmedIs DEF Probed, Has, SameLists
<1>3. \A j \in r.transfer : Ran(h, j) /\ ~Has(r, j, "DELIVERED")
  BY <1>1, ArmedIs DEF Runs, Has
<1>4. Sound(r)
  <2>1. SameLists(h, r) /\ r.flags = h.flags
    BY <1>1, ArmedIs DEF SameLists
  <2>2. \A j \in Job : \A f : Has(r, j, f) <=> Has(h, j, f)
    BY <2>1 DEF Has
  <2>3. r.pending = h.pending
    BY <1>1, ArmedIs
  <2> QED BY <1>2, <1>3, <2>1, <2>2, <2>3, Alike, RunOn
<1>5. (Starts(h) => Starts(r)) /\ (Ends(h) => Ends(r))
  BY <1>1, ArmedIs DEF SameLists, Starts, Ends, MayStart, Waits, BackgroundSlots
<1> QED BY <1>4, <1>5

-----------------------------------------------------------------------------
(* Preemption.                                                             *)

\* The jobs that it chooses go from one list to the other.
LEMMA PreemptExcessGood ==
  ASSUME NEW h, Sound(h), NEW r, r = PreemptExcess(h)
  PROVE  /\ Sound(r) /\ (Starts(h) => Starts(r)) /\ (Ends(h) => Ends(r))
         /\ h.armed \subseteq r.armed /\ r.due = h.due /\ r.transfer = h.transfer
         /\ r.pending = h.pending /\ r.running_bg = h.running_bg
<1> DEFINE cut    == Among(h.background, {j \in Job : Cuttable(h, j) /\ ~Has(h, j, "PREEMPTED")})
           over   == Excess(h) - Len(h.preempting)
           n      == IF over < 0 THEN 0 ELSE IF over < Len(cut) THEN over ELSE Len(cut)
           chosen == SubSeq(cut, 1, n)
           X      == ToSet(chosen)
           stay   == Among(h.background, Job \ X)
           armed  == IF n = 0 THEN h.armed ELSE h.armed \cup {"preempt"}
           flags  == [j \in Job |-> IF j \in X THEN h.flags[j] \cup {"PREEMPTED"} ELSE h.flags[j]]
<1>1. /\ h \in Struct /\ Lines(h) /\ Runs(h) /\ Flagged(h) /\ Counted(h) /\ Placed(h)
      /\ CutsOnce(h) /\ Probed(h)
  BY DEF Sound
<1>2. /\ h.background \in Lists(Job) /\ h.preempting \in Lists(Job) /\ h.armed \subseteq Step
      /\ h.flags \in [Job -> SUBSET Flag] /\ h.due \subseteq Job
      /\ Excess(h) \in Int /\ Len(h.preempting) \in Nat
  BY <1>1, Fields, OnList DEF Excess, BackgroundSlots
<1>3. r = [h EXCEPT !.flags = flags, !.background = stay, !.preempting = h.preempting \o chosen,
                    !.armed = armed]
  BY DEF PreemptExcess
<1>4. /\ cut \in Lists(Job) /\ Len(cut) \in Nat
      /\ ToSet(cut) = ToSet(h.background) \cap
                         {j \in Job : Cuttable(h, j) /\ ~Has(h, j, "PREEMPTED")}
  BY <1>2, AmongList, OnList
<1>5. n \in 0 .. Len(cut)
  <2> HIDE DEF cut
  <2> QED BY <1>2, <1>4
<1>6. chosen \in Lists(Job) /\ X \subseteq ToSet(cut) /\ Len(chosen) = n
  <2> HIDE DEF cut, n
  <2> QED BY <1>4, <1>5, PrefixList
<1>7. X \subseteq ToSet(h.background) /\ X \subseteq Job /\ X \cap ToSet(h.preempting) = {}
      /\ \A j \in X : ~Has(h, j, "PREEMPTED") /\ Has(h, j, "RUNNING")
  BY <1>1, <1>2, <1>4, <1>6, OnList DEF Runs
<1>8. stay \in Lists(Job) /\ ToSet(stay) = ToSet(h.background) \ X
  BY <1>2, AmongList, OnList
<1>9. /\ h.preempting \o chosen \in Lists(Job)
      /\ ToSet(h.preempting \o chosen) = ToSet(h.preempting) \cup X
      /\ n = 0 => h.preempting \o chosen = h.preempting
  <2>1. ToSet(h.preempting) \cap ToSet(chosen) = {}
    BY <1>7
  <2>2. n = 0 => chosen = <<>>
    BY <1>6, OnList
  <2>3. h.preempting \o <<>> = h.preempting
    BY <1>2, OnList
  <2>4. n = 0 => h.preempting \o chosen = h.preempting
    <3> HIDE DEF chosen, n
    <3> QED BY <2>2, <2>3
  <2> HIDE DEF chosen, n
  <2> QED BY <1>2, <1>6, <2>1, <2>4, ConcatLists
<1>10. flags \in [Job -> SUBSET Flag] /\ armed \subseteq Step
  BY <1>2 DEF Flag, Step
<1> DEFINE pre == h.preempting \o chosen
<1> HIDE DEF cut, over, n, chosen, X, stay, armed, flags
<1>11. /\ r \in Struct /\ r.queue = h.queue /\ r.ring = h.ring /\ r.ready = h.ready
       /\ r.background = stay /\ r.preempting = pre /\ r.dropped = h.dropped
       /\ r.due = h.due /\ r.owed = h.owed /\ r.flags = flags /\ r.transfer = h.transfer
       /\ r.pending = h.pending /\ r.thought = h.thought /\ r.place = h.place
       /\ r.cuts = h.cuts /\ r.readied = h.readied /\ r.running = h.running
       /\ r.running_bg = h.running_bg /\ r.slots = h.slots /\ r.asking = h.asking
       /\ r.journal = h.journal /\ r.fifo = h.fifo /\ r.state = h.state
       /\ r.failures = h.failures /\ r.probing = h.probing /\ r.draining = h.draining
       /\ r.armed = armed
  <2>1. pre \in Lists(Job) /\ r = [h EXCEPT !.flags = flags, !.background = stay,
                                            !.preempting = pre, !.armed = armed]
    BY <1>3, <1>9
  <2> HIDE DEF pre
  <2> QED BY <1>1, <1>8, <1>10, <2>1, ZenonT(60) DEF Struct
<1> HIDE DEF pre
<1>12. ASSUME NEW j \in Job
       PROVE  /\ r.flags[j] = {} <=> h.flags[j] = {}
              /\ \A f : f # "PREEMPTED" => (Has(r, j, f) <=> Has(h, j, f))
              /\ Has(r, j, "PREEMPTED") <=> Has(h, j, "PREEMPTED") \/ j \in X
              /\ Ran(r, j) <=> Ran(h, j)
  BY <1>7, <1>11 DEF flags, Has, Ran
<1>13. \A j \in Job : Whom(r, j) = Whom(h, j)
  BY <1>1, <1>11, WhomIs
<1>14. Lines(r)
  BY <1>1, <1>2, <1>11, <1>12, <1>13 DEF Lines
<1>15. Runs(r)
  <2>1. /\ ToSet(r.background) = ToSet(h.background) \ X
        /\ ToSet(r.preempting) = ToSet(h.preempting) \cup X
    BY <1>8, <1>9, <1>11 DEF pre
  <2> QED BY <1>1, <1>2, <1>7, <1>11, <1>12, <2>1 DEF Runs
<1>16. Flagged(r)
  BY <1>1, <1>9, <1>11, <1>12 DEF Flagged, pre
<1>17. Counted(r) /\ Placed(r)
  BY <1>1, <1>11, <1>12, ZenonT(40) DEF Counted, Placed
<1>18. Probed(r)
  BY <1>1, <1>2, <1>11, <1>12 DEF Probed
<1>19. CutsOnce(r)
  BY <1>1, <1>7, <1>9, <1>11, <1>12 DEF CutsOnce, pre
<1>20. h.armed \subseteq r.armed
  BY <1>11 DEF armed
<1>21. Starts(h) => Starts(r)
  BY <1>11, <1>20 DEF Starts, MayStart, Waits, BackgroundSlots
<1>22. Ends(h) => Ends(r)
  BY <1>9, <1>11, <1>20 DEF Ends, pre, armed
<1> QED BY <1>11, <1>14, <1>15, <1>16, <1>17, <1>18, <1>19, <1>20, <1>21, <1>22 DEF Sound

-----------------------------------------------------------------------------
(* The breaker.                                                            *)

\* What a lemma about a function says of the fields that those who call it
\* look at after.
Onward(h, r) ==
  /\ r.due = h.due /\ r.transfer = h.transfer /\ r.pending = h.pending
  /\ r.running_bg = h.running_bg

LEMMA OpenGood ==
  ASSUME NEW h, Sound(h), ~h.probing, NEW r, r = BreakerOpen(h)
  PROVE  Sound(r) /\ Starts(r) /\ (Ends(h) => Ends(r)) /\ Onward(h, r)
<1> DEFINE q == [h EXCEPT !.state = "OPEN"]
<1>1. h \in Struct /\ Probed(h) /\ Runs(h)
  BY DEF Sound
<1>2. /\ q \in Struct /\ SameLists(h, q) /\ q.flags = h.flags /\ q.transfer = h.transfer
      /\ q.pending = h.pending /\ q.probing = h.probing /\ q.draining = h.draining
      /\ q.armed = h.armed /\ q.state = "OPEN"
  BY <1>1 DEF Struct, Breaker, SameLists
<1>3. r = Armed(q, "shed") /\ "shed" \in Step
  BY DEF BreakerOpen, Step
<1> HIDE DEF q
<1>4. \A j \in Job : \A f : Has(q, j, f) <=> Has(h, j, f)
  BY <1>2 DEF Has
<1>5. Probed(q)
  BY <1>1, <1>2, <1>4, Fields DEF Probed, SameLists
<1>6. Sound(q)
  BY <1>1, <1>2, <1>4, <1>5, Alike, RunOn DEF Runs
<1>7. Ends(h) => Ends(q)
  BY <1>2 DEF Ends, SameLists
<1>8. Sound(r) /\ (Ends(q) => Ends(r))
  BY <1>3, <1>6, ArmedGood
<1>9. Starts(r) /\ Onward(h, r)
  BY <1>2, <1>3, ArmedIs DEF Starts, MayStart, Onward, SameLists
<1> QED BY <1>7, <1>8, <1>9

\* The probe's end is heard of.
LEMMA ProbedGood ==
  ASSUME NEW h, Sound(h), NEW j \in Job, Has(h, j, "PROBE"), NEW failure \in BOOLEAN,
         NEW r, r = BreakerProbed(h, j, failure)
  PROVE  Sound(r) /\ Starts(r) /\ (Ends(h) => Ends(r)) /\ Onward(h, r)
<1> DEFINE p == [h EXCEPT !.flags[j] = @ \ {"PROBE"}, !.probing = FALSE]
           q == [p EXCEPT !.state = "CLOSED", !.failures = 0]
<1>1. h \in Struct /\ Probed(h) /\ Runs(h) /\ Flagged(h)
  BY DEF Sound
<1>2. h.flags \in [Job -> SUBSET Flag] /\ h.due \subseteq Job
  BY <1>1, Fields
<1>3. [h.flags EXCEPT ![j] = @ \ {"PROBE"}] \in [Job -> SUBSET Flag]
  BY <1>2
<1>4. /\ p \in Struct /\ SameLists(h, p) /\ p.transfer = h.transfer
      /\ p.flags = [h.flags EXCEPT ![j] = @ \ {"PROBE"}]
      /\ p.pending = h.pending /\ p.probing = FALSE /\ p.draining = h.draining
      /\ p.armed = h.armed
  BY <1>1, <1>3 DEF Struct, SameLists
<1>5. r = IF failure THEN BreakerOpen(p) ELSE PreemptExcess(Armed(q, "start"))
  BY DEF BreakerProbed
<1> HIDE DEF p
<1>15. /\ q \in Struct /\ SameLists(p, q) /\ q.transfer = p.transfer /\ q.flags = p.flags
       /\ q.pending = p.pending /\ q.probing = p.probing /\ q.draining = p.draining
       /\ q.armed = p.armed
  <2>1. p \in Struct
    BY <1>4
  <2> DEFINE m == [p EXCEPT !.state = "CLOSED"]
  <2>2. m \in Struct /\ SameLists(p, m) /\ m.flags = p.flags /\ m.transfer = p.transfer
        /\ m.pending = p.pending /\ m.probing = p.probing /\ m.draining = p.draining
        /\ m.armed = p.armed /\ m.state = "CLOSED"
    BY <2>1 DEF Struct, SameLists, Breaker
  <2>3. q = [m EXCEPT !.failures = 0]
    OBVIOUS
  <2> HIDE DEF m, q
  <2> QED BY <2>2, <2>3 DEF Struct, SameLists
<1> HIDE DEF q
<1>6. /\ q \in Struct /\ SameLists(h, q) /\ q.transfer = h.transfer /\ q.flags = p.flags
      /\ q.pending = h.pending /\ q.probing = FALSE /\ q.draining = h.draining
      /\ q.armed = h.armed
  BY <1>4, <1>15 DEF SameLists
<1>7. ASSUME NEW i \in Job
      PROVE  /\ \A f : f # "PROBE" => (Has(p, i, f) <=> Has(h, i, f))
             /\ Has(p, i, "PROBE") <=> Has(h, i, "PROBE") /\ i # j
             /\ p.flags[i] = {} <=> h.flags[i] = {}
             /\ q.flags[i] = {} <=> h.flags[i] = {}
             /\ \A f : Has(q, i, f) <=> Has(p, i, f)
  BY <1>1, <1>2, <1>4, <1>6 DEF Has, Flagged
<1>8. j \in h.due
  BY <1>1 DEF Flagged, Has
<1>9. Probed(p) /\ Probed(q)
  BY <1>1, <1>2, <1>4, <1>6, <1>7, <1>8 DEF Probed, SameLists
<1>10. Sound(p)
  <2>1. \A i \in p.transfer : Ran(h, i) /\ ~Has(p, i, "DELIVERED")
    BY <1>1, <1>4, <1>7 DEF Runs
  <2> QED BY <1>4, <1>7, <1>9, <2>1, Alike, RunOn
<1>11. Sound(q)
  <2>1. \A i \in q.transfer : Ran(h, i) /\ ~Has(q, i, "DELIVERED")
    BY <1>1, <1>6, <1>7 DEF Runs
  <2> QED BY <1>6, <1>7, <1>9, <2>1, Alike, RunOn
<1>12. (Ends(h) => Ends(p)) /\ (Ends(h) => Ends(q))
  BY <1>4, <1>6 DEF Ends, SameLists
<1>13. CASE failure
  <2>1. r = BreakerOpen(p)
    BY <1>5, <1>13
  <2>2. Sound(r) /\ Starts(r) /\ (Ends(p) => Ends(r)) /\ Onward(p, r)
    BY <1>4, <1>10, <2>1, OpenGood
  <2> QED BY <1>4, <1>12, <2>2 DEF Onward, SameLists
<1>14. CASE ~failure
  <2> DEFINE a == Armed(q, "start")
  <2>1. r = PreemptExcess(a)
    BY <1>5, <1>14
  <2>2. Sound(a) /\ (Ends(q) => Ends(a)) /\ "start" \in a.armed /\ Onward(q, a)
    BY <1>6, <1>11, ArmedGood, ArmedIs DEF Step, Onward, SameLists
  <2> HIDE DEF a
  <2>3. Sound(r) /\ (Ends(a) => Ends(r)) /\ a.armed \subseteq r.armed /\ Onward(a, r)
    BY <2>1, <2>2, PreemptExcessGood DEF Onward
  <2>4. Starts(r)
    BY <2>2, <2>3 DEF Starts
  <2> QED BY <1>6, <1>12, <2>2, <2>3, <2>4 DEF Onward, SameLists
<1> QED BY <1>13, <1>14

LEMMA NoteGood ==
  ASSUME NEW h, Good(h), NEW j \in Job, NEW failure \in BOOLEAN, NEW retry \in BOOLEAN,
         NEW r, r = BreakerNote(h, j, failure, retry)
  PROVE  Good(r) /\ Onward(h, r)
<1>1. Sound(h) /\ Starts(h) /\ Ends(h) /\ h \in Struct /\ Probed(h) /\ Runs(h)
  BY DEF Good, Sound
<1>2. CASE Has(h, j, "PROBE")
  BY <1>1, <1>2, ProbedGood DEF BreakerNote, Good
<1>3. CASE ~Has(h, j, "PROBE") /\ h.state # "CLOSED"
  BY <1>3 DEF BreakerNote, Onward
<1>4. CASE ~Has(h, j, "PROBE") /\ h.state = "CLOSED"
  <2>1. PICK m \in Int : \/ r = [h EXCEPT !.failures = m]
                         \/ r = BreakerOpen([h EXCEPT !.failures = m])
    <3>1. h.failures + 1 \in Int /\ 0 \in Int
      BY <1>1, Fields
    <3> QED BY <1>4, <3>1 DEF BreakerNote
  <2> DEFINE q == [h EXCEPT !.failures = m]
  <2>2. /\ q \in Struct /\ SameLists(h, q) /\ q.flags = h.flags /\ q.transfer = h.transfer
        /\ q.pending = h.pending /\ q.probing = h.probing /\ q.draining = h.draining
        /\ q.armed = h.armed /\ q.state = h.state /\ q.slots = h.slots
    BY <1>1 DEF Struct, SameLists
  <2>3. r = q \/ r = BreakerOpen(q)
    BY <2>1
  <2> HIDE DEF q
  <2>4. \A i \in Job : \A f : Has(q, i, f) <=> Has(h, i, f)
    BY <2>2 DEF Has
  <2>5. Probed(q)
    BY <1>1, <2>2, <2>4, Fields DEF Probed, SameLists
  <2>6. Sound(q)
    BY <1>1, <2>2, <2>4, <2>5, Alike, RunOn DEF Runs
  <2>7. Starts(q) /\ Ends(q) /\ Onward(h, q) /\ ~q.probing
    BY <1>1, <1>4, <2>2 DEF Starts, Ends, MayStart, Waits, BackgroundSlots, SameLists,
                            Onward, Probed
  <2> QED BY <2>3, <2>6, <2>7, OpenGood DEF Good, Onward
<1> QED BY <1>2, <1>3, <1>4
-----------------------------------------------------------------------------
(* A job leaves its list.                                                  *)

\* The lists that a job is on.
LEMMA OnWhich ==
  ASSUME NEW h, Sound(h), NEW j \in Job
  PROVE  /\ Queued(h, j) <=> j \in h.due /\ h.flags[j] = {}
         /\ \A c \in {0, 1}, p \in Principal : j \in ToSet(h.queue[c][p]) =>
              c = Class[j] /\ p = Whom(h, j) /\ j \in h.due /\ h.flags[j] = {}
         /\ j \in h.due /\ h.flags[j] = {} =>
              j \in ToSet(h.queue[Class[j]][Whom(h, j)])
         /\ \A c \in {0, 1} : j \in ToSet(h.ready[c]) =>
              c = Class[j] /\ j \in h.due /\ Has(h, j, "READY")
         /\ j \in ToSet(h.background) \cup ToSet(h.preempting) \cup ToSet(h.dropped) =>
              j \in h.due /\ Has(h, j, "RUNNING")
<1>1. h \in Struct /\ Lines(h) /\ Runs(h) /\ Flagged(h)
  BY DEF Sound
<1>2. Class[j] \in {0, 1} /\ Whom(h, j) \in Principal
  BY <1>1, Given, WhomIs
<1>3. \A c \in {0, 1}, p \in Principal : \A i : i \in ToSet(h.queue[c][p]) <=>
        i \in h.due /\ h.flags[i] = {} /\ Class[i] = c /\ Whom(h, i) = p
  BY <1>1 DEF Lines
<1>4. h.queue[Class[j]][Whom(h, j)] \in Lists(Job)
  BY <1>1, <1>2, Fields
<1>5. Queued(h, j) <=> j \in ToSet(h.queue[Class[j]][Whom(h, j)])
  BY <1>4, OnList DEF Queued
<1>6. Queued(h, j) <=> j \in h.due /\ h.flags[j] = {}
  BY <1>2, <1>3, <1>5
<1>7. \A c \in {0, 1}, p \in Principal : j \in ToSet(h.queue[c][p]) =>
              c = Class[j] /\ p = Whom(h, j) /\ j \in h.due /\ h.flags[j] = {}
  BY <1>3
<1>8. j \in h.due /\ h.flags[j] = {} => j \in ToSet(h.queue[Class[j]][Whom(h, j)])
  BY <1>2, <1>3
<1>9. \A c \in {0, 1} : j \in ToSet(h.ready[c]) =>
              c = Class[j] /\ j \in h.due /\ Has(h, j, "READY")
  BY <1>1 DEF Lines
<1>10. j \in ToSet(h.background) \cup ToSet(h.preempting) \cup ToSet(h.dropped) =>
              j \in h.due /\ Has(h, j, "RUNNING")
  BY <1>1 DEF Runs, Flagged
<1> QED BY <1>6, <1>7, <1>8, <1>9, <1>10

\* Fields that a job's coming off the lists it waits on leaves alone.
Rest(h, r) ==
  /\ r.background = h.background /\ r.preempting = h.preempting /\ r.dropped = h.dropped
  /\ r.due = h.due /\ r.owed = h.owed /\ r.transfer = h.transfer /\ r.pending = h.pending
  /\ r.thought = h.thought /\ r.cuts = h.cuts /\ r.running = h.running
  /\ r.running_bg = h.running_bg /\ r.slots = h.slots /\ r.asking = h.asking
  /\ r.journal = h.journal /\ r.fifo = h.fifo /\ r.state = h.state
  /\ r.failures = h.failures /\ r.probing = h.probing /\ r.draining = h.draining
  /\ r.armed = h.armed

\* What leaving its queue does: no other queue has it, and those behind come
\* a place nearer.
LEMMA UnqueueIs ==
  ASSUME NEW h, Sound(h), NEW j \in h.due, h.flags[j] = {}, NEW r, r = Unqueue(h, j)
  PROVE  /\ r \in Struct /\ Placed(r)
         /\ \A c \in {0, 1}, p \in Principal : r.queue[c][p] = Off(h.queue[c][p], j)
         /\ \A c \in {0, 1} :
              /\ ToSet(r.ring[c]) = {p \in Principal : r.queue[c][p] # <<>>}
              /\ r.ring[c] # <<>> => h.ring[c] # <<>>
         /\ Rest(h, r) /\ r.ready = h.ready /\ r.flags = h.flags /\ r.readied = h.readied
<1> DEFINE c == Class[j]
           p == Whom(h, j)
           q == h.queue[c][p]
           behind == {k \in ToSet(q) : \E a, b \in DOMAIN q : a < b /\ q[a] = j /\ q[b] = k}
           queue == [h.queue EXCEPT ![c] = [@ EXCEPT ![p] = Off(q, j)]]
           ring == [h.ring EXCEPT ![c] = IF Len(q) = 1 THEN Off(@, p) ELSE @]
           place == IF h.fifo THEN h.place
                    ELSE [k \in Job |-> h.place[k] - (IF k \in behind THEN 1 ELSE 0)]
<1>1. h \in Struct /\ Lines(h) /\ Placed(h) /\ j \in Job
  BY Fields DEF Sound
<1>2. c \in {0, 1} /\ p \in Principal /\ j \in ToSet(q)
  BY <1>1, Given, WhomIs, OnWhich
<1>3. /\ h.queue \in [{0, 1} -> [Principal -> Lists(Job)]] /\ q \in Lists(Job)
      /\ h.ring \in [{0, 1} -> Lists(Principal)] /\ h.place \in [Job -> Int]
  <2>1. h.queue \in [{0, 1} -> [Principal -> Lists(Job)]]
    BY <1>1, Fields
  <2> QED BY <1>1, <1>2, <2>1, Fields
<1>4. Off(q, j) \in Lists(Job) /\ Len(Off(q, j)) = Len(q) - 1
  BY <1>2, <1>3, OffList
<1>5. /\ queue \in [{0, 1} -> [Principal -> Lists(Job)]]
      /\ \A d \in {0, 1}, x \in Principal :
           queue[d][x] = IF d = c /\ x = p THEN Off(q, j) ELSE h.queue[d][x]
  BY <1>2, <1>3, <1>4
<1>6. ring \in [{0, 1} -> Lists(Principal)]
  BY <1>2, <1>3, OffList
<1>7. place \in [Job -> Int]
  BY <1>3
<1>8. r = [h EXCEPT !.queue = queue, !.ring = ring, !.place = place]
  BY <1>1, <1>2 DEF Unqueue
<1>14. queue \in [{0, 1} -> [Principal -> Lists(Job)]] /\ h \in Struct
  BY <1>1, <1>5
<1>15. q = h.queue[c][p] /\ c = Class[j] /\ p = Whom(h, j)
  OBVIOUS
<1>16. place = IF h.fifo THEN h.place
               ELSE [k \in Job |-> h.place[k] - (IF k \in behind THEN 1 ELSE 0)]
  OBVIOUS
<1>17. ring = [h.ring EXCEPT ![c] = IF Len(q) = 1 THEN Off(@, p) ELSE @]
  OBVIOUS
<1>18. behind = {k \in ToSet(q) : \E a, b \in DOMAIN q : a < b /\ q[a] = j /\ q[b] = k}
  OBVIOUS
<1> HIDE DEF queue, ring, place, behind
<1> HIDE DEF q
<1> HIDE DEF c, p
<1>9. /\ r \in Struct /\ r.queue = queue /\ r.ring = ring /\ r.place = place
      /\ r.ready = h.ready /\ r.background = h.background
      /\ r.preempting = h.preempting /\ r.dropped = h.dropped /\ r.due = h.due
      /\ r.owed = h.owed /\ r.flags = h.flags /\ r.transfer = h.transfer
      /\ r.pending = h.pending /\ r.thought = h.thought /\ r.cuts = h.cuts
      /\ r.readied = h.readied /\ r.running = h.running
      /\ r.running_bg = h.running_bg /\ r.slots = h.slots /\ r.asking = h.asking
      /\ r.journal = h.journal /\ r.fifo = h.fifo /\ r.state = h.state
      /\ r.failures = h.failures /\ r.probing = h.probing
      /\ r.draining = h.draining /\ r.armed = h.armed
  BY <1>6, <1>7, <1>8, <1>14, ZenonT(60) DEF Struct
<1>10. \A d \in {0, 1}, x \in Principal :
         (d # c \/ x # p) => j \notin ToSet(h.queue[d][x])
  BY <1>1, <1>15, OnWhich
<1>11. \A d \in {0, 1}, x \in Principal : queue[d][x] = Off(h.queue[d][x], j)
  <2>1. \A l : j \notin ToSet(l) => Off(l, j) = l
    BY DEF Off
  <2> QED BY <1>5, <1>10, <1>15, <2>1
<1>12. ASSUME NEW d \in {0, 1}
       PROVE  /\ ToSet(ring[d]) = {x \in Principal : queue[d][x] # <<>>}
              /\ ring[d] # <<>> => h.ring[d] # <<>>
  <2>1. ToSet(h.ring[d]) = {x \in Principal : h.queue[d][x] # <<>>}
    BY <1>1 DEF Lines
  <2>2. Off(q, j) = <<>> <=> Len(q) = 1
    <3>1. Len(q) \in Nat /\ (Off(q, j) = <<>> <=> Len(Off(q, j)) = 0)
      BY <1>3, <1>4, OnList
    <3> QED BY <1>4, <3>1
  <2>3. q # <<>>
    BY <1>2, <1>3, OnList
  <2>4. ToSet(ring[d]) = IF d = c /\ Len(q) = 1 THEN ToSet(h.ring[d]) \ {p} ELSE ToSet(h.ring[d])
    <3>1. ring[d] = IF d = c /\ Len(q) = 1 THEN Off(h.ring[d], p) ELSE h.ring[d]
      BY <1>2, <1>3, <1>17
    <3>2. ToSet(Off(h.ring[d], p)) = ToSet(h.ring[d]) \ {p}
      BY <1>3, OffList
    <3> QED BY <3>1, <3>2
  <2>5. ToSet(ring[d]) = {x \in Principal : queue[d][x] # <<>>}
    BY <1>2, <1>5, <1>15, <2>1, <2>2, <2>3, <2>4
  <2>6. ring[d] # <<>> => h.ring[d] # <<>>
    BY <1>3, <1>6, <2>4, OnList
  <2> QED BY <2>5, <2>6
<1>13. Placed(r)
  <2> SUFFICES ASSUME ~h.fifo, NEW d \in {0, 1}, NEW x \in Principal,
                      NEW i \in 1 .. Len(queue[d][x])
               PROVE  place[queue[d][x][i]] = i
    BY <1>9 DEF Placed
  <2>1. place = [k \in Job |-> h.place[k] - (IF k \in behind THEN 1 ELSE 0)]
    BY <1>16
  <2>2. \A k \in 1 .. Len(h.queue[d][x]) : h.place[h.queue[d][x][k]] = k
    BY <1>1 DEF Placed
  <2>3. h.queue[d][x] \in Lists(Job)
    BY <1>3
  <2>4. CASE d = c /\ x = p
    <3>1. PICK at \in 1 .. Len(q) : q[at] = j
      BY <1>2, <1>3, OnList
    <3>2. \A k \in 1 .. Len(q) : h.place[q[k]] = k /\ q[k] \in Job
      <4>1. \A k \in 1 .. Len(q) : h.place[q[k]] = k
        BY <1>15, <2>2, <2>4
      <4>2. \A k \in 1 .. Len(q) : q[k] \in Job
        BY <1>3, OnList
      <4> QED BY <4>1, <4>2
    <3>3. \A k \in 1 .. Len(q) : q[k] \in behind <=> at < k
      <4>1. DOMAIN q = 1 .. Len(q) /\ \A a, b \in 1 .. Len(q) : q[a] = q[b] => a = b
        BY <1>3, OnList
      <4>2. \A k \in 1 .. Len(q) : q[k] \in ToSet(q)
        BY <4>1 DEF ToSet
      <4> QED BY <1>18, <3>1, <4>1, <4>2
    <3>4. \A k \in 1 .. Len(q) : place[q[k]] = IF at < k THEN k - 1 ELSE k
      BY <2>1, <3>2, <3>3
    <3>5. /\ queue[d][x] = Off(q, q[at]) /\ Len(queue[d][x]) = Len(q) - 1
          /\ Len(q) \in Nat
      BY <1>3, <1>4, <1>5, <2>4, <3>1, OnList
    <3>6. queue[d][x][i] = IF i < at THEN q[i] ELSE q[i + 1]
      <4>1. \A k \in 1 .. Len(q) - 1 : Off(q, q[at])[k] = IF k < at THEN q[k] ELSE q[k + 1]
        <5>1. q \in Lists(Job) /\ at \in 1 .. Len(q)
          BY <1>3, <3>1
        <5>2. \A T : \A l \in Lists(T) : \A a \in 1 .. Len(l) : \A k \in 1 .. Len(l) - 1 :
                Off(l, l[a])[k] = IF k < a THEN l[k] ELSE l[k + 1]
          BY OffAt
        <5> QED BY <5>1, <5>2, Zenon
      <4>2. i \in 1 .. Len(q) - 1
        BY <3>5
      <4> QED BY <3>5, <4>1, <4>2
    <3> QED BY <3>1, <3>4, <3>5, <3>6
  <2>5. CASE d # c \/ x # p
    <3>1. queue[d][x] = h.queue[d][x]
      BY <1>5, <2>5
    <3> DEFINE k == h.queue[d][x][i]
    <3>2. k \in ToSet(h.queue[d][x]) /\ k \in Job
      BY <2>3, <3>1, OnList
    <3>3. k \notin ToSet(q)
      BY <1>1, <1>2, <1>15, <2>5, <3>2, OnWhich
    <3>4. place[k] = h.place[k] /\ h.place[k] = i
      <4>1. k \notin behind
        BY <1>18, <3>3
      <4>2. h.place[k] = i /\ i \in Int
        BY <2>2, <3>1
      <4> HIDE DEF k
      <4> QED BY <2>1, <3>2, <4>1, <4>2
    <3> QED BY <3>1, <3>4
  <2> QED BY <2>4, <2>5
<1> QED BY <1>9, <1>11, <1>12, <1>13 DEF Rest
\* Fields that have nothing to do with who is on a list.
Beside(h, r) ==
  /\ r.pending = h.pending /\ r.slots = h.slots /\ r.asking = h.asking
  /\ r.journal = h.journal /\ r.fifo = h.fifo /\ r.state = h.state
  /\ r.failures = h.failures /\ r.draining = h.draining

\* A job is gone from all that h had of it.
Gone(h, r, j) ==
  LET f == h.flags[j]
      ran == IF "RUNNING" \in f THEN 1 ELSE 0
  IN  /\ \A c \in {0, 1} :
           /\ \A p \in Principal : r.queue[c][p] = Off(h.queue[c][p], j)
           /\ ToSet(r.ring[c]) = {p \in Principal : r.queue[c][p] # <<>>}
           /\ r.ring[c] # <<>> => h.ring[c] # <<>>
           /\ r.ready[c] = Off(h.ready[c], j)
           /\ r.readied[c] = h.readied[c] - (IF c = Class[j] /\ "READY" \in f THEN 1 ELSE 0)
      /\ r.background = Off(h.background, j) /\ r.preempting = Off(h.preempting, j)
      /\ r.dropped = Off(h.dropped, j) /\ r.due = h.due \ {j} /\ r.owed = h.owed - 1
      /\ r.flags = [h.flags EXCEPT ![j] = {}] /\ r.cuts = [h.cuts EXCEPT ![j] = 0]
      /\ r.transfer = h.transfer
      /\ r.running = h.running - ran /\ r.running_bg = h.running_bg - ran * Class[j]
      /\ r.probing = (h.probing /\ ~("RUNNING" \in f /\ "PROBE" \in f))
      /\ r.armed = h.armed \cup (IF "RUNNING" \in f THEN {"start"} ELSE {})

LEMMA EndIs ==
  ASSUME NEW h, Sound(h), NEW j \in h.due, NEW r, r = End(h, j)
  PROVE  r \in Struct /\ Placed(r) /\ Gone(h, r, j) /\ Beside(h, r)
<1> DEFINE c == Class[j]
           q == IF Queued(h, j) THEN Unqueue(h, j) ELSE h
           f == h.flags[j]
           one == IF "READY" \in f THEN 1 ELSE 0
           ran == IF "RUNNING" \in f THEN 1 ELSE 0
           ready == [h.ready EXCEPT ![c] = Off(@, j)]
           background == Off(h.background, j)
           preempting == Off(h.preempting, j)
           dropped == Off(h.dropped, j)
           readied == [h.readied EXCEPT ![c] = @ - one]
           running == h.running - ran
           running_bg == h.running_bg - (IF ran = 1 THEN c ELSE 0)
           probing == h.probing /\ ~("RUNNING" \in f /\ "PROBE" \in f)
           armed == h.armed \cup (IF "RUNNING" \in f THEN {"start"} ELSE {})
           flags == [h.flags EXCEPT ![j] = {}]
           place == [q.place EXCEPT ![j] = 0]
           cuts == [h.cuts EXCEPT ![j] = 0]
<1>1. h \in Struct /\ Lines(h) /\ Placed(h) /\ j \in Job /\ c \in {0, 1}
  <2>1. h \in Struct /\ j \in Job
    BY Fields DEF Sound
  <2> QED BY <2>1, Given DEF Sound
<1>2. /\ q \in Struct /\ Placed(q)
      /\ \A d \in {0, 1}, p \in Principal : q.queue[d][p] = Off(h.queue[d][p], j)
      /\ \A d \in {0, 1} :
           /\ ToSet(q.ring[d]) = {p \in Principal : q.queue[d][p] # <<>>}
           /\ q.ring[d] # <<>> => h.ring[d] # <<>>
      /\ q.ready = h.ready /\ q.background = h.background
      /\ q.preempting = h.preempting /\ q.dropped = h.dropped /\ q.due = h.due
      /\ q.owed = h.owed /\ q.flags = h.flags /\ q.transfer = h.transfer
      /\ q.pending = h.pending /\ q.thought = h.thought /\ q.cuts = h.cuts
      /\ q.readied = h.readied /\ q.running = h.running
      /\ q.running_bg = h.running_bg /\ q.slots = h.slots /\ q.asking = h.asking
      /\ q.journal = h.journal /\ q.fifo = h.fifo /\ q.state = h.state
      /\ q.failures = h.failures /\ q.probing = h.probing
      /\ q.draining = h.draining /\ q.armed = h.armed
  <2>1. CASE Queued(h, j)
    <3>1. q = Unqueue(h, j) /\ h.flags[j] = {}
      BY <1>1, <2>1, OnWhich
    <3> HIDE DEF q
    <3> QED BY <3>1, UnqueueIs DEF Rest
  <2>2. CASE ~Queued(h, j)
    <3>1. q = h
      BY <2>2
    <3>2. \A d \in {0, 1}, p \in Principal : j \notin ToSet(h.queue[d][p])
      BY <1>1, <2>2, OnWhich
    <3> HIDE DEF q
    <3> QED BY <1>1, <3>1, <3>2 DEF Off, Lines
  <2> QED BY <2>1, <2>2
<1>3. q = IF Queued(h, j) THEN Unqueue(h, j) ELSE h
  OBVIOUS
<1> HIDE DEF q
<1>4. /\ h.ready \in [{0, 1} -> Lists(Job)] /\ h.flags \in [Job -> SUBSET Flag]
      /\ h.readied \in [{0, 1} -> Int] /\ h.cuts \in [Job -> Int] /\ q.place \in [Job -> Int]
      /\ h.background \in Lists(Job) /\ h.preempting \in Lists(Job) /\ h.dropped \in Lists(Job)
      /\ h.due \subseteq Job /\ h.owed \in Int /\ h.thought \subseteq Job
      /\ h.running \in Int /\ h.running_bg \in Int /\ h.probing \in BOOLEAN
      /\ h.armed \subseteq Step
  BY <1>1, <1>2, Fields
<1> DEFINE a == Unlisted(q, j)
           u == [a EXCEPT !.due = @ \ {j}, !.readied[c] = @ - one]
           t == Retire(h, j)
           v == Reset(t, j)
           due == h.due \ {j}
           thought == h.thought \ {j}
           owed == h.owed - 1
<1>12. /\ ready \in [{0, 1} -> Lists(Job)] /\ background \in Lists(Job)
       /\ preempting \in Lists(Job) /\ dropped \in Lists(Job) /\ due \in SUBSET Job
       /\ readied \in [{0, 1} -> Int]
  <2>1. /\ ready \in [{0, 1} -> Lists(Job)] /\ background \in Lists(Job)
        /\ preempting \in Lists(Job) /\ dropped \in Lists(Job)
    BY <1>1, <1>4, OffList
  <2>2. one \in Int
    OBVIOUS
  <2> HIDE DEF one
  <2>3. due \in SUBSET Job /\ readied \in [{0, 1} -> Int]
    BY <1>1, <1>4, <2>2
  <2> HIDE DEF ready, background, preempting, dropped, due, readied
  <2> QED BY <2>1, <2>3
<1>13. /\ running \in Int /\ running_bg \in Int /\ probing \in BOOLEAN /\ armed \in SUBSET Step
       /\ flags \in [Job -> SUBSET Flag] /\ thought \in SUBSET Job /\ place \in [Job -> Int]
       /\ cuts \in [Job -> Int] /\ owed \in Int
  <2>1. running \in Int /\ running_bg \in Int /\ owed \in Int
    BY <1>1, <1>4
  <2>2. probing \in BOOLEAN /\ armed \in SUBSET Step
    BY <1>4 DEF Step
  <2>3. /\ flags \in [Job -> SUBSET Flag] /\ thought \in SUBSET Job /\ place \in [Job -> Int]
        /\ cuts \in [Job -> Int]
    BY <1>1, <1>4
  <2> QED BY <2>1, <2>2, <2>3
<1>5. a = [q EXCEPT !.ready = ready, !.background = background, !.preempting = preempting,
                    !.dropped = dropped]
  BY <1>2 DEF Unlisted
<1>6. t = IF "RUNNING" \in f
          THEN Armed([u EXCEPT !.running = @ - 1, !.running_bg = @ - c,
                               !.probing = @ /\ ~("PROBE" \in f)], "start")
          ELSE u
  BY <1>3 DEF Retire, Has
<1>7. a.due = h.due /\ a.readied = h.readied
  <2> HIDE DEF a, ready, background, preempting, dropped
  <2> QED BY <1>2, <1>5 DEF Struct
<1>8. u = [a EXCEPT !.due = due, !.readied = readied]
  <2> HIDE DEF a
  <2> QED BY <1>7
<1> HIDE DEF a, u
<1> HIDE DEF ready, background, preempting, dropped, due, readied
<1>9. u = [q EXCEPT !.ready = ready, !.background = background, !.preempting = preempting,
                    !.dropped = dropped, !.due = due, !.readied = readied]
  BY <1>5, <1>8
<1>10. /\ u.running = h.running /\ u.running_bg = h.running_bg /\ u.probing = h.probing
       /\ u.armed = h.armed
  BY <1>2, <1>9 DEF Struct
<1>11. t = [u EXCEPT !.running = running, !.running_bg = running_bg, !.probing = probing,
                     !.armed = armed]
  <2>1. CASE "RUNNING" \in f
    BY <1>6, <1>10, <2>1 DEF Armed
  <2>2. CASE "RUNNING" \notin f
    <3>1. /\ running = u.running /\ running_bg = u.running_bg /\ probing = u.probing
          /\ armed = u.armed /\ t = u
      BY <1>4, <1>6, <1>10, <2>2
    <3>2. u \in Struct
      BY <1>2, <1>9, <1>12 DEF Struct
    <3> QED BY <3>1, <3>2 DEF Struct
  <2> QED BY <2>1, <2>2
<1>14. v = [t EXCEPT !.flags = flags, !.thought = thought, !.place = place, !.cuts = cuts]
  <2> HIDE DEF running, running_bg, probing, armed, t
  <2>1. t = [q EXCEPT !.ready = ready, !.background = background, !.preempting = preempting,
                      !.dropped = dropped, !.due = due, !.readied = readied,
                      !.running = running, !.running_bg = running_bg, !.probing = probing,
                      !.armed = armed]
    BY <1>9, <1>11
  <2>2. /\ t.flags = h.flags /\ t.thought = h.thought /\ t.place = q.place
        /\ t.cuts = h.cuts
    BY <1>2, <2>1 DEF Struct
  <2> QED BY <2>2 DEF Reset
<1> HIDE DEF running, running_bg, probing, armed, t
<1>15. v = [q EXCEPT !.ready = ready, !.background = background, !.preempting = preempting,
                     !.dropped = dropped, !.due = due, !.readied = readied,
                     !.running = running, !.running_bg = running_bg, !.probing = probing,
                     !.armed = armed, !.flags = flags, !.thought = thought,
                     !.place = place, !.cuts = cuts]
  BY <1>9, <1>11, <1>14
<1> HIDE DEF v, flags, thought, place, cuts
<1>16. v.owed = h.owed
  BY <1>2, <1>15 DEF Struct
<1>17. r = [v EXCEPT !.owed = owed]
  BY <1>16 DEF End, v, t
<1> HIDE DEF owed
<1>18. r = [q EXCEPT !.ready = ready, !.background = background, !.preempting = preempting,
                     !.dropped = dropped, !.due = due, !.readied = readied,
                     !.running = running, !.running_bg = running_bg, !.probing = probing,
                     !.armed = armed, !.flags = flags, !.thought = thought,
                     !.place = place, !.cuts = cuts, !.owed = owed]
  BY <1>15, <1>17
<1>19. /\ r.queue = q.queue /\ r.ring = q.ring /\ r.ready = ready /\ r.background = background
       /\ r.preempting = preempting /\ r.dropped = dropped /\ r.due = due
       /\ r.owed = owed /\ r.flags = flags /\ r.transfer = h.transfer
       /\ r.pending = h.pending /\ r.place = place
       /\ r.cuts = cuts /\ r.readied = readied /\ r.running = running
       /\ r.running_bg = running_bg /\ r.slots = h.slots /\ r.asking = h.asking
       /\ r.journal = h.journal /\ r.fifo = h.fifo /\ r.state = h.state
       /\ r.failures = h.failures /\ r.probing = probing /\ r.draining = h.draining
       /\ r.armed = armed
  BY <1>2, <1>18 DEF Struct
<1>20. r \in Struct
  <2>1. u \in Struct
    BY <1>2, <1>9, <1>12 DEF Struct
  <2>2. t \in Struct
    BY <1>11, <1>13, <2>1 DEF Struct
  <2>3. v \in Struct
    BY <1>13, <1>14, <2>2 DEF Struct
  <2> QED BY <1>13, <1>17, <2>3 DEF Struct
<1>21. Placed(r)
  <2> SUFFICES ASSUME ~h.fifo, NEW d \in {0, 1}, NEW p \in Principal,
                      NEW i \in 1 .. Len(q.queue[d][p])
               PROVE  place[q.queue[d][p][i]] = i
    BY <1>19 DEF Placed
  <2>1. q.place[q.queue[d][p][i]] = i
    BY <1>2 DEF Placed
  <2>2. q.queue[d][p] \in Lists(Job) /\ h.queue[d][p] \in Lists(Job)
    BY <1>1, <1>2, Fields
  <2>3. q.queue[d][p][i] \in ToSet(q.queue[d][p]) /\ q.queue[d][p][i] \in Job
    BY <2>2, OnList
  <2>4. ToSet(q.queue[d][p]) = ToSet(h.queue[d][p]) \ {j}
    <3>1. ToSet(Off(h.queue[d][p], j)) = ToSet(h.queue[d][p]) \ {j}
      BY <2>2, OffList
    <3> QED BY <1>2, <3>1
  <2>5. q.queue[d][p][i] # j
    BY <2>3, <2>4
  <2> QED BY <1>4, <2>1, <2>3, <2>5 DEF place
<1>22. Gone(h, r, j)
  <2>1. ASSUME NEW d \in {0, 1}
        PROVE  /\ \A p \in Principal : r.queue[d][p] = Off(h.queue[d][p], j)
               /\ ToSet(r.ring[d]) = {p \in Principal : r.queue[d][p] # <<>>}
               /\ r.ring[d] # <<>> => h.ring[d] # <<>>
    BY <1>2, <1>19
  <2>2. ASSUME NEW d \in {0, 1}
        PROVE  r.ready[d] = Off(h.ready[d], j)
    <3>1. d # c => Off(h.ready[d], j) = h.ready[d]
      BY <1>1, OnWhich DEF Off
    <3> QED BY <1>1, <1>4, <1>19, <3>1 DEF ready
  <2>3. ASSUME NEW d \in {0, 1}
        PROVE  r.readied[d] = h.readied[d] - (IF d = c /\ "READY" \in f THEN 1 ELSE 0)
    BY <1>1, <1>4, <1>19 DEF readied
  <2>4. /\ r.background = Off(h.background, j) /\ r.preempting = Off(h.preempting, j)
        /\ r.dropped = Off(h.dropped, j) /\ r.due = h.due \ {j} /\ r.owed = h.owed - 1
        /\ r.flags = [h.flags EXCEPT ![j] = {}] /\ r.cuts = [h.cuts EXCEPT ![j] = 0]
        /\ r.transfer = h.transfer /\ r.running = h.running - ran
        /\ r.probing = (h.probing /\ ~("RUNNING" \in f /\ "PROBE" \in f))
        /\ r.armed = h.armed \cup (IF "RUNNING" \in f THEN {"start"} ELSE {})
    BY <1>19 DEF background, preempting, dropped, due, owed, flags, cuts, running, probing, armed
  <2>5. r.running_bg = h.running_bg - ran * c
    BY <1>1, <1>4, <1>19 DEF running_bg
  <2> QED BY <2>1, <2>2, <2>3, <2>4, <2>5 DEF Gone
<1> QED BY <1>19, <1>20, <1>21, <1>22 DEF Beside

\* One of a set less.
LEMMA OneLess ==
  ASSUME NEW S \in SUBSET Job, NEW j, NEW T, T = S \ {j}
  PROVE  /\ Cardinality(S) \in Nat
         /\ Cardinality(T) = Cardinality(S) - (IF j \in S THEN 1 ELSE 0)
<1>1. IsFiniteSet(S)
  BY Given, FS_Subset
<1>2. Cardinality(S) \in Nat
  BY <1>1, FS_CardinalityType
<1>3. CASE j \in S
  BY <1>1, <1>2, <1>3, FS_RemoveElement
<1>4. CASE j \notin S
  <2>1. T = S
    BY <1>4
  <2>2. Cardinality(T) = Cardinality(S)
    BY <2>1
  <2> QED BY <1>2, <1>4, <2>2
<1> QED BY <1>2, <1>3, <1>4

LEMMA EndGood ==
  ASSUME NEW h, Sound(h), NEW j \in h.due, j \notin h.transfer, NEW r, r = End(h, j)
  PROVE  /\ Sound(r) /\ (Starts(h) => Starts(r)) /\ (Ends(h) => Ends(r))
         /\ h.armed \subseteq r.armed /\ r.running_bg <= h.running_bg
<1> HIDE DEF End
<1>1. /\ h \in Struct /\ Lines(h) /\ Runs(h) /\ Flagged(h) /\ Counted(h) /\ Probed(h)
      /\ CutsOnce(h)
  BY DEF Sound
<1>2. r \in Struct /\ Placed(r) /\ Gone(h, r, j) /\ Beside(h, r)
  BY EndIs
<1>3. j \in Job /\ h.due \subseteq Job /\ h.flags \in [Job -> SUBSET Flag] /\ Class[j] \in {0, 1}
  <2>1. j \in Job /\ h.due \subseteq Job
    BY <1>1, Fields
  <2> QED BY <1>1, <2>1, Fields, Given
<1>4. r.due = h.due \ {j} /\ r.transfer = h.transfer /\ r.flags = [h.flags EXCEPT ![j] = {}]
  BY <1>2 DEF Gone
<1>5. ASSUME NEW i \in Job
      PROVE  /\ i # j => r.flags[i] = h.flags[i]
             /\ r.flags[j] = {}
             /\ Whom(r, i) = Whom(h, i)
             /\ Ran(r, i) <=> Ran(h, i) /\ i # j
             /\ \A f : Has(r, i, f) <=> Has(h, i, f) /\ i # j
  <2>1. r.fifo = h.fifo
    BY <1>2 DEF Beside
  <2>2. Whom(r, i) = Whom(h, i)
    BY <1>1, <1>2, <2>1, WhomIs
  <2> QED BY <1>3, <1>4, <2>2 DEF Has, Ran
<1>6. Lines(r)
  <2> SUFFICES ASSUME NEW c \in {0, 1}
               PROVE  /\ \A p \in Principal : ToSet(r.queue[c][p]) =
                           {i \in r.due : r.flags[i] = {} /\ Class[i] = c /\ Whom(r, i) = p}
                      /\ ToSet(r.ring[c]) = {p \in Principal : r.queue[c][p] # <<>>}
                      /\ ToSet(r.ready[c]) = {i \in r.due : Class[i] = c /\ Has(r, i, "READY")}
                      /\ r.readied[c] = Len(r.ready[c])
    BY DEF Lines
  <2>1. ASSUME NEW p \in Principal
        PROVE  ToSet(r.queue[c][p]) =
                 {i \in r.due : r.flags[i] = {} /\ Class[i] = c /\ Whom(r, i) = p}
    <3>1. r.queue[c][p] = Off(h.queue[c][p], j) /\ h.queue[c][p] \in Lists(Job)
      BY <1>1, <1>2, Fields DEF Gone
    <3>2. ToSet(r.queue[c][p]) = ToSet(h.queue[c][p]) \ {j}
      BY <3>1, OffList
    <3>3. ToSet(h.queue[c][p]) =
            {i \in h.due : h.flags[i] = {} /\ Class[i] = c /\ Whom(h, i) = p}
      BY <1>1 DEF Lines
    <3> QED BY <1>3, <1>4, <1>5, <3>2, <3>3
  <2>2. r.ready[c] = Off(h.ready[c], j) /\ h.ready[c] \in Lists(Job)
    BY <1>1, <1>2, Fields DEF Gone
  <2>3. /\ ToSet(r.ready[c]) = ToSet(h.ready[c]) \ {j} /\ Len(h.ready[c]) \in Nat
        /\ Len(r.ready[c]) = IF j \in ToSet(h.ready[c]) THEN Len(h.ready[c]) - 1
                             ELSE Len(h.ready[c])
    <3>1. /\ ToSet(Off(h.ready[c], j)) = ToSet(h.ready[c]) \ {j} /\ Len(h.ready[c]) \in Nat
          /\ Len(Off(h.ready[c], j)) = IF j \in ToSet(h.ready[c]) THEN Len(h.ready[c]) - 1
                                       ELSE Len(h.ready[c])
      <4>1. h.ready[c] \in Lists(Job)
        BY <2>2
      <4> HIDE DEF Off
      <4>2. Len(h.ready[c]) \in Nat
        BY <4>1, OnList
      <4> QED BY <4>1, <4>2, OffList
    <3> QED BY <2>2, <3>1
  <2>4. /\ ToSet(h.ready[c]) = {i \in h.due : Class[i] = c /\ Has(h, i, "READY")}
        /\ h.readied[c] = Len(h.ready[c])
    BY <1>1 DEF Lines
  <2>5. ToSet(r.ready[c]) = {i \in r.due : Class[i] = c /\ Has(r, i, "READY")}
    BY <1>3, <1>4, <1>5, <2>3, <2>4
  <2>6. r.readied[c] = h.readied[c] - (IF c = Class[j] /\ Has(h, j, "READY") THEN 1 ELSE 0)
    BY <1>2 DEF Gone, Has
  <2>7. r.readied[c] = Len(r.ready[c])
    <3>1. j \in ToSet(h.ready[c]) <=> Class[j] = c /\ Has(h, j, "READY")
      BY <2>4
    <3>2. CASE j \in ToSet(h.ready[c])
      BY <2>3, <2>4, <2>6, <3>1, <3>2
    <3>3. CASE j \notin ToSet(h.ready[c])
      <4>1. r.readied[c] = h.readied[c] - 0
        BY <2>6, <3>1, <3>3
      <4>2. h.readied[c] \in Nat /\ Len(r.ready[c]) = h.readied[c]
        BY <2>3, <2>4, <3>3
      <4> QED BY <4>1, <4>2
    <3> QED BY <3>2, <3>3
  <2>8. ToSet(r.ring[c]) = {p \in Principal : r.queue[c][p] # <<>>}
    BY <1>2 DEF Gone
  <2> QED BY <2>1, <2>5, <2>7, <2>8
<1>7. /\ ToSet(r.background) = ToSet(h.background) \ {j}
      /\ ToSet(r.preempting) = ToSet(h.preempting) \ {j}
      /\ ToSet(r.dropped) = ToSet(h.dropped) \ {j}
      /\ r.preempting # <<>> => h.preempting # <<>>
      /\ r.dropped # <<>> => h.dropped # <<>>
  <2>1. /\ h.background \in Lists(Job) /\ h.preempting \in Lists(Job) /\ h.dropped \in Lists(Job)
        /\ r.preempting \in Lists(Job) /\ r.dropped \in Lists(Job)
    BY <1>1, <1>2, Fields
  <2>2. /\ r.background = Off(h.background, j) /\ r.preempting = Off(h.preempting, j)
        /\ r.dropped = Off(h.dropped, j)
    BY <1>2 DEF Gone
  <2>3. /\ ToSet(r.background) = ToSet(h.background) \ {j}
        /\ ToSet(r.preempting) = ToSet(h.preempting) \ {j}
        /\ ToSet(r.dropped) = ToSet(h.dropped) \ {j}
    <3>1. /\ ToSet(Off(h.background, j)) = ToSet(h.background) \ {j}
          /\ ToSet(Off(h.preempting, j)) = ToSet(h.preempting) \ {j}
          /\ ToSet(Off(h.dropped, j)) = ToSet(h.dropped) \ {j}
      BY <2>1, OffList
    <3> QED BY <2>2, <3>1
  <2>4. \A l \in Lists(Job) : l # <<>> <=> ToSet(l) # {}
    BY OnList
  <2>5. /\ r.preempting # <<>> => h.preempting # <<>>
        /\ r.dropped # <<>> => h.dropped # <<>>
    BY <2>1, <2>3, <2>4
  <2> QED BY <2>3, <2>5
<1>8. Runs(r)
  <2>1. \A i \in r.transfer : i \in Job /\ i # j
    BY <1>1, <1>2, <1>4, Fields
  <2> QED BY <1>1, <1>3, <1>4, <1>5, <1>7, <2>1 DEF Runs
<1>9. Flagged(r)
  <2>1. r.pending = h.pending
    BY <1>2 DEF Beside
  <2> QED BY <1>1, <1>3, <1>4, <1>5, <1>7, <2>1 DEF Flagged
<1>10. /\ h.running_bg \in Int /\ h.running \in Int
       /\ r.owed = h.owed - 1
       /\ r.running = h.running - (IF Has(h, j, "RUNNING") THEN 1 ELSE 0)
       /\ r.running_bg = h.running_bg - (IF Has(h, j, "RUNNING") /\ Class[j] = 1 THEN 1 ELSE 0)
  <2>1. h.running_bg \in Int /\ h.running \in Int
    BY <1>1, Fields
  <2> QED BY <1>2, <1>3, <2>1 DEF Gone, Has
<1>11. Counted(r)
  <2> DEFINE S == {i \in Job : Ran(h, i)}
             Bg == {i \in Job : Ran(h, i) /\ Class[i] = 1}
  <2>1. /\ {i \in Job : Ran(r, i)} = S \ {j}
        /\ {i \in Job : Ran(r, i) /\ Class[i] = 1} = Bg \ {j}
    BY <1>5
  <2>2. Cardinality(h.due \ {j}) = Cardinality(h.due) - 1
    BY <1>3, OneLess
  <2>3. /\ Cardinality(S \ {j}) = Cardinality(S) - (IF j \in S THEN 1 ELSE 0)
        /\ Cardinality(Bg \ {j}) = Cardinality(Bg) - (IF j \in Bg THEN 1 ELSE 0)
    <3>1. S \in SUBSET Job /\ Bg \in SUBSET Job
      OBVIOUS
    <3> HIDE DEF S, Bg
    <3> QED BY <3>1, OneLess
  <2>4. /\ j \in S <=> Has(h, j, "RUNNING")
        /\ j \in Bg <=> Has(h, j, "RUNNING") /\ Class[j] = 1
    BY <1>3 DEF Ran
  <2>5. h.owed = Cardinality(h.due) /\ h.running = Cardinality(S) /\ h.running_bg = Cardinality(Bg)
    BY <1>1 DEF Counted
  <2> HIDE DEF S, Bg
  <2> QED BY <1>4, <1>10, <2>1, <2>2, <2>3, <2>4, <2>5 DEF Counted
<1>12. Probed(r)
  <2>1. r.probing = (h.probing /\ ~(Has(h, j, "RUNNING") /\ Has(h, j, "PROBE"))) /\ r.state = h.state
    BY <1>2 DEF Gone, Has, Beside
  <2>2. Has(h, j, "PROBE") => Has(h, j, "RUNNING")
    BY <1>1, <1>3 DEF Flagged
  <2> QED BY <1>1, <1>3, <1>4, <1>5, <2>1, <2>2 DEF Probed
<1>13. CutsOnce(r)
  <2>1. h.cuts \in [Job -> Int] /\ r.cuts = [h.cuts EXCEPT ![j] = 0]
    BY <1>1, <1>2, Fields DEF Gone
  <2> QED BY <1>1, <1>5, <1>7, <2>1 DEF CutsOnce
<1>14. /\ h.armed \subseteq r.armed
       /\ Has(h, j, "RUNNING") => "start" \in r.armed
  BY <1>2 DEF Gone, Has
<1>15. Starts(h) => Starts(r)
  <2>1. ASSUME NEW c \in {0, 1} PROVE Waits(r, c) => Waits(h, c)
    <3>1. r.ring[c] # <<>> => h.ring[c] # <<>>
      BY <1>2 DEF Gone
    <3>2. r.ready[c] = Off(h.ready[c], j) /\ h.ready[c] \in Lists(Job) /\ r.ready[c] \in Lists(Job)
      BY <1>1, <1>2, Fields DEF Gone
    <3>3. ToSet(r.ready[c]) \subseteq ToSet(h.ready[c])
      BY <3>2, OffList
    <3>4. r.ready[c] # <<>> => h.ready[c] # <<>>
      BY <3>2, <3>3, OnList
    <3> QED BY <3>1, <3>4 DEF Waits
  <2>2. CASE Has(h, j, "RUNNING")
    BY <1>14, <2>2 DEF Starts
  <2>3. CASE ~Has(h, j, "RUNNING")
    <3>1. r.running = h.running /\ r.running_bg = h.running_bg
      BY <1>10, <2>3
    <3>2. r.probing = h.probing /\ r.state = h.state /\ r.draining = h.draining /\ r.slots = h.slots
      <4>1. h.probing \in BOOLEAN
        BY <1>1, Fields
      <4> QED BY <1>2, <2>3, <4>1 DEF Gone, Beside, Has
    <3> QED BY <1>14, <2>1, <3>1, <3>2 DEF Starts, MayStart, BackgroundSlots
  <2> QED BY <2>2, <2>3
<1>16. Ends(h) => Ends(r)
  <2>1. r.draining = h.draining
    BY <1>2 DEF Beside
  <2> QED BY <1>4, <1>7, <1>14, <2>1 DEF Ends
<1>17. r.running_bg <= h.running_bg
  BY <1>10
<1> QED BY <1>2, <1>6, <1>8, <1>9, <1>11, <1>12, <1>13, <1>14, <1>15, <1>16, <1>17 DEF Sound

-----------------------------------------------------------------------------
(* The ways in which a job ends.                                           *)

\* What is noted of transfers and writes is beside the lists.
LEMMA NotedGood ==
  ASSUME NEW h, Good(h), NEW r \in Struct, SameLists(h, r), r.flags = h.flags,
         r.slots = h.slots, r.state = h.state, r.probing = h.probing,
         r.draining = h.draining, r.armed = h.armed,
         \A i \in r.transfer : Ran(h, i) /\ ~Has(h, i, "DELIVERED"),
         \A i \in r.pending : i \in h.due => Has(h, i, "RUNNING")
  PROVE  Good(r)
<1>1. Sound(h) /\ Probed(h)
  BY DEF Good, Sound
<1>2. \A i \in Job : \A f : Has(r, i, f) <=> Has(h, i, f)
  BY DEF Has
<1>3. Probed(r)
  BY <1>1, <1>2, Fields DEF Probed, SameLists, Sound
<1>4. \A i \in r.transfer : Ran(h, i) /\ ~Has(r, i, "DELIVERED")
  BY DEF Has
<1>5. Sound(r)
  BY <1>1, <1>2, <1>3, <1>4, Alike, RunOn
<1>6. Starts(r) /\ Ends(r)
  BY DEF Good, Starts, Ends, MayStart, Waits, BackgroundSlots, SameLists
<1> QED BY <1>5, <1>6 DEF Good

LEMMA HungUp ==
  ASSUME NEW h, Good(h), NEW j, NEW r, r = [h EXCEPT !.transfer = @ \ {j}]
  PROVE  /\ Good(r) /\ r.due = h.due /\ r.transfer = h.transfer \ {j}
         /\ r.running_bg = h.running_bg /\ r.pending = h.pending /\ r.flags = h.flags
<1> DEFINE T == h.transfer \ {j}
<1>1. h \in Struct /\ Runs(h)
  BY DEF Good, Sound
<1>2. T \in SUBSET Job /\ r = [h EXCEPT !.transfer = T]
  BY <1>1, Fields
<1>3. \A i \in T : Ran(h, i) /\ ~Has(h, i, "DELIVERED")
  BY <1>1 DEF Runs
<1>4. T = h.transfer \ {j}
  OBVIOUS
<1> HIDE DEF T
<1>5. /\ r \in Struct /\ SameLists(h, r) /\ r.flags = h.flags /\ r.slots = h.slots
      /\ r.state = h.state /\ r.probing = h.probing /\ r.draining = h.draining
      /\ r.armed = h.armed /\ r.transfer = T /\ r.pending = h.pending
  BY <1>1, <1>2 DEF Struct, SameLists
<1>6. Good(r)
  BY <1>3, <1>5, NotedGood, RunOn DEF Good
<1> QED BY <1>4, <1>5, <1>6 DEF SameLists

LEMMA FinishGood ==
  ASSUME NEW h, Good(h), NEW j \in h.due, j \notin h.transfer, NEW failure \in BOOLEAN,
         NEW retry \in BOOLEAN, NEW r, r = Finish(h, j, failure, retry)
  PROVE  Good(r) /\ r.running_bg <= h.running_bg
<1> DEFINE n == BreakerNote(h, j, failure, retry)
<1>1. j \in Job
  BY Fields DEF Good, Sound
<1>2. r = End(n, j)
  BY DEF Finish
<1>3. Good(n) /\ Onward(h, n)
  <2> HIDE DEF n
  <2>1. n = BreakerNote(h, j, failure, retry)
    BY DEF n
  <2> QED BY <1>1, <2>1, NoteGood
<1> HIDE DEF n
<1>4. Sound(n) /\ j \in n.due /\ j \notin n.transfer
  BY <1>3 DEF Good, Onward
<1>5. Sound(r) /\ Starts(r) /\ Ends(r) /\ r.running_bg <= n.running_bg
  BY <1>2, <1>3, <1>4, EndGood DEF Good
<1> QED BY <1>3, <1>5 DEF Good, Onward

LEMMA CutGood ==
  ASSUME NEW h, Good(h), NEW j \in h.due, NEW failure \in BOOLEAN,
         NEW r, r = Cut(h, j, failure)
  PROVE  Good(r) /\ r.running_bg <= h.running_bg
<1> DEFINE u == [h EXCEPT !.transfer = @ \ {j}]
<1>1. r = Finish(u, j, failure, FALSE)
  BY DEF Cut
<1>2. Good(u) /\ u.due = h.due /\ u.transfer = h.transfer \ {j} /\ u.running_bg = h.running_bg
  <2>1. u = [h EXCEPT !.transfer = @ \ {j}]
    OBVIOUS
  <2> HIDE DEF u
  <2> QED BY <2>1, HungUp
<1> HIDE DEF u
<1>3. j \in u.due /\ j \notin u.transfer
  BY <1>2
<1>4. Good(r) /\ r.running_bg <= u.running_bg
  BY <1>1, <1>2, <1>3, FinishGood
<1> QED BY <1>2, <1>4

LEMMA CancelGood ==
  ASSUME NEW h, Good(h), NEW j \in h.due, NEW r, r = Cancel(h, j)
  PROVE  Good(r) /\ r.running_bg <= h.running_bg
<1> DEFINE u == [h EXCEPT !.transfer = @ \ {j}]
<1>1. r = End(u, j)
  BY DEF Cancel
<1>2. Good(u) /\ u.due = h.due /\ u.transfer = h.transfer \ {j} /\ u.running_bg = h.running_bg
  <2>1. u = [h EXCEPT !.transfer = @ \ {j}]
    OBVIOUS
  <2> HIDE DEF u
  <2> QED BY <2>1, HungUp
<1> HIDE DEF u
<1>3. j \in u.due /\ j \notin u.transfer /\ Sound(u)
  BY <1>2 DEF Good
<1>4. Sound(r) /\ Starts(r) /\ Ends(r) /\ r.running_bg <= u.running_bg
  BY <1>1, <1>2, <1>3, EndGood DEF Good
<1> QED BY <1>2, <1>4 DEF Good

\* A job that ends with nothing of a transfer left.
LEMMA EndedGood ==
  ASSUME NEW h, Good(h), NEW j \in h.due, j \notin h.transfer, NEW r, r = End(h, j)
  PROVE  Good(r) /\ r.running_bg <= h.running_bg
BY EndGood DEF Good

-----------------------------------------------------------------------------
(* The handlers.                                                           *)

LEMMA LaterIs ==
  ASSUME Good(home), home'.running_bg \in Int, home'.running_bg <= home.running_bg
  PROVE  BackgroundLater
<1>1. home.running_bg \in Int
  BY Fields DEF Good, Sound
<1> QED BY <1>1 DEF BackgroundLater

LEMMA KeptGood ==
  ASSUME Good(home), NEW r, Good(r), r.running_bg <= home.running_bg, home' = r
  PROVE  Good(home') /\ BackgroundLater
<1>1. r.running_bg \in Int
  BY Fields DEF Good, Sound
<1>2. home'.running_bg \in Int /\ home'.running_bg <= home.running_bg
  BY <1>1
<1>3. BackgroundLater
  BY <1>2, LaterIs
<1>4. Good(home')
  OBVIOUS
<1> QED BY <1>3, <1>4

LEMMA ProbeAnswersKeeps ==
  ASSUME Good(home), NEW j \in Job, ProbeAnswers(j)
  PROVE  Good(home') /\ BackgroundLater
<1> DEFINE r == BreakerProbed(home, j, FALSE)
<1>1. home' = r /\ Has(home, j, "PROBE")
  BY DEF ProbeAnswers
<1>2. Sound(r) /\ Starts(r) /\ Ends(r) /\ Onward(home, r)
  <2> HIDE DEF r
  <2>1. r = BreakerProbed(home, j, FALSE)
    BY DEF r
  <2> QED BY <1>1, <2>1, ProbedGood DEF Good
<1> HIDE DEF r
<1>3. r.running_bg <= home.running_bg
  BY <1>2, Fields DEF Good, Sound, Onward
<1> QED BY <1>1, <1>2, <1>3, KeptGood DEF Good

LEMMA DeliveredKeeps ==
  ASSUME Good(home), NEW j \in Job, Delivered(j)
  PROVE  Good(home') /\ BackgroundLater
<1> DEFINE h == [home EXCEPT !.transfer = @ \ {j}]
<1>1. j \in home.transfer /\ home \in Struct /\ Runs(home)
  BY DEF Delivered, Good, Sound
<1>2. j \in home.due /\ Has(home, j, "RUNNING")
  BY <1>1 DEF Runs, Ran
<1>3. /\ Good(h) /\ h.due = home.due /\ h.transfer = home.transfer \ {j}
      /\ h.running_bg = home.running_bg /\ h.pending = home.pending /\ h.flags = home.flags
  <2>1. h = [home EXCEPT !.transfer = @ \ {j}]
    OBVIOUS
  <2> HIDE DEF h
  <2> QED BY <2>1, HungUp
<1>4. \/ home' = [h EXCEPT !.flags[j] = @ \cup {"DELIVERED"}]
      \/ \E failure, retry \in BOOLEAN : home' = Finish(h, j, failure, retry)
  BY DEF Delivered
<1> HIDE DEF h
<1>5. j \in h.due /\ j \notin h.transfer
  BY <1>2, <1>3
<1>6. CASE \E failure, retry \in BOOLEAN : home' = Finish(h, j, failure, retry)
  <2>1. PICK failure \in BOOLEAN, retry \in BOOLEAN : home' = Finish(h, j, failure, retry)
    BY <1>6
  <2> DEFINE r == Finish(h, j, failure, retry)
  <2>2. r = Finish(h, j, failure, retry)
    OBVIOUS
  <2> HIDE DEF r
  <2>3. Good(r) /\ r.running_bg <= h.running_bg
    BY <1>3, <1>5, <2>2, FinishGood
  <2> QED BY <1>3, <2>1, <2>2, <2>3, KeptGood
<1>7. CASE home' = [h EXCEPT !.flags[j] = @ \cup {"DELIVERED"}]
  <2> DEFINE flags == [h.flags EXCEPT ![j] = @ \cup {"DELIVERED"}]
             r == [h EXCEPT !.flags = flags]
  <2>1. h \in Struct /\ Sound(h) /\ Runs(h) /\ Probed(h) /\ h.flags \in [Job -> SUBSET Flag]
    BY <1>3, Fields DEF Good, Sound
  <2>2. /\ flags \in [Job -> SUBSET Flag] /\ home' = r
        /\ \A i \in Job : flags[i] = IF i = j THEN h.flags[j] \cup {"DELIVERED"} ELSE h.flags[i]
    BY <1>7, <2>1 DEF Flag
  <2> HIDE DEF flags
  <2>3. /\ r \in Struct /\ SameLists(h, r) /\ r.flags = flags /\ r.slots = h.slots
        /\ r.state = h.state /\ r.probing = h.probing /\ r.draining = h.draining
        /\ r.armed = h.armed /\ r.transfer = h.transfer /\ r.pending = h.pending
    BY <2>1, <2>2 DEF Struct, SameLists
  <2> HIDE DEF r
  <2>4. ASSUME NEW i \in Job
        PROVE  /\ r.flags[i] = {} <=> h.flags[i] = {}
               /\ \A f : f # "DELIVERED" => (Has(r, i, f) <=> Has(h, i, f))
               /\ Has(r, i, "DELIVERED") <=> Has(h, i, "DELIVERED") \/ i = j
    BY <1>2, <1>3, <2>1, <2>2, <2>3 DEF Has
  <2>5. Probed(r)
    BY <2>1, <2>3, <2>4, Fields DEF Probed, SameLists
  <2>6. \A i \in r.transfer : Ran(h, i) /\ ~Has(r, i, "DELIVERED")
    BY <1>3, <1>5, <2>1, <2>3, <2>4 DEF Runs
  <2>7. \A i \in Job : Has(r, i, "DELIVERED") => Has(h, i, "RUNNING")
    BY <1>2, <1>3, <2>1, <2>4, RunOn DEF Has
  <2>8. Sound(r)
    BY <2>1, <2>3, <2>4, <2>5, <2>6, <2>7, Alike, RunOn
  <2>9. Starts(r) /\ Ends(r)
    BY <1>3, <2>3 DEF Good, Starts, Ends, MayStart, Waits, BackgroundSlots, SameLists
  <2>10. r.running_bg <= home.running_bg
    BY <1>1, <1>3, <2>3, Fields DEF SameLists
  <2> QED BY <2>2, <2>8, <2>9, <2>10, KeptGood DEF Good
<1> QED BY <1>4, <1>6, <1>7

LEMMA ThinksKeeps ==
  ASSUME Good(home), NEW j \in Job, Thinks(j)
  PROVE  Good(home') /\ BackgroundLater
<1> DEFINE P == home.pending \cup {j}
           M == home.thought \cup {j}
           r == [home EXCEPT !.pending = P, !.thought = M]
<1>1. /\ home \in Struct /\ Sound(home) /\ Runs(home)
      /\ P \in SUBSET Job /\ M \in SUBSET Job /\ home' = r
      /\ j \in home.transfer \/ Has(home, j, "DELIVERED")
  BY Fields DEF Thinks, Good, Sound
<1>2. Has(home, j, "RUNNING")
  BY <1>1, RunOn DEF Runs, Ran
<1>3. P = home.pending \cup {j}
  OBVIOUS
<1> HIDE DEF P, M
<1>4. /\ r \in Struct /\ SameLists(home, r) /\ r.flags = home.flags /\ r.slots = home.slots
      /\ r.state = home.state /\ r.probing = home.probing /\ r.draining = home.draining
      /\ r.armed = home.armed /\ r.transfer = home.transfer /\ r.pending = P
  BY <1>1 DEF Struct, SameLists
<1> HIDE DEF r
<1>5. \A i \in r.transfer : Ran(home, i) /\ ~Has(home, i, "DELIVERED")
  BY <1>1, <1>4 DEF Runs
<1>6. \A i \in r.pending : i \in home.due => Has(home, i, "RUNNING")
  BY <1>1, <1>2, <1>3, <1>4, RunOn
<1>7. Good(r)
  BY <1>4, <1>5, <1>6, NotedGood
<1>8. r.running_bg <= home.running_bg
  BY <1>1, <1>4, Fields DEF SameLists
<1> QED BY <1>1, <1>7, <1>8, KeptGood

LEMMA ReadWholeKeeps ==
  ASSUME Good(home), NEW j \in Job, ReadWhole(j)
  PROVE  Good(home') /\ BackgroundLater
<1>1. Runs(home) /\ j \in home.due
  BY DEF ReadWhole, Good, Sound
<1>2. CASE \E failure, retry \in BOOLEAN :
             Has(home, j, "DELIVERED") /\ home' = Finish(home, j, failure, retry)
  <2>1. PICK failure \in BOOLEAN, retry \in BOOLEAN :
          Has(home, j, "DELIVERED") /\ home' = Finish(home, j, failure, retry)
    BY <1>2
  <2>2. j \notin home.transfer
    BY <1>1, <2>1 DEF Runs
  <2> DEFINE r == Finish(home, j, failure, retry)
  <2>3. r = Finish(home, j, failure, retry)
    OBVIOUS
  <2> HIDE DEF r
  <2>4. Good(r) /\ r.running_bg <= home.running_bg
    BY <1>1, <2>2, <2>3, FinishGood
  <2> QED BY <2>1, <2>3, <2>4, KeptGood
<1>3. CASE home' = Cut(home, j, FALSE)
  <2> DEFINE r == Cut(home, j, FALSE)
  <2>1. r = Cut(home, j, FALSE)
    OBVIOUS
  <2> HIDE DEF r
  <2>2. Good(r) /\ r.running_bg <= home.running_bg
    BY <1>1, <2>1, CutGood
  <2> QED BY <1>3, <2>1, <2>2, KeptGood
<1> QED BY <1>2, <1>3 DEF ReadWhole

LEMMA JournalDoneKeeps ==
  ASSUME Good(home), NEW j \in Job, JournalDone(j)
  PROVE  Good(home') /\ BackgroundLater
<1> DEFINE P == home.pending \ {j}
           h == [home EXCEPT !.pending = P]
           T == h.transfer \cup {j}
           opened == [h EXCEPT !.transfer = T]
<1>1. /\ home \in Struct /\ Sound(home) /\ Runs(home) /\ P \in SUBSET Job
      /\ j \in home.pending
  BY Fields DEF JournalDone, Good, Sound
<1>2. /\ j \notin home.due => home' = h
      /\ j \in home.due =>
           \/ \E failure \in BOOLEAN : home' = Cut(h, j, failure)
           \/ /\ j \notin h.transfer /\ ~Has(h, j, "DELIVERED")
              /\ home' = opened \/ home' = End(h, j)
           \/ home' = h
           \/ \E failure, retry \in BOOLEAN :
                Has(h, j, "DELIVERED") /\ home' = Finish(h, j, failure, retry)
  BY DEF JournalDone
<1>3. P = home.pending \ {j}
  OBVIOUS
<1> HIDE DEF P
<1>4. /\ h \in Struct /\ SameLists(home, h) /\ h.flags = home.flags /\ h.slots = home.slots
      /\ h.state = home.state /\ h.probing = home.probing /\ h.draining = home.draining
      /\ h.armed = home.armed /\ h.transfer = home.transfer /\ h.pending = P
  BY <1>1 DEF Struct, SameLists
<1> HIDE DEF h
<1>5. \A i \in h.transfer : Ran(home, i) /\ ~Has(home, i, "DELIVERED")
  BY <1>1, <1>4 DEF Runs
<1>6. \A i \in h.pending : i \in home.due => Has(home, i, "RUNNING")
  BY <1>1, <1>3, <1>4, RunOn
<1>7. Good(h)
  BY <1>4, <1>5, <1>6, NotedGood
<1>8. h.running_bg <= home.running_bg /\ h.running_bg = home.running_bg /\ h.due = home.due
  BY <1>1, <1>4, Fields DEF SameLists
<1>9. Runs(h)
  BY <1>7 DEF Good, Sound
<1>10. CASE home' = h
  BY <1>7, <1>8, <1>10, KeptGood
<1>11. CASE j \in home.due /\ \E failure \in BOOLEAN : home' = Cut(h, j, failure)
  <2>1. PICK failure \in BOOLEAN : home' = Cut(h, j, failure)
    BY <1>11
  <2> DEFINE r == Cut(h, j, failure)
  <2>2. r = Cut(h, j, failure) /\ j \in h.due
    BY <1>8, <1>11
  <2> HIDE DEF r
  <2>3. Good(r) /\ r.running_bg <= h.running_bg
    BY <1>7, <2>2, CutGood
  <2> QED BY <1>8, <2>1, <2>2, <2>3, KeptGood
<1>12. CASE /\ j \in home.due /\ j \notin h.transfer /\ ~Has(h, j, "DELIVERED")
            /\ home' = opened
  <2>1. Ran(h, j)
    BY <1>1, <1>4, <1>12, RunOn DEF Ran, Has, SameLists
  <2>2. /\ T \in SUBSET Job
        /\ \A i \in T : Ran(h, i) /\ ~Has(h, i, "DELIVERED")
    BY <1>4, <1>9, <1>12, <2>1, Fields DEF Runs
  <2> HIDE DEF T
  <2>3. /\ opened \in Struct /\ SameLists(h, opened) /\ opened.flags = h.flags
        /\ opened.slots = h.slots /\ opened.state = h.state
        /\ opened.probing = h.probing /\ opened.draining = h.draining
        /\ opened.armed = h.armed /\ opened.transfer = T /\ opened.pending = h.pending
    BY <1>4, <2>2 DEF Struct, SameLists
  <2> HIDE DEF opened
  <2>4. Good(opened)
    BY <1>7, <2>2, <2>3, NotedGood, RunOn DEF Good
  <2>5. opened.running_bg <= home.running_bg
    BY <1>8, <2>3 DEF SameLists
  <2> QED BY <1>12, <2>4, <2>5, KeptGood
<1>13. CASE j \in home.due /\ j \notin h.transfer /\ home' = End(h, j)
  <2> DEFINE r == End(h, j)
  <2>1. r = End(h, j) /\ j \in h.due
    BY <1>8, <1>13
  <2> HIDE DEF r
  <2>2. Good(r) /\ r.running_bg <= h.running_bg
    BY <1>7, <1>13, <2>1, EndedGood
  <2> QED BY <1>8, <1>13, <2>1, <2>2, KeptGood
<1>14. CASE j \in home.due /\ \E failure, retry \in BOOLEAN :
             Has(h, j, "DELIVERED") /\ home' = Finish(h, j, failure, retry)
  <2>1. PICK failure \in BOOLEAN, retry \in BOOLEAN :
          Has(h, j, "DELIVERED") /\ home' = Finish(h, j, failure, retry)
    BY <1>14
  <2> DEFINE r == Finish(h, j, failure, retry)
  <2>2. r = Finish(h, j, failure, retry) /\ j \in h.due /\ j \notin h.transfer
    BY <1>8, <1>9, <1>14, <2>1 DEF Runs
  <2> HIDE DEF r
  <2>3. Good(r) /\ r.running_bg <= h.running_bg
    BY <1>7, <2>2, FinishGood
  <2> QED BY <1>8, <2>1, <2>2, <2>3, KeptGood
<1> QED BY <1>2, <1>10, <1>11, <1>12, <1>13, <1>14

LEMMA ExpireKeeps ==
  ASSUME Good(home), NEW j \in Job, Expire(j)
  PROVE  Good(home') /\ BackgroundLater
<1>1. Runs(home) /\ j \in home.due
  BY DEF Expire, Good, Sound
<1>2. \/ home' = Cancel(home, j) \/ home' = Cut(home, j, TRUE)
      \/ ~Has(home, j, "RUNNING") /\ home' = End(home, j)
  BY DEF Expire
<1>3. CASE home' = Cancel(home, j)
  <2> DEFINE r == Cancel(home, j)
  <2>1. r = Cancel(home, j)
    OBVIOUS
  <2> HIDE DEF r
  <2>2. Good(r) /\ r.running_bg <= home.running_bg
    BY <1>1, <2>1, CancelGood
  <2> QED BY <1>3, <2>1, <2>2, KeptGood
<1>4. CASE home' = Cut(home, j, TRUE)
  <2> DEFINE r == Cut(home, j, TRUE)
  <2>1. r = Cut(home, j, TRUE)
    OBVIOUS
  <2> HIDE DEF r
  <2>2. Good(r) /\ r.running_bg <= home.running_bg
    BY <1>1, <2>1, CutGood
  <2> QED BY <1>4, <2>1, <2>2, KeptGood
<1>5. CASE ~Has(home, j, "RUNNING") /\ home' = End(home, j)
  <2> DEFINE r == End(home, j)
  <2>1. r = End(home, j) /\ j \notin home.transfer
    BY <1>1, <1>5 DEF Runs, Ran
  <2> HIDE DEF r
  <2>2. Good(r) /\ r.running_bg <= home.running_bg
    BY <1>1, <2>1, EndedGood
  <2> QED BY <1>5, <2>1, <2>2, KeptGood
<1> QED BY <1>2, <1>3, <1>4, <1>5

LEMMA StallKeeps ==
  ASSUME Good(home), NEW j \in Job, Stall(j)
  PROVE  Good(home') /\ BackgroundLater
<1>1. j \in home.due
  BY DEF Stall, Good, Sound, Runs, Ran
<1> DEFINE r == Cut(home, j, TRUE)
<1>2. r = Cut(home, j, TRUE) /\ home' = r
  BY DEF Stall
<1> HIDE DEF r
<1>3. Good(r) /\ r.running_bg <= home.running_bg
  BY <1>1, <1>2, CutGood
<1> QED BY <1>2, <1>3, KeptGood

-----------------------------------------------------------------------------
(* Handlers that have nothing to do with the lists, and steps that end jobs *)
(* or find that there are none.                                            *)

LEMMA ApartSound ==
  ASSUME NEW h, Sound(h), NEW r \in Struct, SameLists(h, r), r.flags = h.flags,
         r.transfer = h.transfer, r.pending = h.pending, r.probing = h.probing,
         r.probing => r.state = "HALF"
  PROVE  Sound(r)
<1>1. h \in Struct /\ Runs(h) /\ Probed(h)
  BY DEF Sound
<1>2. \A i \in Job : \A f : Has(r, i, f) <=> Has(h, i, f)
  BY DEF Has
<1>3. Probed(r)
  BY <1>1, <1>2, Fields DEF Probed, SameLists
<1>4. \A i \in r.transfer : Ran(h, i) /\ ~Has(r, i, "DELIVERED")
  BY <1>1 DEF Runs, Has
<1> QED BY <1>2, <1>3, <1>4, Alike, RunOn

LEMMA BreakerEventKeeps ==
  ASSUME Good(home), BreakerEvent
  PROVE  Good(home') /\ BackgroundLater
<1> DEFINE q == [home EXCEPT !.state = "HALF"]
           r == Armed(q, "start")
<1>1. home \in Struct /\ Sound(home)
  BY DEF Good, Sound
<1>2. home' = r
  BY DEF BreakerEvent
<1>3. /\ q \in Struct /\ SameLists(home, q) /\ q.flags = home.flags /\ q.state = "HALF"
      /\ q.transfer = home.transfer /\ q.pending = home.pending /\ q.probing = home.probing
      /\ q.draining = home.draining /\ q.armed = home.armed
  BY <1>1 DEF Struct, SameLists, Breaker
<1> HIDE DEF q
<1>4. Sound(q)
  BY <1>1, <1>3, ApartSound
<1>5. Ends(q)
  BY <1>3 DEF Good, Ends, SameLists
<1>6. r = Armed(q, "start") /\ "start" \in Step
  BY DEF Step
<1> HIDE DEF r
<1>7. Sound(r) /\ Ends(r) /\ "start" \in r.armed /\ r.running_bg = home.running_bg
  BY <1>3, <1>4, <1>5, <1>6, ArmedGood, ArmedIs DEF SameLists
<1>8. Starts(r)
  BY <1>7 DEF Starts
<1>9. r.running_bg <= home.running_bg
  BY <1>1, <1>7, Fields
<1> QED BY <1>2, <1>7, <1>8, <1>9, KeptGood DEF Good

LEMMA SlotsToldKeeps ==
  ASSUME Good(home), NEW n \in Slots \cup {SLOTS}, SlotsTold(n)
  PROVE  Good(home') /\ BackgroundLater
<1> DEFINE q == [home EXCEPT !.slots = n, !.asking = FALSE]
           a == Armed(q, "start")
           r == PreemptExcess(a)
<1>1. home \in Struct /\ Sound(home) /\ n \in Int /\ Probed(home)
  BY Given DEF Good, Sound
<1>2. home' = r
  BY DEF SlotsTold
<1>3. /\ q \in Struct /\ SameLists(home, q) /\ q.flags = home.flags /\ q.state = home.state
      /\ q.transfer = home.transfer /\ q.pending = home.pending /\ q.probing = home.probing
      /\ q.draining = home.draining /\ q.armed = home.armed
  BY <1>1 DEF Struct, SameLists
<1> HIDE DEF q
<1>4. Sound(q)
  BY <1>1, <1>3, ApartSound DEF Probed
<1>5. Ends(q)
  BY <1>3 DEF Good, Ends, SameLists
<1>6. a = Armed(q, "start") /\ "start" \in Step
  BY DEF Step
<1> HIDE DEF a
<1>7. Sound(a) /\ Ends(a) /\ "start" \in a.armed /\ a.running_bg = home.running_bg
  BY <1>3, <1>4, <1>5, <1>6, ArmedGood, ArmedIs DEF SameLists
<1>8. r = PreemptExcess(a)
  OBVIOUS
<1> HIDE DEF r
<1>9. Sound(r) /\ Ends(r) /\ a.armed \subseteq r.armed /\ r.running_bg = a.running_bg
  BY <1>7, <1>8, PreemptExcessGood
<1>10. Starts(r)
  BY <1>7, <1>9 DEF Starts
<1>11. r.running_bg <= home.running_bg
  BY <1>1, <1>7, <1>9, Fields
<1> QED BY <1>2, <1>9, <1>10, <1>11, KeptGood DEF Good

LEMMA DrainKeeps ==
  ASSUME Good(home), Drain
  PROVE  Good(home') /\ BackgroundLater
<1> DEFINE q == [home EXCEPT !.draining = TRUE]
           r == Armed(q, "drain")
<1>1. home \in Struct /\ Sound(home) /\ Probed(home)
  BY DEF Good, Sound
<1>2. home' = r
  BY DEF Drain
<1>3. /\ q \in Struct /\ SameLists(home, q) /\ q.flags = home.flags /\ q.state = home.state
      /\ q.transfer = home.transfer /\ q.pending = home.pending /\ q.probing = home.probing
      /\ q.draining = TRUE /\ q.armed = home.armed
  BY <1>1 DEF Struct, SameLists
<1> HIDE DEF q
<1>4. Sound(q)
  BY <1>1, <1>3, ApartSound DEF Probed
<1>5. r = Armed(q, "drain") /\ "drain" \in Step
  BY DEF Step
<1> HIDE DEF r
<1>6. /\ Sound(r) /\ r.draining = TRUE /\ r.armed = home.armed \cup {"drain"}
      /\ r.running_bg = home.running_bg /\ r.preempting = home.preempting
      /\ r.dropped = home.dropped
  BY <1>3, <1>4, <1>5, ArmedGood, ArmedIs DEF SameLists
<1>7. Starts(r) /\ Ends(r)
  BY <1>6 DEF Good, Starts, Ends, MayStart
<1>8. r.running_bg <= home.running_bg
  BY <1>1, <1>6, Fields
<1> QED BY <1>2, <1>6, <1>7, <1>8, KeptGood DEF Good

\* A step that found nothing to do is ready no more.
LEMMA DisarmedKeeps ==
  ASSUME Good(home), NEW s \in Step, home' = Disarmed(s),
         s = "start" => ~(MayStart(home) /\ NextJob(home, TRUE) # None),
         s = "preempt" => home.preempting = <<>>, s = "stop" => home.dropped = <<>>,
         s = "drain" => home.due = {}
  PROVE  Good(home') /\ BackgroundLater
<1> DEFINE r == Disarmed(s)
<1>1. home \in Struct /\ Sound(home) /\ Probed(home)
  BY DEF Good, Sound
<1>2. /\ r \in Struct /\ SameLists(home, r) /\ r.flags = home.flags /\ r.state = home.state
      /\ r.transfer = home.transfer /\ r.pending = home.pending /\ r.probing = home.probing
      /\ r.draining = home.draining /\ r.armed = home.armed \ {s} /\ r.slots = home.slots
  BY <1>1 DEF Struct, SameLists, Disarmed
<1>3. home' = r
  OBVIOUS
<1> HIDE DEF r
<1>4. Sound(r)
  BY <1>1, <1>2, ApartSound DEF Probed
<1>5. Starts(r)
  <2>1. NextJob(home, TRUE) # None <=>
          Waits(home, 0) \/ (home.running_bg < BackgroundSlots(home) /\ Waits(home, 1))
    BY <1>1, NextIs
  <2> QED BY <1>2, <2>1 DEF Good, Starts, MayStart, Waits, BackgroundSlots, SameLists
<1>6. Ends(r)
  BY <1>2 DEF Good, Ends, SameLists
<1>7. r.running_bg <= home.running_bg
  BY <1>1, <1>2, Fields DEF SameLists
<1> QED BY <1>3, <1>4, <1>5, <1>6, <1>7, KeptGood DEF Good

LEMMA ShedStepKeeps ==
  ASSUME Good(home), ShedStep
  PROVE  Good(home') /\ BackgroundLater
<1> DEFINE j == NextJob(home, FALSE)
           r == End(home, j)
<1>1. CASE home.state = "OPEN" /\ j # None
  <2>1. home' = r /\ r = End(home, j)
    BY <1>1 DEF ShedStep
  <2>2. PICK c \in {0, 1} : j = First(home, c)
    BY <1>1, NextIs DEF Good
  <2>3. j \in home.due /\ (Has(home, j, "READY") \/ home.flags[j] = {})
    BY <1>1, <2>2, FirstIs DEF Good, Waits
  <2> HIDE DEF r, j
  <2>4. j \notin home.transfer
    <3>1. \A i \in home.transfer : i \in Job /\ Has(home, i, "RUNNING") /\ ~Has(home, i, "READY")
      BY DEF Good, Sound, Runs, Ran, Flagged
    <3> QED BY <2>3, <3>1 DEF Has
  <2>5. Good(r) /\ r.running_bg <= home.running_bg
    BY <2>1, <2>3, <2>4, EndedGood
  <2> QED BY <2>1, <2>5, KeptGood
<1>2. CASE ~(home.state = "OPEN" /\ j # None)
  <2>1. home' = Disarmed("shed") /\ "shed" \in Step
    BY <1>2 DEF ShedStep, Step
  <2> QED BY <2>1, DisarmedKeeps
<1> QED BY <1>1, <1>2

LEMMA StopStepKeeps ==
  ASSUME Good(home), StopStep
  PROVE  Good(home') /\ BackgroundLater
<1>1. CASE home.dropped # <<>>
  <2> DEFINE j == Head(home.dropped)
             r == Cancel(home, j)
  <2>1. home.dropped \in Lists(Job) /\ Runs(home)
    BY Fields DEF Good, Sound
  <2>2. j \in home.due
    BY <1>1, <2>1, OnList DEF Runs
  <2>3. home' = r /\ r = Cancel(home, j)
    BY <1>1 DEF StopStep
  <2> HIDE DEF r, j
  <2>4. Good(r) /\ r.running_bg <= home.running_bg
    BY <2>2, <2>3, CancelGood
  <2> QED BY <2>3, <2>4, KeptGood
<1>2. CASE home.dropped = <<>>
  <2>1. home' = Disarmed("stop") /\ "stop" \in Step
    BY <1>2 DEF StopStep, Step
  <2> QED BY <1>2, <2>1, DisarmedKeeps
<1> QED BY <1>1, <1>2

LEMMA DrainStepKeeps ==
  ASSUME Good(home), DrainStep
  PROVE  Good(home') /\ BackgroundLater
<1>1. CASE home.due # {}
  <2>1. PICK j \in home.due : home' = Cancel(home, j)
    BY <1>1 DEF DrainStep
  <2> DEFINE r == Cancel(home, j)
  <2>2. r = Cancel(home, j)
    OBVIOUS
  <2> HIDE DEF r
  <2>3. Good(r) /\ r.running_bg <= home.running_bg
    BY <2>2, CancelGood
  <2> QED BY <2>1, <2>2, <2>3, KeptGood
<1>2. CASE home.due = {}
  <2>1. home' = Disarmed("drain") /\ "drain" \in Step
    BY <1>2 DEF DrainStep, Step
  <2> QED BY <1>2, <2>1, DisarmedKeeps
<1> QED BY <1>1, <1>2

-----------------------------------------------------------------------------
(* Jobs let go of.                                                         *)

LEMMA UnlistedIs ==
  ASSUME NEW h, Sound(h), NEW j \in Job, NEW r, r = Unlisted(h, j)
  PROVE  /\ r \in Struct /\ \A c \in {0, 1} : r.ready[c] = Off(h.ready[c], j)
         /\ r.background = Off(h.background, j) /\ r.preempting = Off(h.preempting, j)
         /\ r.dropped = Off(h.dropped, j) /\ r.queue = h.queue /\ r.ring = h.ring
         /\ r.due = h.due /\ r.owed = h.owed /\ r.flags = h.flags
         /\ r.transfer = h.transfer /\ r.pending = h.pending /\ r.thought = h.thought
         /\ r.place = h.place /\ r.cuts = h.cuts /\ r.readied = h.readied
         /\ r.running = h.running /\ r.running_bg = h.running_bg /\ r.slots = h.slots
         /\ r.asking = h.asking /\ r.journal = h.journal /\ r.fifo = h.fifo
         /\ r.state = h.state /\ r.failures = h.failures /\ r.probing = h.probing
         /\ r.draining = h.draining /\ r.armed = h.armed
<1> DEFINE c == Class[j]
           ready == [h.ready EXCEPT ![c] = Off(@, j)]
           background == Off(h.background, j)
           preempting == Off(h.preempting, j)
           dropped == Off(h.dropped, j)
<1>1. h \in Struct /\ c \in {0, 1}
  BY Given DEF Sound
<1>2. /\ h.ready \in [{0, 1} -> Lists(Job)] /\ h.background \in Lists(Job)
      /\ h.preempting \in Lists(Job) /\ h.dropped \in Lists(Job)
  BY <1>1, Fields
<1>3. /\ ready \in [{0, 1} -> Lists(Job)] /\ background \in Lists(Job)
      /\ preempting \in Lists(Job) /\ dropped \in Lists(Job)
  BY <1>1, <1>2, OffList
<1>4. r = [h EXCEPT !.ready = ready, !.background = background, !.preempting = preempting,
                    !.dropped = dropped]
  BY DEF Unlisted
<1>5. \A d \in {0, 1} : ready[d] = Off(h.ready[d], j)
  <2>1. \A d \in {0, 1} : d # c => Off(h.ready[d], j) = h.ready[d]
    BY <1>1, OnWhich DEF Off
  <2> QED BY <1>1, <1>2, <2>1
<1>6. /\ background = Off(h.background, j) /\ preempting = Off(h.preempting, j)
      /\ dropped = Off(h.dropped, j)
  OBVIOUS
<1> HIDE DEF ready, background, preempting, dropped
<1>7. r \in Struct
  BY <1>1, <1>3, <1>4, ZenonT(60) DEF Struct
<1>8. /\ r.ready = ready
      /\ r.background = background /\ r.preempting = preempting
      /\ r.dropped = dropped /\ r.queue = h.queue /\ r.ring = h.ring
      /\ r.due = h.due /\ r.owed = h.owed /\ r.flags = h.flags
      /\ r.transfer = h.transfer /\ r.pending = h.pending /\ r.thought = h.thought
      /\ r.place = h.place /\ r.cuts = h.cuts /\ r.readied = h.readied
      /\ r.running = h.running /\ r.running_bg = h.running_bg /\ r.slots = h.slots
      /\ r.asking = h.asking /\ r.journal = h.journal /\ r.fifo = h.fifo
      /\ r.state = h.state /\ r.failures = h.failures /\ r.probing = h.probing
      /\ r.draining = h.draining /\ r.armed = h.armed
  BY <1>1, <1>4 DEF Struct
<1> QED BY <1>5, <1>6, <1>7, <1>8

LEMMA ReleaseKeeps ==
  ASSUME Good(home), NEW j \in Job, Release(j)
  PROVE  Good(home') /\ BackgroundLater
<1>1. j \in home.due /\ ~Has(home, j, "DROPPED")
  BY DEF Release
<1>2. CASE j \notin home.transfer
  <2> DEFINE r == End(home, j)
  <2>1. r = End(home, j) /\ home' = r
    BY <1>2 DEF Release
  <2> HIDE DEF r
  <2>2. Good(r) /\ r.running_bg <= home.running_bg
    BY <1>1, <1>2, <2>1, EndedGood
  <2> QED BY <2>1, <2>2, KeptGood
<1>3. CASE j \in home.transfer
  <2> DEFINE u == Unlisted(home, j)
             flags == [home.flags EXCEPT ![j] = @ \cup {"DROPPED"}]
             dropped == Append(Off(home.dropped, j), j)
             q == [u EXCEPT !.flags = flags, !.dropped = dropped]
             r == Armed(q, "stop")
  <2>1. /\ home \in Struct /\ Sound(home) /\ Lines(home) /\ Runs(home) /\ Flagged(home)
        /\ Counted(home) /\ Probed(home) /\ Placed(home) /\ CutsOnce(home)
    BY DEF Good, Sound
  <2>2. Has(home, j, "RUNNING") /\ ~Has(home, j, "READY") /\ home.flags[j] # {}
    BY <1>3, <2>1 DEF Runs, Ran, Flagged, Has
  <2>3. /\ u \in Struct /\ \A c \in {0, 1} : u.ready[c] = Off(home.ready[c], j)
        /\ u.background = Off(home.background, j) /\ u.preempting = Off(home.preempting, j)
        /\ u.dropped = Off(home.dropped, j) /\ u.queue = home.queue /\ u.ring = home.ring
        /\ u.due = home.due /\ u.owed = home.owed /\ u.flags = home.flags
        /\ u.transfer = home.transfer /\ u.pending = home.pending
        /\ u.place = home.place /\ u.cuts = home.cuts /\ u.readied = home.readied
        /\ u.running = home.running /\ u.running_bg = home.running_bg
        /\ u.slots = home.slots /\ u.fifo = home.fifo /\ u.state = home.state
        /\ u.probing = home.probing /\ u.draining = home.draining
        /\ u.armed = home.armed
    <3> DEFINE x == Unlisted(home, j)
    <3>1. x = Unlisted(home, j)
      OBVIOUS
    <3> HIDE DEF x
    <3>2. u = x
      BY <3>1
    <3> HIDE DEF u
    <3> QED BY <2>1, <3>1, <3>2, UnlistedIs
  <2>4. home' = r
    BY <1>3, <2>3 DEF Release
  <2> HIDE DEF u
  <2>5. /\ home.flags \in [Job -> SUBSET Flag] /\ home.dropped \in Lists(Job)
        /\ home.background \in Lists(Job) /\ home.preempting \in Lists(Job)
        /\ home.ready \in [{0, 1} -> Lists(Job)]
    BY <2>1, Fields
  <2>6. /\ flags \in [Job -> SUBSET Flag]
        /\ \A i \in Job : flags[i] = IF i = j THEN home.flags[j] \cup {"DROPPED"} ELSE home.flags[i]
    BY <2>5 DEF Flag
  <2>7. dropped \in Lists(Job) /\ ToSet(dropped) = ToSet(home.dropped) \cup {j}
    <3>1. /\ Off(home.dropped, j) \in Lists(Job)
          /\ ToSet(Off(home.dropped, j)) = ToSet(home.dropped) \ {j}
      BY <2>5, OffList
    <3>2. j \notin ToSet(Off(home.dropped, j))
      BY <3>1
    <3> QED BY <3>1, <3>2, AppendTo
  <2>8. /\ ToSet(u.background) = ToSet(home.background) \ {j}
        /\ ToSet(u.preempting) = ToSet(home.preempting) \ {j}
    <3>1. /\ ToSet(Off(home.background, j)) = ToSet(home.background) \ {j}
          /\ ToSet(Off(home.preempting, j)) = ToSet(home.preempting) \ {j}
      BY <2>5, OffList
    <3> QED BY <2>3, <3>1
  <2>9. \A c \in {0, 1} : u.ready[c] = home.ready[c]
    BY <2>1, <2>2, <2>3, OnWhich DEF Off
  <2> HIDE DEF flags, dropped
  <2>10. /\ q \in Struct /\ q.ready = u.ready /\ q.background = u.background
         /\ q.preempting = u.preempting /\ q.dropped = dropped /\ q.queue = home.queue
         /\ q.ring = home.ring /\ q.due = home.due /\ q.owed = home.owed /\ q.flags = flags
         /\ q.transfer = home.transfer /\ q.pending = home.pending
         /\ q.place = home.place /\ q.cuts = home.cuts /\ q.readied = home.readied
         /\ q.running = home.running /\ q.running_bg = home.running_bg
         /\ q.slots = home.slots /\ q.fifo = home.fifo /\ q.state = home.state
         /\ q.probing = home.probing /\ q.draining = home.draining
         /\ q.armed = home.armed
    BY <2>3, <2>6, <2>7 DEF Struct
  <2> HIDE DEF q
  <2>11. ASSUME NEW i \in Job
         PROVE  /\ q.flags[i] = {} <=> home.flags[i] = {}
                /\ \A f : f # "DROPPED" => (Has(q, i, f) <=> Has(home, i, f))
                /\ Has(q, i, "DROPPED") <=> Has(home, i, "DROPPED") \/ i = j
                /\ Ran(q, i) <=> Ran(home, i)
                /\ Whom(q, i) = Whom(home, i)
    <3>1. Whom(q, i) = Whom(home, i)
      BY <2>1, <2>10, WhomIs
    <3> QED BY <2>2, <2>6, <2>10, <3>1 DEF Has, Ran
  <2>12. home.due \subseteq Job /\ home.transfer \subseteq Job
    BY <2>1, Fields
  <2>13. Lines(q)
    BY <2>1, <2>9, <2>10, <2>11, <2>12 DEF Lines
  <2>14. Runs(q)
    BY <1>1, <2>1, <2>7, <2>8, <2>10, <2>11, <2>12 DEF Runs
  <2>15. Flagged(q)
    BY <2>1, <2>2, <2>8, <2>10, <2>11 DEF Flagged
  <2>16. Counted(q) /\ Placed(q)
    <3>1. /\ {i \in Job : Ran(q, i)} = {i \in Job : Ran(home, i)}
          /\ {i \in Job : Ran(q, i) /\ Class[i] = 1} = {i \in Job : Ran(home, i) /\ Class[i] = 1}
      BY <2>11
    <3>2. Counted(q)
      BY <2>1, <2>10, <3>1 DEF Counted
    <3>3. Placed(q)
      BY <2>1, <2>10 DEF Placed
    <3> QED BY <3>2, <3>3
  <2>17. Probed(q)
    BY <2>1, <2>10, <2>11, <2>12 DEF Probed
  <2>18. CutsOnce(q)
    BY <2>1, <2>8, <2>10, <2>11 DEF CutsOnce
  <2>19. Sound(q)
    BY <2>10, <2>13, <2>14, <2>15, <2>16, <2>17, <2>18 DEF Sound
  <2>20. Starts(q)
    BY <2>9, <2>10 DEF Good, Starts, MayStart, Waits, BackgroundSlots
  <2>21. r = Armed(q, "stop") /\ "stop" \in Step
    BY DEF Step
  <2> HIDE DEF r
  <2>22. /\ Sound(r) /\ Starts(r) /\ r.armed = home.armed \cup {"stop"}
         /\ r.preempting = u.preempting /\ r.draining = home.draining /\ r.due = home.due
         /\ r.running_bg = home.running_bg
    BY <2>10, <2>19, <2>20, <2>21, ArmedGood, ArmedIs DEF SameLists
  <2>23. u.preempting # <<>> => home.preempting # <<>>
    <3>1. u.preempting \in Lists(Job)
      BY <2>3, Fields
    <3> QED BY <2>5, <2>8, <3>1, OnList
  <2>24. Ends(r)
    BY <2>22, <2>23 DEF Good, Ends
  <2>25. r.running_bg <= home.running_bg
    BY <2>1, <2>22, Fields
  <2> QED BY <2>4, <2>22, <2>24, <2>25, KeptGood DEF Good
<1> QED BY <1>2, <1>3

-----------------------------------------------------------------------------
(* The start step.                                                         *)

LEMMA RotatedSound ==
  ASSUME NEW h, Sound(h), NEW c \in {0, 1}, h.ring[c] # <<>>, NEW r,
         r = [h EXCEPT !.ring[c] = Append(Tail(@), Head(@))]
  PROVE  /\ Sound(r) /\ Rest(h, r) /\ r.queue = h.queue /\ r.ready = h.ready
         /\ r.flags = h.flags /\ r.readied = h.readied
<1> DEFINE l == Append(Tail(h.ring[c]), Head(h.ring[c]))
           ring == [h.ring EXCEPT ![c] = l]
<1>1. /\ h \in Struct /\ Lines(h) /\ Runs(h) /\ Flagged(h) /\ Counted(h) /\ Probed(h)
      /\ Placed(h) /\ CutsOnce(h)
  BY DEF Sound
<1>2. h.ring \in [{0, 1} -> Lists(Principal)] /\ h.ring[c] \in Lists(Principal)
  BY <1>1, Fields
<1>3. l \in Lists(Principal) /\ ToSet(l) = ToSet(h.ring[c])
  <2> DEFINE x == Head(h.ring[c])
             t == Tail(h.ring[c])
  <2>1. /\ t \in Lists(Principal) /\ ToSet(t) = ToSet(h.ring[c]) \ {x}
        /\ x \in ToSet(h.ring[c]) /\ ToSet(h.ring[c]) \subseteq Principal
    BY <1>2, TailList, OnList
  <2>2. l = Append(t, x)
    OBVIOUS
  <2> HIDE DEF t, x, l
  <2>3. Append(t, x) \in Lists(Principal) /\ ToSet(Append(t, x)) = ToSet(t) \cup {x}
    BY <2>1, AppendTo
  <2> QED BY <2>1, <2>2, <2>3
<1>4. r = [h EXCEPT !.ring = ring]
  OBVIOUS
<1> HIDE DEF l
<1>5. /\ ring \in [{0, 1} -> Lists(Principal)]
      /\ \A d \in {0, 1} : ToSet(ring[d]) = ToSet(h.ring[d])
  BY <1>2, <1>3
<1> HIDE DEF ring
<1>6. r \in Struct
  BY <1>1, <1>4, <1>5, ZenonT(40) DEF Struct
<1>7. /\ r.ring = ring /\ r.queue = h.queue /\ r.ready = h.ready
      /\ r.background = h.background /\ r.preempting = h.preempting
      /\ r.dropped = h.dropped /\ r.due = h.due /\ r.owed = h.owed /\ r.flags = h.flags
      /\ r.transfer = h.transfer /\ r.pending = h.pending /\ r.place = h.place
      /\ r.cuts = h.cuts /\ r.readied = h.readied /\ r.running = h.running
      /\ r.running_bg = h.running_bg /\ r.slots = h.slots /\ r.journal = h.journal
      /\ r.fifo = h.fifo /\ r.state = h.state /\ r.probing = h.probing
      /\ r.draining = h.draining /\ r.armed = h.armed /\ r.thought = h.thought
      /\ r.failures = h.failures /\ r.asking = h.asking
  BY <1>1, <1>4 DEF Struct
<1>8. \A i \in Job : Whom(r, i) = Whom(h, i)
  BY <1>1, <1>6, <1>7, WhomIs
<1>9. \A i \in Job : Ran(r, i) <=> Ran(h, i)
  BY <1>7 DEF Ran, Has
<1>10. h.due \subseteq Job
  BY <1>1, Fields
<1>11. Lines(r)
  <2> SUFFICES ASSUME NEW d \in {0, 1}
               PROVE  /\ \A p \in Principal : ToSet(r.queue[d][p]) =
                           {i \in r.due : r.flags[i] = {} /\ Class[i] = d /\ Whom(r, i) = p}
                      /\ ToSet(r.ring[d]) = {p \in Principal : r.queue[d][p] # <<>>}
                      /\ ToSet(r.ready[d]) = {i \in r.due : Class[i] = d /\ Has(r, i, "READY")}
                      /\ r.readied[d] = Len(r.ready[d])
    BY DEF Lines
  <2>1. /\ \A p \in Principal : ToSet(h.queue[d][p]) =
             {i \in h.due : h.flags[i] = {} /\ Class[i] = d /\ Whom(h, i) = p}
        /\ ToSet(h.ring[d]) = {p \in Principal : h.queue[d][p] # <<>>}
        /\ ToSet(h.ready[d]) = {i \in h.due : Class[i] = d /\ Has(h, i, "READY")}
        /\ h.readied[d] = Len(h.ready[d])
    BY <1>1 DEF Lines
  <2>2. \A i \in h.due : Whom(r, i) = Whom(h, i)
    BY <1>8, <1>10
  <2>3. ToSet(r.ring[d]) = {p \in Principal : r.queue[d][p] # <<>>}
    <3>1. r.ring[d] = ring[d] /\ r.queue[d] = h.queue[d]
      BY <1>7
    <3>2. ToSet(ring[d]) = ToSet(h.ring[d])
      BY <1>5
    <3> QED BY <2>1, <3>1, <3>2
  <2>4. /\ ToSet(r.ready[d]) = {i \in r.due : Class[i] = d /\ Has(r, i, "READY")}
        /\ r.readied[d] = Len(r.ready[d])
    BY <1>7, <2>1 DEF Has
  <2>5. ASSUME NEW p \in Principal
        PROVE  ToSet(r.queue[d][p]) =
                 {i \in r.due : r.flags[i] = {} /\ Class[i] = d /\ Whom(r, i) = p}
    <3>1. r.queue[d][p] = h.queue[d][p] /\ r.due = h.due /\ r.flags = h.flags
      BY <1>7
    <3>2. ToSet(h.queue[d][p]) = {i \in h.due : h.flags[i] = {} /\ Class[i] = d /\ Whom(h, i) = p}
      BY <2>1
    <3>3. {i \in h.due : h.flags[i] = {} /\ Class[i] = d /\ Whom(h, i) = p} =
          {i \in r.due : r.flags[i] = {} /\ Class[i] = d /\ Whom(r, i) = p}
      BY <2>2, <3>1
    <3> QED BY <3>1, <3>2, <3>3
  <2> QED BY <2>3, <2>4, <2>5
<1>12. Runs(r)
  BY <1>1, <1>7, <1>9 DEF Runs, Has
<1>13. Flagged(r) /\ Probed(r)
  BY <1>1, <1>7 DEF Flagged, Probed, Has
<1>14. Counted(r)
  BY <1>1, <1>7, <1>9 DEF Counted
<1>15. Placed(r) /\ CutsOnce(r)
  BY <1>1, <1>7 DEF Placed, CutsOnce, Has
<1>16. Sound(r)
  BY <1>6, <1>11, <1>12, <1>13, <1>14, <1>15 DEF Sound
<1> QED BY <1>7, <1>16 DEF Rest

\* The job that starts is on none of the lists it waited on.
Off1(h, t, j) ==
  LET f == h.flags[j]
  IN  /\ \A c \in {0, 1} :
           /\ \A p \in Principal : t.queue[c][p] = Off(h.queue[c][p], j)
           /\ ToSet(t.ring[c]) = {p \in Principal : t.queue[c][p] # <<>>}
           /\ t.ready[c] = Off(h.ready[c], j)
           /\ t.readied[c] = h.readied[c] - (IF c = Class[j] /\ "READY" \in f THEN 1 ELSE 0)
      /\ t.flags = [h.flags EXCEPT ![j] = @ \ {"READY"}]
      /\ Rest(h, t)

LEMMA TakenReady ==
  ASSUME NEW h, Sound(h), NEW j \in h.due, Has(h, j, "READY"), NEW t,
         t = [Unlisted(h, j) EXCEPT !.flags[j] = @ \ {"READY"}, !.readied[Class[j]] = @ - 1]
  PROVE  t \in Struct /\ Placed(t) /\ Off1(h, t, j)
<1> DEFINE c == Class[j]
           u == Unlisted(h, j)
           flags == [h.flags EXCEPT ![j] = @ \ {"READY"}]
           readied == [h.readied EXCEPT ![c] = @ - 1]
<1>1. /\ h \in Struct /\ Lines(h) /\ Placed(h) /\ Runs(h) /\ Flagged(h) /\ j \in Job
      /\ c \in {0, 1}
  <2>1. h \in Struct /\ j \in Job
    BY Fields DEF Sound
  <2> QED BY <2>1, Given DEF Sound
<1>2. /\ u \in Struct /\ \A d \in {0, 1} : u.ready[d] = Off(h.ready[d], j)
      /\ u.background = Off(h.background, j) /\ u.preempting = Off(h.preempting, j)
      /\ u.dropped = Off(h.dropped, j) /\ u.queue = h.queue /\ u.ring = h.ring
      /\ u.due = h.due /\ u.owed = h.owed /\ u.flags = h.flags
      /\ u.transfer = h.transfer /\ u.pending = h.pending
      /\ u.place = h.place /\ u.cuts = h.cuts /\ u.readied = h.readied
      /\ u.running = h.running /\ u.running_bg = h.running_bg /\ u.slots = h.slots
      /\ u.journal = h.journal /\ u.fifo = h.fifo
      /\ u.state = h.state /\ u.probing = h.probing
      /\ u.draining = h.draining /\ u.armed = h.armed /\ u.thought = h.thought
      /\ u.failures = h.failures /\ u.asking = h.asking
  <2> DEFINE x == Unlisted(h, j)
  <2>1. x = Unlisted(h, j)
    OBVIOUS
  <2> HIDE DEF x
  <2>2. u = x
    BY <2>1
  <2> HIDE DEF u
  <2> QED BY <1>1, <2>1, <2>2, UnlistedIs
<1>3. /\ u.background = h.background /\ u.preempting = h.preempting /\ u.dropped = h.dropped
  <2>1. j \notin ToSet(h.background) /\ j \notin ToSet(h.preempting) /\ j \notin ToSet(h.dropped)
    BY <1>1, OnWhich DEF Flagged
  <2> QED BY <1>2, <2>1 DEF Off
<1>4. \A d \in {0, 1}, p \in Principal : h.queue[d][p] = Off(h.queue[d][p], j)
  BY <1>1, OnWhich DEF Off, Has
<1>5. /\ h.flags \in [Job -> SUBSET Flag] /\ h.readied \in [{0, 1} -> Int]
  BY <1>1, Fields
<1>6. /\ flags \in [Job -> SUBSET Flag] /\ readied \in [{0, 1} -> Int]
      /\ \A d \in {0, 1} : readied[d] = h.readied[d] - (IF d = c THEN 1 ELSE 0)
  BY <1>1, <1>5
<1>7. t = [u EXCEPT !.flags = flags, !.readied = readied]
  BY <1>2
<1>8. flags = [h.flags EXCEPT ![j] = @ \ {"READY"}]
  OBVIOUS
<1> HIDE DEF u, flags, readied
<1>9. t \in Struct
  BY <1>2, <1>6, <1>7, ZenonT(60) DEF Struct
<1>10. /\ t.flags = flags /\ t.readied = readied /\ t.ready = u.ready
       /\ t.background = h.background /\ t.preempting = h.preempting
       /\ t.dropped = h.dropped /\ t.queue = h.queue /\ t.ring = h.ring
       /\ t.due = h.due /\ t.owed = h.owed
       /\ t.transfer = h.transfer /\ t.pending = h.pending
       /\ t.place = h.place /\ t.cuts = h.cuts
       /\ t.running = h.running /\ t.running_bg = h.running_bg /\ t.slots = h.slots
       /\ t.journal = h.journal /\ t.fifo = h.fifo
       /\ t.state = h.state /\ t.probing = h.probing
       /\ t.draining = h.draining /\ t.armed = h.armed /\ t.thought = h.thought
       /\ t.failures = h.failures /\ t.asking = h.asking
  BY <1>2, <1>3, <1>7, ZenonT(60) DEF Struct
<1>11. Placed(t)
  BY <1>1, <1>10 DEF Placed
<1>12. Off1(h, t, j)
  <2>1. ASSUME NEW d \in {0, 1}
        PROVE  /\ \A p \in Principal : t.queue[d][p] = Off(h.queue[d][p], j)
               /\ ToSet(t.ring[d]) = {p \in Principal : t.queue[d][p] # <<>>}
               /\ t.ready[d] = Off(h.ready[d], j)
               /\ t.readied[d] = h.readied[d] - (IF d = c /\ "READY" \in h.flags[j] THEN 1 ELSE 0)
    BY <1>1, <1>2, <1>4, <1>6, <1>10 DEF Lines, Has
  <2> HIDE DEF c
  <2>2. c = Class[j]
    BY DEF c
  <2>3. Rest(h, t)
    BY <1>10 DEF Rest
  <2> QED BY <1>8, <1>10, <2>1, <2>2, <2>3 DEF Off1
<1> QED BY <1>9, <1>11, <1>12

LEMMA TakenQueued ==
  ASSUME NEW h, Sound(h), NEW j \in h.due, h.flags[j] = {},
         NEW q, Sound(q), Rest(h, q), q.queue = h.queue, q.ready = h.ready,
         q.flags = h.flags, q.readied = h.readied,
         NEW t, t = Unqueue(q, j)
  PROVE  t \in Struct /\ Placed(t) /\ Off1(h, t, j)
<1>1. h \in Struct /\ j \in Job /\ Class[j] \in {0, 1}
  <2>1. h \in Struct /\ j \in Job
    BY Fields DEF Sound
  <2> QED BY <2>1, Given
<1>4. j \in q.due /\ q.flags[j] = {}
  BY DEF Rest
<1>5. /\ t \in Struct /\ Placed(t)
      /\ \A c \in {0, 1}, p \in Principal : t.queue[c][p] = Off(q.queue[c][p], j)
      /\ \A c \in {0, 1} :
           /\ ToSet(t.ring[c]) = {p \in Principal : t.queue[c][p] # <<>>}
           /\ t.ring[c] # <<>> => q.ring[c] # <<>>
      /\ Rest(q, t) /\ t.ready = q.ready /\ t.flags = q.flags /\ t.readied = q.readied
  BY <1>4, UnqueueIs
<1>6. \A c \in {0, 1} : h.ready[c] = Off(h.ready[c], j)
  BY <1>1, OnWhich DEF Off, Has
<1>7. h.flags = [h.flags EXCEPT ![j] = @ \ {"READY"}]
  <2>1. h.flags \in [Job -> SUBSET Flag]
    BY <1>1, Fields
  <2> QED BY <1>1, <2>1
<1>8. h.readied \in [{0, 1} -> Int]
  BY <1>1, Fields
<1>9. \A c \in {0, 1} :
        t.readied[c] = h.readied[c] - (IF c = Class[j] /\ "READY" \in h.flags[j] THEN 1 ELSE 0)
  <2> SUFFICES ASSUME NEW c \in {0, 1}
               PROVE  t.readied[c] = h.readied[c] -
                        (IF c = Class[j] /\ "READY" \in h.flags[j] THEN 1 ELSE 0)
    OBVIOUS
  <2>1. h.readied[c] \in Int /\ t.readied[c] = h.readied[c]
    BY <1>5, <1>8
  <2>2. (IF c = Class[j] /\ "READY" \in h.flags[j] THEN 1 ELSE 0) = 0
    OBVIOUS
  <2> QED BY <2>1, <2>2
<1>10. ASSUME NEW c \in {0, 1}
       PROVE  /\ \A p \in Principal : t.queue[c][p] = Off(h.queue[c][p], j)
              /\ ToSet(t.ring[c]) = {p \in Principal : t.queue[c][p] # <<>>}
              /\ t.ready[c] = Off(h.ready[c], j)
  BY <1>5, <1>6
<1>11. t.flags = [h.flags EXCEPT ![j] = @ \ {"READY"}]
  BY <1>5, <1>7
<1>12. Rest(h, t)
  BY <1>5 DEF Rest
<1> QED BY <1>5, <1>9, <1>10, <1>11, <1>12 DEF Off1

\* The job runs: it has a slot, and is the probe of a half-open breaker.
Started(t, j) ==
  LET probe == t.state = "HALF"
  IN  [t EXCEPT !.flags[j] = @ \cup {"RUNNING"} \cup (IF probe THEN {"PROBE"} ELSE {}),
                !.probing = @ \/ probe,
                !.running = @ + 1, !.running_bg = @ + Class[j],
                !.background = IF Class[j] = 1 THEN Append(@, j) ELSE @,
                !.place[j] = 0]

LEMMA StartedGood ==
  ASSUME NEW h, Sound(h), Ends(h), "start" \in h.armed, ~h.probing,
         NEW j \in h.due, Has(h, j, "READY") \/ h.flags[j] = {},
         NEW t \in Struct, Placed(t), Off1(h, t, j), NEW s, s = Started(t, j)
  PROVE  /\ Good(s) /\ s.due = h.due /\ Ran(s, j) /\ ~Has(s, j, "DELIVERED")
         /\ s.transfer = h.transfer /\ s.pending = h.pending /\ s.slots = h.slots
         /\ j \notin s.transfer /\ s.running_bg = h.running_bg + Class[j]
<1> DEFINE probe == h.state = "HALF"
           new == {"RUNNING"} \cup (IF probe THEN {"PROBE"} ELSE {})
           flags == [t.flags EXCEPT ![j] = @ \cup {"RUNNING"} \cup (IF probe THEN {"PROBE"} ELSE {})]
           background == IF Class[j] = 1 THEN Append(t.background, j) ELSE t.background
           place == [t.place EXCEPT ![j] = 0]
           running == t.running + 1
           running_bg == t.running_bg + Class[j]
           probing == t.probing \/ probe
<1>1. /\ h \in Struct /\ Lines(h) /\ Runs(h) /\ Flagged(h) /\ Counted(h) /\ Probed(h)
      /\ CutsOnce(h) /\ Placed(h)
  BY DEF Sound
<1>2. /\ j \in Job /\ Class[j] \in {0, 1} /\ h.due \subseteq Job /\ h.transfer \subseteq Job
      /\ h.flags \in [Job -> SUBSET Flag]
  <2>1. j \in Job /\ h.due \subseteq Job /\ h.transfer \subseteq Job
        /\ h.flags \in [Job -> SUBSET Flag]
    BY <1>1, Fields
  <2> QED BY <2>1, Given
<1>3. ~Has(h, j, "RUNNING") /\ ~Has(h, j, "DROPPED") /\ ~Has(h, j, "PROBE") /\ ~Has(h, j, "DELIVERED")
  BY <1>1, <1>2 DEF Flagged, Has
<1>4. j \notin ToSet(h.background) \cup ToSet(h.preempting) \cup ToSet(h.dropped) /\ j \notin h.transfer
  BY <1>1, <1>2, <1>3, OnWhich DEF Runs, Ran
<1>5. Rest(h, t) /\ t.flags = [h.flags EXCEPT ![j] = @ \ {"READY"}]
  BY DEF Off1
<1>6. /\ flags \in [Job -> SUBSET Flag]
      /\ \A i \in Job : flags[i] = IF i = j THEN (h.flags[j] \ {"READY"}) \cup new ELSE h.flags[i]
  BY <1>2, <1>5 DEF Flag
<1>7. /\ background \in Lists(Job)
      /\ ToSet(background) = IF Class[j] = 1 THEN ToSet(h.background) \cup {j} ELSE ToSet(h.background)
  <2>1. t.background = h.background /\ h.background \in Lists(Job)
    BY <1>1, <1>5, Fields DEF Rest
  <2>2. Append(h.background, j) \in Lists(Job) /\ ToSet(Append(h.background, j)) = ToSet(h.background) \cup {j}
    BY <1>2, <1>4, <2>1, AppendTo
  <2> QED BY <2>1, <2>2
<1>8. /\ place \in [Job -> Int] /\ running \in Int /\ running_bg \in Int /\ probing \in BOOLEAN
      /\ \A i \in Job : i # j => place[i] = t.place[i]
  <2>1. t.place \in [Job -> Int] /\ t.running \in Int /\ t.running_bg \in Int
    BY Fields
  <2> QED BY <1>2, <2>1
<1>9. s = [t EXCEPT !.flags = flags, !.probing = probing, !.running = running,
                    !.running_bg = running_bg, !.background = background, !.place = place]
  <2>1. t.state = h.state
    BY <1>5 DEF Rest
  <2> QED BY <2>1 DEF Started
<1>10. running = h.running + 1 /\ running_bg = h.running_bg + Class[j] /\ probing = probe
  BY <1>5 DEF Rest
<1> HIDE DEF flags, background, place, running, running_bg, probing
<1>11. s \in Struct
  <2> DEFINE m == [t EXCEPT !.flags = flags, !.probing = probing, !.running = running]
  <2>1. m \in Struct
    BY <1>6, <1>8 DEF Struct
  <2>2. s = [m EXCEPT !.running_bg = running_bg, !.background = background, !.place = place]
    BY <1>9
  <2> HIDE DEF m
  <2> QED BY <1>7, <1>8, <2>1, <2>2, ZenonT(60) DEF Struct
<1>12. /\ s.flags = flags /\ s.probing = probing /\ s.running = running
       /\ s.running_bg = running_bg /\ s.background = background /\ s.place = place
       /\ s.queue = t.queue /\ s.ring = t.ring /\ s.ready = t.ready /\ s.readied = t.readied
       /\ s.preempting = t.preempting /\ s.dropped = t.dropped /\ s.due = t.due
       /\ s.owed = t.owed /\ s.transfer = t.transfer /\ s.pending = t.pending
       /\ s.cuts = t.cuts /\ s.slots = t.slots /\ s.fifo = t.fifo /\ s.state = t.state
       /\ s.draining = t.draining /\ s.armed = t.armed
  BY <1>9 DEF Struct
<1>13. /\ s.preempting = h.preempting /\ s.dropped = h.dropped /\ s.due = h.due
       /\ s.owed = h.owed /\ s.transfer = h.transfer /\ s.pending = h.pending
       /\ s.cuts = h.cuts /\ s.slots = h.slots /\ s.fifo = h.fifo /\ s.state = h.state
       /\ s.draining = h.draining /\ s.armed = h.armed
  BY <1>5, <1>12 DEF Rest
<1>14. ASSUME NEW i \in Job
       PROVE  /\ i # j => s.flags[i] = h.flags[i]
              /\ s.flags[j] # {}
              /\ \A f : Has(s, i, f) <=> IF i = j THEN f \in new \/ (Has(h, j, f) /\ f # "READY")
                                         ELSE Has(h, i, f)
              /\ Ran(s, i) <=> Ran(h, i) \/ i = j
              /\ Whom(s, i) = Whom(h, i)
  <2>1. Whom(s, i) = Whom(h, i)
    BY <1>1, <1>11, <1>13, WhomIs
  <2>2. s.flags[i] = IF i = j THEN (h.flags[j] \ {"READY"}) \cup new ELSE h.flags[i]
    BY <1>6, <1>12
  <2>3. s.flags[j] = (h.flags[j] \ {"READY"}) \cup new /\ "RUNNING" \in new
    BY <1>2, <1>6, <1>12
  <2>4. \A f : Has(s, i, f) <=> IF i = j THEN f \in new \/ (Has(h, j, f) /\ f # "READY")
                                         ELSE Has(h, i, f)
    BY <2>2 DEF Has
  <2>5. Ran(s, i) <=> Ran(h, i) \/ i = j
    BY <1>13, <2>3, <2>4 DEF Ran
  <2> QED BY <2>1, <2>2, <2>3, <2>4, <2>5
<1>15. /\ "RUNNING" \in new /\ ("PROBE" \in new <=> probe) /\ new \subseteq {"RUNNING", "PROBE"}
  OBVIOUS
<1> HIDE DEF new
<1>16. Lines(s)
  <2> SUFFICES ASSUME NEW c \in {0, 1}
               PROVE  /\ \A p \in Principal : ToSet(s.queue[c][p]) =
                           {i \in s.due : s.flags[i] = {} /\ Class[i] = c /\ Whom(s, i) = p}
                      /\ ToSet(s.ring[c]) = {p \in Principal : s.queue[c][p] # <<>>}
                      /\ ToSet(s.ready[c]) = {i \in s.due : Class[i] = c /\ Has(s, i, "READY")}
                      /\ s.readied[c] = Len(s.ready[c])
    BY DEF Lines
  <2>1. ASSUME NEW p \in Principal
        PROVE  ToSet(s.queue[c][p]) =
                 {i \in s.due : s.flags[i] = {} /\ Class[i] = c /\ Whom(s, i) = p}
    <3>1. s.queue[c][p] = Off(h.queue[c][p], j) /\ h.queue[c][p] \in Lists(Job)
      BY <1>1, <1>12, Fields DEF Off1
    <3>2. ToSet(Off(h.queue[c][p], j)) = ToSet(h.queue[c][p]) \ {j}
      BY <3>1, OffList
    <3>3. ToSet(h.queue[c][p]) =
            {i \in h.due : h.flags[i] = {} /\ Class[i] = c /\ Whom(h, i) = p}
      BY <1>1 DEF Lines
    <3> QED BY <1>2, <1>13, <1>14, <3>1, <3>2, <3>3
  <2>2. s.ready[c] = Off(h.ready[c], j) /\ h.ready[c] \in Lists(Job)
    BY <1>1, <1>12, Fields DEF Off1
  <2>3. /\ ToSet(s.ready[c]) = ToSet(h.ready[c]) \ {j} /\ Len(h.ready[c]) \in Nat
        /\ Len(s.ready[c]) = IF j \in ToSet(h.ready[c]) THEN Len(h.ready[c]) - 1
                             ELSE Len(h.ready[c])
    <3>1. /\ ToSet(Off(h.ready[c], j)) = ToSet(h.ready[c]) \ {j}
          /\ Len(Off(h.ready[c], j)) = IF j \in ToSet(h.ready[c]) THEN Len(h.ready[c]) - 1
                                       ELSE Len(h.ready[c])
      BY <2>2, OffList
    <3>2. Len(h.ready[c]) \in Nat
      BY <2>2, OnList
    <3> QED BY <2>2, <3>1, <3>2
  <2>4. /\ ToSet(h.ready[c]) = {i \in h.due : Class[i] = c /\ Has(h, i, "READY")}
        /\ h.readied[c] = Len(h.ready[c])
    BY <1>1 DEF Lines
  <2>5. ToSet(s.ready[c]) = {i \in s.due : Class[i] = c /\ Has(s, i, "READY")}
    BY <1>2, <1>13, <1>14, <1>15, <2>3, <2>4
  <2>6. s.readied[c] = h.readied[c] - (IF c = Class[j] /\ Has(h, j, "READY") THEN 1 ELSE 0)
    BY <1>12 DEF Off1, Has
  <2>7. s.readied[c] = Len(s.ready[c])
    <3>1. j \in ToSet(h.ready[c]) <=> Class[j] = c /\ Has(h, j, "READY")
      BY <2>4
    <3>2. CASE j \in ToSet(h.ready[c])
      BY <2>3, <2>4, <2>6, <3>1, <3>2
    <3>3. CASE j \notin ToSet(h.ready[c])
      <4>1. s.readied[c] = h.readied[c] - 0
        BY <2>6, <3>1, <3>3
      <4>2. h.readied[c] \in Nat /\ Len(s.ready[c]) = h.readied[c]
        BY <2>3, <2>4, <3>3
      <4> QED BY <4>1, <4>2
    <3> QED BY <3>2, <3>3
  <2>8. ToSet(s.ring[c]) = {p \in Principal : s.queue[c][p] # <<>>}
    BY <1>12 DEF Off1
  <2> QED BY <2>1, <2>5, <2>7, <2>8
<1>17. Runs(s)
  BY <1>1, <1>2, <1>3, <1>4, <1>7, <1>12, <1>13, <1>14, <1>15 DEF Runs
<1>18. Flagged(s)
  BY <1>1, <1>2, <1>3, <1>4, <1>13, <1>14, <1>15 DEF Flagged
<1>19. Counted(s)
  <2> DEFINE S == {i \in Job : Ran(h, i)}
             Bg == {i \in Job : Ran(h, i) /\ Class[i] = 1}
             S2 == {i \in Job : Ran(s, i)}
             Bg2 == {i \in Job : Ran(s, i) /\ Class[i] = 1}
  <2>1. S = S2 \ {j} /\ j \in S2 /\ Bg = Bg2 \ {j} /\ (j \in Bg2 <=> Class[j] = 1)
    BY <1>2, <1>3, <1>14 DEF Ran
  <2>2. S2 \in SUBSET Job /\ Bg2 \in SUBSET Job
    OBVIOUS
  <2>3. h.running = Cardinality(S) /\ h.running_bg = Cardinality(Bg)
    BY <1>1 DEF Counted
  <2> HIDE DEF S, Bg, S2, Bg2
  <2>4. /\ Cardinality(S2) \in Nat /\ Cardinality(S) = Cardinality(S2) - (IF j \in S2 THEN 1 ELSE 0)
        /\ Cardinality(Bg2) \in Nat /\ Cardinality(Bg) = Cardinality(Bg2) - (IF j \in Bg2 THEN 1 ELSE 0)
    BY <2>1, <2>2, OneLess
  <2>5. s.running = Cardinality(S2)
    BY <1>10, <1>12, <2>1, <2>3, <2>4
  <2>6. s.running_bg = Cardinality(Bg2)
    <3>1. CASE Class[j] = 1
      BY <1>10, <1>12, <2>1, <2>3, <2>4, <3>1
    <3>2. CASE Class[j] = 0
      <4>1. s.running_bg = h.running_bg + 0 /\ h.running_bg = Cardinality(Bg2) - 0
        BY <1>10, <1>12, <2>1, <2>3, <2>4, <3>2
      <4> QED BY <2>4, <4>1
    <3> QED BY <1>2, <3>1, <3>2
  <2>7. s.owed = Cardinality(s.due)
    BY <1>1, <1>13 DEF Counted
  <2> QED BY <2>5, <2>6, <2>7 DEF Counted, S2, Bg2
<1>20. Probed(s)
  <2>1. \A i \in h.due : ~Has(h, i, "PROBE")
    BY <1>1 DEF Probed
  <2> QED BY <1>2, <1>10, <1>12, <1>13, <1>14, <1>15, <2>1, ZenonT(60) DEF Probed
<1>21. Placed(s)
  <2> SUFFICES ASSUME ~t.fifo, NEW d \in {0, 1}, NEW p \in Principal,
                      NEW i \in 1 .. Len(t.queue[d][p])
               PROVE  place[t.queue[d][p][i]] = i
    BY <1>12 DEF Placed
  <2>1. t.place[t.queue[d][p][i]] = i
    BY DEF Placed
  <2>2. t.queue[d][p] = Off(h.queue[d][p], j) /\ t.queue[d][p] \in Lists(Job)
        /\ h.queue[d][p] \in Lists(Job)
    BY <1>1, Fields DEF Off1
  <2>3. t.queue[d][p][i] \in ToSet(t.queue[d][p]) /\ t.queue[d][p][i] \in Job
    BY <2>2, OnList
  <2>4. ToSet(Off(h.queue[d][p], j)) = ToSet(h.queue[d][p]) \ {j}
    BY <2>2, OffList
  <2>5. t.queue[d][p][i] # j
    BY <2>2, <2>3, <2>4
  <2> QED BY <1>8, <2>1, <2>3, <2>5
<1>22. CutsOnce(s)
  BY <1>1, <1>4, <1>13, <1>14 DEF CutsOnce
<1>23. Starts(s) /\ Ends(s)
  BY <1>13 DEF Starts, Ends
<1>24. Good(s)
  BY <1>11, <1>16, <1>17, <1>18, <1>19, <1>20, <1>21, <1>22, <1>23 DEF Good, Sound
<1>25. Ran(s, j) /\ ~Has(s, j, "DELIVERED")
  BY <1>2, <1>3, <1>14, <1>15
<1> QED BY <1>4, <1>10, <1>12, <1>13, <1>24, <1>25

LEMMA StartStepKeeps ==
  ASSUME Good(home), StartStep
  PROVE  Good(home') /\ BackgroundLater
<1> DEFINE j == NextJob(home, TRUE)
           taken == IF Has(home, j, "READY")
                    THEN [Unlisted(home, j) EXCEPT !.flags[j] = @ \ {"READY"},
                                                   !.readied[Class[j]] = @ - 1]
                    ELSE Unqueue([home EXCEPT !.ring[Class[j]] = Append(Tail(@), Head(@))], j)
<1>1. "start" \in home.armed
  BY DEF StartStep, Ready
<1>2. /\ home \in Struct /\ Sound(home) /\ Ends(home) /\ Probed(home) /\ home.running_bg \in Int
      /\ home.slots \in Int /\ home.probing \in BOOLEAN
  BY Fields DEF Good, Sound
<1>3. CASE ~(MayStart(home) /\ j # None)
  <2>1. home' = Disarmed("start") /\ "start" \in Step
    BY <1>3 DEF StartStep, Step
  <2> QED BY <1>3, <2>1, DisarmedKeeps
<1>4. CASE MayStart(home) /\ j # None
  <2>1. PICK done \in {"opens", "fails"} : home' = Start(taken, j, done)
    BY <1>4 DEF StartStep
  <2>2. PICK c \in {0, 1} : /\ j = First(home, c) /\ (c = 1 => ~Waits(home, 0))
                            /\ c = 1 => home.running_bg < BackgroundSlots(home)
    BY <1>2, <1>4, NextIs
  <2>3. /\ Waits(home, c) /\ j \in home.due /\ Class[j] = c
        /\ home.ready[c] # <<>> => Has(home, j, "READY")
        /\ home.ready[c] = <<>> => home.ring[c] # <<>> /\ home.flags[j] = {}
    BY <1>2, <1>4, <2>2, FirstIs DEF Waits
  <2> HIDE DEF j
  <2>4. taken \in Struct /\ Placed(taken) /\ Off1(home, taken, j)
    <3>1. CASE Has(home, j, "READY")
      <4> DEFINE t == [Unlisted(home, j) EXCEPT !.flags[j] = @ \ {"READY"},
                                                !.readied[Class[j]] = @ - 1]
      <4>1. taken = t
        BY <3>1
      <4>2. t = [Unlisted(home, j) EXCEPT !.flags[j] = @ \ {"READY"},
                                          !.readied[Class[j]] = @ - 1]
        OBVIOUS
      <4> HIDE DEF t, taken
      <4>3. t \in Struct /\ Placed(t) /\ Off1(home, t, j)
        BY <1>2, <2>3, <3>1, <4>2, TakenReady
      <4> QED BY <4>1, <4>3
    <3>2. CASE ~Has(home, j, "READY")
      <4> DEFINE q == [home EXCEPT !.ring[Class[j]] = Append(Tail(@), Head(@))]
                 t == Unqueue(q, j)
      <4>1. taken = t
        BY <3>2
      <4>2. q = [home EXCEPT !.ring[c] = Append(Tail(@), Head(@))]
        BY <2>3
      <4>3. t = Unqueue(q, j)
        OBVIOUS
      <4> HIDE DEF q, t, taken
      <4>4. Sound(home) /\ c \in {0, 1} /\ home.ring[c] # <<>>
        BY <1>2, <2>3, <3>2
      <4>5. /\ Sound(q) /\ Rest(home, q) /\ q.queue = home.queue /\ q.ready = home.ready
            /\ q.flags = home.flags /\ q.readied = home.readied
        BY <4>2, <4>4, RotatedSound
      <4>6. t \in Struct /\ Placed(t) /\ Off1(home, t, j)
        BY <1>2, <2>3, <3>2, <4>3, <4>5, TakenQueued
      <4> QED BY <4>1, <4>6
    <3> QED BY <3>1, <3>2
  <2> HIDE DEF taken
  <2> DEFINE s == Started(taken, j)
             P == s.pending \cup {j}
             T == s.transfer \cup {j}
             p == [s EXCEPT !.pending = P]
             x == [s EXCEPT !.transfer = T]
             r == End(s, j)
  <2>5. home' = r \/ home' = p \/ home' = x
    BY <2>1 DEF Start, Started
  <2>6. /\ Good(s) /\ s.due = home.due /\ Ran(s, j) /\ ~Has(s, j, "DELIVERED")
        /\ s.transfer = home.transfer /\ s.pending = home.pending /\ s.slots = home.slots
        /\ j \notin s.transfer /\ s.running_bg = home.running_bg + Class[j]
    <3>1. ~home.probing /\ (Has(home, j, "READY") \/ home.flags[j] = {})
      BY <1>4, <2>3 DEF MayStart
    <3>2. s = Started(taken, j)
      OBVIOUS
    <3> HIDE DEF s
    <3> QED BY <1>1, <1>2, <2>3, <2>4, <3>1, <3>2, StartedGood
  <2> HIDE DEF s
  <2>7. s \in Struct /\ Runs(s) /\ Sound(s) /\ j \in Job /\ j \in s.due
    BY <1>2, <2>3, <2>6, Fields DEF Good, Sound
  <2>8. CASE home' = r
    <3>1. r = End(s, j)
      OBVIOUS
    <3> HIDE DEF r
    <3>2. Sound(r) /\ Starts(r) /\ Ends(r) /\ Gone(s, r, j)
      BY <2>6, <2>7, <3>1, EndGood, EndIs DEF Good
    <3>3. r.running_bg = s.running_bg - 1 * Class[j]
      BY <2>6, <3>2 DEF Gone, Ran, Has
    <3>4. r.running_bg <= home.running_bg
      <4>1. Class[j] = 0 \/ Class[j] = 1
        BY <2>7, Given
      <4> QED BY <1>2, <2>6, <3>3, <4>1
    <3> QED BY <2>8, <3>2, <3>4, KeptGood DEF Good
  <2>9. CASE home' = p \/ home' = x
    <3>1. P \in SUBSET Job /\ T \in SUBSET Job
      BY <2>7, Fields
    <3>2. /\ \A i \in T : Ran(s, i) /\ ~Has(s, i, "DELIVERED")
          /\ \A i \in P : i \in s.due => Has(s, i, "RUNNING")
      BY <2>6, <2>7, RunOn DEF Runs, Ran
    <3>3. /\ \A i \in s.transfer : Ran(s, i) /\ ~Has(s, i, "DELIVERED")
          /\ \A i \in s.pending : i \in s.due => Has(s, i, "RUNNING")
      BY <2>7, RunOn DEF Runs
    <3> HIDE DEF P, T
    <3>4. /\ p \in Struct /\ SameLists(s, p) /\ p.flags = s.flags /\ p.slots = s.slots
          /\ p.state = s.state /\ p.probing = s.probing /\ p.draining = s.draining
          /\ p.armed = s.armed /\ p.transfer = s.transfer /\ p.pending = P
      BY <2>7, <3>1 DEF Struct, SameLists
    <3>5. /\ x \in Struct /\ SameLists(s, x) /\ x.flags = s.flags /\ x.slots = s.slots
          /\ x.state = s.state /\ x.probing = s.probing /\ x.draining = s.draining
          /\ x.armed = s.armed /\ x.transfer = T /\ x.pending = s.pending
      BY <2>7, <3>1 DEF Struct, SameLists
    <3> HIDE DEF p, x
    <3>6. Good(p)
      BY <2>6, <3>2, <3>3, <3>4, NotedGood
    <3>7. Good(x)
      BY <2>6, <3>2, <3>3, <3>5, NotedGood
    <3>8. Good(home') /\ home'.slots = home.slots /\ home'.running_bg = home.running_bg + Class[j]
      BY <2>6, <2>9, <3>4, <3>5, <3>6, <3>7 DEF SameLists
    <3>9. CASE c = 0
      <4>1. home'.running_bg = home.running_bg
        BY <1>2, <2>3, <3>8, <3>9
      <4>2. home'.running_bg \in Int /\ home'.running_bg <= home.running_bg
        BY <1>2, <4>1
      <4> QED BY <3>8, <4>2, LaterIs
    <3>10. CASE c = 1
      <4>1. First(home, 0) = None
        BY <1>2, <2>2, <3>10, FirstIs
      <4>2. home'.slots >= 2 => home'.running_bg < home'.slots
        BY <1>2, <2>2, <2>3, <3>8, <3>10 DEF BackgroundSlots
      <4> QED BY <3>8, <4>1, <4>2 DEF BackgroundLater
    <3> QED BY <3>9, <3>10
  <2> QED BY <2>5, <2>8, <2>9
<1> QED BY <1>3, <1>4

-----------------------------------------------------------------------------
(* The preempt step.                                                       *)

LEMMA LinesSame ==
  ASSUME NEW h \in Struct, Lines(h), NEW r, r.queue = h.queue, r.ring = h.ring,
         r.ready = h.ready, r.readied = h.readied, r.due = h.due,
         \A i \in Job : /\ r.flags[i] = {} <=> h.flags[i] = {}
                        /\ Has(r, i, "READY") <=> Has(h, i, "READY")
                        /\ Whom(r, i) = Whom(h, i)
  PROVE  Lines(r)
<1>1. h.due \subseteq Job
  BY Fields
<1> QED BY <1>1 DEF Lines

LEMMA PreemptStepKeeps ==
  ASSUME Good(home), PreemptStep
  PROVE  Good(home') /\ BackgroundLater
<1>1. CASE home.preempting = <<>>
  <2>1. home' = Disarmed("preempt") /\ "preempt" \in Step
    BY <1>1 DEF PreemptStep, Step
  <2> QED BY <1>1, <2>1, DisarmedKeeps
<1>2. CASE home.preempting # <<>>
  <2> DEFINE j == Head(home.preempting)
             rest == Tail(home.preempting)
             h == [home EXCEPT !.preempting = rest]
             back == [h EXCEPT !.flags[j] = @ \ {"PREEMPTED"}, !.background = Append(@, j)]
  <2>1. /\ home \in Struct /\ Sound(home) /\ Lines(home) /\ Runs(home) /\ Flagged(home)
        /\ Counted(home) /\ Probed(home) /\ Placed(home) /\ CutsOnce(home)
        /\ Starts(home) /\ Ends(home)
    BY DEF Good, Sound
  <2>2. /\ home.flags \in [Job -> SUBSET Flag] /\ home.preempting \in Lists(Job)
        /\ home.background \in Lists(Job) /\ home.due \subseteq Job
        /\ home.ready \in [{0, 1} -> Lists(Job)] /\ home.place \in [Job -> Int]
        /\ home.cuts \in [Job -> Int] /\ home.readied \in [{0, 1} -> Int]
        /\ home.running \in Int /\ home.running_bg \in Int
        /\ home.transfer \in SUBSET Job /\ home.armed \in SUBSET Step
    BY <2>1, Fields
  <2>3. (home' = Preempt(h, j) /\ Cuttable(h, j)) \/ home' = back
    BY <1>2 DEF PreemptStep
  <2>4. /\ rest \in Lists(Job) /\ ToSet(rest) = ToSet(home.preempting) \ {j}
        /\ j \in ToSet(home.preempting)
    BY <1>2, <2>2, TailList
  <2> HIDE DEF j, rest
  <2>5. /\ j \in Job /\ j \in home.due /\ Class[j] = 1 /\ Has(home, j, "RUNNING")
        /\ ~Has(home, j, "DROPPED") /\ ~Has(home, j, "READY") /\ Has(home, j, "PREEMPTED")
        /\ j \notin ToSet(home.background) /\ home.cuts[j] = 0
    <3>1. /\ j \in home.due /\ Class[j] = 1 /\ Has(home, j, "RUNNING")
          /\ ~Has(home, j, "DROPPED") /\ j \notin ToSet(home.background)
      <4>1. /\ ToSet(home.background) \cup ToSet(home.preempting) =
                 {i \in home.due : /\ Class[i] = 1 /\ Has(home, i, "RUNNING")
                                  /\ ~Has(home, i, "DROPPED")}
            /\ ToSet(home.background) \cap ToSet(home.preempting) = {}
        BY <2>1 DEF Runs
      <4> QED BY <2>4, <4>1
    <3>2. j \in Job
      BY <2>2, <3>1
    <3>3. ~Has(home, j, "READY") /\ Has(home, j, "PREEMPTED")
      BY <2>1, <2>4, <3>1, <3>2 DEF Flagged
    <3>4. home.cuts[j] = 0
      BY <2>1, <2>4, <3>2 DEF CutsOnce
    <3> QED BY <3>1, <3>2, <3>3, <3>4
  <2>6. /\ h \in Struct /\ h.flags = home.flags /\ h.background = home.background
        /\ h.transfer = home.transfer /\ h.running = home.running
        /\ h.running_bg = home.running_bg /\ h.ready = home.ready /\ h.readied = home.readied
        /\ h.place = home.place /\ h.cuts = home.cuts /\ h.armed = home.armed
        /\ h.pending = home.pending
    BY <2>1, <2>4 DEF Struct
  <2>7. CASE home' = back
    <3> DEFINE flags == [home.flags EXCEPT ![j] = @ \ {"PREEMPTED"}]
               background == Append(home.background, j)
               r == [home EXCEPT !.preempting = rest, !.flags = flags, !.background = background]
    <3>1. /\ flags \in [Job -> SUBSET Flag]
          /\ \A i \in Job : flags[i] = IF i = j THEN home.flags[j] \ {"PREEMPTED"} ELSE home.flags[i]
      BY <2>2
    <3>2. background \in Lists(Job) /\ ToSet(background) = ToSet(home.background) \cup {j}
      BY <2>2, <2>5, AppendTo
    <3>3. home' = r
      BY <2>6, <2>7
    <3> HIDE DEF h, flags, background
    <3>4. r \in Struct
      BY <2>1, <2>4, <3>1, <3>2 DEF Struct
    <3>5. /\ r.preempting = rest /\ r.flags = flags /\ r.background = background
          /\ r.queue = home.queue /\ r.ring = home.ring /\ r.ready = home.ready
          /\ r.dropped = home.dropped /\ r.due = home.due /\ r.owed = home.owed
          /\ r.transfer = home.transfer /\ r.pending = home.pending /\ r.place = home.place
          /\ r.cuts = home.cuts /\ r.readied = home.readied /\ r.running = home.running
          /\ r.running_bg = home.running_bg /\ r.slots = home.slots /\ r.fifo = home.fifo
          /\ r.state = home.state /\ r.probing = home.probing
          /\ r.draining = home.draining /\ r.armed = home.armed
      BY <2>1 DEF Struct
    <3> HIDE DEF r
    <3>6. ASSUME NEW i \in Job
          PROVE  /\ r.flags[i] = {} <=> home.flags[i] = {}
                 /\ \A f : f # "PREEMPTED" => (Has(r, i, f) <=> Has(home, i, f))
                 /\ Has(r, i, "PREEMPTED") <=> Has(home, i, "PREEMPTED") /\ i # j
                 /\ Ran(r, i) <=> Ran(home, i)
                 /\ Whom(r, i) = Whom(home, i)
      <4>1. Whom(r, i) = Whom(home, i)
        BY <2>1, <3>4, <3>5, WhomIs
      <4>2. r.flags[i] = IF i = j THEN home.flags[j] \ {"PREEMPTED"} ELSE home.flags[i]
        BY <3>1, <3>5
      <4> QED BY <2>5, <3>5, <4>1, <4>2 DEF Has, Ran
    <3>7. Lines(r)
      BY <2>1, <3>5, <3>6, LinesSame
    <3>8. Runs(r)
      BY <2>1, <2>2, <2>4, <2>5, <3>2, <3>5, <3>6 DEF Runs
    <3>9. Flagged(r)
      BY <2>1, <2>4, <3>5, <3>6 DEF Flagged
    <3>10. Counted(r)
      <4>1. /\ {i \in Job : Ran(r, i)} = {i \in Job : Ran(home, i)}
            /\ {i \in Job : Ran(r, i) /\ Class[i] = 1} = {i \in Job : Ran(home, i) /\ Class[i] = 1}
        BY <3>6
      <4> QED BY <2>1, <3>5, <4>1 DEF Counted
    <3>11. Placed(r)
      BY <2>1, <3>5 DEF Placed
    <3>12. Probed(r)
      BY <2>1, <2>2, <3>5, <3>6 DEF Probed
    <3>13. CutsOnce(r)
      BY <2>1, <2>4, <2>5, <3>5, <3>6 DEF CutsOnce
    <3>14. Starts(r) /\ Ends(r)
      <4>1. Starts(r)
        BY <2>1, <3>5 DEF Starts, MayStart, Waits, BackgroundSlots
      <4>2. Ends(r)
        BY <1>2, <2>1, <3>5 DEF Ends
      <4> QED BY <4>1, <4>2
    <3>15. r.running_bg <= home.running_bg
      BY <2>2, <3>5
    <3>16. Good(r)
      BY <3>4, <3>7, <3>8, <3>9, <3>10, <3>11, <3>12, <3>13, <3>14 DEF Good, Sound
    <3> QED BY <3>3, <3>15, <3>16, KeptGood
  <2>8. CASE home' = Preempt(h, j) /\ Cuttable(h, j)
    <3> DEFINE T == home.transfer \ {j}
               flags == [home.flags EXCEPT ![j] = {"PREEMPTED", "READY"}]
               running == home.running - 1
               running_bg == home.running_bg - 1
               front == <<j>> \o home.ready[1]
               ready == [home.ready EXCEPT ![1] = front]
               readied == [home.readied EXCEPT ![1] = @ + 1]
               place == [home.place EXCEPT ![j] = 1]
               cuts == [home.cuts EXCEPT ![j] = @ + 1]
               armed == home.armed \cup {"start"}
               m == [home EXCEPT !.preempting = rest, !.transfer = T, !.flags = flags,
                                 !.running = running, !.running_bg = running_bg]
               r == [m EXCEPT !.ready = ready, !.readied = readied, !.place = place,
                              !.cuts = cuts, !.armed = armed]
    <3>1. home' = r
      <4> DEFINE a == [h EXCEPT !.transfer = T, !.flags = flags, !.running = running,
                                !.running_bg = running_bg, !.ready = ready, !.readied = readied,
                                !.place = place, !.cuts = cuts, !.armed = armed]
      <4>1. Preempt(h, j) = a
        <5> HIDE DEF h
        <5> QED BY <2>6, ZenonT(60) DEF Preempt, Armed
      <4>2. a = r
        OBVIOUS
      <4> QED BY <2>8, <4>1, <4>2
    <3>2. /\ T \in SUBSET Job /\ flags \in [Job -> SUBSET Flag] /\ running \in Int
          /\ running_bg \in Int /\ armed \in SUBSET Step /\ readied \in [{0, 1} -> Int]
          /\ place \in [Job -> Int] /\ cuts \in [Job -> Int]
      <4>1. T \in SUBSET Job /\ running \in Int /\ running_bg \in Int
        BY <2>2
      <4>2. flags \in [Job -> SUBSET Flag]
        BY <2>2 DEF Flag
      <4>3. armed \in SUBSET Step
        BY <2>2 DEF Step
      <4>4. place \in [Job -> Int]
        BY <2>2, <2>5
      <4>6. readied \in [{0, 1} -> Int]
        BY <2>2
      <4>5. cuts \in [Job -> Int]
        BY <2>2, <2>5
      <4> HIDE DEF T, flags, running, running_bg, armed, readied, place, cuts
      <4> QED BY <4>1, <4>2, <4>3, <4>4, <4>5, <4>6
    <3>3. /\ front \in Lists(Job) /\ ToSet(front) = ToSet(home.ready[1]) \cup {j}
          /\ Len(front) = Len(home.ready[1]) + 1
      <4>1. home.ready[1] \in Lists(Job) /\ j \notin ToSet(home.ready[1])
        BY <2>1, <2>2, <2>5, OnWhich
      <4> QED BY <2>5, <4>1, PutFirst
    <3> HIDE DEF front
    <3>4. /\ ready \in [{0, 1} -> Lists(Job)]
          /\ \A c \in {0, 1} : ready[c] = IF c = 1 THEN front ELSE home.ready[c]
      BY <2>2, <3>3
    <3>5. /\ readied[1] = home.readied[1] + 1 /\ readied[0] = home.readied[0]
          /\ \A i \in Job : flags[i] = IF i = j THEN {"PREEMPTED", "READY"} ELSE home.flags[i]
      BY <2>2
    <3>6. /\ \A i \in Job : i # j => place[i] = home.place[i]
          /\ \A i \in Job : cuts[i] = IF i = j THEN 1 ELSE home.cuts[i]
      BY <2>2, <2>5
    <3>7. /\ T = home.transfer \ {j} /\ running = home.running - 1
          /\ running_bg = home.running_bg - 1 /\ "start" \in armed
          /\ armed = home.armed \cup {"start"}
      OBVIOUS
    <3> HIDE DEF ready, readied, flags, place, cuts, T, running, running_bg, armed
    <3>8. m \in Struct
      BY <2>1, <2>4, <3>2 DEF Struct
    <3>9. r \in Struct
      <4> HIDE DEF m
      <4> QED BY <3>2, <3>4, <3>8 DEF Struct
    <3>10. /\ r.preempting = rest /\ r.flags = flags /\ r.background = home.background
           /\ r.queue = home.queue /\ r.ring = home.ring /\ r.ready = ready
           /\ r.dropped = home.dropped /\ r.due = home.due /\ r.owed = home.owed
           /\ r.transfer = T /\ r.pending = home.pending /\ r.place = place
           /\ r.cuts = cuts /\ r.readied = readied /\ r.running = running
           /\ r.running_bg = running_bg /\ r.slots = home.slots /\ r.fifo = home.fifo
           /\ r.state = home.state /\ r.probing = home.probing
           /\ r.draining = home.draining /\ r.armed = armed
      BY <2>1 DEF Struct
    <3> HIDE DEF r
    <3>11. ~Has(home, j, "PROBE") /\ ~Has(home, j, "DELIVERED") /\ j \notin home.pending
      BY <2>6, <2>8 DEF Cuttable, Has
    <3>12. ASSUME NEW i \in Job
           PROVE  /\ r.flags[i] = {} <=> home.flags[i] = {}
                  /\ r.flags[j] # {}
                  /\ \A f : Has(r, i, f) <=> IF i = j THEN f \in {"PREEMPTED", "READY"}
                                             ELSE Has(home, i, f)
                  /\ Ran(r, i) <=> Ran(home, i) /\ i # j
                  /\ Whom(r, i) = Whom(home, i)
      <4>1. Whom(r, i) = Whom(home, i)
        BY <2>1, <3>9, <3>10, WhomIs
      <4>2. r.flags[i] = IF i = j THEN {"PREEMPTED", "READY"} ELSE home.flags[i]
        BY <3>5, <3>10
      <4>3. r.flags[j] = {"PREEMPTED", "READY"}
        BY <2>5, <3>5, <3>10
      <4>4. \A f : Has(r, i, f) <=> IF i = j THEN f \in {"PREEMPTED", "READY"} ELSE Has(home, i, f)
        BY <4>2 DEF Has
      <4>5. home.flags[j] # {}
        BY <2>5 DEF Has
      <4>6. Ran(r, i) <=> Ran(home, i) /\ i # j
        BY <3>10, <4>4 DEF Ran
      <4> QED BY <4>1, <4>2, <4>3, <4>4, <4>5, <4>6
    <3>13. Lines(r)
      <4> SUFFICES ASSUME NEW c \in {0, 1}
                   PROVE  /\ \A p \in Principal : ToSet(r.queue[c][p]) =
                               {i \in r.due : r.flags[i] = {} /\ Class[i] = c /\ Whom(r, i) = p}
                          /\ ToSet(r.ring[c]) = {p \in Principal : r.queue[c][p] # <<>>}
                          /\ ToSet(r.ready[c]) = {i \in r.due : Class[i] = c /\ Has(r, i, "READY")}
                          /\ r.readied[c] = Len(r.ready[c])
        BY DEF Lines
      <4>1. /\ \A p \in Principal : ToSet(home.queue[c][p]) =
                 {i \in home.due : home.flags[i] = {} /\ Class[i] = c /\ Whom(home, i) = p}
            /\ ToSet(home.ring[c]) = {p \in Principal : home.queue[c][p] # <<>>}
            /\ ToSet(home.ready[c]) = {i \in home.due : Class[i] = c /\ Has(home, i, "READY")}
            /\ home.readied[c] = Len(home.ready[c])
        BY <2>1 DEF Lines
      <4>2. ASSUME NEW p \in Principal
            PROVE  ToSet(r.queue[c][p]) =
                     {i \in r.due : r.flags[i] = {} /\ Class[i] = c /\ Whom(r, i) = p}
        <5>1. r.queue[c][p] = home.queue[c][p] /\ r.due = home.due
          BY <3>10
        <5>2. \A i \in home.due : /\ r.flags[i] = {} <=> home.flags[i] = {}
                                 /\ Whom(r, i) = Whom(home, i)
          BY <2>2, <3>12
        <5>3. {i \in home.due : home.flags[i] = {} /\ Class[i] = c /\ Whom(home, i) = p} =
              {i \in r.due : r.flags[i] = {} /\ Class[i] = c /\ Whom(r, i) = p}
          BY <5>1, <5>2
        <5> QED BY <4>1, <5>1, <5>3
      <4>3. ToSet(r.ring[c]) = {p \in Principal : r.queue[c][p] # <<>>}
        BY <3>10, <4>1
      <4>4. ToSet(r.ready[c]) = {i \in r.due : Class[i] = c /\ Has(r, i, "READY")}
        BY <2>2, <2>5, <3>3, <3>4, <3>10, <3>12, <4>1
      <4>5. r.readied[c] = Len(r.ready[c])
        BY <3>3, <3>4, <3>5, <3>10, <4>1
      <4> QED BY <4>2, <4>3, <4>4, <4>5
    <3>14. Runs(r)
      BY <2>1, <2>2, <2>4, <2>5, <3>7, <3>10, <3>12 DEF Runs
    <3>15. Flagged(r)
      BY <2>1, <2>4, <2>5, <3>10, <3>11, <3>12 DEF Flagged
    <3>16. Counted(r)
      <4> DEFINE S == {i \in Job : Ran(home, i)}
                 Bg == {i \in Job : Ran(home, i) /\ Class[i] = 1}
                 S2 == {i \in Job : Ran(r, i)}
                 Bg2 == {i \in Job : Ran(r, i) /\ Class[i] = 1}
      <4>1. S2 = S \ {j} /\ j \in S /\ Bg2 = Bg \ {j} /\ j \in Bg
        BY <2>5, <3>12 DEF Ran
      <4>2. S \in SUBSET Job /\ Bg \in SUBSET Job
        OBVIOUS
      <4>3. home.running = Cardinality(S) /\ home.running_bg = Cardinality(Bg)
        BY <2>1 DEF Counted
      <4> HIDE DEF S, Bg, S2, Bg2
      <4>4. /\ Cardinality(S) \in Nat /\ Cardinality(S2) = Cardinality(S) - (IF j \in S THEN 1 ELSE 0)
            /\ Cardinality(Bg) \in Nat /\ Cardinality(Bg2) = Cardinality(Bg) - (IF j \in Bg THEN 1 ELSE 0)
        BY <4>1, <4>2, OneLess
      <4>5. r.running = Cardinality(S2) /\ r.running_bg = Cardinality(Bg2)
        BY <3>7, <3>10, <4>1, <4>3, <4>4
      <4>6. r.owed = Cardinality(r.due)
        BY <2>1, <3>10 DEF Counted
      <4> QED BY <4>5, <4>6 DEF Counted, S2, Bg2
    <3>17. Placed(r)
      <4> SUFFICES ASSUME ~home.fifo, NEW d \in {0, 1}, NEW p \in Principal,
                          NEW i \in 1 .. Len(home.queue[d][p])
                   PROVE  place[home.queue[d][p][i]] = i
        BY <3>10 DEF Placed
      <4>1. home.place[home.queue[d][p][i]] = i
        BY <2>1 DEF Placed
      <4>2. home.queue[d][p] \in Lists(Job)
        BY <2>1, Fields
      <4>3. home.queue[d][p][i] \in ToSet(home.queue[d][p]) /\ home.queue[d][p][i] \in Job
        BY <4>2, OnList
      <4>4. j \notin ToSet(home.queue[d][p])
        BY <2>1, <2>5, OnWhich DEF Has
      <4>5. home.queue[d][p][i] # j
        BY <4>3, <4>4
      <4> QED BY <3>6, <4>1, <4>3, <4>5
    <3>18. Probed(r)
      BY <2>1, <2>2, <3>10, <3>11, <3>12 DEF Probed
    <3>19. CutsOnce(r)
      BY <2>1, <2>4, <3>6, <3>10, <3>12 DEF CutsOnce
    <3>20. Starts(r) /\ Ends(r)
      <4>1. Starts(r)
        BY <3>7, <3>10 DEF Starts
      <4>2. Ends(r)
        BY <1>2, <2>1, <3>7, <3>10 DEF Ends
      <4> QED BY <4>1, <4>2
    <3>21. r.running_bg <= home.running_bg
      BY <2>2, <3>7, <3>10
    <3>22. Good(r)
      BY <3>9, <3>13, <3>14, <3>15, <3>16, <3>17, <3>18, <3>19, <3>20 DEF Good, Sound
    <3> QED BY <3>1, <3>21, <3>22, KeptGood
  <2> QED BY <2>3, <2>7, <2>8
<1> QED BY <1>1, <1>2

-----------------------------------------------------------------------------
(* Jobs come.                                                              *)

\* A job that is in nobody's hands is on no list, and nothing is noted of it.
LEMMA Idle ==
  ASSUME NEW h, Sound(h), NEW j \in Job, j \notin h.due
  PROVE  /\ h.flags[j] = {} /\ h.cuts[j] = 0 /\ j \notin h.transfer
         /\ \A c \in {0, 1} : j \notin ToSet(h.ready[c])
         /\ \A c \in {0, 1}, p \in Principal : j \notin ToSet(h.queue[c][p])
         /\ j \notin ToSet(h.background) \cup ToSet(h.preempting) \cup ToSet(h.dropped)
<1>1. h.flags[j] = {} /\ h.cuts[j] = 0
  BY DEF Sound, Flagged, CutsOnce, Has
<1>2. j \notin h.transfer
  BY DEF Sound, Runs, Ran
<1> QED BY <1>1, <1>2, OnWhich

\* What a job that has come leaves as it was.
Came(h, r, j) ==
  /\ r.due = h.due \cup {j} /\ r.owed = h.owed + 1
  /\ r.background = h.background /\ r.preempting = h.preempting /\ r.dropped = h.dropped
  /\ r.transfer = h.transfer /\ r.pending = h.pending /\ r.cuts = h.cuts
  /\ r.running = h.running /\ r.running_bg = h.running_bg /\ r.fifo = h.fifo
  /\ r.state = h.state /\ r.probing = h.probing /\ r.draining = h.draining
  /\ r.armed = h.armed
  /\ \A i \in Job : i # j => r.flags[i] = h.flags[i]
  /\ r.flags[j] \subseteq {"READY"}

LEMMA CameSound ==
  ASSUME NEW h, Sound(h), NEW j \in Job, j \notin h.due, j \notin h.pending,
         NEW r \in Struct, Lines(r), Placed(r), Came(h, r, j)
  PROVE  Sound(r) /\ (~h.draining => (Ends(h) => Ends(r)))
<1>1. /\ h \in Struct /\ Runs(h) /\ Flagged(h) /\ Counted(h) /\ CutsOnce(h) /\ Probed(h)
  BY DEF Sound
<1>2. /\ h.due \subseteq Job /\ r.due = h.due \cup {j} /\ r.pending = h.pending
      /\ r.state = h.state /\ r.probing = h.probing /\ r.cuts = h.cuts
      /\ r.background = h.background /\ r.preempting = h.preempting /\ r.dropped = h.dropped
      /\ r.transfer = h.transfer /\ r.transfer \subseteq Job
  BY <1>1, Fields DEF Came
<1>3. ASSUME NEW i \in Job
      PROVE  /\ \A f : f # "READY" => (Has(r, i, f) <=> Has(h, i, f))
             /\ i # j => r.flags[i] = h.flags[i]
             /\ Has(r, i, "READY") => i = j \/ Has(h, i, "READY")
             /\ Ran(r, i) <=> Ran(h, i)
  <2>1. h.flags[j] = {}
    BY Idle
  <2>2. \A f : f # "READY" => (Has(r, i, f) <=> Has(h, i, f))
    BY <2>1 DEF Came, Has
  <2>3. i # j => r.flags[i] = h.flags[i]
    BY DEF Came
  <2> QED BY <1>2, <2>1, <2>2, <2>3 DEF Has, Ran
<1>4. \A f : ~Has(h, j, f)
  BY Idle DEF Has
<1>5. Runs(r)
  BY <1>1, <1>2, <1>3, <1>4 DEF Runs
<1>6. Flagged(r)
  BY <1>1, <1>2, <1>3, <1>4 DEF Flagged, Has
<1>7. Counted(r)
  <2>1. /\ {i \in Job : Ran(r, i)} = {i \in Job : Ran(h, i)}
        /\ {i \in Job : Ran(r, i) /\ Class[i] = 1} = {i \in Job : Ran(h, i) /\ Class[i] = 1}
    BY <1>3
  <2>2. Cardinality(h.due) = Cardinality(r.due) - 1 /\ Cardinality(r.due) \in Nat
    <3>1. h.due = r.due \ {j} /\ j \in r.due /\ r.due \in SUBSET Job
      BY <1>2
    <3> QED BY <3>1, OneLess
  <2>3. r.owed = h.owed + 1 /\ r.running = h.running /\ r.running_bg = h.running_bg
    BY DEF Came
  <2>4. h.owed = Cardinality(h.due)
    BY <1>1 DEF Counted
  <2>5. r.owed = Cardinality(r.due)
    BY <2>2, <2>3, <2>4
  <2> QED BY <1>1, <2>1, <2>3, <2>5 DEF Counted
<1>8. Probed(r)
  BY <1>1, <1>2, <1>3, <1>4 DEF Probed
<1>9. CutsOnce(r)
  BY <1>1, <1>2, <1>3 DEF CutsOnce
<1>10. ~h.draining => (Ends(h) => Ends(r))
  BY DEF Ends, Came
<1> QED BY <1>5, <1>6, <1>7, <1>8, <1>9, <1>10 DEF Sound

\* A job that may start: it is the last of its class to be ready.
Readied(h, j) ==
  [h EXCEPT !.owed = @ + 1, !.due = @ \cup {j}, !.ready[Class[j]] = Append(@, j),
            !.flags[j] = @ \cup {"READY"}, !.readied[Class[j]] = @ + 1]

LEMMA ReadiedSound ==
  ASSUME NEW h, Sound(h), NEW j \in Job, j \notin h.due, j \notin h.pending, NEW r,
         r = Readied(h, j)
  PROVE  Sound(r) /\ Came(h, r, j)
<1> DEFINE c == Class[j]
           due == h.due \cup {j}
           owed == h.owed + 1
           more == Append(h.ready[c], j)
           ready == [h.ready EXCEPT ![c] = more]
           flags == [h.flags EXCEPT ![j] = @ \cup {"READY"}]
           readied == [h.readied EXCEPT ![c] = @ + 1]
<1>1. h \in Struct /\ Lines(h) /\ Placed(h)
  BY DEF Sound
<1>2. /\ h.ready \in [{0, 1} -> Lists(Job)] /\ h.flags \in [Job -> SUBSET Flag]
      /\ h.readied \in [{0, 1} -> Int] /\ h.due \subseteq Job /\ h.owed \in Int
  BY <1>1, Fields
<1>3. c \in {0, 1}
  BY Given
<1>4. h.flags[j] = {} /\ j \notin ToSet(h.ready[c])
  BY <1>3, Idle
<1>5. more \in Lists(Job) /\ ToSet(more) = ToSet(h.ready[c]) \cup {j} /\ Len(more) = Len(h.ready[c]) + 1
  BY <1>2, <1>3, <1>4, AppendTo
<1> HIDE DEF more, c
<1>6. /\ ready \in [{0, 1} -> Lists(Job)]
      /\ \A d \in {0, 1} : ready[d] = IF d = c THEN more ELSE h.ready[d]
  BY <1>2, <1>3, <1>5
<1>7. /\ flags \in [Job -> SUBSET Flag]
      /\ \A i \in Job : flags[i] = IF i = j THEN {"READY"} ELSE h.flags[i]
  BY <1>2, <1>4 DEF Flag
<1>8. /\ readied \in [{0, 1} -> Int]
      /\ \A d \in {0, 1} : readied[d] = IF d = c THEN h.readied[d] + 1 ELSE h.readied[d]
  BY <1>2, <1>3
<1>9. r = [h EXCEPT !.owed = owed, !.due = due, !.ready = ready, !.flags = flags,
                    !.readied = readied]
  BY <1>1 DEF Readied, more, c, Struct
<1>10. due \in SUBSET Job /\ owed \in Int
  BY <1>2
<1> HIDE DEF due, owed, ready, flags, readied
<1>11. r \in Struct
  <2> DEFINE m == [h EXCEPT !.owed = owed, !.due = due, !.ready = ready]
  <2>1. m \in Struct
    BY <1>1, <1>6, <1>10 DEF Struct
  <2>2. r = [m EXCEPT !.flags = flags, !.readied = readied]
    BY <1>1, <1>9 DEF Struct
  <2> HIDE DEF m
  <2>3. flags \in [Job -> SUBSET Flag] /\ readied \in [{0, 1} -> Int]
    BY <1>7, <1>8
  <2> QED BY <2>1, <2>2, <2>3, ZenonT(60) DEF Struct
<1>12. /\ r.due = due /\ r.owed = owed /\ r.ready = ready /\ r.flags = flags
       /\ r.readied = readied /\ r.queue = h.queue /\ r.ring = h.ring
       /\ r.background = h.background /\ r.preempting = h.preempting
       /\ r.dropped = h.dropped /\ r.transfer = h.transfer /\ r.pending = h.pending
       /\ r.cuts = h.cuts /\ r.place = h.place
       /\ r.running = h.running /\ r.running_bg = h.running_bg /\ r.fifo = h.fifo
       /\ r.state = h.state /\ r.probing = h.probing /\ r.draining = h.draining
       /\ r.armed = h.armed
  BY <1>1, <1>9 DEF Struct
<1>13. Came(h, r, j)
  BY <1>7, <1>12 DEF Came, due, owed
<1>14. ASSUME NEW i \in Job PROVE Whom(r, i) = Whom(h, i)
  BY <1>1, <1>11, <1>12, WhomIs
<1>15. Placed(r)
  BY <1>1, <1>12 DEF Placed
<1>16. Lines(r)
  <2> SUFFICES ASSUME NEW d \in {0, 1}
               PROVE  /\ \A p \in Principal : ToSet(r.queue[d][p]) =
                           {i \in r.due : r.flags[i] = {} /\ Class[i] = d /\ Whom(r, i) = p}
                      /\ ToSet(r.ring[d]) = {p \in Principal : r.queue[d][p] # <<>>}
                      /\ ToSet(r.ready[d]) = {i \in r.due : Class[i] = d /\ Has(r, i, "READY")}
                      /\ r.readied[d] = Len(r.ready[d])
    BY DEF Lines
  <2>1. /\ \A p \in Principal : ToSet(h.queue[d][p]) =
             {i \in h.due : h.flags[i] = {} /\ Class[i] = d /\ Whom(h, i) = p}
        /\ ToSet(h.ring[d]) = {p \in Principal : h.queue[d][p] # <<>>}
        /\ ToSet(h.ready[d]) = {i \in h.due : Class[i] = d /\ Has(h, i, "READY")}
        /\ h.readied[d] = Len(h.ready[d])
    BY <1>1 DEF Lines
  <2>2. /\ r.due = h.due \cup {j} /\ h.due \subseteq Job /\ r.flags[j] = {"READY"}
        /\ \A i \in h.due : r.flags[i] = h.flags[i]
    BY <1>2, <1>7, <1>12 DEF due
  <2>3. ASSUME NEW p \in Principal
        PROVE  ToSet(r.queue[d][p]) =
                 {i \in r.due : r.flags[i] = {} /\ Class[i] = d /\ Whom(r, i) = p}
    <3>1. r.queue[d][p] = h.queue[d][p]
      BY <1>12
    <3>2. {i \in h.due : h.flags[i] = {} /\ Class[i] = d /\ Whom(h, i) = p} =
          {i \in r.due : r.flags[i] = {} /\ Class[i] = d /\ Whom(r, i) = p}
      BY <1>14, <2>2
    <3> QED BY <2>1, <3>1, <3>2
  <2>4. ToSet(r.ring[d]) = {p \in Principal : r.queue[d][p] # <<>>}
    BY <1>12, <2>1
  <2>5. ToSet(r.ready[d]) = {i \in r.due : Class[i] = d /\ Has(r, i, "READY")}
    <3>1. \A i \in h.due : Has(r, i, "READY") <=> Has(h, i, "READY")
      BY <2>2 DEF Has
    <3>2. Has(r, j, "READY")
      BY <2>2 DEF Has
    <3>3. CASE d = c
      <4>1. ToSet(r.ready[d]) = ToSet(h.ready[d]) \cup {j}
        BY <1>5, <1>6, <1>12, <3>3
      <4> QED BY <2>1, <2>2, <3>1, <3>2, <3>3, <4>1 DEF c
    <3>4. CASE d # c
      <4>1. ToSet(r.ready[d]) = ToSet(h.ready[d])
        BY <1>6, <1>12, <3>4
      <4> QED BY <2>1, <2>2, <3>1, <3>4, <4>1 DEF c
    <3> QED BY <3>3, <3>4
  <2>6. r.readied[d] = Len(r.ready[d])
    BY <1>5, <1>6, <1>8, <1>12, <2>1
  <2> QED BY <2>3, <2>4, <2>5, <2>6
<1> QED BY <1>11, <1>13, <1>15, <1>16, CameSound

\* A job that must wait: it is the last in its principal's queue, and its
\* principal is in the ring.
Waiting(h, j, p) ==
  [h EXCEPT !.owed = @ + 1, !.due = @ \cup {j},
            !.ring[Class[j]] = IF h.queue[Class[j]][p] = <<>> THEN Append(@, p) ELSE @,
            !.queue[Class[j]][p] = Append(@, j),
            !.place[j] = Len(h.queue[Class[j]][p]) + 1]

LEMMA WaitingSound ==
  ASSUME NEW h, Sound(h), NEW j \in Job, j \notin h.due, j \notin h.pending,
         NEW p, p = Whom(h, j), NEW r, r = Waiting(h, j, p)
  PROVE  Sound(r) /\ Came(h, r, j)
<1> DEFINE c == Class[j]
           due == h.due \cup {j}
           owed == h.owed + 1
           old == h.queue[c][p]
           more == Append(old, j)
           line == [h.queue[c] EXCEPT ![p] = more]
           queue == [h.queue EXCEPT ![c] = line]
           round == IF old = <<>> THEN Append(h.ring[c], p) ELSE h.ring[c]
           ring == [h.ring EXCEPT ![c] = round]
           place == [h.place EXCEPT ![j] = Len(old) + 1]
<1>1. h \in Struct /\ Lines(h) /\ Placed(h)
  BY DEF Sound
<1>2. /\ h.queue \in [{0, 1} -> [Principal -> Lists(Job)]]
      /\ h.ring \in [{0, 1} -> Lists(Principal)] /\ h.flags \in [Job -> SUBSET Flag]
      /\ h.place \in [Job -> Int] /\ h.due \subseteq Job /\ h.owed \in Int
  BY <1>1, Fields
<1>3. c \in {0, 1} /\ p \in Principal
  BY <1>1, Given, WhomIs
<1>4. h.flags[j] = {} /\ j \notin ToSet(old) /\ old \in Lists(Job) /\ Len(old) \in Nat
  <2>1. old \in Lists(Job)
    BY <1>2, <1>3
  <2> HIDE DEF old
  <2>2. Len(old) \in Nat
    BY <2>1, OnList
  <2>3. h.flags[j] = {} /\ j \notin ToSet(old)
    BY <1>3, Idle DEF old
  <2> QED BY <2>1, <2>2, <2>3
<1>5. /\ more \in Lists(Job) /\ ToSet(more) = ToSet(old) \cup {j} /\ Len(more) = Len(old) + 1
      /\ \A i \in 1 .. Len(old) : more[i] = old[i]
      /\ more[Len(old) + 1] = j
  <2> HIDE DEF old
  <2>1. old \in Seq(Job)
    BY <1>4, OnList
  <2> QED BY <1>4, <2>1, AppendTo
<1>6. ToSet(h.ring[c]) = {q \in Principal : h.queue[c][q] # <<>>} /\ h.ring[c] \in Lists(Principal)
  BY <1>1, <1>2, <1>3 DEF Lines
<1>7. round \in Lists(Principal) /\ ToSet(round) = ToSet(h.ring[c]) \cup {p}
  <2>1. CASE old = <<>>
    <3>1. p \notin ToSet(h.ring[c])
      BY <1>6, <2>1
    <3> HIDE DEF old
    <3> QED BY <1>3, <1>6, <2>1, <3>1, AppendTo
  <2>2. CASE old # <<>>
    BY <1>3, <1>6, <2>2
  <2> QED BY <2>1, <2>2
<1>8. more # <<>>
  <2> HIDE DEF more
  <2> QED BY <1>5, OnList
<1> HIDE DEF more, round, old
<1>9. \A q \in Principal : line[q] = IF q = p THEN more ELSE h.queue[c][q]
  BY <1>2, <1>3
<1>10. line \in [Principal -> Lists(Job)]
  BY <1>2, <1>3, <1>5
<1> HIDE DEF line, c
<1>11. /\ queue \in [{0, 1} -> [Principal -> Lists(Job)]]
       /\ \A d \in {0, 1} : queue[d] = IF d = c THEN line ELSE h.queue[d]
  BY <1>2, <1>3, <1>10
<1>12. /\ ring \in [{0, 1} -> Lists(Principal)]
       /\ \A d \in {0, 1} : ring[d] = IF d = c THEN round ELSE h.ring[d]
  BY <1>2, <1>3, <1>7
<1>13. /\ place \in [Job -> Int]
       /\ \A i \in Job : place[i] = IF i = j THEN Len(old) + 1 ELSE h.place[i]
  BY <1>2, <1>4
<1>14. due \in SUBSET Job /\ owed \in Int
  BY <1>2
<1>15. r = [h EXCEPT !.owed = owed, !.due = due, !.ring = ring, !.queue = queue,
                     !.place = place]
  BY <1>1 DEF Waiting, more, round, old, line, c, Struct
<1> HIDE DEF due, owed, queue, ring, place
<1>16. r \in Struct
  <2> DEFINE m == [h EXCEPT !.owed = owed, !.due = due, !.ring = ring]
  <2>1. m \in Struct
    BY <1>1, <1>12, <1>14 DEF Struct
  <2>2. r = [m EXCEPT !.queue = queue, !.place = place]
    BY <1>1, <1>15 DEF Struct
  <2> HIDE DEF m
  <2>3. queue \in [{0, 1} -> [Principal -> Lists(Job)]] /\ place \in [Job -> Int]
    BY <1>11, <1>13
  <2> QED BY <2>1, <2>2, <2>3, ZenonT(60) DEF Struct
<1>17. /\ r.due = due /\ r.owed = owed /\ r.queue = queue /\ r.ring = ring
       /\ r.place = place /\ r.flags = h.flags /\ r.ready = h.ready
       /\ r.readied = h.readied
       /\ r.background = h.background /\ r.preempting = h.preempting
       /\ r.dropped = h.dropped /\ r.transfer = h.transfer /\ r.pending = h.pending
       /\ r.cuts = h.cuts
       /\ r.running = h.running /\ r.running_bg = h.running_bg /\ r.fifo = h.fifo
       /\ r.state = h.state /\ r.probing = h.probing /\ r.draining = h.draining
       /\ r.armed = h.armed
  BY <1>1, <1>15 DEF Struct
<1>18. Came(h, r, j)
  BY <1>4, <1>17 DEF Came, due, owed
<1>19. ASSUME NEW i \in Job PROVE Whom(r, i) = Whom(h, i)
  BY <1>1, <1>16, <1>17, WhomIs
<1>20. ASSUME NEW d \in {0, 1}, NEW q \in Principal
       PROVE  r.queue[d][q] = IF d = c /\ q = p THEN more ELSE h.queue[d][q]
  <2>1. r.queue[d] = IF d = c THEN line ELSE h.queue[d]
    BY <1>11, <1>17
  <2> QED BY <1>9, <2>1
<1>21. Placed(r)
  <2> SUFFICES ASSUME ~r.fifo, NEW d \in {0, 1}, NEW q \in Principal,
                      NEW i \in 1 .. Len(r.queue[d][q])
               PROVE  r.place[r.queue[d][q][i]] = i
    BY DEF Placed
  <2>1. ~h.fifo
    BY <1>17
  <2>2. ASSUME NEW e \in {0, 1}, NEW s \in Principal, NEW k \in 1 .. Len(h.queue[e][s])
        PROVE  /\ h.queue[e][s][k] \in Job /\ h.queue[e][s][k] # j
               /\ h.place[h.queue[e][s][k]] = k
    <3>1. h.queue[e][s] \in Lists(Job)
      BY <1>2
    <3>2. h.queue[e][s][k] \in ToSet(h.queue[e][s]) /\ ToSet(h.queue[e][s]) \subseteq Job
      BY <3>1, OnList
    <3>3. j \notin ToSet(h.queue[e][s])
      BY Idle
    <3>4. h.place[h.queue[e][s][k]] = k
      BY <1>1, <2>1 DEF Placed
    <3> QED BY <3>2, <3>3, <3>4
  <2>3. CASE d = c /\ q = p
    <3>1. r.queue[d][q] = more
      BY <1>20, <2>3
    <3>2. i \in 1 .. Len(old) + 1
      BY <1>5, <3>1
    <3>3. CASE i = Len(old) + 1
      BY <1>5, <1>13, <1>17, <3>1, <3>3
    <3>4. CASE i \in 1 .. Len(old)
      <4>1. more[i] = h.queue[d][q][i] /\ i \in 1 .. Len(h.queue[d][q])
        BY <1>5, <2>3, <3>4 DEF old, c
      <4> QED BY <1>13, <1>17, <2>2, <3>1, <4>1, SMTT(20)
    <3> QED BY <1>4, <3>2, <3>3, <3>4
  <2>4. CASE ~(d = c /\ q = p)
    <3>1. r.queue[d][q] = h.queue[d][q]
      BY <1>20, <2>4
    <3>2. i \in 1 .. Len(h.queue[d][q])
      BY <3>1
    <3> QED BY <1>13, <1>17, <2>2, <3>1, <3>2, SMTT(20)
  <2> QED BY <2>3, <2>4
<1>22. Lines(r)
  <2> SUFFICES ASSUME NEW d \in {0, 1}
               PROVE  /\ \A q \in Principal : ToSet(r.queue[d][q]) =
                           {i \in r.due : r.flags[i] = {} /\ Class[i] = d /\ Whom(r, i) = q}
                      /\ ToSet(r.ring[d]) = {q \in Principal : r.queue[d][q] # <<>>}
                      /\ ToSet(r.ready[d]) = {i \in r.due : Class[i] = d /\ Has(r, i, "READY")}
                      /\ r.readied[d] = Len(r.ready[d])
    BY DEF Lines
  <2>1. /\ \A q \in Principal : ToSet(h.queue[d][q]) =
             {i \in h.due : h.flags[i] = {} /\ Class[i] = d /\ Whom(h, i) = q}
        /\ ToSet(h.ring[d]) = {q \in Principal : h.queue[d][q] # <<>>}
        /\ ToSet(h.ready[d]) = {i \in h.due : Class[i] = d /\ Has(h, i, "READY")}
        /\ h.readied[d] = Len(h.ready[d])
    BY <1>1 DEF Lines
  <2>2. /\ r.due = h.due \cup {j} /\ h.due \subseteq Job /\ r.flags = h.flags
        /\ \A i : Has(r, i, "READY") <=> Has(h, i, "READY")
    BY <1>2, <1>17 DEF due, Has
  <2>3. ASSUME NEW q \in Principal
        PROVE  ToSet(r.queue[d][q]) =
                 {i \in r.due : r.flags[i] = {} /\ Class[i] = d /\ Whom(r, i) = q}
    <3> DEFINE Was == {i \in h.due : h.flags[i] = {} /\ Class[i] = d /\ Whom(h, i) = q}
               Bg == {i \in r.due : r.flags[i] = {} /\ Class[i] = d /\ Whom(r, i) = q}
    <3>1. ToSet(h.queue[d][q]) = Was
      BY <2>1
    <3>2. j \in Bg <=> d = c /\ q = p
      BY <1>4, <1>19, <2>2 DEF c
    <3>3. Bg \ {j} = Was
      BY <1>19, <2>2
    <3>4. ToSet(r.queue[d][q]) = IF d = c /\ q = p THEN Was \cup {j} ELSE Was
      <4>1. CASE d = c /\ q = p
        <5>1. r.queue[d][q] = more /\ old = h.queue[d][q]
          BY <1>20, <4>1 DEF old, c
        <5> QED BY <1>5, <3>1, <4>1, <5>1
      <4>2. CASE ~(d = c /\ q = p)
        <5>1. r.queue[d][q] = h.queue[d][q]
          BY <1>20, <4>2
        <5> QED BY <3>1, <4>2, <5>1
      <4> QED BY <4>1, <4>2
    <3> HIDE DEF Was, Bg
    <3>5. ToSet(r.queue[d][q]) = Bg
      BY <3>2, <3>3, <3>4
    <3> QED BY <3>5 DEF Bg
  <2>4. ToSet(r.ring[d]) = {q \in Principal : r.queue[d][q] # <<>>}
    <3>1. CASE d = c
      <4>1. r.ring[d] = round
        BY <1>12, <1>17, <3>1
      <4>2. ToSet(r.ring[d]) = {q \in Principal : h.queue[d][q] # <<>>} \cup {p}
        BY <1>6, <1>7, <3>1, <4>1
      <4>3. \A q \in Principal : r.queue[d][q] # <<>> <=> h.queue[d][q] # <<>> \/ q = p
        BY <1>8, <1>20, <3>1
      <4> QED BY <1>3, <4>2, <4>3
    <3>2. CASE d # c
      <4>1. r.ring[d] = h.ring[d] /\ \A q \in Principal : r.queue[d][q] = h.queue[d][q]
        BY <1>12, <1>17, <1>20, <3>2
      <4> QED BY <2>1, <4>1
    <3> QED BY <3>1, <3>2
  <2>5. ToSet(r.ready[d]) = {i \in r.due : Class[i] = d /\ Has(r, i, "READY")}
    <3>1. ~Has(h, j, "READY")
      BY <1>4 DEF Has
    <3> QED BY <1>17, <2>1, <2>2, <3>1
  <2>6. r.readied[d] = Len(r.ready[d])
    BY <1>17, <2>1
  <2> QED BY <2>3, <2>4, <2>5, <2>6
<1> QED BY <1>16, <1>18, <1>21, <1>22, CameSound

LEMMA SubmitKeeps ==
  ASSUME Good(home), NEW j \in Job, Submit(j)
  PROVE  Good(home') /\ BackgroundLater
<1> DEFINE q == [home EXCEPT !.owed = @ + 1]
           p == Whom(q, j)
<1>1. /\ j \notin home.due /\ j \notin home.pending /\ home' = Admit(q, j)
  BY DEF Submit
<1>2. Sound(home) /\ Starts(home) /\ Ends(home) /\ home \in Struct /\ home.running_bg \in Int
  BY Fields DEF Good, Sound
<1>3. p = Whom(home, j) /\ q.fifo = home.fifo /\ q.draining = home.draining
  BY <1>2 DEF Whom, Struct
<1>4. \/ home' = End(q, j)
      \/ ~home.draining /\ home' = Armed(Readied(home, j), "start")
      \/ ~home.draining /\ home' = Armed(HomeWait(q, j), "start")
  <2> DEFINE no == \/ q.draining \/ q.state = "OPEN" \/ Cardinality(q.due) >= MaxCalls
                   \/ ~q.fifo /\ Len(q.queue[Class[j]][Whom(q, j)]) >= JOB_QUEUED
             a == [q EXCEPT !.due = @ \cup {j}, !.ready[Class[j]] = Append(@, j),
                            !.flags[j] = @ \cup {"READY"}, !.readied[Class[j]] = @ + 1]
  <2>1. a = Readied(home, j)
    BY <1>2 DEF Readied, Struct
  <2>2. home' = IF no THEN End(q, j) ELSE IF Vacant(q, Class[j]) THEN Armed(a, "start")
                ELSE Armed(HomeWait(q, j), "start")
    BY <1>1 DEF Admit
  <2>3. ~no => ~home.draining
    BY <1>3
  <2> HIDE DEF no, a, q
  <2> QED BY <2>1, <2>2, <2>3
<1>5. CASE home' = End(q, j)
  <2> DEFINE T == home.thought \ {j}
             place == [home.place EXCEPT ![j] = 0]
             r == [home EXCEPT !.thought = T, !.place = place]
  <2>1. home.flags[j] = {} /\ home.cuts[j] = 0 /\ home.owed \in Int
    BY <1>1, <1>2, Fields, Idle
  <2>2. /\ home.flags \in [Job -> SUBSET Flag] /\ home.cuts \in [Job -> Int]
        /\ home.place \in [Job -> Int] /\ home.thought \subseteq Job
    BY <1>2, Fields
  <2>3. home' = r
    <3> DEFINE flags == [home.flags EXCEPT ![j] = {}]
               cuts == [home.cuts EXCEPT ![j] = 0]
               owed == (home.owed + 1) - 1
    <3>1. flags = home.flags /\ cuts = home.cuts
      BY <2>1, <2>2
    <3>3. owed = home.owed
      BY <2>1
    <3>2. home' = [home EXCEPT !.owed = owed, !.flags = flags, !.thought = T,
                               !.place = place, !.cuts = cuts]
      BY <1>1, <1>2, <1>5 DEF End, Reset, Struct
    <3> HIDE DEF flags, cuts, owed, T, place
    <3> QED BY <1>2, <3>1, <3>2, <3>3 DEF Struct
  <2>4. /\ place \in [Job -> Int] /\ T \in SUBSET Job
        /\ \A i \in Job : i # j => place[i] = home.place[i]
    BY <2>2
  <2> HIDE DEF place, T
  <2>5. r \in Struct
    BY <1>2, <2>4 DEF Struct
  <2>6. /\ r.place = place /\ r.queue = home.queue /\ r.ring = home.ring /\ r.ready = home.ready
        /\ r.background = home.background /\ r.preempting = home.preempting
        /\ r.dropped = home.dropped /\ r.due = home.due /\ r.owed = home.owed
        /\ r.flags = home.flags /\ r.transfer = home.transfer /\ r.pending = home.pending
        /\ r.cuts = home.cuts /\ r.readied = home.readied /\ r.running = home.running
        /\ r.running_bg = home.running_bg /\ r.slots = home.slots /\ r.fifo = home.fifo
        /\ r.state = home.state /\ r.probing = home.probing
        /\ r.draining = home.draining /\ r.armed = home.armed
    BY <1>2 DEF Struct
  <2> HIDE DEF r
  <2>7. ASSUME NEW i PROVE Ran(r, i) <=> Ran(home, i)
    BY <2>6 DEF Ran, Has
  <2>8. \A i, f : Has(r, i, f) <=> Has(home, i, f)
    BY <2>6 DEF Has
  <2>9. \A i \in Job : Whom(r, i) = Whom(home, i)
    BY <1>2, <2>5, <2>6, WhomIs
  <2>10. Lines(r)
    BY <1>2, <2>6, <2>8, <2>9, LinesSame DEF Sound
  <2>11. Runs(r) /\ Flagged(r) /\ CutsOnce(r)
    BY <1>2, <2>6, <2>7, <2>8 DEF Sound, Runs, Flagged, CutsOnce
  <2>12. Counted(r) /\ Probed(r)
    BY <1>2, <2>6, <2>7, <2>8 DEF Sound, Counted, Probed
  <2>13. Placed(r)
    <3> SUFFICES ASSUME ~home.fifo, NEW d \in {0, 1}, NEW w \in Principal,
                        NEW i \in 1 .. Len(home.queue[d][w])
                 PROVE  place[home.queue[d][w][i]] = i
      BY <2>6 DEF Placed
    <3>1. home.place[home.queue[d][w][i]] = i
      BY <1>2 DEF Sound, Placed
    <3>2. home.queue[d][w] \in Lists(Job)
      BY <1>2, Fields
    <3>3. home.queue[d][w][i] \in ToSet(home.queue[d][w]) /\ home.queue[d][w][i] \in Job
      BY <3>2, OnList
    <3>4. j \notin ToSet(home.queue[d][w])
      BY <1>1, <1>2, Idle
    <3> QED BY <2>4, <3>1, <3>3, <3>4
  <2>14. Starts(r)
    BY <1>2, <2>6 DEF Starts, MayStart, Waits, BackgroundSlots
  <2>15. Ends(r)
    BY <1>2, <2>6 DEF Ends
  <2>16. Good(r) /\ r.running_bg <= home.running_bg
    BY <1>2, <2>5, <2>6, <2>10, <2>11, <2>12, <2>13, <2>14, <2>15 DEF Good, Sound
  <2> QED BY <2>3, <2>16, KeptGood
<1> HIDE DEF q
<1>6. CASE ~home.draining /\ home' = Armed(Readied(home, j), "start")
  <2> DEFINE m == Readied(home, j)
             r == Armed(m, "start")
  <2>1. m = Readied(home, j) /\ r = Armed(m, "start") /\ "start" \in Step
    BY DEF Step
  <2> HIDE DEF m, r
  <2>2. Sound(m) /\ Came(home, m, j)
    BY <1>1, <1>2, <2>1, ReadiedSound
  <2>3. Ends(m)
    BY <1>1, <1>2, <1>6, <2>2, CameSound DEF Sound
  <2>4. Sound(r) /\ Ends(r)
    BY <2>1, <2>2, <2>3, ArmedGood
  <2>5. r.running_bg = home.running_bg /\ "start" \in r.armed
    BY <2>1, <2>2, ArmedIs DEF Sound, SameLists, Came
  <2>6. Good(r)
    BY <2>4, <2>5 DEF Good, Starts
  <2> QED BY <1>2, <1>6, <2>1, <2>5, <2>6, KeptGood
<1>7. CASE ~home.draining /\ home' = Armed(HomeWait(q, j), "start")
  <2> DEFINE m == Waiting(home, j, p)
             x == IF Class[j] = 0 THEN PreemptExcess(m) ELSE m
             y == PreemptExcess(m)
             r == Armed(x, "start")
  <2>1. HomeWait(q, j) = x
    <3> DEFINE w == [q EXCEPT !.due = @ \cup {j},
                     !.ring[Class[j]] = IF q.queue[Class[j]][p] = <<>> THEN Append(@, p) ELSE @,
                     !.queue[Class[j]][p] = Append(@, j),
                     !.place[j] = Len(q.queue[Class[j]][p]) + 1]
    <3>1. w = m
      <4> HIDE DEF p
      <4> QED BY <1>2 DEF q, Waiting, Struct
    <3>2. HomeWait(q, j) = IF Class[j] = 0 THEN PreemptExcess(w) ELSE w
      BY DEF HomeWait
    <3> HIDE DEF w, m
    <3> QED BY <3>1, <3>2
  <2>2. m = Waiting(home, j, p) /\ r = Armed(x, "start") /\ "start" \in Step /\ y = PreemptExcess(m)
    BY DEF Step
  <2> HIDE DEF p, m, r, y
  <2>3. Sound(m) /\ Came(home, m, j)
    BY <1>1, <1>2, <1>3, <2>2, WaitingSound
  <2>4. Ends(m)
    BY <1>1, <1>2, <1>7, <2>3, CameSound DEF Sound
  <2>5. Sound(y) /\ Ends(y) /\ y.running_bg = m.running_bg
    BY <2>2, <2>3, <2>4, PreemptExcessGood
  <2>6. Sound(x) /\ Ends(x) /\ x.running_bg = home.running_bg
    BY <2>2, <2>3, <2>4, <2>5 DEF Came
  <2> HIDE DEF x
  <2>7. Sound(r) /\ Ends(r)
    BY <2>2, <2>6, ArmedGood
  <2>8. r.running_bg = home.running_bg /\ "start" \in r.armed
    BY <2>2, <2>6, ArmedIs DEF Sound, SameLists
  <2>9. Good(r)
    BY <2>7, <2>8 DEF Good, Starts
  <2> QED BY <1>2, <1>7, <2>1, <2>2, <2>8, <2>9, KeptGood
<1> QED BY <1>4, <1>5, <1>6, <1>7

-----------------------------------------------------------------------------
(* The scheduler keeps the invariant, and what it promises follows.        *)

LEMMA InitGood == Init => Good(home)
<1> SUFFICES ASSUME Init PROVE Good(home)
  OBVIOUS
<1> DEFINE lines == [c \in {0, 1} |-> [p \in Principal |-> <<>>]]
           lists == [c \in {0, 1} |-> <<>>]
           flags == [j \in Job |-> {}]
           zeros == [j \in Job |-> 0]
           counts == [c \in {0, 1} |-> 0]
<1>1. PICK fifo \in BOOLEAN, setup \in Setup :
        home = [queue |-> lines, ring |-> lists, ready |-> lists,
                background |-> <<>>, preempting |-> <<>>, dropped |-> <<>>,
                due |-> {}, owed |-> 0, flags |-> flags, transfer |-> {}, pending |-> {},
                thought |-> {}, place |-> zeros, cuts |-> zeros, readied |-> counts,
                running |-> 0, running_bg |-> 0, slots |-> setup.slots,
                asking |-> setup.asking, journal |-> setup.journal, fifo |-> fifo,
                state |-> "CLOSED", failures |-> 0, probing |-> FALSE, draining |-> FALSE,
                armed |-> {"start"}]
  BY DEF Init
<1>2. /\ setup.slots \in Int /\ setup.asking \in BOOLEAN /\ setup.journal \in BOOLEAN
  <2>1. setup \in [journal : BOOLEAN, asking : BOOLEAN, slots : Slots \cup {SLOTS}]
    BY Given
  <2>2. Slots \cup {SLOTS} \subseteq Int
    BY Given
  <2> QED BY <2>1, <2>2
<1>3. /\ lines \in [{0, 1} -> [Principal -> Lists(Job)]]
      /\ lists \in [{0, 1} -> Lists(Job)] /\ lists \in [{0, 1} -> Lists(Principal)]
      /\ <<>> \in Lists(Job)
  BY EmptyList
<1>4. /\ flags \in [Job -> SUBSET Flag] /\ zeros \in [Job -> Int] /\ counts \in [{0, 1} -> Int]
      /\ {"start"} \in SUBSET Step /\ "CLOSED" \in Breaker
  BY DEF Step, Breaker
<1>5. /\ \A c \in {0, 1}, p \in Principal : lines[c][p] = <<>>
      /\ \A c \in {0, 1} : lists[c] = <<>> /\ counts[c] = 0
      /\ \A j \in Job : flags[j] = {} /\ zeros[j] = 0
  OBVIOUS
<1> HIDE DEF lines, lists, flags, zeros, counts
<1>6. home \in Struct
  BY <1>1, <1>2, <1>3, <1>4 DEF Struct
<1>7. /\ home.queue = lines /\ home.ring = lists /\ home.ready = lists
      /\ home.background = <<>> /\ home.preempting = <<>> /\ home.dropped = <<>>
      /\ home.due = {} /\ home.owed = 0 /\ home.flags = flags /\ home.transfer = {}
      /\ home.pending = {} /\ home.place = zeros /\ home.cuts = zeros
      /\ home.readied = counts /\ home.running = 0 /\ home.running_bg = 0
      /\ home.probing = FALSE /\ home.draining = FALSE /\ home.armed = {"start"}
  BY <1>1
<1>8. ToSet(<<>>) = {} /\ Len(<<>>) = 0
  BY EmptyList
<1>9. Lines(home) /\ Runs(home)
  BY <1>5, <1>7, <1>8 DEF Lines, Runs
<1>10. Flagged(home) /\ CutsOnce(home)
  BY <1>5, <1>7, <1>8 DEF Flagged, CutsOnce, Has
<1>11. Counted(home)
  <2>1. Cardinality({}) = 0
    BY FS_EmptySet
  <2>2. {j \in Job : Ran(home, j)} = {} /\ {j \in Job : Ran(home, j) /\ Class[j] = 1} = {}
    BY <1>7 DEF Ran
  <2> QED BY <1>7, <2>1, <2>2 DEF Counted
<1>12. Probed(home)
  BY <1>7 DEF Probed
<1>13. Placed(home)
  BY <1>5, <1>7, <1>8 DEF Placed
<1>14. Starts(home) /\ Ends(home)
  BY <1>7 DEF Starts, Ends
<1> QED BY <1>6, <1>9, <1>10, <1>11, <1>12, <1>13, <1>14 DEF Good, Sound

\* Every step of home keeps the invariant, and starts no background job that
\* must wait.
LEMMA NextKeeps ==
  ASSUME Good(home), Next
  PROVE  Good(home') /\ BackgroundLater
<1>1. ASSUME NEW j \in Job, Submit(j) PROVE Good(home') /\ BackgroundLater
  BY <1>1, SubmitKeeps
<1>2. ASSUME NEW j \in Job, Release(j) PROVE Good(home') /\ BackgroundLater
  BY <1>2, ReleaseKeeps
<1>3. ASSUME NEW j \in Job, ProbeAnswers(j) PROVE Good(home') /\ BackgroundLater
  BY <1>3, ProbeAnswersKeeps
<1>4. ASSUME NEW j \in Job, Delivered(j) PROVE Good(home') /\ BackgroundLater
  BY <1>4, DeliveredKeeps
<1>5. ASSUME NEW j \in Job, Thinks(j) PROVE Good(home') /\ BackgroundLater
  BY <1>5, ThinksKeeps
<1>6. ASSUME NEW j \in Job, ReadWhole(j) PROVE Good(home') /\ BackgroundLater
  BY <1>6, ReadWholeKeeps
<1>7. ASSUME NEW j \in Job, JournalDone(j) PROVE Good(home') /\ BackgroundLater
  BY <1>7, JournalDoneKeeps
<1>8. ASSUME NEW j \in Job, Expire(j) PROVE Good(home') /\ BackgroundLater
  BY <1>8, ExpireKeeps
<1>9. ASSUME NEW j \in Job, Stall(j) PROVE Good(home') /\ BackgroundLater
  BY <1>9, StallKeeps
<1>10. CASE StartStep
  BY <1>10, StartStepKeeps
<1>11. CASE ShedStep
  BY <1>11, ShedStepKeeps
<1>12. CASE PreemptStep
  BY <1>12, PreemptStepKeeps
<1>13. CASE StopStep
  BY <1>13, StopStepKeeps
<1>14. CASE DrainStep
  BY <1>14, DrainStepKeeps
<1>15. CASE BreakerEvent
  BY <1>15, BreakerEventKeeps
<1>16. CASE Drain
  BY <1>16, DrainKeeps
<1>17. ASSUME NEW n \in Slots \cup {SLOTS}, SlotsTold(n) PROVE Good(home') /\ BackgroundLater
  BY <1>17, SlotsToldKeeps
<1> QED BY <1>1, <1>2, <1>3, <1>4, <1>5, <1>6, <1>7, <1>8, <1>9, <1>10, <1>11, <1>12, <1>13,
           <1>14, <1>15, <1>16, <1>17 DEF Next, Steps

\* Of the lists, what a reader of home.c relies on.
LEMMA GoodListed == Good(home) => Listed
<1> SUFFICES ASSUME Good(home) PROVE Listed
  OBVIOUS
<1>1. /\ Sound(home) /\ home \in Struct /\ Lines(home) /\ Runs(home) /\ Flagged(home)
      /\ Counted(home)
  BY DEF Good, Sound
<1>2. home.due \subseteq Job /\ home.transfer \subseteq Job
  BY <1>1, Fields
<1>3. ASSUME NEW c \in {0, 1}
      PROVE  /\ ToSet(home.ready[c]) =
                  {j \in Job : j \in home.due /\ Class[j] = c /\ Has(home, j, "READY")}
             /\ home.readied[c] = Len(home.ready[c])
             /\ ToSet(home.ring[c]) = {p \in Principal : home.queue[c][p] # <<>>}
  BY <1>1, <1>2 DEF Lines
<1>4. ASSUME NEW j \in Job
      PROVE  LET lists == {l \in {home.background, home.preempting, home.dropped} :
                             j \in ToSet(l)}
             IN  /\ /\ j \in home.due /\ Has(home, j, "RUNNING")
                    /\ Class[j] = 1 \/ Has(home, j, "DROPPED")
                    => Cardinality(lists) = 1
                 /\ ~(j \in home.due /\ Has(home, j, "RUNNING")) => lists = {}
  <2> DEFINE lists == {l \in {home.background, home.preempting, home.dropped} : j \in ToSet(l)}
  <2>1. j \in home.due /\ Has(home, j, "RUNNING") /\ (Class[j] = 1 \/ Has(home, j, "DROPPED"))
        => Cardinality(lists) = 1
    <3> SUFFICES ASSUME j \in home.due, Has(home, j, "RUNNING"),
                        Class[j] = 1 \/ Has(home, j, "DROPPED")
                 PROVE  Cardinality(lists) = 1
      OBVIOUS
    <3>1. /\ j \in ToSet(home.dropped) <=> Has(home, j, "DROPPED")
          /\ j \in ToSet(home.background) \cup ToSet(home.preempting) <=> ~Has(home, j, "DROPPED")
          /\ ~(j \in ToSet(home.background) /\ j \in ToSet(home.preempting))
      <4>1. j \in ToSet(home.dropped) <=> Has(home, j, "DROPPED")
        BY <1>1 DEF Runs
      <4>2. j \in ToSet(home.background) \cup ToSet(home.preempting) <=>
              Class[j] = 1 /\ ~Has(home, j, "DROPPED")
        BY <1>1 DEF Runs
      <4>3. ~(j \in ToSet(home.background) /\ j \in ToSet(home.preempting))
        BY <1>1 DEF Runs
      <4> QED BY <4>1, <4>2, <4>3
    <3>2. \E l : lists = {l}
      <4>1. CASE Has(home, j, "DROPPED")
        <5>1. lists = {home.dropped}
          BY <3>1, <4>1
        <5> QED BY <5>1
      <4>2. CASE ~Has(home, j, "DROPPED") /\ j \in ToSet(home.background)
        <5>1. lists = {home.background}
          BY <3>1, <4>2
        <5> QED BY <5>1
      <4>3. CASE ~Has(home, j, "DROPPED") /\ j \in ToSet(home.preempting)
        <5>1. lists = {home.preempting}
          BY <3>1, <4>3
        <5> QED BY <5>1
      <4> QED BY <3>1, <4>1, <4>2, <4>3
    <3> QED BY <3>2, FS_Singleton
  <2>2. ~(j \in home.due /\ Has(home, j, "RUNNING")) => lists = {}
    BY <1>1, OnWhich
  <2> QED BY <2>1, <2>2
<1>5. \A j \in Job : Queued(home, j) <=> j \in home.due /\ home.flags[j] = {}
  BY <1>1, OnWhich
<1>6. home.transfer \subseteq {j \in Job : j \in home.due /\ Has(home, j, "RUNNING")}
  BY <1>1, <1>2 DEF Runs, Ran
<1>7. /\ home.owed = Cardinality(home.due)
      /\ home.running = Cardinality({j \in Job : j \in home.due /\ Has(home, j, "RUNNING")})
      /\ home.running_bg =
           Cardinality({j \in Job : j \in home.due /\ Has(home, j, "RUNNING") /\ Class[j] = 1})
  <2>1. /\ {j \in Job : Ran(home, j)} = {j \in Job : j \in home.due /\ Has(home, j, "RUNNING")}
        /\ {j \in Job : Ran(home, j) /\ Class[j] = 1} =
             {j \in Job : j \in home.due /\ Has(home, j, "RUNNING") /\ Class[j] = 1}
    BY DEF Ran
  <2> QED BY <1>1, <2>1 DEF Counted
<1> HIDE DEF Has
<1> QED BY <1>3, <1>4, <1>5, <1>6, <1>7 DEF Listed

LEMMA GoodSteps == Good(home) => NoLostStep
<1> SUFFICES ASSUME Good(home) PROVE NoLostStep
  OBVIOUS
<1>1. Sound(home) /\ Starts(home) /\ Ends(home)
  BY DEF Good
<1>2. NextJob(home, TRUE) # None =>
        Waits(home, 0) \/ (home.running_bg < BackgroundSlots(home) /\ Waits(home, 1))
  BY <1>1, NextIs
<1> QED BY <1>1, <1>2 DEF NoLostStep, Ready, Starts, Ends

LEMMA GoodProbe == Good(home) => OneProbe
<1> SUFFICES ASSUME Good(home) PROVE OneProbe
  OBVIOUS
<1> DEFINE probes == {j \in home.due : Has(home, j, "PROBE")}
<1>1. Probed(home)
  BY DEF Good, Sound
<1>2. probes = {} <=> ~home.probing
  BY <1>1 DEF Probed
<1>3. Cardinality(probes) <= 1
  <2>1. CASE probes = {}
    BY <2>1, FS_EmptySet
  <2>2. CASE probes # {}
    <3>1. PICK j \in probes : TRUE
      BY <2>2
    <3>2. probes = {j}
      BY <1>1, <3>1 DEF Probed
    <3>3. Cardinality({j}) = 1
      BY FS_Singleton
    <3> HIDE DEF probes
    <3> QED BY <3>2, <3>3
  <2> QED BY <2>1, <2>2
<1> QED BY <1>1, <1>2, <1>3 DEF OneProbe, Probed

LEMMA GoodCuts == Good(home) => PreemptedOnce
BY DEF Good, Sound, CutsOnce, PreemptedOnce

LEMMA GoodPlaces == Good(home) => PlacesTrue
<1> SUFFICES ASSUME Good(home), ~home.fifo, NEW c \in {0, 1}, NEW p \in Principal,
                    NEW i \in DOMAIN home.queue[c][p]
             PROVE  home.place[home.queue[c][p][i]] = i
  BY DEF PlacesTrue
<1>1. home \in Struct /\ Placed(home)
  BY DEF Good, Sound
<1>2. home.queue[c][p] \in Lists(Job)
  BY <1>1, Fields
<1>3. i \in 1 .. Len(home.queue[c][p])
  BY <1>2, OnList
<1> QED BY <1>1, <1>3 DEF Placed

-----------------------------------------------------------------------------
(* The theorems.                                                           *)

Held == part = "jobs" => Good(home)

LEMMA HeldAlways == QSpec => []Held
<1>1. QInit => Held
  BY InitGood DEF QInit, Held
<1>2. Held /\ [QNext]_<<part, home, books>> => Held'
  <2> SUFFICES ASSUME Held, [QNext]_<<part, home, books>>, part' = "jobs" PROVE Good(home')
    BY DEF Held, Good, Sound, Starts, Ends
  <2>1. CASE part = "jobs" /\ Next
    BY <2>1, NextKeeps DEF Held
  <2>2. CASE part = "books" /\ UNCHANGED part
    BY <2>2
  <2>3. CASE UNCHANGED <<part, home, books>>
    BY <2>3 DEF Held
  <2> QED BY <2>1, <2>2, <2>3 DEF QNext
<1> QED BY <1>1, <1>2, PTL DEF QSpec

\* A job is on the lists that its flags say, and the counts of home are those
\* of its lists, however many jobs there are, of whichever principals, and
\* whatever home is told of its slots (home_retire(), home_unqueue()).
THEOREM JobsListed == QSpec => []OnLists
<1>1. Held => OnLists
  BY GoodListed DEF Held, OnLists
<1> QED BY <1>1, HeldAlways, PTL

\* While a job could start the start step is ready, and likewise the steps
\* that preempt, cancel and drain (home_start_step(), loop_ready_bulk()).
THEOREM NoStepLost == QSpec => []StepsReady
<1>1. Held => StepsReady
  BY GoodSteps DEF Held, StepsReady
<1> QED BY <1>1, HeldAlways, PTL

\* The breaker has one probe at a time and knows of it (home_breaker_probed()).
THEOREM ProbesAlone == QSpec => []ProbeAlone
<1>1. Held => ProbeAlone
  BY GoodProbe DEF Held, ProbeAlone
<1> QED BY <1>1, HeldAlways, PTL

\* A job is preempted once at most in a run (home_preempt_step()).
THEOREM PreemptsOnce == QSpec => []CutOnce
<1>1. Held => CutOnce
  BY GoodCuts DEF Held, CutOnce
<1> QED BY <1>1, HeldAlways, PTL

\* Background work starts only if no interactive job waits and leaves it a
\* slot (home_next(), home_background_slots()).
THEOREM BackgroundWaits == QSpec => BackgroundLast
<1>1. Held /\ [QNext]_<<part, home, books>> => [part = "jobs" => BackgroundLater]_home
  <2> SUFFICES ASSUME Held, [QNext]_<<part, home, books>>, part = "jobs", home' # home
               PROVE  BackgroundLater
    OBVIOUS
  <2>1. CASE Next
    BY <2>1, NextKeeps DEF Held
  <2>2. CASE UNCHANGED home
    BY <2>2
  <2> QED BY <2>1, <2>2 DEF QNext
<1> QED BY <1>1, HeldAlways, PTL DEF QSpec, BackgroundLast

\* The place that a waiting call is told is its place in the queue, from the
\* scheduler alone (home_unqueue(), home_wait()).
THEOREM PlacesTold == Spec => []PlacesTrue
<1>1. Good(home) /\ [Next]_home => Good(home)'
  <2>1. ASSUME Good(home), Next PROVE Good(home)'
    BY <2>1, NextKeeps DEF Good, Sound, Starts, Ends
  <2>2. ASSUME Good(home), UNCHANGED home PROVE Good(home)'
    BY <2>2
  <2> QED BY <2>1, <2>2
<1> QED BY <1>1, InitGood, GoodPlaces, PTL DEF Spec

-----------------------------------------------------------------------------
(***************************************************************************)
(* The ledger of the run, of which the proofs are LedgerProofs'.  MCQueues *)
(* names the same module, and so what the two define is the same: first    *)
(* the functions that hold the lock, then what the handlers do.            *)
(***************************************************************************)
LP == INSTANCE LedgerProofs WITH
        Loop <- {"t1"}, Rec <- {r1, r2, r3}, Wait <- {"w1"}, Key <- {"a"},
        Anonymous <- {}, LEDGER_MAX <- 2, LEDGER_MINE <- 2, LEDGER_RUNNING <- 1,
        LEDGER_WAITS <- 1, LEDGER_TIMERS <- 1, LEDGER_OWNERS <- 2,
        t1 <- "t1", t2 <- "t1", w1 <- "w1", place <- 0, refs <- 0, home_bits <- 0,
        home_mail <- 0, front_bits <- 0, front_mail <- 0, asks <- 0, req <- 0,
        job <- 0, front <- 0, runs <- 0, draining <- 0

\* What Ledger assumes of its constants holds of the run's.
LEMMA BooksGiven ==
  /\ /\ None \notin {"t1"} \cup {r1, r2, r3} \cup {"w1"} \cup {"a"} /\ {} \subseteq {"a"}
     /\ {2, 1, 1, 1, 2} \subseteq Nat \ {0} /\ 2 \in Nat /\ 2 > 1
  /\ \A S \in {{"t1"}, {r1, r2, r3}, {"w1"}, {"a"}} : LP!IsFiniteSet(S)
<1>1. \A S : IsFiniteSet(S) => LP!IsFiniteSet(S)
  BY DEF IsFiniteSet, LP!IsFiniteSet
<1>2. IsFiniteSet({"t1"}) /\ IsFiniteSet({"w1"}) /\ IsFiniteSet({"a"})
  BY FS_Singleton
<1>3. IsFiniteSet({r1, r2, r3})
  <2>1. IsFiniteSet(({r1} \cup {r2}) \cup {r3})
    BY FS_Singleton, FS_AddElement
  <2>2. ({r1} \cup {r2}) \cup {r3} = {r1, r2, r3}
    OBVIOUS
  <2> QED BY <2>1, <2>2
<1> QED BY <1>1, <1>2, <1>3, BooksAssumption

\* What the instances define alike.
LEMMA BooksStart == Books!Init => LP!Init
BY DEF Books!Init, LP!Init, Books!Empty, LP!Empty, Books!FreeRec, LP!FreeRec, Books!FreeWait,
       LP!FreeWait, Books!Nothing, LP!Nothing, Books!Slot, LP!Slot

LEMMA GcSame == \A l, K : Books!Gc(l, K) = LP!Gc(l, K)
BY DEF Books!Gc, LP!Gc, Books!Slot, LP!Slot, Books!Cardinality, LP!Cardinality

LEMMA DroppedSame == \A l, R : Books!Dropped(l, R) = LP!Dropped(l, R)
BY GcSame DEF Books!Dropped, LP!Dropped, Books!Among, LP!Among, Books!Taken, LP!Taken,
       Books!ToSet, LP!ToSet, Books!Cardinality, LP!Cardinality

LEMMA TasksSame == \A l : Books!Tasks(l) = LP!Tasks(l)
BY DEF Books!Tasks, LP!Tasks, Books!ToSet, LP!ToSet

LEMMA SizeSame == \A l : Books!Size(l) = LP!Size(l)
BY DEF Books!Size, LP!Size, Books!Tasks, LP!Tasks, Books!ToSet, LP!ToSet, Books!Cardinality,
       LP!Cardinality

LEMMA MostSame == \A l : Books!Most(l) = LP!Most(l)
BY DEF Books!Most, LP!Most

LEMMA OldestSame == \A l, k : Books!OldestEnded(l, k) = LP!OldestEnded(l, k)
BY DEF Books!OldestEnded, LP!OldestEnded, Books!Ended, LP!Ended

LEMMA SweepsSame == \A l, room : Books!Sweeps(l, room) = LP!Sweeps(l, room)
<1> TAKE l, room
<1> DEFINE mine(m) == IF ~room \/ Books!Size(m) # 2 \/ Books!Most(m) = {} THEN {m}
                      ELSE {Books!Dropped(m, {Books!OldestEnded(m, k)}) : k \in Books!Most(m)}
           yours(m) == IF ~room \/ LP!Size(m) # 2 \/ LP!Most(m) = {} THEN {m}
                       ELSE {LP!Dropped(m, {LP!OldestEnded(m, k)}) : k \in LP!Most(m)}
           first(i) == Books!Dropped(l, Books!ToSet(SubSeq(l.ended, 1, i)))
           second(i) == LP!Dropped(l, LP!ToSet(SubSeq(l.ended, 1, i)))
<1>1. ASSUME NEW m PROVE mine(m) = yours(m)
  <2>1. \A k : Books!Dropped(m, {Books!OldestEnded(m, k)}) = LP!Dropped(m, {LP!OldestEnded(m, k)})
    BY DroppedSame, OldestSame
  <2>2. Books!Size(m) = LP!Size(m) /\ Books!Most(m) = LP!Most(m)
    BY SizeSame, MostSame
  <2> QED BY <2>1, <2>2
<1>2. \A i : first(i) = second(i)
  BY DroppedSame DEF Books!ToSet, LP!ToSet
<1>3. /\ Books!Sweeps(l, room) = UNION {mine(first(i)) : i \in 0 .. Len(l.ended)}
      /\ LP!Sweeps(l, room) = UNION {yours(second(i)) : i \in 0 .. Len(l.ended)}
  BY DEF Books!Sweeps, LP!Sweeps
<1> HIDE DEF mine, yours, first, second
<1>4. \A i : mine(first(i)) = yours(second(i))
  BY <1>1, <1>2
<1> QED BY <1>3, <1>4

LEMMA RoomSame == \A l, k : Books!Room(l, k) = LP!Room(l, k)
BY DEF Books!Room, LP!Room, Books!Cardinality, LP!Cardinality

LEMMA ExpiredSame == \A l, x : Books!Expired(l, x) = LP!Expired(l, x)
BY DEF Books!Expired, LP!Expired, Books!Slot, LP!Slot

LEMMA FiredSame == \A l : Books!Fired(l) = LP!Fired(l)
BY DEF Books!Fired, LP!Fired, Books!Slot, LP!Slot

LEMMA OwnersExpiredSame == \A l, x : Books!OwnersExpired(l, x) = LP!OwnersExpired(l, x)
BY GcSame, ExpiredSame DEF Books!OwnersExpired, LP!OwnersExpired

LEMMA OwnerGetSame == \A l, k, x : Books!OwnerGet(l, k, x) = LP!OwnerGet(l, k, x)
BY SMTT(20)
   DEF Books!OwnerGet, LP!OwnerGet, Books!OwnersExpired, LP!OwnersExpired, Books!Gc, LP!Gc,
       Books!Expired, LP!Expired, Books!Room, LP!Room, Books!Slot, LP!Slot, Books!Cardinality,
       LP!Cardinality

LEMMA InsertedSame == \A l, k, r : Books!Inserted(l, k, r) = LP!Inserted(l, k, r)
<1> TAKE l, k, r
<1> DEFINE put(m) == {[m EXCEPT !.records[k] = SubSeq(@, 1, i - 1) \o <<r>> \o SubSeq(@, i, Len(@)),
                                !.n[k] = @ + 1] : i \in 1 .. Len(m.records[k]) + 1}
           mine == IF l.n[k] >= 2 /\ Books!HasEnded(l, k)
                   THEN Books!Dropped(l, {Books!OldestEnded(l, k)}) ELSE l
           yours == IF l.n[k] >= 2 /\ LP!HasEnded(l, k)
                    THEN LP!Dropped(l, {LP!OldestEnded(l, k)}) ELSE l
<1>1. Books!Inserted(l, k, r) = put(mine) /\ LP!Inserted(l, k, r) = put(yours)
  BY DEF Books!Inserted, LP!Inserted, Books!InsertAt, LP!InsertAt
<1>2. Books!HasEnded(l, k) <=> LP!HasEnded(l, k)
  BY DEF Books!HasEnded, LP!HasEnded, Books!ToSet, LP!ToSet, Books!Ended, LP!Ended
<1>3. mine = yours
  BY <1>2, DroppedSame, OldestSame
<1> HIDE DEF put, mine, yours
<1> QED BY <1>1, <1>3

LEMMA RefusedSame == \A l, k, state : Books!Refused(l, k, state) = LP!Refused(l, k, state)
BY SizeSame DEF Books!Refused, LP!Refused

LEMMA ChainSame == \A S : Books!SetToSeq(S) = LP!SetToSeq(S)
BY DEF Books!SetToSeq, LP!SetToSeq, Books!Cardinality, LP!Cardinality, Books!IsInjective,
       LP!IsInjective

LEMMA ChainedSame == \A W : Books!Chained(W) = LP!Chained(W)
BY DEF Books!Chained, LP!Chained

LEMMA WokenSame == \A l, k : Books!Woken(l, k) = LP!Woken(l, k)
BY DEF Books!Woken, LP!Woken

LEMMA NewSame == \A t, state : Books!New(t, state) = LP!New(t, state)
BY DEF Books!New, LP!New, Books!FreeRec, LP!FreeRec

LEMMA IdleSame == \A t : Books!Idle(t) <=> LP!Idle(t)
BY DEF Books!Idle, LP!Idle, Books!Nothing, LP!Nothing

LEMMA OwesSame == \A t, W, l : Books!Owes(t, W, l) <=> LP!Owes(t, W, l)
BY TasksSame, ChainSame DEF Books!Owes, LP!Owes

LEMMA ReadSame == \A R : Books!Read(R) <=> LP!Read(R)
BY DEF Books!Read, LP!Read

LEMMA OpenSame == \A t, k, r : Books!Open(t, k, r) => LP!Open(t, k, r)
<1> SUFFICES ASSUME NEW t, NEW k, NEW r, Books!Open(t, k, r) PROVE LP!Open(t, k, r)
  OBVIOUS
<1> DEFINE open1(s, x) == IF Books!Size(s) = 2 THEN s ELSE Books!OwnerGet(s, k, x)
           open2(s, x) == IF LP!Size(s) = 2 THEN s ELSE LP!OwnerGet(s, k, x)
<1>1. PICK s \in Books!Sweeps(ledger, TRUE), state \in Books!Working,
           x \in SUBSET Books!Fired(ledger) :
        IF Books!Refused(open1(s, x), k, state)
        THEN ledger' = open1(s, x) /\ Books!Owes(t, {}, open1(s, x)) /\ UNCHANGED rec
        ELSE \E m \in Books!Inserted(open1(s, x), k, r) :
               /\ ledger' = [m EXCEPT !.running[k] = @ + 1]
               /\ rec' = [rec EXCEPT ![r] = Books!New(t, state)]
               /\ Books!Owes(t, {}, m)
  BY DEF Books!Open
<1>2. s \in LP!Sweeps(ledger, TRUE) /\ state \in LP!Working /\ x \in SUBSET LP!Fired(ledger)
  BY <1>1, SweepsSame, FiredSame DEF Books!Working, LP!Working
<1>3. open1(s, x) = open2(s, x)
  BY SizeSame, OwnerGetSame
<1> HIDE DEF open1, open2
<1>4. IF LP!Refused(open2(s, x), k, state)
      THEN ledger' = open2(s, x) /\ LP!Owes(t, {}, open2(s, x)) /\ UNCHANGED rec
      ELSE \E m \in LP!Inserted(open2(s, x), k, r) :
             /\ ledger' = [m EXCEPT !.running[k] = @ + 1]
             /\ rec' = [rec EXCEPT ![r] = LP!New(t, state)]
             /\ LP!Owes(t, {}, m)
  BY <1>1, <1>3, RefusedSame, InsertedSame, NewSame, OwesSame
<1>5. LP!Idle(t) /\ rec[r] = LP!FreeRec /\ UNCHANGED <<wait, open>>
  BY IdleSame DEF Books!Open, Books!FreeRec, LP!FreeRec
<1> QED BY <1>2, <1>4, <1>5 DEF LP!Open, open2

LEMMA RestoreSame == \A t, k, r : Books!Restore(t, k, r) => LP!Restore(t, k, r)
<1> SUFFICES ASSUME NEW t, NEW k, NEW r, Books!Restore(t, k, r) PROVE LP!Restore(t, k, r)
  OBVIOUS
<1> DEFINE open1(s, x) == IF Books!Size(s) = 2 THEN s ELSE Books!OwnerGet(s, k, x)
           open2(s, x) == IF LP!Size(s) = 2 THEN s ELSE LP!OwnerGet(s, k, x)
<1>1. PICK s \in Books!Sweeps(ledger, TRUE), x \in SUBSET Books!Fired(ledger) :
        IF Books!Refused(open1(s, x), k, "ended")
        THEN ledger' = open1(s, x) /\ Books!Owes(t, {}, open1(s, x)) /\ UNCHANGED <<rec, wait>>
        ELSE \E i \in Books!Inserted(open1(s, x), k, r) : \E m \in Books!Sweeps(i, FALSE) :
               /\ rec' = [rec EXCEPT ![r] = Books!New(t, "ended")]
               /\ ledger' = [m EXCEPT !.ended = Append(@, r)]
               /\ wait' = Books!Chained(Books!Woken(m, k))
               /\ Books!Owes(t, Books!Woken(m, k), m)
  BY DEF Books!Restore
<1>2. s \in LP!Sweeps(ledger, TRUE) /\ x \in SUBSET LP!Fired(ledger)
  BY <1>1, SweepsSame, FiredSame
<1>3. open1(s, x) = open2(s, x)
  BY SizeSame, OwnerGetSame
<1> HIDE DEF open1, open2
<1>4. IF LP!Refused(open2(s, x), k, "ended")
      THEN ledger' = open2(s, x) /\ LP!Owes(t, {}, open2(s, x)) /\ UNCHANGED <<rec, wait>>
      ELSE \E i \in LP!Inserted(open2(s, x), k, r) : \E m \in LP!Sweeps(i, FALSE) :
             /\ rec' = [rec EXCEPT ![r] = LP!New(t, "ended")]
             /\ ledger' = [m EXCEPT !.ended = Append(@, r)]
             /\ wait' = LP!Chained(LP!Woken(m, k))
             /\ LP!Owes(t, LP!Woken(m, k), m)
  BY <1>1, <1>3, RefusedSame, InsertedSame, NewSame, OwesSame, SweepsSame, WokenSame, ChainedSame
<1>5. LP!Idle(t) /\ rec[r] = LP!FreeRec /\ UNCHANGED open
  BY IdleSame DEF Books!Restore, Books!FreeRec, LP!FreeRec
<1> QED BY <1>2, <1>4, <1>5 DEF LP!Restore, open2

LEMMA EndSame == \A t, r : Books!End(t, r) => LP!End(t, r)
BY SweepsSame, TasksSame, ChainSame, ChainedSame, WokenSame, ZenonT(40)
   DEF Books!End, LP!End, Books!Idle, LP!Idle, Books!Nothing, LP!Nothing, Books!OwnerOf, LP!OwnerOf, Books!ToSet, LP!ToSet,
       Books!Working, LP!Working

LEMMA FindSame == \A t, r : Books!Find(t, r) => LP!Find(t, r)
<1> SUFFICES ASSUME NEW t, NEW r, Books!Find(t, r) PROVE LP!Find(t, r)
  OBVIOUS
<1>1. PICK l \in Books!Sweeps(ledger, FALSE) :
        ledger' = l /\ Books!Owes(t, {}, l) /\ Books!Read({r} \cap Books!Tasks(l))
  BY DEF Books!Find
<1>2. /\ l \in LP!Sweeps(ledger, FALSE)
      /\ ledger' = l /\ LP!Owes(t, {}, l) /\ LP!Read({r} \cap LP!Tasks(l))
  BY <1>1, SweepsSame, OwesSame, ReadSame, TasksSame
<1>3. LP!Idle(t) /\ ~rec[r].shown /\ UNCHANGED <<wait, open>>
  BY IdleSame DEF Books!Find
<1> QED BY <1>2, <1>3 DEF LP!Find

LEMMA ListSame == \A t, k : Books!List(t, k) => LP!List(t, k)
<1> SUFFICES ASSUME NEW t, NEW k, Books!List(t, k) PROVE LP!List(t, k)
  OBVIOUS
<1> DEFINE left1(s, x) == Books!Gc(Books!Expired(s, x), {k})
           left2(s, x) == LP!Gc(LP!Expired(s, x), {k})
<1>1. PICK s \in Books!Sweeps(ledger, FALSE),
           x \in SUBSET {y \in Books!Fired(ledger) : y[1] = k} :
        /\ \A r \in Books!ToSet(left1(s, x).records[k]) : ~rec[r].shown
        /\ ledger' = left1(s, x) /\ Books!Owes(t, {}, left1(s, x))
        /\ Books!Read(Books!ToSet(left1(s, x).records[k]))
  BY DEF Books!List
<1>2. /\ s \in LP!Sweeps(ledger, FALSE)
      /\ x \in SUBSET {y \in LP!Fired(ledger) : y[1] = k}
  BY <1>1, SweepsSame, FiredSame
<1>3. left1(s, x) = left2(s, x)
  BY GcSame, ExpiredSame
<1> HIDE DEF left1, left2
<1>4. \A q : Books!ToSet(q) = LP!ToSet(q)
  BY DEF Books!ToSet, LP!ToSet
<1>5. /\ \A r \in LP!ToSet(left2(s, x).records[k]) : ~rec[r].shown
      /\ ledger' = left2(s, x) /\ LP!Owes(t, {}, left2(s, x))
      /\ LP!Read(LP!ToSet(left2(s, x).records[k]))
  BY <1>1, <1>3, <1>4, OwesSame, ReadSame
<1>6. LP!Idle(t) /\ k \in ledger.owners /\ UNCHANGED <<wait, open>>
  BY IdleSame DEF Books!List
<1> QED BY <1>2, <1>5, <1>6 DEF LP!List, left2

LEMMA ReadRecordSame == \A t, r : Books!ReadRecord(t, r) => LP!ReadRecord(t, r)
BY DEF Books!ReadRecord, LP!ReadRecord, Books!Idle, LP!Idle, Books!Nothing, LP!Nothing,
       Books!Put, LP!Put, Books!Ended, LP!Ended, Books!FreeRec, LP!FreeRec

LEMMA CancelRecordSame == \A t, r : Books!CancelRecord(t, r) => LP!CancelRecord(t, r)
BY DEF Books!CancelRecord, LP!CancelRecord, Books!Idle, LP!Idle, Books!Nothing, LP!Nothing,
       Books!Working, LP!Working

LEMMA OnTaskCancelSame == \A t, r : Books!OnTaskCancel(t, r) => LP!OnTaskCancel(t, r)
BY DEF Books!OnTaskCancel, LP!OnTaskCancel, Books!Idle, LP!Idle, Books!Nothing, LP!Nothing,
       Books!Put, LP!Put, Books!FreeRec, LP!FreeRec

LEMMA RemoveRecordSame == \A t, r : Books!RemoveRecord(t, r) => LP!RemoveRecord(t, r)
BY TasksSame, DroppedSame, ChainSame DEF Books!RemoveRecord, LP!RemoveRecord, Books!Idle,
       LP!Idle, Books!Nothing, LP!Nothing, Books!Owes, LP!Owes, Books!Ended, LP!Ended

LEMMA TimerSetSame == \A t, k : Books!TimerSet(t, k) => LP!TimerSet(t, k)
<1> SUFFICES ASSUME NEW t, NEW k, Books!TimerSet(t, k) PROVE LP!TimerSet(t, k)
  OBVIOUS
<1> DEFINE first(g, l, C, D) ==
      LET empty == {i \in 1 .. 1 : l.timers[k][i] = "none"}
          i == CHOOSE j \in empty : \A m \in empty : j <= m
      IN  IF k \notin g.owners \/ empty = {}
          THEN ledger' = (IF k \in g.owners THEN l ELSE g) /\ UNCHANGED <<wait, todo>>
          ELSE /\ ledger' = [l EXCEPT !.timers[k][i] = "set"]
               /\ wait' = [w \in {"w1"} |-> [C[w] EXCEPT
                             !.covers = IF w \in l.waits[k] THEN @ \ {i} ELSE @]]
               /\ todo' = [todo EXCEPT ![t].hits = D]
<1>1. PICK x \in SUBSET Books!Fired(ledger) :
        LET g == Books!OwnerGet(ledger, k, x)
            l == Books!Expired(g, {y \in x : y[1] = k})
        IN  first(g, l, Books!Chained(Books!Woken(l, k)), Books!SetToSeq(Books!Woken(l, k)))
  BY DEF Books!TimerSet, Books!Slot
<1> HIDE DEF first
<1>2. LET g == LP!OwnerGet(ledger, k, x)
          l == LP!Expired(g, {y \in x : y[1] = k})
      IN  first(g, l, LP!Chained(LP!Woken(l, k)), LP!SetToSeq(LP!Woken(l, k)))
  BY <1>1, OwnerGetSame, ExpiredSame, ChainSame, ChainedSame, WokenSame
<1>3. x \in SUBSET LP!Fired(ledger)
  BY <1>1, FiredSame
<1>4. LP!Idle(t) /\ UNCHANGED <<rec, open>>
  BY IdleSame DEF Books!TimerSet
<1> QED BY <1>2, <1>3, <1>4 DEF LP!TimerSet, LP!Slot, first

LEMMA TimerCancelSame == \A t, k, i : Books!TimerCancel(t, k, i) => LP!TimerCancel(t, k, i)
BY FiredSame, GcSame, ExpiredSame DEF Books!TimerCancel, LP!TimerCancel, Books!Idle, LP!Idle,
       Books!Nothing, LP!Nothing

LEMMA TimerFiresSame == \A k, i : Books!TimerFires(k, i) => LP!TimerFires(k, i)
BY DEF Books!TimerFires, LP!TimerFires

LEMMA WaitEnterSame == \A t, k, w : Books!WaitEnter(t, k, w) => LP!WaitEnter(t, k, w)
<1> SUFFICES ASSUME NEW t, NEW k, NEW w, Books!WaitEnter(t, k, w) PROVE LP!WaitEnter(t, k, w)
  OBVIOUS
<1> DEFINE enter(g, f, any) ==
      IF k \notin g.owners \/ g.n_waits[k] >= 1
      THEN ledger' = g /\ UNCHANGED wait
      ELSE /\ ledger' = [g EXCEPT !.waits[k] = @ \cup {w}, !.n_waits[k] = @ + 1]
           /\ wait' = [wait EXCEPT ![w] = [f EXCEPT
                !.state = "looks", !.loop = t, !.any = any, !.refs = 1]]
<1>1. PICK x \in SUBSET Books!Fired(ledger), any \in BOOLEAN :
        enter(Books!OwnerGet(ledger, k, x), Books!FreeWait, any)
  BY DEF Books!WaitEnter
<1> HIDE DEF enter
<1>2. Books!FreeWait = LP!FreeWait
  BY DEF Books!FreeWait, LP!FreeWait
<1>3. x \in SUBSET LP!Fired(ledger) /\ enter(LP!OwnerGet(ledger, k, x), LP!FreeWait, any)
  BY <1>1, <1>2, FiredSame, OwnerGetSame
<1>4. LP!Idle(t) /\ wait[w] = LP!FreeWait /\ UNCHANGED <<rec, todo, open>>
  BY <1>2, IdleSame DEF Books!WaitEnter
<1> QED BY <1>3, <1>4 DEF LP!WaitEnter, enter

LEMMA WaitCheckSame == \A t, w : Books!WaitCheck(t, w) => LP!WaitCheck(t, w)
<1> SUFFICES ASSUME NEW t, NEW w, Books!WaitCheck(t, w) PROVE LP!WaitCheck(t, w)
  OBVIOUS
<1> DEFINE check(told, k, fired, l) ==
      LET parks == told = {} /\ fired = {}
      IN  /\ ledger' = l
          /\ rec' = [r \in {r1, r2, r3} |-> IF r \notin told THEN rec[r]
                       ELSE [rec[r] EXCEPT !.state = "told", !.refs = @ + 1]]
          /\ todo' = [todo EXCEPT ![t].gone = told]
          /\ wait' = [wait EXCEPT
               ![w].state = IF parks THEN "parked" ELSE "done",
               ![w].covers = {i \in 1 .. 1 : parks /\ ledger.timers[k][i] = "set"}]
           fired(k) == {i \in 1 .. 1 : ledger.timers[k][i] = "fired"}
<1>1. PICK told \in Books!Tellings(w) :
        check(told, Books!WaitsFor(w), fired(Books!WaitsFor(w)),
              Books!Expired(ledger, {Books!WaitsFor(w)} \X fired(Books!WaitsFor(w))))
  BY DEF Books!WaitCheck, Books!Slot
<1> HIDE DEF check, fired
<1>2. Books!WaitsFor(w) = LP!WaitsFor(w)
  BY DEF Books!WaitsFor, LP!WaitsFor
<1>3. Books!Tellings(w) = LP!Tellings(w)
  BY <1>2 DEF Books!Tellings, LP!Tellings, Books!Untold, LP!Untold, Books!ToSet, LP!ToSet,
              Books!Ended, LP!Ended
<1>4. /\ told \in LP!Tellings(w)
      /\ check(told, LP!WaitsFor(w), fired(LP!WaitsFor(w)),
               LP!Expired(ledger, {LP!WaitsFor(w)} \X fired(LP!WaitsFor(w))))
  BY <1>1, <1>2, <1>3, ExpiredSame
<1>5. LP!Idle(t) /\ wait[w].state = "looks" /\ wait[w].loop = t /\ UNCHANGED open
  BY IdleSame DEF Books!WaitCheck
<1> QED BY <1>4, <1>5 DEF LP!WaitCheck, LP!Slot, check, fired

LEMMA WaitAlarmSame == \A t, w : Books!WaitAlarm(t, w) => LP!WaitAlarm(t, w)
BY DEF Books!WaitAlarm, LP!WaitAlarm, Books!Idle, LP!Idle, Books!Nothing, LP!Nothing,
       Books!WaitsFor, LP!WaitsFor

LEMMA OnWakeSame == \A t, w : Books!OnWake(t, w) => LP!OnWake(t, w)
BY DEF Books!OnWake, LP!OnWake, Books!Idle, LP!Idle, Books!Nothing, LP!Nothing

LEMMA WakePutSame == \A t, w : Books!WakePut(t, w) => LP!WakePut(t, w)
BY DEF Books!WakePut, LP!WakePut, Books!PutWait, LP!PutWait, Books!FreeWait, LP!FreeWait

LEMMA WaitLeaveSame == \A t, w : Books!WaitLeave(t, w) => LP!WaitLeave(t, w)
BY GcSame DEF Books!WaitLeave, LP!WaitLeave, Books!Idle, LP!Idle, Books!Nothing, LP!Nothing,
       Books!WaitsFor, LP!WaitsFor, Books!PutWait, LP!PutWait, Books!FreeWait, LP!FreeWait

LEMMA WakeNextSame == \A t : Books!WakeNext(t) => LP!WakeNext(t)
BY DEF Books!WakeNext, LP!WakeNext

LEMMA PutAllSame == \A t : Books!PutAll(t) => LP!PutAll(t)
BY DEF Books!PutAll, LP!PutAll, Books!Put, LP!Put, Books!FreeRec, LP!FreeRec, Books!Nothing,
       LP!Nothing

LEMMA DestroySame == Books!Destroy => LP!Destroy
BY TasksSame DEF Books!Destroy, LP!Destroy, Books!Idle, LP!Idle, Books!Nothing, LP!Nothing,
       Books!FreeWait, LP!FreeWait, Books!FreeRec, LP!FreeRec, Books!Working, LP!Working,
       Books!Put, LP!Put, Books!Empty, LP!Empty, Books!Slot, LP!Slot

LEMMA BooksStep == Books!Next => LP!Next
BY OpenSame, RestoreSame, EndSame, FindSame, ListSame, ReadRecordSame, CancelRecordSame,
   OnTaskCancelSame, RemoveRecordSame, TimerSetSame, TimerCancelSame, TimerFiresSame,
   WaitEnterSame, WaitCheckSame, WaitAlarmSame, OnWakeSame, WakePutSame, WaitLeaveSame,
   WakeNextSame, PutAllSame, DestroySame DEF
       Books!Next, LP!Next, Books!Unlocked, LP!Unlocked, Books!Handlers, LP!Handlers,
       Books!Calls, LP!Calls, Books!Slot, LP!Slot

LEMMA BooksEnough == LP!OwnersExact /\ LP!WithinLimits => Books!OwnersExact /\ Books!WithinLimits
BY DEF Books!OwnersExact, LP!OwnersExact, Books!WithinLimits, LP!WithinLimits, Books!Slot,
       LP!Slot, Books!Working, LP!Working, Books!Ended, LP!Ended, Books!Tasks, LP!Tasks,
       Books!Size, LP!Size, Books!ToSet, LP!ToSet, Books!Cardinality, LP!Cardinality,
       Books!Bit, LP!Bit, Books!IsInjective, LP!IsInjective

\* What LedgerProofs keeps holds of the run.
Recorded == part = "books" => LP!LedgerInv

LEMMA RecordedAlways == QSpec => []Recorded
<1>1. QInit => Recorded
  BY BooksGiven, BooksStart, LP!InitBooks DEF QInit, Recorded
<1>2. Recorded /\ [QNext]_<<part, home, books>> => Recorded'
  <2> SUFFICES ASSUME Recorded, [QNext]_<<part, home, books>>, part' = "books"
               PROVE  LP!LedgerInv'
    BY DEF Recorded
  <2>1. LP!LedgerInv /\ (Books!Next \/ UNCHANGED books)
    BY DEF QNext, Recorded, Closed, books
  <2>2. [LP!Next]_(LP!vars)
    BY <2>1, BooksStep DEF books, LP!vars
  <2> QED BY <2>1, <2>2, BooksGiven, LP!StepKeeps
<1> QED BY <1>1, <1>2, PTL DEF QSpec

\* In the run that home shares with the ledger, the ledger's counts are those
\* of its lists and within the limits of ledger.h (ledger_insert(),
\* ledger_drop(), ledger_sweep()).
THEOREM RecordsAlways == QSpec => []RecordsKept
<1>1. Recorded => RecordsKept
  BY BooksGiven, BooksEnough, LP!InvOwners, LP!InvLimits DEF Recorded, RecordsKept
<1> QED BY <1>1, RecordedAlways, PTL
=============================================================================
