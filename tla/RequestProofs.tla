--------------------------- MODULE RequestProofs ---------------------------
(***************************************************************************)
(* Proofs about what MCRequest composes.  Of JobChannel, for every number  *)
(* of runs, of events and of journal writes: the references, the one       *)
(* completion, and what the front may read.  Of Request, for any number of *)
(* lives, turns, calls and records and any clients but those that the run  *)
(* request_once shows: a request that is spare has let go of everything,   *)
(* and a record that works is of the call that runs.                       *)
(*                                                                         *)
(* A request's handler is a chain of functions from state to state, and so *)
(* each function has a lemma: given a request that is going, or waits, it  *)
(* leaves one that is good.                                                *)
(***************************************************************************)
EXTENDS MCRequest, WellFoundedInduction, TLAPS

(***************************************************************************)
(* A job: its inductive invariant.                                         *)
(***************************************************************************)
ToHome  == home_bits \cup home.bits
ToFront == front_bits \cup front.bits

\* A job on the shelf or freed has nothing on its way.
Kept ==
  place # "out" => /\ refs = 0 /\ ToHome = {} /\ ToFront = {}
                   /\ home.hand = 0 /\ front.hand = 0
                   /\ req = NoReq /\ job = Fresh

\* A handler that has taken bits holds the message's reference; RETURN comes
\* alone and without one.
Hands ==
  /\ home_mail <=> home_bits # {}
  /\ front_mail <=> front_bits # {}
  /\ home.bits # {} => home.hand = 1
  /\ front.bits # {} => front.hand = IF "RETURN" \in front.bits THEN 0 ELSE 1
  /\ "RETURN" \in front_bits => front_bits = {"RETURN"} /\ front.bits = {}
  /\ "RETURN" \in front.bits => front.bits = {"RETURN"} /\ front_bits = {}

Counted ==
  /\ refs = req.hold + job.hold + job.pending + front.hand + home.hand
            + (IF home_mail THEN 1 ELSE 0)
            + (IF front_mail /\ "RETURN" \notin front_bits THEN 1 ELSE 0)
  /\ place = "out" /\ refs = 0 <=> "RETURN" \in ToFront

\* SUBMIT is on its way exactly while home has noted nothing of the run.
SubmitSent ==
  /\ "SUBMIT" \in ToHome =>
       /\ job = [Fresh EXCEPT !.hold = 1] /\ "DRAIN" \notin ToHome
       /\ ToFront = {} /\ req.hold = 1 /\ ~req.delta /\ req.state # "reads"
  /\ "SUBMIT" \in home_bits => home.bits = {}
  /\ place = "out" /\ job.state = "none" => "SUBMIT" \in ToHome

\* The front has let go exactly when CANCEL is on its way or home has noted it.
FrontLetGo ==
  /\ req.state = "none" <=> "CANCEL" \in ToHome \/ job.hold = 0 \/ job.dropped
  /\ "CANCEL" \in ToHome => job.hold = 1 /\ ~job.dropped
  /\ "CANCEL" \in home_bits => "CANCEL" \notin home.bits
  /\ job.dropped => job.delta = "none" /\ job.state # "none"
  /\ job.dropped /\ job.hold = 1 => InFlight \/ job.ending
  /\ place = "out" /\ job.hold = 0 => job.state = "ended" /\ job.delta = "none"

\* What home notes of a run is consistent.
Noted ==
  /\ job.state # "ended" => job.told = 0 /\ ~job.ending /\ job.delta # "ended"
  /\ job.told <= 1
  /\ job.told = 1 => job.delta = "none" /\ job.pending = 0
  /\ job.ending => job.pending > 0 /\ job.delta # "ended"
  /\ job.delta = "ended" => job.pending = 0
  /\ job.delta # "none" => asks.stream /\ job.state # "queued"
  /\ job.state = "queued" => job.pending = 0 /\ ~job.opening
  /\ job.transfer => job.state = "running" /\ ~job.opening
  /\ job.state = "running" /\ job.opening => job.delta = "none"
  /\ job.state = "ended" /\ job.hold = 1 /\ job.status \in {"ANSWERED", "FAILED"}
       => job.answer
  /\ job.state \notin {"none", "ended"} => job.status = "none"
  /\ HeldBack

\* The completion is told, taken and let go of once.
JobTold ==
  /\ place = "out" =>
       (req.hold = 0 <=> job.told = 1 /\ "DONE" \notin ToFront /\ req.state # "reads")
  /\ "DONE" \in ToFront => job.told = 1 /\ req.state # "reads"
  /\ "DONE" \in front_bits => "DONE" \notin front.bits
  /\ req.state = "reads" => job.told = 1

\* While the front waits, the mailbox is with one of the two.
Mailbag ==
  /\ req.delta => req.state = "waits"
  /\ req.state = "waits" =>
       /\ "DELTA" \in ToFront \/ req.delta \/ "DRAIN" \in ToHome => job.delta # "none"
       /\ "DELTA" \in front_bits => "DELTA" \notin front.bits
       /\ "DRAIN" \in home_bits => "DRAIN" \notin home.bits
       /\ "DELTA" \in ToFront => ~req.delta /\ "DRAIN" \notin ToHome
       /\ req.delta => "DRAIN" \notin ToHome

\* The loops stop in their order.
Stops ==
  /\ front.loop # "run" => req.state = "none" /\ place # "shelf"
  /\ front.loop \in {"exit", "gone"} => front.bits = {} /\ front.hand = 0
  /\ front.loop \in {"fini", "gone"} => home.loop = "gone"
  /\ front.loop = "gone" => ~front_mail /\ place = "freed"
  /\ home.loop # "run" => front.loop # "run" /\ ~InFlight /\ job.pending = 0
  /\ home.loop \in {"exit", "gone"} => home.bits = {} /\ home.hand = 0
  /\ home.loop = "gone" => ~home_mail

Agrees == Kept /\ Hands /\ Counted /\ SubmitSent /\ FrontLetGo /\ Noted /\ JobTold /\ Mailbag /\ Stops

JobInv == TypeOK /\ Agrees

USE WritesAssumption

\* What the types say of each number and each set.
LEMMA JobFields ==
  ASSUME TypeOK
  PROVE  /\ refs \in Nat /\ req.hold \in 0 .. 1 /\ front.hand \in 0 .. 2 /\ home.hand \in 0 .. 2
         /\ job.hold \in 0 .. 1 /\ job.pending \in Nat /\ job.pending <= MaxWrites
         /\ job.told \in 0 .. 2 /\ job.events \in 0 .. MaxEvents
         /\ {req.delta, job.transfer, job.dropped, job.opening, job.deferred, job.ending,
             job.error, job.answer, job.preempted} \subseteq BOOLEAN
         /\ req.state \in {"none", "waits", "reads"}
         /\ job.state \in {"none", "queued", "running", "ended"}
         /\ job.delta \in {"none", "pending", "ended"} /\ job.status \in Status
         /\ home.bits \subseteq HomeBits /\ front.bits \subseteq FrontBits
         /\ front.loop \in {"run", "exit", "fini", "gone"}
         /\ home.loop \in {"run", "exit", "fini", "gone"}
BY DEF TypeOK, ReqType, JobType, Thread

-----------------------------------------------------------------------------
(* The types.                                                              *)

MailTypes == /\ refs \in Nat
             /\ home_bits \in SUBSET HomeBits /\ home_mail \in BOOLEAN
             /\ front_bits \in SUBSET FrontBits /\ front_mail \in BOOLEAN

\* Posting a bit keeps the types of the words, the messages and the count.
LEMMA HomePosted ==
  ASSUME TypeOK, NEW b \in HomeBits, PostHome(b)
  PROVE  MailTypes'
<1>1. refs' \in Nat
  BY DEF TypeOK, PostHome
<1>2. home_bits' \in SUBSET HomeBits
  BY DEF TypeOK, PostHome
<1>3. home_mail' \in BOOLEAN
  BY DEF TypeOK, PostHome
<1>4. front_bits' \in SUBSET FrontBits /\ front_mail' \in BOOLEAN
  BY DEF TypeOK, PostHome
<1> QED BY <1>1, <1>2, <1>3, <1>4 DEF MailTypes

LEMMA FrontPosted ==
  ASSUME TypeOK, NEW b \in FrontBits, PostFront(b)
  PROVE  MailTypes'
<1>1. refs' \in Nat
  BY DEF TypeOK, PostFront
<1>2. front_bits' \in SUBSET FrontBits
  BY DEF TypeOK, PostFront
<1>3. front_mail' \in BOOLEAN
  BY DEF TypeOK, PostFront
<1>4. home_bits' \in SUBSET HomeBits /\ home_mail' \in BOOLEAN
  BY DEF TypeOK, PostFront
<1> QED BY <1>1, <1>2, <1>3, <1>4 DEF MailTypes

LEMMA NothingPosted == TypeOK /\ PostNothing => MailTypes'
BY DEF TypeOK, MailTypes, PostNothing

\* A thread's record with a field set.
LEMMA ThreadBits ==
  ASSUME NEW B, NEW t \in Thread(B), NEW b \in SUBSET B
  PROVE  [t EXCEPT !.bits = b] \in Thread(B)
BY DEF Thread

LEMMA ThreadHand ==
  ASSUME NEW B, NEW t \in Thread(B), NEW h \in 0 .. 2
  PROVE  [t EXCEPT !.hand = h] \in Thread(B)
BY DEF Thread

LEMMA ThreadBoth ==
  ASSUME NEW B, NEW t \in Thread(B), NEW b \in SUBSET B, NEW h \in 0 .. 2
  PROVE  [t EXCEPT !.bits = b, !.hand = h] \in Thread(B)
BY DEF Thread

LEMMA ThreadLoop ==
  ASSUME NEW B, NEW t \in Thread(B), NEW l \in {"run", "exit", "fini", "gone"}
  PROVE  [t EXCEPT !.loop = l] \in Thread(B)
BY DEF Thread

LEMMA Small == 0 \in 0 .. 2 /\ 1 \in 0 .. 2 /\ 2 \in 0 .. 2
OBVIOUS

LEMMA FreshType == Fresh \in JobType
BY EventsAssumption DEF Fresh, JobType, Status

LEMMA HeldType == ASSUME NEW j \in JobType PROVE [j EXCEPT !.hold = 1] \in JobType
BY DEF JobType

LEMMA FrontTypes ==
  ASSUME TypeOK, \/ Submit \/ Drop \/ Drained \/ FrontTake \/ FrontProgress \/ FrontDone
                 \/ FrontDropped \/ FrontLate \/ FrontStop \/ FrontFini \/ FrontReturned
                 \/ FrontPut /\ refs >= front.hand
  PROVE  TypeOK'
<1>0. /\ req \in ReqType /\ job \in JobType
      /\ front \in Thread(FrontBits) /\ home \in Thread(HomeBits)
  BY DEF TypeOK
<1>1. CASE Submit
  <2>1. refs' \in Nat /\ home_bits' \in SUBSET HomeBits
    BY <1>1 DEF Submit, HomeBits
  <2>2. home_mail' \in BOOLEAN
    BY <1>1 DEF Submit
  <2>3. req' \in ReqType
    BY <1>1 DEF Submit, ReqType
  <2>4. job' \in JobType
    BY <1>1, FreshType, HeldType DEF Submit
  <2>5. runs' \in 0 .. MaxRuns
    BY <1>1, RunsAssumption DEF Submit, TypeOK
  <2>6. front_bits' \in SUBSET FrontBits /\ front_mail' \in BOOLEAN
    BY <1>1 DEF Submit, TypeOK
  <2>7. place' \in {"shelf", "out", "freed"}
    BY <1>1 DEF Submit
  <2> QED BY <1>1, <2>1, <2>2, <2>3, <2>4, <2>5, <2>6, <2>7 DEF TypeOK, Submit
<1>2. CASE Drop
  <2>1. MailTypes'
    BY <1>2, HomePosted DEF Drop, HomeBits
  <2>2. CASE req.state = "waits"
    <3>1. req' = [req EXCEPT !.state = "none", !.delta = FALSE]
      BY <1>2, <2>2 DEF Drop
    <3>2. req' \in ReqType
      BY <1>0, <3>1 DEF ReqType
    <3> QED BY <1>2, <2>1, <2>2, <3>2 DEF TypeOK, MailTypes, Drop
  <2>3. CASE req.state # "waits"
    <3>1. req' = NoReq /\ front' = [front EXCEPT !.hand = 1]
      BY <1>2, <2>3 DEF Drop
    <3>2. req' \in ReqType
      BY <3>1 DEF ReqType, NoReq
    <3>3. front' \in Thread(FrontBits)
      BY <1>0, <3>1, ThreadHand, Small
    <3> QED BY <1>2, <2>1, <3>2, <3>3 DEF TypeOK, MailTypes, Drop
  <2> QED BY <2>2, <2>3
<1>3. CASE Drained
  <2>1. MailTypes'
    BY <1>3, HomePosted DEF Drained, HomeBits
  <2>2. req' \in ReqType
    BY <1>0, <1>3 DEF Drained, ReqType
  <2> QED BY <1>3, <2>1, <2>2 DEF TypeOK, MailTypes, Drained
<1>4. CASE FrontTake
  <2>1. front_bits \in SUBSET FrontBits /\ (IF "RETURN" \in front_bits THEN 0 ELSE 1) \in 0 .. 2
    BY DEF TypeOK
  <2>2. front' \in Thread(FrontBits)
    BY <1>0, <1>4, <2>1, ThreadBoth DEF FrontTake
  <2>3. front_mail' \in BOOLEAN
    BY <1>4 DEF FrontTake
  <2> QED BY <1>4, <2>2, <2>3 DEF TypeOK, FrontTake
<1>5. CASE FrontProgress
  <2>1. MailTypes'
    BY <1>5, HomePosted, NothingPosted DEF FrontProgress, HomeBits
  <2>2. req' = req \/ req' = [req EXCEPT !.delta = TRUE]
    BY <1>5 DEF FrontProgress
  <2>3. req' \in ReqType
    BY <1>0, <2>2 DEF ReqType
  <2>4. front' \in Thread(FrontBits)
    BY <1>0, <1>5, ThreadBits DEF FrontProgress
  <2> QED BY <1>5, <2>1, <2>3, <2>4 DEF TypeOK, MailTypes, FrontProgress
<1>6. CASE FrontDone
  <2>1. req' \in ReqType
    BY <1>0, <1>6 DEF FrontDone, ReqType
  <2>2. front' \in Thread(FrontBits)
    BY <1>0, <1>6, ThreadBits DEF FrontDone
  <2> QED BY <1>6, <2>1, <2>2, NothingPosted DEF TypeOK, MailTypes, FrontDone
<1>7. CASE FrontDropped
  <2>1. req' \in ReqType
    BY <1>0, <1>7 DEF FrontDropped, ReqType
  <2>2. front' \in Thread(FrontBits)
    BY <1>0, <1>7, ThreadBoth, Small DEF FrontDropped
  <2> QED BY <1>7, <2>1, <2>2, NothingPosted DEF TypeOK, MailTypes, FrontDropped
<1>8. CASE FrontLate
  <2>1. req' = req \/ req' = [req EXCEPT !.hold = 0]
    BY <1>8 DEF FrontLate
  <2>2. req' \in ReqType
    BY <1>0, <2>1 DEF ReqType
  <2>3. front' = [front EXCEPT !.bits = {}] \/ front' = [front EXCEPT !.bits = {}, !.hand = 2]
    BY <1>8 DEF FrontLate
  <2>4. [front EXCEPT !.bits = {}] \in Thread(FrontBits)
    BY <1>0, ThreadBits
  <2>5. [front EXCEPT !.bits = {}, !.hand = 2] \in Thread(FrontBits)
    BY <1>0, ThreadBoth, Small
  <2> QED BY <1>8, <2>2, <2>3, <2>4, <2>5, NothingPosted DEF TypeOK, MailTypes, FrontLate
<1>9. CASE FrontStop
  <2>1. front' \in Thread(FrontBits)
    BY <1>0, <1>9, ThreadLoop DEF FrontStop
  <2> QED BY <1>9, <2>1, NothingPosted DEF TypeOK, MailTypes, FrontStop
<1>10. CASE FrontFini
  <2>1. front' \in Thread(FrontBits)
    BY <1>0, <1>10, ThreadLoop DEF FrontFini
  <2> QED BY <1>10, <2>1, NothingPosted DEF TypeOK, MailTypes, FrontFini
<1>11. CASE FrontReturned
  <2>1. front' \in Thread(FrontBits)
    BY <1>0, <1>11, ThreadBits DEF FrontReturned
  <2> QED BY <1>11, <2>1, NothingPosted, FreshType DEF TypeOK, MailTypes, FrontReturned, Shelve
<1>12. CASE FrontPut /\ refs >= front.hand
  <2>1. refs' \in Nat
    BY <1>12, JobFields DEF FrontPut
  <2>2. front' \in Thread(FrontBits)
    BY <1>0, <1>12, ThreadHand, Small DEF FrontPut
  <2>3. place' \in {"shelf", "out", "freed"} /\ job' \in JobType
    BY <1>12, FreshType DEF FrontPut, Shelve, TypeOK
  <2> QED BY <1>12, <2>1, <2>2, <2>3 DEF TypeOK, FrontPut
<1> QED BY <1>1, <1>2, <1>3, <1>4, <1>5, <1>6, <1>7, <1>8, <1>9, <1>10, <1>11, <1>12

-----------------------------------------------------------------------------
(* Home's operators.                                                       *)

\* Whether home tells the completion as it ends j, and what it then notes.
Tells(j) == j.pending = 0 /\ (j.dropped \/ j.delta = "none")

\* What home notes of a job as it ends it.
JobOver(e, j, s) ==
  /\ e \in JobType
  /\ e.state = "ended" /\ e.status = s /\ e.transfer = FALSE
  /\ e.dropped = j.dropped /\ e.pending = j.pending
  /\ e.opening = j.opening
  /\ j.pending = 0 => e.ending = j.ending
  /\ j.pending > 0 => e.ending = TRUE
  /\ Tells(j) => /\ e.told = j.told + 1 /\ e.delta = "none"
                 /\ e.hold = IF j.dropped THEN 0 ELSE j.hold
                 /\ ~j.dropped /\ s # "CANCELLED" => e.answer = j.answer
  /\ ~Tells(j) => /\ e.told = j.told /\ e.hold = j.hold
                  /\ e.answer = j.answer
                  /\ e.delta = IF j.pending = 0 THEN "ended" ELSE j.delta

LEMMA HomeEndIs ==
  ASSUME NEW j \in JobType, NEW s \in Status, j.told <= 1
  PROVE  JobOver(End(j, s), j, s)
<1> DEFINE e == [j EXCEPT !.status = s, !.state = "ended", !.transfer = FALSE]
           m == [e EXCEPT !.answer = FALSE, !.delta = "none"]
           t == j.told + 1
           E == End(j, s)
<1>0. j.pending \in 0 .. MaxWrites /\ t \in 0 .. 2 /\ 0 \in 0 .. 1
  BY DEF JobType
<1>1. /\ e \in JobType /\ e.state = "ended" /\ e.status = s /\ e.transfer = FALSE
      /\ e.dropped = j.dropped /\ e.pending = j.pending /\ e.opening = j.opening
      /\ e.ending = j.ending /\ e.told = j.told /\ e.delta = j.delta
      /\ e.hold = j.hold /\ e.answer = j.answer
  BY DEF JobType
<1>2. /\ m \in JobType /\ m.state = "ended" /\ m.status = s /\ m.transfer = FALSE
      /\ m.dropped = j.dropped /\ m.pending = j.pending /\ m.opening = j.opening
      /\ m.ending = j.ending /\ m.told = j.told /\ m.delta = "none"
      /\ m.hold = j.hold
  <2>1. m \in JobType
    BY <1>1 DEF JobType
  <2> HIDE DEF e
  <2> QED BY <1>1, <2>1 DEF JobType
<1> HIDE DEF e, m, t
<1>3. CASE j.pending > 0
  <2>1. E = [e EXCEPT !.ending = TRUE]
    BY <1>0, <1>1, <1>2, <1>3 DEF End, Emptied, e, m, t
  <2>2. E \in JobType
    BY <2>1, <1>0, <1>1, <1>2 DEF JobType
  <2>3. /\ E.state = "ended" /\ E.status = s /\ E.transfer = FALSE
        /\ E.dropped = j.dropped /\ E.pending = j.pending /\ E.opening = j.opening
        /\ E.ending = TRUE /\ E.told = j.told /\ E.delta = j.delta
        /\ E.hold = j.hold /\ E.answer = j.answer
    BY <2>1, <2>2, <1>1, <1>2 DEF JobType
  <2> HIDE DEF E
  <2> QED BY <1>0, <1>3, <2>2, <2>3 DEF JobOver, Tells, t, E
<1>4. CASE j.pending = 0 /\ j.dropped
  <2>1. E = [m EXCEPT !.told = t, !.hold = 0]
    BY <1>0, <1>1, <1>2, <1>4 DEF End, Emptied, e, m, t
  <2>2. E \in JobType
    BY <2>1, <1>0, <1>1, <1>2 DEF JobType
  <2>3. /\ E.state = "ended" /\ E.status = s /\ E.transfer = FALSE
        /\ E.dropped = j.dropped /\ E.pending = j.pending /\ E.opening = j.opening
        /\ E.ending = j.ending /\ E.told = t /\ E.delta = "none" /\ E.hold = 0
    BY <2>1, <2>2, <1>1, <1>2 DEF JobType
  <2> HIDE DEF E
  <2> QED BY <1>0, <1>4, <2>2, <2>3 DEF JobOver, Tells, t, E
<1>5. CASE j.pending = 0 /\ ~j.dropped /\ j.delta # "none"
  <2>1. E = [e EXCEPT !.delta = "ended"]
    BY <1>0, <1>1, <1>2, <1>5 DEF End, Emptied, e, m, t
  <2>2. E \in JobType
    BY <2>1, <1>0, <1>1, <1>2 DEF JobType
  <2>3. /\ E.state = "ended" /\ E.status = s /\ E.transfer = FALSE
        /\ E.dropped = j.dropped /\ E.pending = j.pending /\ E.opening = j.opening
        /\ E.ending = j.ending /\ E.told = j.told /\ E.delta = "ended"
        /\ E.hold = j.hold /\ E.answer = j.answer
    BY <2>1, <2>2, <1>1, <1>2 DEF JobType
  <2> HIDE DEF E
  <2> QED BY <1>0, <1>5, <2>2, <2>3 DEF JobOver, Tells, t, E
<1>6. CASE j.pending = 0 /\ ~j.dropped /\ j.delta = "none" /\ s = "CANCELLED"
  <2>1. E = [m EXCEPT !.told = t]
    BY <1>0, <1>1, <1>2, <1>6 DEF End, Emptied, e, m, t
  <2>2. E \in JobType
    BY <2>1, <1>0, <1>1, <1>2 DEF JobType
  <2>3. /\ E.state = "ended" /\ E.status = s /\ E.transfer = FALSE
        /\ E.dropped = j.dropped /\ E.pending = j.pending /\ E.opening = j.opening
        /\ E.ending = j.ending /\ E.told = t /\ E.delta = "none" /\ E.hold = j.hold
    BY <2>1, <2>2, <1>1, <1>2 DEF JobType
  <2> HIDE DEF E
  <2> QED BY <1>0, <1>6, <2>2, <2>3 DEF JobOver, Tells, t, E
<1>7. CASE j.pending = 0 /\ ~j.dropped /\ j.delta = "none" /\ s # "CANCELLED"
  <2>1. E = [e EXCEPT !.told = t]
    BY <1>0, <1>1, <1>2, <1>7 DEF End, Emptied, e, m, t
  <2>2. E \in JobType
    BY <2>1, <1>0, <1>1, <1>2 DEF JobType
  <2>3. /\ E.state = "ended" /\ E.status = s /\ E.transfer = FALSE
        /\ E.dropped = j.dropped /\ E.pending = j.pending /\ E.opening = j.opening
        /\ E.ending = j.ending /\ E.told = t /\ E.delta = "none"
        /\ E.hold = j.hold /\ E.answer = j.answer
    BY <2>1, <2>2, <1>1, <1>7 DEF JobType
  <2> HIDE DEF E
  <2> QED BY <1>0, <1>7, <2>2, <2>3 DEF JobOver, Tells, t, E
<1>8. j.pending > 0 \/ j.pending = 0
  BY <1>0
<1> QED BY <1>3, <1>4, <1>5, <1>6, <1>7, <1>8, Zenon

\* What home notes of j once the mailbox is back.
Back(r, j) ==
  /\ r \in JobType /\ r.delta = "none" /\ r.status = j.status
  /\ r.dropped = j.dropped /\ r.pending = j.pending
  /\ r.opening = j.opening /\ r.ending = j.ending /\ r.hold = j.hold
  /\ j.delta # "ended" =>
       /\ r.state = j.state /\ r.transfer = j.transfer
       /\ r.told = j.told /\ r.answer = j.answer
  /\ j.delta = "ended" =>
       /\ r.state = "ended" /\ r.transfer = FALSE /\ r.told = j.told + 1
       /\ j.status # "CANCELLED" => r.answer = j.answer

LEMMA ReleasedIs ==
  ASSUME NEW j \in JobType, j.told <= 1, j.delta = "ended" => j.pending = 0 /\ ~j.dropped
  PROVE  Back(Released(j), j)
<1> DEFINE d == [j EXCEPT !.delta = "none"]
<1>1. /\ d \in JobType /\ d.delta = "none" /\ d.status = j.status /\ d.dropped = j.dropped
      /\ d.pending = j.pending /\ d.opening = j.opening /\ d.ending = j.ending
      /\ d.hold = j.hold /\ d.state = j.state /\ d.transfer = j.transfer
      /\ d.told = j.told /\ d.answer = j.answer
  BY DEF JobType
<1>2. j.status \in Status
  BY DEF JobType
<1>3. CASE j.delta = "ended"
  <2>1. Released(j) = End(d, j.status)
    BY <1>3 DEF Released
  <2> HIDE DEF d
  <2>2. Tells(d) /\ d.told <= 1 /\ d.pending = 0 /\ ~d.dropped
    BY <1>1, <1>3 DEF Tells
  <2>3. /\ End(d, j.status) \in JobType
        /\ End(d, j.status).state = "ended" /\ End(d, j.status).status = j.status
        /\ End(d, j.status).transfer = FALSE /\ End(d, j.status).dropped = d.dropped
        /\ End(d, j.status).pending = d.pending /\ End(d, j.status).opening = d.opening
        /\ End(d, j.status).ending = d.ending /\ End(d, j.status).told = d.told + 1
        /\ End(d, j.status).delta = "none" /\ End(d, j.status).hold = d.hold
        /\ j.status # "CANCELLED" => End(d, j.status).answer = d.answer
    BY <1>1, <1>2, <2>2, HomeEndIs DEF JobOver
  <2> QED BY <1>1, <1>3, <2>1, <2>3 DEF Back
<1>4. CASE j.delta # "ended"
  <2>1. Released(j) = d
    BY <1>4 DEF Released
  <2> HIDE DEF d
  <2> QED BY <1>1, <1>4, <2>1 DEF Back
<1> QED BY <1>3, <1>4

LEMMA BecomesIs ==
  ASSUME TypeOK, NEW j \in JobType, NEW n, n + job.hold - j.hold \in 0 .. 2, Becomes(j, n)
  PROVE  /\ TypeOK' /\ job' = j
         /\ home'.loop = home.loop /\ home'.bits = {} /\ home'.hand = n + job.hold - j.hold
         /\ j.told > job.told => PostFront("DONE")
         /\ j.told <= job.told => PostNothing
         /\ UNCHANGED <<place, asks, req, front, runs, draining>>
<1> DEFINE h == n + job.hold - j.hold
<1>1. job' = j /\ UNCHANGED <<place, asks, req, front, runs, draining>>
  BY DEF Becomes
<1>2. home \in Thread(HomeBits) /\ home' = [home EXCEPT !.bits = {}, !.hand = h]
  BY DEF Becomes, TypeOK
<1>3. j.told \in Nat /\ job.told \in Nat
  BY DEF TypeOK, JobType
<1>4. /\ j.told > job.told => PostFront("DONE")
      /\ j.told <= job.told => PostNothing
  BY <1>3 DEF Becomes
<1>5. MailTypes'
  BY <1>3, <1>4, FrontPosted, NothingPosted DEF FrontBits
<1> HIDE DEF h
<1>6. h \in 0 .. 2
  BY DEF h
<1>7. home' \in Thread(HomeBits)
  BY <1>2, <1>6, ThreadBoth
<1>8. home'.loop = home.loop /\ home'.bits = {} /\ home'.hand = h
  BY <1>2 DEF Thread
<1>9. TypeOK'
  BY <1>1, <1>5, <1>7 DEF TypeOK, MailTypes
<1> QED BY <1>1, <1>4, <1>8, <1>9 DEF h

\* The front has drained the mailbox.
LEMMA MailboxBack ==
  ASSUME JobInv, home.loop \in {"run", "fini"}, home.bits = {"DRAIN"}, Becomes(Released(job), 1)
  PROVE  JobInv'
<1> DEFINE r == Released(job)
<1>1. TypeOK /\ Agrees /\ job \in JobType
  BY DEF JobInv, TypeOK
<1>2. job.told <= 1 /\ (job.delta = "ended" => job.pending = 0 /\ ~job.dropped /\ job.told = 0)
  BY <1>1, JobFields DEF Agrees, Noted, FrontLetGo
<1>3. Back(r, job)
  BY <1>1, <1>2, ReleasedIs
<1>4. 1 + job.hold - r.hold = 1 /\ 1 + job.hold - r.hold \in 0 .. 2
  BY <1>1, <1>3, JobFields DEF Back
<1>5. Becomes(r, 1) /\ home.loop \in {"run", "fini"} /\ home.bits = {"DRAIN"}
  OBVIOUS
<1> HIDE DEF r
<1>6. /\ TypeOK' /\ job' = r
      /\ home'.loop = home.loop /\ home'.bits = {} /\ home'.hand = 1
      /\ r.told > job.told => PostFront("DONE")
      /\ r.told <= job.told => PostNothing
      /\ UNCHANGED <<place, asks, req, front, runs, draining>>
  BY <1>1, <1>3, <1>4, <1>5, BecomesIs DEF Back
<1>7. CASE job.delta = "ended"
  <2>1. PostFront("DONE") /\ r.told = 1
    BY <1>1, <1>2, <1>3, <1>6, <1>7, JobFields DEF Back
  <2> QED BY <1>1, <1>2, <1>3, <1>5, <1>6, <1>7, <2>1, JobFields, SMTT(60)
       DEF JobInv, Agrees, Kept, Hands, Counted, SubmitSent, FrontLetGo, Noted, JobTold, Mailbag, Stops,
           PostFront, InFlight, HeldBack, ToHome, ToFront, Back
<1>8. CASE job.delta # "ended"
  <2>1. PostNothing
    BY <1>1, <1>2, <1>3, <1>6, <1>8, JobFields DEF Back
  <2> QED BY <1>1, <1>2, <1>3, <1>5, <1>6, <1>8, <2>1, JobFields, SMTT(60)
       DEF JobInv, Agrees, Kept, Hands, Counted, SubmitSent, FrontLetGo, Noted, JobTold, Mailbag, Stops,
           PostNothing, InFlight, HeldBack, ToHome, ToFront, Back
<1> QED BY <1>7, <1>8

-----------------------------------------------------------------------------
(* The front's steps.                                                      *)

LEMMA FrontKeeps ==
  ASSUME JobInv, \/ Submit \/ Drop \/ Drained \/ FrontTake \/ FrontProgress \/ FrontDone
                 \/ FrontDropped \/ FrontLate \/ FrontStop \/ FrontFini \/ FrontReturned
                 \/ FrontPut
  PROVE  JobInv'
<1>0. TypeOK /\ Agrees
  BY DEF JobInv
<1>t. refs >= front.hand
  BY <1>0, JobFields DEF Agrees, Counted
<1>T. TypeOK'
  BY <1>0, <1>t, FrontTypes
<1>1. ASSUME Submit PROVE Agrees'
  <2>1. /\ refs' = 3 /\ home_bits' = {"SUBMIT"} /\ home_mail' /\ place' = "out"
        /\ req'.state = "waits" /\ ~req'.delta /\ req'.hold = 1
        /\ job' = [Fresh EXCEPT !.hold = 1]
        /\ UNCHANGED <<front_bits, front_mail, front, home, draining>>
    BY <1>1 DEF Submit
  <2>2. /\ place = "shelf" /\ front.loop = "run"
    BY <1>1 DEF Submit, FrontFree
  <2>3. /\ job'.hold = 1 /\ job'.told = 0 /\ job'.pending = 0 /\ job'.state = "none"
        /\ job'.delta = "none" /\ ~job'.dropped /\ ~job'.ending /\ ~job'.transfer
        /\ ~job'.opening /\ job'.status = "none"
    BY <2>1 DEF Fresh
  <2> QED BY <1>0, <2>1, <2>2, <2>3, JobFields, SMTT(60)
       DEF Agrees, Kept, Hands, Counted, SubmitSent, FrontLetGo, Noted, JobTold, Mailbag, Stops,
           InFlight, HeldBack, ToHome, ToFront
<1>2. ASSUME Drop PROVE Agrees'
  <2>1. /\ home_bits' = home_bits \cup {"CANCEL"}
        /\ IF home_bits = {} THEN home_mail' = TRUE /\ refs' = refs + 1
                             ELSE UNCHANGED <<home_mail, refs>>
        /\ UNCHANGED <<front_bits, front_mail, place, asks, job, home, runs, draining>>
        /\ front.loop = "run" /\ front.bits = {} /\ front.hand = 0 /\ req.state # "none"
    BY <1>2 DEF Drop, PostHome, FrontFree
  <2>2. CASE req.state = "waits"
    <3>1. req'.state = "none" /\ ~req'.delta /\ req'.hold = req.hold /\ front' = front
      BY <1>0, <1>2, <2>2 DEF Drop, TypeOK, ReqType
    <3> QED BY <1>0, <2>1, <2>2, <3>1, JobFields, SMTT(60)
       DEF Agrees, Kept, Hands, Counted, SubmitSent, FrontLetGo, Noted, JobTold, Mailbag, Stops,
           InFlight, HeldBack, ToHome, ToFront
  <2>3. CASE req.state = "reads"
    <3>1. /\ req' = NoReq /\ req'.state = "none" /\ ~req'.delta /\ req'.hold = 0
          /\ front'.bits = {} /\ front'.hand = 1 /\ front'.loop = front.loop
      BY <1>0, <1>2, <2>1, <2>3 DEF Drop, TypeOK, NoReq, Thread
    <3> QED BY <1>0, <2>1, <2>3, <3>1, JobFields, SMTT(60)
       DEF Agrees, Kept, Hands, Counted, SubmitSent, FrontLetGo, Noted, JobTold, Mailbag, Stops,
           InFlight, HeldBack, ToHome, ToFront
  <2> QED BY <1>0, <2>1, <2>2, <2>3, JobFields
<1>3. ASSUME Drained PROVE Agrees'
  <2>1. /\ home_bits' = home_bits \cup {"DRAIN"}
        /\ IF home_bits = {} THEN home_mail' = TRUE /\ refs' = refs + 1
                             ELSE UNCHANGED <<home_mail, refs>>
        /\ UNCHANGED <<front_bits, front_mail, place, asks, job, front, home, runs, draining>>
        /\ front.loop = "run" /\ front.bits = {} /\ front.hand = 0 /\ req.delta
    BY <1>3 DEF Drained, PostHome, FrontFree
  <2>2. req'.state = req.state /\ ~req'.delta /\ req'.hold = req.hold
    BY <1>0, <1>3 DEF Drained, TypeOK, ReqType
  <2> QED BY <1>0, <2>1, <2>2, JobFields, SMTT(60)
       DEF Agrees, Kept, Hands, Counted, SubmitSent, FrontLetGo, Noted, JobTold, Mailbag, Stops,
           InFlight, HeldBack, ToHome, ToFront
<1>4. ASSUME FrontTake PROVE Agrees'
  <2>1. /\ front.bits = {} /\ front.hand = 0 /\ front_mail /\ front.loop \in {"run", "fini"}
        /\ front_bits' = {} /\ ~front_mail'
        /\ UNCHANGED <<place, refs, home_bits, home_mail, asks, req, job, home, runs, draining>>
    BY <1>4 DEF FrontTake
  <2>2. /\ front'.bits = front_bits /\ front'.loop = front.loop
        /\ front'.hand = IF "RETURN" \in front_bits THEN 0 ELSE 1
    BY <1>0, <1>4 DEF FrontTake, TypeOK, Thread
  <2> QED BY <1>0, <2>1, <2>2, JobFields, SMTT(60)
       DEF Agrees, Kept, Hands, Counted, SubmitSent, FrontLetGo, Noted, JobTold, Mailbag, Stops,
           InFlight, HeldBack, ToHome, ToFront
<1>5. ASSUME FrontProgress PROVE Agrees'
  <2>1. /\ front.loop = "run" /\ front.bits # {}
        /\ "RETURN" \notin front.bits /\ "DONE" \notin front.bits
        /\ UNCHANGED <<place, asks, job, home, runs, draining>>
    BY <1>5 DEF FrontProgress
  <2>2. front'.bits = {} /\ front'.hand = front.hand /\ front'.loop = front.loop
    BY <1>0, <1>5 DEF FrontProgress, TypeOK, Thread
  <2>3. CASE "DELTA" \in front.bits /\ req.state = "waits" /\ req' = [req EXCEPT !.delta = TRUE]
             /\ PostNothing
    <3>1. req'.state = req.state /\ req'.delta /\ req'.hold = req.hold
      BY <1>0, <2>3 DEF TypeOK, ReqType
    <3>2. UNCHANGED <<refs, home_bits, home_mail, front_bits, front_mail>>
      BY <2>3 DEF PostNothing
    <3> QED BY <1>0, <2>1, <2>2, <2>3, <3>1, <3>2, JobFields, SMTT(60)
       DEF Agrees, Kept, Hands, Counted, SubmitSent, FrontLetGo, Noted, JobTold, Mailbag, Stops,
           InFlight, HeldBack, ToHome, ToFront
  <2>4. CASE "DELTA" \in front.bits /\ req.state = "waits" /\ PostHome("DRAIN") /\ req' = req
    <3>1. /\ home_bits' = home_bits \cup {"DRAIN"}
          /\ IF home_bits = {} THEN home_mail' = TRUE /\ refs' = refs + 1
                               ELSE UNCHANGED <<home_mail, refs>>
          /\ UNCHANGED <<front_bits, front_mail>>
      BY <2>4 DEF PostHome
    <3> QED BY <1>0, <2>1, <2>2, <2>4, <3>1, JobFields, SMTT(60)
       DEF Agrees, Kept, Hands, Counted, SubmitSent, FrontLetGo, Noted, JobTold, Mailbag, Stops,
           InFlight, HeldBack, ToHome, ToFront
  <2>5. CASE ~("DELTA" \in front.bits /\ req.state = "waits") /\ req' = req /\ PostNothing
    <3>1. UNCHANGED <<refs, home_bits, home_mail, front_bits, front_mail>>
      BY <2>5 DEF PostNothing
    <3> QED BY <1>0, <2>1, <2>2, <2>5, <3>1, JobFields, SMTT(60)
       DEF Agrees, Kept, Hands, Counted, SubmitSent, FrontLetGo, Noted, JobTold, Mailbag, Stops,
           InFlight, HeldBack, ToHome, ToFront
  <2> QED BY <1>5, <2>3, <2>4, <2>5 DEF FrontProgress
<1>6. ASSUME FrontDone PROVE Agrees'
  <2>1. /\ front.loop = "run" /\ "DONE" \in front.bits /\ req.state = "waits"
        /\ UNCHANGED <<place, asks, job, home, runs, draining>>
        /\ UNCHANGED <<refs, home_bits, home_mail, front_bits, front_mail>>
    BY <1>6 DEF FrontDone, PostNothing
  <2>2. front'.bits = {} /\ front'.hand = front.hand /\ front'.loop = front.loop
    BY <1>0, <1>6 DEF FrontDone, TypeOK, Thread
  <2>3. req'.state = "reads" /\ req'.delta = req.delta /\ req'.hold = req.hold
    BY <1>0, <1>6 DEF FrontDone, TypeOK, ReqType
  <2> QED BY <1>0, <2>1, <2>2, <2>3, JobFields, SMTT(60)
       DEF Agrees, Kept, Hands, Counted, SubmitSent, FrontLetGo, Noted, JobTold, Mailbag, Stops,
           InFlight, HeldBack, ToHome, ToFront
<1>7. ASSUME FrontDropped PROVE Agrees'
  <2>1. /\ front.loop = "run" /\ "DONE" \in front.bits /\ req.state # "waits"
        /\ UNCHANGED <<place, asks, job, home, runs, draining>>
        /\ UNCHANGED <<refs, home_bits, home_mail, front_bits, front_mail>>
    BY <1>7 DEF FrontDropped, PostNothing
  <2>2. front'.bits = {} /\ front'.hand = 2 /\ front'.loop = front.loop
    BY <1>0, <1>7 DEF FrontDropped, TypeOK, Thread
  <2>3. req'.state = req.state /\ req'.delta = req.delta /\ req'.hold = 0
    BY <1>0, <1>7 DEF FrontDropped, TypeOK, ReqType
  <2> QED BY <1>0, <2>1, <2>2, <2>3, JobFields, SMTT(60)
       DEF Agrees, Kept, Hands, Counted, SubmitSent, FrontLetGo, Noted, JobTold, Mailbag, Stops,
           InFlight, HeldBack, ToHome, ToFront
<1>8. ASSUME FrontLate PROVE Agrees'
  <2>1. /\ front.loop = "fini" /\ front.bits # {} /\ "RETURN" \notin front.bits
        /\ UNCHANGED <<place, asks, job, home, runs, draining>>
        /\ UNCHANGED <<refs, home_bits, home_mail, front_bits, front_mail>>
    BY <1>8 DEF FrontLate, PostNothing
  <2>2. CASE "DONE" \in front.bits
    <3>1. front'.bits = {} /\ front'.hand = 2 /\ front'.loop = front.loop
      BY <1>0, <1>8, <2>2 DEF FrontLate, TypeOK, Thread
    <3>2. req'.state = req.state /\ req'.delta = req.delta /\ req'.hold = 0
      BY <1>0, <1>8, <2>2 DEF FrontLate, TypeOK, ReqType
    <3> QED BY <1>0, <2>1, <2>2, <3>1, <3>2, JobFields, SMTT(60)
       DEF Agrees, Kept, Hands, Counted, SubmitSent, FrontLetGo, Noted, JobTold, Mailbag, Stops,
           InFlight, HeldBack, ToHome, ToFront
  <2>3. CASE "DONE" \notin front.bits
    <3>1. front'.bits = {} /\ front'.hand = front.hand /\ front'.loop = front.loop
      BY <1>0, <1>8, <2>3 DEF FrontLate, TypeOK, Thread
    <3>2. req' = req
      BY <1>8, <2>3 DEF FrontLate
    <3> QED BY <1>0, <2>1, <2>3, <3>1, <3>2, JobFields, SMTT(60)
       DEF Agrees, Kept, Hands, Counted, SubmitSent, FrontLetGo, Noted, JobTold, Mailbag, Stops,
           InFlight, HeldBack, ToHome, ToFront
  <2> QED BY <2>2, <2>3
<1>9. ASSUME FrontStop PROVE Agrees'
  <2>1. /\ front.loop = "run" /\ front.bits = {} /\ front.hand = 0 /\ req.state = "none"
        /\ place' = IF place = "shelf" THEN "freed" ELSE place
        /\ UNCHANGED <<asks, req, job, home, runs, draining>>
        /\ UNCHANGED <<refs, home_bits, home_mail, front_bits, front_mail>>
    BY <1>9 DEF FrontStop, FrontFree, PostNothing
  <2>2. front'.bits = {} /\ front'.hand = 0 /\ front'.loop = "exit"
    BY <1>0, <1>9, <2>1 DEF FrontStop, TypeOK, Thread
  <2>3. place \in {"shelf", "out", "freed"}
    BY <1>0 DEF TypeOK
  <2> QED BY <1>0, <2>1, <2>2, <2>3, JobFields, SMTT(60)
       DEF Agrees, Kept, Hands, Counted, SubmitSent, FrontLetGo, Noted, JobTold, Mailbag, Stops,
           InFlight, HeldBack, ToHome, ToFront
<1>10. ASSUME FrontFini PROVE Agrees'
  <2>1. /\ front.bits = {} /\ front.hand = 0 /\ home.loop = "gone"
        /\ UNCHANGED <<place, asks, req, job, home, runs, draining>>
        /\ UNCHANGED <<refs, home_bits, home_mail, front_bits, front_mail>>
    BY <1>10 DEF FrontFini, PostNothing
  <2>2. /\ front'.bits = {} /\ front'.hand = 0
        /\ \/ front.loop = "exit" /\ front'.loop = "fini"
           \/ front.loop = "fini" /\ ~front_mail /\ front'.loop = "gone"
    BY <1>0, <1>10, <2>1 DEF FrontFini, TypeOK, Thread
  <2>3. place \in {"shelf", "out", "freed"}
    BY <1>0 DEF TypeOK
  <2> QED BY <1>0, <2>1, <2>2, <2>3, JobFields, SMTT(60)
       DEF Agrees, Kept, Hands, Counted, SubmitSent, FrontLetGo, Noted, JobTold, Mailbag, Stops,
           InFlight, HeldBack, ToHome, ToFront
<1>11. ASSUME FrontReturned PROVE Agrees'
  <2>1. /\ "RETURN" \in front.bits
        /\ place' = IF front.loop = "fini" THEN "freed" ELSE "shelf"
        /\ job' = Fresh
        /\ UNCHANGED <<asks, req, home, runs, draining>>
        /\ UNCHANGED <<refs, home_bits, home_mail, front_bits, front_mail>>
    BY <1>11 DEF FrontReturned, Shelve, PostNothing
  <2>2. front'.bits = {} /\ front'.hand = front.hand /\ front'.loop = front.loop
    BY <1>0, <1>11 DEF FrontReturned, TypeOK, Thread
  <2>3. /\ job'.hold = 0 /\ job'.told = 0 /\ job'.pending = 0 /\ job'.state = "none"
        /\ job'.delta = "none" /\ ~job'.dropped /\ ~job'.ending /\ ~job'.transfer
        /\ ~job'.opening /\ job'.status = "none"
    BY <2>1 DEF Fresh
  <2>4. req = NoReq
    BY <1>0, <2>1, JobFields, SMTT(60)
       DEF Agrees, Kept, Hands, Counted, SubmitSent, FrontLetGo, Noted, JobTold, Mailbag, Stops,
           InFlight, HeldBack, ToHome, ToFront, TypeOK, ReqType, NoReq
  <2> QED BY <1>0, <2>1, <2>2, <2>3, <2>4, JobFields, SMTT(60)
       DEF Agrees, Kept, Hands, Counted, SubmitSent, FrontLetGo, Noted, JobTold, Mailbag, Stops,
           InFlight, HeldBack, ToHome, ToFront
<1>12. ASSUME FrontPut PROVE Agrees'
  <2>1. /\ front.bits = {} /\ front.hand > 0 /\ refs' = refs - front.hand
        /\ UNCHANGED <<home_bits, home_mail, front_bits, front_mail, asks, req, home,
                       runs, draining>>
    BY <1>12 DEF FrontPut
  <2>2. front'.bits = {} /\ front'.hand = 0 /\ front'.loop = front.loop
    BY <1>0, <1>12, <2>1 DEF FrontPut, TypeOK, Thread
  <2>3. CASE refs # front.hand
    <3>1. place' = place /\ job' = job
      BY <1>12, <2>3 DEF FrontPut
    <3> QED BY <1>0, <2>1, <2>2, <2>3, <3>1, JobFields, SMTT(60)
       DEF Agrees, Kept, Hands, Counted, SubmitSent, FrontLetGo, Noted, JobTold, Mailbag, Stops,
           InFlight, HeldBack, ToHome, ToFront
  <2>4. CASE refs = front.hand
    <3>1. /\ place' = IF front.loop = "fini" THEN "freed" ELSE "shelf"
          /\ job' = Fresh
      BY <1>12, <2>4 DEF FrontPut, Shelve
    <3>2. /\ job'.hold = 0 /\ job'.told = 0 /\ job'.pending = 0 /\ job'.state = "none"
          /\ job'.delta = "none" /\ ~job'.dropped /\ ~job'.ending /\ ~job'.transfer
          /\ ~job'.opening /\ job'.status = "none"
      BY <3>1 DEF Fresh
    <3>3. req = NoReq
      BY <1>0, <2>1, <2>4, JobFields, SMTT(60)
       DEF Agrees, Kept, Hands, Counted, SubmitSent, FrontLetGo, Noted, JobTold, Mailbag, Stops,
           InFlight, HeldBack, ToHome, ToFront, TypeOK, ReqType, NoReq
    <3>4. /\ ToHome = {} /\ ToFront = {} /\ home.hand = 0 /\ place = "out"
          /\ ~home_mail /\ ~front_mail
      BY <1>0, <2>1, <2>4, JobFields, SMTT(60)
       DEF Agrees, Kept, Hands, Counted, SubmitSent, FrontLetGo, Noted, JobTold, Mailbag, Stops,
           InFlight, HeldBack, ToHome, ToFront
    <3>5. req.state = "none" /\ ~req.delta /\ req.hold = 0
      BY <3>3 DEF NoReq
    <3>6. place' # "out" /\ ToHome' = {} /\ ToFront' = {} /\ refs' = 0
      BY <2>1, <2>2, <2>4, <3>1, <3>4, JobFields, <1>0 DEF ToHome, ToFront
    <3>7. Kept' /\ Hands'
      BY <1>0, <2>1, <2>2, <3>1, <3>3, <3>4, <3>6 DEF Agrees, Kept, Hands, ToHome, ToFront
    <3>8. Counted' /\ SubmitSent' /\ FrontLetGo'
      BY <1>0, <2>1, <2>2, <3>2, <3>4, <3>5, <3>6 DEF Counted, SubmitSent, FrontLetGo, ToHome, InFlight
    <3>9. Noted' /\ JobTold' /\ Mailbag'
      BY <1>0, <2>1, <2>2, <3>2, <3>4, <3>5, <3>6 DEF Noted, JobTold, Mailbag, HeldBack, ToFront
    <3>10. Stops'
      BY <1>0, <2>1, <2>2, <2>4, <3>1, <3>2, <3>4, <3>5, <3>6, JobFields DEF Agrees, Stops, InFlight
    <3> QED BY <3>7, <3>8, <3>9, <3>10 DEF Agrees
  <2> QED BY <2>3, <2>4
<1> QED BY <1>T, <1>1, <1>2, <1>3, <1>4, <1>5, <1>6, <1>7, <1>8, <1>9, <1>10, <1>11, <1>12
     DEF JobInv

-----------------------------------------------------------------------------
(* Home's steps.                                                           *)

LEMMA HomeMailKeeps ==
  ASSUME JobInv, HomeTake \/ HomePut \/ HomeProgress \/ HomeStop \/ HomeFini \/ Drain
  PROVE  JobInv'
<1>0. TypeOK /\ Agrees
  BY DEF JobInv
<1>t. home \in Thread(HomeBits)
  BY <1>0 DEF TypeOK
<1>1. ASSUME HomeTake PROVE JobInv'
  <2>1. /\ home.bits = {} /\ home.hand = 0 /\ home_mail /\ home.loop \in {"run", "fini"}
        /\ home_bits' = {} /\ home_mail' = FALSE
        /\ UNCHANGED <<place, refs, front_bits, front_mail, asks, req, job, front, runs, draining>>
    BY <1>1 DEF HomeTake
  <2>2. /\ home'.bits = home_bits /\ home'.loop = home.loop /\ home'.hand = 1
    BY <1>t, <1>1 DEF HomeTake, Thread
  <2>3. home' \in Thread(HomeBits)
    BY <1>0, <1>t, <1>1, Small, ThreadBoth DEF HomeTake, TypeOK
  <2>4. TypeOK'
    BY <1>0, <2>1, <2>3 DEF TypeOK
  <2>5. Agrees'
    BY <1>0, <2>1, <2>2, JobFields, SMTT(60)
       DEF Agrees, Kept, Hands, Counted, SubmitSent, FrontLetGo, Noted, JobTold, Mailbag, Stops,
           InFlight, HeldBack, ToHome, ToFront
  <2> QED BY <2>4, <2>5 DEF JobInv
<1>2. ASSUME HomePut PROVE JobInv'
  <2>1. /\ home.bits = {} /\ home.hand > 0 /\ refs' = refs - home.hand
        /\ IF refs = home.hand
           THEN front_bits' = {"RETURN"} /\ front_mail' = TRUE
           ELSE UNCHANGED <<front_bits, front_mail>>
        /\ UNCHANGED <<place, home_bits, home_mail, asks, req, job, front, runs, draining>>
    BY <1>2 DEF HomePut
  <2>2. home'.bits = {} /\ home'.hand = 0 /\ home'.loop = home.loop
    BY <1>t, <1>2, <2>1 DEF HomePut, Thread
  <2>3. home' \in Thread(HomeBits)
    BY <1>t, <1>2, Small, ThreadHand DEF HomePut
  <2>4. refs' \in Nat
    BY <1>0, <2>1, JobFields DEF Agrees, Counted
  <2>5. front_bits' \in SUBSET FrontBits
    BY <1>0, <2>1 DEF TypeOK, FrontBits
  <2>6. front_mail' \in BOOLEAN
    BY <1>0, <2>1 DEF TypeOK
  <2>7. TypeOK'
    BY <1>0, <2>1, <2>3, <2>4, <2>5, <2>6 DEF TypeOK
  <2>8. CASE refs # home.hand
    <3>1. Agrees'
      BY <1>0, <2>1, <2>2, <2>8, JobFields, SMTT(60)
       DEF Agrees, Kept, Hands, Counted, SubmitSent, FrontLetGo, Noted, JobTold, Mailbag, Stops,
           InFlight, HeldBack, ToHome, ToFront
    <3> QED BY <2>7, <3>1 DEF JobInv
  <2>9. CASE refs = home.hand
    <3>1. Agrees'
      BY <1>0, <2>1, <2>2, <2>9, JobFields, SMTT(60)
       DEF Agrees, Kept, Hands, Counted, SubmitSent, FrontLetGo, Noted, JobTold, Mailbag, Stops,
           InFlight, HeldBack, ToHome, ToFront
    <3> QED BY <2>7, <3>1 DEF JobInv
  <2> QED BY <2>8, <2>9
<1>3. ASSUME HomeProgress PROVE JobInv'
  <2>1. /\ home.loop = "run" /\ home.bits = {} /\ home.hand = 0 /\ InFlight /\ ~job.dropped
        /\ UNCHANGED <<place, asks, req, job, front, home, runs, draining>>
        /\ PostFront("PROGRESS")
    BY <1>3 DEF HomeProgress, HomeFree
  <2>2. TypeOK'
    BY <1>0, <2>1, FrontPosted DEF TypeOK, MailTypes, FrontBits
  <2>3. place = "out" /\ job.hold = 1 /\ "RETURN" \notin ToFront /\ "SUBMIT" \notin ToHome
    BY <1>0, <2>1, JobFields DEF Agrees, Kept, Counted, SubmitSent, FrontLetGo, Fresh, InFlight
  <2>4. Agrees'
    BY <1>0, <2>1, <2>3, JobFields, SMTT(60)
       DEF Agrees, Kept, Hands, Counted, SubmitSent, FrontLetGo, Noted, JobTold, Mailbag, Stops,
           InFlight, HeldBack, ToHome, ToFront, PostFront
  <2> QED BY <2>2, <2>4 DEF JobInv
<1>4. ASSUME HomeStop PROVE JobInv'
  <2>1. /\ home.loop = "run" /\ home.bits = {} /\ home.hand = 0 /\ front.loop = "exit"
        /\ ~InFlight /\ job.pending = 0
        /\ UNCHANGED <<place, asks, req, job, front, runs, draining>>
        /\ UNCHANGED <<refs, home_bits, home_mail, front_bits, front_mail>>
    BY <1>4 DEF HomeStop, HomeFree, PostNothing
  <2>2. home'.bits = {} /\ home'.hand = 0 /\ home'.loop = "exit"
    BY <1>t, <1>4, <2>1 DEF HomeStop, Thread
  <2>3. home' \in Thread(HomeBits)
    BY <1>t, <1>4, ThreadLoop DEF HomeStop
  <2>4. TypeOK'
    BY <1>0, <2>1, <2>3 DEF TypeOK
  <2>5. Agrees'
    BY <1>0, <2>1, <2>2, JobFields, SMTT(60)
       DEF Agrees, Kept, Hands, Counted, SubmitSent, FrontLetGo, Noted, JobTold, Mailbag, Stops,
           InFlight, HeldBack, ToHome, ToFront
  <2> QED BY <2>4, <2>5 DEF JobInv
<1>5. ASSUME HomeFini PROVE JobInv'
  <2>1. /\ home.bits = {} /\ home.hand = 0
        /\ UNCHANGED <<place, asks, req, job, front, runs, draining>>
        /\ UNCHANGED <<refs, home_bits, home_mail, front_bits, front_mail>>
    BY <1>5 DEF HomeFini, PostNothing
  <2>2. /\ home'.bits = {} /\ home'.hand = 0
        /\ \/ home.loop = "exit" /\ home'.loop = "fini"
           \/ home.loop = "fini" /\ ~home_mail /\ home'.loop = "gone"
    BY <1>t, <1>5, <2>1 DEF HomeFini, Thread
  <2>3. home' \in Thread(HomeBits)
    <3>1. PICK l \in {"fini", "gone"} : home' = [home EXCEPT !.loop = l]
      BY <1>5 DEF HomeFini
    <3> QED BY <1>t, <3>1, ThreadLoop
  <2>4. TypeOK'
    BY <1>0, <2>1, <2>3 DEF TypeOK
  <2>5. Agrees'
    BY <1>0, <2>1, <2>2, JobFields, SMTT(60)
       DEF Agrees, Kept, Hands, Counted, SubmitSent, FrontLetGo, Noted, JobTold, Mailbag, Stops,
           InFlight, HeldBack, ToHome, ToFront
  <2> QED BY <2>4, <2>5 DEF JobInv
<1>6. ASSUME Drain PROVE JobInv'
  <2>1. /\ draining' = TRUE
        /\ UNCHANGED <<place, refs, home_bits, home_mail, front_bits, front_mail, asks, req,
                       job, front, home, runs>>
    BY <1>6 DEF Drain
  <2>2. TypeOK'
    BY <1>0, <2>1 DEF TypeOK
  <2>3. Kept' /\ Hands' /\ Counted' /\ SubmitSent'
    BY <1>0, <2>1 DEF Agrees, Kept, Hands, Counted, SubmitSent, ToHome, ToFront
  <2>4. FrontLetGo' /\ Noted' /\ JobTold'
    BY <1>0, <2>1 DEF Agrees, FrontLetGo, Noted, JobTold, ToHome, ToFront, HeldBack, InFlight
  <2>5. Mailbag' /\ Stops'
    BY <1>0, <2>1 DEF Agrees, Mailbag, Stops, ToHome, ToFront, InFlight
  <2> QED BY <2>2, <2>3, <2>4, <2>5 DEF JobInv, Agrees
<1> QED BY <1>1, <1>2, <1>3, <1>4, <1>5, <1>6

\* A job in flight is out with home, which has told nothing yet.
LEMMA HomeWorking ==
  ASSUME JobInv, InFlight
  PROVE  /\ place = "out" /\ job.hold = 1 /\ job.told = 0 /\ ~job.ending /\ job.status = "none"
         /\ job.delta # "ended"
         /\ "RETURN" \notin ToFront /\ "DONE" \notin ToFront /\ "SUBMIT" \notin ToHome
BY JobFields DEF JobInv, Agrees, Kept, Counted, SubmitSent, FrontLetGo, Noted, JobTold, Fresh, InFlight

LEMMA HomeFinishKeeps ==
  ASSUME JobInv, HomeFree, InFlight, NEW s \in {"ANSWERED", "FAILED", "CANCELLED"},
         NEW a \in BOOLEAN, s # "CANCELLED" => a, Finish(s, a)
  PROVE  JobInv'
<1> DEFINE k == [job EXCEPT !.answer = a]
           e == End(k, s)
<1>1. TypeOK /\ Agrees /\ job \in JobType
  BY DEF JobInv, TypeOK
<1>2. /\ k \in JobType /\ k.answer = a /\ k.pending = job.pending /\ k.told = job.told
      /\ k.dropped = job.dropped /\ k.delta = job.delta /\ k.hold = job.hold
      /\ k.ending = job.ending /\ k.opening = job.opening
  BY <1>1 DEF JobType
<1>3. /\ place = "out" /\ job.hold = 1 /\ job.told = 0 /\ ~job.ending /\ job.status = "none"
      /\ job.delta # "ended"
      /\ "RETURN" \notin ToFront /\ "DONE" \notin ToFront /\ "SUBMIT" \notin ToHome
  BY HomeWorking
<1>4. home.loop = "run" /\ home.bits = {} /\ home.hand = 0
  BY DEF HomeFree
<1>5. Becomes(e, 0)
  BY DEF Finish
<1> HIDE DEF k
<1>6. JobOver(e, k, s)
  BY <1>2, <1>3, HomeEndIs DEF Status
<1> HIDE DEF e
<1>7. e \in JobType /\ 0 + job.hold - e.hold \in 0 .. 2 /\ e.hold \in 0 .. 1
  BY <1>2, <1>3, <1>6 DEF JobOver, Tells, JobType
<1>8. /\ TypeOK' /\ job' = e
      /\ home'.loop = home.loop /\ home'.bits = {} /\ home'.hand = 1 - e.hold
      /\ e.told > job.told => PostFront("DONE")
      /\ e.told <= job.told => PostNothing
      /\ UNCHANGED <<place, asks, req, front, runs, draining>>
  BY <1>1, <1>3, <1>5, <1>7, BecomesIs
<1>9. CASE Tells(k)
  <2>1. /\ e.told = 1 /\ PostFront("DONE") /\ job.pending = 0
        /\ e.hold = IF job.dropped THEN 0 ELSE 1
        /\ job.delta = "none" \/ job.dropped
    BY <1>2, <1>3, <1>6, <1>8, <1>9 DEF JobOver, Tells
  <2> QED BY <1>1, <1>2, <1>3, <1>4, <1>6, <1>8, <1>9, <2>1, JobFields, SMTT(60)
       DEF Agrees, Kept, Hands, Counted, SubmitSent, FrontLetGo, Noted, JobTold, Mailbag, Stops,
           InFlight, HeldBack, ToHome, ToFront, JobOver, JobInv, PostFront
<1>10. CASE ~Tells(k)
  <2>1. /\ e.told = 0 /\ PostNothing /\ e.hold = 1 /\ home'.hand = 0
    BY <1>2, <1>3, <1>6, <1>8, <1>10 DEF JobOver, Tells
  <2>2. job.pending > 0 \/ (job.pending = 0 /\ ~job.dropped /\ job.delta # "none")
    BY <1>1, <1>2, <1>10, JobFields DEF Tells
  <2> QED BY <1>1, <1>2, <1>3, <1>4, <1>6, <1>8, <1>10, <2>1, <2>2, JobFields, SMTT(60)
       DEF Agrees, Kept, Hands, Counted, SubmitSent, FrontLetGo, Noted, JobTold, Mailbag, Stops,
           InFlight, HeldBack, ToHome, ToFront, JobOver, JobInv, PostNothing
<1> QED BY <1>9, <1>10

\* The steps and callbacks of home's that end a job in flight.
LEMMA FinishesKeep ==
  ASSUME JobInv, HomeRead \/ HomeExpire \/ HomeCancel
  PROVE  JobInv'
<1>1. job.answer \in BOOLEAN
  BY JobFields DEF JobInv
<1>2. CASE HomeRead
  BY <1>2, HomeFinishKeeps DEF HomeRead, InFlight
<1>3. CASE HomeExpire
  BY <1>1, <1>3, HomeFinishKeeps DEF HomeExpire
<1>4. CASE HomeCancel
  BY <1>1, <1>4, HomeFinishKeeps DEF HomeCancel
<1> QED BY <1>2, <1>3, <1>4

LEMMA DeliveredKeeps ==
  ASSUME JobInv, HomeDelivered
  PROVE  JobInv'
<1>1. TypeOK /\ Agrees /\ job \in JobType
  BY DEF JobInv, TypeOK
<1>2. HomeFree /\ job.transfer /\ InFlight
  BY <1>1 DEF HomeDelivered, Agrees, Noted, InFlight
<1>3. CASE \E s \in {"ANSWERED", "FAILED"} : Finish(s, TRUE)
  BY <1>2, <1>3, HomeFinishKeeps
<1>4. CASE /\ job' = [job EXCEPT !.transfer = FALSE, !.deferred = job.pending > 0]
           /\ PostNothing
           /\ UNCHANGED <<place, asks, req, front, home, runs, draining>>
  <2>1. PICK d \in BOOLEAN : job' = [job EXCEPT !.transfer = FALSE, !.deferred = d]
    BY <1>4, (job.pending > 0) \in BOOLEAN
  <2>2. /\ job' \in JobType /\ ~job'.transfer /\ job'.state = job.state /\ job'.told = job.told
        /\ job'.dropped = job.dropped /\ job'.delta = job.delta /\ job'.pending = job.pending
        /\ job'.opening = job.opening /\ job'.ending = job.ending /\ job'.hold = job.hold
        /\ job'.status = job.status /\ job'.answer = job.answer
    BY <1>1, <2>1 DEF JobType
  <2>3. place = "out" /\ "SUBMIT" \notin ToHome
    BY <1>2, HomeWorking
  <2>4. UNCHANGED <<refs, home_bits, home_mail, front_bits, front_mail>>
    BY <1>4 DEF PostNothing
  <2>5. TypeOK'
    BY <1>1, <1>4, <2>2, <2>4 DEF TypeOK
  <2>6. Agrees'
    BY <1>1, <1>2, <1>4, <2>2, <2>3, <2>4, JobFields, SMTT(60)
       DEF Agrees, Kept, Hands, Counted, SubmitSent, FrontLetGo, Noted, JobTold, Mailbag, Stops,
           InFlight, HeldBack, ToHome, ToFront
  <2> QED BY <2>5, <2>6 DEF JobInv
<1> QED BY <1>3, <1>4 DEF HomeDelivered

\* The steps of home's that move a job in flight on.
LEMMA HomeStartKeeps ==
  ASSUME JobInv, HomeStart
  PROVE  JobInv'
<1>1. TypeOK /\ Agrees /\ job \in JobType
  BY DEF JobInv, TypeOK
<1>2. /\ home.bits = {} /\ home.hand = 0 /\ home.loop = "run" /\ job.state = "queued"
      /\ UNCHANGED <<place, home_bits, home_mail, front_bits, front_mail, asks, req,
                     front, home, runs, draining>>
  BY DEF HomeStart, HomeFree
<1>3. /\ place = "out" /\ job.hold = 1 /\ job.told = 0 /\ "RETURN" \notin ToFront
      /\ "SUBMIT" \notin ToHome
  BY <1>2, HomeWorking DEF InFlight
<1>4. job.pending = 0 /\ ~job.opening /\ job.delta = "none" /\ job.status = "none"
  BY <1>1, <1>2, JobFields DEF Agrees, Noted
<1>5. CASE asks.journal
  <2>1. PICK n \in {1, 2} :
          /\ n <= MaxWrites /\ refs' = refs + n
          /\ job' = [Archive(job, n) EXCEPT !.state = "running", !.opening = TRUE]
    BY <1>5 DEF HomeStart
  <2> DEFINE a == [job EXCEPT !.pending = n]
  <2>2. Archive(job, n) = a /\ n \in 0 .. MaxWrites
    BY <1>4, <2>1, WritesAssumption DEF Archive
  <2>3. /\ a \in JobType /\ a.pending = n /\ a.transfer = job.transfer /\ a.told = job.told
        /\ a.dropped = job.dropped /\ a.delta = job.delta /\ a.ending = job.ending
        /\ a.hold = job.hold /\ a.status = job.status
    BY <1>1, <2>2 DEF JobType
  <2> HIDE DEF a
  <2>4. /\ job' \in JobType /\ job'.pending = n /\ job'.transfer = job.transfer
        /\ job'.told = job.told /\ job'.dropped = job.dropped /\ job'.delta = job.delta
        /\ job'.ending = job.ending /\ job'.hold = job.hold /\ job'.status = job.status
        /\ job'.state = "running" /\ job'.opening = TRUE
    BY <2>1, <2>2, <2>3 DEF JobType
  <2>5. refs' \in Nat
    BY <1>1, <2>1, JobFields
  <2>6. TypeOK'
    BY <1>1, <1>2, <2>4, <2>5 DEF TypeOK
  <2>7. Agrees'
    BY <1>1, <1>2, <1>3, <1>4, <2>1, <2>4, <2>5, JobFields, SMTT(60)
       DEF Agrees, Kept, Hands, Counted, SubmitSent, FrontLetGo, Noted, JobTold, Mailbag, Stops,
           InFlight, HeldBack, ToHome, ToFront
  <2> QED BY <2>6, <2>7 DEF JobInv
<1>6. CASE ~asks.journal
  <2>1. refs' = refs /\ job' = [job EXCEPT !.state = "running", !.transfer = TRUE]
    BY <1>6 DEF HomeStart
  <2>2. /\ job' \in JobType /\ job'.pending = job.pending /\ job'.transfer = TRUE
        /\ job'.told = job.told /\ job'.dropped = job.dropped /\ job'.delta = job.delta
        /\ job'.ending = job.ending /\ job'.hold = job.hold /\ job'.status = job.status
        /\ job'.state = "running" /\ job'.opening = job.opening
    BY <1>1, <2>1 DEF JobType
  <2>3. TypeOK'
    BY <1>1, <1>2, <2>1, <2>2 DEF TypeOK
  <2>4. Agrees'
    BY <1>1, <1>2, <1>3, <1>4, <2>1, <2>2, JobFields, SMTT(60)
       DEF Agrees, Kept, Hands, Counted, SubmitSent, FrontLetGo, Noted, JobTold, Mailbag, Stops,
           InFlight, HeldBack, ToHome, ToFront
  <2> QED BY <2>3, <2>4 DEF JobInv
<1> QED BY <1>5, <1>6

LEMMA EventKeeps ==
  ASSUME JobInv, HomeEvent
  PROVE  JobInv'
<1>1. TypeOK /\ Agrees /\ job \in JobType
  BY DEF JobInv, TypeOK
<1>2. /\ home.bits = {} /\ home.hand = 0 /\ home.loop = "run" /\ job.state = "running"
      /\ ~job.opening /\ job.delta = "none" /\ job.pending = 0 /\ job.events < MaxEvents
      /\ UNCHANGED <<place, home_bits, home_mail, asks, req, front, home, runs, draining>>
  BY <1>1, JobFields DEF HomeEvent, HomeFree, Waits
<1>3. /\ place = "out" /\ job.hold = 1 /\ job.told = 0 /\ "RETURN" \notin ToFront
      /\ "DONE" \notin ToFront /\ "SUBMIT" \notin ToHome
  BY <1>2, HomeWorking DEF InFlight
<1>4. PICK n \in 0 .. 2, d \in BOOLEAN :
        /\ n <= MaxWrites /\ (d => asks.stream /\ ~job.dropped)
        /\ job' = [Archive(job, n) EXCEPT !.answer = TRUE, !.events = @ + 1,
                                          !.delta = IF d THEN "pending" ELSE "none"]
        /\ front_bits' = IF d THEN front_bits \cup {"DELTA"} ELSE front_bits
        /\ front_mail' = (front_mail \/ d)
        /\ refs' = refs + n + (IF d /\ front_bits = {} THEN 1 ELSE 0)
  <2>1. PICK n \in 0 .. (IF asks.journal THEN 2 ELSE 0), d \in BOOLEAN :
        /\ n <= MaxWrites /\ (d => asks.stream /\ ~job.dropped)
        /\ job' = [Archive(job, n) EXCEPT !.answer = TRUE, !.events = @ + 1,
                                          !.delta = IF d THEN "pending" ELSE "none"]
        /\ front_bits' = IF d THEN front_bits \cup {"DELTA"} ELSE front_bits
        /\ front_mail' = (front_mail \/ d)
        /\ refs' = refs + n + (IF d /\ front_bits = {} THEN 1 ELSE 0)
    BY DEF HomeEvent
  <2>2. n \in 0 .. 2
    OBVIOUS
  <2> QED BY <2>1, <2>2
<1> DEFINE v == job.events + 1
           x == IF d THEN "pending" ELSE "none"
           a == [job EXCEPT !.pending = n]
<1>6. n \in 0 .. MaxWrites /\ v \in 0 .. MaxEvents /\ x \in {"none", "pending", "ended"}
  BY <1>1, <1>2, <1>4, WritesAssumption, EventsAssumption, JobFields
<1>5. Archive(job, n) = a
  BY <1>2, <1>4 DEF Archive
<1>a. /\ a \in JobType /\ a.pending = n /\ a.state = job.state /\ a.opening = job.opening
      /\ a.transfer = job.transfer /\ a.told = job.told /\ a.dropped = job.dropped
      /\ a.ending = job.ending /\ a.hold = job.hold /\ a.status = job.status
      /\ a.events = job.events
  BY <1>1, <1>6 DEF JobType
<1>b. job' = [a EXCEPT !.answer = TRUE, !.events = a.events + 1, !.delta = x]
  BY <1>4, <1>5
<1>x. (d => x = "pending") /\ (~d => x = "none")
  OBVIOUS
<1> HIDE DEF v, x, a
<1>7. job' \in JobType
  BY <1>a, <1>b, <1>6 DEF JobType, v
<1>8. /\ job'.pending = n /\ job'.state = job.state /\ job'.opening = job.opening
      /\ job'.transfer = job.transfer
      /\ job'.told = job.told /\ job'.dropped = job.dropped /\ job'.delta = x
      /\ job'.ending = job.ending /\ job'.hold = job.hold /\ job'.status = job.status
  BY <1>a, <1>b DEF JobType
<1>9. refs' \in Nat
  BY <1>1, <1>4, JobFields
<1>10. front_bits' \in SUBSET FrontBits
  BY <1>1, <1>4 DEF TypeOK, FrontBits
<1>11. front_mail' \in BOOLEAN
  BY <1>1, <1>4 DEF TypeOK
<1>12. TypeOK'
  BY <1>1, <1>2, <1>7, <1>9, <1>10, <1>11 DEF TypeOK
<1>13. CASE d
  <2>0. /\ front_mail' = TRUE /\ front_bits' = front_bits \cup {"DELTA"}
        /\ refs' = refs + n + (IF front_bits = {} THEN 1 ELSE 0)
    BY <1>4, <1>13
  <2>1. Kept' /\ Hands' /\ Counted' /\ SubmitSent'
    BY <1>1, <1>2, <1>3, <1>8, <1>9, <2>0, JobFields
       DEF Agrees, Kept, Hands, Counted, SubmitSent, ToHome, ToFront
  <2>2. FrontLetGo' /\ Noted' /\ JobTold'
    BY <1>1, <1>2, <1>3, <1>4, <1>x, <1>8, <1>13, JobFields
       DEF Agrees, FrontLetGo, Noted, JobTold, ToHome, ToFront, InFlight, HeldBack
  <2>3. Mailbag' /\ Stops'
    BY <1>1, <1>2, <1>3, <1>4, <1>x, <1>8, <1>13, JobFields
       DEF Agrees, Kept, Hands, Mailbag, Stops, ToHome, ToFront, InFlight
  <2> QED BY <1>12, <2>1, <2>2, <2>3 DEF JobInv, Agrees
<1>14. CASE ~d
  <2>0. front_mail' = front_mail /\ front_bits' = front_bits /\ refs' = refs + n
    BY <1>1, <1>4, <1>14, JobFields DEF TypeOK
  <2>1. Kept' /\ Hands' /\ Counted' /\ SubmitSent'
    BY <1>1, <1>2, <1>3, <1>8, <1>9, <2>0, JobFields
       DEF Agrees, Kept, Hands, Counted, SubmitSent, ToHome, ToFront
  <2>2. FrontLetGo' /\ Noted' /\ JobTold'
    BY <1>1, <1>2, <1>3, <1>4, <1>x, <1>8, <1>14, JobFields
       DEF Agrees, FrontLetGo, Noted, JobTold, ToHome, ToFront, InFlight, HeldBack
  <2>3. Mailbag' /\ Stops'
    BY <1>1, <1>2, <1>3, <1>4, <1>x, <1>8, <1>14, JobFields
       DEF Agrees, Kept, Hands, Mailbag, Stops, ToHome, ToFront, InFlight
  <2> QED BY <1>12, <2>1, <2>2, <2>3 DEF JobInv, Agrees
<1> QED BY <1>13, <1>14

LEMMA PreemptKeeps ==
  ASSUME JobInv, HomePreempt
  PROVE  JobInv'
<1>1. TypeOK /\ Agrees /\ job \in JobType
  BY DEF JobInv, TypeOK
<1>2. /\ home.bits = {} /\ home.hand = 0 /\ home.loop = "run" /\ job.state = "running"
      /\ job.transfer /\ ~job.opening
      /\ job.delta = "none" /\ job.pending = 0 /\ ~job.dropped
      /\ UNCHANGED <<place, asks, req, front, home, runs, draining>>
      /\ UNCHANGED <<refs, home_bits, home_mail, front_bits, front_mail>>
  BY <1>1, JobFields DEF HomePreempt, HomeFree, Agrees, Noted, PostNothing
<1>3. /\ place = "out" /\ job.hold = 1 /\ job.told = 0 /\ "SUBMIT" \notin ToHome
  BY <1>2, HomeWorking DEF InFlight
<1>4. job' = [job EXCEPT !.answer = FALSE, !.delta = "none", !.state = "queued",
                         !.transfer = FALSE, !.preempted = TRUE, !.events = 0]
  BY <1>1 DEF HomePreempt, Emptied, JobType
<1>5. job' \in JobType
  <2>1. 0 \in 0 .. MaxEvents
    BY EventsAssumption
  <2> QED BY <1>1, <1>4, <2>1 DEF JobType
<1>6. /\ job'.pending = job.pending /\ job'.state = "queued" /\ job'.opening = job.opening
      /\ ~job'.transfer /\ job'.told = job.told /\ job'.dropped = job.dropped
      /\ job'.delta = "none" /\ job'.ending = job.ending /\ job'.hold = job.hold
      /\ job'.status = job.status
  BY <1>1, <1>4 DEF JobType
<1>7. TypeOK'
  BY <1>1, <1>2, <1>5 DEF TypeOK
<1>8. Agrees'
  BY <1>1, <1>2, <1>3, <1>6, JobFields, SMTT(60)
       DEF Agrees, Kept, Hands, Counted, SubmitSent, FrontLetGo, Noted, JobTold, Mailbag, Stops,
           InFlight, HeldBack, ToHome, ToFront
<1> QED BY <1>7, <1>8 DEF JobInv

\* A job that is submitted is one that home has noted nothing of.
LEMMA SubmitOnce ==
  ASSUME JobInv, "SUBMIT" \in home.bits
  PROVE  /\ job.state = "none" /\ job.hold = 1 /\ job.told = 0 /\ job.pending = 0
         /\ job.delta = "none" /\ job.dropped = FALSE /\ job.ending = FALSE
         /\ job.transfer = FALSE /\ job.opening = FALSE /\ job.status = "none"
         /\ place = "out" /\ ToFront = {} /\ home_bits \cap {"SUBMIT", "DRAIN"} = {}
         /\ "DRAIN" \notin home.bits /\ home.hand = 1
         /\ req.hold = 1 /\ ~req.delta /\ req.state # "reads"
<1>1. Agrees /\ "SUBMIT" \in ToHome
  BY DEF JobInv, ToHome
<1>2. job = [Fresh EXCEPT !.hold = 1]
  BY <1>1 DEF Agrees, SubmitSent
<1>3. /\ job.state = "none" /\ job.hold = 1 /\ job.told = 0 /\ job.pending = 0
      /\ job.delta = "none" /\ job.dropped = FALSE /\ job.ending = FALSE
      /\ job.transfer = FALSE /\ job.opening = FALSE /\ job.status = "none"
  BY <1>2 DEF Fresh
<1>4. /\ place = "out" /\ ToFront = {} /\ home_bits \cap {"SUBMIT", "DRAIN"} = {}
      /\ "DRAIN" \notin home.bits /\ home.hand = 1
      /\ req.hold = 1 /\ ~req.delta /\ req.state # "reads"
  BY <1>1 DEF Agrees, Kept, Hands, SubmitSent, ToHome
<1> QED BY <1>3, <1>4

\* Home ends a job as it is submitted: n is what home has yet to drop then.
LEMMA RefusedKeeps ==
  ASSUME JobInv, "SUBMIT" \in home.bits, NEW e \in JobType,
         home.loop \in {"run", "fini"},
         e.state = "ended", e.told = 1, e.delta = "none", e.pending = 0, e.dropped = FALSE,
         e.ending = FALSE, e.transfer = FALSE, e.opening = FALSE,
         e.hold = IF "CANCEL" \in home.bits THEN 0 ELSE 1,
         e.hold = 1 /\ e.status \in {"ANSWERED", "FAILED"} => e.answer,
         Becomes(e, 1)
  PROVE  JobInv'
<1>1. TypeOK /\ Agrees
  BY DEF JobInv
<1>2. /\ job.state = "none" /\ job.hold = 1 /\ job.told = 0 /\ job.pending = 0
      /\ job.delta = "none" /\ job.dropped = FALSE /\ job.ending = FALSE
      /\ job.transfer = FALSE /\ job.opening = FALSE /\ job.status = "none"
      /\ place = "out" /\ ToFront = {} /\ home_bits \cap {"SUBMIT", "DRAIN"} = {}
      /\ "DRAIN" \notin home.bits /\ home.hand = 1
      /\ req.hold = 1 /\ ~req.delta /\ req.state # "reads"
  BY SubmitOnce
<1>3. 1 + job.hold - e.hold = 2 - e.hold /\ 1 + job.hold - e.hold \in 0 .. 2
  BY <1>2
<1>4. /\ TypeOK' /\ job' = e
      /\ home'.loop = home.loop /\ home'.bits = {} /\ home'.hand = 2 - e.hold
      /\ e.told > job.told => PostFront("DONE")
      /\ e.told <= job.told => PostNothing
      /\ UNCHANGED <<place, asks, req, front, runs, draining>>
  BY <1>1, <1>3, BecomesIs
<1>5. PostFront("DONE")
  BY <1>2, <1>4
<1>6. Agrees'
  BY <1>1, <1>2, <1>4, <1>5, JobFields, SMTT(60)
       DEF Agrees, Kept, Hands, Counted, SubmitSent, FrontLetGo, Noted, JobTold, Mailbag, Stops,
           InFlight, HeldBack, ToHome, ToFront, PostFront
<1> QED BY <1>4, <1>6 DEF JobInv

LEMMA SubmitsKeep ==
  ASSUME JobInv, HomeSubmitCancelled \/ HomeSubmit
  PROVE  JobInv'
<1>1. TypeOK /\ Agrees /\ job \in JobType
  BY DEF JobInv, TypeOK
<1>0. home.loop = "run" /\ "SUBMIT" \in home.bits
  BY DEF HomeSubmitCancelled, HomeSubmit
<1>2. /\ job.state = "none" /\ job.hold = 1 /\ job.told = 0 /\ job.pending = 0
      /\ job.delta = "none" /\ job.dropped = FALSE /\ job.ending = FALSE
      /\ job.transfer = FALSE /\ job.opening = FALSE /\ job.status = "none"
      /\ place = "out" /\ ToFront = {} /\ home_bits \cap {"SUBMIT", "DRAIN"} = {}
      /\ "DRAIN" \notin home.bits /\ home.hand = 1
      /\ req.hold = 1 /\ ~req.delta /\ req.state # "reads"
  BY <1>0, SubmitOnce
<1>3. ASSUME NEW k \in JobType, NEW s \in Status, k.told = 0, k.pending = 0, k.delta = "none",
             k.dropped = FALSE, k.ending = FALSE, k.opening = FALSE, k.hold = 1
      PROVE  /\ End(k, s) \in JobType /\ End(k, s).state = "ended" /\ End(k, s).told = 1
             /\ End(k, s).delta = "none" /\ End(k, s).pending = 0 /\ End(k, s).dropped = FALSE
             /\ End(k, s).ending = FALSE /\ End(k, s).transfer = FALSE
             /\ End(k, s).opening = FALSE /\ End(k, s).hold = 1 /\ End(k, s).status = s
             /\ s # "CANCELLED" => End(k, s).answer = k.answer
  <2>1. JobOver(End(k, s), k, s)
    BY <1>3, HomeEndIs
  <2> QED BY <1>3, <2>1 DEF JobOver, Tells
<1>4. CASE HomeSubmitCancelled
  <2> DEFINE e == End(job, "CANCELLED")
             f == [e EXCEPT !.hold = 0]
  <2>1. /\ e \in JobType /\ e.state = "ended" /\ e.told = 1
        /\ e.delta = "none" /\ e.pending = 0 /\ e.dropped = FALSE
        /\ e.ending = FALSE /\ e.transfer = FALSE /\ e.opening = FALSE
    BY <1>1, <1>2, <1>3 DEF Status
  <2>2. Becomes(f, 1)
    BY <1>4 DEF HomeSubmitCancelled
  <2> HIDE DEF e
  <2>3. f \in JobType
    BY <2>1 DEF JobType
  <2>4. /\ f.state = "ended" /\ f.told = 1
        /\ f.delta = "none" /\ f.pending = 0 /\ f.dropped = FALSE
        /\ f.ending = FALSE /\ f.transfer = FALSE /\ f.opening = FALSE /\ f.hold = 0
    BY <2>1 DEF JobType
  <2>5. f.hold = IF "CANCEL" \in home.bits THEN 0 ELSE 1
    BY <1>4, <2>4 DEF HomeSubmitCancelled
  <2>6. f.hold = 1 /\ f.status \in {"ANSWERED", "FAILED"} => f.answer
    BY <2>4
  <2> HIDE DEF f
  <2> QED BY <1>0, <2>2, <2>3, <2>4, <2>5, <2>6, RefusedKeeps
<1>5. CASE HomeSubmit
  <2>0. "CANCEL" \notin home.bits
    BY <1>5 DEF HomeSubmit
  <2>1. ASSUME NEW k \in JobType, NEW s \in {"CANCELLED", "BUSY", "FAILED"}, k.told = 0,
               k.pending = 0, k.delta = "none",
               k.dropped = FALSE, k.ending = FALSE, k.opening = FALSE, k.hold = 1,
               s = "FAILED" => k.answer, Becomes(End(k, s), 1)
        PROVE  JobInv'
    <3> DEFINE e == End(k, s)
    <3>1. /\ e \in JobType /\ e.state = "ended" /\ e.told = 1
          /\ e.delta = "none" /\ e.pending = 0 /\ e.dropped = FALSE
          /\ e.ending = FALSE /\ e.transfer = FALSE /\ e.opening = FALSE /\ e.hold = 1
          /\ e.status \in {"ANSWERED", "FAILED"} => e.answer
      <4>1. s \in Status
        BY DEF Status
      <4> QED BY <1>3, <2>1, <4>1
    <3>2. Becomes(e, 1)
      BY <2>1
    <3> HIDE DEF e
    <3> QED BY <1>0, <2>0, <3>1, <3>2, RefusedKeeps
  <2>2. CASE Becomes(End(job, "CANCELLED"), 1) \/ Becomes(End(job, "BUSY"), 1)
    BY <1>1, <1>2, <2>1, <2>2
  <2>3. CASE Becomes(End([job EXCEPT !.answer = TRUE], "FAILED"), 1)
    <3> DEFINE k == [job EXCEPT !.answer = TRUE]
    <3>1. /\ k \in JobType /\ k.told = 0 /\ k.pending = 0 /\ k.delta = "none"
          /\ k.dropped = FALSE /\ k.ending = FALSE /\ k.opening = FALSE /\ k.hold = 1
          /\ k.answer = TRUE
      BY <1>1, <1>2 DEF JobType
    <3>2. Becomes(End(k, "FAILED"), 1)
      BY <2>3
    <3> HIDE DEF k
    <3> QED BY <2>1, <3>1, <3>2
  <2>4. CASE Becomes([job EXCEPT !.state = "queued"], 1)
    <3> DEFINE e == [job EXCEPT !.state = "queued"]
    <3>1. e \in JobType
      BY <1>1 DEF JobType
    <3>2. /\ e.told = 0 /\ e.pending = 0 /\ e.delta = "none" /\ e.state = "queued"
          /\ e.dropped = FALSE /\ e.ending = FALSE /\ e.opening = FALSE /\ e.hold = 1
          /\ e.transfer = FALSE /\ e.status = "none"
      BY <1>1, <1>2 DEF JobType
    <3>3. Becomes(e, 1)
      BY <2>4
    <3> HIDE DEF e
    <3>4. 1 + job.hold - e.hold = 1 /\ 1 + job.hold - e.hold \in 0 .. 2
      BY <1>2, <3>2
    <3>5. /\ TypeOK' /\ job' = e
          /\ home'.loop = home.loop /\ home'.bits = {} /\ home'.hand = 1
          /\ e.told > job.told => PostFront("DONE")
          /\ e.told <= job.told => PostNothing
          /\ UNCHANGED <<place, asks, req, front, runs, draining>>
      BY <1>1, <3>1, <3>3, <3>4, BecomesIs
    <3>6. PostNothing
      BY <1>2, <3>2, <3>5
    <3>7. Agrees'
      BY <1>0, <1>1, <1>2, <2>0, <3>2, <3>5, <3>6, JobFields, SMTT(60)
       DEF Agrees, Kept, Hands, Counted, SubmitSent, FrontLetGo, Noted, JobTold, Mailbag, Stops,
           InFlight, HeldBack, ToHome, ToFront, PostNothing
    <3> QED BY <3>5, <3>7 DEF JobInv
  <2> QED BY <1>5, <2>2, <2>3, <2>4 DEF HomeSubmit
<1> QED BY <1>4, <1>5

\* Home lets go of a job that has ended, whose front has let go already.
LEMMA DroppedKeeps ==
  ASSUME JobInv, home.loop \in {"run", "fini"}, "CANCEL" \in home.bits,
         "SUBMIT" \notin home.bits, ~InFlight,
         Becomes([Emptied(Released(job)) EXCEPT !.hold = 0], 1)
  PROVE  JobInv'
<1> DEFINE r == Released(job)
<1>1. TypeOK /\ Agrees /\ job \in JobType
  BY DEF JobInv, TypeOK
<1>2. job.told <= 1 /\ (job.delta = "ended" => job.pending = 0 /\ ~job.dropped /\ job.told = 0)
  BY <1>1, JobFields DEF Agrees, Noted, FrontLetGo
<1>3. Back(r, job)
  BY <1>1, <1>2, ReleasedIs
<1>4. /\ home.loop \in {"run", "fini"} /\ "CANCEL" \in home.bits
      /\ "SUBMIT" \notin home.bits /\ Becomes([Emptied(r) EXCEPT !.hold = 0], 1)
  OBVIOUS
<1> HIDE DEF r
<1>5. /\ place = "out" /\ job.hold = 1 /\ job.dropped = FALSE /\ req.state = "none"
      /\ home.hand = 1 /\ "SUBMIT" \notin ToHome /\ job.state # "none"
      /\ "CANCEL" \notin home_bits /\ "RETURN" \notin ToFront
  BY <1>1, <1>4, JobFields DEF Agrees, Kept, Hands, Counted, SubmitSent, FrontLetGo, ToHome
<1>8. ~InFlight /\ ~r.transfer
  BY <1>1, <1>3, JobFields DEF Agrees, Noted, InFlight, Back
<1> DEFINE f == [Emptied(r) EXCEPT !.hold = 0]
<1>a. job.state = "ended" /\ r.state = "ended"
  BY <1>1, <1>3, <1>5, <1>8, JobFields DEF InFlight, Back
<1>b. /\ f \in JobType /\ f.state = "ended" /\ f.status = job.status /\ f.transfer = FALSE
      /\ f.dropped = FALSE /\ f.pending = job.pending /\ f.opening = job.opening
      /\ f.delta = "none" /\ f.told = r.told /\ f.ending = job.ending /\ f.hold = 0
  <2>1. /\ Emptied(r) \in JobType /\ Emptied(r).state = "ended"
        /\ Emptied(r).status = job.status /\ Emptied(r).transfer = r.transfer
        /\ Emptied(r).dropped = FALSE /\ Emptied(r).pending = job.pending
        /\ Emptied(r).opening = job.opening /\ Emptied(r).delta = "none"
        /\ Emptied(r).told = r.told /\ Emptied(r).ending = job.ending
    BY <1>3, <1>5, <1>a DEF JobType, Emptied, Back
  <2>2. r.transfer = FALSE
    BY <1>3, <1>8 DEF JobType, Back
  <2>3. f \in JobType
    BY <2>1 DEF JobType
  <2> QED BY <2>1, <2>2, <2>3 DEF JobType
<1>c. Becomes(f, 1)
  BY <1>4, <1>8
<1> HIDE DEF f
<1>d. 1 + job.hold - f.hold = 2 /\ 1 + job.hold - f.hold \in 0 .. 2
  BY <1>5, <1>b
<1>e. /\ TypeOK' /\ job' = f
      /\ home'.loop = home.loop /\ home'.bits = {} /\ home'.hand = 2
      /\ f.told > job.told => PostFront("DONE")
      /\ f.told <= job.told => PostNothing
      /\ UNCHANGED <<place, asks, req, front, runs, draining>>
  BY <1>1, <1>b, <1>c, <1>d, BecomesIs
<1>f. CASE job.delta = "ended"
  <2>1. PostFront("DONE") /\ f.told = 1
    BY <1>2, <1>3, <1>b, <1>e, <1>f DEF Back
  <2>2. Agrees'
    BY <1>1, <1>2, <1>4, <1>5, <1>a, <1>b, <1>e, <1>f, <2>1, JobFields, SMTT(60)
     DEF Agrees, Kept, Hands, Counted, SubmitSent, FrontLetGo, Noted, JobTold, Mailbag, Stops,
         InFlight, HeldBack, ToHome, ToFront, PostFront
  <2> QED BY <1>e, <2>2 DEF JobInv
<1>g. CASE job.delta # "ended"
  <2>1. PostNothing /\ f.told = job.told
    BY <1>1, <1>2, <1>3, <1>b, <1>e, <1>g, JobFields DEF Back
  <2>2. Agrees'
    <3>1. Kept' /\ Hands' /\ Counted' /\ SubmitSent'
      BY <1>1, <1>4, <1>5, <1>a, <1>b, <1>e, <2>1, JobFields
         DEF Agrees, Kept, Hands, Counted, SubmitSent, ToHome, ToFront, PostNothing
    <3>2. FrontLetGo' /\ Noted' /\ JobTold'
      BY <1>1, <1>2, <1>4, <1>5, <1>a, <1>b, <1>e, <1>g, <2>1, JobFields
         DEF Agrees, FrontLetGo, Noted, JobTold, ToHome, ToFront, InFlight, HeldBack, PostNothing
    <3>3. Mailbag' /\ Stops'
      BY <1>1, <1>4, <1>5, <1>a, <1>b, <1>e, <2>1, JobFields
         DEF Agrees, Mailbag, Stops, ToHome, ToFront, InFlight, PostNothing
    <3> QED BY <3>1, <3>2, <3>3 DEF Agrees
  <2> QED BY <1>e, <2>2 DEF JobInv
<1> QED BY <1>f, <1>g

LEMMA ReleaseKeeps ==
  ASSUME JobInv, HomeRelease
  PROVE  JobInv'
<1> DEFINE r == Released(job)
<1>1. TypeOK /\ Agrees /\ job \in JobType
  BY DEF JobInv, TypeOK
<1>2. job.told <= 1 /\ (job.delta = "ended" => job.pending = 0 /\ ~job.dropped /\ job.told = 0)
  BY <1>1, JobFields DEF Agrees, Noted, FrontLetGo
<1>3. Back(r, job)
  BY <1>1, <1>2, ReleasedIs
<1>4. /\ home.loop = "run" /\ "CANCEL" \in home.bits /\ "SUBMIT" \notin home.bits
      /\ IF r.transfer THEN Becomes([r EXCEPT !.dropped = TRUE], 1)
         ELSE IF InFlight THEN Becomes([End(r, "CANCELLED") EXCEPT !.hold = 0], 1)
         ELSE Becomes([Emptied(r) EXCEPT !.hold = 0], 1)
  BY DEF HomeRelease
<1> HIDE DEF r
<1>5. /\ place = "out" /\ job.hold = 1 /\ job.dropped = FALSE /\ req.state = "none"
      /\ home.hand = 1 /\ "SUBMIT" \notin ToHome /\ job.state # "none"
      /\ "CANCEL" \notin home_bits /\ "RETURN" \notin ToFront
  BY <1>1, <1>4, JobFields DEF Agrees, Kept, Hands, Counted, SubmitSent, FrontLetGo, ToHome
<1>6. CASE r.transfer
  <2> DEFINE e == [r EXCEPT !.dropped = TRUE]
  <2>1. /\ e \in JobType /\ e.delta = "none" /\ e.status = job.status
        /\ e.dropped = TRUE /\ e.pending = job.pending /\ e.opening = job.opening
        /\ e.ending = job.ending /\ e.hold = 1 /\ e.state = r.state /\ e.transfer = TRUE
        /\ e.told = r.told /\ e.answer = r.answer
    BY <1>3, <1>5, <1>6 DEF JobType, Back
  <2>2. Becomes(e, 1)
    BY <1>4, <1>6
  <2> HIDE DEF e
  <2>3. /\ job.delta # "ended" /\ r.state = "running" /\ job.state = "running" /\ e.told = 0
        /\ job.told = 0 /\ job.transfer
    BY <1>1, <1>3, <1>6, <2>1, JobFields DEF Agrees, Noted, Back
  <2>4. 1 + job.hold - e.hold = 1 /\ 1 + job.hold - e.hold \in 0 .. 2
    BY <1>5, <2>1
  <2>5. /\ TypeOK' /\ job' = e
        /\ home'.loop = home.loop /\ home'.bits = {} /\ home'.hand = 1
        /\ e.told > job.told => PostFront("DONE")
        /\ e.told <= job.told => PostNothing
        /\ UNCHANGED <<place, asks, req, front, runs, draining>>
    BY <1>1, <2>1, <2>2, <2>4, BecomesIs
  <2>6. PostNothing
    BY <2>3, <2>5
  <2>7. Agrees'
    BY <1>1, <1>3, <1>4, <1>5, <2>1, <2>3, <2>5, <2>6, JobFields, SMTT(60)
       DEF Agrees, Kept, Hands, Counted, SubmitSent, FrontLetGo, Noted, JobTold, Mailbag, Stops,
           InFlight, HeldBack, ToHome, ToFront, PostNothing, Back
  <2> QED BY <2>5, <2>7 DEF JobInv
<1>7. CASE ~r.transfer /\ InFlight
  <2> DEFINE e == End(r, "CANCELLED")
             f == [e EXCEPT !.hold = 0]
  <2>1. /\ job.delta # "ended" /\ job.told = 0 /\ r.told = 0 /\ r.state = job.state
        /\ job.ending = FALSE
    BY <1>1, <1>2, <1>3, <1>7, JobFields DEF Agrees, Noted, InFlight, Back
  <2>2. JobOver(e, r, "CANCELLED")
    BY <1>3, <2>1, HomeEndIs DEF Status, Back
  <2>3. Becomes(f, 1)
    BY <1>4, <1>7
  <2> HIDE DEF e
  <2>4. /\ e \in JobType /\ e.state = "ended" /\ e.status = "CANCELLED" /\ e.transfer = FALSE
        /\ e.dropped = FALSE /\ e.pending = job.pending /\ e.opening = job.opening
        /\ e.delta = "none"
        /\ job.pending = 0 => e.told = 1 /\ e.ending = FALSE
        /\ job.pending > 0 => e.told = 0 /\ e.ending = TRUE
    BY <1>1, <1>3, <1>5, <2>1, <2>2, JobFields DEF JobOver, Tells, Back
  <2>5. /\ f \in JobType /\ f.state = "ended" /\ f.status = "CANCELLED" /\ f.transfer = FALSE
        /\ f.dropped = FALSE /\ f.pending = job.pending /\ f.opening = job.opening
        /\ f.delta = "none" /\ f.told = e.told /\ f.ending = e.ending /\ f.hold = 0
    <3>1. f \in JobType
      BY <2>4 DEF JobType
    <3> QED BY <2>4, <3>1 DEF JobType
  <2> HIDE DEF f
  <2>6. 1 + job.hold - f.hold = 2 /\ 1 + job.hold - f.hold \in 0 .. 2
    BY <1>5, <2>5
  <2>7. /\ TypeOK' /\ job' = f
        /\ home'.loop = home.loop /\ home'.bits = {} /\ home'.hand = 2
        /\ f.told > job.told => PostFront("DONE")
        /\ f.told <= job.told => PostNothing
        /\ UNCHANGED <<place, asks, req, front, runs, draining>>
    BY <1>1, <2>3, <2>5, <2>6, BecomesIs
  <2>8. CASE job.pending = 0
    <3>1. PostFront("DONE") /\ f.told = 1 /\ f.ending = FALSE
      BY <2>1, <2>4, <2>5, <2>7, <2>8
    <3>2. Agrees'
      BY <1>1, <1>4, <1>5, <1>7, <2>1, <2>5, <2>7, <2>8, <3>1, JobFields, SMTT(60)
       DEF Agrees, Kept, Hands, Counted, SubmitSent, FrontLetGo, Noted, JobTold, Mailbag, Stops,
           InFlight, HeldBack, ToHome, ToFront, PostFront
    <3> QED BY <2>7, <3>2 DEF JobInv
  <2>9. CASE job.pending > 0
    <3>1. PostNothing /\ f.told = 0 /\ f.ending = TRUE
      BY <2>1, <2>4, <2>5, <2>7, <2>9
    <3>2. Agrees'
      BY <1>1, <1>4, <1>5, <1>7, <2>1, <2>5, <2>7, <2>9, <3>1, JobFields, SMTT(60)
       DEF Agrees, Kept, Hands, Counted, SubmitSent, FrontLetGo, Noted, JobTold, Mailbag, Stops,
           InFlight, HeldBack, ToHome, ToFront, PostNothing
    <3> QED BY <2>7, <3>2 DEF JobInv
  <2> QED BY <1>1, <2>8, <2>9, JobFields
<1>8. CASE ~r.transfer /\ ~InFlight
  BY <1>4, <1>8, DroppedKeeps DEF r
<1> QED BY <1>6, <1>7, <1>8

\* Home's loop has stopped: what was on its way to it is let go of.
LEMMA OrphanKeeps ==
  ASSUME JobInv, HomeOrphan
  PROVE  JobInv'
<1> DEFINE r == Released(job)
<1>1. TypeOK /\ Agrees /\ job \in JobType
  BY DEF JobInv, TypeOK
<1>2. home.loop = "fini" /\ home.bits # {} /\ ~InFlight
  BY <1>1 DEF HomeOrphan, Agrees, Stops
<1>3. CASE "SUBMIT" \in home.bits
  <2> DEFINE k == [r EXCEPT !.dropped = FALSE]
             e == End(k, "CANCELLED")
             f == IF "CANCEL" \in home.bits THEN [e EXCEPT !.hold = 0] ELSE e
  <2>1. Becomes(f, 1)
    BY <1>3 DEF HomeOrphan
  <2>2. /\ job.state = "none" /\ job.hold = 1 /\ job.told = 0 /\ job.pending = 0
        /\ job.delta = "none" /\ job.dropped = FALSE /\ job.ending = FALSE
        /\ job.transfer = FALSE /\ job.opening = FALSE /\ job.status = "none"
    BY <1>3, SubmitOnce
  <2>3. /\ r \in JobType /\ r.delta = "none" /\ r.dropped = FALSE /\ r.pending = 0
        /\ r.opening = FALSE /\ r.ending = FALSE /\ r.hold = 1 /\ r.told = 0
    <3>1. job.told <= 1 /\ (job.delta = "ended" => job.pending = 0 /\ ~job.dropped)
      BY <2>2
    <3>2. /\ r \in JobType /\ r.delta = "none" /\ r.dropped = job.dropped
          /\ r.pending = job.pending /\ r.opening = job.opening /\ r.ending = job.ending
          /\ r.hold = job.hold /\ (job.delta # "ended" => r.told = job.told)
      BY <1>1, <3>1, ReleasedIs DEF Back
    <3> QED BY <2>2, <3>2
  <2> HIDE DEF r
  <2>4. /\ k \in JobType /\ k.delta = "none" /\ k.dropped = FALSE /\ k.pending = 0
        /\ k.opening = FALSE /\ k.ending = FALSE /\ k.hold = 1 /\ k.told = 0
    BY <2>3 DEF JobType
  <2> HIDE DEF k
  <2>5. JobOver(e, k, "CANCELLED")
    BY <2>4, HomeEndIs DEF Status
  <2> HIDE DEF e
  <2>6. /\ e \in JobType /\ e.state = "ended" /\ e.told = 1 /\ e.delta = "none" /\ e.pending = 0
        /\ e.dropped = FALSE /\ e.ending = FALSE /\ e.transfer = FALSE /\ e.opening = FALSE
        /\ e.hold = 1 /\ e.status = "CANCELLED"
    BY <2>4, <2>5 DEF JobOver, Tells
  <2>7. [e EXCEPT !.hold = 0] \in JobType
    BY <2>6 DEF JobType
  <2>8. /\ f \in JobType /\ f.state = "ended" /\ f.told = 1 /\ f.delta = "none" /\ f.pending = 0
        /\ f.dropped = FALSE /\ f.ending = FALSE /\ f.transfer = FALSE /\ f.opening = FALSE
        /\ f.hold = (IF "CANCEL" \in home.bits THEN 0 ELSE 1) /\ f.status = "CANCELLED"
    <3>1. CASE "CANCEL" \in home.bits
      BY <2>6, <2>7, <3>1 DEF JobType
    <3>2. CASE "CANCEL" \notin home.bits
      BY <2>6, <3>2
    <3> QED BY <3>1, <3>2
  <2> HIDE DEF f
  <2>9. f.hold = 1 /\ f.status \in {"ANSWERED", "FAILED"} => f.answer
    BY <2>8
  <2> QED BY <1>2, <1>3, <2>1, <2>8, <2>9, RefusedKeeps
<1>4. CASE "SUBMIT" \notin home.bits /\ "CANCEL" \in home.bits
  <2>1. Becomes([Emptied(r) EXCEPT !.hold = 0], 1)
    BY <1>4 DEF HomeOrphan
  <2> QED BY <1>2, <1>4, <2>1, DroppedKeeps
<1>5. CASE "SUBMIT" \notin home.bits /\ "CANCEL" \notin home.bits
  <2>1. Becomes(r, 1)
    BY <1>5 DEF HomeOrphan
  <2>2. home.bits = {"DRAIN"}
    BY <1>1, <1>2, <1>5, JobFields DEF HomeBits
  <2> QED BY <1>2, <2>1, <2>2, MailboxBack
<1> QED BY <1>3, <1>4, <1>5

-----------------------------------------------------------------------------
(* The journal's callback.                                                 *)

\* A write under way is of a job that home works on, or holds back.
LEMMA Writing ==
  ASSUME JobInv, job.pending > 0
  PROVE  /\ place = "out" /\ job.told = 0 /\ job.state \in {"running", "ended"}
         /\ job.delta # "ended" /\ "SUBMIT" \notin ToHome
         /\ "RETURN" \notin ToFront /\ "DONE" \notin ToFront
         /\ job.state = "ended" => job.ending
         /\ job.state = "running" => job.hold = 1 /\ ~job.ending
<1>1. place = "out" /\ "SUBMIT" \notin ToHome
  BY JobFields DEF JobInv, Agrees, Kept, SubmitSent, Fresh
<1>2. job.told = 0 /\ job.delta # "ended" /\ job.state \in {"running", "ended"}
  BY <1>1, JobFields DEF JobInv, Agrees, SubmitSent, Noted
<1> QED BY <1>1, <1>2, JobFields DEF JobInv, Agrees, Counted, SubmitSent, Noted, FrontLetGo, JobTold, HeldBack

\* A write ends, and the job goes on.
LEMMA WriteGoesOn ==
  ASSUME JobInv, HomeFree, job.pending > 0, NEW k \in JobType,
         k.pending = job.pending - 1, k.told = job.told, k.state = job.state,
         k.dropped = job.dropped, k.delta = job.delta, k.hold = job.hold,
         k.status = job.status, k.answer = job.answer, k.ending = job.ending,
         k.ending => k.pending > 0, k.transfer => k.state = "running" /\ ~k.opening,
         k.opening => job.opening, Becomes(k, 1)
  PROVE  JobInv'
<1>1. TypeOK /\ Agrees
  BY DEF JobInv
<1>2. home.loop = "run" /\ home.bits = {} /\ home.hand = 0
  BY DEF HomeFree
<1>3. /\ place = "out" /\ job.told = 0 /\ job.state \in {"running", "ended"}
      /\ job.delta # "ended" /\ "SUBMIT" \notin ToHome
      /\ "RETURN" \notin ToFront /\ "DONE" \notin ToFront
      /\ job.state = "ended" => job.ending
      /\ job.state = "running" => job.hold = 1 /\ ~job.ending
  BY Writing
<1>4. 1 + job.hold - k.hold = 1 /\ 1 + job.hold - k.hold \in 0 .. 2
  BY <1>1, JobFields
<1>5. /\ TypeOK' /\ job' = k
      /\ home'.loop = home.loop /\ home'.bits = {} /\ home'.hand = 1
      /\ k.told > job.told => PostFront("DONE")
      /\ k.told <= job.told => PostNothing
      /\ UNCHANGED <<place, asks, req, front, runs, draining>>
  BY <1>1, <1>4, BecomesIs
<1>6. PostNothing
  BY <1>3, <1>5
<1>7. Agrees'
  BY <1>1, <1>2, <1>3, <1>5, <1>6, JobFields, SMTT(60)
       DEF Agrees, Kept, Hands, Counted, SubmitSent, FrontLetGo, Noted, JobTold, Mailbag, Stops,
           InFlight, HeldBack, ToHome, ToFront, PostNothing
<1> QED BY <1>5, <1>7 DEF JobInv

\* The last write ends, and the job with it.
LEMMA WriteEnds ==
  ASSUME JobInv, HomeFree, job.pending = 1, NEW k \in JobType, NEW s \in Status,
         k.pending = 0, k.told = job.told,
         k.dropped = job.dropped, k.delta = job.delta, k.hold = job.hold,
         k.ending = FALSE,
         k.hold = 1 /\ s \in {"ANSWERED", "FAILED"} => k.answer,
         Becomes(End(k, s), 1)
  PROVE  JobInv'
<1> DEFINE e == End(k, s)
<1>1. TypeOK /\ Agrees
  BY DEF JobInv
<1>2. home.loop = "run" /\ home.bits = {} /\ home.hand = 0
  BY DEF HomeFree
<1>3. /\ place = "out" /\ job.told = 0 /\ job.state \in {"running", "ended"}
      /\ job.delta # "ended" /\ "SUBMIT" \notin ToHome
      /\ "RETURN" \notin ToFront /\ "DONE" \notin ToFront
      /\ job.state = "ended" => job.ending
      /\ job.state = "running" => job.hold = 1 /\ ~job.ending
  BY Writing
<1>4. JobOver(e, k, s)
  BY <1>3, HomeEndIs
<1>5. Becomes(e, 1)
  OBVIOUS
<1> HIDE DEF e
<1>6. e \in JobType /\ 1 + job.hold - e.hold \in 0 .. 2
  BY <1>1, <1>4, JobFields DEF JobOver, Tells
<1>7. /\ TypeOK' /\ job' = e
      /\ home'.loop = home.loop /\ home'.bits = {} /\ home'.hand = 1 + job.hold - e.hold
      /\ e.told > job.told => PostFront("DONE")
      /\ e.told <= job.told => PostNothing
      /\ UNCHANGED <<place, asks, req, front, runs, draining>>
  BY <1>1, <1>5, <1>6, BecomesIs
<1>8. CASE Tells(k)
  <2>1. /\ e.told = 1 /\ PostFront("DONE") /\ e.delta = "none"
        /\ e.hold = (IF job.dropped THEN 0 ELSE job.hold)
        /\ ~job.dropped /\ s # "CANCELLED" => e.answer = k.answer
        /\ job.delta = "none" \/ job.dropped
    BY <1>3, <1>4, <1>7, <1>8 DEF JobOver, Tells
  <2>2. /\ e.state = "ended" /\ e.status = s /\ e.transfer = FALSE /\ e.dropped = job.dropped
        /\ e.pending = 0 /\ e.ending = FALSE
    BY <1>4, <1>8 DEF JobOver
  <2>3. Agrees'
    BY <1>1, <1>2, <1>3, <1>7, <2>1, <2>2, JobFields, SMTT(60)
       DEF Agrees, Kept, Hands, Counted, SubmitSent, FrontLetGo, Noted, JobTold, Mailbag, Stops,
           InFlight, HeldBack, ToHome, ToFront, PostFront
  <2> QED BY <1>7, <2>3 DEF JobInv
<1>9. CASE ~Tells(k)
  <2>1. /\ e.told = 0 /\ PostNothing /\ e.delta = "ended" /\ e.hold = job.hold
        /\ e.answer = k.answer /\ ~job.dropped /\ job.delta # "none"
    BY <1>3, <1>4, <1>7, <1>9 DEF JobOver, Tells
  <2>2. /\ e.state = "ended" /\ e.status = s /\ e.transfer = FALSE /\ e.dropped = job.dropped
        /\ e.pending = 0 /\ e.ending = FALSE
    BY <1>4, <1>9 DEF JobOver
  <2>3. Agrees'
    BY <1>1, <1>2, <1>3, <1>7, <2>1, <2>2, JobFields, SMTT(60)
       DEF Agrees, Kept, Hands, Counted, SubmitSent, FrontLetGo, Noted, JobTold, Mailbag, Stops,
           InFlight, HeldBack, ToHome, ToFront, PostNothing
  <2> QED BY <1>7, <2>3 DEF JobInv
<1> QED BY <1>8, <1>9

LEMMA HomeJournalKeeps ==
  ASSUME JobInv, HomeJournal
  PROVE  JobInv'
<1>1. TypeOK /\ Agrees /\ job \in JobType
  BY DEF JobInv, TypeOK
<1>2. HomeFree /\ job.pending > 0
  BY DEF HomeJournal
<1>3. /\ place = "out" /\ job.told = 0 /\ job.state \in {"running", "ended"}
      /\ job.state = "ended" => job.ending
      /\ job.state = "running" => job.hold = 1 /\ ~job.ending
  BY <1>2, Writing
<1>4. PICK e \in BOOLEAN :
       LET w == [job EXCEPT !.pending = @ - 1, !.error = @ \/ e]
           said == [w EXCEPT !.answer = TRUE]
           s == IF w.error /\ w.status # "CANCELLED" THEN "FAILED" ELSE w.status
           open == [w EXCEPT !.opening = FALSE]
       IN  IF w.pending > 0 THEN Becomes(w, 1)
           ELSE IF w.ending
           THEN Becomes(End([(IF w.error /\ w.status # "CANCELLED" THEN said ELSE w)
                              EXCEPT !.ending = FALSE], s), 1)
           ELSE IF ~InFlight THEN Becomes(w, 1)
           ELSE IF w.error THEN Becomes(End(said, "FAILED"), 1)
           ELSE IF w.opening
           THEN \/ Becomes([open EXCEPT !.transfer = TRUE], 1)
                \/ Becomes(End([open EXCEPT !.answer = TRUE], "FAILED"), 1)
           ELSE \/ Becomes([w EXCEPT !.deferred = FALSE], 1)
                \/ /\ w.deferred
                   /\ \E t \in {"ANSWERED", "FAILED"} :
                        Becomes(End([said EXCEPT !.deferred = FALSE], t), 1)
  BY DEF HomeJournal
<1> DEFINE w == [job EXCEPT !.pending = job.pending - 1, !.error = job.error \/ e]
           said == [w EXCEPT !.answer = TRUE]
           s == IF w.error /\ w.status # "CANCELLED" THEN "FAILED" ELSE w.status
           open == [w EXCEPT !.opening = FALSE]
<1>5. /\ w \in JobType /\ w.pending = job.pending - 1 /\ w.told = job.told
      /\ w.state = job.state /\ w.dropped = job.dropped /\ w.delta = job.delta
      /\ w.hold = job.hold /\ w.status = job.status /\ w.answer = job.answer
      /\ w.ending = job.ending /\ w.transfer = job.transfer /\ w.opening = job.opening
  <2>1. job.pending - 1 \in 0 .. MaxWrites /\ (job.error \/ e) \in BOOLEAN
    BY <1>1, <1>2, WritesAssumption, JobFields
  <2>2. w \in JobType
    BY <1>1, <2>1 DEF JobType
  <2> QED BY <1>1, <2>2 DEF JobType
<1>6. /\ w.pending > 0 => Becomes(w, 1)
      /\ ~(w.pending > 0) /\ w.ending =>
           Becomes(End([(IF w.error /\ w.status # "CANCELLED" THEN said ELSE w)
                              EXCEPT !.ending = FALSE], s), 1)
      /\ ~(w.pending > 0) /\ ~w.ending /\ InFlight =>
           \/ Becomes(End(said, "FAILED"), 1)
           \/ w.opening /\ Becomes([open EXCEPT !.transfer = TRUE], 1)
           \/ Becomes(End([open EXCEPT !.answer = TRUE], "FAILED"), 1)
           \/ ~w.opening /\ Becomes([w EXCEPT !.deferred = FALSE], 1)
           \/ \E t \in {"ANSWERED", "FAILED"} :
                Becomes(End([said EXCEPT !.deferred = FALSE], t), 1)
  BY <1>4
<1>7. job.transfer => job.state = "running" /\ ~job.opening
  BY <1>1 DEF Agrees, Noted
<1> HIDE DEF w
<1>8. CASE job.pending > 1
  <2>1. Becomes(w, 1) /\ w.pending > 0
    BY <1>1, <1>5, <1>6, <1>8, JobFields
  <2> QED BY <1>2, <1>5, <1>7, <2>1, WriteGoesOn
<1>9. CASE job.pending = 1 /\ job.ending
  <2> DEFINE v == IF w.error /\ w.status # "CANCELLED" THEN said ELSE w
             k == [v EXCEPT !.ending = FALSE]
  <2>1. Becomes(End(k, s), 1)
    BY <1>5, <1>6, <1>9
  <2>0. /\ w \in JobType /\ w.pending = 0 /\ w.told = job.told
        /\ w.state = job.state /\ w.dropped = job.dropped /\ w.delta = job.delta
        /\ w.hold = job.hold /\ w.status = job.status /\ w.answer = job.answer
        /\ w.transfer = job.transfer
    BY <1>5, <1>9
  <2>2. said \in JobType /\ said.answer = TRUE /\ said.pending = 0 /\ said.told = job.told
        /\ said.dropped = job.dropped /\ said.delta = job.delta /\ said.hold = job.hold
    BY <2>0 DEF JobType
  <2>3. job.state = "ended"
    BY <1>3, <1>9
  <2>4. job.hold = 1 /\ job.status \in {"ANSWERED", "FAILED"} => job.answer
    BY <1>1, <2>3 DEF Agrees, Noted
  <2>5. s \in Status
    BY <1>5 DEF JobType, Status
  <2>6. /\ v \in JobType /\ v.pending = 0 /\ v.told = job.told
        /\ v.dropped = job.dropped /\ v.delta = job.delta /\ v.hold = job.hold
        /\ v.hold = 1 /\ s \in {"ANSWERED", "FAILED"} => v.answer
    <3>1. CASE w.error /\ w.status # "CANCELLED"
      BY <2>2, <3>1
    <3>2. CASE ~(w.error /\ w.status # "CANCELLED")
      BY <1>5, <1>9, <2>4, <3>2
    <3> QED BY <3>1, <3>2
  <2> HIDE DEF v, s
  <2>7. /\ k \in JobType /\ k.pending = 0 /\ k.told = job.told
        /\ k.dropped = job.dropped /\ k.delta = job.delta /\ k.hold = job.hold
        /\ k.ending = FALSE /\ k.answer = v.answer
    BY <2>6 DEF JobType
  <2> HIDE DEF k
  <2>8. k.hold = 1 /\ s \in {"ANSWERED", "FAILED"} => k.answer
    BY <2>6, <2>7
  <2> QED BY <1>2, <1>9, <2>1, <2>5, <2>7, <2>8, WriteEnds
<1>10. CASE job.pending = 1 /\ ~job.ending
  <2>1. job.state = "running" /\ InFlight /\ job.ending = FALSE
    BY <1>1, <1>3, <1>10, JobFields DEF InFlight
  <2>0. /\ w \in JobType /\ w.pending = 0 /\ w.told = job.told
        /\ w.state = job.state /\ w.dropped = job.dropped /\ w.delta = job.delta
        /\ w.hold = job.hold /\ w.status = job.status /\ w.answer = job.answer
        /\ w.transfer = job.transfer /\ w.ending = FALSE /\ w.ending = job.ending
    BY <1>5, <1>10, <2>1
  <2>2. ASSUME NEW k \in JobType, k.pending = 0, k.told = job.told,
               k.dropped = job.dropped, k.delta = job.delta, k.hold = job.hold,
               k.ending = FALSE, k.answer = TRUE, NEW t \in {"ANSWERED", "FAILED"},
               Becomes(End(k, t), 1)
        PROVE  JobInv'
    BY <1>2, <1>10, <2>2, WriteEnds DEF Status
  <2>3. /\ said \in JobType /\ said.pending = 0 /\ said.told = job.told
        /\ said.dropped = job.dropped /\ said.delta = job.delta /\ said.hold = job.hold
        /\ said.ending = FALSE /\ said.answer = TRUE
    BY <2>0 DEF JobType
  <2>4. /\ open \in JobType /\ open.pending = 0 /\ open.told = job.told
        /\ open.state = job.state /\ open.dropped = job.dropped /\ open.delta = job.delta
        /\ open.hold = job.hold /\ open.status = job.status /\ open.answer = job.answer
        /\ open.ending = job.ending /\ open.ending = FALSE /\ open.opening = FALSE
    BY <2>0 DEF JobType
  <2>5. CASE Becomes(End(said, "FAILED"), 1)
    <3> HIDE DEF said
    <3> QED BY <2>2, <2>3, <2>5
  <2>6. CASE Becomes([open EXCEPT !.transfer = TRUE], 1)
    <3> DEFINE k == [open EXCEPT !.transfer = TRUE]
    <3>1. Becomes(k, 1)
      BY <2>6
    <3> HIDE DEF open
    <3>2. /\ k \in JobType /\ k.pending = 0 /\ k.told = job.told
          /\ k.state = job.state /\ k.dropped = job.dropped /\ k.delta = job.delta
          /\ k.hold = job.hold /\ k.status = job.status /\ k.answer = job.answer
          /\ k.ending = job.ending /\ k.ending = FALSE /\ k.opening = FALSE
      BY <2>4 DEF JobType
    <3> HIDE DEF k
    <3>3. k.pending = job.pending - 1
      BY <1>10, <2>1, <3>2
    <3>4. ~k.ending /\ ~k.opening /\ k.state = "running"
      BY <1>10, <2>1, <3>2
    <3> QED BY <1>2, <1>10, <3>1, <3>2, <3>3, <3>4, WriteGoesOn
  <2>7. CASE Becomes(End([open EXCEPT !.answer = TRUE], "FAILED"), 1)
    <3> DEFINE k == [open EXCEPT !.answer = TRUE]
    <3>1. Becomes(End(k, "FAILED"), 1)
      BY <2>7
    <3> HIDE DEF open
    <3>2. /\ k \in JobType /\ k.pending = 0 /\ k.told = job.told
          /\ k.dropped = job.dropped /\ k.delta = job.delta /\ k.hold = job.hold
          /\ k.ending = FALSE /\ k.answer = TRUE
      BY <2>4 DEF JobType
    <3> HIDE DEF k
    <3> QED BY <2>2, <3>1, <3>2
  <2>8. CASE ~w.opening /\ Becomes([w EXCEPT !.deferred = FALSE], 1)
    <3> DEFINE k == [w EXCEPT !.deferred = FALSE]
    <3>1. Becomes(k, 1)
      BY <2>8
    <3>2. /\ k \in JobType /\ k.pending = 0 /\ k.told = job.told
          /\ k.state = job.state /\ k.dropped = job.dropped /\ k.delta = job.delta
          /\ k.hold = job.hold /\ k.status = job.status /\ k.answer = job.answer
          /\ k.ending = job.ending /\ k.ending = FALSE /\ k.opening = w.opening
          /\ k.transfer = job.transfer
      BY <2>0 DEF JobType
    <3> HIDE DEF k
    <3>3. k.pending = job.pending - 1
      BY <1>10, <2>1, <3>2
    <3>4. ~k.ending /\ ~k.opening /\ k.state = "running"
      BY <1>5, <1>7, <1>10, <2>1, <2>8, <3>2
    <3> QED BY <1>2, <1>10, <3>1, <3>2, <3>3, <3>4, WriteGoesOn
  <2>9. ASSUME NEW t \in {"ANSWERED", "FAILED"},
               Becomes(End([said EXCEPT !.deferred = FALSE], t), 1)
        PROVE  JobInv'
    <3> DEFINE k == [said EXCEPT !.deferred = FALSE]
    <3>1. Becomes(End(k, t), 1)
      BY <2>9
    <3> HIDE DEF said
    <3>2. /\ k \in JobType /\ k.pending = 0 /\ k.told = job.told
          /\ k.dropped = job.dropped /\ k.delta = job.delta /\ k.hold = job.hold
          /\ k.ending = FALSE /\ k.answer = TRUE
      BY <2>3 DEF JobType
    <3> HIDE DEF k
    <3> QED BY <2>2, <3>1, <3>2
  <2> HIDE DEF said, open, s
  <2>10. ~(w.pending > 0) /\ ~w.ending
    BY <1>5, <1>10
  <2> QED BY <1>6, <2>1, <2>5, <2>6, <2>7, <2>8, <2>9, <2>10
<1> QED BY <1>1, <1>2, <1>8, <1>9, <1>10, JobFields

-----------------------------------------------------------------------------
(* The theorems.                                                           *)

LEMMA InitInv == Init => JobInv
<1> SUFFICES ASSUME Init PROVE JobInv
  OBVIOUS
<1>1. /\ home.loop = "run" /\ home.bits = {} /\ home.hand = 0
      /\ front.loop = "run" /\ front.bits = {} /\ front.hand = 0
      /\ req.state = "none" /\ ~req.delta /\ req.hold = 0
      /\ job.hold = 0 /\ job.told = 0 /\ job.pending = 0 /\ job.state = "none"
      /\ job.delta = "none" /\ ~job.dropped /\ ~job.ending /\ ~job.transfer
      /\ ~job.opening /\ job.status = "none"
  BY DEF Init, Idle, NoReq, Fresh
<1>2. TypeOK
  <2>1. home \in Thread(HomeBits) /\ front \in Thread(FrontBits)
    BY Small DEF Init, Idle, Thread
  <2>2. req \in ReqType /\ job \in JobType
    BY FreshType DEF Init, NoReq, ReqType
  <2>3. runs \in 0 .. MaxRuns /\ refs \in Nat
    BY RunsAssumption DEF Init
  <2>4. home_mail \in BOOLEAN /\ front_mail \in BOOLEAN /\ draining \in BOOLEAN
    BY DEF Init
  <2> QED BY <2>1, <2>2, <2>3, <2>4 DEF Init, TypeOK
<1>3. Agrees
  BY <1>1 DEF Init, Agrees, Kept, Hands, Counted, SubmitSent, FrontLetGo, Noted, JobTold, Mailbag, Stops,
           InFlight, HeldBack, ToHome, ToFront
<1> QED BY <1>2, <1>3 DEF JobInv

LEMMA NextInv == JobInv /\ [Next]_vars => JobInv'
<1> SUFFICES ASSUME JobInv, [Next]_vars PROVE JobInv'
  OBVIOUS
<1>1. CASE \/ Submit \/ Drop \/ Drained \/ FrontTake \/ FrontHandler \/ FrontStop
  BY <1>1, FrontKeeps DEF FrontHandler
<1>2. CASE HomeTake \/ HomeStop \/ Drain
  BY <1>2, HomeMailKeeps
<1>3. CASE HomeHandler
  <2>1. HomeDrained => JobInv'
    BY MailboxBack DEF HomeDrained
  <2> QED BY <1>3, <2>1, SubmitsKeep, ReleaseKeeps, OrphanKeeps, HomeMailKeeps DEF HomeHandler
<1>4. CASE HomeJournal
  BY <1>4, HomeJournalKeeps
<1>5. CASE HomeCancel
  BY <1>5, FinishesKeep
<1>6. CASE Upstream
  BY <1>6, HomeStartKeeps, HomeMailKeeps, EventKeeps, DeliveredKeeps, FinishesKeep, PreemptKeeps
     DEF Upstream
<1>7. CASE UNCHANGED vars
  <2>1. TypeOK'
    BY <1>7 DEF JobInv, TypeOK, vars
  <2>2. Kept' /\ Hands' /\ Counted' /\ SubmitSent'
    BY <1>7 DEF JobInv, vars, Agrees, Kept, Hands, Counted, SubmitSent, ToHome, ToFront
  <2>3. FrontLetGo' /\ Noted' /\ JobTold'
    BY <1>7 DEF JobInv, vars, Agrees, FrontLetGo, Noted, JobTold, ToHome, ToFront, HeldBack, InFlight
  <2>4. Mailbag' /\ Stops'
    BY <1>7 DEF JobInv, vars, Agrees, Mailbag, Stops, ToHome, ToFront, InFlight
  <2> QED BY <2>1, <2>2, <2>3, <2>4 DEF JobInv, Agrees
<1> QED BY <1>1, <1>2, <1>3, <1>4, <1>5, <1>6, <1>7 DEF Next, Stopped

\* The invariant says what the runs check of the references, ...
LEMMA Refs == JobInv => RefsExact
<1> SUFFICES ASSUME JobInv PROVE RefsExact
  OBVIOUS
<1>1. MailMatches
  BY DEF JobInv, Agrees, Kept, Hands, MailMatches, ToHome, ToFront, Fresh
<1>2. NoJobLeaks
  BY DEF JobInv, Agrees, Stops, NoJobLeaks
<1> QED BY <1>1, <1>2 DEF JobInv, Agrees, Counted, RefsExact, ToFront

\* ... of the completion, ...
LEMMA Once == JobInv => OneCompletion
BY JobFields DEF JobInv, Agrees, Kept, Hands, Counted, Noted, JobTold, OneCompletion, ToFront

\* ... and of what is read.
LEMMA Reads == JobInv => ReadsAlone
<1> SUFFICES ASSUME JobInv PROVE ReadsAlone
  OBVIOUS
<1>1. req.state = "reads" =>
       /\ job.state = "ended" /\ job.delta = "none" /\ job.pending = 0
       /\ job.status \in {"ANSWERED", "FAILED"} => job.answer
  BY JobFields DEF JobInv, Agrees, FrontLetGo, Noted, JobTold
<1>2. req.delta => job.delta # "none" /\ job.told = 0
  BY JobFields DEF JobInv, Agrees, Noted, Mailbag
<1>3. req.state = "waits" => ~ \E bits \in {front_bits, front.bits} :
                              {"DONE", "DELTA"} \subseteq bits
  BY JobFields DEF JobInv, Agrees, Noted, JobTold, Mailbag, ToFront
<1>4. HeldBack
  BY DEF JobInv, Agrees, Noted
<1> QED BY <1>1, <1>2, <1>3, <1>4 DEF ReadsAlone

\* Whatever the two threads and the journal do to a job, in every order: its
\* references are exact (job_post(), ref_put()), each run has one completion
\* (home_job_end()), and the front reads alone (mcp_req_job_done(),
\* mcp_req_delta()).
THEOREM JobSafe == Spec => [](RefsExact /\ OneCompletion /\ ReadsAlone)
<1>1. Init => JobInv
  BY InitInv
<1>2. JobInv /\ [Next]_vars => JobInv'
  BY NextInv
<1>3. JobInv => RefsExact /\ OneCompletion /\ ReadsAlone
  BY Refs, Once, Reads
<1> QED BY <1>1, <1>2, <1>3, PTL DEF Spec

\* The same of the run's specification, in which a behaviour is of the job or
\* of the request.
LEMMA PartInv == MCSpec => [](part = "job" => JobInv)
<1>1. MCInit => (part = "job" => JobInv)
  BY InitInv DEF MCInit
<1>2. (part = "job" => JobInv) /\ [MCNext]_<<part, mcp, vars>> => (part = "job" => JobInv)'
  <2> SUFFICES ASSUME part = "job" => JobInv, [MCNext]_<<part, mcp, vars>>, part' = "job"
               PROVE  JobInv'
    OBVIOUS
  <2>1. part = "job" /\ [Next]_vars
    BY DEF MCNext
  <2> QED BY <2>1, NextInv
<1> QED BY <1>1, <1>2, PTL DEF MCSpec

\* No reference is lost and none is dropped twice, no message is queued twice
\* and no job is left behind (job_post(), home_job_put(), mcp_shelve_job()).
THEOREM JobReferences == MCSpec => []JobRefs
<1>1. (part = "job" => JobInv) => JobRefs
  BY Refs DEF JobRefs
<1> QED BY <1>1, PartInv, PTL

\* Every run of a job ends in exactly one completion (home_job_end(),
\* mcp_req_job_done(), mcp_req_drop()).
THEOREM JobCompletion == MCSpec => []JobOnce
<1>1. (part = "job" => JobInv) => JobOnce
  BY Once DEF JobOnce
<1> QED BY <1>1, PartInv, PTL

\* What the front reads, home leaves alone, and what holds the completion back
\* ends (home_job_end(), home_delta_release()).
THEOREM JobReading == MCSpec => []JobReads
<1>1. (part = "job" => JobInv) => JobReads
  BY Reads DEF JobReads
<1> QED BY <1>1, PartInv, PTL

-----------------------------------------------------------------------------
(***************************************************************************)
(* A request: its inductive invariant.                                     *)
(***************************************************************************)

Kinds     == {"call", "tool", "roster", "record"} \cup Awaits
Hows      == {"text", "calls", "answered", "failed", "cancelled", "suspended"}
HomeJob   == [name : Name, at : {"runs", "held"}, durable : BOOLEAN]
Entry     == [who : Name \cup {NoName}, kind : Awaits \cup {"put", "done"},
              rec : 0 .. MaxRecs, status : RecStatus]
Mail      == [what : {"wrote", "delta", "done", "roster", "record"}, who : Name,
              how : Hows \cup {"ok", "error", ""}]
Got       == {"none", "part", "answer", "error", "started", "task"}
Rec       == [status : RecStatus, got : Got, told : BOOLEAN]
Slot      == {"none", "runs", "done"}
\* The types of the fields, by name, which the provers need not look into.
Bool       == BOOLEAN
Holder     == {"none", "client", "stand"}
Hook       == {"none", "calls", "ending", "freeing", "spare"}
FlagSet    == SUBSET Flag
Error      == {"none", "cancelled", "failed"}
RecNo      == 0 .. MaxRecs
JobState   == {"none", "waits", "text", "calls", "answered", "over"}
TurnNo     == 0 .. MaxTurns
SlotSeq    == Seq(Slot)
Count      == Nat
CallNo     == 0 .. Calls
CountSet   == SUBSET Nat
ReplyKind  == {"none", "answer", "error"}
LifeNo     == 0 .. MaxLives
NameSet    == SUBSET Name
StreamEnd  == {"open", "ended"}
RecTable   == [1 .. MaxRecs -> Rec]
WalSeq     == Seq(Entry)
DiskSet    == SUBSET Entry
HomeSet    == SUBSET HomeJob
MailSet    == SUBSET Mail
Struct ==
  [spare : Bool, phase : Phase, s : Holder, hook : Hook, flags : FlagSet, step : Bool,
   timer : Bool, promote : Bool, due : Bool, reaper : Bool, error : Error, task : RecNo,
   admitted : RecNo, archive : Bool, lost : Bool, job : JobState, turn : TurnNo,
   slots : SlotSeq, part : Count, launched : CallNo, intents : CountSet, reply : ReplyKind,
   life : LifeNo, opt : Client, names : NameSet, listed : Count, stream : StreamEnd,
   recs : RecTable, wal : WalSeq, disk : DiskSet, home : HomeSet, post : MailSet,
   drain : Bool, draining : Bool, exits : Bool, gone : Bool]

\* Of what the messages are, and of which request; a name of a job is new.
Posted(x) ==
  /\ \A p \in x.post :
       /\ p.what \in {"delta", "done"} <=> p.who.what = "call"
       /\ p.what = "wrote" <=> p.who.what \in Awaits
       /\ p.what = "roster" <=> p.who.what = "roster"
       /\ p.what = "record" <=> p.who.what = "record"
       /\ p.what = "done" => p.how \in Hows
       /\ p.what = "delta" => p.how = ""
       /\ p.who.life <= x.life
       /\ p.who.what = "call" /\ p.who.life = x.life /\ ~x.spare => p.who.turn <= x.turn
  /\ \A i \in DOMAIN x.wal :
       LET w == x.wal[i].who IN w # NoName => w.what \in Awaits /\ w.life <= x.life

\* The names by which the request is found; it waits for one write at most, and
\* for one job or one tool of its own.
Waiting(x)   == {m \in x.names : m.what \in Awaits}
CallNames(x) == {m \in x.names : m.what = "call" \/ (m.what = "tool" /\ m.n = 0)}
Names(x) ==
  /\ \A m \in x.names :
       /\ m.life = x.life
       /\ m.what = "record" => m.n \in {x.task, x.admitted} \ {0} /\ m.turn = 0
       /\ m.what = "finished" => x.phase = "END"
       /\ m.what \in Awaits \ {"finished"} =>
            x.phase = "JOURNAL" \/ (x.phase = "SEND" /\ x.draining)
       /\ m.what \in {"submitted", "intended"} => x.turn < MaxTurns
  /\ \A m, n \in Waiting(x) : m = n

\* Records that work are of the request, which is in mcp->tasks with one.
Owns(x) ==
  /\ \A r \in 1 .. MaxRecs : x.recs[r].status = "working" => r \in {x.task, x.admitted}
  /\ x.listed = IF x.task = 0 THEN 0 ELSE 1

\* A stream is the client's, or a record stands in for it.
Streams(x) ==
  /\ x.s # "client" => x.stream = "ended"
  /\ x.s = "stand" /\ x.phase # "FREE" => x.task # 0

Sound(x) ==
  /\ x \in Struct /\ Posted(x) /\ Names(x) /\ Owns(x) /\ Streams(x)
  /\ x.drain => x.draining
  /\ Len(x.slots) <= Calls /\ ~x.gone

\* What mcp_req_finish() can end.
Base(x) ==
  /\ Sound(x) /\ ~x.spare /\ x.phase # "FREE" /\ x.life # 0
  /\ \A j \in x.home : j.name.life = x.life
  /\ x.job = "none" => x.home = {} /\ "DELTA" \notin x.flags

\* A request that may go on.  It may yet become a task, or a job, not both.
Regular(o) == ~(o.tool = "ask" /\ o.background /\ o.journal /\ o.tasks /\ ~o.stream)
Going(x) ==
  /\ Base(x) /\ x.phase # "END" /\ x.hook \in {"none", "calls"} /\ x.s \in {"client", "stand"}
  /\ Regular(x.opt)
  /\ x.promote => x.task = 0 /\ x.opt.tasks /\ ~x.opt.stream
  /\ x.admitted # 0 => x.opt.tool = "ask" /\ x.opt.background /\ x.opt.journal
  /\ "DETACH_PENDING" \in x.flags =>
       x.task = 0 /\ x.opt.tool = "ask" /\ x.opt.background /\ x.opt.journal

\* The job: none at home, or the one whose completion is awaited.  Its text
\* goes up as a message, then as a flag, before it runs on.  A tool's answer is
\* awaited with no job.
Quiet(x) ==
  /\ x.job # "waits" /\ CallNames(x) = {} /\ x.home = {} /\ "DELTA" \notin x.flags
Word(x, m, what) == \E p \in x.post : p.who = m /\ p.what = what
Asked(x) ==
  /\ x.job = "waits" /\ x.phase = "CALL"
  /\ \E m \in x.names :
       /\ CallNames(x) = {m} /\ m.what = "call" /\ m.turn = x.turn
       /\ Word(x, m, "done") => ~Word(x, m, "delta")
       /\ Word(x, m, "done") => x.home = {} /\ "DELTA" \notin x.flags
       /\ ~Word(x, m, "done") => \E d \in BOOLEAN, at \in {"runs", "held"} :
            /\ x.home = {[name |-> m, at |-> at, durable |-> d]}
            /\ Word(x, m, "delta") => at = "held" /\ "DELTA" \notin x.flags
            /\ "DELTA" \in x.flags => at = "held" /\ "SSE" \in x.flags
Parked(x) ==
  /\ x.job # "waits" /\ x.phase = "TOOL" /\ x.home = {} /\ "DELTA" \notin x.flags
  /\ \E m \in x.names : CallNames(x) = {m} /\ m.what = "tool"
Calling(x) == Quiet(x) \/ Asked(x) \/ Parked(x)

\* A request that has begun, and that works.
Unread == {"BODY", "PARSE", "DISPATCH"}
Untouched(x) ==
  /\ x.task = 0 /\ x.admitted = 0 /\ ~x.promote /\ x.names = {} /\ x.job = "none"
  /\ x.flags \cap {"DETACH_PENDING", "SSE"} = {} /\ x.hook = "none"
Works(x) ==
  /\ Going(x) /\ Calling(x)
  /\ x.phase \in Unread => Untouched(x)
  /\ x.phase \in Unread \cup {"BUILD", "ARGS", "TURN", "CALLS", "RESULT"} => x.turn < MaxTurns
  /\ x.phase = "SEND" => x.hook = "none"

\* What is left of it once it has let go: it is spare, or freed a slice at a
\* time, or its end is being written.
Left(x) ==
  ~x.timer /\ x.job = "none" /\ x.slots = <<>> /\ x.home = {} /\ "DELTA" \notin x.flags
Ended(x) ==
  /\ Left(x)
  /\ x.spare => /\ x.names = {} /\ ~x.step /\ x.hook = "spare" /\ x.s = "none"
                /\ x.task = 0 /\ x.admitted = 0 /\ x.flags = {} /\ ~x.reaper
  /\ ~x.spare /\ x.phase = "FREE" =>
       x.names = {} /\ x.hook = "freeing" /\ x.task = 0 /\ x.admitted = 0
  /\ ~x.spare /\ x.phase = "END" =>
       x.hook = "ending" /\ x.life # 0 /\ \A m \in x.names : m.what \in {"record", "finished"}

Late(x) == x.spare \/ x.phase \in {"END", "FREE"}
Good(x) == IF Late(x) THEN Sound(x) /\ Ended(x) ELSE Works(x)

\* After mcp_destroy() nothing changes.
Gone(x) ==
  \E y : Good(y) /\ y.spare /\ x = [y EXCEPT !.gone = TRUE, !.wal = <<>>]
ReqInv(x) == Good(x) \/ Gone(x)

-----------------------------------------------------------------------------
(* What the types say.                                                     *)

LEMMA Given ==
  /\ MaxLives \in Nat /\ MaxTurns \in Nat \ {0} /\ MaxRecs \in Nat /\ Calls \in Nat
BY RequestAssumption

FieldNames ==
  {"spare", "phase", "s", "hook", "flags", "step", "timer", "promote", "due", "reaper",
   "error", "task", "admitted", "archive", "lost", "job", "turn", "slots", "part",
   "launched", "intents", "reply", "life", "opt", "names", "listed", "stream", "recs",
   "wal", "disk", "home", "post", "drain", "draining", "exits", "gone"}

\* y differs from x in the fields F at most.
Same(x, y, F) == \A f \in FieldNames \ F : y[f] = x[f]

LEMMA Domain == \A x \in Struct : DOMAIN x = FieldNames
BY DEF Struct, FieldNames

LEMMA Fields ==
  ASSUME NEW x \in Struct
  PROVE  /\ x.spare \in BOOLEAN /\ x.phase \in Phase /\ x.s \in {"none", "client", "stand"}
         /\ x.hook \in {"none", "calls", "ending", "freeing", "spare"}
         /\ x.flags \in SUBSET Flag /\ x.step \in BOOLEAN /\ x.timer \in BOOLEAN
         /\ x.promote \in BOOLEAN /\ x.due \in BOOLEAN /\ x.reaper \in BOOLEAN
         /\ x.error \in {"none", "cancelled", "failed"} /\ x.task \in 0 .. MaxRecs
         /\ x.admitted \in 0 .. MaxRecs /\ x.archive \in BOOLEAN /\ x.lost \in BOOLEAN
         /\ x.job \in {"none", "waits", "text", "calls", "answered", "over"}
         /\ x.turn \in 0 .. MaxTurns /\ x.slots \in Seq(Slot) /\ x.part \in Nat
         /\ x.launched \in 0 .. Calls /\ x.intents \in SUBSET Nat
         /\ x.reply \in {"none", "answer", "error"} /\ x.life \in 0 .. MaxLives
         /\ x.opt \in Client /\ x.names \in SUBSET Name /\ x.listed \in Nat
         /\ x.stream \in {"open", "ended"} /\ x.recs \in [1 .. MaxRecs -> Rec]
         /\ x.wal \in Seq(Entry) /\ x.disk \in SUBSET Entry /\ x.home \in SUBSET HomeJob
         /\ x.post \in SUBSET Mail /\ x.drain \in BOOLEAN /\ x.draining \in BOOLEAN
         /\ x.exits \in BOOLEAN /\ x.gone \in BOOLEAN
BY DEF Struct, Bool, Holder, Hook, FlagSet, Error, RecNo, JobState, TurnNo, SlotSeq, Count,
       CallNo, CountSet, ReplyKind, LifeNo, NameSet, StreamEnd, RecTable, WalSeq, DiskSet,
       HomeSet, MailSet

-----------------------------------------------------------------------------
(* How a request is let go of.                                             *)

LEMMA DropIs ==
  ASSUME NEW x \in Struct
  PROVE  LET y == ReqDrop(x) IN
         /\ y \in Struct
         /\ Same(x, y, {"names", "job", "slots", "flags", "home"})
         /\ y.names = {m \in x.names : m.what \notin {"call", "tool"}}
         /\ y.job = "none" /\ y.slots = <<>>
         /\ y.flags = IF x.job = "none" THEN x.flags ELSE x.flags \ {"DELTA"}
         /\ y.home = {j \in x.home : x.job = "none" \/ j.name.life # x.life}
<1> DEFINE n == {m \in x.names : m.what \notin {"call", "tool"}}
           f == IF x.job = "none" THEN x.flags ELSE x.flags \ {"DELTA"}
           h == {j \in x.home : x.job = "none" \/ j.name.life # x.life}
           e == <<>>
           y == [x EXCEPT !.names = n, !.job = "none", !.slots = e, !.flags = f, !.home = h]
<1>1. n \in NameSet /\ f \in FlagSet /\ h \in HomeSet /\ e \in SlotSeq
  BY Fields DEF NameSet, FlagSet, HomeSet, SlotSeq
<1>2. x.names \ {m \in x.names : m.what \in {"call", "tool"}} = n
  OBVIOUS
<1> HIDE DEF n, f, h, e
<1>3. y \in Struct
  BY <1>1, ZenonT(40) DEF Struct, JobState
<1>4. ReqDrop(x) = y
  BY <1>2 DEF ReqDrop, ForgetAll, Forget, Struct, f, h, e
<1>5. /\ Same(x, y, {"names", "job", "slots", "flags", "home"})
      /\ y.names = n /\ y.job = "none" /\ y.slots = e /\ y.flags = f /\ y.home = h
  BY Domain DEF Same, FieldNames
<1> QED BY <1>3, <1>4, <1>5 DEF e, n, f, h

\* What mcp_req_finish() has let go of before the records and the end.
Emptied1(x) ==
  ForgetAll(Unwait(Leave(ReqDrop([x EXCEPT !.timer = FALSE, !.flags = @ \ {"TICK"}]))), Awaits)

LEMMA EmptiedIs ==
  ASSUME NEW x \in Struct
  PROVE  LET y == Emptied1(x) IN
         /\ y \in Struct
         /\ Same(x, y, {"names", "job", "slots", "timer", "hook", "flags", "home"})
         /\ y.names = {m \in x.names : m.what = "record"}
         /\ y.job = "none" /\ y.slots = <<>> /\ y.timer = FALSE /\ y.hook = "none"
         /\ y.flags \subseteq x.flags /\ (x.job # "none" => "DELTA" \notin y.flags)
         /\ y.home = {j \in x.home : x.job = "none" \/ j.name.life # x.life}
<1> DEFINE a == [x EXCEPT !.timer = FALSE, !.flags = @ \ {"TICK"}]
           d == ReqDrop(a)
           y == Emptied1(x)
           n == {m \in x.names : m.what = "record"}
<1>1. /\ a \in Struct /\ Same(x, a, {"timer", "flags"}) /\ a.timer = FALSE
      /\ a.flags \subseteq x.flags
  <2> DEFINE f == x.flags \ {"TICK"}
             b == [x EXCEPT !.timer = FALSE, !.flags = f]
  <2>1. f \in FlagSet
    BY Fields DEF FlagSet
  <2> HIDE DEF f
  <2>2. b \in Struct
    BY <2>1, ZenonT(40) DEF Struct, Bool
  <2>3. Same(x, b, {"timer", "flags"}) /\ b.timer = FALSE /\ b.flags = f
    BY Domain DEF Same, FieldNames
  <2> QED BY <2>2, <2>3 DEF f
<1>2. /\ d \in Struct /\ Same(a, d, {"names", "job", "slots", "flags", "home"})
      /\ d.names = {m \in a.names : m.what \notin {"call", "tool"}}
      /\ d.job = "none" /\ d.slots = <<>>
      /\ d.flags = (IF a.job = "none" THEN a.flags ELSE a.flags \ {"DELTA"})
      /\ d.home = {j \in a.home : a.job = "none" \/ j.name.life # a.life}
  BY <1>1, DropIs
<1>3. /\ a.job = x.job /\ a.names = x.names /\ a.home = x.home /\ a.life = x.life
  BY <1>1 DEF Same, FieldNames
<1> HIDE DEF a, d
<1>4. /\ d.names = {m \in x.names : m.what \notin {"call", "tool"}}
      /\ d.flags \subseteq x.flags /\ (x.job # "none" => "DELTA" \notin d.flags)
      /\ d.home = {j \in x.home : x.job = "none" \/ j.name.life # x.life}
      /\ Same(x, d, {"names", "job", "slots", "timer", "flags", "home"}) /\ d.timer = FALSE
  <2>1. /\ d.names = {m \in x.names : m.what \notin {"call", "tool"}}
        /\ d.home = {j \in x.home : x.job = "none" \/ j.name.life # x.life}
    BY <1>2, <1>3
  <2>2. d.flags \subseteq x.flags /\ (x.job # "none" => "DELTA" \notin d.flags)
    BY <1>1, <1>2, <1>3
  <2>3. Same(x, d, {"names", "job", "slots", "timer", "flags", "home"}) /\ d.timer = FALSE
    BY <1>1, <1>2 DEF Same, FieldNames
  <2> QED BY <2>1, <2>2, <2>3
<1>5. (d.names \ {m \in d.names : m.what \in {"roster"}})
         \ {m \in d.names \ {m \in d.names : m.what \in {"roster"}} : m.what \in Awaits} = n
  <2>1. \A m \in x.names : m.what \in Kinds
    BY Fields DEF Name, Kinds
  <2> QED BY <1>4, <2>1 DEF Kinds, Awaits
<1> DEFINE b == [d EXCEPT !.names = n, !.hook = "none"]
<1>6. y = b
  BY <1>2, <1>5 DEF Emptied1, ForgetAll, Forget, Unwait, Leave, Struct, d, a
<1>7. n \in NameSet
  BY Fields DEF NameSet
<1> HIDE DEF n
<1>8. b \in Struct
  BY <1>2, <1>7, ZenonT(40) DEF Struct, Hook
<1>9. Same(d, b, {"names", "hook"}) /\ b.names = n /\ b.hook = "none"
  BY <1>2, Domain DEF Same, FieldNames
<1>10. /\ b.job = d.job /\ b.slots = d.slots /\ b.timer = d.timer /\ b.flags = d.flags
       /\ b.home = d.home
  BY <1>9 DEF Same, FieldNames
<1>11. Same(x, b, {"names", "job", "slots", "timer", "hook", "flags", "home"})
  BY <1>4, <1>9 DEF Same
<1> HIDE DEF b
<1> QED BY <1>2, <1>4, <1>6, <1>8, <1>9, <1>10, <1>11 DEF n

LEMMA HowEndedIs == \A x : HowEnded(x) \in {"cancelled", "failed", "completed"}
BY DEF HowEnded

\* What Posted is about.
LEMMA PostedSame ==
  ASSUME NEW x, Posted(x), NEW y, y.post = x.post, y.wal = x.wal, y.life = x.life,
         y.turn = x.turn, y.spare = x.spare
  PROVE  Posted(y)
<1>1. ASSUME NEW p \in y.post
      PROVE  /\ p.what \in {"delta", "done"} <=> p.who.what = "call"
             /\ p.what = "wrote" <=> p.who.what \in Awaits
             /\ p.what = "roster" <=> p.who.what = "roster"
             /\ p.what = "record" <=> p.who.what = "record"
             /\ p.what = "done" => p.how \in Hows
             /\ p.what = "delta" => p.how = ""
             /\ p.who.life <= y.life
             /\ p.who.what = "call" /\ p.who.life = y.life /\ ~y.spare => p.who.turn <= y.turn
  BY <1>1 DEF Posted
<1>2. \A i \in DOMAIN y.wal :
        LET w == y.wal[i].who IN w # NoName => w.what \in Awaits /\ w.life <= y.life
  BY DEF Posted
<1> QED BY <1>1, <1>2 DEF Posted

LEMMA QueueIs ==
  ASSUME NEW x \in Struct, NEW e \in Entry
  PROVE  LET y == Queue(x, e) IN
         /\ y \in Struct /\ Same(x, y, {"wal"})
         /\ Posted(x) /\ (e.who # NoName => e.who.what \in Awaits /\ e.who.life <= x.life)
            => Posted(y)
<1> DEFINE w == Append(x.wal, e)
           y == [x EXCEPT !.wal = w]
<1>1. /\ w \in Seq(Entry) /\ Len(w) = Len(x.wal) + 1 /\ Len(x.wal) \in Nat
      /\ DOMAIN w = 1 .. Len(w) /\ DOMAIN x.wal = 1 .. Len(x.wal)
      /\ \A i \in 1 .. Len(x.wal) : w[i] = x.wal[i]
      /\ w[Len(x.wal) + 1] = e
  BY Fields
<1> HIDE DEF w
<1>2. w \in WalSeq
  BY <1>1 DEF WalSeq
<1>7. y \in Struct
  BY <1>2 DEF Struct
<1>3. Same(x, y, {"wal"}) /\ y.wal = w
  BY Domain DEF Same, FieldNames
<1>4. y.post = x.post /\ y.life = x.life /\ y.turn = x.turn /\ y.spare = x.spare
  BY <1>3 DEF Same, FieldNames
<1>5. Queue(x, e) = y
  BY DEF Queue, w
<1> HIDE DEF y
<1>6. ASSUME Posted(x), e.who # NoName => e.who.what \in Awaits /\ e.who.life <= x.life
      PROVE  Posted(y)
  <2>1. ASSUME NEW i \in DOMAIN y.wal, y.wal[i].who # NoName
        PROVE  y.wal[i].who.what \in Awaits /\ y.wal[i].who.life <= x.life
    <3>1. CASE i \in 1 .. Len(x.wal)
      BY <1>1, <1>3, <1>6, <2>1, <3>1 DEF Posted
    <3>2. CASE i = Len(x.wal) + 1
      BY <1>1, <1>3, <1>6, <2>1, <3>2
    <3>3. i \in 1 .. Len(x.wal) + 1
      BY <1>1, <1>3
    <3> QED BY <1>1, <3>1, <3>2, <3>3
  <2> QED BY <1>4, <1>6, <2>1, ZenonT(40) DEF Posted
<1> QED BY <1>3, <1>5, <1>6, <1>7

LEMMA RecordEndIs ==
  ASSUME NEW x \in Struct, NEW r \in 1 .. MaxRecs, NEW status \in RecStatus
  PROVE  LET y == RecordEnd(x, r, status) IN
         /\ y \in Struct /\ Same(x, y, {"names", "recs"})
         /\ y.names = x.names \ {Record(x, r)}
         /\ \A q \in 1 .. MaxRecs : q # r => y.recs[q] = x.recs[q]
         /\ y.recs[r].status = IF x.recs[r].status = "working" THEN status
                               ELSE x.recs[r].status
<1> DEFINE n == x.names \ {Record(x, r)}
           st == IF x.recs[r].status = "working" THEN status ELSE x.recs[r].status
           v == [x.recs EXCEPT ![r].status = st]
           y == [x EXCEPT !.names = n, !.recs = v]
<1>1. n \in NameSet
  BY Fields DEF NameSet
<1>2. x.recs \in [1 .. MaxRecs -> Rec]
  BY Fields
<1>3. x.recs[r] \in Rec /\ st \in RecStatus
  BY <1>2 DEF Rec
<1> HIDE DEF n, st
<1>4. v \in [1 .. MaxRecs -> Rec] /\ v[r].status = st
      /\ \A q \in 1 .. MaxRecs : q # r => v[q] = x.recs[q]
  BY <1>2, <1>3 DEF Rec
<1>5. RecordEnd(x, r, status) = y
  BY DEF RecordEnd, Forget, n, st, Struct
<1>8. v \in RecTable
  BY <1>4 DEF RecTable
<1> HIDE DEF v
<1>6. y \in Struct
  BY <1>1, <1>8 DEF Struct
<1>7. Same(x, y, {"names", "recs"}) /\ y.names = n /\ y.recs = v
  BY Domain DEF Same, FieldNames
<1> HIDE DEF y
<1> QED BY <1>4, <1>5, <1>6, <1>7 DEF n, st

\* A request of which only the records, the stream and the end are left.
Bare(x) == Base(x) /\ Left(x) /\ \A m \in x.names : m.what = "record"

LEMMA BareSame ==
  ASSUME NEW x, Bare(x), NEW y \in Struct, Posted(y),
         Same(x, y, {"wal", "error", "flags", "step", "reaper"}),
         "DELTA" \notin y.flags
  PROVE  Bare(y)
<1>1. /\ y.spare = x.spare /\ y.phase = x.phase /\ y.life = x.life /\ y.home = x.home
      /\ y.job = x.job /\ y.names = x.names /\ y.task = x.task /\ y.admitted = x.admitted
      /\ y.turn = x.turn /\ y.draining = x.draining /\ y.recs = x.recs /\ y.listed = x.listed
      /\ y.s = x.s /\ y.stream = x.stream /\ y.drain = x.drain /\ y.slots = x.slots
      /\ y.gone = x.gone /\ y.timer = x.timer
  BY DEF Same, FieldNames
<1>2. Names(y)
  BY <1>1 DEF Bare, Base, Sound, Names, Waiting
<1>3. Owns(y) /\ Streams(y)
  BY <1>1 DEF Bare, Base, Sound, Owns, Streams
<1> QED BY <1>1, <1>2, <1>3 DEF Bare, Base, Sound, Left

LEMMA EmptiedKeeps ==
  ASSUME NEW x, Base(x)
  PROVE  Bare(Emptied1(x))
<1> DEFINE y == Emptied1(x)
<1>1. x \in Struct
  BY DEF Base, Sound
<1>2. /\ y \in Struct
      /\ Same(x, y, {"names", "job", "slots", "timer", "hook", "flags", "home"})
      /\ y.names = {m \in x.names : m.what = "record"}
      /\ y.job = "none" /\ y.slots = <<>> /\ y.timer = FALSE /\ y.hook = "none"
      /\ y.flags \subseteq x.flags /\ (x.job # "none" => "DELTA" \notin y.flags)
      /\ y.home = {j \in x.home : x.job = "none" \/ j.name.life # x.life}
  BY <1>1, EmptiedIs
<1> HIDE DEF y
<1>3. /\ y.spare = x.spare /\ y.phase = x.phase /\ y.life = x.life /\ y.post = x.post
      /\ y.wal = x.wal /\ y.task = x.task /\ y.admitted = x.admitted
      /\ y.turn = x.turn /\ y.draining = x.draining /\ y.recs = x.recs /\ y.listed = x.listed
      /\ y.s = x.s /\ y.stream = x.stream /\ y.drain = x.drain /\ y.gone = x.gone
  BY <1>2 DEF Same, FieldNames
<1>4. y.home = {} /\ "DELTA" \notin y.flags
  BY <1>2 DEF Base
<1>5. Posted(y)
  <2>1. Posted(x)
    BY DEF Base, Sound
  <2> QED BY <1>3, <2>1, PostedSame
<1>6. Names(y)
  <2>1. Waiting(y) = {}
    BY <1>2 DEF Waiting, Awaits
  <2> QED BY <1>2, <1>3, <2>1 DEF Base, Sound, Names, Awaits
<1>7. Owns(y) /\ Streams(y)
  BY <1>3 DEF Base, Sound, Owns, Streams
<1>8. Len(y.slots) <= Calls
  BY <1>2, Given
<1> QED BY <1>2, <1>3, <1>4, <1>5, <1>6, <1>7, <1>8 DEF Bare, Base, Sound, Left, y

LEMMA EndPutKeeps ==
  ASSUME NEW x, Bare(x), NEW c
  PROVE  /\ Bare(EndPut(x, c))
         /\ Same(x, EndPut(x, c), {"wal", "error", "flags"})
<1> DEFINE f == x.flags \cup {"ARCHIVED_END"}
           w == [x EXCEPT !.flags = f]
           u == [w EXCEPT !.error = "failed"]
           e == [who |-> NoName, kind |-> "put", rec |-> x.task, status |-> HowEnded(x)]
           q == Queue(w, e)
<1>1. x \in Struct /\ Posted(x) /\ "DELTA" \notin x.flags
  BY DEF Bare, Base, Sound, Left
<1>2. f \in FlagSet /\ "DELTA" \notin f
  BY <1>1, Fields DEF Flag, FlagSet
<1>3. e \in Entry
  <2>1. HowEnded(x) \in RecStatus
    BY HowEndedIs DEF RecStatus
  <2>2. x.task \in 0 .. MaxRecs
    BY <1>1, Fields
  <2> HIDE DEF e
  <2> QED BY <2>1, <2>2 DEF Entry, e
<1>4. e.who = NoName
  OBVIOUS
<1> HIDE DEF f, e
<1>5. w \in Struct
  BY <1>1, <1>2 DEF Struct
<1>6. Same(x, w, {"flags"}) /\ w.flags = f
  BY <1>1, Domain DEF Same, FieldNames
<1> HIDE DEF w
<1>7. u \in Struct
  BY <1>5 DEF Struct, Error
<1>8. Same(w, u, {"error"})
  BY <1>5, Domain DEF Same, FieldNames
<1>9. Posted(w) /\ Posted(u)
  <2>1. /\ w.post = x.post /\ w.wal = x.wal /\ w.life = x.life /\ w.turn = x.turn
        /\ w.spare = x.spare
    BY <1>6 DEF Same, FieldNames
  <2>2. /\ u.post = x.post /\ u.wal = x.wal /\ u.life = x.life /\ u.turn = x.turn
        /\ u.spare = x.spare
    BY <1>8, <2>1 DEF Same, FieldNames
  <2> QED BY <1>1, <2>1, <2>2, ZenonT(40) DEF Posted
<1>10. q \in Struct /\ Same(w, q, {"wal"}) /\ Posted(q)
  BY <1>3, <1>4, <1>5, <1>9, QueueIs
<1> HIDE DEF u, q
<1>11. EndPut(x, c) = x \/ EndPut(x, c) = u \/ EndPut(x, c) = q
  BY DEF EndPut, u, w, q, f, e, ArchivePut
<1>12. Bare(u) /\ Same(x, u, {"wal", "error", "flags"})
  <2>1. u.flags = f
    BY <1>6, <1>8 DEF Same, FieldNames
  <2>2. /\ Same(x, u, {"wal", "error", "flags", "step", "reaper"})
       /\ Same(x, u, {"wal", "error", "flags"})
    BY <1>6, <1>8 DEF Same
  <2> QED BY <1>2, <1>7, <1>9, <2>1, <2>2, BareSame
<1>13. Bare(q) /\ Same(x, q, {"wal", "error", "flags"})
  <2>1. q.flags = f
    BY <1>6, <1>10 DEF Same, FieldNames
  <2>2. /\ Same(x, q, {"wal", "error", "flags", "step", "reaper"})
       /\ Same(x, q, {"wal", "error", "flags"})
    BY <1>6, <1>10 DEF Same
  <2> QED BY <1>2, <1>10, <2>1, <2>2, BareSame
<1>14. Same(x, x, {"wal", "error", "flags"})
  BY DEF Same
<1> QED BY <1>11, <1>12, <1>13, <1>14

LEMMA AdmittedEndKeeps ==
  ASSUME NEW x, Bare(x)
  PROVE  LET y == AdmittedEnd(x) IN
         /\ Bare(y) /\ y.admitted = 0 /\ Same(x, y, {"names", "recs", "admitted"})
<1>1. x \in Struct
  BY DEF Bare, Base, Sound
<1>2. CASE x.admitted = 0
  BY <1>2 DEF AdmittedEnd, Same
<1>3. CASE x.admitted # 0
  <2> DEFINE a == x.admitted
             z == RecordEnd(x, a, "cancelled")
             y == [z EXCEPT !.admitted = 0]
  <2>1. a \in 1 .. MaxRecs /\ "cancelled" \in RecStatus /\ 0 \in RecNo
    BY <1>1, <1>3, Fields, Given DEF RecStatus, RecNo
  <2> HIDE DEF a
  <2>2. /\ z \in Struct /\ Same(x, z, {"names", "recs"})
        /\ z.names = x.names \ {Record(x, a)}
        /\ \A q \in 1 .. MaxRecs : q # a => z.recs[q] = x.recs[q]
        /\ z.recs[a].status = IF x.recs[a].status = "working" THEN "cancelled"
                              ELSE x.recs[a].status
    BY <1>1, <2>1, RecordEndIs
  <2>3. AdmittedEnd(x) = y
    BY <1>3 DEF AdmittedEnd, a
  <2> HIDE DEF z
  <2>4. y \in Struct
    BY <2>1, <2>2 DEF Struct
  <2>5. Same(z, y, {"admitted"}) /\ y.admitted = 0
    BY <2>2, Domain DEF Same, FieldNames
  <2> HIDE DEF y
  <2>6. Same(x, y, {"names", "recs", "admitted"}) /\ y.names = z.names /\ y.recs = z.recs
    BY <2>2, <2>5 DEF Same, FieldNames
  <2>7. /\ y.spare = x.spare /\ y.phase = x.phase /\ y.life = x.life /\ y.home = x.home
        /\ y.job = x.job /\ y.task = x.task /\ y.post = x.post /\ y.wal = x.wal
        /\ y.turn = x.turn /\ y.draining = x.draining /\ y.listed = x.listed
        /\ y.s = x.s /\ y.stream = x.stream /\ y.drain = x.drain /\ y.slots = x.slots
        /\ y.gone = x.gone /\ y.timer = x.timer /\ y.flags = x.flags
    BY <2>6 DEF Same, FieldNames
  <2>8. Posted(y) /\ Streams(y)
    BY <2>7, PostedSame DEF Bare, Base, Sound, Streams
  <2>9. \A m \in y.names : m.what = "record" /\ m.n = x.task /\ m.n # 0
    <3> SUFFICES ASSUME NEW m \in y.names PROVE m.what = "record" /\ m.n = x.task /\ m.n # 0
      OBVIOUS
    <3>1. m \in x.names /\ m # Record(x, a)
      BY <2>2, <2>6
    <3>2. m.what = "record" /\ m.life = x.life /\ m.turn = 0 /\ m.n \in {x.task, a} \ {0}
      BY <3>1 DEF Bare, Base, Sound, Names, a
    <3>3. m \in Name
      BY <1>1, <3>1, Fields
    <3>4. m.n # a
      BY <3>1, <3>2, <3>3 DEF Record, Name
    <3> QED BY <3>2, <3>4
  <2>10. Names(y)
    <3>1. Waiting(y) = {}
      BY <2>9 DEF Waiting, Awaits
    <3> QED BY <2>2, <2>5, <2>6, <2>7, <2>9, <3>1 DEF Bare, Base, Sound, Names, Awaits
  <2>11. Owns(y)
    <3>1. ASSUME NEW r \in 1 .. MaxRecs, y.recs[r].status = "working"
          PROVE  r = x.task
      BY <2>2, <2>6, <3>1 DEF Bare, Base, Sound, Owns, a
    <3> QED BY <2>7, <3>1 DEF Bare, Base, Sound, Owns
  <2> QED BY <2>3, <2>4, <2>5, <2>6, <2>7, <2>8, <2>9, <2>10, <2>11 DEF Bare, Base, Sound, Left
<1> QED BY <1>2, <1>3

\* A request of which nothing is left but what there is to free.
Nothing(x) ==
  /\ x \in Struct /\ Posted(x) /\ ~x.spare /\ ~x.gone /\ Left(x) /\ x.names = {}
  /\ \A r \in 1 .. MaxRecs : x.recs[r].status # "working"
  /\ x.task = 0 /\ x.admitted = 0 /\ x.listed = 0
  /\ x.s # "client" => x.stream = "ended"
  /\ x.drain => x.draining

LEMMA TaskEndKeeps ==
  ASSUME NEW x, Bare(x), x.admitted = 0
  PROVE  LET y == TaskEnd(x) IN
         Nothing(y) /\ y.draining = x.draining /\ y.phase = x.phase
<1>1. x \in Struct
  BY DEF Bare, Base, Sound
<1>2. CASE x.task = 0
  <2>1. x.names = {}
    BY <1>2 DEF Bare, Base, Sound, Names
  <2>2. \A r \in 1 .. MaxRecs : x.recs[r].status # "working"
    BY <1>2 DEF Bare, Base, Sound, Owns
  <2> QED BY <1>2, <2>1, <2>2 DEF TaskEnd, Nothing, Bare, Base, Sound, Owns, Streams
<1>3. CASE x.task # 0
  <2> DEFINE a == x.task
             st == IF "SUSPENDED" \in x.flags THEN "removed" ELSE HowEnded(x)
             z == RecordEnd(x, a, st)
             t == x.archive /\ ~x.draining
             l == z.listed - 1
             v == [z.recs EXCEPT ![a].told = t]
             o == 0
             y == [z EXCEPT !.task = o, !.listed = l, !.recs = v]
  <2>1. a \in 1 .. MaxRecs /\ o \in RecNo
    BY <1>1, <1>3, Fields, Given DEF RecNo
  <2>2. st \in RecStatus /\ st # "working"
    BY HowEndedIs DEF RecStatus
  <2> HIDE DEF a, st
  <2>3. /\ z \in Struct /\ Same(x, z, {"names", "recs"})
        /\ z.names = x.names \ {Record(x, a)}
        /\ \A q \in 1 .. MaxRecs : q # a => z.recs[q] = x.recs[q]
        /\ z.recs[a].status = IF x.recs[a].status = "working" THEN st
                              ELSE x.recs[a].status
    BY <1>1, <2>1, <2>2, RecordEndIs
  <2>4. t \in BOOLEAN
    OBVIOUS
  <2> HIDE DEF z, t
  <2>5. TaskEnd(x) = y
    BY <1>3, <2>3 DEF TaskEnd, a, st, z, t, Struct
  <2>6. l \in Count /\ l = 0
    <3>1. z.listed = x.listed /\ x.listed = 1
      BY <1>3, <2>3 DEF Same, FieldNames, Bare, Base, Sound, Owns
    <3> QED BY <3>1 DEF Count
  <2>7. z.recs \in [1 .. MaxRecs -> Rec]
    BY <2>3, Fields
  <2>8. /\ v \in RecTable /\ v[a].status = z.recs[a].status
        /\ \A q \in 1 .. MaxRecs : q # a => v[q] = z.recs[q]
    BY <2>1, <2>4, <2>7 DEF Rec, RecTable
  <2> HIDE DEF l, v, o
  <2>9. y \in Struct
    BY <2>1, <2>3, <2>6, <2>8, ZenonT(40) DEF Struct
  <2>10. Same(z, y, {"task", "listed", "recs"}) /\ y.task = 0 /\ y.listed = l /\ y.recs = v
    BY <2>3, Domain DEF Same, FieldNames, o
  <2> HIDE DEF y
  <2>11. /\ y.spare = x.spare /\ y.life = x.life /\ y.home = x.home /\ y.names = z.names
         /\ y.job = x.job /\ y.admitted = 0 /\ y.post = x.post /\ y.wal = x.wal
         /\ y.turn = x.turn /\ y.draining = x.draining
         /\ y.s = x.s /\ y.stream = x.stream /\ y.drain = x.drain /\ y.slots = x.slots
         /\ y.gone = x.gone /\ y.timer = x.timer /\ y.flags = x.flags
         /\ y.phase = x.phase
    BY <2>3, <2>10 DEF Same, FieldNames
  <2>12. Posted(y)
    BY <2>11, PostedSame DEF Bare, Base, Sound
  <2>13. y.names = {}
    <3> SUFFICES ASSUME NEW m \in y.names PROVE FALSE
      OBVIOUS
    <3>1. m \in x.names /\ m # Record(x, a)
      BY <2>3, <2>11
    <3>2. m.what = "record" /\ m.life = x.life /\ m.turn = 0 /\ m.n = a
      BY <3>1 DEF Bare, Base, Sound, Names, a
    <3>3. m \in Name
      BY <1>1, <3>1, Fields
    <3> QED BY <3>1, <3>2, <3>3 DEF Record, Name
  <2>14. ASSUME NEW r \in 1 .. MaxRecs PROVE y.recs[r].status # "working"
    <3>1. x.recs[r].status = "working" => r = a
      BY DEF Bare, Base, Sound, Owns, a
    <3>2. CASE r = a
      <4>1. y.recs[r].status = z.recs[a].status
        BY <2>8, <2>10, <3>2
      <4> QED BY <2>2, <2>3, <4>1
    <3>3. CASE r # a
      BY <2>3, <2>8, <2>10, <3>1, <3>3
    <3> QED BY <3>2, <3>3
  <2> QED BY <2>5, <2>6, <2>9, <2>10, <2>11, <2>12, <2>13, <2>14
          DEF Nothing, Bare, Base, Sound, Streams, Left
<1> QED BY <1>2, <1>3

LEMMA DisposeNothing ==
  ASSUME NEW x, Nothing(x), NEW c
  PROVE  LET y == Dispose(x, c) IN
         Nothing(y) /\ y.draining = x.draining /\ y.phase = x.phase
<1> DEFINE y == [x EXCEPT !.step = TRUE, !.reaper = TRUE]
<1>1. x \in Struct
  BY DEF Nothing
<1>2. y \in Struct
  BY <1>1 DEF Struct, Bool
<1>3. Same(x, y, {"step", "reaper"})
  BY <1>1, Domain DEF Same, FieldNames
<1>4. Dispose(x, c) = x \/ Dispose(x, c) = y
  BY <1>1 DEF Dispose, Ready, Struct
<1> HIDE DEF y
<1>5. /\ y.spare = x.spare /\ y.life = x.life /\ y.home = x.home /\ y.names = x.names
      /\ y.job = x.job /\ y.admitted = x.admitted /\ y.post = x.post /\ y.wal = x.wal
      /\ y.turn = x.turn /\ y.draining = x.draining /\ y.task = x.task /\ y.recs = x.recs
      /\ y.s = x.s /\ y.stream = x.stream /\ y.drain = x.drain /\ y.slots = x.slots
      /\ y.gone = x.gone /\ y.timer = x.timer /\ y.flags = x.flags /\ y.listed = x.listed
      /\ y.phase = x.phase
  BY <1>3 DEF Same, FieldNames
<1>6. Nothing(y)
  BY <1>2, <1>5, PostedSame DEF Nothing, Left
<1> QED BY <1>4, <1>5, <1>6

LEMMA BlankIs ==
  ASSUME NEW x \in Struct
  PROVE  LET y == Blank(x) IN
         /\ y \in Struct
         /\ Same(x, y, {"spare", "phase", "s", "hook", "flags", "step", "timer", "promote",
                        "due", "reaper", "error", "task", "admitted", "archive", "lost", "job",
                        "turn", "slots", "part", "launched", "intents", "reply"})
         /\ ~y.spare /\ y.phase = "BODY" /\ y.s = "client" /\ y.hook = "none" /\ y.flags = {}
         /\ ~y.step /\ ~y.promote /\ y.task = 0 /\ y.admitted = 0 /\ y.job = "none"
         /\ y.turn = 0 /\ y.slots = <<>> /\ ~y.reaper
<1> DEFINE e == <<>>
           o == {}
           i == 1
           z == 0
           a == [x EXCEPT !.spare = FALSE, !.phase = "BODY", !.s = "client", !.hook = "none",
                          !.flags = o, !.step = FALSE, !.timer = FALSE, !.promote = FALSE]
           b == [a EXCEPT !.due = FALSE, !.reaper = FALSE, !.error = "none", !.task = z,
                          !.admitted = z, !.archive = FALSE, !.lost = FALSE, !.job = "none"]
           y == [b EXCEPT !.turn = z, !.slots = e, !.part = i, !.launched = z, !.intents = o,
                          !.reply = "none"]
<1>1. /\ e \in SlotSeq /\ o \in FlagSet /\ o \in CountSet /\ i \in Count
      /\ z \in TurnNo /\ z \in CallNo /\ z \in RecNo
  BY Given DEF SlotSeq, FlagSet, CountSet, Count, TurnNo, CallNo, RecNo
<1>2. Blank(x) = y
  BY DEF Blank
<1> HIDE DEF e, o, i, z
<1>3. a \in Struct
  BY <1>1, ZenonT(40) DEF Struct, Phase, Working, Bool, Holder, Hook
<1> HIDE DEF a
<1>4. b \in Struct
  <2> DEFINE c == [a EXCEPT !.due = FALSE, !.reaper = FALSE, !.error = "none", !.task = z]
  <2>1. c \in Struct
    BY <1>1, <1>3, ZenonT(40) DEF Struct, Bool, Error
  <2>2. b = [c EXCEPT !.admitted = z, !.archive = FALSE, !.lost = FALSE, !.job = "none"]
    OBVIOUS
  <2> HIDE DEF c, b
  <2>3. z \in RecNo
    BY <1>1
  <2> DEFINE d == [c EXCEPT !.admitted = z, !.archive = FALSE]
  <2>4. d \in Struct
    BY <2>1, <2>3, ZenonT(40) DEF Struct, Bool
  <2>5. b = [d EXCEPT !.lost = FALSE, !.job = "none"]
    BY <2>2
  <2> HIDE DEF d
  <2>6. "none" \in JobState
    BY DEF JobState
  <2>7. [d EXCEPT !.lost = FALSE, !.job = "none"] \in Struct
    BY <2>4, <2>6, ZenonT(40) DEF Struct, Bool
  <2> QED BY <2>5, <2>7
<1> HIDE DEF b
<1>5. y \in Struct
  BY <1>1, <1>4 DEF Struct, ReplyKind
<1>6. /\ Same(x, a, {"spare", "phase", "s", "hook", "flags", "step", "timer", "promote"})
      /\ a.spare = FALSE /\ a.phase = "BODY" /\ a.s = "client" /\ a.hook = "none"
      /\ a.flags = o /\ a.step = FALSE /\ a.promote = FALSE
  BY Domain DEF Same, FieldNames, a
<1>7. /\ Same(a, b, {"due", "reaper", "error", "task", "admitted", "archive", "lost", "job"})
      /\ b.task = z /\ b.admitted = z /\ b.job = "none" /\ ~b.reaper
  BY <1>3, Domain DEF Same, FieldNames, b
<1>8. /\ Same(b, y, {"turn", "slots", "part", "launched", "intents", "reply"})
      /\ y.turn = z /\ y.slots = e
  BY <1>4, Domain DEF Same, FieldNames
<1> HIDE DEF y
<1>9. Same(x, y, {"spare", "phase", "s", "hook", "flags", "step", "timer", "promote",
                  "due", "reaper", "error", "task", "admitted", "archive", "lost", "job",
                  "turn", "slots", "part", "launched", "intents", "reply"})
  BY <1>6, <1>7, <1>8 DEF Same
<1>10. /\ y.spare = FALSE /\ y.phase = "BODY" /\ y.s = "client" /\ y.hook = "none"
       /\ y.flags = o /\ y.step = FALSE /\ y.promote = FALSE
       /\ y.task = z /\ y.admitted = z /\ y.job = "none" /\ ~y.reaper
  BY <1>6, <1>7, <1>8 DEF Same, FieldNames
<1> QED BY <1>2, <1>5, <1>8, <1>9, <1>10 DEF e, o, z

LEMMA EndIs ==
  ASSUME NEW x \in Struct
  PROVE  LET y == ReqEnd(x) IN
         /\ y \in Struct
         /\ Same(x, y, {"spare", "s", "hook", "flags", "step", "promote", "due", "reaper",
                        "error", "archive", "lost", "turn", "slots", "part", "launched",
                        "intents", "reply", "stream"})
         /\ y.spare /\ y.s = "none" /\ y.hook = "spare" /\ y.flags = {} /\ ~y.step
         /\ y.slots = <<>> /\ y.stream = (IF x.s = "client" THEN "ended" ELSE x.stream)
         /\ ~y.reaper
<1> DEFINE b == Blank(x)
           st == IF x.s = "client" THEN "ended" ELSE x.stream
           y == [b EXCEPT !.spare = TRUE, !.phase = x.phase, !.s = "none", !.hook = "spare",
                          !.timer = x.timer, !.job = x.job, !.task = x.task,
                          !.admitted = x.admitted, !.stream = st]
<1>1. /\ b \in Struct
      /\ Same(x, b, {"spare", "phase", "s", "hook", "flags", "step", "timer", "promote",
                     "due", "reaper", "error", "task", "admitted", "archive", "lost", "job",
                     "turn", "slots", "part", "launched", "intents", "reply"})
      /\ b.flags = {} /\ ~b.step /\ b.slots = <<>> /\ ~b.reaper
  BY BlankIs
<1> HIDE DEF b
<1>2. b.stream = x.stream
  BY <1>1 DEF Same, FieldNames
<1>3. ReqEnd(x) = y
  BY <1>2 DEF ReqEnd, b, Struct
<1>4. st \in StreamEnd
  BY Fields DEF StreamEnd
<1> HIDE DEF st
<1>5. y \in Struct
  BY <1>1, <1>4, ZenonT(40) DEF Struct, Bool, Holder, Hook
<1>6. /\ Same(b, y, {"spare", "phase", "s", "hook", "timer", "job", "task", "admitted",
                     "stream"})
      /\ y.spare = TRUE /\ y.phase = x.phase /\ y.s = "none" /\ y.hook = "spare"
      /\ y.timer = x.timer /\ y.job = x.job /\ y.task = x.task /\ y.admitted = x.admitted
      /\ y.stream = st
  BY <1>1, Domain, ZenonT(40) DEF Same, FieldNames
<1> HIDE DEF y
<1>7. Same(x, y, {"spare", "s", "hook", "flags", "step", "promote", "due", "reaper",
                  "error", "archive", "lost", "turn", "slots", "part", "launched",
                  "intents", "reply", "stream"})
  BY <1>1, <1>6 DEF Same, FieldNames
<1>8. y.flags = b.flags /\ y.step = b.step /\ y.slots = b.slots /\ y.reaper = b.reaper
  BY <1>6 DEF Same, FieldNames
<1> QED BY <1>1, <1>3, <1>5, <1>6, <1>7, <1>8 DEF st

LEMMA NamedIs ==
  ASSUME NEW x \in Struct, x.life # 0, NEW what \in Kinds, NEW n \in 0 .. MaxRecs + Calls
  PROVE  /\ Named(x, what, n) \in Name /\ Named(x, what, n).what = what
         /\ Named(x, what, n).life = x.life /\ Named(x, what, n).turn = x.turn
         /\ Named(x, what, n).n = n
<1>1. x.life \in 1 .. MaxLives /\ x.turn \in 0 .. MaxTurns
  BY Fields, Given
<1> QED BY <1>1 DEF Named, Name, Kinds

LEMMA ArchiveIs ==
  ASSUME NEW x \in Struct, x.life # 0, NEW kind \in Awaits, NEW r \in RecNo,
         NEW status \in RecStatus
  PROVE  LET y == ReqArchive(x, kind, r, status)
             who == Named(x, kind, x.launched)
         IN  /\ y \in Struct /\ Same(x, y, {"names", "wal"})
             /\ y.names = x.names \cup {who}
             /\ who.what = kind /\ who.life = x.life
             /\ Posted(x) => Posted(y)
<1> DEFINE who == Named(x, kind, x.launched)
           n == x.names \cup {who}
           a == [x EXCEPT !.names = n]
           e == [who |-> who, kind |-> kind, rec |-> r, status |-> status]
           y == Queue(a, e)
<1>1. x.launched \in 0 .. MaxRecs + Calls /\ kind \in Kinds
  BY Fields, Given DEF Kinds
<1>2. who \in Name /\ who.what = kind /\ who.life = x.life
  BY <1>1, NamedIs
<1> HIDE DEF who
<1>3. n \in NameSet
  BY <1>2, Fields DEF NameSet
<1> HIDE DEF n
<1>4. a \in Struct
  BY <1>3 DEF Struct
<1>5. Same(x, a, {"names"}) /\ a.names = n
  BY Domain DEF Same, FieldNames
<1>6. e \in Entry /\ e.who = who
  BY <1>2 DEF Entry, RecNo
<1> HIDE DEF a, e
<1>7. /\ a.post = x.post /\ a.wal = x.wal /\ a.life = x.life /\ a.turn = x.turn
      /\ a.spare = x.spare
  BY <1>5 DEF Same, FieldNames
<1>8. Posted(x) => Posted(a)
  BY <1>7, ZenonT(40) DEF Posted
<1>9. /\ y \in Struct /\ Same(a, y, {"wal"})
      /\ Posted(a) /\ (e.who # NoName => e.who.what \in Awaits /\ e.who.life <= a.life)
         => Posted(y)
  BY <1>4, <1>6, QueueIs
<1>10. x.life <= a.life
  BY <1>7, Fields, Given
<1>11. ReqArchive(x, kind, r, status) = y
  BY DEF ReqArchive, a, e, n, who
<1> HIDE DEF y
<1>12. Same(x, y, {"names", "wal"}) /\ y.names = n
  BY <1>5, <1>9 DEF Same, FieldNames
<1> QED BY <1>2, <1>6, <1>8, <1>9, <1>10, <1>11, <1>12 DEF n, who

LEMMA EndKeeps ==
  ASSUME NEW x, Nothing(x)
  PROVE  LET y == ReqEnd(x) IN
         Good(y) /\ y.spare /\ y.draining = x.draining /\ y.phase = x.phase
<1>1. x \in Struct
  BY DEF Nothing
<1> DEFINE y == ReqEnd(x)
<1>2. /\ y \in Struct
      /\ Same(x, y, {"spare", "s", "hook", "flags", "step", "promote", "due", "reaper",
                     "error", "archive", "lost", "turn", "slots", "part", "launched",
                     "intents", "reply", "stream"})
      /\ y.spare /\ y.s = "none" /\ y.hook = "spare" /\ y.flags = {} /\ ~y.step
      /\ y.slots = <<>> /\ y.stream = (IF x.s = "client" THEN "ended" ELSE x.stream)
      /\ ~y.reaper
  BY <1>1, EndIs
<1> HIDE DEF y
<1>3. /\ y.life = x.life /\ y.home = x.home /\ y.names = x.names /\ y.phase = x.phase
      /\ y.job = x.job /\ y.admitted = x.admitted /\ y.post = x.post /\ y.wal = x.wal
      /\ y.draining = x.draining /\ y.task = x.task /\ y.recs = x.recs
      /\ y.drain = x.drain
      /\ y.gone = x.gone /\ y.timer = x.timer /\ y.listed = x.listed
  BY <1>2 DEF Same, FieldNames
<1>4. Posted(y)
  BY <1>2, <1>3, ZenonT(40) DEF Nothing, Posted
<1>5. Names(y) /\ Owns(y) /\ Streams(y)
  BY <1>2, <1>3 DEF Nothing, Names, Waiting, Owns, Streams
<1>6. Len(y.slots) <= Calls
  BY <1>2, Given
<1>7. Sound(y)
  BY <1>2, <1>3, <1>4, <1>5, <1>6 DEF Nothing, Sound
<1>8. Ended(y)
  BY <1>2, <1>3 DEF Nothing, Ended, Left
<1> QED BY <1>2, <1>3, <1>7, <1>8 DEF Good, Late, y

LEMMA FreedKeeps ==
  ASSUME NEW x, Nothing(x)
  PROVE  LET y == Freed(x) IN
         /\ Good(y) /\ y.draining = x.draining /\ (y.spare \/ y.phase = "FREE")
         /\ y.phase \in {x.phase, "FREE"}
<1>1. x \in Struct
  BY DEF Nothing
<1>2. CASE x.reaper
  <2> DEFINE y == [x EXCEPT !.phase = "FREE", !.hook = "freeing", !.step = TRUE]
  <2>1. y \in Struct
    BY <1>1 DEF Struct, Phase, Sent, Hook, Bool
  <2>2. Same(x, y, {"phase", "hook", "step"}) /\ y.phase = "FREE" /\ y.hook = "freeing"
    BY <1>1, Domain DEF Same, FieldNames
  <2>3. Freed(x) = y
    BY <1>2 DEF Freed
  <2> HIDE DEF y
  <2>4. /\ y.spare = x.spare /\ y.life = x.life /\ y.home = x.home /\ y.names = x.names
        /\ y.job = x.job /\ y.admitted = x.admitted /\ y.post = x.post /\ y.wal = x.wal
        /\ y.turn = x.turn /\ y.draining = x.draining /\ y.task = x.task /\ y.recs = x.recs
        /\ y.s = x.s /\ y.stream = x.stream /\ y.drain = x.drain /\ y.slots = x.slots
        /\ y.gone = x.gone /\ y.timer = x.timer /\ y.flags = x.flags /\ y.listed = x.listed
    BY <2>2 DEF Same, FieldNames
  <2>5. Posted(y)
    BY <2>4, PostedSame DEF Nothing
  <2>6. Names(y) /\ Owns(y) /\ Streams(y)
    BY <2>2, <2>4 DEF Nothing, Names, Waiting, Owns, Streams
  <2>7. Len(y.slots) <= Calls
    BY <2>4, Given DEF Nothing, Left
  <2>8. Sound(y)
    BY <2>1, <2>4, <2>5, <2>6, <2>7 DEF Nothing, Sound
  <2>9. Ended(y)
    BY <2>2, <2>4 DEF Nothing, Ended, Left
  <2> QED BY <2>2, <2>3, <2>4, <2>8, <2>9 DEF Good, Late
<1>3. CASE ~x.reaper
  BY <1>3, EndKeeps DEF Freed
<1> QED BY <1>2, <1>3

LEMMA LetGoKeeps ==
  ASSUME NEW x, Bare(x), NEW c
  PROVE  LET y == LetGo(x, c) IN
         /\ Good(y) /\ Late(y) /\ y.draining = x.draining
         /\ y.phase \in {x.phase, "END", "FREE"}
         /\ x.draining => y.spare \/ y.phase = "FREE"
<1>1. x \in Struct /\ x.life # 0 /\ Posted(x)
  BY DEF Bare, Base, Sound
<1>2. CASE Closing(x, c)
  <2> DEFINE a == ReqArchive(x, "finished", x.task, HowEnded(x))
             who == Named(x, "finished", x.launched)
             f == a.flags \cup {"ARCHIVED_END"}
             y == [a EXCEPT !.flags = f, !.step = FALSE, !.hook = "ending", !.phase = "END"]
  <2>1. "finished" \in Awaits /\ x.task \in RecNo /\ HowEnded(x) \in RecStatus
    BY <1>1, Fields, HowEndedIs DEF Awaits, RecNo, RecStatus
  <2>2. /\ a \in Struct /\ Same(x, a, {"names", "wal"}) /\ a.names = x.names \cup {who}
        /\ who.what = "finished" /\ who.life = x.life /\ Posted(a)
    BY <1>1, <2>1, ArchiveIs
  <2>3. LetGo(x, c) = y
    BY <1>2 DEF LetGo
  <2> HIDE DEF a, who
  <2>4. f \in FlagSet
    BY <2>2, Fields DEF FlagSet, Flag
  <2>5. "DELTA" \notin f
    BY <2>2 DEF Same, FieldNames, Bare, Left
  <2> HIDE DEF f
  <2>6. y \in Struct
    BY <2>2, <2>4, ZenonT(40) DEF Struct, Bool, Hook, Phase, Sent
  <2>7. /\ Same(a, y, {"flags", "step", "hook", "phase"}) /\ y.flags = f
        /\ y.hook = "ending" /\ y.phase = "END"
    BY <2>2, Domain DEF Same, FieldNames
  <2> HIDE DEF y
  <2>8. /\ y.spare = x.spare /\ y.life = x.life /\ y.home = x.home /\ y.names = a.names
        /\ y.job = x.job /\ y.admitted = x.admitted /\ y.post = a.post /\ y.wal = a.wal
        /\ y.turn = x.turn /\ y.draining = x.draining /\ y.task = x.task /\ y.recs = x.recs
        /\ y.s = x.s /\ y.stream = x.stream /\ y.drain = x.drain /\ y.slots = x.slots
        /\ y.gone = x.gone /\ y.timer = x.timer /\ y.listed = x.listed
        /\ y.life = a.life /\ y.turn = a.turn /\ y.spare = a.spare
    BY <2>2, <2>7 DEF Same, FieldNames
  <2>9. Posted(y)
    BY <2>2, <2>8, PostedSame
  <2>10. \A m \in y.names : m = who \/ (m \in x.names /\ m.what = "record")
    BY <2>2, <2>8 DEF Bare
  <2>11. Names(y)
    <3>1. \A m \in Waiting(y) : m = who
      BY <2>10 DEF Waiting, Awaits
    <3>2. ASSUME NEW m \in y.names
          PROVE  /\ m.life = y.life
                 /\ m.what = "record" => m.n \in {y.task, y.admitted} \ {0} /\ m.turn = 0
                 /\ m.what \in {"record", "finished"}
      <4>1. CASE m = who
        BY <2>2, <2>8, <4>1
      <4>2. CASE m # who
        BY <2>8, <2>10, <4>2 DEF Bare, Base, Sound, Names
      <4> QED BY <4>1, <4>2
    <3> QED BY <2>7, <3>1, <3>2 DEF Names, Awaits
  <2>12. Owns(y) /\ Streams(y)
    BY <2>7, <2>8 DEF Bare, Base, Sound, Owns, Streams
  <2>13. Sound(y)
    BY <2>6, <2>8, <2>9, <2>11, <2>12 DEF Bare, Base, Sound
  <2>14. \A m \in y.names : m.what \in {"record", "finished"}
    BY <2>2, <2>10
  <2>15. Ended(y)
    BY <2>5, <2>7, <2>8, <2>14 DEF Ended, Left, Bare, Base
  <2> QED BY <1>2, <2>3, <2>7, <2>8, <2>13, <2>15 DEF Good, Late, Closing
<1>3. CASE ~Closing(x, c)
  <2> DEFINE p == EndPut(x, c)
             a == AdmittedEnd(p)
             t == TaskEnd(a)
             d == Dispose(t, c)
  <2>1. Bare(p) /\ Same(x, p, {"wal", "error", "flags"})
    BY EndPutKeeps
  <2>2. Bare(a) /\ a.admitted = 0 /\ Same(p, a, {"names", "recs", "admitted"})
    BY <2>1, AdmittedEndKeeps
  <2>3. a.draining = x.draining /\ a.phase = x.phase
    BY <2>1, <2>2 DEF Same, FieldNames
  <2> HIDE DEF p, a
  <2>4. Nothing(t) /\ t.draining = a.draining /\ t.phase = a.phase
    BY <2>2, TaskEndKeeps
  <2> HIDE DEF t
  <2>5. Nothing(d) /\ d.draining = t.draining /\ d.phase = t.phase
    BY <2>4, DisposeNothing
  <2>6. LetGo(x, c) = Freed(d)
    BY <1>3 DEF LetGo, p, a, t
  <2> HIDE DEF d
  <2>7. Good(Freed(d)) /\ Freed(d).draining = d.draining
        /\ (Freed(d).spare \/ Freed(d).phase = "FREE")
        /\ Freed(d).phase \in {d.phase, "FREE"}
    BY <2>5, FreedKeeps
  <2> QED BY <2>3, <2>4, <2>5, <2>6, <2>7 DEF Late
<1> QED BY <1>2, <1>3

\* mcp_req_finish() leaves a request that is spare, or soon is.
LEMMA FinishKeeps ==
  ASSUME NEW x, Base(x), NEW c
  PROVE  LET y == ReqFinish(x, c) IN
         /\ Good(y) /\ Late(y) /\ y.draining = x.draining
         /\ y.phase \in {x.phase, "END", "FREE"}
         /\ x.draining => y.spare \/ y.phase = "FREE"
<1> DEFINE e == Emptied1(x)
<1>1. Bare(e)
  BY EmptiedKeeps
<1>2. e.draining = x.draining /\ e.phase = x.phase
  <2>1. x \in Struct
    BY DEF Base, Sound
  <2>2. Same(x, e, {"names", "job", "slots", "timer", "hook", "flags", "home"})
    BY <2>1, EmptiedIs
  <2> QED BY <2>2 DEF Same, FieldNames
<1>3. ReqFinish(x, c) = LetGo(e, c)
  BY DEF ReqFinish, Emptied1
<1> HIDE DEF e
<1> QED BY <1>1, <1>2, <1>3, LetGoKeeps

LEMMA BaseError ==
  ASSUME NEW x, Base(x), NEW e \in Error
  PROVE  LET y == [x EXCEPT !.error = e] IN Base(y) /\ Same(x, y, {"error"})
<1> DEFINE y == [x EXCEPT !.error = e]
<1>1. x \in Struct
  BY DEF Base, Sound
<1>2. y \in Struct
  BY <1>1 DEF Struct
<1>3. Same(x, y, {"error"})
  BY <1>1, Domain DEF Same, FieldNames
<1> HIDE DEF y
<1>4. /\ y.spare = x.spare /\ y.life = x.life /\ y.home = x.home /\ y.names = x.names
      /\ y.job = x.job /\ y.admitted = x.admitted /\ y.post = x.post /\ y.wal = x.wal
      /\ y.turn = x.turn /\ y.draining = x.draining /\ y.task = x.task /\ y.recs = x.recs
      /\ y.s = x.s /\ y.stream = x.stream /\ y.drain = x.drain /\ y.slots = x.slots
      /\ y.gone = x.gone /\ y.flags = x.flags /\ y.listed = x.listed /\ y.phase = x.phase
  BY <1>3 DEF Same, FieldNames
<1>5. Posted(y) /\ Names(y) /\ Owns(y) /\ Streams(y)
  BY <1>4, PostedSame DEF Base, Sound, Names, Waiting, Owns, Streams
<1> QED BY <1>2, <1>3, <1>4, <1>5 DEF Base, Sound, y

\* mcp_req_abort(), of a request not yet let go of.
LEMMA AbortKeeps ==
  ASSUME NEW x, Base(x), NEW c, NEW e \in {"cancelled", "failed"}
  PROVE  LET y == Abort(x, c, e) IN
         /\ y = x \/ (Good(y) /\ Late(y))
         /\ y = x => x.phase = "END"
         /\ y.draining = x.draining /\ y.phase \in {x.phase, "END", "FREE"}
         /\ x.draining => y.spare \/ y.phase = "FREE"
<1>1. CASE x.phase = "END" /\ ~x.draining /\ ~x.exits
  BY <1>1 DEF Abort
<1>2. CASE ~(x.phase = "END" /\ ~x.draining /\ ~x.exits)
  <2> DEFINE e1 == IF x.phase = "END" THEN x.error ELSE e
             z == [x EXCEPT !.error = e1]
  <2>1. x \in Struct
    BY DEF Base, Sound
  <2>2. e1 \in Error
    BY <2>1, Fields DEF Error
  <2>3. Abort(x, c, e) = ReqFinish(z, c)
    BY <1>2 DEF Abort
  <2> HIDE DEF e1
  <2>4. Base(z) /\ z.draining = x.draining /\ z.phase = x.phase
    BY <2>2, BaseError DEF Same, FieldNames
  <2> HIDE DEF z
  <2>5. /\ Good(ReqFinish(z, c)) /\ Late(ReqFinish(z, c))
        /\ ReqFinish(z, c).draining = z.draining
        /\ ReqFinish(z, c).phase \in {z.phase, "END", "FREE"}
        /\ z.draining => ReqFinish(z, c).spare \/ ReqFinish(z, c).phase = "FREE"
    BY <2>4, FinishKeeps
  <2>6. ReqFinish(z, c) = x => x.phase = "END"
    <3>1. x.spare = FALSE /\ x.phase # "FREE"
      BY DEF Base
    <3> QED BY <2>5, <3>1 DEF Late
  <2> QED BY <2>3, <2>4, <2>5, <2>6
<1> QED BY <1>1, <1>2

-----------------------------------------------------------------------------
(* How a request that goes on is answered.                                 *)

Minor == {"step", "timer", "due", "reaper", "error", "archive", "lost", "part", "launched",
          "intents", "reply"}
Moved == {"phase", "hook", "flags", "promote", "job", "names", "home", "slots", "drain"}

\* What may change of a request that goes on: it is let go of by some names,
\* and of its job.
MayMove(x, y) ==
  /\ y \in Struct /\ Same(x, y, Minor \cup Moved)
  /\ \/ y.phase = x.phase
     \/ /\ y.phase \notin {"END", "FREE"}
        /\ Waiting(y) = {} \/ (y.phase = "SEND" /\ x.draining = TRUE)
  /\ y.hook = x.hook \/ y.hook \in {"none", "calls"}
  /\ y.names \subseteq x.names /\ y.home \subseteq x.home
  /\ \/ y.job = x.job /\ ("DELTA" \in y.flags => "DELTA" \in x.flags)
     \/ y.home = {} /\ "DELTA" \notin y.flags
  /\ "DETACH_PENDING" \in y.flags => "DETACH_PENDING" \in x.flags
  /\ y.promote = x.promote \/ y.promote = FALSE
  /\ y.drain = x.drain \/ x.draining = TRUE
  /\ y.slots = x.slots \/ Len(y.slots) <= Calls

LEMMA GoingMoves ==
  ASSUME NEW x, Going(x), NEW y, MayMove(x, y)
  PROVE  Going(y)
<1>0. /\ y \in Struct /\ Same(x, y, Minor \cup Moved) /\ y.names \subseteq x.names
      /\ y.home \subseteq x.home
  BY DEF MayMove
<1>1. /\ y.spare = x.spare /\ y.life = x.life
      /\ y.admitted = x.admitted /\ y.post = x.post /\ y.wal = x.wal
      /\ y.turn = x.turn /\ y.draining = x.draining /\ y.task = x.task /\ y.recs = x.recs
      /\ y.s = x.s /\ y.stream = x.stream /\ y.opt = x.opt
      /\ y.gone = x.gone /\ y.listed = x.listed
  BY <1>0 DEF Same, FieldNames, Minor, Moved
<1>2. Base(x) /\ Sound(x)
  BY DEF Going, Base
<1>3. Posted(y) /\ Owns(y) /\ Streams(y)
  BY <1>1, <1>2, PostedSame DEF Base, Sound, Owns, Streams
<1>4. \A m \in y.names : m.what # "finished"
  BY <1>0, <1>2 DEF Going, Sound, Names
<1>5. Names(y)
  <2>1. ASSUME NEW m \in y.names
        PROVE  /\ m.life = y.life
               /\ m.what = "record" => m.n \in {y.task, y.admitted} \ {0} /\ m.turn = 0
               /\ m.what \in {"submitted", "intended"} => y.turn < MaxTurns
    BY <1>0, <1>1, <1>2 DEF Sound, Names
  <2>2. ASSUME NEW m \in y.names, m.what \in Awaits
        PROVE  y.phase = "JOURNAL" \/ (y.phase = "SEND" /\ y.draining)
    <3>1. m \in Waiting(y) /\ m \in x.names
      BY <1>0, <2>2 DEF Waiting
    <3>2. x.phase = "JOURNAL" \/ (x.phase = "SEND" /\ x.draining)
      BY <1>2, <1>4, <2>2, <3>1 DEF Sound, Names
    <3>3. \/ y.phase = x.phase
          \/ Waiting(y) = {} \/ (y.phase = "SEND" /\ x.draining = TRUE)
      BY DEF MayMove
    <3> QED BY <1>1, <3>1, <3>2, <3>3
  <2>3. \A m, n \in Waiting(y) : m = n
    BY <1>0, <1>2 DEF Sound, Names, Waiting
  <2> QED BY <1>4, <2>1, <2>2, <2>3 DEF Names
<1>6. \A j \in y.home : j.name.life = y.life
  BY <1>0, <1>1, <1>2 DEF Base
<1>7. y.phase \notin {"END", "FREE"} /\ y.hook \in {"none", "calls"}
  BY DEF MayMove, Going, Base
<1>8. y.job = "none" => y.home = {} /\ "DELTA" \notin y.flags
  BY <1>0, <1>2 DEF MayMove, Base
<1>9. /\ y.promote => x.promote
      /\ "DETACH_PENDING" \in y.flags => "DETACH_PENDING" \in x.flags
  BY Zenon DEF MayMove
<1>10. y.drain => y.draining
  <2>1. x.drain => x.draining
    BY <1>2 DEF Sound
  <2>2. y.drain = x.drain \/ x.draining = TRUE
    BY DEF MayMove
  <2> QED BY <1>1, <2>1, <2>2, Zenon
<1>11. Len(y.slots) <= Calls
  BY <1>2 DEF MayMove, Sound
<1>12. Sound(y)
  BY <1>0, <1>1, <1>2, <1>3, <1>5, <1>10, <1>11 DEF Sound
<1>13. Base(y)
  BY <1>1, <1>2, <1>6, <1>7, <1>8, <1>12 DEF Base
<1> QED BY <1>1, <1>7, <1>9, <1>13 DEF Going

LEMMA GoingMinor ==
  ASSUME NEW x, Going(x), NEW y \in Struct, Same(x, y, Minor)
  PROVE  Going(y)
<1>1. Same(x, y, Minor \cup Moved)
  BY DEF Same
<1>2. /\ y.phase = x.phase /\ y.hook = x.hook /\ y.names = x.names /\ y.home = x.home
      /\ y.job = x.job /\ y.flags = x.flags /\ y.promote = x.promote /\ y.drain = x.drain
      /\ y.slots = x.slots
  BY DEF Same, FieldNames, Minor
<1>3. MayMove(x, y)
  BY <1>1, <1>2 DEF MayMove
<1> QED BY <1>3, GoingMoves

LEMMA QuietSame ==
  ASSUME NEW x, NEW y, y.job = x.job, y.names = x.names, y.home = x.home, y.flags = x.flags,
         Quiet(x)
  PROVE  Quiet(y)
BY DEF Quiet, CallNames

\* A record that stands in takes what it is given.
LEMMA TakesKeeps ==
  ASSUME NEW x, Going(x), NEW got \in Got
  PROVE  LET y == Takes(x, got) IN Going(y) /\ Same(x, y, {"recs"})
<1>1. x \in Struct
  BY DEF Going, Base, Sound
<1>2. CASE x.s # "stand"
  BY <1>2 DEF Takes, Same
<1>3. CASE x.s = "stand"
  <2> DEFINE v == [x.recs EXCEPT ![x.task].got = got]
             y == [x EXCEPT !.recs = v]
  <2>1. x.task # 0
    BY <1>3 DEF Going, Base, Sound, Streams
  <2>2. x.task \in 1 .. MaxRecs /\ x.recs \in [1 .. MaxRecs -> Rec]
    BY <1>1, <2>1, Fields, Given
  <2>3. v \in RecTable /\ \A r \in 1 .. MaxRecs : v[r].status = x.recs[r].status
    BY <2>2 DEF Rec, RecTable
  <2>4. Takes(x, got) = y
    BY <1>3 DEF Takes
  <2> HIDE DEF v
  <2>5. y \in Struct
    BY <1>1, <2>3 DEF Struct
  <2>6. Same(x, y, {"recs"}) /\ y.recs = v
    BY <1>1, Domain DEF Same, FieldNames
  <2> HIDE DEF y
  <2>7. /\ y.spare = x.spare /\ y.life = x.life /\ y.home = x.home /\ y.names = x.names
        /\ y.job = x.job /\ y.admitted = x.admitted /\ y.post = x.post /\ y.wal = x.wal
        /\ y.turn = x.turn /\ y.draining = x.draining /\ y.task = x.task
        /\ y.s = x.s /\ y.stream = x.stream /\ y.drain = x.drain /\ y.slots = x.slots
        /\ y.gone = x.gone /\ y.flags = x.flags /\ y.listed = x.listed /\ y.phase = x.phase
        /\ y.hook = x.hook /\ y.opt = x.opt /\ y.promote = x.promote
    BY <2>6 DEF Same, FieldNames
  <2>8. Owns(y)
    BY <2>3, <2>6, <2>7 DEF Going, Base, Sound, Owns
  <2>9. Posted(y) /\ Names(y) /\ Streams(y)
    BY <2>7, PostedSame DEF Going, Base, Sound, Names, Waiting, Streams
  <2>10. Sound(y)
    BY <2>5, <2>7, <2>8, <2>9 DEF Going, Base, Sound
  <2> QED BY <2>4, <2>6, <2>7, <2>10 DEF Going, Base
<1> QED BY <1>2, <1>3

LEMMA BlocksKeeps ==
  ASSUME NEW x, Going(x), NEW c
  PROVE  LET y == Blocks(x, c) IN
         /\ Going(y) /\ Same(x, y, {"flags"})
         /\ y.flags \subseteq x.flags \cup {"BLOCKED"} /\ x.flags \subseteq y.flags
<1> DEFINE f == IF c.data = "again" /\ x.s = "client" THEN x.flags \cup {"BLOCKED"} ELSE x.flags
           y == [x EXCEPT !.flags = f]
<1>1. x \in Struct
  BY DEF Going, Base, Sound
<1>2. f \in FlagSet /\ f \subseteq x.flags \cup {"BLOCKED"} /\ x.flags \subseteq f
  BY <1>1, Fields DEF FlagSet, Flag
<1>3. Blocks(x, c) = y
  BY <1>1 DEF Blocks, Struct
<1> HIDE DEF f
<1>4. y \in Struct
  BY <1>1, <1>2 DEF Struct
<1>5. Same(x, y, {"flags"}) /\ y.flags = f
  BY <1>1, Domain DEF Same, FieldNames
<1> HIDE DEF y
<1>6. Same(x, y, Minor \cup Moved)
  BY <1>5 DEF Same, Moved
<1>7. /\ y.phase = x.phase /\ y.hook = x.hook /\ y.names = x.names /\ y.home = x.home
      /\ y.job = x.job /\ y.promote = x.promote /\ y.drain = x.drain /\ y.slots = x.slots
  BY <1>5 DEF Same, FieldNames
<1>8. /\ "DELTA" \in y.flags => "DELTA" \in x.flags
      /\ "DETACH_PENDING" \in y.flags => "DETACH_PENDING" \in x.flags
  BY <1>2, <1>5
<1>9. MayMove(x, y)
  BY <1>4, <1>6, <1>7, <1>8 DEF MayMove
<1>10. Going(y)
  BY <1>9, GoingMoves
<1> QED BY <1>2, <1>3, <1>5, <1>10

\* A request that goes on and that waits for nothing.
Goes(x) == Going(x) /\ Quiet(x) /\ Waiting(x) = {}

LEMMA Unwritten ==
  ASSUME NEW x, Going(x), x.phase \notin {"JOURNAL", "SEND"}
  PROVE  Waiting(x) = {}
<1> SUFFICES ASSUME NEW m \in x.names, m.what \in Awaits PROVE FALSE
  BY DEF Waiting
<1>1. Names(x) /\ x.phase # "END"
  BY DEF Going, Base, Sound
<1> QED BY <1>1 DEF Names

LEMMA GoesMoves ==
  ASSUME NEW x, Goes(x), NEW y, MayMove(x, y), y.job # "waits"
  PROVE  Goes(y)
<1>1. Going(y)
  BY GoingMoves DEF Goes
<1>2. y.names \subseteq x.names /\ y.home \subseteq x.home
  BY DEF MayMove
<1>3. CallNames(y) = {} /\ Waiting(y) = {} /\ y.home = {}
  BY <1>2 DEF Goes, Quiet, CallNames, Waiting
<1>4. "DELTA" \notin y.flags
  BY DEF Goes, Quiet, MayMove
<1> QED BY <1>1, <1>3, <1>4 DEF Goes, Quiet

LEMMA GoesMinor ==
  ASSUME NEW x, Goes(x), NEW y \in Struct, Same(x, y, Minor)
  PROVE  Goes(y)
<1>1. y.job = x.job /\ y.names = x.names /\ y.home = x.home /\ y.flags = x.flags
  BY DEF Same, FieldNames, Minor
<1>2. Going(y)
  BY GoingMinor DEF Goes
<1> QED BY <1>1, <1>2 DEF Goes, Quiet, CallNames, Waiting

LEMMA GoesGood ==
  ASSUME NEW x, Going(x), Calling(x), x.phase \notin Unread,
         x.phase \in {"BUILD", "ARGS", "TURN", "CALLS", "RESULT"} => x.turn < MaxTurns,
         x.phase = "SEND" => x.hook = "none"
  PROVE  Good(x)
<1>1. ~Late(x)
  BY DEF Going, Base, Late
<1>2. Works(x)
  BY DEF Works
<1> QED BY <1>1, <1>2 DEF Good

LEMMA ReadyIs ==
  ASSUME NEW x \in Struct
  PROVE  LET y == Ready(x) IN y \in Struct /\ Same(x, y, {"step"})
<1> DEFINE y == [x EXCEPT !.step = TRUE]
<1>1. y \in Struct
  BY DEF Struct, Bool
<1>2. Same(x, y, {"step"})
  BY Domain DEF Same, FieldNames
<1> QED BY <1>1, <1>2 DEF Ready

LEMMA EnterIs ==
  ASSUME NEW x \in Struct, NEW ph \in Phase
  PROVE  LET y == Enter(x, ph) IN
         y \in Struct /\ Same(x, y, {"step", "phase"}) /\ y.phase = ph
<1> DEFINE y == [x EXCEPT !.step = TRUE, !.phase = ph]
<1>1. y \in Struct
  BY DEF Struct, Bool
<1>2. Same(x, y, {"step", "phase"}) /\ y.phase = ph
  BY Domain DEF Same, FieldNames
<1>3. Enter(x, ph) = y
  BY DEF Enter, Ready
<1> QED BY <1>1, <1>2, <1>3

LEMMA UnwaitIs ==
  ASSUME NEW x \in Struct
  PROVE  LET y == Unwait(x) IN
         y \in Struct /\ Same(x, y, {"hook"}) /\ y.hook = "none"
<1> DEFINE y == [x EXCEPT !.hook = "none"]
<1>1. y \in Struct
  BY DEF Struct, Hook
<1>2. Same(x, y, {"hook"}) /\ y.hook = "none"
  BY Domain DEF Same, FieldNames
<1> QED BY <1>1, <1>2 DEF Unwait

LEMMA WaitIs ==
  ASSUME NEW x \in Struct
  PROVE  LET y == Wait(x) IN
         /\ y \in Struct /\ Same(x, y, {"hook", "drain"})
         /\ y.hook = x.hook \/ y.hook = "calls"
         /\ y.drain = x.drain \/ x.draining = TRUE
<1> DEFINE h == IF x.hook = "none" THEN "calls" ELSE x.hook
           d == x.drain \/ x.draining
           y == [x EXCEPT !.hook = h, !.drain = d]
<1>1. h \in Hook /\ d \in Bool
  BY Fields DEF Hook, Bool
<1>2. d = x.drain \/ x.draining = TRUE
  <2>1. x.drain \in BOOLEAN /\ x.draining \in BOOLEAN
    BY Fields
  <2> QED BY <2>1, Zenon
<1>3. x.phase \notin Working => Wait(x) = x
  BY DEF Wait
<1>4. x.phase \in Working => Wait(x) = y
  BY DEF Wait
<1>5. h = x.hook \/ h = "calls"
  OBVIOUS
<1> HIDE DEF h, d
<1>6. y \in Struct
  BY <1>1 DEF Struct
<1>7. Same(x, y, {"hook", "drain"}) /\ y.hook = h /\ y.drain = d
  BY Domain DEF Same, FieldNames
<1>8. Same(x, x, {"hook", "drain"})
  BY DEF Same
<1> HIDE DEF y
<1>9. CASE x.phase \notin Working
  BY <1>3, <1>8, <1>9
<1>10. CASE x.phase \in Working
  BY <1>2, <1>4, <1>5, <1>6, <1>7, <1>10
<1> QED BY <1>9, <1>10

LEMMA DisposeIs ==
  ASSUME NEW x \in Struct, NEW c
  PROVE  LET y == Dispose(x, c) IN y \in Struct /\ Same(x, y, {"step", "reaper"})
<1> DEFINE y == [x EXCEPT !.step = TRUE, !.reaper = TRUE]
<1>1. y \in Struct
  BY DEF Struct, Bool
<1>2. Same(x, y, {"step", "reaper"}) /\ Same(x, x, {"step", "reaper"})
  BY Domain DEF Same, FieldNames
<1>3. Dispose(x, c) = x \/ Dispose(x, c) = y
  BY DEF Dispose, Ready, Struct
<1> QED BY <1>1, <1>2, <1>3

LEMMA ArmIs ==
  ASSUME NEW x \in Struct
  PROVE  LET y == Arm(x) IN y \in Struct /\ Same(x, y, {"timer"})
<1> DEFINE t == x.promote /\ "BLOCKED" \notin x.flags
           y == [x EXCEPT !.timer = t]
<1>1. t \in Bool
  BY DEF Bool
<1>2. Arm(x) = y
  BY DEF Arm
<1> HIDE DEF t
<1>3. y \in Struct
  BY <1>1 DEF Struct
<1>4. Same(x, y, {"timer"})
  BY Domain DEF Same, FieldNames
<1> QED BY <1>2, <1>3, <1>4

\* mcp_req_stream() and those that call it.
LEMMA StreamIs ==
  ASSUME NEW x \in Struct, NEW c
  PROVE  LET y == Stream(x, c) IN
         /\ y \in Struct /\ Same(x, y, {"flags", "timer"})
         /\ y.flags \subseteq x.flags \cup {"SSE"} /\ x.flags \subseteq y.flags \cup {"SSE"}
<1> DEFINE f == IF c.data = "gone" THEN x.flags \ {"SSE"} ELSE x.flags \cup {"SSE"}
           a == [x EXCEPT !.flags = f]
<1>1. f \in FlagSet /\ f \subseteq x.flags \cup {"SSE"} /\ x.flags \subseteq f \cup {"SSE"}
  BY Fields DEF FlagSet, Flag
<1>2. Stream(x, c) = Arm(a)
  BY DEF Stream
<1> HIDE DEF f
<1>3. a \in Struct
  BY <1>1 DEF Struct
<1>4. Same(x, a, {"flags"}) /\ a.flags = f
  BY Domain DEF Same, FieldNames
<1> HIDE DEF a
<1>5. Arm(a) \in Struct /\ Same(a, Arm(a), {"timer"})
  BY <1>3, ArmIs
<1>6. Same(x, Arm(a), {"flags", "timer"}) /\ Arm(a).flags = f
  BY <1>4, <1>5 DEF Same, FieldNames
<1> QED BY <1>1, <1>2, <1>5, <1>6

LEMMA OpensIs ==
  ASSUME NEW x \in Struct, NEW c, NEW flags
  PROVE  LET y == Opens(x, c, flags) IN
         /\ y \in Struct /\ Same(x, y, {"flags", "timer"})
         /\ y.flags \subseteq x.flags \cup {"SSE"} /\ x.flags \subseteq y.flags \cup {"SSE"}
<1>1. Same(x, x, {"flags", "timer"})
  BY DEF Same
<1>2. Opens(x, c, flags) = x \/ Opens(x, c, flags) = Stream(x, c)
  BY DEF Opens
<1> QED BY <1>1, <1>2, StreamIs

LEMMA AbortGood ==
  ASSUME NEW x, Going(x), NEW c, NEW e \in {"cancelled", "failed"}
  PROVE  Good(Abort(x, c, e))
<1>1. Base(x) /\ x.phase # "END"
  BY DEF Going
<1> QED BY <1>1, AbortKeeps

\* mcp_req_send().
LEMMA SendKeeps ==
  ASSUME NEW x, Going(x), Quiet(x), x.phase = "SEND", x.hook = "none", NEW c
  PROVE  Good(Send(x, c))
<1>1. x \in Struct
  BY DEF Going, Base, Sound
<1>2. CASE "BLOCKED" \in x.flags
  BY <1>2, GoesGood DEF Send, Calling, Unread
<1>3. CASE "BLOCKED" \notin x.flags /\ c.data = "gone"
  BY <1>3, AbortGood DEF Send
<1>4. CASE "BLOCKED" \notin x.flags /\ c.data # "gone" /\ ~c.more
  <2> DEFINE b == Blocks(x, c)
             t == Takes(b, x.reply)
  <2>1. Going(b)
    BY BlocksKeeps
  <2>2. x.reply \in Got
    BY <1>1, Fields DEF Got
  <2> HIDE DEF b
  <2>3. Going(t)
    BY <2>1, <2>2, TakesKeeps
  <2>4. Send(x, c) = ReqFinish(t, c)
    BY <1>4 DEF Send, b
  <2> HIDE DEF t
  <2> QED BY <2>3, <2>4, FinishKeeps DEF Going
<1>5. CASE "BLOCKED" \notin x.flags /\ c.data # "gone" /\ c.more
  <2> DEFINE t == Takes(x, "part")
             y == Ready(t)
  <2>1. Going(t) /\ Same(x, t, {"recs"})
    BY TakesKeeps DEF Got
  <2> HIDE DEF t
  <2>2. y \in Struct /\ Same(t, y, {"step"})
    BY <2>1, ReadyIs DEF Going, Base, Sound
  <2>3. Send(x, c) = y
    BY <1>5 DEF Send, t
  <2> HIDE DEF y
  <2>4. Going(y)
    BY <2>1, <2>2, GoingMinor DEF Same, Minor
  <2>5. /\ y.phase = x.phase /\ y.hook = x.hook /\ y.job = x.job /\ y.names = x.names
        /\ y.home = x.home /\ y.flags = x.flags
    BY <2>1, <2>2 DEF Same, FieldNames
  <2>6. Quiet(y)
    BY <2>5, QuietSame
  <2> QED BY <2>3, <2>4, <2>5, <2>6, GoesGood DEF Calling, Unread
<1> QED BY <1>2, <1>3, <1>4, <1>5

\* What mcp_req_drop() leaves of a request that goes on.
LEMMA DropKeeps ==
  ASSUME NEW x, Going(x)
  PROVE  LET y == ReqDrop(x) IN
         /\ Going(y) /\ Quiet(y)
         /\ Same(x, y, {"names", "job", "slots", "flags", "home"})
         /\ y.names \subseteq x.names /\ y.slots = <<>> /\ y.flags \subseteq x.flags
<1> DEFINE y == ReqDrop(x)
<1>1. x \in Struct /\ Base(x)
  BY DEF Going, Base, Sound
<1>2. /\ y \in Struct /\ Same(x, y, {"names", "job", "slots", "flags", "home"})
      /\ y.names = {m \in x.names : m.what \notin {"call", "tool"}}
      /\ y.job = "none" /\ y.slots = <<>>
      /\ y.flags = (IF x.job = "none" THEN x.flags ELSE x.flags \ {"DELTA"})
      /\ y.home = {j \in x.home : x.job = "none" \/ j.name.life # x.life}
  BY <1>1, DropIs
<1> HIDE DEF y
<1>3. y.home = {} /\ "DELTA" \notin y.flags /\ y.flags \subseteq x.flags
  BY <1>1, <1>2 DEF Base
<1>4. y.phase = x.phase /\ y.hook = x.hook /\ y.promote = x.promote /\ y.drain = x.drain
  BY <1>2 DEF Same, FieldNames
<1>5. Len(y.slots) <= Calls
  BY <1>2, Given
<1>6. MayMove(x, y)
  <2>1. Same(x, y, Minor \cup Moved)
    BY <1>2 DEF Same, Moved
  <2>2. y.names \subseteq x.names /\ y.home \subseteq x.home
    BY <1>2, <1>3
  <2>3. "DETACH_PENDING" \in y.flags => "DETACH_PENDING" \in x.flags
    BY <1>3
  <2> QED BY <1>2, <1>3, <1>4, <1>5, <2>1, <2>2, <2>3 DEF MayMove
<1>7. CallNames(y) = {}
  BY <1>2 DEF CallNames
<1> QED BY <1>2, <1>3, <1>6, <1>7, GoingMoves DEF Quiet, y

\* mcp_req_close(), of a call that waits for no write.
LEMMA CloseKeeps ==
  ASSUME NEW x, Going(x), Waiting(x) = {} \/ x.draining = TRUE, NEW c,
         NEW reply \in {"answer", "error"}
  PROVE  Good(Close(x, c, reply))
<1> DEFINE u == Unwait(x)
           d == ReqDrop(u)
           z == [d EXCEPT !.timer = FALSE, !.reply = reply]
<1>1. x \in Struct
  BY DEF Going, Base, Sound
<1>2. u \in Struct /\ Same(x, u, {"hook"}) /\ u.hook = "none"
  BY <1>1, UnwaitIs
<1> HIDE DEF u
<1>3. Going(u)
  <2>1. Same(x, u, Minor \cup Moved)
    BY <1>2 DEF Same, Moved
  <2>2. /\ u.phase = x.phase /\ u.names = x.names /\ u.home = x.home /\ u.job = x.job
        /\ u.flags = x.flags /\ u.promote = x.promote /\ u.drain = x.drain
        /\ u.slots = x.slots
    BY <1>2 DEF Same, FieldNames
  <2>3. MayMove(x, u)
    BY <1>2, <2>1, <2>2 DEF MayMove
  <2> QED BY <2>3, GoingMoves
<1>4. /\ Going(d) /\ Quiet(d) /\ Same(u, d, {"names", "job", "slots", "flags", "home"})
      /\ d.names \subseteq u.names
  BY <1>3, DropKeeps
<1> HIDE DEF d
<1>5. d \in Struct
  BY <1>4 DEF Going, Base, Sound
<1>6. z \in Struct
  BY <1>5, ZenonT(40) DEF Struct, Bool, ReplyKind
<1>7. Same(d, z, {"timer", "reply"})
  BY <1>5, Domain DEF Same, FieldNames
<1>8. Close(x, c, reply) = Answered(z, c)
  BY DEF Close, u, d
<1> HIDE DEF z
<1>9. /\ z.hook = "none" /\ z.draining = x.draining /\ z.names \subseteq x.names
      /\ z.job = d.job /\ z.names = d.names /\ z.home = d.home /\ z.flags = d.flags
  BY <1>2, <1>4, <1>7 DEF Same, FieldNames
<1>10. Going(z) /\ Quiet(z)
  BY <1>4, <1>6, <1>7, <1>9, GoingMinor, QuietSame DEF Same, Minor
<1>11. Waiting(z) = {} \/ z.draining = TRUE
  BY <1>9 DEF Waiting
<1>12. CASE c.data = "gone" /\ "SSE" \notin z.flags
  BY <1>8, <1>10, <1>12, AbortGood DEF Answered
<1>13. CASE ~(c.data = "gone" /\ "SSE" \notin z.flags)
  <2> DEFINE t == Takes(z, "part")
             y == [t EXCEPT !.phase = "SEND"]
  <2>1. Going(t) /\ Same(z, t, {"recs"})
    BY <1>10, TakesKeeps DEF Got
  <2> HIDE DEF t
  <2>2. t \in Struct
    BY <2>1 DEF Going, Base, Sound
  <2>3. y \in Struct
    BY <2>2 DEF Struct, Phase, Sent
  <2>4. Same(t, y, {"phase"}) /\ y.phase = "SEND"
    BY <2>2, Domain DEF Same, FieldNames
  <2>5. Close(x, c, reply) = Send(y, c)
    BY <1>8, <1>13 DEF Answered, t
  <2> HIDE DEF y
  <2>6. /\ y.hook = t.hook /\ y.names = t.names /\ y.home = t.home /\ y.job = t.job
        /\ y.flags = t.flags /\ y.promote = t.promote /\ y.drain = t.drain
        /\ y.slots = t.slots /\ t.hook = z.hook /\ t.names = z.names /\ t.home = z.home
        /\ t.job = z.job /\ t.flags = z.flags /\ t.draining = z.draining
    BY <2>1, <2>4 DEF Same, FieldNames
  <2>7. Waiting(y) = {} \/ t.draining = TRUE
    BY <1>11, <2>6 DEF Waiting
  <2>8. Same(t, y, Minor \cup Moved)
    BY <2>4 DEF Same, Moved
  <2>9. MayMove(t, y)
    BY <2>3, <2>4, <2>6, <2>7, <2>8 DEF MayMove
  <2>10. Going(y)
    BY <2>1, <2>9, GoingMoves
  <2>11. Quiet(y) /\ y.hook = "none"
    BY <1>9, <1>10, <2>6, QuietSame
  <2> QED BY <2>4, <2>5, <2>10, <2>11, SendKeeps
<1> QED BY <1>12, <1>13

\* mcp_req_fail(), of one that waits for no write.
LEMMA FailKeeps ==
  ASSUME NEW x, Going(x), Waiting(x) = {} \/ x.draining = TRUE, x.phase \notin Sent, NEW c
  PROVE  Good(Fail(x, c))
BY CloseKeeps DEF Fail

LEMMA ReplyKeeps ==
  ASSUME NEW x, Goes(x), x.phase = "REPLY", NEW c
  PROVE  Good(Reply(x, c))
<1>1. CASE c.more
  <2> DEFINE y == Ready(x)
  <2>1. y \in Struct /\ Same(x, y, {"step"})
    BY ReadyIs DEF Goes, Going, Base, Sound
  <2> HIDE DEF y
  <2>2. Goes(y)
    BY <2>1, GoesMinor DEF Same, Minor
  <2>3. y.phase = "REPLY"
    BY <2>1 DEF Same, FieldNames
  <2>4. Good(y)
    BY <2>2, <2>3, GoesGood DEF Goes, Calling, Unread
  <2> QED BY <1>1, <2>4 DEF Reply, y
<1>2. CASE ~c.more
  BY <1>2, CloseKeeps DEF Reply, Goes
<1> QED BY <1>1, <1>2

\* mcp_slot_respond().
LEMMA RespondKeeps ==
  ASSUME NEW x, Goes(x), NEW c
  PROVE  Good(Respond(x, c))
<1> DEFINE y == [x EXCEPT !.timer = FALSE, !.phase = "REPLY"]
<1>1. x \in Struct
  BY DEF Goes, Going, Base, Sound
<1>2. y \in Struct
  BY <1>1 DEF Struct, Bool, Phase
<1>3. Same(x, y, {"timer", "phase"}) /\ y.phase = "REPLY"
  BY <1>1, Domain DEF Same, FieldNames
<1>4. Respond(x, c) = Reply(y, c)
  BY DEF Respond
<1> HIDE DEF y
<1>5. /\ y.hook = x.hook /\ y.names = x.names /\ y.home = x.home /\ y.job = x.job
      /\ y.flags = x.flags /\ y.promote = x.promote /\ y.drain = x.drain
      /\ y.slots = x.slots
  BY <1>3 DEF Same, FieldNames
<1>6. Same(x, y, Minor \cup Moved)
  BY <1>3 DEF Same, Minor, Moved
<1>7. Waiting(y) = {} /\ y.job # "waits"
  BY <1>5 DEF Goes, Quiet, Waiting
<1>8. MayMove(x, y)
  BY <1>2, <1>3, <1>5, <1>6, <1>7 DEF MayMove
<1>9. Goes(y)
  BY <1>7, <1>8, GoesMoves
<1> QED BY <1>3, <1>4, <1>9, ReplyKeeps

-----------------------------------------------------------------------------
(* How a request gets its records.                                         *)

LEMMA LeastRec ==
  ASSUME NEW T, T \subseteq Nat, T # {}
  PROVE  \E i \in T : \A j \in T : i <= j
<1> DEFINE R == OpToRel(<, Nat)
<1>1. IsWellFoundedOn(R, Nat)
  BY NatLessThanWellFounded
<1>2. \A i, j \in Nat : <<j, i>> \in R <=> j < i
  BY DEF OpToRel
<1> HIDE DEF R
<1>3. PICK i \in T : \A j \in T : ~(<<j, i>> \in R)
  BY <1>1, WFMin
<1>4. i \in Nat /\ \A j \in T : j \in Nat /\ ~(j < i)
  BY <1>2, <1>3
<1>5. \A j \in T : i <= j
  BY <1>4
<1> QED BY <1>5

LEMMA NextRecIs ==
  ASSUME NEW x \in Struct, FreeRecs(x) # {}
  PROVE  NextRec(x) \in 1 .. MaxRecs
<1> DEFINE F == FreeRecs(x)
<1>1. F \subseteq Nat /\ F \subseteq 1 .. MaxRecs
  BY Given DEF FreeRecs
<1> HIDE DEF F
<1>2. \E i \in F : \A j \in F : i <= j
  BY <1>1, LeastRec DEF F
<1>3. (CHOOSE i \in F : \A j \in F : i <= j) \in F
  BY <1>2
<1> QED BY <1>1, <1>3 DEF NextRec, F

LEMMA OpenIs ==
  ASSUME NEW x \in Struct, x.life # 0, FreeRecs(x) # {}
  PROVE  LET y == Open(x)
             r == NextRec(x)
         IN  /\ r \in 1 .. MaxRecs
             /\ y \in Struct /\ Same(x, y, {"names", "recs"})
             /\ y.names = x.names \cup {Record(x, r)}
             /\ \A q \in 1 .. MaxRecs : q # r => y.recs[q] = x.recs[q]
<1> DEFINE r == NextRec(x)
           n == x.names \cup {Record(x, r)}
           v == [x.recs EXCEPT ![r].status = "working"]
           y == [x EXCEPT !.names = n, !.recs = v]
<1>1. r \in 1 .. MaxRecs
  BY NextRecIs
<1>2. Open(x) = y
  BY DEF Open
<1> HIDE DEF r
<1>3. n \in NameSet
  <2>1. x.life \in 1 .. MaxLives /\ 0 \in 0 .. MaxTurns /\ r \in 0 .. MaxRecs + Calls
    BY <1>1, Fields, Given
  <2>2. Record(x, r) \in Name
    BY <2>1 DEF Record, Name
  <2> QED BY <2>2, Fields DEF NameSet
<1>4. x.recs \in [1 .. MaxRecs -> Rec]
  BY Fields
<1>5. v \in RecTable /\ \A q \in 1 .. MaxRecs : q # r => v[q] = x.recs[q]
  BY <1>1, <1>4 DEF Rec, RecStatus, RecTable
<1> HIDE DEF n, v
<1>6. y \in Struct
  BY <1>3, <1>5 DEF Struct
<1>7. Same(x, y, {"names", "recs"}) /\ y.names = n /\ y.recs = v
  BY Domain DEF Same, FieldNames
<1> HIDE DEF y
<1> QED BY <1>1, <1>2, <1>5, <1>6, <1>7 DEF n, r

LEMMA AdmitBase ==
  ASSUME NEW x, Base(x), x.admitted = 0, FreeRecs(x) # {}
  PROVE  LET y == [Open(x) EXCEPT !.admitted = NextRec(x)] IN
         Base(y) /\ Same(x, y, {"names", "recs", "admitted"}) /\ y.admitted = NextRec(x)
         /\ y.names = x.names \cup {Record(x, NextRec(x))}
<1> DEFINE r == NextRec(x)
           o == Open(x)
           y == [o EXCEPT !.admitted = r]
<1>1. x \in Struct
  BY DEF Base, Sound
<1>2. /\ r \in 1 .. MaxRecs /\ o \in Struct /\ Same(x, o, {"names", "recs"})
      /\ o.names = x.names \cup {Record(x, r)}
      /\ \A q \in 1 .. MaxRecs : q # r => o.recs[q] = x.recs[q]
  BY <1>1, OpenIs DEF Base
<1> HIDE DEF r, o
<1>3. r \in RecNo /\ r # 0
  BY <1>2, Given DEF RecNo
<1>4. y \in Struct
  BY <1>2, <1>3 DEF Struct
<1>5. Same(o, y, {"admitted"}) /\ y.admitted = r
  BY <1>2, Domain DEF Same, FieldNames
<1> HIDE DEF y
<1>6. /\ y.spare = x.spare /\ y.life = x.life /\ y.home = x.home /\ y.phase = x.phase
      /\ y.job = x.job /\ y.post = x.post /\ y.wal = x.wal
      /\ y.turn = x.turn /\ y.draining = x.draining /\ y.task = x.task
      /\ y.s = x.s /\ y.stream = x.stream /\ y.drain = x.drain /\ y.slots = x.slots
      /\ y.gone = x.gone /\ y.flags = x.flags /\ y.listed = x.listed
      /\ y.names = o.names /\ y.recs = o.recs
  BY <1>2, <1>5 DEF Same, FieldNames
<1>7. Posted(y) /\ Streams(y)
  BY <1>6, PostedSame DEF Base, Sound, Streams
<1>8. /\ Record(x, r).what = "record" /\ Record(x, r).life = x.life
      /\ Record(x, r).turn = 0 /\ Record(x, r).n = r
  BY DEF Record
<1>9. Names(y)
  <2>1. Waiting(y) \subseteq Waiting(x)
    BY <1>2, <1>6, <1>8 DEF Waiting, Awaits
  <2>2. ASSUME NEW m \in y.names
        PROVE  /\ m.life = y.life
               /\ m.what = "record" => m.n \in {y.task, y.admitted} \ {0} /\ m.turn = 0
               /\ m.what = "finished" => y.phase = "END"
               /\ m.what \in Awaits \ {"finished"} =>
                    y.phase = "JOURNAL" \/ (y.phase = "SEND" /\ y.draining)
               /\ m.what \in {"submitted", "intended"} => y.turn < MaxTurns
    <3>1. CASE m \in x.names
      BY <1>6, <3>1 DEF Base, Sound, Names
    <3>2. CASE m = Record(x, r)
      BY <1>3, <1>5, <1>6, <1>8, <3>2 DEF Awaits
    <3> QED BY <1>2, <1>6, <3>1, <3>2
  <2>3. \A m, n \in Waiting(y) : m = n
    BY <2>1 DEF Base, Sound, Names
  <2> QED BY <2>2, <2>3 DEF Names
<1>10. Owns(y)
  BY <1>2, <1>5, <1>6 DEF Base, Sound, Owns
<1>11. Sound(y)
  BY <1>4, <1>6, <1>7, <1>9, <1>10 DEF Base, Sound
<1>12. Base(y)
  BY <1>6, <1>11 DEF Base
<1>13. Same(x, y, {"names", "recs", "admitted"})
  BY <1>2, <1>5 DEF Same
<1> QED BY <1>2, <1>5, <1>6, <1>12, <1>13 DEF r, o, y

\* A call whose record r is open, and that is not yet its task.
Holding(x, r) ==
  /\ x \in Struct /\ r \in 1 .. MaxRecs /\ x.admitted = 0 /\ x.task = 0
  /\ Base([x EXCEPT !.admitted = r])
  /\ x.phase # "END" /\ x.hook \in {"none", "calls"} /\ x.s = "client"
  /\ Regular(x.opt) /\ "DETACH_PENDING" \notin x.flags

LEMMA HoldingIs ==
  ASSUME NEW x, NEW r, Holding(x, r)
  PROVE  /\ ~x.spare /\ x.phase # "FREE" /\ x.life # 0 /\ ~x.gone /\ Posted(x)
         /\ x.drain => x.draining
         /\ Len(x.slots) <= Calls /\ x.listed = 0
         /\ \A j \in x.home : j.name.life = x.life
         /\ x.job = "none" => x.home = {} /\ "DELTA" \notin x.flags
         /\ \A q \in 1 .. MaxRecs : x.recs[q].status = "working" => q = r
         /\ \A m \in x.names :
              /\ m.life = x.life
              /\ m.what = "record" => m.n = r /\ m.turn = 0
              /\ m.what # "finished"
              /\ m.what \in Awaits =>
                    x.phase = "JOURNAL" \/ (x.phase = "SEND" /\ x.draining)
              /\ m.what \in {"submitted", "intended"} => x.turn < MaxTurns
         /\ \A m, n \in Waiting(x) : m = n
<1> DEFINE w == [x EXCEPT !.admitted = r]
<1>1. Base(w) /\ x \in Struct
  BY DEF Holding
<1>2. Same(x, w, {"admitted"}) /\ w.admitted = r
  BY <1>1, Domain DEF Same, FieldNames
<1> HIDE DEF w
<1>3. /\ w.spare = x.spare /\ w.life = x.life /\ w.home = x.home /\ w.phase = x.phase
      /\ w.job = x.job /\ w.post = x.post /\ w.wal = x.wal
      /\ w.turn = x.turn /\ w.draining = x.draining /\ w.task = x.task
      /\ w.s = x.s /\ w.stream = x.stream /\ w.drain = x.drain /\ w.slots = x.slots
      /\ w.gone = x.gone /\ w.flags = x.flags /\ w.listed = x.listed
      /\ w.names = x.names /\ w.recs = x.recs
  BY <1>2 DEF Same, FieldNames
<1>4. Posted(x) /\ x.task = 0 /\ r \in 1 .. MaxRecs /\ x.phase # "END"
  BY <1>1, <1>3, PostedSame DEF Base, Sound, Holding
<1>5. /\ x.listed = 0
      /\ \A q \in 1 .. MaxRecs : x.recs[q].status = "working" => q = r
  BY <1>1, <1>2, <1>3, <1>4 DEF Base, Sound, Owns
<1>6. ASSUME NEW m \in x.names
      PROVE  /\ m.life = x.life
             /\ m.what = "record" => m.n = r /\ m.turn = 0
             /\ m.what # "finished"
             /\ m.what \in Awaits =>
                   x.phase = "JOURNAL" \/ (x.phase = "SEND" /\ x.draining)
             /\ m.what \in {"submitted", "intended"} => x.turn < MaxTurns
  BY <1>1, <1>2, <1>3, <1>4 DEF Base, Sound, Names
<1>7. \A m, n \in Waiting(x) : m = n
  BY <1>1, <1>3 DEF Base, Sound, Names, Waiting
<1>8. /\ ~x.spare /\ x.phase # "FREE" /\ x.life # 0 /\ ~x.gone
      /\ x.drain => x.draining
      /\ Len(x.slots) <= Calls
      /\ \A j \in x.home : j.name.life = x.life
      /\ x.job = "none" => x.home = {} /\ "DELTA" \notin x.flags
  BY <1>1, <1>3 DEF Base, Sound
<1> QED BY <1>4, <1>5, <1>6, <1>7, <1>8

\* mcp_req_detach() when the client is gone: the record ends.
LEMMA HoldingEnds ==
  ASSUME NEW x, NEW r, Holding(x, r)
  PROVE  LET y == RecordEnd(x, r, "cancelled") IN
         Base(y) /\ y.phase # "END" /\ y.phase = x.phase
<1> DEFINE y == RecordEnd(x, r, "cancelled")
<1>1. x \in Struct /\ r \in 1 .. MaxRecs /\ x.admitted = 0 /\ x.task = 0 /\ x.phase # "END"
      /\ x.s = "client"
  BY DEF Holding
<1>2. /\ y \in Struct /\ Same(x, y, {"names", "recs"})
      /\ y.names = x.names \ {Record(x, r)}
      /\ \A q \in 1 .. MaxRecs : q # r => y.recs[q] = x.recs[q]
      /\ y.recs[r].status = IF x.recs[r].status = "working" THEN "cancelled"
                            ELSE x.recs[r].status
  BY <1>1, RecordEndIs DEF RecStatus
<1> HIDE DEF y
<1>3. /\ y.spare = x.spare /\ y.life = x.life /\ y.home = x.home /\ y.phase = x.phase
      /\ y.job = x.job /\ y.post = x.post /\ y.wal = x.wal
      /\ y.turn = x.turn /\ y.draining = x.draining /\ y.task = x.task
      /\ y.s = x.s /\ y.stream = x.stream /\ y.drain = x.drain /\ y.slots = x.slots
      /\ y.gone = x.gone /\ y.flags = x.flags /\ y.listed = x.listed
      /\ y.admitted = x.admitted
  BY <1>2 DEF Same, FieldNames
<1>4. Posted(y) /\ Streams(y)
  BY <1>1, <1>3, HoldingIs, PostedSame DEF Streams
<1>5. Owns(y)
  <2>1. ASSUME NEW q \in 1 .. MaxRecs PROVE y.recs[q].status # "working"
    <3>1. CASE q = r
      BY <1>2, <3>1
    <3>2. CASE q # r
      BY <1>2, <3>2, HoldingIs
    <3> QED BY <3>1, <3>2
  <2> QED BY <1>1, <1>3, <2>1, HoldingIs DEF Owns
<1>6. Names(y)
  <2>1. ASSUME NEW m \in y.names PROVE m.what # "record"
    <3>1. m \in x.names /\ m # Record(x, r)
      BY <1>2
    <3>2. m.life = x.life /\ (m.what = "record" => m.n = r /\ m.turn = 0)
      BY <3>1, HoldingIs
    <3>3. m \in Name
      BY <1>1, <3>1, Fields
    <3> QED BY <3>1, <3>2, <3>3 DEF Record, Name
  <2>2. Waiting(y) \subseteq Waiting(x)
    BY <1>2 DEF Waiting
  <2>3. \A m, n \in Waiting(y) : m = n
    BY <2>2, HoldingIs
  <2>4. ASSUME NEW m \in y.names
        PROVE  /\ m.life = y.life /\ m.what # "finished"
               /\ m.what \in Awaits \ {"finished"} =>
                    y.phase = "JOURNAL" \/ (y.phase = "SEND" /\ y.draining)
               /\ m.what \in {"submitted", "intended"} => y.turn < MaxTurns
    BY <1>2, <1>3, HoldingIs
  <2> QED BY <2>1, <2>3, <2>4 DEF Names
<1>7. Sound(y)
  BY <1>2, <1>3, <1>4, <1>5, <1>6, HoldingIs DEF Sound
<1>8. Base(y)
  BY <1>3, <1>7, HoldingIs DEF Base
<1> QED BY <1>1, <1>3, <1>8 DEF y

LEMMA DetachGone ==
  ASSUME NEW x, NEW r, Holding(x, r), NEW c, NEW reply, c.data = "gone"
  PROVE  LET y == Detach(x, c, r, reply) IN
         Good(y) /\ Late(y) /\ y.phase \in {x.phase, "END", "FREE"}
<1> DEFINE y == RecordEnd(x, r, "cancelled")
<1>1. Detach(x, c, r, reply) = Abort(y, c, "failed")
  BY DEF Detach
<1>2. Base(y) /\ y.phase # "END" /\ y.phase = x.phase
  BY HoldingEnds
<1> HIDE DEF y
<1>3. LET z == Abort(y, c, "failed") IN
      Good(z) /\ Late(z) /\ z.phase \in {y.phase, "END", "FREE"}
  BY <1>2, AbortKeeps
<1> QED BY <1>1, <1>2, <1>3

DetachFields == {"names", "stream", "s", "task", "listed", "promote", "timer", "flags"}

\* ... and when it is not: a stand-in takes the client's place.
LEMMA DetachGoes ==
  ASSUME NEW x, NEW r, Holding(x, r), NEW c, NEW reply, c.data # "gone"
  PROVE  LET y == Detach(x, c, r, reply) IN
         /\ Going(y) /\ y.task # 0 /\ Same(x, y, DetachFields)
         /\ y.names = {m \in x.names : m.what # "roster"} /\ y.flags \subseteq x.flags
<1> DEFINE n == {m \in x.names : m.what # "roster"}
           f == x.flags \ {"SSE_OK", "SSE", "BLOCKED"}
           l == x.listed + 1
           st == "ended"
           y == [x EXCEPT !.names = n, !.stream = st, !.s = "stand", !.task = r,
                          !.listed = l, !.promote = FALSE, !.timer = FALSE, !.flags = f]
<1>1. /\ x \in Struct /\ r \in 1 .. MaxRecs /\ x.admitted = 0 /\ x.task = 0
      /\ x.phase # "END" /\ x.s = "client" /\ x.hook \in {"none", "calls"}
      /\ Regular(x.opt) /\ "DETACH_PENDING" \notin x.flags
  BY DEF Holding
<1>2. Detach(x, c, r, reply) = y
  <2>1. Leave(x) = [x EXCEPT !.names = n]
    BY DEF Leave, ForgetAll, Forget
  <2>2. Takes(Leave(x), reply) = Leave(x)
    BY <1>1, <2>1 DEF Takes, Struct
  <2>3. n \in NameSet
    BY <1>1, Fields DEF NameSet
  <2> HIDE DEF n
  <2> DEFINE a == [x EXCEPT !.names = n]
  <2>4. a \in Struct
    BY <1>1, <2>3 DEF Struct
  <2>5. Same(x, a, {"names"})
    BY <1>1, Domain DEF Same, FieldNames
  <2>6. a.listed = x.listed /\ a.flags = x.flags /\ a.stream = x.stream
    BY <2>5 DEF Same, FieldNames
  <2>7. Detach(x, c, r, reply) =
          [a EXCEPT !.stream = IF x.s = "client" THEN "ended" ELSE @, !.s = "stand",
                    !.task = r, !.listed = @ + 1, !.promote = FALSE, !.timer = FALSE,
                    !.flags = @ \ {"SSE_OK", "SSE", "BLOCKED"}]
    BY <2>1, <2>2 DEF Detach
  <2> QED BY <1>1, <2>7 DEF Struct
<1>3. n \in NameSet /\ f \in FlagSet /\ f \subseteq x.flags /\ st \in StreamEnd /\ r \in RecNo
  BY <1>1, Fields, Given DEF NameSet, FlagSet, StreamEnd, RecNo
<1>4. l \in Count /\ l = 1
  BY HoldingIs DEF Count
<1> HIDE DEF n, f, l, st
<1>5. y \in Struct
  BY <1>1, <1>3, <1>4, ZenonT(40) DEF Struct, Bool, Holder
<1>6. /\ Same(x, y, DetachFields) /\ y.names = n /\ y.stream = st /\ y.s = "stand"
      /\ y.task = r /\ y.listed = l /\ y.promote = FALSE /\ y.flags = f
  BY <1>1, Domain DEF Same, FieldNames, DetachFields
<1> HIDE DEF y
<1>7. /\ y.spare = x.spare /\ y.life = x.life /\ y.home = x.home /\ y.phase = x.phase
      /\ y.job = x.job /\ y.post = x.post /\ y.wal = x.wal /\ y.recs = x.recs
      /\ y.turn = x.turn /\ y.draining = x.draining
      /\ y.drain = x.drain /\ y.slots = x.slots /\ y.opt = x.opt
      /\ y.gone = x.gone /\ y.admitted = x.admitted /\ y.hook = x.hook
  BY <1>6 DEF Same, FieldNames, DetachFields
<1>8. Posted(y)
  BY <1>7, HoldingIs, PostedSame
<1>9. Streams(y)
  BY <1>1, <1>6, Given DEF Streams, st
<1>10. Owns(y)
  BY <1>1, <1>4, <1>6, <1>7, HoldingIs, Given DEF Owns
<1>11. Names(y)
  <2>1. Waiting(y) \subseteq Waiting(x)
    BY <1>6 DEF Waiting, n
  <2>2. \A m, k \in Waiting(y) : m = k
    BY <2>1, HoldingIs
  <2>3. ASSUME NEW m \in y.names
        PROVE  /\ m.life = y.life /\ m.what # "finished"
               /\ m.what = "record" => m.n \in {y.task, y.admitted} \ {0} /\ m.turn = 0
               /\ m.what \in Awaits \ {"finished"} =>
                    y.phase = "JOURNAL" \/ (y.phase = "SEND" /\ y.draining)
               /\ m.what \in {"submitted", "intended"} => y.turn < MaxTurns
    <3>1. m \in x.names
      BY <1>6 DEF n
    <3> QED BY <1>1, <1>6, <1>7, <3>1, HoldingIs
  <2> QED BY <2>2, <2>3 DEF Names
<1>12. Sound(y)
  BY <1>5, <1>7, <1>8, <1>9, <1>10, <1>11, HoldingIs DEF Sound
<1>13. Base(y)
  <2>1. x.job = "none" => x.home = {} /\ "DELTA" \notin x.flags
    BY HoldingIs
  <2>2. y.job = "none" => y.home = {} /\ "DELTA" \notin y.flags
    BY <1>3, <1>6, <1>7, <2>1
  <2>3. ~y.spare /\ y.phase # "FREE" /\ y.life # 0 /\ \A j \in y.home : j.name.life = y.life
    BY <1>7, HoldingIs
  <2> QED BY <1>12, <2>2, <2>3 DEF Base
<1>14. "DETACH_PENDING" \notin y.flags /\ y.admitted = 0
  BY <1>1, <1>3, <1>6, <1>7
<1>15. Going(y)
  BY <1>1, <1>6, <1>7, <1>13, <1>14 DEF Going
<1> QED BY <1>1, <1>2, <1>3, <1>6, <1>15 DEF n

LEMMA HoldingOpen ==
  ASSUME NEW x, Going(x), x.task = 0, x.admitted = 0, "DETACH_PENDING" \notin x.flags,
         FreeRecs(x) # {}
  PROVE  Holding(Open(x), NextRec(x)) /\ Same(x, Open(x), {"names", "recs"})
         /\ Open(x).names = x.names \cup {Record(x, NextRec(x))}
<1> DEFINE o == Open(x)
           r == NextRec(x)
<1>1. Base(x) /\ x \in Struct /\ x.s = "client"
  BY DEF Going, Base, Sound, Streams
<1>2. Base([o EXCEPT !.admitted = r])
  BY <1>1, AdmitBase
<1>3. /\ r \in 1 .. MaxRecs /\ o \in Struct /\ Same(x, o, {"names", "recs"})
      /\ o.names = x.names \cup {Record(x, r)}
  BY <1>1, OpenIs DEF Base
<1> HIDE DEF o, r
<1>4. /\ o.task = x.task /\ o.admitted = x.admitted /\ o.flags = x.flags /\ o.opt = x.opt
      /\ o.phase = x.phase /\ o.hook = x.hook /\ o.s = x.s
  BY <1>3 DEF Same, FieldNames
<1>5. Holding(o, r)
  BY <1>1, <1>2, <1>3, <1>4 DEF Holding, Going
<1> QED BY <1>3, <1>5 DEF o, r

LEMMA HoldingAdmitted ==
  ASSUME NEW x, Going(x), x.task = 0, x.admitted # 0, "DETACH_PENDING" \notin x.flags
  PROVE  LET y == [x EXCEPT !.admitted = 0] IN
         Holding(y, x.admitted) /\ Same(x, y, {"admitted"})
<1> DEFINE o == 0
           y == [x EXCEPT !.admitted = o]
<1>1. Base(x) /\ x \in Struct /\ x.s = "client"
  BY DEF Going, Base, Sound, Streams
<1>2. o \in RecNo /\ x.admitted \in 1 .. MaxRecs
  BY <1>1, Fields, Given DEF RecNo
<1>3. [y EXCEPT !.admitted = x.admitted] = x
  BY <1>1 DEF Struct
<1> HIDE DEF o
<1>4. y \in Struct
  BY <1>1, <1>2 DEF Struct
<1>5. Same(x, y, {"admitted"}) /\ y.admitted = o
  BY <1>1, Domain DEF Same, FieldNames
<1> HIDE DEF y
<1>6. /\ y.task = x.task /\ y.flags = x.flags /\ y.opt = x.opt
      /\ y.phase = x.phase /\ y.hook = x.hook /\ y.s = x.s
  BY <1>5 DEF Same, FieldNames
<1>7. Holding(y, x.admitted)
  BY <1>1, <1>2, <1>3, <1>4, <1>5, <1>6 DEF Holding, Going, o
<1> QED BY <1>5, <1>7 DEF y, o

\* What Calling is about.
LEMMA CallingLike ==
  ASSUME NEW x, Calling(x), NEW y, y.job = x.job, y.phase = x.phase, y.home = x.home,
         y.turn = x.turn, CallNames(y) = CallNames(x),
         \A m \in CallNames(x), what \in {"done", "delta"} :
           m.what = "call" => (Word(x, m, what) <=> Word(y, m, what)),
         "DELTA" \in y.flags =>
           "DELTA" \in x.flags /\ ("SSE" \in x.flags => "SSE" \in y.flags)
  PROVE  Calling(y)
<1>0. \A m \in CallNames(y) : m \in y.names
  BY DEF CallNames
<1>1. CASE Quiet(x)
  BY <1>1 DEF Calling, Quiet
<1>2. CASE Parked(x)
  BY <1>0, <1>2 DEF Calling, Parked
<1>3. CASE Asked(x)
  <2>1. PICK m \in x.names :
          /\ CallNames(x) = {m} /\ m.what = "call" /\ m.turn = x.turn
          /\ Word(x, m, "done") => ~Word(x, m, "delta")
          /\ Word(x, m, "done") => x.home = {} /\ "DELTA" \notin x.flags
          /\ ~Word(x, m, "done") => \E d \in BOOLEAN, at \in {"runs", "held"} :
               /\ x.home = {[name |-> m, at |-> at, durable |-> d]}
               /\ Word(x, m, "delta") => at = "held" /\ "DELTA" \notin x.flags
               /\ "DELTA" \in x.flags => at = "held" /\ "SSE" \in x.flags
    BY <1>3 DEF Asked
  <2>2. m \in y.names /\ CallNames(y) = {m} /\ m.what = "call" /\ m.turn = y.turn
    BY <1>0, <2>1
  <2>3. /\ Word(x, m, "done") <=> Word(y, m, "done")
        /\ Word(x, m, "delta") <=> Word(y, m, "delta")
    BY <2>1
  <2>4. /\ Word(y, m, "done") => ~Word(y, m, "delta")
        /\ Word(y, m, "done") => y.home = {} /\ "DELTA" \notin y.flags
    BY <2>1, <2>3
  <2>5. ~Word(y, m, "done") => \E d \in BOOLEAN, at \in {"runs", "held"} :
               /\ y.home = {[name |-> m, at |-> at, durable |-> d]}
               /\ Word(y, m, "delta") => at = "held" /\ "DELTA" \notin y.flags
               /\ "DELTA" \in y.flags => at = "held" /\ "SSE" \in y.flags
    <3> HAVE ~Word(y, m, "done")
    <3>1. PICK d \in BOOLEAN, at \in {"runs", "held"} :
               /\ x.home = {[name |-> m, at |-> at, durable |-> d]}
               /\ Word(x, m, "delta") => at = "held" /\ "DELTA" \notin x.flags
               /\ "DELTA" \in x.flags => at = "held" /\ "SSE" \in x.flags
      BY <2>1, <2>3
    <3>2. /\ y.home = {[name |-> m, at |-> at, durable |-> d]}
          /\ Word(y, m, "delta") => at = "held" /\ "DELTA" \notin y.flags
          /\ "DELTA" \in y.flags => at = "held" /\ "SSE" \in y.flags
      BY <2>3, <3>1
    <3> QED BY <3>2
  <2>6. y.job = "waits" /\ y.phase = "CALL"
    BY <1>3 DEF Asked
  <2> QED BY <2>2, <2>4, <2>5, <2>6 DEF Calling, Asked
<1> QED BY <1>1, <1>2, <1>3 DEF Calling

LEMMA DetachNames ==
  ASSUME NEW x \in Struct, NEW y, NEW r,
         y.names = {m \in x.names \cup {Record(x, r)} : m.what # "roster"}
  PROVE  CallNames(y) = CallNames(x) /\ Waiting(y) = Waiting(x)
<1>1. Record(x, r).what = "record"
  BY DEF Record
<1> QED BY <1>1 DEF CallNames, Waiting, Awaits

BackFields == DetachFields \cup {"recs", "admitted"}

\* A record for a call that has none: mcp_req_background() and mcp_req_promote().
LEMMA OpenDetach ==
  ASSUME NEW x, Going(x), x.task = 0, x.admitted = 0, "DETACH_PENDING" \notin x.flags,
         FreeRecs(x) # {}, NEW c, NEW reply
  PROVE  LET y == Detach(Open(x), c, NextRec(x), reply) IN
         /\ c.data = "gone" => Good(y) /\ Late(y) /\ y.phase \in {x.phase, "END", "FREE"}
         /\ c.data # "gone" => /\ Going(y) /\ y.task # 0 /\ Same(x, y, BackFields)
                               /\ y.flags \subseteq x.flags
                               /\ CallNames(y) = CallNames(x) /\ Waiting(y) = Waiting(x)
<1> DEFINE o == Open(x)
           r == NextRec(x)
           y == Detach(o, c, r, reply)
<1>1. Holding(o, r) /\ Same(x, o, {"names", "recs"}) /\ o.names = x.names \cup {Record(x, r)}
  BY HoldingOpen
<1> HIDE DEF o, r
<1>2. c.data = "gone" => Good(y) /\ Late(y) /\ y.phase \in {x.phase, "END", "FREE"}
  <2>1. o.phase = x.phase
    BY <1>1 DEF Same, FieldNames
  <2> QED BY <1>1, <2>1, DetachGone
<1>3. c.data # "gone" => /\ Going(y) /\ y.task # 0 /\ Same(o, y, DetachFields)
                         /\ y.names = {m \in o.names : m.what # "roster"}
                         /\ y.flags \subseteq o.flags
  BY <1>1, DetachGoes
<1> HIDE DEF y
<1>4. ASSUME c.data # "gone"
      PROVE  /\ Going(y) /\ y.task # 0 /\ Same(x, y, BackFields)
             /\ y.flags \subseteq x.flags
             /\ CallNames(y) = CallNames(x) /\ Waiting(y) = Waiting(x)
  <2>1. Same(x, y, BackFields)
    BY <1>1, <1>3, <1>4 DEF Same, BackFields, DetachFields
  <2>2. o.flags = x.flags
    BY <1>1 DEF Same, FieldNames
  <2>3. x \in Struct
    BY DEF Going, Base, Sound
  <2>4. CallNames(y) = CallNames(x) /\ Waiting(y) = Waiting(x)
    BY <1>1, <1>3, <1>4, <2>3, DetachNames
  <2> QED BY <1>3, <1>4, <2>1, <2>2, <2>4
<1> QED BY <1>2, <1>4 DEF y, o, r

\* mcp_req_background().
LEMMA BackgroundKeeps ==
  ASSUME NEW x, Goes(x), x.task = 0, "DETACH_PENDING" \notin x.flags, NEW c
  PROVE  LET y == Background(x, c) IN
         /\ ~CanDetach(x, c) => Good(y)
         /\ CanDetach(x, c) => /\ Goes(y) /\ y.task # 0 /\ Same(x, y, BackFields)
                               /\ y.flags \subseteq x.flags
<1> DEFINE y == Background(x, c)
<1>1. Going(x)
  BY DEF Goes
<1>2. ASSUME Going(y), y.task # 0, Same(x, y, BackFields), y.flags \subseteq x.flags,
             CallNames(y) = CallNames(x), Waiting(y) = Waiting(x)
      PROVE  Goes(y)
  <2>1. y.job = x.job /\ y.home = x.home
    BY <1>2 DEF Same, FieldNames, BackFields, DetachFields
  <2> QED BY <1>2, <2>1 DEF Goes, Quiet
<1>3. CASE x.admitted = 0 /\ ~CanOpen(x, c)
  <2>1. y = Close(x, c, "answer")
    BY <1>3 DEF Background, Result
  <2>2. ~CanDetach(x, c)
    BY <1>3 DEF CanDetach
  <2> HIDE DEF y
  <2>3. Good(y)
    BY <1>1, <2>1, CloseKeeps DEF Goes
  <2> QED BY <2>2, <2>3 DEF y
<1>4. CASE x.admitted = 0 /\ CanOpen(x, c)
  <2>1. y = Detach(Open(x), c, NextRec(x), "started")
    BY <1>4 DEF Background
  <2>2. FreeRecs(x) # {} /\ (CanDetach(x, c) <=> c.data # "gone")
    BY <1>4 DEF CanOpen, CanDetach
  <2> HIDE DEF y
  <2>3. /\ c.data = "gone" => Good(y)
        /\ c.data # "gone" => /\ Going(y) /\ y.task # 0 /\ Same(x, y, BackFields)
                              /\ y.flags \subseteq x.flags
                              /\ CallNames(y) = CallNames(x) /\ Waiting(y) = Waiting(x)
    BY <1>1, <1>4, <2>1, <2>2, OpenDetach
  <2> QED BY <1>2, <2>2, <2>3 DEF y
<1>5. CASE x.admitted # 0
  <2> DEFINE o == [x EXCEPT !.admitted = 0]
             r == x.admitted
  <2>1. y = Detach(o, c, r, "started")
    BY <1>5 DEF Background
  <2>2. CanDetach(x, c) <=> c.data # "gone"
    BY <1>5 DEF CanDetach
  <2>3. Holding(o, r) /\ Same(x, o, {"admitted"})
    BY <1>1, <1>5, HoldingAdmitted
  <2> HIDE DEF o, r, y
  <2>4. c.data = "gone" => Good(y)
    BY <2>1, <2>3, DetachGone
  <2>5. c.data # "gone" => /\ Going(y) /\ y.task # 0 /\ Same(o, y, DetachFields)
                           /\ y.names = {m \in o.names : m.what # "roster"}
                           /\ y.flags \subseteq o.flags
    BY <2>1, <2>3, DetachGoes
  <2>6. ASSUME c.data # "gone"
        PROVE  /\ Going(y) /\ y.task # 0 /\ Same(x, y, BackFields)
               /\ y.flags \subseteq x.flags
               /\ CallNames(y) = CallNames(x) /\ Waiting(y) = Waiting(x)
    <3>1. Same(x, y, BackFields)
      BY <2>3, <2>5, <2>6 DEF Same, BackFields
    <3>2. o.flags = x.flags /\ o.names = x.names
      BY <2>3 DEF Same, FieldNames
    <3>3. CallNames(y) = CallNames(x) /\ Waiting(y) = Waiting(x)
      BY <2>5, <2>6, <3>2 DEF CallNames, Waiting, Awaits
    <3> QED BY <2>5, <2>6, <3>1, <3>2, <3>3
  <2> QED BY <1>2, <2>2, <2>4, <2>6 DEF y
<1> QED BY <1>3, <1>4, <1>5

\* mcp_req_promote().
LEMMA PromoteKeeps ==
  ASSUME NEW x, Going(x), Calling(x), x.task = 0, x.admitted = 0,
         "DETACH_PENDING" \notin x.flags, "DELTA" \notin x.flags, FreeRecs(x) # {}, NEW c
  PROVE  LET y == Promote(x, c) IN
         /\ c.data = "gone" => Good(y) /\ Late(y) /\ y.phase \in {x.phase, "END", "FREE"}
         /\ c.data # "gone" => /\ Going(y) /\ Calling(y) /\ y.task # 0
                               /\ Same(x, y, BackFields)
                               /\ "DELTA" \notin y.flags
<1> DEFINE y == Promote(x, c)
<1>1. y = Detach(Open(x), c, NextRec(x), "task")
  BY DEF Promote
<1> HIDE DEF y
<1>2. /\ c.data = "gone" => Good(y) /\ Late(y) /\ y.phase \in {x.phase, "END", "FREE"}
      /\ c.data # "gone" => /\ Going(y) /\ y.task # 0 /\ Same(x, y, BackFields)
                            /\ y.flags \subseteq x.flags
                            /\ CallNames(y) = CallNames(x) /\ Waiting(y) = Waiting(x)
  BY <1>1, OpenDetach
<1>3. ASSUME c.data # "gone" PROVE Calling(y) /\ "DELTA" \notin y.flags
  <2>1. /\ y.job = x.job /\ y.phase = x.phase /\ y.home = x.home /\ y.turn = x.turn
        /\ y.post = x.post
    BY <1>2, <1>3 DEF Same, FieldNames, BackFields, DetachFields
  <2>2. "DELTA" \notin y.flags
    BY <1>2, <1>3
  <2>3. \A m \in CallNames(x), what \in {"done", "delta"} :
          m.what = "call" => (Word(x, m, what) <=> Word(y, m, what))
    BY <2>1 DEF Word
  <2>4. Calling(y)
    BY <1>2, <1>3, <2>1, <2>2, <2>3, CallingLike
  <2> QED BY <2>2, <2>4
<1> QED BY <1>2, <1>3 DEF y

-----------------------------------------------------------------------------
(* How a turn goes home.                                                   *)

\* mcp_req_submit().
LEMMA SubmitKeeps ==
  ASSUME NEW x, Goes(x), x.turn < MaxTurns, x.phase \notin Sent, NEW c
  PROVE  Good(ReqSubmit(x, c))
<1>1. CASE ~c.open
  BY <1>1, FailKeeps DEF ReqSubmit, Goes
<1>2. CASE c.open
  <2> DEFINE t == x.turn + 1
             who == [what |-> "call", life |-> x.life, turn |-> t, n |-> 0]
             d == x.task # 0 /\ x.archive
             j == [name |-> who, at |-> "runs", durable |-> d]
             n == x.names \cup {who}
             h == x.home \cup {j}
             y == [x EXCEPT !.turn = t, !.names = n, !.job = "waits", !.phase = "CALL",
                            !.home = h]
  <2>1. /\ x \in Struct /\ x.life # 0 /\ Base(x) /\ Sound(x) /\ Posted(x) /\ Names(x)
        /\ x.home = {} /\ "DELTA" \notin x.flags /\ CallNames(x) = {} /\ Waiting(x) = {}
        /\ ~x.spare
    BY DEF Goes, Quiet, Going, Base, Sound
  <2>2. /\ x.turn \in 0 .. MaxTurns /\ x.life \in 1 .. MaxLives
        /\ 0 \in 0 .. MaxRecs + Calls /\ t \in 1 .. MaxTurns
    BY <2>1, Fields, Given
  <2>3. ReqSubmit(x, c) = y
    <3>1. [x EXCEPT !.turn = @ + 1].turn = t /\ [x EXCEPT !.turn = @ + 1].life = x.life
      BY <2>1, Domain DEF FieldNames
    <3>2. Named([x EXCEPT !.turn = @ + 1], "call", 0) = who
      BY <3>1 DEF Named
    <3>3. SubmitAs(x, who) = y
      <4>1. who.turn = t
        OBVIOUS
      <4> HIDE DEF who, t
      <4> QED BY <4>1 DEF SubmitAs
    <3> QED BY <1>2, <3>2, <3>3 DEF ReqSubmit
  <2>4. who \in Name /\ who.what = "call" /\ who.life = x.life /\ who.turn = t
    BY <2>2 DEF Name
  <2> HIDE DEF who
  <2>5. d \in BOOLEAN /\ j \in HomeJob /\ j.name = who
    <3>1. d \in BOOLEAN
      OBVIOUS
    <3> HIDE DEF d
    <3> QED BY <2>4, <3>1 DEF HomeJob
  <2>6. n \in NameSet /\ h \in HomeSet /\ t \in TurnNo
    BY <2>1, <2>2, <2>4, <2>5, Fields DEF NameSet, HomeSet, TurnNo
  <2>7. h = {[name |-> who, at |-> "runs", durable |-> d]}
    BY <2>1
  <2> HIDE DEF t, d, j, n, h
  <2>8. y \in Struct
    BY <2>1, <2>6, ZenonT(40) DEF Struct, JobState, Phase, Working
  <2>9. /\ Same(x, y, {"turn", "names", "job", "phase", "home"}) /\ y.turn = t
        /\ y.names = n /\ y.job = "waits" /\ y.phase = "CALL" /\ y.home = h
    BY <2>1, Domain DEF Same, FieldNames
  <2> HIDE DEF y
  <2>10. /\ y.spare = x.spare /\ y.life = x.life
         /\ y.post = x.post /\ y.wal = x.wal /\ y.recs = x.recs
         /\ y.draining = x.draining /\ y.s = x.s /\ y.stream = x.stream
         /\ y.drain = x.drain /\ y.slots = x.slots /\ y.opt = x.opt /\ y.task = x.task
         /\ y.gone = x.gone /\ y.admitted = x.admitted /\ y.hook = x.hook
         /\ y.flags = x.flags /\ y.promote = x.promote /\ y.listed = x.listed
    BY <2>9 DEF Same, FieldNames
  <2>11. ASSUME NEW p \in x.post, p.who.what = "call", p.who.life = x.life
         PROVE  p.who.turn < t
    <3>1. p \in Mail /\ p.who.turn <= x.turn
      BY <2>1, <2>11, Fields DEF Posted
    <3>2. p.who \in Name
      BY <3>1 DEF Mail
    <3>3. p.who.turn \in 0 .. MaxTurns
      BY <3>2 DEF Name
    <3> QED BY <2>2, <3>1, <3>3, Given DEF t
  <2>12. Posted(y)
    <3>1. ASSUME NEW p \in y.post
          PROVE  /\ p.what \in {"delta", "done"} <=> p.who.what = "call"
                 /\ p.what = "wrote" <=> p.who.what \in Awaits
                 /\ p.what = "roster" <=> p.who.what = "roster"
                 /\ p.what = "record" <=> p.who.what = "record"
                 /\ p.what = "done" => p.how \in Hows
                 /\ p.what = "delta" => p.how = ""
                 /\ p.who.life <= y.life
      <4>1. p \in x.post /\ y.life = x.life /\ Posted(x)
        BY <2>1, <2>10
      <4> HIDE DEF n
      <4> QED BY <4>1 DEF Posted
    <3>2. ASSUME NEW p \in y.post, p.who.what = "call", p.who.life = y.life
          PROVE  p.who.turn <= y.turn
      <4>1. p.who.turn < t
        BY <2>10, <2>11, <3>2
      <4>2. p \in Mail
        BY <2>1, <2>10, <3>2, Fields
      <4>3. p.who \in Name
        BY <4>2 DEF Mail
      <4>4. p.who.turn \in 0 .. MaxTurns
        BY <4>3 DEF Name
      <4> QED BY <2>2, <2>9, <4>1, <4>4, Given
    <3>3. \A i \in DOMAIN y.wal :
            LET w == y.wal[i].who IN w # NoName => w.what \in Awaits /\ w.life <= y.life
      <4>1. y.wal = x.wal /\ y.life = x.life /\ Posted(x)
        BY <2>1, <2>10
      <4> HIDE DEF y, n
      <4> QED BY ONLY <4>1 DEF Posted
    <3> QED BY <3>1, <3>2, <3>3 DEF Posted
  <2>13. Names(y)
    <3>1. \A m \in y.names : m.what \notin Awaits
      BY <2>1, <2>4, <2>9 DEF n, Waiting, Awaits
    <3>2. ASSUME NEW m \in y.names
          PROVE  /\ m.life = y.life
                 /\ m.what = "record" => m.n \in {y.task, y.admitted} \ {0} /\ m.turn = 0
      <4>1. CASE m = who
        BY <2>4, <2>10, <4>1
      <4>2. CASE m \in x.names
        BY <2>1, <2>10, <4>2 DEF Names
      <4> QED BY <2>9, <4>1, <4>2 DEF n
    <3> QED BY <3>1, <3>2 DEF Names, Waiting, Awaits
  <2>14. Owns(y) /\ Streams(y)
    BY <2>1, <2>9, <2>10 DEF Base, Sound, Owns, Streams
  <2>15. Sound(y)
    BY <2>1, <2>8, <2>10, <2>12, <2>13, <2>14 DEF Sound
  <2>16. Base(y)
    BY <2>1, <2>4, <2>7, <2>9, <2>10, <2>15 DEF Base
  <2>17. Going(y)
    BY <2>9, <2>10, <2>16 DEF Going, Goes
  <2>18. ~Word(y, who, "done") /\ ~Word(y, who, "delta")
    <3>1. ASSUME NEW p \in y.post, p.who = who PROVE FALSE
      BY <2>2, <2>4, <2>10, <2>11, <3>1
    <3> QED BY <3>1 DEF Word
  <2>19. CallNames(y) = {who} /\ who \in y.names
    BY <2>1, <2>4, <2>9 DEF CallNames, n
  <2>20. Asked(y)
    BY <2>1, <2>4, <2>5, <2>7, <2>9, <2>10, <2>18, <2>19, ZenonT(40) DEF Asked, d
  <2> QED BY <2>3, <2>9, <2>17, <2>20, GoesGood DEF Calling, Unread
<1> QED BY <1>1, <1>2

\* A request that waits for the journal.
LEMMA JournalKeeps ==
  ASSUME NEW x, Goes(x), NEW kind \in {"submitted", "intended", "reasoned"},
         kind # "reasoned" => x.turn < MaxTurns, NEW y \in Struct,
         Same(ReqArchive(x, kind, 0, "none"), y, {"step", "phase"}), y.phase = "JOURNAL"
  PROVE  Good(y)
<1> DEFINE a == ReqArchive(x, kind, 0, "none")
           who == Named(x, kind, x.launched)
<1>1. /\ x \in Struct /\ x.life # 0 /\ Base(x) /\ Sound(x) /\ Posted(x) /\ Names(x)
      /\ Quiet(x) /\ Waiting(x) = {}
  BY DEF Goes, Going, Base, Sound
<1>2. kind \in Awaits /\ kind # "finished" /\ 0 \in RecNo /\ "none" \in RecStatus
  BY Given DEF Awaits, RecNo, RecStatus
<1>3. /\ a \in Struct /\ Same(x, a, {"names", "wal"}) /\ a.names = x.names \cup {who}
      /\ who.what = kind /\ who.life = x.life /\ Posted(a)
  BY <1>1, <1>2, ArchiveIs
<1>4. Same(a, y, {"step", "phase"})
  OBVIOUS
<1> HIDE DEF a, who
<1>5. /\ y.spare = x.spare /\ y.life = x.life /\ y.recs = x.recs /\ y.turn = x.turn
      /\ y.draining = x.draining /\ y.s = x.s /\ y.stream = x.stream
      /\ y.drain = x.drain /\ y.slots = x.slots /\ y.opt = x.opt /\ y.task = x.task
      /\ y.gone = x.gone /\ y.admitted = x.admitted /\ y.hook = x.hook
      /\ y.flags = x.flags /\ y.promote = x.promote /\ y.listed = x.listed
      /\ y.job = x.job /\ y.home = x.home
      /\ y.names = a.names /\ y.post = a.post /\ y.wal = a.wal /\ y.life = a.life
      /\ y.turn = a.turn /\ y.spare = a.spare
  BY <1>3, <1>4 DEF Same, FieldNames
<1>6. Posted(y)
  BY <1>3, <1>5, PostedSame
<1>7. \A m \in y.names : m = who \/ (m \in x.names /\ m.what \notin Awaits)
  BY <1>1, <1>3, <1>5 DEF Waiting
<1>8. Names(y)
  <2>1. \A m \in Waiting(y) : m = who
    BY <1>7 DEF Waiting
  <2>2. ASSUME NEW m \in y.names
        PROVE  /\ m.life = y.life /\ m.what # "finished"
               /\ m.what = "record" => m.n \in {y.task, y.admitted} \ {0} /\ m.turn = 0
               /\ m.what \in {"submitted", "intended"} => y.turn < MaxTurns
    <3>1. CASE m = who
      BY <1>2, <1>3, <1>5, <3>1
    <3>2. CASE m # who
      BY <1>1, <1>5, <1>7, <3>2 DEF Names, Awaits
    <3> QED BY <3>1, <3>2
  <2> QED BY <2>1, <2>2 DEF Names
<1>9. Owns(y) /\ Streams(y)
  BY <1>1, <1>5 DEF Base, Sound, Owns, Streams
<1>10. Sound(y)
  BY <1>1, <1>5, <1>6, <1>8, <1>9 DEF Sound
<1>11. Base(y)
  BY <1>1, <1>5, <1>10 DEF Base
<1>12. Going(y)
  BY <1>5, <1>11 DEF Going, Goes
<1>13. CallNames(y) = {}
  BY <1>1, <1>2, <1>3, <1>7 DEF Quiet, CallNames, Awaits
<1>14. Quiet(y)
  BY <1>1, <1>5, <1>13 DEF Quiet
<1> QED BY <1>12, <1>14, GoesGood DEF Calling, Unread

LEMMA WrittenKeeps ==
  ASSUME NEW x, Goes(x), x.turn < MaxTurns, NEW c
  PROVE  Good(Written(x, c))
<1>1. CASE x.lost \/ (Admits(x) /\ ~CanOpen(x, c)) \/ ~CanWait(x, c)
  BY <1>1, CloseKeeps DEF Written, Goes
<1>2. CASE ~(x.lost \/ (Admits(x) /\ ~CanOpen(x, c)) \/ ~CanWait(x, c))
  <2> DEFINE a == ReqArchive(x, "submitted", 0, "none")
             y == [a EXCEPT !.step = FALSE, !.phase = "JOURNAL"]
  <2>1. a \in Struct
    BY ArchiveIs, Given DEF Goes, Going, Base, Sound, Awaits, RecNo, RecStatus
  <2>2. Written(x, c) = y
    BY <1>2 DEF Written
  <2>3. y \in Struct
    <3> HIDE DEF a
    <3> QED BY <2>1, ZenonT(40) DEF Struct, Bool, Phase, Working
  <2>4. Same(a, y, {"step", "phase"}) /\ y.phase = "JOURNAL"
    <3> HIDE DEF a
    <3> QED BY <2>1, Domain DEF Same, FieldNames
  <2> HIDE DEF y
  <2> QED BY <2>2, <2>3, <2>4, JournalKeeps
<1> QED BY <1>1, <1>2

LEMMA AdmitKeeps ==
  ASSUME NEW x, Goes(x), Admits(x), FreeRecs(x) # {}
  PROVE  LET y == [Open(x) EXCEPT !.admitted = NextRec(x)] IN
         Goes(y) /\ y.turn = x.turn
<1> DEFINE y == [Open(x) EXCEPT !.admitted = NextRec(x)]
<1>1. /\ Base(x) /\ x.admitted = 0 /\ "DETACH_PENDING" \in x.flags
      /\ x.opt.tool = "ask" /\ x.opt.background /\ x.opt.journal
  BY DEF Goes, Going, Admits
<1>2. /\ Base(y) /\ Same(x, y, {"names", "recs", "admitted"})
      /\ y.names = x.names \cup {Record(x, NextRec(x))}
  BY <1>1, AdmitBase
<1> HIDE DEF y
<1>3. /\ y.phase = x.phase /\ y.hook = x.hook /\ y.s = x.s /\ y.opt = x.opt
      /\ y.promote = x.promote /\ y.task = x.task /\ y.flags = x.flags /\ y.job = x.job
      /\ y.home = x.home /\ y.turn = x.turn
  BY <1>2 DEF Same, FieldNames
<1>4. Going(y)
  BY <1>1, <1>2, <1>3 DEF Going, Goes
<1>5. CallNames(y) = CallNames(x) /\ Waiting(y) = Waiting(x)
  <2>1. Record(x, NextRec(x)).what = "record"
    BY DEF Record
  <2> QED BY <1>2, <2>1 DEF CallNames, Waiting, Awaits
<1> QED BY <1>3, <1>4, <1>5 DEF Goes, Quiet, y

\* mcp_req_checkpoint().
LEMMA CheckpointKeeps ==
  ASSUME NEW x, Goes(x), x.turn < MaxTurns, NEW c
  PROVE  Good(Checkpoint(x, c))
<1>1. CASE x.lost \/ (Admits(x) /\ ~CanOpen(x, c))
  BY <1>1, WrittenKeeps DEF Checkpoint
<1>2. CASE ~(x.lost \/ (Admits(x) /\ ~CanOpen(x, c)))
  <2> DEFINE a == IF Admits(x) THEN [Open(x) EXCEPT !.admitted = NextRec(x)] ELSE x
             o == {}
             y == [a EXCEPT !.archive = TRUE, !.intents = o]
  <2>1. Goes(a) /\ a.turn = x.turn
    <3>1. CASE Admits(x)
      BY <1>2, <3>1, AdmitKeeps DEF CanOpen
    <3>2. CASE ~Admits(x)
      BY <3>2
    <3> QED BY <3>1, <3>2
  <2>2. Checkpoint(x, c) = Written(y, c)
    BY <1>2 DEF Checkpoint
  <2> HIDE DEF a
  <2>3. a \in Struct /\ o \in CountSet
    BY <2>1 DEF Goes, Going, Base, Sound, CountSet
  <2> HIDE DEF o
  <2>4. y \in Struct
    BY <2>3, ZenonT(40) DEF Struct, Bool
  <2>5. Same(a, y, {"archive", "intents"})
    BY <2>3, Domain DEF Same, FieldNames
  <2> HIDE DEF y
  <2>6. Goes(y) /\ y.turn = a.turn
    BY <2>1, <2>4, <2>5, GoesMinor DEF Same, FieldNames, Minor
  <2> QED BY <2>1, <2>2, <2>6, WrittenKeeps
<1> QED BY <1>1, <1>2

LEMMA WaitKeeps ==
  ASSUME NEW x, Goes(x)
  PROVE  LET y == Wait(x) IN
         Goes(y) /\ Same(x, y, {"hook", "drain"}) /\ (y.hook = x.hook \/ y.hook = "calls")
<1> DEFINE y == Wait(x)
<1>1. x \in Struct
  BY DEF Goes, Going, Base, Sound
<1>2. /\ y \in Struct /\ Same(x, y, {"hook", "drain"})
      /\ y.hook = x.hook \/ y.hook = "calls"
      /\ y.drain = x.drain \/ x.draining = TRUE
  BY <1>1, WaitIs
<1> HIDE DEF y
<1>3. /\ y.phase = x.phase /\ y.names = x.names /\ y.home = x.home /\ y.job = x.job
      /\ y.flags = x.flags /\ y.promote = x.promote /\ y.slots = x.slots
  BY <1>2 DEF Same, FieldNames
<1>4. Same(x, y, Minor \cup Moved)
  BY <1>2 DEF Same, Moved
<1>5. y.job # "waits"
  BY <1>3 DEF Goes, Quiet
<1>6. MayMove(x, y)
  BY <1>2, <1>3, <1>4 DEF MayMove
<1> QED BY <1>2, <1>5, <1>6, GoesMoves DEF y

\* mcp_req_turn_submit().
LEMMA TurnSubmitKeeps ==
  ASSUME NEW x, Goes(x), x.turn < MaxTurns, x.phase \notin Sent, NEW c
  PROVE  Good(TurnSubmit(x, c))
<1> DEFINE y == Wait(x)
<1>1. Goes(y) /\ Same(x, y, {"hook", "drain"})
  BY WaitKeeps
<1>2. /\ TurnSubmit(x, c) = Fail(x, c) \/ TurnSubmit(x, c) = Checkpoint(y, c)
         \/ TurnSubmit(x, c) = ReqSubmit(y, c)
  BY DEF TurnSubmit
<1> HIDE DEF y
<1>3. y.turn < MaxTurns /\ y.phase \notin Sent
  BY <1>1 DEF Same, FieldNames
<1> QED BY <1>1, <1>2, <1>3, FailKeeps, CheckpointKeeps, SubmitKeeps DEF Goes

LEMMA PhaseTypes ==
  /\ Working \subseteq Phase /\ Sent \subseteq Phase /\ "REPLY" \in Phase
  /\ Working \cap Sent = {} /\ Unread \subseteq Working
BY DEF Phase, Working, Sent, Unread

\* mcp_req_archive_submitted().
LEMMA SubmittedKeeps ==
  ASSUME NEW x, Goes(x), x.turn < MaxTurns, NEW c, NEW ok \in BOOLEAN,
         x.phase = "JOURNAL" \/ (x.phase = "SEND" /\ x.draining)
  PROVE  Good(Submitted(x, c, ok))
<1> DEFINE f == x.flags \ {"DETACH_PENDING"}
           y == [x EXCEPT !.flags = f]
           b == Background(y, c)
<1>1. CASE ~ok \/ x.draining
  BY <1>1, CloseKeeps DEF Submitted, Goes
<1>2. ok /\ ~x.draining => x.phase \notin Sent
  BY DEF Sent
<1>3. CASE ok /\ ~x.draining /\ "DETACH_PENDING" \notin x.flags
  <2>1. Submitted(x, c, ok) = ReqSubmit(x, c)
    BY <1>3 DEF Submitted
  <2> QED BY <1>2, <1>3, <2>1, SubmitKeeps
<1>4. CASE ok /\ ~x.draining /\ "DETACH_PENDING" \in x.flags
  <2>1. x \in Struct /\ x.task = 0 /\ Quiet(x)
    BY <1>4 DEF Goes, Going, Base, Sound
  <2>2. f \in FlagSet /\ f \subseteq x.flags
    BY <2>1, Fields DEF FlagSet
  <2>3. /\ ~CanDetach(y, c) => Submitted(x, c, ok) = b
        /\ CanDetach(y, c) => Submitted(x, c, ok) = ReqSubmit(b, c)
    BY <1>4 DEF Submitted
  <2>4. "DETACH_PENDING" \notin f
    OBVIOUS
  <2> HIDE DEF f
  <2>5. y \in Struct
    BY <2>1, <2>2 DEF Struct
  <2>6. Same(x, y, {"flags"}) /\ y.flags = f
    BY <2>1, Domain DEF Same, FieldNames
  <2> HIDE DEF y
  <2>7. /\ y.phase = x.phase /\ y.names = x.names /\ y.home = x.home /\ y.job = x.job
        /\ y.promote = x.promote /\ y.slots = x.slots /\ y.hook = x.hook
        /\ y.drain = x.drain /\ y.task = x.task /\ y.turn = x.turn
    BY <2>6 DEF Same, FieldNames
  <2>8. MayMove(x, y)
    <3>1. Same(x, y, Minor \cup Moved)
      BY <2>6 DEF Same, Moved
    <3>2. "DELTA" \in y.flags => "DELTA" \in x.flags
      BY <2>2, <2>6
    <3>3. "DETACH_PENDING" \in y.flags => "DETACH_PENDING" \in x.flags
      BY <2>2, <2>6
    <3> QED BY <2>5, <2>7, <3>1, <3>2, <3>3 DEF MayMove
  <2>9. Goes(y)
    BY <2>1, <2>7, <2>8, GoesMoves DEF Quiet
  <2>10. /\ ~CanDetach(y, c) => Good(b)
         /\ CanDetach(y, c) => /\ Goes(b) /\ b.task # 0 /\ Same(y, b, BackFields)
                               /\ b.flags \subseteq y.flags
    BY <2>1, <2>4, <2>6, <2>7, <2>9, BackgroundKeeps
  <2> HIDE DEF b
  <2>11. CASE ~CanDetach(y, c)
    BY <2>3, <2>10, <2>11
  <2>12. CASE CanDetach(y, c)
    <3>1. b.turn = y.turn /\ b.phase = y.phase
      BY <2>10, <2>12 DEF Same, FieldNames, BackFields, DetachFields
    <3> QED BY <1>2, <1>4, <2>3, <2>7, <2>10, <2>12, <3>1, SubmitKeeps
  <2> QED BY <2>11, <2>12
<1> QED BY <1>1, <1>3, <1>4

-----------------------------------------------------------------------------
(* How a call begins.                                                      *)

\* Another name: of a tool's call, or of a place in the roster.
LEMMA NameKeeps ==
  ASSUME NEW x, Going(x), NEW m \in Name, m.life = x.life, m.what \in {"tool", "roster"},
         NEW y \in Struct, Same(x, y, {"names"}), y.names = x.names \cup {m}
  PROVE  /\ Going(y) /\ Waiting(y) = Waiting(x)
         /\ CallNames(y) = IF m.what = "tool" /\ m.n = 0 THEN CallNames(x) \cup {m}
                           ELSE CallNames(x)
<1>1. /\ y.spare = x.spare /\ y.life = x.life /\ y.home = x.home /\ y.phase = x.phase
      /\ y.job = x.job /\ y.post = x.post /\ y.wal = x.wal /\ y.recs = x.recs
      /\ y.turn = x.turn /\ y.draining = x.draining /\ y.s = x.s /\ y.stream = x.stream
      /\ y.drain = x.drain /\ y.slots = x.slots /\ y.opt = x.opt /\ y.task = x.task
      /\ y.gone = x.gone /\ y.admitted = x.admitted /\ y.hook = x.hook
      /\ y.flags = x.flags /\ y.promote = x.promote /\ y.listed = x.listed
  BY DEF Same, FieldNames
<1>2. Waiting(y) = Waiting(x)
  BY DEF Waiting, Awaits
<1>3. CallNames(y) = IF m.what = "tool" /\ m.n = 0 THEN CallNames(x) \cup {m}
                     ELSE CallNames(x)
  BY DEF CallNames
<1>4. Base(x) /\ Sound(x) /\ Names(x) /\ Posted(x)
  BY DEF Going, Base, Sound
<1>5. Names(y)
  <2>1. \A i, j \in Waiting(y) : i = j
    BY <1>2, <1>4 DEF Names
  <2>2. ASSUME NEW i \in y.names
        PROVE  /\ i.life = y.life
               /\ i.what = "record" => i.n \in {y.task, y.admitted} \ {0} /\ i.turn = 0
               /\ i.what = "finished" => y.phase = "END"
               /\ i.what \in Awaits \ {"finished"} =>
                    y.phase = "JOURNAL" \/ (y.phase = "SEND" /\ y.draining)
               /\ i.what \in {"submitted", "intended"} => y.turn < MaxTurns
    <3>1. CASE i = m
      BY <1>1, <3>1 DEF Awaits
    <3>2. CASE i \in x.names
      BY <1>1, <1>4, <3>2 DEF Names
    <3> QED BY <3>1, <3>2
  <2> QED BY <2>1, <2>2 DEF Names
<1>6. Posted(y) /\ Owns(y) /\ Streams(y)
  BY <1>1, <1>4, PostedSame DEF Sound, Owns, Streams
<1>7. Sound(y)
  BY <1>1, <1>4, <1>5, <1>6 DEF Sound
<1>8. Base(y)
  BY <1>1, <1>4, <1>7 DEF Base
<1> QED BY <1>1, <1>2, <1>3, <1>8 DEF Going

\* A request as it is built, or parked: it waits, by an event stream if it can.
LEMMA OpensKeeps ==
  ASSUME NEW x, Goes(x), NEW c, NEW flags
  PROVE  LET y == Opens(x, c, flags) IN Goes(y) /\ Same(x, y, {"flags", "timer"})
<1> DEFINE y == Opens(x, c, flags)
<1>1. x \in Struct
  BY DEF Goes, Going, Base, Sound
<1>2. /\ y \in Struct /\ Same(x, y, {"flags", "timer"})
      /\ y.flags \subseteq x.flags \cup {"SSE"} /\ x.flags \subseteq y.flags \cup {"SSE"}
  BY <1>1, OpensIs
<1> HIDE DEF y
<1>3. /\ y.phase = x.phase /\ y.names = x.names /\ y.home = x.home /\ y.job = x.job
      /\ y.promote = x.promote /\ y.slots = x.slots /\ y.hook = x.hook
      /\ y.drain = x.drain
  BY <1>2 DEF Same, FieldNames
<1>4. Same(x, y, Minor \cup Moved)
  BY <1>2 DEF Same, Minor, Moved
<1>5. /\ "DELTA" \in y.flags => "DELTA" \in x.flags
      /\ "DETACH_PENDING" \in y.flags => "DETACH_PENDING" \in x.flags
  BY <1>2
<1>6. MayMove(x, y)
  BY <1>2, <1>3, <1>4, <1>5 DEF MayMove
<1> QED BY <1>2, <1>3, <1>6, GoesMoves DEF Goes, Quiet, y

LEMMA DisposeKeeps ==
  ASSUME NEW x, Goes(x), NEW c
  PROVE  LET y == Dispose(x, c) IN Goes(y) /\ Same(x, y, {"step", "reaper"})
<1> DEFINE y == Dispose(x, c)
<1>1. y \in Struct /\ Same(x, y, {"step", "reaper"})
  BY DisposeIs DEF Goes, Going, Base, Sound
<1> HIDE DEF y
<1> QED BY <1>1, GoesMinor DEF Same, Minor, y

LEMMA EnterKeeps ==
  ASSUME NEW x, Goes(x), NEW ph \in Working \cup {"REPLY"}
  PROVE  LET y == Enter(x, ph) IN
         Goes(y) /\ Same(x, y, {"step", "phase"}) /\ y.phase = ph
<1> DEFINE y == Enter(x, ph)
<1>1. x \in Struct
  BY DEF Goes, Going, Base, Sound
<1>2. y \in Struct /\ Same(x, y, {"step", "phase"}) /\ y.phase = ph
  BY <1>1, EnterIs, PhaseTypes
<1> HIDE DEF y
<1>3. /\ y.names = x.names /\ y.home = x.home /\ y.job = x.job /\ y.flags = x.flags
      /\ y.promote = x.promote /\ y.slots = x.slots /\ y.hook = x.hook
      /\ y.drain = x.drain
  BY <1>2 DEF Same, FieldNames
<1>4. Same(x, y, Minor \cup Moved)
  BY <1>2 DEF Same, Minor, Moved
<1>5. Waiting(y) = {} /\ y.phase \notin {"END", "FREE"} /\ y.job # "waits"
  BY <1>2, <1>3, PhaseTypes DEF Goes, Quiet, Waiting, Sent
<1>6. MayMove(x, y)
  BY <1>2, <1>3, <1>4, <1>5 DEF MayMove
<1> QED BY <1>2, <1>5, <1>6, GoesMoves DEF y

\* What mcp_req_ask() leaves of a call that asks.
LEMMA BuildKeeps ==
  ASSUME NEW x, Goes(x), x.turn < MaxTurns, NEW c, NEW flags
  PROVE  Good(Enter(Dispose(Opens(Wait(x), c, flags), c), "BUILD"))
<1> DEFINE w == Wait(x)
           o == Opens(w, c, flags)
           d == Dispose(o, c)
           y == Enter(d, "BUILD")
<1>1. Goes(w) /\ Same(x, w, {"hook", "drain"})
  BY WaitKeeps
<1> HIDE DEF w
<1>2. Goes(o) /\ Same(w, o, {"flags", "timer"})
  BY <1>1, OpensKeeps
<1> HIDE DEF o
<1>3. Goes(d) /\ Same(o, d, {"step", "reaper"})
  BY <1>2, DisposeKeeps
<1> HIDE DEF d
<1>4. Goes(y) /\ Same(d, y, {"step", "phase"}) /\ y.phase = "BUILD"
  BY <1>3, EnterKeeps DEF Working
<1> HIDE DEF y
<1>5. y.turn < MaxTurns
  BY <1>1, <1>2, <1>3, <1>4 DEF Same, FieldNames
<1>6. Good(y)
  BY <1>4, <1>5, GoesGood DEF Goes, Calling, Unread
<1> QED BY <1>6 DEF y, d, o, w

\* A call as it begins.
Enters(x) ==
  /\ Goes(x) /\ x.task = 0 /\ x.turn < MaxTurns /\ x.phase \in Unread
  /\ "DETACH_PENDING" \notin x.flags

LEMMA AskKeeps ==
  ASSUME NEW x, Enters(x), x.opt.tool = "ask", NEW c
  PROVE  Good(Ask(x, c))
<1> DEFINE F == {"SSE_OK", "DETACH_PENDING"}
           f == x.flags \cup {"DETACH_PENDING"}
           p == [x EXCEPT !.flags = f]
           b == Background(x, c)
           As(y) == Enter(Dispose(Opens(Wait(y), c, F), c), "BUILD")
<1>1. x \in Struct /\ Goes(x) /\ x.task = 0 /\ x.turn < MaxTurns
  BY DEF Enters, Goes, Going, Base, Sound
<1>2. CASE ~x.opt.background
  <2>1. Ask(x, c) = As(x)
    BY <1>2 DEF Ask
  <2> QED BY <1>1, <2>1, BuildKeeps
<1>3. CASE x.opt.background /\ x.opt.journal
  <2>1. Ask(x, c) = As(p)
    BY <1>1, <1>3 DEF Ask
  <2>2. f \in FlagSet /\ ("DELTA" \in f <=> "DELTA" \in x.flags)
    BY <1>1, Fields DEF FlagSet, Flag
  <2> HIDE DEF f
  <2>3. p \in Struct
    BY <1>1, <2>2 DEF Struct
  <2>4. Same(x, p, {"flags"}) /\ p.flags = f
    BY <1>1, Domain DEF Same, FieldNames
  <2> HIDE DEF p
  <2>5. /\ p.spare = x.spare /\ p.life = x.life /\ p.home = x.home /\ p.phase = x.phase
        /\ p.job = x.job /\ p.post = x.post /\ p.wal = x.wal /\ p.recs = x.recs
        /\ p.turn = x.turn /\ p.draining = x.draining /\ p.s = x.s /\ p.stream = x.stream
        /\ p.drain = x.drain /\ p.slots = x.slots /\ p.opt = x.opt /\ p.task = x.task
        /\ p.gone = x.gone /\ p.admitted = x.admitted /\ p.hook = x.hook
        /\ p.names = x.names /\ p.promote = x.promote /\ p.listed = x.listed
    BY <2>4 DEF Same, FieldNames
  <2>6. Base(x) /\ Sound(x)
    BY <1>1 DEF Goes, Going, Base
  <2>7. Posted(p) /\ Names(p) /\ Owns(p) /\ Streams(p)
    BY <2>5, <2>6, PostedSame DEF Sound, Names, Waiting, Owns, Streams
  <2>8. Sound(p)
    BY <2>3, <2>5, <2>6, <2>7 DEF Sound
  <2>9. Base(p)
    BY <2>2, <2>4, <2>5, <2>6, <2>8 DEF Base
  <2>10. Going(p)
    BY <1>1, <1>3, <2>5, <2>9 DEF Goes, Going
  <2>11. Goes(p)
    BY <1>1, <2>2, <2>4, <2>5, <2>10 DEF Goes, Quiet, CallNames, Waiting
  <2> QED BY <1>1, <2>1, <2>5, <2>11, BuildKeeps
<1>4. CASE x.opt.background /\ ~x.opt.journal
  <2>1. /\ ~CanDetach(x, c) => Ask(x, c) = b
        /\ CanDetach(x, c) => Ask(x, c) = As(b)
    BY <1>1, <1>4 DEF Ask
  <2>2. /\ ~CanDetach(x, c) => Good(b)
        /\ CanDetach(x, c) => Goes(b) /\ Same(x, b, BackFields)
    BY <1>1, BackgroundKeeps DEF Enters
  <2> HIDE DEF b
  <2>3. CASE ~CanDetach(x, c)
    BY <2>1, <2>2, <2>3
  <2>4. CASE CanDetach(x, c)
    <3>1. b.turn < MaxTurns
      BY <1>1, <2>2, <2>4 DEF Same, FieldNames, BackFields, DetachFields
    <3> QED BY <2>1, <2>2, <2>4, <3>1, BuildKeeps
  <2> QED BY <2>3, <2>4
<1> QED BY <1>2, <1>3, <1>4

\* mcp_slot_park().
LEMMA ParkKeeps ==
  ASSUME NEW x, Goes(x), NEW c
  PROVE  Good(Park(x, c))
<1> DEFINE o == Opens(x, c, {"SSE_OK", "SSE"})
           w == Wait(o)
           d == Dispose(w, c)
           m == Named(x, "tool", 0)
           p == [d EXCEPT !.phase = "TOOL"]
           n == p.names \cup {m}
           y == [p EXCEPT !.names = n]
<1>1. Goes(o) /\ Same(x, o, {"flags", "timer"})
  BY OpensKeeps
<1> HIDE DEF o
<1>2. Goes(w) /\ Same(o, w, {"hook", "drain"})
  BY <1>1, WaitKeeps
<1> HIDE DEF w
<1>3. Goes(d) /\ Same(w, d, {"step", "reaper"})
  BY <1>2, DisposeKeeps
<1>4. Park(x, c) = [d EXCEPT !.phase = "TOOL", !.names = @ \cup {m}]
  BY DEF Park, o, w
<1> HIDE DEF d
<1>5. d \in Struct
  BY <1>3 DEF Goes, Going, Base, Sound
<1>6. p \in Struct
  BY <1>5 DEF Struct, Phase, Working
<1>7. Same(d, p, {"phase"}) /\ p.phase = "TOOL"
  BY <1>5, Domain DEF Same, FieldNames
<1>8. p.names = d.names
  BY <1>7 DEF Same, FieldNames
<1>9. Park(x, c) = y
  BY <1>4, <1>5, <1>8 DEF Struct
<1> HIDE DEF p
<1>10. Goes(p)
  <2>1. /\ p.names = d.names /\ p.home = d.home /\ p.job = d.job /\ p.flags = d.flags
        /\ p.promote = d.promote /\ p.slots = d.slots /\ p.hook = d.hook
        /\ p.drain = d.drain
    BY <1>7 DEF Same, FieldNames
  <2>2. Same(d, p, Minor \cup Moved)
    BY <1>7 DEF Same, Moved
  <2>3. Waiting(p) = {} /\ p.phase \notin {"END", "FREE"} /\ p.job # "waits"
    BY <1>3, <1>7, <2>1 DEF Goes, Quiet, Waiting
  <2>4. MayMove(d, p)
    BY <1>6, <1>7, <2>1, <2>2, <2>3 DEF MayMove
  <2> QED BY <1>3, <2>3, <2>4, GoesMoves
<1>11. p.life = x.life
  BY <1>1, <1>2, <1>3, <1>7 DEF Same, FieldNames
<1>12. m \in Name /\ m.what = "tool" /\ m.life = x.life /\ m.n = 0
  BY NamedIs, Given DEF Goes, Going, Base, Sound, Kinds
<1> HIDE DEF m
<1>13. n \in NameSet
  BY <1>6, <1>12, Fields DEF NameSet
<1> HIDE DEF n
<1>14. y \in Struct
  BY <1>6, <1>13 DEF Struct
<1>15. Same(p, y, {"names"}) /\ y.names = n
  BY <1>6, Domain DEF Same, FieldNames
<1> HIDE DEF y
<1>16. Going(y) /\ CallNames(y) = CallNames(p) \cup {m}
  BY <1>10, <1>11, <1>12, <1>14, <1>15, NameKeeps DEF n, Goes
<1>17. /\ y.job = p.job /\ y.phase = "TOOL" /\ y.home = p.home /\ y.flags = p.flags
  BY <1>7, <1>15 DEF Same, FieldNames
<1>18. Parked(y)
  BY <1>10, <1>12, <1>15, <1>16, <1>17 DEF Parked, Goes, Quiet, n
<1> QED BY <1>9, <1>16, <1>17, <1>18, GoesGood DEF Calling, Unread

LEMMA StartKeeps ==
  ASSUME NEW x, Goes(x), NEW c
  PROVE  Good(Start(x, c))
BY ParkKeeps, CloseKeeps DEF Start, Result, Goes

LEMMA ClientBackgroundKeeps ==
  ASSUME NEW x, Enters(x), NEW c
  PROVE  Good(ClientBackground(x, c))
<1> DEFINE b == Background(x, c)
<1>1. /\ ~CanDetach(x, c) => Good(b)
      /\ CanDetach(x, c) => Goes(b)
  BY BackgroundKeeps DEF Enters
<1> HIDE DEF b
<1> QED BY <1>1, StartKeeps DEF ClientBackground, b

LEMMA EnteredKeeps ==
  ASSUME NEW x, Enters(x)
  PROVE  Enters(Entered(x)) /\ Entered(x).opt = x.opt
<1> DEFINE m == Roster(x)
           n == x.names \cup {m}
           r == [x EXCEPT !.names = n]
           p == [r EXCEPT !.promote = TRUE]
           y == Arm(p)
<1>1. x \in Struct /\ Goes(x) /\ x.life # 0
  BY DEF Enters, Goes, Going, Base, Sound
<1>2. m \in Name /\ m.what = "roster" /\ m.life = x.life
  <2>1. x.life \in 1 .. MaxLives /\ 0 \in 0 .. MaxTurns /\ 0 \in 0 .. MaxRecs + Calls
    BY <1>1, Fields, Given
  <2> QED BY <2>1 DEF Name, Roster
<1>3. n \in NameSet
  BY <1>1, <1>2, Fields DEF NameSet
<1>4. Entered(x) = IF x.opt.tasks /\ ~x.opt.stream THEN y ELSE r
  BY DEF Entered
<1> HIDE DEF m, n
<1>5. r \in Struct
  BY <1>1, <1>3 DEF Struct
<1>6. Same(x, r, {"names"}) /\ r.names = n
  BY <1>1, Domain DEF Same, FieldNames
<1> HIDE DEF r
<1>7. Going(r) /\ Waiting(r) = Waiting(x) /\ CallNames(r) = CallNames(x)
  BY <1>1, <1>2, <1>5, <1>6, NameKeeps DEF n, Goes
<1>8. /\ r.job = x.job /\ r.phase = x.phase /\ r.home = x.home /\ r.flags = x.flags
      /\ r.task = x.task /\ r.turn = x.turn /\ r.opt = x.opt
  BY <1>6 DEF Same, FieldNames
<1>9. Enters(r)
  BY <1>1, <1>7, <1>8 DEF Enters, Goes, Quiet
<1>10. CASE ~(x.opt.tasks /\ ~x.opt.stream)
  BY <1>4, <1>8, <1>9, <1>10
<1>11. CASE x.opt.tasks /\ ~x.opt.stream
  <2>1. p \in Struct
    BY <1>5 DEF Struct, Bool
  <2>2. Same(r, p, {"promote"}) /\ p.promote = TRUE
    BY <1>5, Domain DEF Same, FieldNames
  <2>3. y \in Struct /\ Same(p, y, {"timer"})
    BY <2>1, ArmIs
  <2> HIDE DEF p, y
  <2>4. /\ p.spare = r.spare /\ p.life = r.life /\ p.home = r.home /\ p.phase = r.phase
        /\ p.job = r.job /\ p.post = r.post /\ p.wal = r.wal /\ p.recs = r.recs
        /\ p.turn = r.turn /\ p.draining = r.draining /\ p.s = r.s /\ p.stream = r.stream
        /\ p.drain = r.drain /\ p.slots = r.slots /\ p.opt = r.opt /\ p.task = r.task
        /\ p.gone = r.gone /\ p.admitted = r.admitted /\ p.hook = r.hook
        /\ p.names = r.names /\ p.flags = r.flags /\ p.listed = r.listed
    BY <2>2 DEF Same, FieldNames
  <2>5. Base(r) /\ Sound(r)
    BY <1>7 DEF Going, Base
  <2>6. Posted(p) /\ Names(p) /\ Owns(p) /\ Streams(p)
    BY <2>4, <2>5, PostedSame DEF Sound, Names, Waiting, Owns, Streams
  <2>7. Sound(p)
    BY <2>1, <2>4, <2>5, <2>6 DEF Sound
  <2>8. Base(p)
    BY <2>4, <2>5, <2>7 DEF Base
  <2>9. Going(p)
    BY <1>7, <1>8, <1>9, <1>11, <2>4, <2>8 DEF Going, Enters
  <2>10. Goes(p)
    BY <1>9, <2>4, <2>9 DEF Enters, Goes, Quiet, CallNames, Waiting
  <2>11. Goes(y)
    BY <2>3, <2>10, GoesMinor DEF Same, Minor
  <2>12. /\ y.phase = p.phase /\ y.task = p.task /\ y.turn = p.turn /\ y.opt = p.opt
         /\ y.flags = p.flags
    BY <2>3 DEF Same, FieldNames
  <2> QED BY <1>4, <1>8, <1>9, <1>11, <2>4, <2>11, <2>12 DEF Enters
<1> QED BY <1>10, <1>11

\* mcp_req_tools_call().
LEMMA ToolsCallKeeps ==
  ASSUME NEW x, Enters(x), NEW c
  PROVE  Good(ToolsCall(x, c))
<1> DEFINE e == Entered(x)
<1>1. Enters(e) /\ e.opt = x.opt
  BY EnteredKeeps
<1> HIDE DEF e
<1>2. x.phase \notin Sent
  BY PhaseTypes DEF Enters
<1>3. CASE x.draining \/ (~c.open /\ ~x.opt.background)
  BY <1>2, <1>3, FailKeeps DEF ToolsCall, Enters, Goes
<1>4. CASE ~(x.draining \/ (~c.open /\ ~x.opt.background))
  <2>1. ToolsCall(x, c) = IF x.opt.tool = "ask" THEN Ask(e, c)
                          ELSE IF ~x.opt.background THEN Start(e, c)
                          ELSE ClientBackground(e, c)
    BY <1>4 DEF ToolsCall, e
  <2> QED BY <1>1, <2>1, AskKeeps, StartKeeps, ClientBackgroundKeeps DEF Enters
<1> QED BY <1>3, <1>4

\* mcp_req_accept() and mcp_req_message().
LEMMA DispatchKeeps ==
  ASSUME NEW x, Enters(x), NEW c
  PROVE  Good(Dispatch(x, c))
<1> DEFINE f == IF x.opt.sse THEN x.flags \cup {"SSE_OK"} ELSE x.flags
           y == [x EXCEPT !.flags = f]
<1>1. CASE x.opt.tool = "note"
  <2>1. Dispatch(x, c) = ReqFinish(x, c)
    BY <1>1 DEF Dispatch
  <2> QED BY <2>1, FinishKeeps DEF Enters, Goes, Going
<1>2. CASE x.opt.tool = "none"
  <2>1. Dispatch(x, c) = Close(x, c, "answer")
    BY <1>2 DEF Dispatch
  <2> QED BY <2>1, CloseKeeps DEF Enters, Goes
<1>3. CASE x.opt.tool \notin {"note", "none"}
  <2>1. x \in Struct /\ Goes(x)
    BY DEF Enters, Goes, Going, Base, Sound
  <2>2. Dispatch(x, c) = ToolsCall(y, c)
    BY <1>3, <2>1 DEF Dispatch, Struct
  <2>3. /\ f \in FlagSet
        /\ "DELTA" \in f => "DELTA" \in x.flags
        /\ "DETACH_PENDING" \in f => "DETACH_PENDING" \in x.flags
    BY <2>1, Fields DEF FlagSet, Flag
  <2> HIDE DEF f
  <2>4. y \in Struct
    BY <2>1, <2>3 DEF Struct
  <2>5. Same(x, y, {"flags"}) /\ y.flags = f
    BY <2>1, Domain DEF Same, FieldNames
  <2> HIDE DEF y
  <2>6. /\ y.names = x.names /\ y.home = x.home /\ y.job = x.job /\ y.phase = x.phase
        /\ y.promote = x.promote /\ y.slots = x.slots /\ y.hook = x.hook
        /\ y.drain = x.drain /\ y.task = x.task /\ y.turn = x.turn
    BY <2>5 DEF Same, FieldNames
  <2>7. Same(x, y, Minor \cup Moved)
    BY <2>5 DEF Same, Moved
  <2>8. MayMove(x, y)
    BY <2>3, <2>4, <2>5, <2>6, <2>7 DEF MayMove
  <2>9. Goes(y)
    BY <2>1, <2>6, <2>8, GoesMoves DEF Goes, Quiet
  <2>10. Enters(y)
    BY <2>3, <2>5, <2>6, <2>9 DEF Enters
  <2> QED BY <2>2, <2>10, ToolsCallKeeps
<1> QED BY <1>1, <1>2, <1>3

\* A step that only gets ready for another.
LEMMA WorksMinor ==
  ASSUME NEW x, Works(x), NEW y \in Struct, Same(x, y, Minor)
  PROVE  Good(y) /\ Works(y)
<1>1. /\ y.job = x.job /\ y.phase = x.phase /\ y.home = x.home /\ y.turn = x.turn
      /\ y.post = x.post /\ y.flags = x.flags /\ y.names = x.names /\ y.task = x.task
      /\ y.admitted = x.admitted /\ y.promote = x.promote /\ y.hook = x.hook
  BY DEF Same, FieldNames, Minor
<1>2. Going(y)
  BY GoingMinor DEF Works
<1>3. CallNames(y) = CallNames(x)
  BY <1>1 DEF CallNames
<1>4. Calling(y)
  BY <1>1, <1>3, CallingLike DEF Works, Word
<1>5. Untouched(x) => Untouched(y)
  BY <1>1 DEF Untouched
<1>6. Works(y)
  BY <1>1, <1>2, <1>4, <1>5 DEF Works
<1> QED BY <1>2, <1>6 DEF Good, Late, Going, Base

LEMMA ReadyWorks ==
  ASSUME NEW x, Works(x)
  PROVE  Good(Ready(x)) /\ Works(Ready(x))
<1> DEFINE y == Ready(x)
<1>1. y \in Struct /\ Same(x, y, {"step"})
  BY ReadyIs DEF Works, Going, Base, Sound
<1> HIDE DEF y
<1>2. Good(y) /\ Works(y)
  BY <1>1, WorksMinor DEF Same, Minor
<1> QED BY <1>2 DEF y

LEMMA WorksEnters ==
  ASSUME NEW x, Works(x), x.phase \in Unread
  PROVE  Enters(x)
<1>1. Untouched(x) /\ Going(x) /\ x.turn < MaxTurns
  BY DEF Works
<1>2. x.home = {} /\ "DELTA" \notin x.flags
  BY <1>1 DEF Untouched, Going, Base
<1>3. Goes(x)
  BY <1>1, <1>2 DEF Goes, Quiet, Untouched, CallNames, Waiting
<1> QED BY <1>1, <1>3 DEF Enters, Untouched

\* A request whose message is not dispatched yet.
LEMMA UnreadKeeps ==
  ASSUME NEW x, Works(x), x.phase \in Unread, NEW y \in Struct,
         Same(x, y, {"step", "phase"}), y.phase \in Unread
  PROVE  Works(y) /\ Good(y)
<1>1. Untouched(x) /\ Going(x) /\ x.turn < MaxTurns /\ Goes(x)
  BY WorksEnters DEF Works, Enters
<1>2. /\ y.names = x.names /\ y.home = x.home /\ y.job = x.job /\ y.flags = x.flags
      /\ y.promote = x.promote /\ y.slots = x.slots /\ y.hook = x.hook
      /\ y.drain = x.drain /\ y.task = x.task /\ y.turn = x.turn /\ y.admitted = x.admitted
  BY DEF Same, FieldNames
<1>3. Same(x, y, Minor \cup Moved)
  BY DEF Same, Minor, Moved
<1>4. Waiting(y) = {} /\ y.phase \notin {"END", "FREE"} /\ y.job # "waits"
  BY <1>1, <1>2 DEF Goes, Quiet, Waiting, Unread
<1>5. MayMove(x, y)
  BY <1>2, <1>3, <1>4 DEF MayMove
<1>6. Goes(y)
  BY <1>1, <1>4, <1>5, GoesMoves
<1>7. Works(y)
  BY <1>1, <1>2, <1>6 DEF Works, Goes, Calling, Untouched, Unread
<1> QED BY <1>6, <1>7 DEF Good, Late, Goes, Going, Base

\* mcp_req_parse().
LEMMA ParseKeeps ==
  ASSUME NEW x, Works(x), x.phase = "PARSE", NEW c
  PROVE  Good(Parse(x, c))
<1> DEFINE y == Enter(x, "DISPATCH")
<1>1. y \in Struct /\ Same(x, y, {"step", "phase"}) /\ y.phase = "DISPATCH"
  BY EnterIs, PhaseTypes DEF Works, Going, Base, Sound, Working
<1> HIDE DEF y
<1>2. Good(y)
  BY <1>1, UnreadKeeps DEF Unread
<1>3. x.phase \in Unread
  BY DEF Unread
<1> QED BY <1>2, <1>3, ReadyWorks, WorksEnters, DispatchKeeps DEF Parse, y

\* A phase in which nothing is awaited.
LEMMA WorksGoes ==
  ASSUME NEW x, Works(x), x.phase \notin {"CALL", "TOOL", "JOURNAL", "SEND"}
  PROVE  Goes(x)
<1>1. Quiet(x)
  BY DEF Works, Calling, Asked, Parked
<1> QED BY <1>1, Unwritten DEF Works, Goes

LEMMA BuildStepKeeps ==
  ASSUME NEW x, Works(x), x.phase = "BUILD", NEW c
  PROVE  Good(Build(x, c))
<1>1. Goes(x) /\ x.turn < MaxTurns /\ x.phase \notin Sent
  BY WorksGoes DEF Works, Sent
<1> QED BY <1>1, ReadyWorks, TurnSubmitKeeps DEF Build

-----------------------------------------------------------------------------
(* The turn's calls.                                                       *)

\* What changes beside a request that goes on as it did.
Beside == Minor \cup {"names", "slots", "wal", "post", "disk", "flags"}

LEMMA WorksLike ==
  ASSUME NEW x, Works(x), NEW y \in Struct, Same(x, y, Beside),
         y.names \subseteq x.names, CallNames(y) = CallNames(x), Posted(y),
         Len(y.slots) <= Calls,
         \A m \in CallNames(x), what \in {"done", "delta"} :
           m.what = "call" => (Word(x, m, what) <=> Word(y, m, what)),
         "DELTA" \in y.flags =>
           "DELTA" \in x.flags /\ ("SSE" \in x.flags => "SSE" \in y.flags),
         "DETACH_PENDING" \in y.flags => "DETACH_PENDING" \in x.flags,
         "SSE" \in y.flags => "SSE" \in x.flags
  PROVE  Works(y) /\ Good(y)
<1>1. /\ y.spare = x.spare /\ y.life = x.life /\ y.home = x.home /\ y.phase = x.phase
      /\ y.job = x.job /\ y.recs = x.recs
      /\ y.turn = x.turn /\ y.draining = x.draining /\ y.s = x.s /\ y.stream = x.stream
      /\ y.drain = x.drain /\ y.opt = x.opt /\ y.task = x.task
      /\ y.gone = x.gone /\ y.admitted = x.admitted /\ y.hook = x.hook
      /\ y.promote = x.promote /\ y.listed = x.listed
  BY DEF Same, FieldNames, Beside, Minor
<1>2. Going(x) /\ Base(x) /\ Sound(x)
  BY DEF Works, Going, Base
<1>3. Names(y)
  <2>1. Waiting(y) \subseteq Waiting(x)
    BY DEF Waiting
  <2>2. \A m, n \in Waiting(y) : m = n
    BY <1>2, <2>1 DEF Sound, Names
  <2>3. ASSUME NEW m \in y.names
        PROVE  /\ m.life = y.life
               /\ m.what = "record" => m.n \in {y.task, y.admitted} \ {0} /\ m.turn = 0
               /\ m.what = "finished" => y.phase = "END"
               /\ m.what \in Awaits \ {"finished"} =>
                    y.phase = "JOURNAL" \/ (y.phase = "SEND" /\ y.draining)
               /\ m.what \in {"submitted", "intended"} => y.turn < MaxTurns
    <3>1. m \in x.names
      OBVIOUS
    <3> QED BY <1>1, <1>2, <3>1 DEF Sound, Names
  <2> QED BY <2>2, <2>3 DEF Names
<1>4. Owns(y) /\ Streams(y)
  BY <1>1, <1>2 DEF Sound, Owns, Streams
<1>5. Sound(y)
  BY <1>1, <1>2, <1>3, <1>4 DEF Sound
<1>6. Base(y)
  BY <1>1, <1>2, <1>5 DEF Base
<1>7. Going(y)
  BY <1>1, <1>2, <1>6 DEF Going
<1>8. Calling(y)
  BY <1>1, CallingLike DEF Works
<1>9. Untouched(x) => Untouched(y)
  BY <1>1 DEF Untouched
<1>10. Works(y)
  BY <1>1, <1>7, <1>8, <1>9 DEF Works
<1> QED BY <1>1, <1>2, <1>6, <1>10 DEF Good, Late, Going, Base

LEMMA SlotSet ==
  ASSUME NEW s \in Seq(Slot), NEW k, NEW v \in Slot
  PROVE  [s EXCEPT ![k] = v] \in Seq(Slot) /\ Len([s EXCEPT ![k] = v]) = Len(s)
<1> DEFINE n == Len(s)
           t == [s EXCEPT ![k] = v]
<1>1. n \in Nat /\ s \in [1 .. n -> Slot]
  OBVIOUS
<1> HIDE DEF n
<1>2. t \in [1 .. n -> Slot]
  BY <1>1
<1> HIDE DEF t
<1>3. t \in Seq(Slot) /\ Len(t) = n
  BY <1>1, <1>2
<1> QED BY <1>3 DEF t, n

\* mcp_slot_done().
LEMMA SlotDoneKeeps ==
  ASSUME NEW x, Works(x), NEW k \in Nat \ {0}, NEW c
  PROVE  Good(SlotDone(x, k, c))
<1> DEFINE n == x.names \ {Named(x, "tool", k)}
           l == [x.slots EXCEPT ![k] = "done"]
           y == [x EXCEPT !.names = n, !.slots = l, !.step = TRUE]
           z == [y EXCEPT !.lost = TRUE]
           e == [who |-> NoName, kind |-> "put", rec |-> 0, status |-> "none"]
           q == Queue(y, e)
<1>1. x \in Struct /\ Posted(x) /\ Len(x.slots) <= Calls
  BY DEF Works, Going, Base, Sound
<1>2. n \in NameSet
  BY <1>1, Fields DEF NameSet
<1>3. l \in SlotSeq /\ Len(l) = Len(x.slots)
  <2>1. x.slots \in Seq(Slot) /\ "done" \in Slot
    BY <1>1, Fields DEF Slot
  <2> HIDE DEF l
  <2> QED BY <2>1, SlotSet DEF l, SlotSeq
<1>4. SlotDone(x, k, c) \in {y, z, q}
  <2>1. Ready([Forget(x, {Named(x, "tool", k)}) EXCEPT !.slots[k] = "done"]) = y
    BY <1>1 DEF Ready, Forget, Struct
  <2> QED BY <2>1 DEF SlotDone, ArchivePut
<1>5. {m \in n : m.what = "call" \/ (m.what = "tool" /\ m.n = 0)} = CallNames(x)
  <2>1. Named(x, "tool", k).what = "tool" /\ Named(x, "tool", k).n = k
    BY DEF Named
  <2> QED BY <2>1 DEF CallNames
<1>6. n \subseteq x.names
  OBVIOUS
<1> HIDE DEF n, l
<1>7. y \in Struct
  BY <1>1, <1>2, <1>3 DEF Struct, Bool
<1>8. Same(x, y, {"names", "slots", "step"}) /\ y.names = n /\ y.slots = l
  BY <1>1, Domain DEF Same, FieldNames
<1> HIDE DEF y
<1>9. z \in Struct
  BY <1>7 DEF Struct, Bool
<1>10. Same(y, z, {"lost"})
  BY <1>7, Domain DEF Same, FieldNames
<1>11. e \in Entry /\ e.who = NoName
  BY Given DEF Entry, RecStatus
<1> HIDE DEF z, e
<1>12. /\ y.post = x.post /\ y.wal = x.wal /\ y.life = x.life /\ y.turn = x.turn
       /\ y.spare = x.spare /\ y.flags = x.flags
  BY <1>8 DEF Same, FieldNames
<1>13. Posted(y)
  BY <1>1, <1>12, PostedSame
<1>14. q \in Struct /\ Same(y, q, {"wal"}) /\ Posted(q)
  BY <1>7, <1>11, <1>13, QueueIs
<1> HIDE DEF q
<1>15. Works(y) /\ Good(y)
  <2>1. CallNames(y) = CallNames(x)
    BY <1>5, <1>8 DEF CallNames
  <2>2. Same(x, y, Beside)
    BY <1>8 DEF Same, Beside, Minor
  <2> QED BY <1>1, <1>3, <1>6, <1>7, <1>8, <1>12, <1>13, <2>1, <2>2, WorksLike DEF Word
<1>16. Good(z)
  BY <1>9, <1>10, <1>15, WorksMinor DEF Same, Minor
<1>17. Good(q)
  <2>1. q.names = y.names /\ q.flags = y.flags /\ q.post = y.post /\ q.slots = y.slots
    BY <1>14 DEF Same, FieldNames
  <2>2. CallNames(q) = CallNames(y) /\ Len(y.slots) <= Calls
    BY <1>1, <1>3, <1>8, <2>1 DEF CallNames
  <2>3. Same(y, q, Beside)
    BY <1>14 DEF Same, Beside
  <2> QED BY <1>14, <1>15, <2>1, <2>2, <2>3, WorksLike DEF Word
<1> QED BY <1>4, <1>15, <1>16, <1>17

\* What only moves a request that goes on.
LEMMA SlotsKeep ==
  ASSUME NEW x, Goes(x), NEW y \in Struct, Same(x, y, Minor \cup {"slots"}),
         Len(y.slots) <= Calls
  PROVE  Goes(y)
<1>1. /\ y.phase = x.phase /\ y.hook = x.hook /\ y.names = x.names /\ y.home = x.home
      /\ y.job = x.job /\ y.flags = x.flags /\ y.promote = x.promote /\ y.drain = x.drain
  BY DEF Same, FieldNames, Minor
<1>2. Same(x, y, Minor \cup Moved)
  BY DEF Same, Moved
<1>3. MayMove(x, y)
  BY <1>1, <1>2 DEF MayMove
<1> QED BY <1>1, <1>3, GoesMoves DEF Goes, Quiet

\* mcp_req_call_launch().
LEMMA LaunchKeeps ==
  ASSUME NEW x, Goes(x), x.phase = "CALLS", x.turn < MaxTurns, NEW c
  PROVE  Good(Launch(x, c))
<1> DEFINE k == x.launched + 1
           saves == x.archive /\ k \notin x.intents
           v == [x.slots EXCEPT ![k] = "runs"]
           a == [x EXCEPT !.launched = k, !.slots = v]
           luck == IF "SSE" \in a.flags /\ "BLOCKED" \notin a.flags THEN c ELSE Lucky
           b == Blocks(a, luck)
           y == Ready(b)
<1>1. x \in Struct /\ Going(x) /\ Len(x.slots) <= Calls /\ Waiting(x) = {} /\ Quiet(x)
  BY DEF Goes, Going, Base, Sound
<1>2. x.launched \in 0 .. Calls /\ x.slots \in Seq(Slot) /\ Len(x.slots) \in Nat
  BY <1>1, Fields
<1>3. k \in Nat \ {0}
  BY <1>2, Given
<1>4. CASE k > Len(x.slots)
  <2>1. Launch(x, c) = x
    BY <1>2, <1>3, <1>4 DEF Launch
  <2> QED BY <1>1, <2>1, GoesGood DEF Calling, Unread
<1>5. CASE k <= Len(x.slots) /\ (x.draining \/ (saves /\ ~CanWait(x, c)))
  <2>1. Launch(x, c) = Fail(x, c)
    BY <1>2, <1>3, <1>5 DEF Launch
  <2> QED BY <1>1, <2>1, FailKeeps DEF Sent
<1>6. CASE k <= Len(x.slots) /\ ~(x.draining \/ (saves /\ ~CanWait(x, c))) /\ saves
  <2> DEFINE r == ReqArchive(x, "intended", 0, "none")
             z == [r EXCEPT !.step = FALSE, !.phase = "JOURNAL"]
  <2>1. r \in Struct
    BY ArchiveIs, Given DEF Goes, Going, Base, Sound, Awaits, RecNo, RecStatus
  <2>2. Launch(x, c) = z
    BY <1>2, <1>3, <1>6 DEF Launch
  <2>3. z \in Struct
    <3> HIDE DEF r
    <3> QED BY <2>1, ZenonT(40) DEF Struct, Bool, Phase, Working
  <2>4. Same(r, z, {"step", "phase"}) /\ z.phase = "JOURNAL"
    <3> HIDE DEF r
    <3> QED BY <2>1, Domain DEF Same, FieldNames
  <2> HIDE DEF z
  <2> QED BY <2>2, <2>3, <2>4, JournalKeeps
<1>7. CASE k <= Len(x.slots) /\ ~(x.draining \/ (saves /\ ~CanWait(x, c))) /\ ~saves
  <2>1. v \in SlotSeq /\ Len(v) = Len(x.slots)
    <3>1. "runs" \in Slot
      BY DEF Slot
    <3> QED BY <1>2, <3>1, SlotSet DEF SlotSeq
  <2>2. k \in CallNo
    BY <1>1, <1>2, <1>7, Given DEF CallNo
  <2>3. Launch(x, c) = IF c.more THEN SlotDone(y, k, c)
                       ELSE [Wait(y) EXCEPT !.names = @ \cup {Named(y, "tool", k)}]
    <3>1. a = [x EXCEPT !.launched = k, !.slots[k] = "runs"]
      BY <1>1 DEF Struct
    <3>2. a.flags = x.flags
      <4> HIDE DEF k, v
      <4> QED BY <1>1, Domain DEF FieldNames
    <3>3. Launch(x, c) =
            LET u == Ready(Blocks(a, IF "SSE" \in x.flags /\ "BLOCKED" \notin x.flags
                                     THEN c ELSE Lucky))
            IN IF c.more THEN SlotDone(u, k, c)
               ELSE [Wait(u) EXCEPT !.names = @ \cup {Named(u, "tool", k)}]
      BY <1>2, <1>3, <1>7, <3>1 DEF Launch
    <3> QED BY <3>2, <3>3
  <2> HIDE DEF v, k
  <2>4. a \in Struct
    BY <1>1, <2>1, <2>2 DEF Struct
  <2>5. Same(x, a, {"launched", "slots"}) /\ a.slots = v
    BY <1>1, Domain DEF Same, FieldNames
  <2> HIDE DEF a
  <2>6. Goes(a)
    <3>1. Same(x, a, Minor \cup {"slots"})
      BY <2>5 DEF Same, Minor
    <3> QED BY <1>1, <2>1, <2>4, <2>5, <3>1, SlotsKeep
  <2>7. /\ Going(b) /\ Same(a, b, {"flags"})
        /\ b.flags \subseteq a.flags \cup {"BLOCKED"} /\ a.flags \subseteq b.flags
    BY <2>6, BlocksKeeps DEF Goes
  <2> HIDE DEF b
  <2>8. Goes(b)
    <3>1. b.job = a.job /\ b.names = a.names /\ b.home = a.home
      BY <2>7 DEF Same, FieldNames
    <3>2. "DELTA" \notin b.flags
      BY <2>6, <2>7 DEF Goes, Quiet
    <3> QED BY <2>6, <2>7, <3>1, <3>2 DEF Goes, Quiet, CallNames, Waiting
  <2>9. y \in Struct /\ Same(b, y, {"step"})
    BY <2>8, ReadyIs DEF Goes, Going, Base, Sound
  <2> HIDE DEF y
  <2>10. Goes(y)
    BY <2>8, <2>9, GoesMinor DEF Same, Minor
  <2>11. y.phase = "CALLS" /\ y.turn < MaxTurns
    BY <2>5, <2>7, <2>9 DEF Same, FieldNames
  <2>12. CASE c.more
    <3>1. Works(y)
      BY <2>10, <2>11 DEF Works, Goes, Calling, Unread
    <3> QED BY <1>3, <2>3, <2>12, <3>1, SlotDoneKeeps DEF k
  <2>13. CASE ~c.more
    <3> DEFINE w == Wait(y)
               m == Named(y, "tool", k)
               n == w.names \cup {m}
               z == [w EXCEPT !.names = n]
    <3>1. Goes(w) /\ Same(y, w, {"hook", "drain"})
      BY <2>10, WaitKeeps
    <3>2. Launch(x, c) = z
      BY <2>3, <2>13, <3>1 DEF Goes, Going, Base, Sound, Struct
    <3> HIDE DEF w
    <3>3. m \in Name /\ m.what = "tool" /\ m.life = y.life /\ m.n = k
      <4>1. k \in 0 .. MaxRecs + Calls
        BY <2>2, Given DEF CallNo
      <4> QED BY <2>10, <4>1, NamedIs DEF Goes, Going, Base, Sound, Kinds
    <3> HIDE DEF m
    <3>4. w \in Struct /\ w.life = y.life /\ w.phase = y.phase /\ w.turn = y.turn
      BY <3>1 DEF Goes, Going, Base, Sound, Same, FieldNames
    <3>5. n \in NameSet
      BY <3>3, <3>4, Fields DEF NameSet
    <3> HIDE DEF n
    <3>6. z \in Struct
      BY <3>4, <3>5 DEF Struct
    <3>7. Same(w, z, {"names"}) /\ z.names = n
      BY <3>4, Domain DEF Same, FieldNames
    <3> HIDE DEF z
    <3>8. Going(z) /\ CallNames(z) = CallNames(w)
      BY <1>3, <3>1, <3>3, <3>4, <3>6, <3>7, NameKeeps DEF Goes, n, k
    <3>9. /\ z.phase = w.phase /\ z.turn = w.turn /\ z.job = w.job /\ z.home = w.home
          /\ z.flags = w.flags
      BY <3>7 DEF Same, FieldNames
    <3>10. Quiet(z)
      BY <3>1, <3>8, <3>9 DEF Goes, Quiet
    <3> QED BY <2>11, <3>2, <3>4, <3>8, <3>9, <3>10, GoesGood DEF Calling, Unread
  <2> QED BY <2>12, <2>13
<1> QED BY <1>2, <1>3, <1>4, <1>5, <1>6, <1>7

\* mcp_req_calls_next().
LEMMA CallsNextKeeps ==
  ASSUME NEW x, Goes(x), x.phase \in {"TURN", "CALLS", "RESULT"}, x.turn < MaxTurns, NEW c
  PROVE  Good(CallsNext(x, c))
<1>1. x \in Struct /\ x.phase \notin Sent
  BY DEF Goes, Going, Base, Sound, Sent
<1>2. CASE x.part > Len(x.slots)
  <2> DEFINE o == <<>>
             y == [x EXCEPT !.slots = o]
  <2>1. CallsNext(x, c) = TurnSubmit(y, c)
    BY <1>2 DEF CallsNext
  <2>2. o \in SlotSeq /\ Len(o) <= Calls
    BY Given DEF SlotSeq
  <2> HIDE DEF o
  <2>3. y \in Struct
    BY <1>1, <2>2 DEF Struct
  <2>4. Same(x, y, {"slots"}) /\ y.slots = o
    BY <1>1, Domain DEF Same, FieldNames
  <2> HIDE DEF y
  <2>5. Same(x, y, Minor \cup {"slots"}) /\ y.turn = x.turn /\ y.phase = x.phase
    BY <2>4 DEF Same, FieldNames
  <2>6. Goes(y)
    BY <2>2, <2>3, <2>4, <2>5, SlotsKeep
  <2> QED BY <1>1, <2>1, <2>5, <2>6, TurnSubmitKeeps
<1>3. CASE ~(x.part > Len(x.slots)) /\ x.slots[x.part] = "done"
  <2> DEFINE y == Enter(x, "RESULT")
  <2>1. Goes(y) /\ Same(x, y, {"step", "phase"}) /\ y.phase = "RESULT"
    BY EnterKeeps DEF Working
  <2>2. CallsNext(x, c) = y
    BY <1>3 DEF CallsNext
  <2> HIDE DEF y
  <2>3. y.turn = x.turn
    BY <2>1 DEF Same, FieldNames
  <2> QED BY <2>1, <2>2, <2>3, GoesGood DEF Goes, Calling, Unread
<1>4. CASE ~(x.part > Len(x.slots)) /\ x.slots[x.part] # "done"
  <2> DEFINE y == [x EXCEPT !.phase = "CALLS"]
  <2>1. CallsNext(x, c) = Launch(y, c)
    BY <1>4 DEF CallsNext
  <2>2. y \in Struct
    BY <1>1 DEF Struct, Phase, Working
  <2>3. Same(x, y, {"phase"}) /\ y.phase = "CALLS"
    BY <1>1, Domain DEF Same, FieldNames
  <2> HIDE DEF y
  <2>4. /\ y.names = x.names /\ y.home = x.home /\ y.job = x.job /\ y.flags = x.flags
        /\ y.promote = x.promote /\ y.slots = x.slots /\ y.hook = x.hook
        /\ y.drain = x.drain /\ y.turn = x.turn
    BY <2>3 DEF Same, FieldNames
  <2>5. Same(x, y, Minor \cup Moved)
    BY <2>3 DEF Same, Moved
  <2>6. Waiting(y) = {} /\ y.job # "waits"
    BY <2>4 DEF Goes, Quiet, Waiting
  <2>7. MayMove(x, y)
    BY <2>2, <2>3, <2>4, <2>5, <2>6 DEF MayMove
  <2>8. Goes(y)
    BY <2>6, <2>7, GoesMoves
  <2> QED BY <2>1, <2>3, <2>4, <2>8, LaunchKeeps
<1> QED BY <1>2, <1>3, <1>4

\* mcp_req_result_write().
LEMMA ResultWriteKeeps ==
  ASSUME NEW x, Works(x), x.phase = "RESULT", NEW c
  PROVE  Good(ResultWrite(x, c))
<1> DEFINE i == x.part + 1
           y == [x EXCEPT !.part = i]
<1>1. Goes(x) /\ x.turn < MaxTurns /\ x \in Struct
  BY WorksGoes DEF Works, Goes, Going, Base, Sound
<1>2. i \in Count
  BY <1>1, Fields DEF Count
<1> HIDE DEF i
<1>3. y \in Struct
  BY <1>1, <1>2 DEF Struct
<1>4. Same(x, y, {"part"})
  BY <1>1, Domain DEF Same, FieldNames
<1>5. ResultWrite(x, c) = IF c.more THEN Ready(x) ELSE CallsNext(y, c)
  BY DEF ResultWrite, i
<1> HIDE DEF y
<1>6. y.phase = "RESULT" /\ y.turn < MaxTurns
  BY <1>1, <1>4 DEF Same, FieldNames
<1>7. Goes(y)
  BY <1>1, <1>3, <1>4, GoesMinor DEF Same, Minor
<1> QED BY <1>5, <1>6, <1>7, ReadyWorks, CallsNextKeeps

\* What mcp_req_drop() leaves of a request that waits for no write.
LEMMA DropGoes ==
  ASSUME NEW x, Going(x), Waiting(x) = {}
  PROVE  LET y == ReqDrop(x) IN
         /\ Goes(y) /\ y.phase = x.phase /\ y.turn = x.turn
         /\ Same(x, y, {"names", "job", "slots", "flags", "home"})
<1> DEFINE y == ReqDrop(x)
<1>1. /\ Going(y) /\ Quiet(y)
      /\ Same(x, y, {"names", "job", "slots", "flags", "home"})
      /\ y.names \subseteq x.names
  BY DropKeeps
<1> HIDE DEF y
<1>2. Waiting(y) = {} /\ y.phase = x.phase /\ y.turn = x.turn
  BY <1>1 DEF Waiting, Same, FieldNames
<1> QED BY <1>1, <1>2 DEF Goes, y

\* mcp_req_turn_write().
LEMMA TurnWriteKeeps ==
  ASSUME NEW x, Works(x), x.phase = "TURN", NEW c
  PROVE  Good(TurnWrite(x, c))
<1> DEFINE d == ReqDrop(x)
           v == [k \in 1 .. Calls |-> "none"]
           i == 1
           o == 0
           y == [d EXCEPT !.part = i, !.launched = o, !.slots = v]
<1>1. Goes(x) /\ x.turn < MaxTurns
  BY WorksGoes DEF Works
<1>2. Goes(d) /\ d.phase = x.phase /\ d.turn = x.turn
  BY <1>1, DropGoes DEF Goes
<1>3. TurnWrite(x, c) = IF c.more THEN Ready(x) ELSE CallsNext(y, c)
  BY DEF TurnWrite
<1> HIDE DEF d
<1>4. v \in SlotSeq /\ Len(v) <= Calls
  <2>1. v \in [1 .. Calls -> Slot] /\ Calls \in Nat
    BY Given DEF Slot
  <2> HIDE DEF v
  <2>2. v \in Seq(Slot) /\ Len(v) = Calls
    BY <2>1
  <2> QED BY <2>1, <2>2 DEF SlotSeq
<1>5. i \in Count /\ o \in CallNo /\ d \in Struct
  BY <1>2, Given DEF Count, CallNo, Goes, Going, Base, Sound
<1> HIDE DEF v, i, o
<1>6. y \in Struct
  BY <1>4, <1>5, ZenonT(40) DEF Struct
<1>7. Same(d, y, {"part", "launched", "slots"}) /\ y.slots = v
  BY <1>5, Domain DEF Same, FieldNames
<1> HIDE DEF y
<1>8. y.phase = "TURN" /\ y.turn < MaxTurns
  BY <1>1, <1>2, <1>7 DEF Same, FieldNames
<1>9. Goes(y)
  <2>1. Same(d, y, Minor \cup {"slots"})
    BY <1>7 DEF Same, Minor
  <2> QED BY <1>2, <1>4, <1>6, <1>7, <2>1, SlotsKeep
<1> QED BY <1>3, <1>8, <1>9, ReadyWorks, CallsNextKeeps

-----------------------------------------------------------------------------
(* How a turn is answered.                                                 *)

\* A request whose job has ended, before it reads of it.
Told(x) ==
  /\ Going(x) /\ x.phase = "CALL" /\ x.job = "waits" /\ x.home = {}
  /\ "DELTA" \notin x.flags /\ \A m \in CallNames(x) : m.what = "call"

LEMMA ToldIs ==
  ASSUME NEW x, Told(x), NEW j \in JobState \ {"waits"}
  PROVE  LET u == Unwait(ForgetAll(x, {"call"}))
             y == [u EXCEPT !.job = j]
         IN  /\ Going(u) /\ Waiting(u) = {}
             /\ Goes(y) /\ y.phase = "CALL" /\ y.turn = x.turn
<1> DEFINE n == {m \in x.names : m.what # "call"}
           u == [x EXCEPT !.names = n, !.hook = "none"]
           y == [u EXCEPT !.job = j]
<1>1. x \in Struct /\ Going(x) /\ x.phase = "CALL" /\ Waiting(x) = {}
  BY Unwritten DEF Told, Going, Base, Sound
<1>2. Unwait(ForgetAll(x, {"call"})) = u
  <2>1. x.names \ {m \in x.names : m.what \in {"call"}} = n
    OBVIOUS
  <2> QED BY <2>1 DEF Unwait, ForgetAll, Forget
<1>3. n \in NameSet
  BY <1>1, Fields DEF NameSet
<1>4. /\ n \subseteq x.names
      /\ {m \in n : m.what = "call" \/ (m.what = "tool" /\ m.n = 0)} = {}
      /\ {m \in n : m.what \in Awaits} = {}
  BY <1>1 DEF Told, CallNames, Waiting
<1> HIDE DEF n
<1>5. u \in Struct
  BY <1>1, <1>3 DEF Struct, Hook
<1>6. Same(x, u, {"names", "hook"}) /\ u.names = n /\ u.hook = "none"
  BY <1>1, Domain DEF Same, FieldNames
<1> HIDE DEF u
<1>7. y \in Struct
  BY <1>5 DEF Struct
<1>8. Same(u, y, {"job"}) /\ y.job = j
  BY <1>5, Domain DEF Same, FieldNames
<1> HIDE DEF y
<1>9. /\ u.phase = x.phase /\ u.home = x.home /\ u.flags = x.flags /\ u.job = x.job
      /\ u.promote = x.promote /\ u.slots = x.slots /\ u.drain = x.drain
      /\ u.turn = x.turn
  BY <1>6 DEF Same, FieldNames
<1>10. /\ y.phase = u.phase /\ y.home = u.home /\ y.flags = u.flags /\ y.names = u.names
       /\ y.promote = u.promote /\ y.slots = u.slots /\ y.drain = u.drain
       /\ y.hook = u.hook /\ y.turn = u.turn
  BY <1>8 DEF Same, FieldNames
<1>11. Going(u)
  <2>1. Same(x, u, Minor \cup Moved)
    BY <1>6 DEF Same, Moved
  <2>2. MayMove(x, u)
    BY <1>4, <1>5, <1>6, <1>9, <2>1 DEF MayMove
  <2> QED BY <1>1, <2>2, GoingMoves
<1>12. Going(y)
  <2>1. Same(u, y, Minor \cup Moved)
    BY <1>8 DEF Same, Moved
  <2>2. y.home = {} /\ "DELTA" \notin y.flags
    BY <1>9, <1>10 DEF Told
  <2>3. MayMove(u, y)
    BY <1>7, <1>10, <2>1, <2>2 DEF MayMove
  <2> QED BY <1>11, <2>3, GoingMoves
<1>13. Waiting(u) = {} /\ Waiting(y) = {} /\ CallNames(y) = {}
  BY <1>4, <1>6, <1>10 DEF Waiting, CallNames
<1>14. Goes(y)
  BY <1>8, <1>9, <1>10, <1>12, <1>13 DEF Goes, Quiet, Told
<1> QED BY <1>1, <1>2, <1>9, <1>10, <1>11, <1>13, <1>14 DEF y

LEMMA EnterGood ==
  ASSUME NEW x, Goes(x), NEW ph \in {"ANSWER", "TEXT", "ARGS", "TURN", "CALLS"},
         ph \in {"ARGS", "TURN", "CALLS"} => x.turn < MaxTurns
  PROVE  Good(Enter(x, ph))
<1> DEFINE y == Enter(x, ph)
<1>1. Goes(y) /\ Same(x, y, {"step", "phase"}) /\ y.phase = ph
  BY EnterKeeps DEF Working
<1> HIDE DEF y
<1>2. y.turn = x.turn
  BY <1>1 DEF Same, FieldNames
<1>3. Good(y)
  BY <1>1, <1>2, GoesGood DEF Goes, Calling, Unread
<1> QED BY <1>3 DEF y

\* mcp_req_job_done().
LEMMA JobDoneKeeps ==
  ASSUME NEW x, Told(x), NEW c, NEW status \in Hows
  PROVE  Good(JobDone(x, c, status))
<1> DEFINE u == Unwait(ForgetAll(x, {"call"}))
           y(j) == [u EXCEPT !.job = j]
           d == ReqDrop(u)
<1>1. /\ Going(u) /\ Waiting(u) = {}
      /\ \A j \in JobState \ {"waits"} :
            Goes(y(j)) /\ y(j).phase = "CALL" /\ y(j).turn = x.turn
  <2>1. ASSUME NEW j \in JobState \ {"waits"}
        PROVE  /\ Going(u) /\ Waiting(u) = {}
               /\ Goes(y(j)) /\ y(j).phase = "CALL" /\ y(j).turn = x.turn
    BY ToldIs
  <2>2. "none" \in JobState \ {"waits"}
    BY DEF JobState
  <2> HIDE DEF u, y
  <2> QED BY <2>1, <2>2
<1>2. u.turn = x.turn
  <2>1. u.turn = y("none").turn
    <3> HIDE DEF u
    <3> QED BY <1>1, Domain DEF Going, Base, Sound, FieldNames
  <2> QED BY <1>1, <2>1 DEF JobState
<1>3. /\ status = "calls" /\ u.turn < MaxTurns => JobDone(x, c, status) = Enter(y("calls"), "ARGS")
      /\ status \in {"text", "calls"} /\ ~(status = "calls" /\ u.turn < MaxTurns) =>
           JobDone(x, c, status) = Enter(y("text"), "TEXT")
      /\ status = "answered" => JobDone(x, c, status) = Enter(y("answered"), "ANSWER")
      /\ status = "cancelled" => JobDone(x, c, status) = Fail(y("over"), c)
      /\ status = "failed" => JobDone(x, c, status) = Respond(d, c)
      /\ status = "suspended" => JobDone(x, c, status) =
           Respond([d EXCEPT !.flags = @ \cup {"SUSPENDED"}], c)
  BY DEF JobDone, TurnDone
<1>4. Goes(d) /\ Same(u, d, {"names", "job", "slots", "flags", "home"})
  BY <1>1, DropGoes
<1> HIDE DEF d, u
<1>5. CASE status \in {"text", "calls", "answered", "cancelled"}
  <2>1. /\ {"calls", "text", "answered", "over"} \subseteq JobState \ {"waits"}
        /\ "CALL" \notin Sent
    BY DEF JobState, Sent
  <2>2. Goes(y("calls")) /\ y("calls").turn = x.turn
    BY <1>1, <2>1
  <2>3. Goes(y("text")) /\ Goes(y("answered"))
    BY <1>1, <2>1
  <2>4. Goes(y("over")) /\ y("over").phase \notin Sent
    BY <1>1, <2>1
  <2> HIDE DEF y
  <2>5. CASE status = "calls" /\ u.turn < MaxTurns
    BY <1>2, <1>3, <2>2, <2>5, EnterGood
  <2>6. CASE status \in {"text", "calls"} /\ ~(status = "calls" /\ u.turn < MaxTurns)
    BY <1>3, <2>3, <2>6, EnterGood
  <2>7. CASE status = "answered"
    BY <1>3, <2>3, <2>7, EnterGood
  <2>8. CASE status = "cancelled"
    BY <1>3, <2>4, <2>8, FailKeeps DEF Goes
  <2> QED BY <1>5, <2>5, <2>6, <2>7, <2>8
<1>6. CASE status = "failed"
  BY <1>3, <1>4, <1>6, RespondKeeps
<1>7. CASE status = "suspended"
  <2> DEFINE f == d.flags \cup {"SUSPENDED"}
             z == [d EXCEPT !.flags = f]
  <2>1. d \in Struct
    BY <1>4 DEF Goes, Going, Base, Sound
  <2>2. /\ f \in FlagSet
        /\ "DELTA" \in f => "DELTA" \in d.flags
        /\ "DETACH_PENDING" \in f => "DETACH_PENDING" \in d.flags
    BY <2>1, Fields DEF FlagSet, Flag
  <2> HIDE DEF f
  <2>3. z \in Struct
    BY <2>1, <2>2 DEF Struct
  <2>4. Same(d, z, {"flags"}) /\ z.flags = f
    BY <2>1, Domain DEF Same, FieldNames
  <2>5. JobDone(x, c, status) = Respond(z, c)
    BY <1>3, <1>7 DEF f
  <2> HIDE DEF z
  <2>6. /\ z.names = d.names /\ z.home = d.home /\ z.job = d.job /\ z.phase = d.phase
        /\ z.promote = d.promote /\ z.slots = d.slots /\ z.hook = d.hook
        /\ z.drain = d.drain
    BY <2>4 DEF Same, FieldNames
  <2>7. Same(d, z, Minor \cup Moved)
    BY <2>4 DEF Same, Moved
  <2>8. MayMove(d, z)
    BY <2>2, <2>3, <2>4, <2>6, <2>7 DEF MayMove
  <2>9. Goes(z)
    BY <1>4, <2>6, <2>8, GoesMoves DEF Goes, Quiet
  <2> QED BY <2>5, <2>9, RespondKeeps
<1> QED BY <1>5, <1>6, <1>7 DEF Hows

\* mcp_req_answer() and mcp_req_reasoning().
LEMMA AnswerKeeps ==
  ASSUME NEW x, Works(x), x.phase = "ANSWER", NEW c
  PROVE  Good(Answer(x, c))
<1> DEFINE r == ReqArchive(x, "reasoned", 0, "none")
           y == [r EXCEPT !.phase = "JOURNAL"]
           z == [x EXCEPT !.phase = "TEXT"]
<1>1. Goes(x) /\ x \in Struct
  BY WorksGoes DEF Goes, Going, Base, Sound
<1>2. Answer(x, c) \in {Ready(x), Enter(x, "TEXT"), y, Fail(z, c)}
  BY DEF Answer
<1>3. r \in Struct
  BY <1>1, ArchiveIs, Given DEF Goes, Going, Base, Sound, Awaits, RecNo, RecStatus
<1>4. Good(y)
  <2>1. y \in Struct
    <3> HIDE DEF r
    <3> QED BY <1>3 DEF Struct, Phase, Working
  <2>2. Same(r, y, {"step", "phase"}) /\ y.phase = "JOURNAL"
    <3> HIDE DEF r
    <3> QED BY <1>3, Domain DEF Same, FieldNames
  <2> HIDE DEF y
  <2> QED BY <1>1, <2>1, <2>2, JournalKeeps
<1>5. Good(Fail(z, c))
  <2>1. z \in Struct
    BY <1>1 DEF Struct, Phase, Working
  <2>2. Same(x, z, {"phase"}) /\ z.phase = "TEXT"
    BY <1>1, Domain DEF Same, FieldNames
  <2> HIDE DEF z
  <2>3. /\ z.names = x.names /\ z.home = x.home /\ z.job = x.job /\ z.flags = x.flags
        /\ z.promote = x.promote /\ z.slots = x.slots /\ z.hook = x.hook
        /\ z.drain = x.drain
    BY <2>2 DEF Same, FieldNames
  <2>4. Same(x, z, Minor \cup Moved)
    BY <2>2 DEF Same, Moved
  <2>5. Waiting(z) = {} /\ z.job # "waits"
    BY <1>1, <2>3 DEF Goes, Quiet, Waiting
  <2>6. MayMove(x, z)
    BY <2>1, <2>2, <2>3, <2>4, <2>5 DEF MayMove
  <2>7. Goes(z)
    BY <1>1, <2>5, <2>6, GoesMoves
  <2> QED BY <2>2, <2>7, FailKeeps DEF Goes, Sent
<1> HIDE DEF y, z
<1> QED BY <1>1, <1>2, <1>4, <1>5, ReadyWorks, EnterGood

\* mcp_req_text().
LEMMA TextKeeps ==
  ASSUME NEW x, Works(x), x.phase = "TEXT", NEW c
  PROVE  Good(Text(x, c))
<1> DEFINE d == Dispose(x, c)
           y == ReqDrop(d)
<1>1. Goes(x)
  BY WorksGoes
<1>2. Goes(d)
  BY <1>1, DisposeKeeps
<1>3. Text(x, c) = IF x.job = "text" THEN Respond(x, c) ELSE Respond(y, c)
  BY DEF Text
<1> HIDE DEF d
<1>4. Goes(y)
  BY <1>2, DropGoes DEF Goes
<1> HIDE DEF y
<1> QED BY <1>1, <1>3, <1>4, RespondKeeps

\* mcp_phase_steps.
LEMMA PhaseStepKeeps ==
  ASSUME NEW x, Works(x), NEW c
  PROVE  Good(PhaseStep(x, c))
<1>1. CASE x.phase = "PARSE"
  BY <1>1, ParseKeeps DEF PhaseStep
<1>2. CASE x.phase = "DISPATCH"
  <2>1. x.phase \in Unread
    BY <1>2 DEF Unread
  <2> QED BY <1>2, <2>1, WorksEnters, DispatchKeeps DEF PhaseStep
<1>3. CASE x.phase = "BUILD"
  BY <1>3, BuildStepKeeps DEF PhaseStep
<1>4. CASE x.phase = "ANSWER"
  BY <1>4, AnswerKeeps DEF PhaseStep
<1>5. CASE x.phase = "TEXT"
  BY <1>5, TextKeeps DEF PhaseStep
<1>6. CASE x.phase = "ARGS"
  <2>1. Goes(x) /\ x.turn < MaxTurns
    BY <1>6, WorksGoes DEF Works
  <2>2. PhaseStep(x, c) = TurnArgs(x, c)
    BY <1>6 DEF PhaseStep
  <2> QED BY <2>1, <2>2, ReadyWorks, EnterGood DEF TurnArgs
<1>7. CASE x.phase = "TURN"
  BY <1>7, TurnWriteKeeps DEF PhaseStep
<1>8. CASE x.phase = "CALLS"
  <2>1. Goes(x) /\ x.turn < MaxTurns
    BY <1>8, WorksGoes DEF Works
  <2> QED BY <1>8, <2>1, CallsNextKeeps DEF PhaseStep
<1>9. CASE x.phase = "RESULT"
  BY <1>9, ResultWriteKeeps DEF PhaseStep
<1>10. CASE x.phase = "REPLY"
  BY <1>10, WorksGoes, ReplyKeeps DEF PhaseStep
<1>11. CASE x.phase = "SEND"
  <2>1. Quiet(x) /\ Going(x) /\ x.hook = "none"
    BY <1>11 DEF Works, Calling, Asked, Parked
  <2> QED BY <1>11, <2>1, SendKeeps DEF PhaseStep
<1>12. CASE x.phase \notin {"PARSE", "DISPATCH", "BUILD", "ANSWER", "TEXT", "ARGS", "TURN",
                            "CALLS", "RESULT", "REPLY", "SEND"}
  <2>1. PhaseStep(x, c) = x
    BY <1>12 DEF PhaseStep
  <2> QED BY <2>1 DEF Good, Late, Works, Going, Base
<1> QED BY <1>1, <1>2, <1>3, <1>4, <1>5, <1>6, <1>7, <1>8, <1>9, <1>10, <1>11, <1>12

-----------------------------------------------------------------------------
(* What a write that is made, or not, leaves.                              *)

LEMMA ForgetIs ==
  ASSUME NEW x \in Struct, NEW S
  PROVE  LET y == Forget(x, S) IN
         y \in Struct /\ Same(x, y, {"names"}) /\ y.names = x.names \ S
<1> DEFINE n == x.names \ S
           y == [x EXCEPT !.names = n]
<1>1. n \in NameSet
  BY Fields DEF NameSet
<1>2. Forget(x, S) = y
  BY DEF Forget
<1> HIDE DEF n
<1>3. y \in Struct
  BY <1>1 DEF Struct
<1>4. Same(x, y, {"names"}) /\ y.names = n
  BY Domain DEF Same, FieldNames
<1> QED BY <1>2, <1>3, <1>4 DEF n

LEMMA ForgetBase ==
  ASSUME NEW x, Base(x), NEW S
  PROVE  Base(Forget(x, S))
<1> DEFINE y == Forget(x, S)
<1>1. y \in Struct /\ Same(x, y, {"names"}) /\ y.names \subseteq x.names
  BY ForgetIs DEF Base, Sound
<1> HIDE DEF y
<1>2. /\ y.post = x.post /\ y.wal = x.wal /\ y.life = x.life /\ y.turn = x.turn
      /\ y.spare = x.spare /\ y.task = x.task /\ y.admitted = x.admitted
      /\ y.phase = x.phase /\ y.draining = x.draining /\ y.recs = x.recs
      /\ y.listed = x.listed /\ y.s = x.s /\ y.stream = x.stream /\ y.drain = x.drain
      /\ y.slots = x.slots /\ y.gone = x.gone /\ y.home = x.home /\ y.job = x.job
      /\ y.flags = x.flags
  BY <1>1 DEF Same, FieldNames
<1>3. Posted(y)
  BY <1>2, PostedSame DEF Base, Sound
<1>4. Names(y)
  BY <1>1, <1>2 DEF Names, Waiting, Base, Sound
<1>5. Owns(y) /\ Streams(y)
  BY <1>2 DEF Owns, Streams, Base, Sound
<1>6. Sound(y)
  BY <1>1, <1>2, <1>3, <1>4, <1>5 DEF Sound, Base
<1>7. Base(y)
  BY <1>2, <1>6 DEF Base
<1> QED BY <1>7 DEF y

\* The request that the write finds, when it works.
LEMMA WaitedIs ==
  ASSUME NEW x, Works(x), NEW m \in x.names, m.what \in Awaits
  PROVE  LET y == Forget(x, {m}) IN
         /\ Goes(y) /\ Same(x, y, {"names"})
         /\ y.phase = "JOURNAL" \/ (y.phase = "SEND" /\ y.draining)
         /\ m.what # "finished" /\ (m.what # "reasoned" => y.turn < MaxTurns)
         /\ y.phase = "SEND" => y.hook = "none"
<1> DEFINE y == Forget(x, {m})
<1>1. x \in Struct /\ Names(x) /\ Going(x) /\ x.phase # "END"
  BY DEF Works, Going, Base, Sound
<1>2. y \in Struct /\ Same(x, y, {"names"}) /\ y.names = x.names \ {m}
  BY <1>1, ForgetIs
<1> HIDE DEF y
<1>3. /\ m.what # "finished" /\ (m.what # "reasoned" => x.turn < MaxTurns)
      /\ x.phase = "JOURNAL" \/ (x.phase = "SEND" /\ x.draining)
  BY <1>1 DEF Names, Awaits
<1>4. Quiet(x)
  BY <1>3 DEF Works, Calling, Asked, Parked
<1>5. /\ y.home = x.home /\ y.job = x.job /\ y.flags = x.flags /\ y.phase = x.phase
      /\ y.promote = x.promote /\ y.slots = x.slots /\ y.hook = x.hook
      /\ y.drain = x.drain /\ y.turn = x.turn /\ y.draining = x.draining
  BY <1>2 DEF Same, FieldNames
<1>6. Waiting(y) = {}
  BY <1>1, <1>2 DEF Waiting, Names
<1>7. Same(x, y, Minor \cup Moved)
  BY <1>2 DEF Same, Moved
<1>8. MayMove(x, y)
  BY <1>2, <1>5, <1>7 DEF MayMove
<1>9. Going(y)
  BY <1>1, <1>8, GoingMoves
<1>10. Quiet(y)
  BY <1>2, <1>4, <1>5 DEF Quiet, CallNames
<1>11. x.phase = "SEND" => x.hook = "none"
  BY DEF Works
<1> QED BY <1>2, <1>3, <1>5, <1>6, <1>9, <1>10, <1>11 DEF Goes, y

\* mcp_req_intent_saved().
LEMMA IntentSavedKeeps ==
  ASSUME NEW x, Goes(x), x.turn < MaxTurns, NEW c, NEW ok \in BOOLEAN
  PROVE  Good(IntentSaved(x, c, ok))
<1> DEFINE i == x.intents \cup {x.launched + 1}
           y == [x EXCEPT !.intents = i]
<1>1. x \in Struct
  BY DEF Goes, Going, Base, Sound
<1>2. i \in CountSet
  <2>1. x.launched + 1 \in Nat
    BY <1>1, Fields, Given
  <2> QED BY <1>1, <2>1, Fields DEF CountSet
<1>3. IntentSaved(x, c, ok) = IF ~ok THEN Close(x, c, "error") ELSE Enter(y, "CALLS")
  BY DEF IntentSaved
<1> HIDE DEF i
<1>4. y \in Struct
  BY <1>1, <1>2 DEF Struct
<1>5. Same(x, y, {"intents"})
  BY <1>1, Domain DEF Same, FieldNames
<1> HIDE DEF y
<1>6. Goes(y) /\ y.turn < MaxTurns
  BY <1>4, <1>5, GoesMinor DEF Same, Minor, FieldNames
<1>7. Good(Enter(y, "CALLS"))
  BY <1>6, EnterGood
<1>8. Good(Close(x, c, "error"))
  BY CloseKeeps DEF Goes
<1> QED BY <1>3, <1>7, <1>8

\* The reasoning is durable, or is not.
LEMMA ReasonedKeeps ==
  ASSUME NEW x, Goes(x), x.phase \in {"JOURNAL", "SEND"}, x.phase = "SEND" => x.hook = "none",
         NEW c, NEW ok \in BOOLEAN
  PROVE  Good(IF ok THEN Enter(x, "TEXT") ELSE Fail(x, c))
<1>1. Good(Enter(x, "TEXT"))
  BY EnterGood
<1>2. CASE x.phase = "SEND"
  <2>1. Fail(x, c) = x
    BY <1>2 DEF Fail, Sent
  <2>2. Good(x)
    BY <1>2, GoesGood DEF Goes, Calling, Unread
  <2> QED BY <1>1, <2>1, <2>2
<1>3. CASE x.phase = "JOURNAL"
  <2>1. Good(Fail(x, c))
    BY <1>3, FailKeeps DEF Goes, Sent
  <2> QED BY <1>1, <2>1
<1> QED BY <1>2, <1>3

\* The request whose end is being written can be ended again.
LEMMA EndBase ==
  ASSUME NEW x, Sound(x), Ended(x), ~x.spare, x.phase = "END"
  PROVE  Base(x)
BY DEF Ended, Left, Base

LEMMA FinishedKeeps ==
  ASSUME NEW x, Sound(x), Ended(x), ~x.spare, x.phase = "END", NEW m, NEW c,
         NEW ok \in BOOLEAN
  PROVE  LET y == Forget(x, {m}) IN
         Good(ReqFinish(IF ok THEN y ELSE [y EXCEPT !.error = "failed"], c))
<1> DEFINE y == Forget(x, {m})
           z == [y EXCEPT !.error = "failed"]
<1>1. Base(y)
  BY EndBase, ForgetBase
<1> HIDE DEF y
<1>2. Base(z)
  BY <1>1, BaseError DEF Error
<1> HIDE DEF z
<1>3. Good(ReqFinish(y, c)) /\ Good(ReqFinish(z, c))
  BY <1>1, <1>2, FinishKeeps
<1> QED BY <1>3 DEF y, z

\* mcp_archive_back().
LEMMA WroteKeeps ==
  ASSUME NEW x, Good(x), NEW m \in x.names, m.what \in Awaits, NEW c, NEW ok \in BOOLEAN
  PROVE  Good(Wrote(Forget(x, {m}), c, m, ok))
<1> DEFINE y == Forget(x, {m})
<1>1. CASE ~Late(x)
  <2>1. /\ Goes(y) /\ (y.phase = "JOURNAL" \/ (y.phase = "SEND" /\ y.draining))
        /\ m.what # "finished" /\ (m.what # "reasoned" => y.turn < MaxTurns)
        /\ y.phase = "SEND" => y.hook = "none"
    BY <1>1, WaitedIs DEF Good
  <2> SUFFICES Good(Wrote(y, c, m, ok))
    OBVIOUS
  <2> HIDE DEF y
  <2>2. CASE m.what = "submitted"
    <3>1. Wrote(y, c, m, ok) = Submitted(y, c, ok)
      BY <2>2 DEF Wrote
    <3>2. Good(Submitted(y, c, ok))
      BY <2>1, <2>2, SubmittedKeeps
    <3> QED BY <3>1, <3>2
  <2>3. CASE m.what = "intended"
    <3>1. Wrote(y, c, m, ok) = IntentSaved(y, c, ok)
      BY <2>3 DEF Wrote
    <3>2. Good(IntentSaved(y, c, ok))
      BY <2>1, <2>3, IntentSavedKeeps
    <3> QED BY <3>1, <3>2
  <2>4. CASE m.what = "reasoned"
    <3>1. Wrote(y, c, m, ok) = (IF ok THEN Enter(y, "TEXT") ELSE Fail(y, c))
      BY <2>4 DEF Wrote
    <3>2. Good((IF ok THEN Enter(y, "TEXT") ELSE Fail(y, c)))
      BY <2>1, <2>4, ReasonedKeeps
    <3> QED BY <3>1, <3>2
  <2> QED
    <3>1. m.what \in {"submitted", "intended", "reasoned"}
      BY <2>1 DEF Awaits
    <3> QED BY <3>1, <2>2, <2>3, <2>4
<1>2. CASE Late(x)
  <2>1. Sound(x) /\ Ended(x)
    BY <1>2 DEF Good
  <2>2. ~x.spare /\ x.phase = "END" /\ m.what = "finished"
    <3>1. x.names # {}
      OBVIOUS
    <3>2. ~x.spare /\ x.phase # "FREE"
      BY <2>1, <3>1 DEF Ended
    <3>3. x.phase = "END"
      BY <1>2, <3>2 DEF Late
    <3>4. m.what \in {"record", "finished"}
      BY <2>1, <3>2, <3>3 DEF Ended
    <3> QED BY <3>2, <3>3, <3>4 DEF Awaits
  <2>3. Wrote(y, c, m, ok) = ReqFinish(IF ok THEN y ELSE [y EXCEPT !.error = "failed"], c)
    BY <2>2 DEF Wrote
  <2>4. Good(ReqFinish(IF ok THEN y ELSE [y EXCEPT !.error = "failed"], c))
    BY <2>1, <2>2, FinishedKeeps
  <2> QED BY <2>3, <2>4
<1> QED BY <1>1, <1>2

-----------------------------------------------------------------------------
(* A step of the request.                                                  *)

\* Flags that are gone, but for those that matter.
LEMMA FlagsWork ==
  ASSUME NEW x, Works(x), NEW y \in Struct, Same(x, y, {"flags", "step", "timer", "due"}),
         "DELTA" \in y.flags => "DELTA" \in x.flags /\ ("SSE" \in x.flags => "SSE" \in y.flags),
         "DETACH_PENDING" \in y.flags => "DETACH_PENDING" \in x.flags,
         "SSE" \in y.flags => "SSE" \in x.flags
  PROVE  Works(y) /\ Good(y)
<1>1. /\ y.names = x.names /\ y.post = x.post /\ y.wal = x.wal /\ y.life = x.life
      /\ y.turn = x.turn /\ y.spare = x.spare /\ y.slots = x.slots
  BY DEF Same, FieldNames
<1>2. Same(x, y, Beside)
  BY DEF Same, Beside, Minor
<1>3. CallNames(y) = CallNames(x)
  BY <1>1 DEF CallNames
<1>4. Posted(y) /\ Len(y.slots) <= Calls
  BY <1>1, PostedSame DEF Works, Going, Base, Sound
<1>5. \A m \in CallNames(x), what \in {"done", "delta"} :
        m.what = "call" => (Word(x, m, what) <=> Word(y, m, what))
  BY <1>1 DEF Word
<1> QED BY <1>1, <1>2, <1>3, <1>4, <1>5, WorksLike

\* mcp_req_tick().
LEMMA TickKeeps ==
  ASSUME NEW x, Works(x), "DELTA" \notin x.flags, NEW c
  PROVE  LET y == Tick(x, c) IN
         /\ Good(y)
         /\ \/ Works(y) /\ "DELTA" \notin y.flags
            \/ /\ c.data = "gone" /\ Promotes(x) /\ Late(y)
               /\ y.phase \in {x.phase, "END", "FREE"}
<1> DEFINE y == [x EXCEPT !.promote = FALSE]
           p == IF Promotes(x) THEN y ELSE x
<1>1. x \in Struct /\ Going(x) /\ Calling(x)
  BY DEF Works, Going, Base, Sound
<1>2. y \in Struct
  BY <1>1 DEF Struct, Bool
<1>3. Same(x, y, {"promote"}) /\ y.promote = FALSE
  BY <1>1, Domain DEF Same, FieldNames
<1>4. Tick(x, c) = IF Promotes(x) /\ CanOpen(y, c) THEN Promote(y, c) ELSE Arm(p)
  BY DEF Tick
<1> HIDE DEF y
<1>5. /\ y.names = x.names /\ y.home = x.home /\ y.job = x.job /\ y.flags = x.flags
      /\ y.phase = x.phase /\ y.slots = x.slots /\ y.hook = x.hook /\ y.drain = x.drain
      /\ y.turn = x.turn /\ y.task = x.task /\ y.admitted = x.admitted /\ y.post = x.post
  BY <1>3 DEF Same, FieldNames
<1>6. Going(y)
  <2>1. Same(x, y, Minor \cup Moved)
    BY <1>3 DEF Same, Moved
  <2>2. MayMove(x, y)
    BY <1>2, <1>3, <1>5, <2>1 DEF MayMove
  <2> QED BY <1>1, <2>2, GoingMoves
<1>7. Calling(y)
  BY <1>1, <1>5, CallingLike DEF CallNames, Word
<1>8. Works(y)
  <2>1. Untouched(x) => Untouched(y)
    BY <1>3, <1>5 DEF Untouched
  <2> QED BY <1>5, <1>6, <1>7, <2>1 DEF Works
<1>9. CASE ~(Promotes(x) /\ CanOpen(y, c))
  <2> DEFINE a == Arm(p)
  <2>1. Works(p) /\ p \in Struct /\ "DELTA" \notin p.flags
    BY <1>1, <1>2, <1>5, <1>8
  <2> HIDE DEF p
  <2>2. a \in Struct /\ Same(p, a, {"timer"})
    BY <2>1, ArmIs
  <2>3. Tick(x, c) = a
    BY <1>4, <1>9
  <2> HIDE DEF a
  <2>4. Same(p, a, Minor) /\ a.flags = p.flags
    BY <2>2 DEF Same, Minor, FieldNames
  <2>5. Good(a) /\ Works(a) /\ "DELTA" \notin a.flags
    BY <2>1, <2>2, <2>4, WorksMinor
  <2> QED BY <2>3, <2>5
<1>10. CASE Promotes(x) /\ CanOpen(y, c)
  <2> DEFINE z == Promote(y, c)
  <2>1. x.promote /\ FreeRecs(y) # {}
    BY <1>10 DEF Promotes, CanOpen
  <2>2. /\ x.task = 0 /\ x.opt.tasks /\ ~x.opt.stream /\ Regular(x.opt)
    BY <1>1, <2>1 DEF Going
  <2>3. x.admitted = 0
    BY <1>1, <2>2 DEF Going, Regular
  <2>4. "DETACH_PENDING" \notin x.flags
    BY <1>1, <2>2 DEF Going, Regular
  <2>5. /\ c.data = "gone" => Good(z) /\ Late(z) /\ z.phase \in {y.phase, "END", "FREE"}
        /\ c.data # "gone" => /\ Going(z) /\ Calling(z) /\ z.task # 0
                              /\ Same(y, z, BackFields) /\ "DELTA" \notin z.flags
    BY <1>5, <1>6, <1>7, <2>1, <2>2, <2>3, <2>4, PromoteKeeps
  <2>6. Tick(x, c) = z
    BY <1>4, <1>10
  <2> HIDE DEF z
  <2>7. CASE c.data = "gone"
    BY <1>5, <1>10, <2>5, <2>6, <2>7
  <2>8. CASE c.data # "gone"
    <3>1. z.phase = x.phase /\ z.turn = x.turn /\ z.hook = x.hook
      BY <1>5, <2>5, <2>8 DEF Same, FieldNames, BackFields, DetachFields
    <3>2. x.phase \notin Unread
      BY <2>1 DEF Works, Untouched
    <3>3. Works(z)
      BY <2>5, <2>8, <3>1, <3>2 DEF Works
    <3>4. Good(z)
      BY <3>3 DEF Good, Late, Works, Going, Base
    <3>5. "DELTA" \notin z.flags
      BY <2>5, <2>8
    <3> QED BY <2>6, <3>3, <3>4, <3>5
  <2> QED BY <2>7, <2>8
<1> QED BY <1>9, <1>10

\* Home goes on, or waits.
LEMMA HomeKeeps ==
  ASSUME NEW x, Works(x), NEW y \in Struct, Same(x, y, {"home", "flags", "step", "post"}),
         x.phase = "CALL", Asked(y), Posted(y), \A j \in y.home : j.name.life = x.life,
         "DETACH_PENDING" \in y.flags => "DETACH_PENDING" \in x.flags
  PROVE  Works(y) /\ Good(y)
<1>1. /\ y.spare = x.spare /\ y.life = x.life /\ y.names = x.names /\ y.phase = x.phase
      /\ y.recs = x.recs /\ y.wal = x.wal
      /\ y.turn = x.turn /\ y.draining = x.draining /\ y.s = x.s /\ y.stream = x.stream
      /\ y.drain = x.drain /\ y.opt = x.opt /\ y.task = x.task /\ y.slots = x.slots
      /\ y.gone = x.gone /\ y.admitted = x.admitted /\ y.hook = x.hook
      /\ y.promote = x.promote /\ y.listed = x.listed
  BY DEF Same, FieldNames
<1>2. Going(x) /\ Base(x) /\ Sound(x)
  BY DEF Works, Going, Base
<1>3. Names(y)
  BY <1>1, <1>2 DEF Sound, Names, Waiting
<1>4. Owns(y) /\ Streams(y)
  BY <1>1, <1>2 DEF Sound, Owns, Streams
<1>5. Sound(y)
  BY <1>1, <1>2, <1>3, <1>4 DEF Sound
<1>6. Base(y)
  BY <1>1, <1>2, <1>5 DEF Base, Asked
<1>7. Going(y)
  BY <1>1, <1>2, <1>6 DEF Going
<1>8. Works(y)
  BY <1>1, <1>7 DEF Works, Calling, Unread
<1> QED BY <1>1, <1>2, <1>8 DEF Good, Late, Going, Base

\* mcp_req_delta().
LEMMA DeltaKeeps ==
  ASSUME NEW x, Works(x), "DELTA" \in x.flags, NEW c
  PROVE  Good(Delta(x, c))
<1> DEFINE fl == x.flags \ {"DELTA"}
           t == "TICK" \in x.flags
           h == {IF j.name \in x.names THEN [j EXCEPT !.at = "runs"] ELSE j : j \in x.home}
           y == [x EXCEPT !.flags = fl, !.step = t, !.home = h]
<1>1. x \in Struct /\ Going(x) /\ Asked(x) /\ Good(x) /\ Posted(x)
  BY DEF Works, Calling, Quiet, Parked, Going, Base, Sound, Good, Late
<1>2. Delta(x, c) \in {x, Ready(x), Abort(x, c, "failed"), Blocks(x, c), y}
  BY DEF Delta
<1>3. Good(Ready(x)) /\ Good(Abort(x, c, "failed"))
  BY <1>1, ReadyWorks, AbortGood
<1>4. Good(Blocks(x, c))
  <2> DEFINE b == Blocks(x, c)
  <2>1. /\ Going(b) /\ Same(x, b, {"flags"})
        /\ b.flags \subseteq x.flags \cup {"BLOCKED"} /\ x.flags \subseteq b.flags
    BY <1>1, BlocksKeeps
  <2> HIDE DEF b
  <2>2. b \in Struct /\ Same(x, b, {"flags", "step", "timer", "due"})
    BY <2>1 DEF Same, Going, Base, Sound
  <2>3. Good(b)
    BY <2>1, <2>2, FlagsWork
  <2> QED BY <2>3 DEF b
<1>5. Good(y)
  <2>1. PICK m \in x.names :
          /\ CallNames(x) = {m} /\ m.what = "call" /\ m.turn = x.turn
          /\ Word(x, m, "done") => x.home = {} /\ "DELTA" \notin x.flags
          /\ ~Word(x, m, "done") => \E d \in BOOLEAN, at \in {"runs", "held"} :
               /\ x.home = {[name |-> m, at |-> at, durable |-> d]}
               /\ Word(x, m, "delta") => at = "held" /\ "DELTA" \notin x.flags
               /\ "DELTA" \in x.flags => at = "held" /\ "SSE" \in x.flags
    BY <1>1 DEF Asked
  <2>2. ~Word(x, m, "done")
    BY <2>1
  <2>3. PICK d \in BOOLEAN, at \in {"runs", "held"} :
          /\ x.home = {[name |-> m, at |-> at, durable |-> d]}
          /\ ~Word(x, m, "delta")
    BY <2>1, <2>2
  <2>4. h = {[name |-> m, at |-> "runs", durable |-> d]}
    BY <2>3
  <2>5. m \in Name /\ m.life = x.life
    BY <1>1, Fields DEF Going, Base, Sound, Names
  <2>6. h \in HomeSet /\ \A j \in h : j.name.life = x.life
    BY <2>4, <2>5 DEF HomeSet, HomeJob
  <2>7. fl \in FlagSet /\ t \in Bool /\ "DELTA" \notin fl
        /\ ("DETACH_PENDING" \in fl => "DETACH_PENDING" \in x.flags)
    BY <1>1, Fields DEF FlagSet, Bool
  <2> HIDE DEF fl, t, h
  <2>8. y \in Struct
    BY <1>1, <2>6, <2>7 DEF Struct
  <2>9. Same(x, y, {"flags", "step", "home"}) /\ y.flags = fl /\ y.home = h
    BY <1>1, Domain DEF Same, FieldNames
  <2> HIDE DEF y
  <2>10. /\ y.names = x.names /\ y.post = x.post /\ y.wal = x.wal /\ y.life = x.life
         /\ y.turn = x.turn /\ y.spare = x.spare /\ y.job = x.job /\ y.phase = x.phase
    BY <2>9 DEF Same, FieldNames
  <2>11. Posted(y)
    BY <1>1, <2>10, PostedSame
  <2>12. Same(x, y, {"home", "flags", "step", "post"})
    BY <2>9 DEF Same
  <2>13. Asked(y)
    <3>1. CallNames(y) = {m} /\ m \in y.names /\ m.what = "call" /\ m.turn = y.turn
      BY <2>1, <2>10 DEF CallNames
    <3>2. ~Word(y, m, "done") /\ ~Word(y, m, "delta")
      BY <2>2, <2>3, <2>10 DEF Word
    <3>3. y.job = "waits" /\ y.phase = "CALL"
      BY <1>1, <2>10 DEF Asked
    <3>4. y.home = {[name |-> m, at |-> "runs", durable |-> d]} /\ "DELTA" \notin y.flags
      BY <2>4, <2>7, <2>9
    <3>5. \E e \in BOOLEAN, at2 \in {"runs", "held"} :
            /\ y.home = {[name |-> m, at |-> at2, durable |-> e]}
            /\ Word(y, m, "delta") => at2 = "held" /\ "DELTA" \notin y.flags
            /\ "DELTA" \in y.flags => at2 = "held" /\ "SSE" \in y.flags
      BY <3>2, <3>4
    <3> QED BY <3>1, <3>2, <3>3, <3>5 DEF Asked
  <2> QED BY <1>1, <2>6, <2>7, <2>8, <2>9, <2>11, <2>12, <2>13, HomeKeeps DEF Asked
<1> HIDE DEF y
<1> QED BY <1>1, <1>2, <1>3, <1>4, <1>5

\* What is left changes little.
LEMMA LateLike ==
  ASSUME NEW x, Good(x), Late(x), NEW y \in Struct, Posted(y), Streams(y),
         Same(x, y, Minor \cup {"flags", "wal", "post", "disk", "drain", "draining", "exits",
                                "s", "stream"}),
         y.timer = x.timer, "DELTA" \notin y.flags, y.drain => y.draining,
         x.draining => y.draining,
         x.spare => /\ y.step = x.step /\ y.reaper = x.reaper /\ y.flags = x.flags
                    /\ y.s = x.s
  PROVE  Good(y) /\ Late(y)
<1>1. /\ y.spare = x.spare /\ y.life = x.life /\ y.home = x.home /\ y.names = x.names
      /\ y.job = x.job /\ y.admitted = x.admitted /\ y.phase = x.phase /\ y.hook = x.hook
      /\ y.turn = x.turn /\ y.task = x.task /\ y.recs = x.recs
      /\ y.slots = x.slots /\ y.gone = x.gone /\ y.listed = x.listed
  BY DEF Same, FieldNames, Minor
<1>2. Sound(x) /\ Ended(x) /\ Left(x)
  BY DEF Good, Ended
<1>3. Left(y)
  BY <1>1, <1>2 DEF Left
<1>4. Names(y)
  <2>1. Waiting(y) = Waiting(x)
    BY <1>1 DEF Waiting
  <2>2. ASSUME NEW m \in y.names
        PROVE  /\ m.life = y.life
               /\ m.what = "record" => m.n \in {y.task, y.admitted} \ {0} /\ m.turn = 0
               /\ m.what = "finished" => y.phase = "END"
               /\ m.what \in Awaits \ {"finished"} =>
                    y.phase = "JOURNAL" \/ (y.phase = "SEND" /\ y.draining)
               /\ m.what \in {"submitted", "intended"} => y.turn < MaxTurns
    BY <1>1, <1>2 DEF Sound, Names
  <2> QED BY <1>2, <2>1, <2>2 DEF Sound, Names
<1>5. Owns(y)
  BY <1>1, <1>2 DEF Sound, Owns
<1>6. Sound(y)
  BY <1>1, <1>2, <1>4, <1>5 DEF Sound
<1>7. Ended(y)
  BY <1>1, <1>2, <1>3 DEF Ended
<1>8. Late(y)
  BY <1>1 DEF Late
<1> QED BY <1>6, <1>7, <1>8 DEF Good

LEMMA ReapIs ==
  ASSUME NEW x \in Struct, NEW c
  PROVE  LET y == Reap(x, c) IN
         y \in Struct /\ Same(x, y, {"step", "reaper"}) /\ (~x.reaper => y = x)
<1> DEFINE y == [x EXCEPT !.reaper = FALSE]
<1>1. y \in Struct
  BY DEF Struct, Bool
<1>2. Same(x, y, {"step", "reaper"})
  BY Domain DEF Same, FieldNames
<1>3. Reap(x, c) \in {x, Ready(x), y}
  BY DEF Reap
<1> HIDE DEF y
<1>4. Ready(x) \in Struct /\ Same(x, Ready(x), {"step", "reaper"})
  BY ReadyIs DEF Same
<1>5. Same(x, x, {"step", "reaper"}) /\ (~x.reaper => Reap(x, c) = x)
  BY DEF Same, Reap
<1> QED BY <1>1, <1>2, <1>3, <1>4, <1>5

LEMMA SlicedLate ==
  ASSUME NEW x, Good(x), Late(x), x.spare => x.phase \notin Steps \cup {"REPLY", "SEND"},
         NEW c
  PROVE  Good(Sliced(Reap(x, c), c, x.reaper))
<1> DEFINE y == Reap(x, c)
<1>1. x \in Struct /\ (x.spare => ~x.reaper) /\ Posted(x) /\ Streams(x) /\ "DELTA" \notin x.flags
      /\ (x.drain => x.draining)
  BY DEF Good, Sound, Ended, Left
<1>2. y \in Struct /\ Same(x, y, {"step", "reaper"}) /\ (~x.reaper => y = x)
  BY <1>1, ReapIs
<1> HIDE DEF y
<1>3. /\ y.names = x.names /\ y.post = x.post /\ y.wal = x.wal /\ y.life = x.life
      /\ y.turn = x.turn /\ y.spare = x.spare /\ y.phase = x.phase /\ y.flags = x.flags
      /\ y.s = x.s /\ y.stream = x.stream /\ y.task = x.task /\ y.timer = x.timer
      /\ y.drain = x.drain /\ y.draining = x.draining
  BY <1>2 DEF Same, FieldNames
<1>4. Good(y) /\ Late(y)
  <2>1. Posted(y) /\ Streams(y)
    BY <1>1, <1>3, PostedSame DEF Streams
  <2>2. Same(x, y, Minor \cup {"flags", "wal", "post", "disk", "drain", "draining", "exits",
                               "s", "stream"})
    BY <1>2 DEF Same, Minor
  <2>3. x.spare => y.step = x.step /\ y.reaper = x.reaper
    BY <1>1, <1>2
  <2> QED BY <1>1, <1>2, <1>3, <2>1, <2>2, <2>3, LateLike
<1>5. CASE x.reaper /\ ~y.reaper /\ y.phase = "FREE"
  <2>1. Nothing(y)
    <3>1. ~y.spare
      BY <1>1, <1>3, <1>5
    <3>2. Sound(y) /\ Left(y) /\ y.names = {} /\ y.task = 0 /\ y.admitted = 0
      BY <1>4, <1>5, <3>1 DEF Good, Ended
    <3>3. y.listed = 0 /\ \A r \in 1 .. MaxRecs : y.recs[r].status # "working"
      BY <3>2 DEF Sound, Owns
    <3> QED BY <3>1, <3>2, <3>3 DEF Nothing, Sound, Streams
  <2>2. Good(Freed(y))
    BY <2>1, FreedKeeps
  <2>3. Freed(y) = ReqEnd(y)
    BY <1>5 DEF Freed
  <2> QED BY <1>5, <2>2, <2>3 DEF Sliced, y
<1>6. CASE ~(x.reaper /\ ~y.reaper /\ y.phase = "FREE")
  <2>1. y.phase \notin Steps \cup {"REPLY", "SEND"}
    BY <1>3 DEF Late, Steps
  <2>2. PhaseStep(y, c) = y
    BY <2>1 DEF PhaseStep, Steps
  <2> QED BY <1>4, <1>6, <2>2 DEF Sliced, y
<1> QED BY <1>5, <1>6

\* mcp_req_step().
LEMMA StepKeeps ==
  ASSUME NEW x, Good(x), ~x.spare, NEW c,
         c.data # "gone" \/ ~(Promotes(x) /\ x.phase \in Steps)
  PROVE  Good(Step(x, c))
<1>1. CASE Late(x)
  <2>1. x.phase \notin Working /\ "DELTA" \notin x.flags
    BY <1>1 DEF Good, Late, Ended, Left, Working
  <2>2. Step(x, c) = Sliced(Reap(x, c), c, x.reaper)
    BY <2>1 DEF Step, Ticked
  <2> QED BY <1>1, <2>2, SlicedLate
<1>2. CASE ~Late(x) /\ "DELTA" \in x.flags
  BY <1>2, DeltaKeeps DEF Good, Step
<1>3. CASE ~Late(x) /\ "DELTA" \notin x.flags
  <2> DEFINE t == Ticked(x, c)
             y == Reap(t, c)
  <2>1. Works(x) /\ x \in Struct
    BY <1>3 DEF Good, Works, Going, Base, Sound
  <2>2. Step(x, c) = Sliced(y, c, t.reaper)
    BY <1>3 DEF Step
  <2>3. \/ Works(t)
        \/ Good(t) /\ Late(t) /\ t.phase \notin Steps \cup {"REPLY", "SEND"}
    <3>1. CASE "TICK" \in x.flags /\ x.phase \in Working
      <4> DEFINE f == x.flags \ {"TICK"}
                 z == [x EXCEPT !.flags = f]
      <4>1. t = Tick(z, c)
        BY <3>1 DEF Ticked
      <4> HIDE DEF t
      <4>2. f \in FlagSet
        BY <2>1, Fields DEF FlagSet
      <4>3. /\ "DELTA" \notin f /\ f \subseteq x.flags
            /\ "BLOCKED" \in f <=> "BLOCKED" \in x.flags
        BY <1>3
      <4> HIDE DEF f
      <4>4. z \in Struct
        BY <2>1, <4>2 DEF Struct
      <4>5. Same(x, z, {"flags"}) /\ z.flags = f
        BY <2>1, Domain DEF Same, FieldNames
      <4> HIDE DEF z
      <4>6. Same(x, z, {"flags", "step", "timer", "due"})
        BY <4>5 DEF Same
      <4>7. Works(z)
        BY <2>1, <4>3, <4>4, <4>5, <4>6, FlagsWork
      <4>8. /\ z.phase = x.phase /\ z.promote = x.promote /\ z.due = x.due
        BY <4>5 DEF Same, FieldNames
      <4>9. Promotes(z) <=> Promotes(x)
        BY <4>3, <4>5, <4>8 DEF Promotes
      <4>10. /\ Good(t)
             /\ \/ Works(t)
                \/ /\ c.data = "gone" /\ Promotes(z) /\ Late(t)
                   /\ t.phase \in {z.phase, "END", "FREE"}
        BY <4>1, <4>3, <4>5, <4>7, TickKeeps
      <4>11. x.phase \in Steps \/ x.phase \notin Steps \cup {"REPLY", "SEND"}
        BY <3>1 DEF Working, Steps
      <4>12. "END" \notin Steps /\ "FREE" \notin Steps
        BY DEF Steps
      <4> QED BY <4>8, <4>9, <4>10, <4>11, <4>12
    <3>2. CASE ~("TICK" \in x.flags /\ x.phase \in Working)
      BY <2>1, <3>2 DEF Ticked
    <3> QED BY <3>1, <3>2
  <2> HIDE DEF t
  <2>4. CASE Works(t)
    <3>1. t \in Struct
      BY <2>4 DEF Works, Going, Base, Sound
    <3>2. y \in Struct /\ Same(t, y, {"step", "reaper"})
      BY <3>1, ReapIs
    <3> HIDE DEF y
    <3>3. Same(t, y, Minor)
      BY <3>2 DEF Same, Minor
    <3>4. Works(y)
      BY <2>4, <3>2, <3>3, WorksMinor
    <3>5. Sliced(y, c, t.reaper) = PhaseStep(y, c)
      BY <3>4 DEF Sliced, Works, Going, Base
    <3> QED BY <2>2, <3>4, <3>5, PhaseStepKeeps
  <2>5. CASE Good(t) /\ Late(t) /\ t.phase \notin Steps \cup {"REPLY", "SEND"}
    BY <2>2, <2>5, SlicedLate
  <2> QED BY <2>3, <2>4, <2>5
<1> QED BY <1>1, <1>2, <1>3

-----------------------------------------------------------------------------
(* What the loop calls, and what others do to the request's messages.      *)

\* mcp_begin().
LEMMA BeginKeeps ==
  ASSUME NEW x, Good(x), x.spare, x.life < MaxLives, NEW o \in Client, Regular(o)
  PROVE  Good([Blank(x) EXCEPT !.life = @ + 1, !.opt = o, !.stream = "open"])
<1> DEFINE b == Blank(x)
           l == b.life + 1
           st == "open"
           y == [b EXCEPT !.life = l, !.opt = o, !.stream = st]
<1>1. x \in Struct /\ Sound(x) /\ Ended(x)
  BY DEF Good, Late, Sound
<1>2. /\ b \in Struct
      /\ Same(x, b, {"spare", "phase", "s", "hook", "flags", "step", "timer", "promote",
                     "due", "reaper", "error", "task", "admitted", "archive", "lost", "job",
                     "turn", "slots", "part", "launched", "intents", "reply"})
      /\ ~b.spare /\ b.phase = "BODY" /\ b.s = "client" /\ b.hook = "none" /\ b.flags = {}
      /\ ~b.step /\ ~b.promote /\ b.task = 0 /\ b.admitted = 0 /\ b.job = "none"
      /\ b.turn = 0 /\ b.slots = <<>>
  BY <1>1, BlankIs
<1>3. [Blank(x) EXCEPT !.life = @ + 1, !.opt = o, !.stream = "open"] = y
  BY <1>2 DEF Struct
<1> HIDE DEF b
<1>4. /\ b.life = x.life /\ b.names = x.names /\ b.listed = x.listed /\ b.recs = x.recs
      /\ b.wal = x.wal /\ b.home = x.home /\ b.post = x.post /\ b.drain = x.drain
      /\ b.draining = x.draining /\ b.gone = x.gone
  BY <1>2 DEF Same, FieldNames
<1>5. l \in LifeNo /\ l = x.life + 1 /\ l # 0 /\ x.life \in Nat
  BY <1>1, <1>4, Fields, Given DEF LifeNo
<1>6. st \in StreamEnd
  BY DEF StreamEnd
<1> HIDE DEF l, st
<1>7. y \in Struct
  BY <1>2, <1>5, <1>6, ZenonT(40) DEF Struct
<1>8. /\ Same(b, y, {"life", "opt", "stream"}) /\ y.life = l /\ y.opt = o
  BY <1>2, Domain DEF Same, FieldNames
<1> HIDE DEF y
<1>9. /\ ~y.spare /\ y.phase = "BODY" /\ y.s = "client" /\ y.hook = "none" /\ y.flags = {}
      /\ ~y.promote /\ y.task = 0 /\ y.admitted = 0 /\ y.job = "none"
      /\ y.turn = 0 /\ y.slots = <<>>
  BY <1>2, <1>8 DEF Same, FieldNames
<1>10. /\ y.names = x.names /\ y.listed = x.listed /\ y.recs = x.recs
       /\ y.wal = x.wal /\ y.home = x.home /\ y.post = x.post /\ y.drain = x.drain
       /\ y.draining = x.draining /\ y.gone = x.gone
  BY <1>4, <1>8 DEF Same, FieldNames
<1>11. x.names = {} /\ x.home = {} /\ x.task = 0 /\ x.admitted = 0
  BY <1>1 DEF Ended, Left
<1>12. Posted(y)
  <2>1. x.post \subseteq Mail /\ x.wal \in Seq(Entry)
    BY <1>1, Fields
  <2>2. ASSUME NEW p \in y.post
        PROVE  /\ p.what \in {"delta", "done"} <=> p.who.what = "call"
               /\ p.what = "wrote" <=> p.who.what \in Awaits
               /\ p.what = "roster" <=> p.who.what = "roster"
               /\ p.what = "record" <=> p.who.what = "record"
               /\ p.what = "done" => p.how \in Hows
               /\ p.what = "delta" => p.how = ""
               /\ p.who.life <= x.life
    BY <1>1, <1>10 DEF Sound, Posted
  <2>3. ASSUME NEW p \in y.post PROVE p.who.life <= y.life /\ p.who.life # y.life
    <3>1. p \in Mail
      BY <1>10, <2>1
    <3>2. p.who \in Name
      BY <3>1 DEF Mail
    <3>3. p.who.life \in Nat
      BY <3>2, Given DEF Name
    <3>4. p.who.life <= x.life
      BY <2>2
    <3> QED BY <1>5, <1>8, <3>3, <3>4
  <2>4. ASSUME NEW i \in DOMAIN y.wal, y.wal[i].who # NoName
        PROVE  y.wal[i].who.what \in Awaits /\ y.wal[i].who.life <= y.life
    <3>1. x.wal[i].who.what \in Awaits /\ x.wal[i].who.life <= x.life
      BY <1>1, <1>10, <2>4, ZenonT(40) DEF Sound, Posted
    <3>2. x.wal[i] \in Entry
      BY <1>10, <2>1, <2>4
    <3>3. x.wal[i].who \in Name
      BY <1>10, <2>4, <3>2 DEF Entry
    <3>4. x.wal[i].who.life \in Nat
      BY <3>3, Given DEF Name
    <3> QED BY <1>5, <1>8, <1>10, <3>1, <3>4
  <2> QED BY <2>2, <2>3, <2>4 DEF Posted
<1>13. Names(y) /\ Owns(y) /\ Streams(y)
  BY <1>1, <1>9, <1>10, <1>11 DEF Names, Waiting, Owns, Streams, Sound
<1>14. Sound(y)
  BY <1>1, <1>7, <1>9, <1>10, <1>12, <1>13, Given DEF Sound
<1>15. Base(y)
  BY <1>5, <1>8, <1>9, <1>10, <1>11, <1>14 DEF Base
<1>16. Going(y)
  BY <1>8, <1>9, <1>15 DEF Going
<1>17. Quiet(y)
  BY <1>9, <1>10, <1>11 DEF Quiet, CallNames
<1>18. Untouched(y)
  BY <1>9, <1>10, <1>11 DEF Untouched
<1>19. Works(y)
  BY <1>9, <1>16, <1>17, <1>18, Given DEF Works, Calling
<1>20. Good(y)
  BY <1>9, <1>19 DEF Good, Late
<1> QED BY <1>3, <1>20

\* mcp_on_body().
LEMMA BodyKeeps ==
  ASSUME NEW x, Good(x), ~x.spare, x.phase = "BODY", NEW c
  PROVE  Good(Parse([x EXCEPT !.phase = "PARSE"], c))
<1> DEFINE y == [x EXCEPT !.phase = "PARSE"]
<1>1. Works(x) /\ x \in Struct
  BY DEF Good, Late, Works, Going, Base, Sound
<1>2. y \in Struct
  BY <1>1 DEF Struct, Phase, Working
<1>3. Same(x, y, {"phase"}) /\ y.phase = "PARSE"
  BY <1>1, Domain DEF Same, FieldNames
<1> HIDE DEF y
<1>4. Same(x, y, {"step", "phase"})
  BY <1>3 DEF Same
<1>5. Works(y)
  BY <1>1, <1>2, <1>3, <1>4, UnreadKeeps DEF Unread
<1>6. Good(Parse(y, c))
  BY <1>3, <1>5, ParseKeeps
<1> QED BY <1>6 DEF y

\* What the flags and the step of a request may become at any time.
LEMMA FlagsKeep ==
  ASSUME NEW x, Good(x), ~x.spare, NEW y \in Struct, Same(x, y, {"flags", "step"}),
         y.flags \ {"BLOCKED", "TICK"} = x.flags \ {"BLOCKED", "TICK"}
  PROVE  Good(y)
<1>1. /\ "DELTA" \in y.flags <=> "DELTA" \in x.flags
      /\ "DETACH_PENDING" \in y.flags <=> "DETACH_PENDING" \in x.flags
      /\ "SSE" \in y.flags <=> "SSE" \in x.flags
  OBVIOUS
<1>2. /\ y.names = x.names /\ y.post = x.post /\ y.wal = x.wal /\ y.life = x.life
      /\ y.turn = x.turn /\ y.spare = x.spare /\ y.phase = x.phase
      /\ y.s = x.s /\ y.stream = x.stream /\ y.task = x.task /\ y.timer = x.timer
      /\ y.drain = x.drain /\ y.draining = x.draining
  BY DEF Same, FieldNames
<1>3. CASE Late(x)
  <2>1. Sound(x) /\ "DELTA" \notin x.flags
    BY <1>3 DEF Good, Ended, Left
  <2>2. Posted(y) /\ Streams(y)
    BY <1>2, <2>1, PostedSame DEF Streams, Sound
  <2>3. Same(x, y, Minor \cup {"flags", "wal", "post", "disk", "drain", "draining", "exits",
                               "s", "stream"})
    BY DEF Same, Minor
  <2> QED BY <1>1, <1>2, <1>3, <2>1, <2>2, <2>3, LateLike DEF Sound
<1>4. CASE ~Late(x)
  <2>1. Same(x, y, {"flags", "step", "timer", "due"})
    BY DEF Same
  <2> QED BY <1>1, <1>4, <2>1, FlagsWork DEF Good
<1> QED BY <1>3, <1>4

\* mcp_on_writable().
LEMMA WritableKeeps ==
  ASSUME NEW x, Good(x), ~x.spare
  PROVE  Good(Ready([x EXCEPT !.flags = (@ \ {"BLOCKED"}) \cup {"TICK"}]))
<1> DEFINE f == (x.flags \ {"BLOCKED"}) \cup {"TICK"}
           y == [x EXCEPT !.flags = f]
           z == Ready(y)
<1>1. x \in Struct
  BY DEF Good, Works, Going, Base, Sound
<1>2. f \in FlagSet
  BY <1>1, Fields DEF FlagSet, Flag
<1>3. f \ {"BLOCKED", "TICK"} = x.flags \ {"BLOCKED", "TICK"}
  OBVIOUS
<1>4. Ready([x EXCEPT !.flags = (@ \ {"BLOCKED"}) \cup {"TICK"}]) = z
  OBVIOUS
<1> HIDE DEF f
<1>5. y \in Struct
  BY <1>1, <1>2 DEF Struct
<1>6. Same(x, y, {"flags"}) /\ y.flags = f
  BY <1>1, Domain DEF Same, FieldNames
<1> HIDE DEF y
<1>7. z \in Struct /\ Same(y, z, {"step"})
  BY <1>5, ReadyIs
<1> HIDE DEF z
<1>8. Same(x, z, {"flags", "step"}) /\ z.flags = f
  BY <1>6, <1>7 DEF Same, FieldNames
<1>9. Good(z)
  BY <1>3, <1>7, <1>8, FlagsKeep
<1> QED BY <1>4, <1>9

\* mcp_req_step(), when the loop calls it.
LEMMA RunKeeps ==
  ASSUME NEW x, Good(x), x.step, NEW c,
         c.data # "gone" \/ ~(Promotes(x) /\ x.phase \in Steps)
  PROVE  Good(Step([x EXCEPT !.step = FALSE], c))
<1> DEFINE y == [x EXCEPT !.step = FALSE]
<1>1. x \in Struct /\ ~x.spare
  BY DEF Good, Late, Ended, Works, Going, Base, Sound
<1>2. y \in Struct
  BY <1>1 DEF Struct, Bool
<1>3. Same(x, y, {"step"})
  BY <1>1, Domain DEF Same, FieldNames
<1> HIDE DEF y
<1>4. /\ y.flags = x.flags /\ y.promote = x.promote /\ y.due = x.due /\ y.phase = x.phase
      /\ y.spare = x.spare
  BY <1>3 DEF Same, FieldNames
<1>5. Same(x, y, {"flags", "step"})
  BY <1>3 DEF Same
<1>6. Good(y)
  BY <1>1, <1>2, <1>4, <1>5, FlagsKeep
<1>7. Promotes(y) <=> Promotes(x)
  BY <1>4 DEF Promotes
<1>8. Good(Step(y, c))
  BY <1>1, <1>4, <1>6, <1>7, StepKeeps
<1> QED BY <1>8 DEF y

\* mcp_req_timer().
LEMMA TimerKeeps ==
  ASSUME NEW x, Good(x), x.timer
  PROVE  Good(Ready([x EXCEPT !.timer = FALSE, !.due = TRUE, !.flags = @ \cup {"TICK"}]))
<1> DEFINE f == x.flags \cup {"TICK"}
           y == [x EXCEPT !.timer = FALSE, !.due = TRUE, !.flags = f]
           z == Ready(y)
<1>1. Works(x) /\ x \in Struct
  BY DEF Good, Ended, Left, Works, Going, Base, Sound
<1>2. f \in FlagSet
  BY <1>1, Fields DEF FlagSet, Flag
<1>3. /\ "DELTA" \in f <=> "DELTA" \in x.flags
      /\ "DETACH_PENDING" \in f <=> "DETACH_PENDING" \in x.flags
      /\ "SSE" \in f <=> "SSE" \in x.flags
  OBVIOUS
<1>4. Ready([x EXCEPT !.timer = FALSE, !.due = TRUE, !.flags = @ \cup {"TICK"}]) = z
  OBVIOUS
<1> HIDE DEF f
<1>5. y \in Struct
  BY <1>1, <1>2, ZenonT(40) DEF Struct, Bool
<1>6. Same(x, y, {"timer", "due", "flags"}) /\ y.flags = f
  BY <1>1, Domain DEF Same, FieldNames
<1> HIDE DEF y
<1>7. z \in Struct /\ Same(y, z, {"step"})
  BY <1>5, ReadyIs
<1> HIDE DEF z
<1>8. Same(x, z, {"flags", "step", "timer", "due"}) /\ z.flags = f
  BY <1>6, <1>7 DEF Same, FieldNames
<1>9. Good(z)
  BY <1>1, <1>3, <1>7, <1>8, FlagsWork
<1> QED BY <1>4, <1>9

\* A tool's late answer.
LEMMA ToolKeeps ==
  ASSUME NEW x, Good(x), NEW m \in x.names, m.what = "tool", NEW c
  PROVE  Good(IF m.n = 0 THEN Respond(Unwait(Forget(x, {m})), c) ELSE SlotDone(x, m.n, c))
<1>1. Works(x) /\ x \in Struct /\ Going(x)
  BY DEF Good, Late, Ended, Works, Going, Base, Sound
<1>2. CASE m.n = 0
  <2> DEFINE f == Forget(x, {m})
             y == Unwait(f)
  <2>1. m \in CallNames(x)
    BY <1>2 DEF CallNames
  <2>2. Parked(x) /\ CallNames(x) = {m}
    BY <1>1, <2>1 DEF Works, Calling, Quiet, Asked, Parked
  <2>3. Waiting(x) = {}
    BY <1>1, <2>2, Unwritten DEF Parked
  <2>4. f \in Struct /\ Same(x, f, {"names"}) /\ f.names = x.names \ {m}
    BY <1>1, ForgetIs
  <2> HIDE DEF f
  <2>5. y \in Struct /\ Same(f, y, {"hook"}) /\ y.hook = "none"
    BY <2>4, UnwaitIs
  <2> HIDE DEF y
  <2>6. /\ y.names = f.names /\ y.home = x.home /\ y.job = x.job /\ y.flags = x.flags
        /\ y.promote = x.promote /\ y.slots = x.slots /\ y.phase = x.phase
        /\ y.drain = x.drain
    BY <2>4, <2>5 DEF Same, FieldNames
  <2>7. Same(x, y, Minor \cup Moved)
    BY <2>4, <2>5 DEF Same, Moved
  <2>8. MayMove(x, y)
    BY <2>4, <2>5, <2>6, <2>7 DEF MayMove
  <2>9. Going(y)
    BY <1>1, <2>8, GoingMoves
  <2>10. CallNames(y) = {} /\ Waiting(y) = {}
    BY <2>2, <2>3, <2>4, <2>6 DEF CallNames, Waiting
  <2>11. Goes(y)
    BY <2>2, <2>6, <2>9, <2>10 DEF Goes, Quiet, Parked
  <2>12. Good(Respond(y, c))
    BY <2>11, RespondKeeps
  <2> QED BY <1>2, <2>12 DEF y, f
<1>3. CASE m.n # 0
  <2>1. m \in Name
    BY <1>1, Fields
  <2>2. m.n \in Nat \ {0}
    BY <1>3, <2>1, Given DEF Name
  <2> QED BY <1>1, <1>3, <2>2, SlotDoneKeeps
<1> QED BY <1>2, <1>3

\* The job at home, if any, is the one whose completion is awaited.
LEMMA AtHome ==
  ASSUME NEW x, Good(x), NEW j \in x.home
  PROVE  /\ Works(x) /\ Asked(x) /\ x.phase = "CALL" /\ j.name \in x.names
         /\ CallNames(x) = {j.name} /\ j.name.what = "call" /\ j.name.turn = x.turn
         /\ j.name.life = x.life /\ x.home = {j}
         /\ ~Word(x, j.name, "done")
         /\ j.at = "runs" => ~Word(x, j.name, "delta") /\ "DELTA" \notin x.flags
<1>1. x.home # {} /\ ~Late(x)
  BY DEF Good, Ended, Left
<1>2. Works(x) /\ Asked(x) /\ Going(x)
  BY <1>1 DEF Good, Works, Calling, Quiet, Parked
<1>3. PICK m \in x.names :
        /\ CallNames(x) = {m} /\ m.what = "call" /\ m.turn = x.turn
        /\ Word(x, m, "done") => x.home = {} /\ "DELTA" \notin x.flags
        /\ ~Word(x, m, "done") => \E d \in BOOLEAN, at \in {"runs", "held"} :
             /\ x.home = {[name |-> m, at |-> at, durable |-> d]}
             /\ Word(x, m, "delta") => at = "held" /\ "DELTA" \notin x.flags
             /\ "DELTA" \in x.flags => at = "held" /\ "SSE" \in x.flags
  BY <1>2 DEF Asked
<1>4. ~Word(x, m, "done")
  BY <1>1, <1>3
<1>5. PICK d \in BOOLEAN, at \in {"runs", "held"} :
        /\ x.home = {[name |-> m, at |-> at, durable |-> d]}
        /\ Word(x, m, "delta") => at = "held" /\ "DELTA" \notin x.flags
        /\ "DELTA" \in x.flags => at = "held" /\ "SSE" \in x.flags
  BY <1>3, <1>4
<1>6. j = [name |-> m, at |-> at, durable |-> d]
  BY <1>5
<1>7. j.name = m /\ j.at = at /\ x.home = {j}
  BY <1>5, <1>6
<1>8. m.life = x.life
  BY <1>2, <1>7 DEF Going, Base
<1>9. x.phase = "CALL"
  BY <1>2 DEF Asked
<1> QED BY <1>2, <1>3, <1>4, <1>5, <1>7, <1>8, <1>9

\* A message of the job's.
LEMMA PostIs ==
  ASSUME NEW x \in Struct, Posted(x), NEW p \in Mail, NEW y, y.post = x.post \cup {p},
         y.wal = x.wal, y.life = x.life, y.turn = x.turn, y.spare = x.spare,
         /\ p.what \in {"delta", "done"} <=> p.who.what = "call"
         /\ p.what = "wrote" <=> p.who.what \in Awaits
         /\ p.what = "roster" <=> p.who.what = "roster"
         /\ p.what = "record" <=> p.who.what = "record"
         /\ p.what = "done" => p.how \in Hows
         /\ p.what = "delta" => p.how = ""
         /\ p.who.life <= x.life
         /\ p.who.what = "call" /\ p.who.life = x.life /\ ~x.spare => p.who.turn <= x.turn
  PROVE  Posted(y)
BY ZenonT(40) DEF Posted

LEMMA HomeDeltaKeeps ==
  ASSUME NEW x, Good(x), NEW j \in x.home, j.at = "runs"
  PROVE  Good([x EXCEPT !.home = (@ \ {j}) \cup {[j EXCEPT !.at = "held"]},
                        !.post = @ \cup {[what |-> "delta", who |-> j.name, how |-> ""]}])
<1> DEFINE k == [j EXCEPT !.at = "held"]
           p == [what |-> "delta", who |-> j.name, how |-> ""]
           h == (x.home \ {j}) \cup {k}
           po == x.post \cup {p}
           y == [x EXCEPT !.home = h, !.post = po]
<1>1. /\ Works(x) /\ Asked(x) /\ x.phase = "CALL" /\ j.name \in x.names
      /\ CallNames(x) = {j.name} /\ j.name.what = "call" /\ j.name.turn = x.turn
      /\ j.name.life = x.life /\ x.home = {j}
      /\ ~Word(x, j.name, "done")
      /\ ~Word(x, j.name, "delta") /\ "DELTA" \notin x.flags
  BY AtHome
<1>2. x \in Struct /\ Posted(x)
  BY <1>1 DEF Works, Going, Base, Sound
<1>3. j \in HomeJob
  BY <1>2, Fields
<1>4. /\ k \in HomeJob /\ k.name = j.name /\ k.at = "held" /\ k.durable = j.durable
      /\ k = [name |-> j.name, at |-> "held", durable |-> j.durable] /\ j.durable \in BOOLEAN
  BY <1>3 DEF HomeJob
<1>5. h = {k} /\ h \in HomeSet
  BY <1>1, <1>4 DEF HomeSet
<1>6. p \in Mail
  BY <1>3 DEF Mail, HomeJob
<1>7. /\ p.what = "delta" /\ p.who = j.name /\ p.how = ""
  OBVIOUS
<1>8. po \in MailSet
  BY <1>2, <1>6, Fields DEF MailSet
<1>9. [x EXCEPT !.home = (@ \ {j}) \cup {[j EXCEPT !.at = "held"]},
                !.post = @ \cup {[what |-> "delta", who |-> j.name, how |-> ""]}] = y
  BY <1>2 DEF Struct
<1> HIDE DEF h, po, k
<1>10. y \in Struct
  BY <1>2, <1>5, <1>8, ZenonT(40) DEF Struct
<1>11. Same(x, y, {"home", "post"}) /\ y.home = h /\ y.post = po
  BY <1>2, Domain DEF Same, FieldNames
<1> HIDE DEF y
<1>12. /\ y.wal = x.wal /\ y.life = x.life /\ y.turn = x.turn /\ y.spare = x.spare
       /\ y.names = x.names /\ y.flags = x.flags /\ y.job = x.job /\ y.phase = x.phase
  BY <1>11 DEF Same, FieldNames
<1>13. Posted(y)
  <2>1. y.post = x.post \cup {p}
    BY <1>11 DEF po
  <2>2. /\ p.who.life <= x.life /\ p.who.turn <= x.turn
    BY <1>1, <1>2, <1>7, Fields, Given
  <2> HIDE DEF p
  <2>3. /\ p.what \in {"delta", "done"} <=> p.who.what = "call"
        /\ p.what = "wrote" <=> p.who.what \in Awaits
        /\ p.what = "roster" <=> p.who.what = "roster"
        /\ p.what = "record" <=> p.who.what = "record"
        /\ p.what = "done" => p.how \in Hows
        /\ p.what = "delta" => p.how = ""
    BY <1>1, <1>7 DEF Awaits
  <2> QED BY <1>2, <1>6, <1>12, <2>1, <2>2, <2>3, PostIs
<1>14. Asked(y)
  <2>1. CallNames(y) = {j.name} /\ j.name \in y.names /\ j.name.turn = y.turn
    BY <1>1, <1>12 DEF CallNames
  <2>2. Word(y, j.name, "delta") /\ ~Word(y, j.name, "done")
    BY <1>1, <1>7, <1>11 DEF Word, po
  <2>3. y.home = {[name |-> j.name, at |-> "held", durable |-> j.durable]}
    BY <1>4, <1>5, <1>11
  <2>4. y.job = "waits" /\ y.phase = "CALL" /\ "DELTA" \notin y.flags
    BY <1>1, <1>12 DEF Asked
  <2> QED BY <1>1, <1>4, <2>1, <2>2, <2>3, <2>4 DEF Asked
<1>15. Same(x, y, {"home", "flags", "step", "post"})
  BY <1>11 DEF Same
<1>16. \A i \in y.home : i.name.life = x.life
  BY <1>1, <1>4, <1>5, <1>11
<1>17. Good(y)
  BY <1>1, <1>10, <1>12, <1>13, <1>14, <1>15, <1>16, HomeKeeps
<1> QED BY <1>9, <1>17

LEMMA HomeDoneKeeps ==
  ASSUME NEW x, Good(x), NEW j \in x.home, j.at = "runs", NEW how \in Hows
  PROVE  Good([x EXCEPT !.home = @ \ {j},
                        !.post = @ \cup {[what |-> "done", who |-> j.name, how |-> how]}])
<1> DEFINE p == [what |-> "done", who |-> j.name, how |-> how]
           h == x.home \ {j}
           po == x.post \cup {p}
           y == [x EXCEPT !.home = h, !.post = po]
<1>1. /\ Works(x) /\ Asked(x) /\ x.phase = "CALL" /\ j.name \in x.names
      /\ CallNames(x) = {j.name} /\ j.name.what = "call" /\ j.name.turn = x.turn
      /\ j.name.life = x.life /\ x.home = {j}
      /\ ~Word(x, j.name, "delta") /\ "DELTA" \notin x.flags
  BY AtHome
<1>2. x \in Struct /\ Posted(x)
  BY <1>1 DEF Works, Going, Base, Sound
<1>3. j \in HomeJob
  BY <1>2, Fields
<1>4. h = {} /\ h \in HomeSet
  BY <1>1 DEF HomeSet
<1>5. p \in Mail
  BY <1>3 DEF Mail, HomeJob
<1>6. /\ p.what = "done" /\ p.who = j.name /\ p.how = how
  OBVIOUS
<1>7. po \in MailSet
  BY <1>2, <1>5, Fields DEF MailSet
<1>8. [x EXCEPT !.home = @ \ {j},
                !.post = @ \cup {[what |-> "done", who |-> j.name, how |-> how]}] = y
  BY <1>2 DEF Struct
<1> HIDE DEF h, po
<1>9. y \in Struct
  BY <1>2, <1>4, <1>7, ZenonT(40) DEF Struct
<1>10. Same(x, y, {"home", "post"}) /\ y.home = h /\ y.post = po
  BY <1>2, Domain DEF Same, FieldNames
<1> HIDE DEF y
<1>11. /\ y.wal = x.wal /\ y.life = x.life /\ y.turn = x.turn /\ y.spare = x.spare
       /\ y.names = x.names /\ y.flags = x.flags /\ y.job = x.job /\ y.phase = x.phase
  BY <1>10 DEF Same, FieldNames
<1>12. Posted(y)
  <2>1. y.post = x.post \cup {p}
    BY <1>10 DEF po
  <2>2. /\ p.who.life <= x.life /\ p.who.turn <= x.turn
    BY <1>1, <1>2, <1>6, Fields, Given
  <2> HIDE DEF p
  <2>3. /\ p.what \in {"delta", "done"} <=> p.who.what = "call"
        /\ p.what = "wrote" <=> p.who.what \in Awaits
        /\ p.what = "roster" <=> p.who.what = "roster"
        /\ p.what = "record" <=> p.who.what = "record"
        /\ p.what = "done" => p.how \in Hows
        /\ p.what = "delta" => p.how = ""
    BY <1>1, <1>6 DEF Awaits
  <2> QED BY <1>2, <1>5, <1>11, <2>1, <2>2, <2>3, PostIs
<1>13. Asked(y)
  <2>1. CallNames(y) = {j.name} /\ j.name \in y.names /\ j.name.turn = y.turn
    BY <1>1, <1>11 DEF CallNames
  <2>2. ~Word(y, j.name, "delta") /\ Word(y, j.name, "done")
    BY <1>1, <1>6, <1>10 DEF Word, po
  <2>3. y.home = {}
    BY <1>4, <1>10
  <2>4. y.job = "waits" /\ y.phase = "CALL" /\ "DELTA" \notin y.flags
    BY <1>1, <1>11 DEF Asked
  <2> QED BY <1>1, <2>1, <2>2, <2>3, <2>4 DEF Asked
<1>14. Same(x, y, {"home", "flags", "step", "post"})
  BY <1>10 DEF Same
<1>15. Good(y)
  BY <1>1, <1>4, <1>9, <1>10, <1>11, <1>12, <1>13, <1>14, HomeKeeps
<1> QED BY <1>8, <1>15

\* What the others do that is no concern of the call's.
LEMMA AsideKeeps ==
  ASSUME NEW x, Good(x), NEW y \in Struct, Same(x, y, {"wal", "post", "disk"}), Posted(y),
         \A m \in CallNames(x), what \in {"done", "delta"} :
           m.what = "call" => (Word(x, m, what) <=> Word(y, m, what))
  PROVE  Good(y) /\ y.names = x.names
<1>1. /\ y.names = x.names /\ y.flags = x.flags /\ y.spare = x.spare /\ y.slots = x.slots
      /\ y.s = x.s /\ y.stream = x.stream /\ y.task = x.task /\ y.timer = x.timer
      /\ y.drain = x.drain /\ y.draining = x.draining /\ y.phase = x.phase
      /\ y.step = x.step /\ y.reaper = x.reaper
  BY DEF Same, FieldNames
<1>2. CASE Late(x)
  <2>1. Sound(x) /\ "DELTA" \notin x.flags
    BY <1>2 DEF Good, Ended, Left
  <2>2. Streams(y)
    BY <1>1, <2>1 DEF Streams, Sound
  <2>3. Same(x, y, Minor \cup {"flags", "wal", "post", "disk", "drain", "draining", "exits",
                               "s", "stream"})
    BY DEF Same
  <2> QED BY <1>1, <1>2, <2>1, <2>2, <2>3, LateLike DEF Sound
<1>3. CASE ~Late(x)
  <2>1. Works(x)
    BY <1>3 DEF Good
  <2>2. Same(x, y, Beside)
    BY DEF Same, Beside
  <2>3. CallNames(y) = CallNames(x) /\ Len(y.slots) <= Calls
    BY <1>1, <2>1 DEF CallNames, Works, Going, Base, Sound
  <2> QED BY <1>1, <2>1, <2>2, <2>3, WorksLike
<1> QED BY <1>2, <1>3

\* The journal's writer.
LEMMA JournalWriteKeeps ==
  ASSUME NEW x, Good(x), x.wal # <<>>, NEW ok \in BOOLEAN
  PROVE  LET w == Head(x.wal)
             put == x.post \cup {[what |-> "wrote", who |-> w.who,
                                  how |-> IF ok THEN "ok" ELSE "error"]}
         IN  Good([x EXCEPT !.wal = Tail(@),
                     !.disk = IF ok THEN @ \cup {[w EXCEPT !.kind = "done"]} ELSE @,
                     !.post = IF w.who = NoName THEN @ ELSE put])
<1> DEFINE w == Head(x.wal)
           p == [what |-> "wrote", who |-> w.who, how |-> IF ok THEN "ok" ELSE "error"]
           l == Tail(x.wal)
           d == IF ok THEN x.disk \cup {[w EXCEPT !.kind = "done"]} ELSE x.disk
           po == IF w.who = NoName THEN x.post ELSE x.post \cup {p}
           y == [x EXCEPT !.wal = l, !.disk = d, !.post = po]
<1>1. x \in Struct /\ Posted(x)
  BY DEF Good, Works, Going, Base, Sound
<1>2. x.wal \in Seq(Entry) /\ x.disk \subseteq Entry /\ x.post \subseteq Mail
  BY <1>1, Fields
<1>3. /\ w \in Entry /\ w = x.wal[1] /\ 1 \in DOMAIN x.wal
      /\ l \in Seq(Entry) /\ \A i \in DOMAIN l : i + 1 \in DOMAIN x.wal /\ l[i] = x.wal[i + 1]
  BY <1>2
<1>4. w.who = NoName \/ (w.who \in Name /\ w.who.what \in Awaits /\ w.who.life <= x.life)
  BY <1>1, <1>3 DEF Posted, Entry
<1>5. [w EXCEPT !.kind = "done"] \in Entry
  BY <1>3 DEF Entry
<1>6. ASSUME w.who # NoName
      PROVE  /\ p \in Mail /\ p.what = "wrote" /\ p.who = w.who /\ p.how \in {"ok", "error"}
  BY <1>4, <1>6 DEF Mail
<1>7. l \in WalSeq /\ d \in DiskSet /\ po \in MailSet
  BY <1>2, <1>3, <1>5, <1>6 DEF WalSeq, DiskSet, MailSet
<1>8. \A q \in po : q \in x.post \/ (w.who # NoName /\ q = p)
  OBVIOUS
<1>9. x.post \subseteq po
  OBVIOUS
<1>10. [x EXCEPT !.wal = Tail(@),
                 !.disk = IF ok THEN @ \cup {[w EXCEPT !.kind = "done"]} ELSE @,
                 !.post = IF w.who = NoName THEN @ ELSE x.post \cup {p}] = y
  BY <1>1 DEF Struct
<1> HIDE DEF l, d, po, p, w
<1>11. y \in Struct
  BY <1>1, <1>7 DEF Struct
<1>12. Same(x, y, {"wal", "disk", "post"}) /\ y.wal = l /\ y.post = po
  BY <1>1, Domain DEF Same, FieldNames
<1> HIDE DEF y
<1>13. y.life = x.life /\ y.turn = x.turn /\ y.spare = x.spare
  BY <1>12 DEF Same, FieldNames
<1>14. Posted(y)
  <2>1. ASSUME NEW q \in y.post
        PROVE  /\ q.what \in {"delta", "done"} <=> q.who.what = "call"
               /\ q.what = "wrote" <=> q.who.what \in Awaits
               /\ q.what = "roster" <=> q.who.what = "roster"
               /\ q.what = "record" <=> q.who.what = "record"
               /\ q.what = "done" => q.how \in Hows
               /\ q.what = "delta" => q.how = ""
               /\ q.who.life <= y.life
               /\ q.who.what = "call" /\ q.who.life = y.life /\ ~y.spare =>
                    q.who.turn <= y.turn
    <3>1. CASE q \in x.post
      BY <1>1, <1>13, <3>1 DEF Posted
    <3>2. CASE w.who # NoName /\ q = p
      <4>1. q.what = "wrote" /\ q.who = w.who /\ q.who.what \in Awaits /\ q.who.life <= x.life
        BY <1>4, <1>6, <3>2
      <4> QED BY <1>13, <4>1 DEF Awaits
    <3> QED BY <1>8, <1>12, <3>1, <3>2
  <2>2. ASSUME NEW i \in DOMAIN y.wal, y.wal[i].who # NoName
        PROVE  y.wal[i].who.what \in Awaits /\ y.wal[i].who.life <= y.life
    <3>1. i + 1 \in DOMAIN x.wal /\ y.wal[i] = x.wal[i + 1]
      BY <1>3, <1>12
    <3> QED BY <1>1, <1>13, <2>2, <3>1 DEF Posted
  <2> QED BY <2>1, <2>2 DEF Posted
<1>15. ASSUME NEW m \in CallNames(x), NEW what \in {"done", "delta"}
       PROVE  Word(x, m, what) <=> Word(y, m, what)
  <2>1. ASSUME NEW q \in y.post, q.what = what PROVE q \in x.post
    BY <1>6, <1>8, <1>12, <2>1
  <2> QED BY <1>9, <1>12, <2>1 DEF Word
<1>16. Same(x, y, {"wal", "post", "disk"})
  BY <1>12 DEF Same
<1>17. Good(y)
  BY <1>11, <1>14, <1>15, <1>16, AsideKeeps
<1> QED BY <1>10, <1>17 DEF w, p

\* The roster and the ledger, when another request asks them to.
LEMMA CancelsKeep ==
  ASSUME NEW x, Good(x), NEW m \in x.names, m.what \in {"roster", "record"}
  PROVE  Good([x EXCEPT !.post = @ \cup {[what |-> m.what, who |-> m, how |-> ""]}])
<1> DEFINE p == [what |-> m.what, who |-> m, how |-> ""]
           po == x.post \cup {p}
           y == [x EXCEPT !.post = po]
<1>1. x \in Struct /\ Posted(x) /\ Names(x)
  BY DEF Good, Works, Going, Base, Sound
<1>2. p \in Mail
  BY <1>1, Fields DEF Mail
<1>3. /\ p.what = m.what /\ p.who = m
      /\ p.what \in {"roster", "record"} /\ p.who.life <= x.life
  BY <1>1, Fields, Given DEF Names
<1>4. po \in MailSet
  BY <1>1, <1>2, Fields DEF MailSet
<1>5. x.post \subseteq po /\ \A q \in po : q \in x.post \/ q = p
  OBVIOUS
<1> HIDE DEF po
<1>6. y \in Struct
  BY <1>1, <1>4 DEF Struct
<1>7. Same(x, y, {"post"}) /\ y.post = po
  BY <1>1, Domain DEF Same, FieldNames
<1> HIDE DEF y
<1>8. y.life = x.life /\ y.turn = x.turn /\ y.spare = x.spare /\ y.wal = x.wal
  BY <1>7 DEF Same, FieldNames
<1>9. Posted(y)
  <2>1. y.post = x.post \cup {p}
    BY <1>7 DEF po
  <2> HIDE DEF p
  <2>2. /\ p.what \in {"delta", "done"} <=> p.who.what = "call"
        /\ p.what = "wrote" <=> p.who.what \in Awaits
        /\ p.what = "roster" <=> p.who.what = "roster"
        /\ p.what = "record" <=> p.who.what = "record"
        /\ p.what = "done" => p.how \in Hows
        /\ p.what = "delta" => p.how = ""
        /\ p.who.what # "call"
    BY <1>3 DEF Awaits
  <2> QED BY <1>1, <1>2, <1>3, <1>8, <2>1, <2>2, PostIs
<1>10. ASSUME NEW n \in CallNames(x), NEW what \in {"done", "delta"}
       PROVE  Word(x, n, what) <=> Word(y, n, what)
  <2>1. ASSUME NEW q \in y.post, q.what = what PROVE q \in x.post
    BY <1>3, <1>5, <1>7, <2>1
  <2> QED BY <1>5, <1>7, <2>1 DEF Word
<1>11. Same(x, y, {"wal", "post", "disk"})
  BY <1>7 DEF Same
<1>12. Good(y)
  BY <1>6, <1>9, <1>10, <1>11, AsideKeeps
<1> QED BY <1>12 DEF y, po

\* mcp_drain().
LEMMA DrainsKeep ==
  ASSUME NEW x, Good(x), NEW y \in Struct, Same(x, y, {"drain", "draining"}),
         y.drain => y.draining, x.draining => y.draining
  PROVE  Good(y)
<1>1. /\ y.names = x.names /\ y.flags = x.flags /\ y.spare = x.spare /\ y.slots = x.slots
      /\ y.s = x.s /\ y.stream = x.stream /\ y.task = x.task /\ y.timer = x.timer
      /\ y.step = x.step /\ y.reaper = x.reaper /\ y.life = x.life /\ y.home = x.home
      /\ y.job = x.job /\ y.admitted = x.admitted /\ y.phase = x.phase /\ y.hook = x.hook
      /\ y.turn = x.turn /\ y.recs = x.recs /\ y.post = x.post /\ y.wal = x.wal
      /\ y.gone = x.gone /\ y.listed = x.listed /\ y.opt = x.opt /\ y.promote = x.promote
  BY DEF Same, FieldNames
<1>2. Sound(x)
  BY DEF Good, Works, Going, Base
<1>3. Posted(y) /\ Streams(y)
  BY <1>1, <1>2, PostedSame DEF Sound, Streams
<1>4. CASE Late(x)
  <2>1. "DELTA" \notin x.flags
    BY <1>4 DEF Good, Ended, Left
  <2>2. Same(x, y, Minor \cup {"flags", "wal", "post", "disk", "drain", "draining", "exits",
                               "s", "stream"})
    BY DEF Same
  <2> QED BY <1>1, <1>3, <1>4, <2>1, <2>2, LateLike
<1>5. CASE ~Late(x)
  <2>1. Works(x) /\ Going(x) /\ Base(x)
    BY <1>5 DEF Good, Works, Going
  <2>2. Names(y)
    <3>1. Waiting(y) = Waiting(x)
      BY <1>1 DEF Waiting
    <3>2. ASSUME NEW m \in y.names
          PROVE  /\ m.life = y.life
                 /\ m.what = "record" => m.n \in {y.task, y.admitted} \ {0} /\ m.turn = 0
                 /\ m.what = "finished" => y.phase = "END"
                 /\ m.what \in Awaits \ {"finished"} =>
                      y.phase = "JOURNAL" \/ (y.phase = "SEND" /\ y.draining)
                 /\ m.what \in {"submitted", "intended"} => y.turn < MaxTurns
      BY <1>1, <1>2 DEF Sound, Names
    <3> QED BY <1>2, <3>1, <3>2 DEF Sound, Names
  <2>3. Owns(y)
    BY <1>1, <1>2 DEF Sound, Owns
  <2>4. Sound(y)
    BY <1>1, <1>2, <1>3, <2>2, <2>3 DEF Sound
  <2>5. Base(y)
    BY <1>1, <2>1, <2>4 DEF Base
  <2>6. Going(y)
    BY <1>1, <2>1, <2>5 DEF Going
  <2>7. Calling(y)
    BY <1>1, <2>1, CallingLike DEF Works, CallNames, Word
  <2>8. Untouched(x) => Untouched(y)
    BY <1>1 DEF Untouched
  <2>9. Works(y)
    BY <1>1, <2>1, <2>6, <2>7, <2>8 DEF Works
  <2> QED BY <1>1, <1>5, <2>9 DEF Good, Late
<1> QED BY <1>4, <1>5

\* mcp_drain_step().
LEMMA DrainStepKeeps ==
  ASSUME NEW x, Good(x), x.drain, NEW c
  PROVE  Good(IF x.hook = "calls" THEN Fail(x, c) ELSE [x EXCEPT !.drain = FALSE])
<1>1. x \in Struct /\ x.draining = TRUE
  <2>1. Sound(x) /\ x \in Struct
    BY DEF Good, Works, Going, Base, Sound
  <2> QED BY <2>1, Fields DEF Sound
<1>2. CASE x.hook = "calls"
  <2>1. ~Late(x)
    BY <1>2 DEF Good, Late, Ended
  <2>2. Works(x) /\ Going(x)
    BY <2>1 DEF Good, Works
  <2>3. x.phase \notin Sent
    BY <1>2, <2>1, <2>2 DEF Late, Works, Sent
  <2> QED BY <1>1, <1>2, <2>2, <2>3, FailKeeps
<1>3. CASE x.hook # "calls"
  <2> DEFINE y == [x EXCEPT !.drain = FALSE]
  <2>1. y \in Struct
    BY <1>1 DEF Struct, Bool
  <2>2. Same(x, y, {"drain"}) /\ y.drain = FALSE
    BY <1>1, Domain DEF Same, FieldNames
  <2> HIDE DEF y
  <2>3. Same(x, y, {"drain", "draining"}) /\ y.draining = x.draining
    BY <2>2 DEF Same, FieldNames
  <2>4. Good(y)
    BY <2>1, <2>2, <2>3, DrainsKeep
  <2> QED BY <1>3, <2>4 DEF y
<1> QED BY <1>2, <1>3

-----------------------------------------------------------------------------
(* The messages that reach the request, or do not.                         *)

LEMMA TakenIs ==
  ASSUME NEW x, Good(x), NEW m \in x.post
  PROVE  LET y == [x EXCEPT !.post = @ \ {m}] IN
         /\ y \in Struct /\ Same(x, y, {"post"}) /\ y.post = x.post \ {m} /\ Posted(y)
         /\ m.who \notin x.names \/ m.what \notin {"done", "delta"} => Good(y)
<1> DEFINE po == x.post \ {m}
           y == [x EXCEPT !.post = po]
<1>1. x \in Struct /\ Posted(x)
  BY DEF Good, Works, Going, Base, Sound
<1>2. po \in MailSet
  BY <1>1, Fields DEF MailSet
<1> HIDE DEF po
<1>3. y \in Struct
  BY <1>1, <1>2 DEF Struct
<1>4. Same(x, y, {"post"}) /\ y.post = po
  BY <1>1, Domain DEF Same, FieldNames
<1> HIDE DEF y
<1>5. y.life = x.life /\ y.turn = x.turn /\ y.spare = x.spare /\ y.wal = x.wal
  BY <1>4 DEF Same, FieldNames
<1>6. Posted(y)
  BY <1>1, <1>4, <1>5, ZenonT(40) DEF Posted, po
<1>7. ASSUME m.who \notin x.names \/ m.what \notin {"done", "delta"} PROVE Good(y)
  <2>1. ASSUME NEW n \in CallNames(x), NEW what \in {"done", "delta"}
        PROVE  Word(x, n, what) <=> Word(y, n, what)
    <3>1. n \in x.names
      BY DEF CallNames
    <3>2. m.who # n \/ m.what # what
      BY <1>7, <3>1
    <3> QED BY <1>4, <3>2 DEF Word, po
  <2>2. Same(x, y, {"wal", "post", "disk"})
    BY <1>4 DEF Same
  <2> QED BY <1>3, <1>6, <2>1, <2>2, AsideKeeps
<1> QED BY <1>3, <1>4, <1>6, <1>7 DEF y, po

\* A message of the job's finds a request that awaits it.
LEMMA Awaited ==
  ASSUME NEW x, Good(x), NEW m \in x.post, m.who \in x.names, m.what \in {"done", "delta"}
  PROVE  /\ Works(x) /\ Asked(x) /\ x.phase = "CALL" /\ CallNames(x) = {m.who}
         /\ m.who.what = "call" /\ m.who.turn = x.turn
         /\ "DELTA" \notin x.flags
         /\ m.what = "done" => x.home = {} /\ m.how \in Hows
         /\ m.what = "delta" => \E d \in BOOLEAN :
              x.home = {[name |-> m.who, at |-> "held", durable |-> d]}
         /\ m.what = "delta" => /\ ~Word([x EXCEPT !.post = @ \ {m}], m.who, "done")
                                /\ ~Word([x EXCEPT !.post = @ \ {m}], m.who, "delta")
<1>1. Sound(x) /\ x \in Struct /\ Posted(x)
  BY DEF Good, Works, Going, Base, Sound
<1>2. m.who.what = "call" /\ (m.what = "done" => m.how \in Hows)
  BY <1>1 DEF Posted
<1>3. ~Late(x)
  BY <1>2 DEF Good, Late, Ended
<1>4. m.who \in CallNames(x)
  BY <1>2 DEF CallNames
<1>5. Works(x) /\ Asked(x) /\ x.phase = "CALL"
  BY <1>2, <1>3, <1>4 DEF Good, Works, Calling, Quiet, Parked, Asked
<1>6. PICK n \in x.names :
        /\ CallNames(x) = {n} /\ n.what = "call" /\ n.turn = x.turn
        /\ Word(x, n, "done") => ~Word(x, n, "delta")
        /\ Word(x, n, "done") => x.home = {} /\ "DELTA" \notin x.flags
        /\ ~Word(x, n, "done") => \E d \in BOOLEAN, at \in {"runs", "held"} :
             /\ x.home = {[name |-> n, at |-> at, durable |-> d]}
             /\ Word(x, n, "delta") => at = "held" /\ "DELTA" \notin x.flags
             /\ "DELTA" \in x.flags => at = "held" /\ "SSE" \in x.flags
  BY <1>5 DEF Asked
<1>7. n = m.who
  BY <1>4, <1>6
<1>8. Word(x, n, m.what)
  BY <1>7 DEF Word
<1>9. CASE m.what = "done"
  <2>1. Word(x, n, "done") /\ x.home = {} /\ "DELTA" \notin x.flags
    BY <1>6, <1>8, <1>9
  <2> QED BY <1>2, <1>5, <1>6, <1>7, <1>9, <2>1
<1>10. CASE m.what = "delta"
  <2>1. Word(x, n, "delta") /\ ~Word(x, n, "done")
    BY <1>6, <1>8, <1>10
  <2>2. PICK d \in BOOLEAN, at \in {"runs", "held"} :
          /\ x.home = {[name |-> n, at |-> at, durable |-> d]}
          /\ at = "held" /\ "DELTA" \notin x.flags
    BY <1>6, <2>1
  <2>3. \E e \in BOOLEAN : x.home = {[name |-> m.who, at |-> "held", durable |-> e]}
    BY <1>7, <2>2
  <2>4. [x EXCEPT !.post = @ \ {m}].post = x.post \ {m}
    BY <1>1, Domain DEF FieldNames
  <2>5. ~Word([x EXCEPT !.post = @ \ {m}], m.who, "done")
    BY <1>7, <2>1, <2>4 DEF Word
  <2>6. ~Word([x EXCEPT !.post = @ \ {m}], m.who, "delta")
    <3>1. ASSUME NEW p \in x.post, p.who = m.who, p.what = "delta" PROVE p = m
      <4>1. p \in Mail /\ m \in Mail
        BY <1>1, Fields
      <4>2. p.how = "" /\ m.how = ""
        BY <1>1, <1>10, <3>1 DEF Posted
      <4>3. /\ p = [what |-> p.what, who |-> p.who, how |-> p.how]
            /\ m = [what |-> m.what, who |-> m.who, how |-> m.how]
        BY <4>1 DEF Mail
      <4> QED BY <1>10, <3>1, <4>2, <4>3
    <3> QED BY <2>4, <3>1 DEF Word
  <2> QED BY <1>2, <1>5, <1>6, <1>7, <1>10, <2>2, <2>3, <2>5, <2>6
<1> QED BY <1>9, <1>10

\* mcp_on_job() of a delta.
LEMMA OnDeltaKeeps ==
  ASSUME NEW x, Good(x), NEW m \in x.post, m.who \in x.names, m.what = "delta"
  PROVE  Good(OnDelta([x EXCEPT !.post = @ \ {m}]))
<1> DEFINE y == [x EXCEPT !.post = @ \ {m}]
<1>1. y \in Struct /\ Same(x, y, {"post"}) /\ Posted(y)
  BY TakenIs
<1>2. /\ Works(x) /\ Asked(x) /\ x.phase = "CALL" /\ CallNames(x) = {m.who}
      /\ m.who.what = "call" /\ m.who.turn = x.turn
      /\ ~Word(y, m.who, "done") /\ ~Word(y, m.who, "delta")
  BY Awaited
<1>3. PICK d \in BOOLEAN : x.home = {[name |-> m.who, at |-> "held", durable |-> d]}
  BY Awaited
<1>4. m.who \in Name /\ m.who.life = x.life /\ x.job = "waits"
  BY <1>2, Fields DEF Works, Going, Base, Sound, Names, Asked
<1> HIDE DEF y
<1>5. /\ y.names = x.names /\ y.flags = x.flags /\ y.job = x.job /\ y.phase = x.phase
      /\ y.home = x.home /\ y.turn = x.turn /\ y.life = x.life /\ y.wal = x.wal
      /\ y.spare = x.spare
  BY <1>1 DEF Same, FieldNames
<1>6. SUFFICES Good(OnDelta(y))
  BY DEF y
<1>7. CASE "SSE" \in x.flags
  <2> DEFINE f == y.flags \cup {"DELTA"}
             a == [y EXCEPT !.flags = f]
             z == Ready(a)
  <2>1. OnDelta(y) = z
    BY <1>5, <1>7 DEF OnDelta
  <2>2. /\ f \in FlagSet /\ "SSE" \in f
        /\ "DETACH_PENDING" \in f => "DETACH_PENDING" \in x.flags
    BY <1>1, <1>5, <1>7, Fields DEF FlagSet, Flag
  <2> HIDE DEF f
  <2>3. a \in Struct
    BY <1>1, <2>2 DEF Struct
  <2>4. Same(y, a, {"flags"}) /\ a.flags = f
    BY <1>1, Domain DEF Same, FieldNames
  <2> HIDE DEF a
  <2>5. z \in Struct /\ Same(a, z, {"step"})
    BY <2>3, ReadyIs
  <2> HIDE DEF z
  <2>6. Same(x, z, {"home", "flags", "step", "post"}) /\ z.flags = f /\ z.post = y.post
    BY <1>1, <2>4, <2>5 DEF Same, FieldNames
  <2>7. /\ z.names = x.names /\ z.job = x.job /\ z.phase = x.phase
        /\ z.home = x.home /\ z.turn = x.turn /\ z.life = x.life /\ z.wal = x.wal
        /\ z.spare = x.spare
    BY <1>5, <2>4, <2>5 DEF Same, FieldNames
  <2>8. Posted(z)
    BY <1>1, <1>5, <2>6, <2>7, PostedSame
  <2>9. Asked(z)
    <3>1. CallNames(z) = {m.who} /\ m.who \in z.names /\ m.who.turn = z.turn
      BY <1>2, <2>7 DEF CallNames
    <3>2. ~Word(z, m.who, "delta") /\ ~Word(z, m.who, "done")
      BY <1>2, <2>6 DEF Word
    <3>3. z.job = "waits" /\ z.phase = "CALL" /\ "SSE" \in z.flags
          /\ z.home = {[name |-> m.who, at |-> "held", durable |-> d]}
      BY <1>2, <1>3, <1>4, <2>2, <2>6, <2>7
    <3> QED BY <1>2, <3>1, <3>2, <3>3 DEF Asked
  <2>10. \A j \in z.home : j.name.life = x.life
    BY <1>3, <1>4, <2>7
  <2>11. Good(z)
    BY <1>2, <2>2, <2>5, <2>6, <2>8, <2>9, <2>10, HomeKeeps
  <2> QED BY <2>1, <2>11
<1>8. CASE "SSE" \notin x.flags
  <2> DEFINE h == {[j EXCEPT !.at = "runs"] : j \in y.home}
             z == [y EXCEPT !.home = h]
  <2>1. OnDelta(y) = z
    BY <1>5, <1>8 DEF OnDelta
  <2>2. h = {[name |-> m.who, at |-> "runs", durable |-> d]}
    BY <1>3, <1>5
  <2>3. h \in HomeSet /\ \A j \in h : j.name.life = x.life
    BY <1>4, <2>2 DEF HomeSet, HomeJob
  <2> HIDE DEF h
  <2>4. z \in Struct
    BY <1>1, <2>3 DEF Struct
  <2>5. Same(y, z, {"home"}) /\ z.home = h
    BY <1>1, Domain DEF Same, FieldNames
  <2> HIDE DEF z
  <2>6. Same(x, z, {"home", "flags", "step", "post"}) /\ z.post = y.post
    BY <1>1, <2>5 DEF Same, FieldNames
  <2>7. /\ z.names = x.names /\ z.job = x.job /\ z.phase = x.phase /\ z.flags = x.flags
        /\ z.turn = x.turn /\ z.life = x.life /\ z.wal = x.wal
        /\ z.spare = x.spare
    BY <1>5, <2>5 DEF Same, FieldNames
  <2>8. Posted(z)
    BY <1>1, <1>5, <2>6, <2>7, PostedSame
  <2>9. Asked(z)
    <3>1. CallNames(z) = {m.who} /\ m.who \in z.names /\ m.who.turn = z.turn
      BY <1>2, <2>7 DEF CallNames
    <3>2. ~Word(z, m.who, "delta") /\ ~Word(z, m.who, "done")
      BY <1>2, <2>6 DEF Word
    <3>3. "DELTA" \notin x.flags
      BY Awaited
    <3>4. z.job = "waits" /\ z.phase = "CALL" /\ "DELTA" \notin z.flags
          /\ z.home = {[name |-> m.who, at |-> "runs", durable |-> d]}
      BY <1>2, <1>4, <2>2, <2>5, <2>7, <3>3
    <3> QED BY <1>2, <3>1, <3>2, <3>4 DEF Asked
  <2>10. Good(z)
    BY <1>2, <2>3, <2>4, <2>5, <2>6, <2>7, <2>8, <2>9, HomeKeeps
  <2> QED BY <2>1, <2>10
<1> QED BY <1>7, <1>8

\* A request that has let go of its job is still going.
LEMMA PostGoing ==
  ASSUME NEW x, Going(x), NEW y \in Struct, Same(x, y, {"post"}), Posted(y)
  PROVE  Going(y)
<1>1. /\ y.spare = x.spare /\ y.life = x.life /\ y.names = x.names /\ y.phase = x.phase
      /\ y.recs = x.recs /\ y.wal = x.wal /\ y.home = x.home /\ y.job = x.job
      /\ y.flags = x.flags
      /\ y.turn = x.turn /\ y.draining = x.draining /\ y.s = x.s /\ y.stream = x.stream
      /\ y.drain = x.drain /\ y.opt = x.opt /\ y.task = x.task /\ y.slots = x.slots
      /\ y.gone = x.gone /\ y.admitted = x.admitted /\ y.hook = x.hook
      /\ y.promote = x.promote /\ y.listed = x.listed
  BY DEF Same, FieldNames
<1>2. Base(x) /\ Sound(x)
  BY DEF Going, Base
<1>3. Names(y) /\ Owns(y) /\ Streams(y)
  BY <1>1, <1>2 DEF Sound, Names, Waiting, Owns, Streams
<1>4. Sound(y)
  BY <1>1, <1>2, <1>3 DEF Sound
<1>5. Base(y)
  BY <1>1, <1>2, <1>4 DEF Base
<1> QED BY <1>1, <1>5 DEF Going

LEMMA OnDoneKeeps ==
  ASSUME NEW x, Good(x), NEW m \in x.post, m.who \in x.names, m.what = "done", NEW c
  PROVE  Good(JobDone([x EXCEPT !.post = @ \ {m}], c, m.how))
<1> DEFINE y == [x EXCEPT !.post = @ \ {m}]
<1>1. y \in Struct /\ Same(x, y, {"post"}) /\ Posted(y)
  BY TakenIs
<1>2. /\ Works(x) /\ Asked(x) /\ x.phase = "CALL" /\ CallNames(x) = {m.who}
      /\ m.who.what = "call" /\ x.home = {} /\ m.how \in Hows /\ "DELTA" \notin x.flags
  BY Awaited
<1> HIDE DEF y
<1>3. Going(y)
  BY <1>1, <1>2, PostGoing DEF Works
<1>4. /\ y.names = x.names /\ y.flags = x.flags /\ y.job = x.job /\ y.phase = x.phase
      /\ y.home = x.home
  BY <1>1 DEF Same, FieldNames
<1>5. Told(y)
  BY <1>2, <1>3, <1>4 DEF Told, Asked, CallNames
<1>6. Good(JobDone(y, c, m.how))
  BY <1>2, <1>5, JobDoneKeeps
<1> QED BY <1>6 DEF y

\* mcp_on_withdraw().
LEMMA OnWithdrawKeeps ==
  ASSUME NEW x, Good(x), x.names # {}, NEW c
  PROVE  Good(OnWithdraw(x, c))
<1>1. CASE x.phase \notin Working
  BY <1>1 DEF OnWithdraw
<1>2. CASE x.phase \in Working
  <2> DEFINE f == x.flags \cup {"WITHDRAWN"}
             y == [x EXCEPT !.flags = f]
  <2>1. ~Late(x)
    BY <1>2 DEF Good, Late, Ended, Working
  <2>2. Going(x) /\ x \in Struct
    BY <2>1 DEF Good, Works, Going, Base, Sound
  <2>3. /\ f \in FlagSet
        /\ "DELTA" \in f => "DELTA" \in x.flags
        /\ "DETACH_PENDING" \in f => "DETACH_PENDING" \in x.flags
    BY <2>2, Fields DEF FlagSet, Flag
  <2>4. OnWithdraw(x, c) = ReqFinish(y, c)
    BY <1>2 DEF OnWithdraw
  <2> HIDE DEF f
  <2>5. y \in Struct
    BY <2>2, <2>3 DEF Struct
  <2>6. Same(x, y, {"flags"}) /\ y.flags = f
    BY <2>2, Domain DEF Same, FieldNames
  <2> HIDE DEF y
  <2>7. /\ y.names = x.names /\ y.home = x.home /\ y.job = x.job /\ y.phase = x.phase
        /\ y.promote = x.promote /\ y.slots = x.slots /\ y.hook = x.hook
        /\ y.drain = x.drain
    BY <2>6 DEF Same, FieldNames
  <2>8. Same(x, y, Minor \cup Moved)
    BY <2>6 DEF Same, Moved
  <2>9. MayMove(x, y)
    BY <2>3, <2>5, <2>6, <2>7, <2>8 DEF MayMove
  <2>10. Base(y)
    BY <2>2, <2>9, GoingMoves DEF Going
  <2> QED BY <2>4, <2>10, FinishKeeps
<1> QED BY <1>1, <1>2

\* A call is cancelled by its record.
LEMMA OnRecordKeeps ==
  ASSUME NEW x, Good(x), x.names # {}, NEW c
  PROVE  Good(Abort(x, c, "cancelled"))
<1>1. CASE Late(x)
  <2>1. Sound(x) /\ Ended(x) /\ ~x.spare /\ x.phase = "END"
    BY <1>1 DEF Good, Late, Ended
  <2>2. Base(x)
    BY <2>1, EndBase
  <2> QED BY <2>2, AbortKeeps
<1>2. CASE ~Late(x)
  BY <1>2, AbortGood DEF Good, Works
<1> QED BY <1>1, <1>2

\* mcp_on_job(), mcp_archive_back(), mcp_on_withdraw() and ledger_cancel().
LEMMA DeliverKeeps ==
  ASSUME NEW x, Good(x), NEW m \in x.post, NEW c
  PROVE  LET y == [x EXCEPT !.post = @ \ {m}] IN
         Good(CASE m.who \notin y.names -> y
                [] m.who \in y.names /\ m.what = "wrote" ->
                     Wrote(Forget(y, {m.who}), c, m.who, m.how = "ok")
                [] m.who \in y.names /\ m.what = "delta" -> OnDelta(y)
                [] m.who \in y.names /\ m.what = "done" -> JobDone(y, c, m.how)
                [] m.who \in y.names /\ m.what = "roster" -> OnWithdraw(y, c)
                [] m.who \in y.names /\ m.what = "record" -> Abort(y, c, "cancelled"))
<1> DEFINE y == [x EXCEPT !.post = @ \ {m}]
<1>1. /\ y \in Struct /\ Same(x, y, {"post"})
      /\ m.who \notin x.names \/ m.what \notin {"done", "delta"} => Good(y)
  BY TakenIs
<1>2. m.what = "delta" /\ m.who \in x.names => Good(OnDelta(y))
  BY OnDeltaKeeps
<1>3. m.what = "done" /\ m.who \in x.names => Good(JobDone(y, c, m.how))
  BY OnDoneKeeps
<1> HIDE DEF y
<1>4. y.names = x.names
  BY <1>1 DEF Same, FieldNames
<1>5. Posted(x) /\ x \in Struct
  BY DEF Good, Works, Going, Base, Sound
<1>6. ASSUME m.what = "wrote", m.who \in x.names
      PROVE  Good(Wrote(Forget(y, {m.who}), c, m.who, m.how = "ok"))
  <2>1. m.who.what \in Awaits
    BY <1>5, <1>6 DEF Posted
  <2> QED BY <1>1, <1>4, <1>6, <2>1, WroteKeeps
<1>7. m.what = "roster" /\ m.who \in x.names => Good(OnWithdraw(y, c))
  BY <1>1, <1>4, OnWithdrawKeeps
<1>8. m.what = "record" /\ m.who \in x.names => Good(Abort(y, c, "cancelled"))
  BY <1>1, <1>4, OnRecordKeeps
<1>9. m.what \in {"wrote", "delta", "done", "roster", "record"}
  BY <1>5, Fields DEF Mail
<1>10. Good(CASE m.who \notin y.names -> y
              [] m.who \in y.names /\ m.what = "wrote" ->
                   Wrote(Forget(y, {m.who}), c, m.who, m.how = "ok")
              [] m.who \in y.names /\ m.what = "delta" -> OnDelta(y)
              [] m.who \in y.names /\ m.what = "done" -> JobDone(y, c, m.how)
              [] m.who \in y.names /\ m.what = "roster" -> OnWithdraw(y, c)
              [] m.who \in y.names /\ m.what = "record" -> Abort(y, c, "cancelled"))
  BY <1>1, <1>2, <1>3, <1>4, <1>6, <1>7, <1>8, <1>9
<1> QED BY <1>10 DEF y

-----------------------------------------------------------------------------
(* The client goes, or askai does.                                         *)

\* What can be cancelled or destroyed: the request, but for its messages, or
\* what is left of it.
Endable(x) ==
  \/ Base(x) /\ x.phase # "END" /\ x.s \in {"client", "stand"}
  \/ Good(x) /\ Late(x)

LEMMA GoodEndable ==
  ASSUME NEW x, Good(x)
  PROVE  Endable(x)
BY DEF Good, Works, Going, Endable

LEMMA BaseLike ==
  ASSUME NEW x, Base(x), NEW y \in Struct, Posted(y), Streams(y),
         Same(x, y, {"s", "stream", "post", "draining", "exits"}), x.draining => y.draining
  PROVE  Base(y)
<1>1. /\ y.spare = x.spare /\ y.life = x.life /\ y.names = x.names /\ y.phase = x.phase
      /\ y.recs = x.recs /\ y.wal = x.wal /\ y.home = x.home /\ y.job = x.job
      /\ y.flags = x.flags /\ y.turn = x.turn /\ y.drain = x.drain /\ y.task = x.task
      /\ y.slots = x.slots /\ y.gone = x.gone /\ y.admitted = x.admitted
      /\ y.listed = x.listed
  BY DEF Same, FieldNames
<1>2. Sound(x)
  BY DEF Base
<1>3. Names(y)
  <2>1. Waiting(y) = Waiting(x)
    BY <1>1 DEF Waiting
  <2>2. ASSUME NEW m \in y.names
        PROVE  /\ m.life = y.life
               /\ m.what = "record" => m.n \in {y.task, y.admitted} \ {0} /\ m.turn = 0
               /\ m.what = "finished" => y.phase = "END"
               /\ m.what \in Awaits \ {"finished"} =>
                    y.phase = "JOURNAL" \/ (y.phase = "SEND" /\ y.draining)
               /\ m.what \in {"submitted", "intended"} => y.turn < MaxTurns
    BY <1>1, <1>2 DEF Sound, Names
  <2> QED BY <1>2, <2>1, <2>2 DEF Sound, Names
<1>4. Owns(y)
  BY <1>1, <1>2 DEF Sound, Owns
<1>5. Sound(y)
  BY <1>1, <1>2, <1>3, <1>4 DEF Sound
<1> QED BY <1>1, <1>5 DEF Base

LEMMA EndableLike ==
  ASSUME NEW x, Endable(x), NEW y \in Struct, Posted(y),
         Same(x, y, {"post", "draining", "exits"}), x.draining => y.draining
  PROVE  Endable(y) /\ (Late(x) => Late(y))
<1>1. /\ y.spare = x.spare /\ y.phase = x.phase /\ y.flags = x.flags /\ y.drain = x.drain
      /\ y.s = x.s /\ y.stream = x.stream /\ y.task = x.task /\ y.timer = x.timer
      /\ y.step = x.step /\ y.reaper = x.reaper
  BY DEF Same, FieldNames
<1>2. Sound(x)
  BY DEF Endable, Base, Good
<1>3. Streams(y) /\ (y.drain => y.draining)
  BY <1>1, <1>2 DEF Sound, Streams
<1>4. CASE Good(x) /\ Late(x)
  <2>1. "DELTA" \notin x.flags
    BY <1>4 DEF Good, Ended, Left
  <2>2. Same(x, y, Minor \cup {"flags", "wal", "post", "disk", "drain", "draining", "exits",
                               "s", "stream"})
    BY DEF Same
  <2> QED BY <1>1, <1>3, <1>4, <2>1, <2>2, LateLike DEF Endable
<1>5. CASE Base(x) /\ x.phase # "END" /\ x.s \in {"client", "stand"}
  <2>1. Same(x, y, {"s", "stream", "post", "draining", "exits"})
    BY DEF Same
  <2>2. Base(y)
    BY <1>3, <1>5, <2>1, BaseLike
  <2>3. ~Late(x)
    BY <1>5 DEF Late, Base
  <2> QED BY <1>1, <1>5, <2>2, <2>3 DEF Endable
<1> QED BY <1>2, <1>4, <1>5 DEF Endable

\* mcp_on_cancel().
LEMMA CancelledKeeps ==
  ASSUME NEW x, Endable(x), ~x.spare, x.s = "client", NEW c
  PROVE  LET y == Cancelled(x, c) IN
         Good(y) /\ Late(y) /\ y.draining = x.draining
<1> DEFINE a == "none"
           b == "ended"
           y == [x EXCEPT !.s = a, !.stream = b]
<1>1. x \in Struct /\ Posted(x) /\ Sound(x)
  BY DEF Endable, Base, Good, Sound
<1>2. a \in Holder /\ b \in StreamEnd
  BY DEF Holder, StreamEnd
<1>3. Cancelled(x, c) = IF x.phase = "FREE" THEN y ELSE Abort(y, c, "cancelled")
  BY DEF Cancelled
<1>4. a # "client" /\ a # "stand" /\ b = "ended"
  OBVIOUS
<1> HIDE DEF a, b
<1>5. y \in Struct
  BY <1>1, <1>2 DEF Struct
<1>6. Same(x, y, {"s", "stream"}) /\ y.s = a /\ y.stream = b
  BY <1>1, Domain DEF Same, FieldNames
<1> HIDE DEF y
<1>7. /\ y.spare = x.spare /\ y.life = x.life /\ y.phase = x.phase /\ y.wal = x.wal
      /\ y.turn = x.turn /\ y.post = x.post /\ y.flags = x.flags /\ y.drain = x.drain
      /\ y.draining = x.draining /\ y.timer = x.timer
  BY <1>6 DEF Same, FieldNames
<1>8. Posted(y) /\ Streams(y)
  BY <1>1, <1>4, <1>6, <1>7, PostedSame DEF Streams
<1>9. CASE Good(x) /\ Late(x)
  <2>1. "DELTA" \notin x.flags /\ (x.drain => x.draining)
    BY <1>1, <1>9 DEF Good, Ended, Left, Sound
  <2>2. Same(x, y, Minor \cup {"flags", "wal", "post", "disk", "drain", "draining", "exits",
                               "s", "stream"})
    BY <1>6 DEF Same
  <2>3. Good(y) /\ Late(y)
    BY <1>5, <1>7, <1>8, <1>9, <2>1, <2>2, LateLike
  <2>4. CASE x.phase = "FREE"
    BY <1>3, <1>7, <2>3, <2>4
  <2>5. CASE x.phase # "FREE"
    <3>1. y.phase = "END" /\ ~y.spare
      BY <1>7, <1>9, <2>5 DEF Late
    <3>2. Base(y)
      BY <2>3, <3>1, EndBase DEF Good
    <3>3. LET z == Abort(y, c, "cancelled") IN
          (z = y \/ (Good(z) /\ Late(z))) /\ z.draining = y.draining
      BY <3>2, AbortKeeps
    <3> QED BY <1>3, <1>7, <2>3, <2>5, <3>3
  <2> QED BY <2>4, <2>5
<1>10. CASE Base(x) /\ x.phase # "END"
  <2>1. Same(x, y, {"s", "stream", "post", "draining", "exits"})
    BY <1>6 DEF Same
  <2>2. Base(y) /\ y.phase # "END" /\ x.phase # "FREE"
    BY <1>5, <1>7, <1>8, <1>10, <2>1, BaseLike DEF Base
  <2>3. LET z == Abort(y, c, "cancelled") IN
        Good(z) /\ Late(z) /\ z.draining = y.draining
    BY <2>2, AbortKeeps
  <2> QED BY <1>3, <1>7, <2>2, <2>3
<1> QED BY <1>9, <1>10 DEF Endable

\* mcp_destroy().
LEMMA DestroyKeeps ==
  ASSUME NEW x, Good(x), NEW c
  PROVE  LET i == [x EXCEPT !.exits = TRUE, !.post = {}]
             s == IF i.s = "client" /\ ~i.spare THEN Cancelled(i, c) ELSE i
             d == [s EXCEPT !.draining = TRUE]
             t == IF d.task # 0 THEN Abort(d, c, "failed") ELSE d
             e == IF t.hook = "ending" THEN Abort(t, c, "failed") ELSE t
         IN  Gone([(IF e.hook = "freeing" THEN ReqEnd(e) ELSE e)
                     EXCEPT !.gone = TRUE, !.wal = <<>>])
<1> DEFINE o == {}
           i == [x EXCEPT !.exits = TRUE, !.post = o]
           s == IF i.s = "client" /\ ~i.spare THEN Cancelled(i, c) ELSE i
           d == [s EXCEPT !.draining = TRUE]
           t == IF d.task # 0 THEN Abort(d, c, "failed") ELSE d
           e == IF t.hook = "ending" THEN Abort(t, c, "failed") ELSE t
           y == IF e.hook = "freeing" THEN ReqEnd(e) ELSE e
<1>1. Good(y) /\ y.spare
  <2>1. x \in Struct /\ Posted(x) /\ Endable(x)
    BY GoodEndable DEF Good, Works, Going, Base, Sound
  <2>2. o \in MailSet /\ o = {}
    BY DEF MailSet
  <2> HIDE DEF o, y
  <2>3. i \in Struct
    BY <2>1, <2>2, ZenonT(40) DEF Struct, Bool
  <2>4. Same(x, i, {"exits", "post"}) /\ i.post = o
    BY <2>1, Domain DEF Same, FieldNames
  <2> HIDE DEF i
  <2>5. /\ i.wal = x.wal /\ i.life = x.life /\ i.turn = x.turn /\ i.spare = x.spare
        /\ i.draining = x.draining
    BY <2>4 DEF Same, FieldNames
  <2>6. Posted(i)
    BY <2>1, <2>2, <2>4, <2>5 DEF Posted
  <2>7. Endable(i)
    <3>1. Same(x, i, {"post", "draining", "exits"})
      BY <2>4 DEF Same
    <3> QED BY <2>1, <2>3, <2>5, <2>6, <3>1, EndableLike
  <2>8. /\ Endable(s) /\ (Late(s) \/ s.s = "stand")
    <3>1. CASE i.s = "client" /\ ~i.spare
      <4>1. Good(Cancelled(i, c)) /\ Late(Cancelled(i, c))
        BY <2>7, <3>1, CancelledKeeps
      <4> QED BY <3>1, <4>1 DEF Endable
    <3>2. CASE ~(i.s = "client" /\ ~i.spare)
      <4>1. s = i
        BY <3>2
      <4>2. Late(i) \/ i.s = "stand"
        BY <2>7, <3>2 DEF Endable, Late, Base
      <4> QED BY <2>7, <4>1, <4>2
    <3> QED BY <3>1, <3>2
  <2> HIDE DEF s
  <2>9. s \in Struct /\ Sound(s)
    BY <2>8 DEF Endable, Base, Good, Sound
  <2>10. d \in Struct
    BY <2>9 DEF Struct, Bool
  <2>11. Same(s, d, {"draining"}) /\ d.draining = TRUE
    BY <2>9, Domain DEF Same, FieldNames
  <2> HIDE DEF d
  <2>12. /\ d.post = s.post /\ d.wal = s.wal /\ d.life = s.life /\ d.turn = s.turn
         /\ d.spare = s.spare /\ d.s = s.s /\ d.phase = s.phase
    BY <2>11 DEF Same, FieldNames
  <2>13. Endable(d) /\ (Late(d) \/ d.s = "stand")
    <3>1. Posted(d)
      BY <2>9, <2>12, PostedSame DEF Sound
    <3>2. Same(s, d, {"post", "draining", "exits"})
      BY <2>11 DEF Same
    <3> QED BY <2>8, <2>10, <2>11, <2>12, <3>1, <3>2, EndableLike
  <2>14. /\ Good(t) /\ Late(t) /\ t.draining = TRUE
         /\ t.task # 0 => t.spare \/ t.phase = "FREE"
    <3>1. CASE d.task # 0
      <4> DEFINE z == Abort(d, c, "failed")
      <4>1. Base(d)
        <5>1. CASE Good(d) /\ Late(d)
          <6>1. Sound(d) /\ Ended(d) /\ ~d.spare /\ d.phase = "END"
            BY <3>1, <5>1 DEF Good, Late, Ended
          <6> QED BY <6>1, EndBase
        <5>2. CASE Base(d)
          BY <5>2
        <5> QED BY <2>13, <5>1, <5>2 DEF Endable
      <4>2. /\ z = d \/ (Good(z) /\ Late(z))
            /\ z = d => d.phase = "END"
            /\ z.draining = d.draining /\ (z.spare \/ z.phase = "FREE")
        BY <2>11, <4>1, AbortKeeps
      <4>3. z # d
        BY <4>1, <4>2 DEF Base
      <4> HIDE DEF z
      <4>4. t = z
        BY <3>1 DEF z
      <4> QED BY <2>11, <4>2, <4>3, <4>4
    <3>2. CASE d.task = 0
      <4>1. t = d
        BY <3>2
      <4>2. Good(d) /\ Late(d)
        <5>1. CASE Good(d) /\ Late(d)
          BY <5>1
        <5>2. CASE Base(d) /\ d.phase # "END"
          <6>1. ~Late(d)
            BY <5>2 DEF Late, Base
          <6>2. d.s = "stand" /\ d.phase # "FREE" /\ Streams(d)
            BY <2>13, <5>2, <6>1 DEF Base, Sound
          <6> QED BY <3>2, <6>2 DEF Streams
        <5> QED BY <2>13, <5>1, <5>2 DEF Endable
      <4> HIDE DEF t
      <4> QED BY <2>11, <3>2, <4>1, <4>2
    <3> QED BY <3>1, <3>2
  <2> HIDE DEF t
  <2>15. Good(e) /\ Late(e) /\ (e.spare \/ e.phase = "FREE")
    <3>1. CASE t.hook = "ending"
      <4> DEFINE z == Abort(t, c, "failed")
      <4>1. Sound(t) /\ Ended(t) /\ ~t.spare /\ t.phase = "END"
        BY <2>14, <3>1 DEF Good, Late, Ended
      <4>2. /\ z = t \/ (Good(z) /\ Late(z))
            /\ z.spare \/ z.phase = "FREE"
        BY <2>14, <4>1, EndBase, AbortKeeps
      <4>3. e = z
        BY <3>1
      <4> HIDE DEF z, e
      <4> QED BY <2>14, <4>2, <4>3
    <3>2. CASE t.hook # "ending"
      <4>1. t.spare \/ t.phase = "FREE"
        BY <2>14, <3>2 DEF Good, Late, Ended
      <4>2. e = t
        BY <3>2
      <4> QED BY <2>14, <4>1, <4>2
    <3> QED BY <3>1, <3>2
  <2> HIDE DEF e
  <2>16. CASE e.hook = "freeing"
    <3>1. ~e.spare /\ e.phase = "FREE" /\ Sound(e) /\ Ended(e)
      BY <2>15, <2>16 DEF Good, Ended
    <3>2. Left(e) /\ e.names = {} /\ e.task = 0 /\ e.admitted = 0
      BY <3>1 DEF Ended
    <3>3. e.listed = 0 /\ \A r \in 1 .. MaxRecs : e.recs[r].status # "working"
      BY <3>1, <3>2 DEF Sound, Owns
    <3>4. Nothing(e)
      BY <3>1, <3>2, <3>3 DEF Nothing, Sound, Streams
    <3>5. Good(ReqEnd(e)) /\ ReqEnd(e).spare
      BY <3>4, EndKeeps
    <3> QED BY <2>16, <3>5 DEF y
  <2>17. CASE e.hook # "freeing"
    <3>1. e.spare
      BY <2>15, <2>17 DEF Good, Ended
    <3> QED BY <2>15, <2>17, <3>1 DEF y
  <2> QED BY <2>16, <2>17
<1>2. Gone([y EXCEPT !.gone = TRUE, !.wal = <<>>])
  <2> HIDE DEF y
  <2> QED BY <1>1 DEF Gone
<1> QED BY <1>2

-----------------------------------------------------------------------------
(* The theorems.                                                           *)

\* The clients that ask for one record at most, and a stream that does not fail
\* as a call becomes a task.
OneEnd == LateLoss = FALSE /\ \A o \in Clients : Regular(o)

LEMMA InitGood == MInit => Good(mcp)
<1> SUFFICES ASSUME MInit PROVE Good(mcp)
  OBVIOUS
<1> DEFINE o == CHOOSE q \in Client : q.tool = "none"
           n == [r \in 1 .. MaxRecs |-> [status |-> "none", got |-> "none", told |-> FALSE]]
           e == <<>>
           s == {}
           z == 0
           i == 1
<1>1. o \in Client
  <2>1. [tool |-> "none", sse |-> FALSE, tasks |-> FALSE, stream |-> FALSE,
         background |-> FALSE, journal |-> FALSE] \in {q \in Client : q.tool = "none"}
    BY DEF Client, Tools
  <2> QED BY <2>1
<1>2. n \in RecTable
  <2>1. [status |-> "none", got |-> "none", told |-> FALSE] \in Rec
    BY DEF Rec, RecStatus, Got
  <2> QED BY <2>1 DEF RecTable
<1>3. /\ e \in SlotSeq /\ e \in WalSeq /\ s \in FlagSet /\ s \in CountSet /\ s \in NameSet
      /\ s \in DiskSet /\ s \in HomeSet /\ s \in MailSet
      /\ z \in RecNo /\ z \in TurnNo /\ z \in CallNo /\ z \in LifeNo /\ z \in Count
      /\ i \in Count
  BY Given DEF SlotSeq, WalSeq, FlagSet, CountSet, NameSet, DiskSet, HomeSet, MailSet, RecNo,
     TurnNo, CallNo, LifeNo, Count
<1>4. mcp =
  [spare |-> TRUE, phase |-> "BODY", s |-> "none", hook |-> "spare",
   flags |-> s, step |-> FALSE, timer |-> FALSE, promote |-> FALSE, due |-> FALSE,
   reaper |-> FALSE, error |-> "none", task |-> z, admitted |-> z, archive |-> FALSE,
   lost |-> FALSE, job |-> "none", turn |-> z, slots |-> e, part |-> i,
   launched |-> z, intents |-> s, reply |-> "none",
   life |-> z, opt |-> o, names |-> s, listed |-> z, stream |-> "ended",
   recs |-> n, wal |-> e, disk |-> s, home |-> s, post |-> s, drain |-> FALSE,
   draining |-> FALSE, exits |-> FALSE, gone |-> FALSE]
  BY DEF MInit
<1>5. \A r \in 1 .. MaxRecs : n[r].status = "none"
  OBVIOUS
<1>6. s = {} /\ e = <<>> /\ z = 0
  OBVIOUS
<1> HIDE DEF o, n, e, s, z, i
<1>7. mcp \in Struct
  BY <1>1, <1>2, <1>3, <1>4 DEF Struct, Bool, Phase, Working, Holder, Hook, Error, JobState,
     ReplyKind, StreamEnd
<1>8. /\ mcp.spare = TRUE /\ mcp.s = "none" /\ mcp.hook = "spare" /\ mcp.flags = s
      /\ mcp.step = FALSE /\ mcp.timer = FALSE /\ mcp.reaper = FALSE /\ mcp.task = z
      /\ mcp.admitted = z /\ mcp.job = "none" /\ mcp.slots = e /\ mcp.names = s
      /\ mcp.listed = z /\ mcp.stream = "ended" /\ mcp.recs = n /\ mcp.wal = e
      /\ mcp.home = s /\ mcp.post = s /\ mcp.drain = FALSE /\ mcp.gone = FALSE
  BY <1>4
<1>9. Posted(mcp)
  BY <1>6, <1>8 DEF Posted
<1>10. Names(mcp) /\ Owns(mcp) /\ Streams(mcp)
  BY <1>5, <1>6, <1>8 DEF Names, Waiting, Owns, Streams
<1>11. Len(mcp.slots) <= Calls
  BY <1>6, <1>8, Given
<1>12. Sound(mcp)
  BY <1>7, <1>8, <1>9, <1>10, <1>11 DEF Sound
<1>13. Ended(mcp)
  BY <1>6, <1>8 DEF Ended, Left
<1> QED BY <1>8, <1>12, <1>13 DEF Good, Late

LEMMA GoneStays == Gone(mcp) /\ MNext => FALSE
<1> SUFFICES ASSUME Gone(mcp), MNext PROVE FALSE
  OBVIOUS
<1>1. PICK y : y \in Struct /\ mcp = [y EXCEPT !.gone = TRUE, !.wal = <<>>]
  BY DEF Gone, Good, Late, Sound
<1>2. mcp.gone = TRUE /\ mcp.wal = <<>>
  BY <1>1, Domain DEF FieldNames
<1> QED BY <1>2 DEF MNext, Begin, OnWritable, Timer, HomeDelta, HomeDone, JournalWrite,
           Cancels, McpDrain, OnBody, OnCancel, ReqStep, ToolEnds, DrainStep, Destroy,
           Deliver, Live, Runs

\* Every step of the request keeps the invariant.
LEMMA NextGood ==
  ASSUME OneEnd, Good(mcp), MNext
  PROVE  ReqInv(mcp')
<1> DEFINE x == mcp
<1>0. x \in Struct /\ ~x.gone
  BY DEF Good, Works, Going, Base, Sound
<1>1. ASSUME NEW o \in Clients, Begin(o) PROVE Good(mcp')
  BY <1>1, BeginKeeps, RequestAssumption DEF Begin, OneEnd
<1>2. CASE OnWritable
  BY <1>2, WritableKeeps DEF OnWritable, Live, ReqInv
<1>3. CASE Timer
  BY <1>3, TimerKeeps DEF Timer, ReqInv
<1>4. CASE HomeDelta
  <2>1. PICK j \in mcp.home :
          /\ j.at = "runs"
          /\ mcp' = [mcp EXCEPT !.home = (@ \ {j}) \cup {[j EXCEPT !.at = "held"]},
                     !.post = @ \cup {[what |-> "delta", who |-> j.name, how |-> ""]}]
    BY <1>4 DEF HomeDelta
  <2> QED BY <2>1, HomeDeltaKeeps DEF ReqInv
<1>5. CASE HomeDone
  <2>1. PICK j \in mcp.home, how \in Hows :
          /\ j.at = "runs"
          /\ mcp' = [mcp EXCEPT !.home = @ \ {j},
                     !.post = @ \cup {[what |-> "done", who |-> j.name, how |-> how]}]
    BY <1>5 DEF HomeDone, Hows
  <2> QED BY <2>1, HomeDoneKeeps DEF ReqInv
<1>6. CASE JournalWrite
  <2>1. PICK ok \in BOOLEAN :
          LET w == Head(mcp.wal)
              put == mcp.post \cup {[what |-> "wrote", who |-> w.who,
                                     how |-> IF ok THEN "ok" ELSE "error"]}
          IN  mcp' = [mcp EXCEPT !.wal = Tail(@),
                        !.disk = IF ok THEN @ \cup {[w EXCEPT !.kind = "done"]} ELSE @,
                        !.post = IF w.who = NoName THEN @ ELSE put]
    BY <1>0, <1>6 DEF JournalWrite, Runs
  <2>2. mcp.wal # <<>>
    BY <1>6 DEF JournalWrite
  <2> QED BY <2>1, <2>2, JournalWriteKeeps DEF ReqInv
<1>7. CASE Cancels
  <2>1. PICK m \in mcp.names :
          /\ m.what \in {"roster", "record"}
          /\ mcp' = [mcp EXCEPT !.post = @ \cup {[what |-> m.what, who |-> m, how |-> ""]}]
    BY <1>7 DEF Cancels
  <2>2. Good([mcp EXCEPT !.post = @ \cup {[what |-> m.what, who |-> m, how |-> ""]}])
    BY <2>1, CancelsKeep
  <2> QED BY <2>1, <2>2 DEF ReqInv
<1>8. CASE McpDrain
  <2> DEFINE y == [x EXCEPT !.draining = TRUE, !.drain = TRUE]
  <2>1. y \in Struct
    BY <1>0 DEF Struct, Bool
  <2>2. Same(x, y, {"drain", "draining"}) /\ y.draining = TRUE
    BY <1>0, Domain DEF Same, FieldNames
  <2>3. mcp' = y
    BY <1>8 DEF McpDrain
  <2> HIDE DEF y
  <2> QED BY <2>1, <2>2, <2>3, DrainsKeep DEF ReqInv
<1>9. ASSUME NEW c \in Luck, OnBody(c) PROVE Good(mcp')
  BY <1>9, BodyKeeps DEF OnBody, Live
<1>10. ASSUME NEW c \in Luck, OnCancel(c) PROVE Good(mcp')
  <2>1. Endable(mcp) /\ ~mcp.spare /\ mcp.s = "client" /\ mcp' = Cancelled(mcp, c)
    BY <1>10, GoodEndable DEF OnCancel, Live
  <2> QED BY <2>1, CancelledKeeps
<1>11. ASSUME NEW c \in Luck, ReqStep(c) PROVE Good(mcp')
  BY <1>11, RunKeeps DEF ReqStep, OneEnd
<1>12. ASSUME NEW c \in Luck, ToolEnds(c) PROVE Good(mcp')
  <2>1. PICK m \in mcp.names :
          /\ m.what = "tool"
          /\ mcp' = IF m.n = 0 THEN Respond(Unwait(Forget(mcp, {m})), c)
                    ELSE SlotDone(mcp, m.n, c)
    BY <1>12 DEF ToolEnds
  <2>2. Good(IF m.n = 0 THEN Respond(Unwait(Forget(mcp, {m})), c) ELSE SlotDone(mcp, m.n, c))
    BY <2>1, ToolKeeps
  <2> QED BY <2>1, <2>2
<1>13. ASSUME NEW c \in Luck, DrainStep(c) PROVE Good(mcp')
  <2>1. Good(IF mcp.hook = "calls" THEN Fail(mcp, c) ELSE [mcp EXCEPT !.drain = FALSE])
    BY <1>13, DrainStepKeeps DEF DrainStep
  <2> QED BY <1>13, <2>1 DEF DrainStep
<1>14. ASSUME NEW c \in Luck, Destroy(c) PROVE Gone(mcp')
  BY <1>14, DestroyKeeps DEF Destroy
<1>15. ASSUME NEW c \in Luck, NEW what \in {"wrote", "delta", "done", "roster", "record"},
              Deliver(what, c)
       PROVE  Good(mcp')
  <2>1. PICK m \in mcp.post :
          LET y == [mcp EXCEPT !.post = @ \ {m}] IN
          /\ m.what = what
          /\ mcp' = CASE m.who \notin y.names -> y
                      [] m.who \in y.names /\ what = "wrote" ->
                           Wrote(Forget(y, {m.who}), c, m.who, m.how = "ok")
                      [] m.who \in y.names /\ what = "delta" -> OnDelta(y)
                      [] m.who \in y.names /\ what = "done" -> JobDone(y, c, m.how)
                      [] m.who \in y.names /\ what = "roster" -> OnWithdraw(y, c)
                      [] m.who \in y.names /\ what = "record" -> Abort(y, c, "cancelled")
    BY <1>15 DEF Deliver
  <2> DEFINE y == [mcp EXCEPT !.post = @ \ {m}]
             z == CASE m.who \notin y.names -> y
                    [] m.who \in y.names /\ m.what = "wrote" ->
                         Wrote(Forget(y, {m.who}), c, m.who, m.how = "ok")
                    [] m.who \in y.names /\ m.what = "delta" -> OnDelta(y)
                    [] m.who \in y.names /\ m.what = "done" -> JobDone(y, c, m.how)
                    [] m.who \in y.names /\ m.what = "roster" -> OnWithdraw(y, c)
                    [] m.who \in y.names /\ m.what = "record" -> Abort(y, c, "cancelled")
  <2>2. mcp' = z
    BY <2>1
  <2>3. Good(z)
    BY DeliverKeeps
  <2> QED BY <2>2, <2>3
<1> QED BY <1>1, <1>2, <1>3, <1>4, <1>5, <1>6, <1>7, <1>8, <1>9, <1>10, <1>11, <1>12, <1>13,
           <1>14, <1>15 DEF MNext, ReqInv

\* What the invariant says of the types, and of what is let go.
LEMMA GoodSays == Good(mcp) => MTypeOK /\ NothingKept /\ Owned
<1> SUFFICES ASSUME Good(mcp) PROVE MTypeOK /\ NothingKept /\ Owned
  OBVIOUS
<1> DEFINE x == mcp
<1>1. Sound(x) /\ x \in Struct /\ x.gone = FALSE
  <2>1. Sound(x) /\ x \in Struct
    BY DEF Good, Works, Going, Base, Sound
  <2> QED BY <2>1, Fields DEF Sound
<1>2. MTypeOK
  <2>1. x.recs \in [1 .. MaxRecs -> Rec]
    BY <1>1, Fields
  <2>2. \A r \in 1 .. MaxRecs : x.recs[r].status \in RecStatus /\ x.recs[r].got \in Got
    BY <2>1 DEF Rec
  <2>3. /\ x.life \in 0 .. MaxLives /\ x.opt \in Client /\ x.phase \in Phase
        /\ x.s \in {"none", "client", "stand"}
        /\ x.hook \in {"none", "calls", "ending", "freeing", "spare"}
        /\ x.flags \subseteq Flag /\ x.names \subseteq Name
        /\ x.error \in {"none", "cancelled", "failed"}
        /\ x.task \in 0 .. MaxRecs /\ x.admitted \in 0 .. MaxRecs
        /\ x.job \in {"none", "waits", "text", "calls", "answered", "over"}
        /\ x.turn \in 0 .. MaxTurns /\ x.listed \in Nat
    BY <1>1, Fields
  <2> QED BY <2>2, <2>3 DEF MTypeOK, Got
<1>3. CASE Late(x)
  <2>1. Ended(x) /\ Left(x)
    BY <1>3 DEF Good, Ended
  <2>2. CallOver
    BY <2>1 DEF CallOver, Left
  <2>3. x.spare => x.names = {} /\ ~x.step /\ ~x.timer /\ x.listed = 0
                   /\ x.hook = "spare" /\ x.stream = "ended"
    BY <1>1, <2>1 DEF Ended, Left, Sound, Owns, Streams
  <2>4. x.hook # "calls" /\ ((x.hook = "ending") = (x.phase = "END" /\ ~x.spare))
    BY <1>3, <2>1 DEF Late, Ended
  <2>5. "DELTA" \notin x.flags
    BY <2>1 DEF Left
  <2>6. NothingKept
    BY <1>1, <2>2, <2>3, <2>4, <2>5 DEF NothingKept
  <2>7. Owned
    <3>1. x.spare => x.task = 0 /\ x.admitted = 0
      BY <2>1 DEF Ended
    <3> QED BY <1>1, <3>1, Fields DEF Owned, Sound, Owns
  <2> QED BY <1>2, <2>6, <2>7
<1>4. CASE ~Late(x)
  <2>1. Works(x) /\ ~x.spare /\ x.phase \notin {"END", "FREE"}
    BY <1>4 DEF Good, Late
  <2>2. CallOver
    BY <2>1 DEF CallOver
  <2>3. x.hook = "calls" => x.phase \notin Sent
    BY <2>1 DEF Works, Sent
  <2>4. x.hook # "ending"
    BY <2>1 DEF Works, Going
  <2>5. "DELTA" \in x.flags => x.job = "waits" /\ "SSE" \in x.flags
    BY <2>1 DEF Works, Calling, Quiet, Parked, Asked
  <2>6. NothingKept
    BY <1>1, <2>1, <2>2, <2>3, <2>4, <2>5 DEF NothingKept
  <2>7. Owned
    BY <1>1, <2>1 DEF Owned, Sound, Owns
  <2> QED BY <1>2, <2>6, <2>7
<1> QED BY <1>3, <1>4

LEMMA GoneSays == Gone(mcp) => MTypeOK /\ NothingKept /\ Owned
<1> SUFFICES ASSUME Gone(mcp) PROVE MTypeOK /\ NothingKept /\ Owned
  OBVIOUS
<1> DEFINE x == mcp
           e == <<>>
<1>1. PICK y : Good(y) /\ y.spare /\ x = [y EXCEPT !.gone = TRUE, !.wal = e]
  BY DEF Gone
<1>2. Sound(y) /\ Ended(y) /\ Left(y) /\ y \in Struct
  BY <1>1 DEF Good, Late, Ended, Sound
<1>3. e \in WalSeq
  BY DEF WalSeq
<1> HIDE DEF e
<1>4. x \in Struct
  BY <1>1, <1>2, <1>3, ZenonT(40) DEF Struct, Bool
<1>5. Same(y, x, {"gone", "wal"})
  BY <1>1, <1>2, Domain DEF Same, FieldNames
<1> HIDE DEF x
<1>6. /\ x.spare = y.spare /\ x.names = y.names /\ x.step = y.step /\ x.timer = y.timer
      /\ x.listed = y.listed /\ x.hook = y.hook /\ x.stream = y.stream /\ x.job = y.job
      /\ x.slots = y.slots /\ x.home = y.home /\ x.flags = y.flags /\ x.recs = y.recs
      /\ x.task = y.task /\ x.admitted = y.admitted
  BY <1>5 DEF Same, FieldNames
<1>7. MTypeOK
  <2>1. x.recs \in [1 .. MaxRecs -> Rec]
    BY <1>4, Fields
  <2>2. \A r \in 1 .. MaxRecs : x.recs[r].status \in RecStatus /\ x.recs[r].got \in Got
    BY <2>1 DEF Rec
  <2>3. /\ x.life \in 0 .. MaxLives /\ x.opt \in Client /\ x.phase \in Phase
        /\ x.s \in {"none", "client", "stand"}
        /\ x.hook \in {"none", "calls", "ending", "freeing", "spare"}
        /\ x.flags \subseteq Flag /\ x.names \subseteq Name
        /\ x.error \in {"none", "cancelled", "failed"}
        /\ x.task \in 0 .. MaxRecs /\ x.admitted \in 0 .. MaxRecs
        /\ x.job \in {"none", "waits", "text", "calls", "answered", "over"}
        /\ x.turn \in 0 .. MaxTurns /\ x.listed \in Nat
    BY <1>4, Fields
  <2> QED BY <2>2, <2>3 DEF MTypeOK, Got, x
<1>8. /\ x.spare /\ x.job = "none" /\ x.slots = <<>> /\ x.home = {}
      /\ x.names = {} /\ ~x.step /\ ~x.timer /\ x.listed = 0
      /\ x.hook = "spare" /\ x.stream = "ended" /\ "DELTA" \notin x.flags
      /\ x.task = 0
  BY <1>1, <1>2, <1>6 DEF Ended, Left, Sound, Owns, Streams
<1>9. NothingKept
  BY <1>8 DEF NothingKept, CallOver, x
<1>10. Owned
  <2>1. \A r \in 1 .. MaxRecs : x.recs[r].status # "working"
    BY <1>1, <1>2, <1>6, Fields DEF Ended, Sound, Owns
  <2> QED BY <1>8, <2>1 DEF Owned, x
<1> QED BY <1>7, <1>9, <1>10

\* The same of the run's specification, in which a behaviour is of the request
\* or of the job.
LEMMA RequestInv == OneEnd => (MCSpec => [](part = "request" => ReqInv(mcp)))
<1> SUFFICES ASSUME OneEnd PROVE MCSpec => [](part = "request" => ReqInv(mcp))
  OBVIOUS
<1> DEFINE I == part = "request" => ReqInv(mcp)
<1>1. MCInit => I
  BY InitGood DEF MCInit, ReqInv
<1>2. I /\ [MCNext]_<<part, mcp, vars>> => I'
  <2> SUFFICES ASSUME I, [MCNext]_<<part, mcp, vars>>, part' = "request"
               PROVE  ReqInv(mcp')
    OBVIOUS
  <2>1. part = "request" /\ (MNext \/ mcp' = mcp)
    BY DEF MCNext, Over
  <2>2. ReqInv(mcp)
    BY <2>1
  <2>3. CASE mcp' = mcp
    BY <2>2, <2>3
  <2>4. CASE MNext
    BY <2>2, <2>4, NextGood, GoneStays DEF ReqInv
  <2> QED BY <2>1, <2>3, <2>4
<1> QED BY <1>1, <1>2, PTL DEF MCSpec

\* A request that is spare has let go of all that could reach it, one that is
\* not is found by those that end it, and a record that works is of the call
\* that runs (mcp_req_finish(), mcp_req_end(), mcp_req_detach(),
\* mcp_destroy()).
THEOREM RequestLetsGo == OneEnd => (MCSpec => []LetsGo)
<1> SUFFICES ASSUME OneEnd PROVE MCSpec => []LetsGo
  OBVIOUS
<1>1. (part = "request" => ReqInv(mcp)) => LetsGo
  BY GoodSays, GoneSays DEF ReqInv, LetsGo
<1>2. MCSpec => [](part = "request" => ReqInv(mcp))
  BY RequestInv
<1> QED BY <1>1, <1>2, PTL

\* Both parts keep their types, whatever a handler does and in whatever order
\* the messages come (struct mcp_req, struct job): of the job's two threads for
\* any number of runs, events and writes, of the request for any number of
\* lives, turns, calls and records.
THEOREM RunKeepsTypes == OneEnd => (MCSpec => []BothTypeOK)
<1> SUFFICES ASSUME OneEnd PROVE MCSpec => []BothTypeOK
  OBVIOUS
<1>1. (part = "request" => ReqInv(mcp)) /\ (part = "job" => JobInv) => BothTypeOK
  BY GoodSays, GoneSays DEF ReqInv, JobInv, BothTypeOK
<1>2. MCSpec => [](part = "request" => ReqInv(mcp))
  BY RequestInv
<1>3. MCSpec => [](part = "job" => JobInv)
  BY PartInv
<1> QED BY <1>1, <1>2, <1>3, PTL
=============================================================================
