--------------------------- MODULE ProcessProofs ---------------------------
(***************************************************************************)
(* Proofs about what MCProcess composes.  Of Brainstem and Blockers, for   *)
(* any number of client loops, of blocker threads and of jobs that may     *)
(* wait, and any number of SIGHUPs, reliefs and errors: the stop goes in   *)
(* order, every order arrives, a relief is counted down to one trim, and   *)
(* the last SIGHUP is answered.  Of LogRing, for any number of threads     *)
(* that log, any size of a ring and any number of lines: the logger's      *)
(* sleep and what it writes.  And that the run's journal recovers, that    *)
(* its reasoning is what was sent, and that its jobs' places are true,     *)
(* from JournalProofs, ReasoningProofs and HomeProofs.                     *)
(***************************************************************************)
EXTENDS MCProcess, Integers, FiniteSetTheorems, TLAPS

USE LoopsAssumption, WorkerAssumption, QueueAssumption

(***************************************************************************)
(* The process's life: its inductive invariant.                            *)
(***************************************************************************)

Jobs == {"walk", "reload"} \X Thread

BlkType    == [queue : Seq(Jobs), stop : BOOLEAN, signals : Nat]
HandType   == [at : {"lock", "asleep", "work", "cancelled", "gone"}, job : Jobs \cup {None}]
Places     == {"start", "clients", "home", "alone", "blockers", "fini", "gone", "forced"}
BsType     == [pc : Places, i : 0 .. Loops + 1, stopping : BOOLEAN, late : BOOLEAN]
AppType    == [drain : Nat, alone : BOOLEAN, open : BOOLEAN, exit : BOOLEAN, taken : BOOLEAN,
               share : {"none", "share", "trim", "walking"}]
ReloadType == [busy : BOOLEAN, again : BOOLEAN, error : BOOLEAN, wrong : BOOLEAN, last : Nat,
               read : Nat, applied : Nat, refused : Nat, shut : Nat]

Typed ==
  /\ blk \in BlkType /\ hand \in [Worker -> HandType]
  /\ \A w \in Worker : hand[w].job # None <=> hand[w].at \in {"work", "cancelled"}
  /\ bs \in BsType /\ state \in [Thread -> {"JOINED", "STARTING", "RUNNING", "EXITED"}]
  /\ flags \in [Thread -> SUBSET {"CREATED", "DRAINED", "FREED"}]
  /\ orders \in [Thread -> SUBSET Orders] /\ inbox \in [Thread -> SUBSET Message]
  /\ app \in [Thread -> AppType] /\ ask \subseteq Thread /\ relieving \in Nat
  /\ reload \in ReloadType

\* A job waits, is in a thread's hands, or is on its way back to its loop.
Waits(j)   == \E n \in DOMAIN blk.queue : blk.queue[n] = j
InHand(j)  == \E w \in Worker : hand[w].job = j
Back(j)    == j[1] \in inbox[j[2]]
Around(j)  == Waits(j) \/ InHand(j) \/ Back(j)

\* A job is in one place only, and a reload's is home's.
JobsOnce ==
  /\ \A m, n \in DOMAIN blk.queue : blk.queue[m] = blk.queue[n] => m = n
  /\ \A v, w \in Worker : hand[v].job = hand[w].job /\ hand[v].job # None => v = w
  /\ \A j \in Jobs : /\ Waits(j) => ~InHand(j) /\ ~Back(j)
                     /\ InHand(j) => ~Back(j)
  /\ \A j \in Jobs : j[1] = "reload" /\ Around(j) => j[2] = HOME

\* A blocker ends only with nothing queued, and once stopped they take no job.
Ended == \A w \in Worker : hand[w].at = "gone" => blk.stop /\ blk.queue = <<>>

\* A thread that has yet to be started, or to report.
Young(t) == \/ state[t] = "STARTING"
            \/ bs.pc = "start" /\ (t > bs.i \/ (t = bs.i /\ state[t] = "JOINED"))

\* It has no orders, and no job of its own; nothing has been reloaded before
\* home runs.
Births ==
  /\ bs.pc = "start" => bs.i \in Thread
  /\ \A t \in Thread : state[t] = "STARTING" => bs.pc \in {"start", "forced"} /\ t = bs.i
  /\ bs.pc = "start" => \A t \in Thread : t > bs.i => state[t] = "JOINED"
  /\ \A t \in Thread : Young(t) =>
       /\ "DRAINED" \notin flags[t] /\ orders[t] = {} /\ "order" \notin inbox[t]
       /\ ~app[t].taken /\ ~Around(<<"walk", t>>)
  /\ Young(HOME) => reload.applied = reload.last /\ ~Around(<<"reload", HOME>>)

\* Orders and the message that carries them.
Arrive ==
  \A t \in Thread : state[t] = "RUNNING" =>
    /\ orders[t] # {} <=> ("order" \in inbox[t] \/ app[t].taken)
    /\ app[t].taken => "order" \notin inbox[t]

\* The order to drain is given once, and once the stop goes on, to all that run.
Draining ==
  /\ \A t \in Thread :
       /\ "DRAIN" \in orders[t] => "DRAINED" \in flags[t] /\ app[t].drain = 0
       /\ app[t].drain \in {0, 1} /\ (app[t].drain = 1 => "DRAINED" \in flags[t])
       /\ state[t] = "RUNNING" /\ "DRAINED" \in flags[t] =>
            "DRAIN" \in orders[t] \/ app[t].drain = 1 \/ app[t].exit
  /\ bs.stopping /\ bs.pc \notin {"start", "forced"} =>
       \A t \in Running : "DRAINED" \in flags[t]

\* How far the stop is.
Stopping ==
  /\ bs.pc \in {"home", "alone", "blockers", "fini", "gone"} => Client \cap Running = {}
  /\ bs.pc \in {"blockers", "fini", "gone"} => state[HOME] # "RUNNING"
  /\ app[HOME].alone \/ "ALONE" \in orders[HOME] =>
       Client \cap Running = {} /\ bs.pc \notin {"start", "clients", "home"}
  /\ bs.pc \in {"home", "fini", "gone"} => ask = {}
  /\ bs.pc = "fini" => Done
  /\ \A t \in Thread : "FREED" \in flags[t] => bs.pc \in {"fini", "gone"} /\ inbox[t] = {} /\ Done

Shares == {t \in Thread : \/ t \in ask /\ state[t] = "RUNNING"
                          \/ "RELIEVE" \in orders[t] \/ app[t].share = "share"}
Trims  == {t \in Thread : app[t].share \in {"trim", "walking"}}
Calm   == ~bs.stopping /\ Exited(Thread) = {} /\ (\A t \in Thread : ~app[t].exit)

\* A thread's share is in one place, and its walk is one that it waits for.
Relief ==
  /\ \A t \in Thread :
       /\ t \in ask => "RELIEVE" \notin orders[t] /\ app[t].share # "share"
       /\ "RELIEVE" \in orders[t] => app[t].share # "share"
       /\ Around(<<"walk", t>>) /\ state[t] = "RUNNING" => app[t].share = "walking"
  /\ Cardinality(Trims) <= 1
  /\ Trims # {} => relieving = 1 /\ Shares = {}
  /\ Cardinality(Shares) > 0 => relieving >= Cardinality(Shares) + 1
  /\ Calm => relieving = IF Shares = {} THEN Cardinality(Trims) ELSE Cardinality(Shares) + 1

\* What a reload that is done has read is the last, if no other is ordered.
Reloads ==
  /\ Around(<<"reload", HOME>>) => reload.busy
  /\ LastReloadAnswered
  /\ /\ "reload" \in inbox[HOME] /\ ~reload.error /\ ~reload.again
     /\ "RELOAD" \notin orders[HOME] /\ HOME \in Running /\ ~app[HOME].exit
     => reload.read = reload.last

\* A relief asks no thread that is yet to report.
Asked == bs.pc = "start" /\ ask # {} => state[bs.i] \in {"RUNNING", "EXITED"}

LifeInv ==
  /\ Typed /\ JobsOnce /\ Ended /\ Births /\ Arrive /\ Draining /\ Stopping /\ Relief /\ Reloads

-----------------------------------------------------------------------------
(* Types.                                                                  *)

LEMMA Threads == HOME \in Thread /\ Client \subseteq Thread /\ Thread \subseteq Nat
                   /\ \A t \in Thread : t # HOME => t \in Client
BY DEF Thread, Client, HOME

LEMMA ThreadsFinite == IsFiniteSet(Thread)
<1>1. IsFiniteSet(Client)
  BY FS_Interval DEF Client
<1>2. IsFiniteSet({HOME})
  BY FS_Singleton
<1> QED BY <1>1, <1>2, FS_Union DEF Thread

LEMMA NoJob == None \notin Jobs
BY DEF None, Jobs

\* What an order to T changes.
LEMMA OrderedTyped ==
  ASSUME Typed, NEW T, NEW bit \in Orders, Ordered(T, bit)
  PROVE  orders' \in [Thread -> SUBSET Orders] /\ inbox' \in [Thread -> SUBSET Message]
BY DEF Ordered, Typed, Message

LEMMA DrainedTyped ==
  ASSUME Typed, Drained
  PROVE  /\ orders' \in [Thread -> SUBSET Orders] /\ inbox' \in [Thread -> SUBSET Message]
         /\ flags' \in [Thread -> SUBSET {"CREATED", "DRAINED", "FREED"}]
<1> DEFINE T == {t \in Running : "DRAINED" \notin flags[t]}
<1>1. Ordered(T, "DRAIN")
  BY DEF Drained
<1>2. orders' \in [Thread -> SUBSET Orders] /\ inbox' \in [Thread -> SUBSET Message]
  BY <1>1, OrderedTyped DEF Orders
<1>3. flags' \in [Thread -> SUBSET {"CREATED", "DRAINED", "FREED"}]
  BY DEF Drained, Typed
<1> QED BY <1>2, <1>3

\* Records: what an update leaves, and what it changes.
LEMMA BlkSet ==
  ASSUME NEW b \in BlkType
  PROVE  /\ \A q \in Seq(Jobs), n \in Nat : [b EXCEPT !.queue = q, !.signals = n] \in BlkType
         /\ \A q \in Seq(Jobs) : [b EXCEPT !.queue = q] \in BlkType
         /\ \A n \in Nat : [b EXCEPT !.signals = n] \in BlkType
         /\ [b EXCEPT !.stop = TRUE] \in BlkType
BY DEF BlkType

LEMMA BlkGet ==
  ASSUME NEW b \in BlkType
  PROVE  /\ b.queue \in Seq(Jobs) /\ b.stop \in BOOLEAN /\ b.signals \in Nat
         /\ \A q, n : /\ [b EXCEPT !.queue = q, !.signals = n].queue = q
                      /\ [b EXCEPT !.queue = q, !.signals = n].stop = b.stop
         /\ \A q : [b EXCEPT !.queue = q].queue = q /\ [b EXCEPT !.queue = q].stop = b.stop
         /\ \A n : /\ [b EXCEPT !.signals = n].queue = b.queue
                   /\ [b EXCEPT !.signals = n].stop = b.stop
         /\ [b EXCEPT !.stop = TRUE].queue = b.queue /\ [b EXCEPT !.stop = TRUE].stop = TRUE
BY DEF BlkType

LEMMA ReloadSet ==
  ASSUME NEW r \in ReloadType
  PROVE  /\ {r.busy, r.again, r.error, r.wrong} \subseteq BOOLEAN
         /\ {r.read, r.applied, r.refused, r.shut, r.last} \subseteq Nat
         /\ \A n \in Nat : [r EXCEPT !.last = n] \in ReloadType
         /\ \A n : /\ [r EXCEPT !.last = n].busy = r.busy /\ [r EXCEPT !.last = n].again = r.again
                   /\ [r EXCEPT !.last = n].error = r.error /\ [r EXCEPT !.last = n].read = r.read
BY DEF ReloadType

-----------------------------------------------------------------------------
(* What each action changes, place by place.                               *)

LEMMA Fields ==
  ASSUME Typed
  PROVE  /\ bs.pc \in Places /\ bs.i \in 0 .. Loops + 1 /\ bs.stopping \in BOOLEAN
         /\ blk.queue \in Seq(Jobs) /\ blk.stop \in BOOLEAN /\ blk.signals \in Nat
         /\ {reload.busy, reload.again, reload.error, reload.wrong} \subseteq BOOLEAN
         /\ {reload.read, reload.applied, reload.refused, reload.shut, reload.last} \subseteq Nat
         /\ \A t \in Thread : /\ {app[t].alone, app[t].open, app[t].exit, app[t].taken} \subseteq BOOLEAN
                              /\ app[t].share \in {"none", "share", "trim", "walking"}
                              /\ app[t].drain \in Nat /\ app[t] \in AppType
         /\ \A w \in Worker : hand[w] \in HandType /\ hand[w].job \in Jobs \cup {None}
<1>1. /\ bs.pc \in Places /\ bs.i \in 0 .. Loops + 1 /\ bs.stopping \in BOOLEAN
  BY DEF Typed, BsType
<1>2. blk.queue \in Seq(Jobs) /\ blk.stop \in BOOLEAN /\ blk.signals \in Nat
  BY BlkGet DEF Typed
<1>3. /\ {reload.busy, reload.again, reload.error, reload.wrong} \subseteq BOOLEAN
      /\ {reload.read, reload.applied, reload.refused, reload.shut, reload.last} \subseteq Nat
  BY ReloadSet DEF Typed
<1>4. \A t \in Thread : app[t] \in AppType
  BY DEF Typed
<1>5. \A w \in Worker : hand[w] \in HandType
  BY DEF Typed
<1> QED BY <1>1, <1>2, <1>3, <1>4, <1>5 DEF AppType, HandType

\* The brainstem's place.
At(p, x, n) == bs' \in BsType /\ bs'.pc = p /\ bs'.stopping = x /\ bs'.i = n

LEMMA BsPcStop ==
  ASSUME Typed, NEW p \in Places, NEW x \in BOOLEAN, bs' = [bs EXCEPT !.pc = p, !.stopping = x]
  PROVE  At(p, x, bs.i)
BY DEF Typed, BsType, At

LEMMA BsPc ==
  ASSUME Typed, NEW p \in Places, bs' = [bs EXCEPT !.pc = p]
  PROVE  At(p, bs.stopping, bs.i)
BY DEF Typed, BsType, At

LEMMA BsStop ==
  ASSUME Typed, NEW x \in BOOLEAN, bs' = [bs EXCEPT !.stopping = x]
  PROVE  At(bs.pc, x, bs.i)
BY DEF Typed, BsType, At

LEMMA BsNext ==
  ASSUME Typed, NEW n \in 0 .. Loops + 1, bs' = [bs EXCEPT !.i = n]
  PROVE  At(bs.pc, bs.stopping, n)
BY DEF Typed, BsType, At

LEMMA BsFini ==
  ASSUME Typed, NEW p \in Places, NEW n \in 0 .. Loops + 1, bs' = [bs EXCEPT !.pc = p, !.i = n]
  PROVE  At(p, bs.stopping, n)
BY DEF Typed, BsType, At

LEMMA BsGone ==
  ASSUME Typed, bs' = [bs EXCEPT !.pc = "gone", !.late = TRUE]
  PROVE  bs' \in BsType /\ bs'.stopping = bs.stopping /\ bs'.pc = "gone"
BY DEF Typed, BsType, Places

LEMMA StartThreadDoes ==
  ASSUME Typed, StartThread
  PROVE  /\ Typed' /\ bs.pc = "start" /\ bs.i \in Thread /\ state[bs.i] = "JOINED"
         /\ \/ /\ state' = [state EXCEPT ![bs.i] = "STARTING"]
               /\ flags' = [flags EXCEPT ![bs.i] = {"CREATED"}] /\ UNCHANGED <<bs, orders, inbox>>
            \/ At("clients", TRUE, bs.i) /\ Drained /\ UNCHANGED state
         /\ UNCHANGED <<blk, hand, app, ask, relieving, reload>>
<1>1. bs.i \in Thread
  BY Fields DEF StartThread, Thread, Client, HOME
<1>2. CASE /\ state' = [state EXCEPT ![bs.i] = "STARTING"]
           /\ flags' = [flags EXCEPT ![bs.i] = {"CREATED"}]
           /\ UNCHANGED <<bs, orders, inbox>>
  BY <1>1, <1>2 DEF StartThread, Typed
<1>3. CASE bs' = [bs EXCEPT !.pc = "clients", !.stopping = TRUE] /\ Drained /\ UNCHANGED state
  <2>1. At("clients", TRUE, bs.i)
    BY <1>3, BsPcStop DEF Places
  <2> QED BY <1>1, <1>3, <2>1, DrainedTyped DEF StartThread, Typed, At
<1> QED BY <1>2, <1>3 DEF StartThread

LEMMA StartedDoes ==
  ASSUME Typed, Started, bs.i \in Thread
  PROVE  /\ Typed' /\ bs.pc = "start" /\ ask = {} /\ state[bs.i] \in {"RUNNING", "EXITED"}
         /\ \/ /\ state[bs.i] = "RUNNING" /\ ~bs.stopping /\ bs.i < Loops
               /\ At("start", bs.stopping, bs.i + 1) /\ UNCHANGED <<flags, orders, inbox>>
            \/ /\ state[bs.i] = "RUNNING" /\ ~bs.stopping
               /\ At("clients", FALSE, bs.i) /\ Ordered({HOME}, "OPEN") /\ UNCHANGED flags
            \/ At("clients", TRUE, bs.i) /\ Drained
         /\ UNCHANGED <<blk, hand, state, app, ask, relieving, reload>>
<1>1. CASE state[bs.i] = "RUNNING" /\ ~bs.stopping /\ bs.i < Loops
  <2>1. bs.i + 1 \in 0 .. Loops + 1 /\ bs' = [bs EXCEPT !.i = bs.i + 1]
    BY <1>1, Fields DEF Started
  <2>2. At("start", bs.stopping, bs.i + 1)
    BY <2>1, BsNext DEF Started
  <2> QED BY <1>1, <2>2 DEF Started, Typed, At
<1>2. CASE state[bs.i] = "RUNNING" /\ ~bs.stopping /\ ~(bs.i < Loops)
  <2>1. bs' = [bs EXCEPT !.pc = "clients", !.stopping = FALSE]
    BY <1>2, Fields DEF Started
  <2>2. At("clients", FALSE, bs.i)
    BY <2>1, BsPcStop DEF Places
  <2>3. Ordered({HOME}, "OPEN") /\ UNCHANGED flags
    BY <1>2 DEF Started
  <2>4. orders' \in [Thread -> SUBSET Orders] /\ inbox' \in [Thread -> SUBSET Message]
    BY <2>3, OrderedTyped DEF Orders
  <2> QED BY <1>2, <2>2, <2>3, <2>4 DEF Started, Typed, At
<1>3. CASE ~(state[bs.i] = "RUNNING" /\ ~bs.stopping)
  <2>1. bs' = [bs EXCEPT !.pc = "clients", !.stopping = TRUE]
    BY <1>3, Fields DEF Started
  <2>2. At("clients", TRUE, bs.i)
    BY <2>1, BsPcStop DEF Places
  <2>3. Drained
    BY <1>3 DEF Started
  <2> QED BY <2>2, <2>3, DrainedTyped DEF Started, Typed, At
<1> QED BY <1>1, <1>2, <1>3

LEMMA SignalDoes ==
  ASSUME Typed, StopSignal
  PROVE  /\ Typed' /\ Minds /\ ~bs.stopping /\ At(bs.pc, TRUE, bs.i) /\ Drained
         /\ UNCHANGED <<blk, hand, state, app, ask, relieving, reload>>
<1>1. At(bs.pc, TRUE, bs.i)
  BY BsStop DEF StopSignal
<1> QED BY <1>1, DrainedTyped DEF StopSignal, Typed, At

LEMMA HupDoes ==
  ASSUME Typed, Hup
  PROVE  /\ Typed' /\ Minds /\ state[HOME] = "RUNNING" /\ Ordered({HOME}, "RELOAD")
         /\ reload'.busy = reload.busy /\ reload'.again = reload.again
         /\ reload'.error = reload.error /\ reload'.read = reload.read
         /\ UNCHANGED <<blk, hand, bs, state, flags, app, ask, relieving>>
<1>1. orders' \in [Thread -> SUBSET Orders] /\ inbox' \in [Thread -> SUBSET Message]
  BY OrderedTyped DEF Hup, Orders
<1>2. reload.last + 1 \in Nat
  BY Fields
<1>3. /\ reload' \in ReloadType /\ reload'.busy = reload.busy /\ reload'.again = reload.again
      /\ reload'.error = reload.error /\ reload'.read = reload.read
  BY <1>2, ReloadSet DEF Hup, Typed
<1> QED BY <1>1, <1>3 DEF Hup, Typed

LEMMA ForceDoes ==
  ASSUME Typed, Forces
  PROVE  /\ Typed' /\ bs.pc \in {"start", "clients", "alone", "blockers"}
         /\ At("forced", bs.stopping, bs.i)
         /\ UNCHANGED <<blk, hand, state, flags, orders, inbox, app, ask, relieving, reload>>
<1>1. At("forced", bs.stopping, bs.i)
  BY BsPc DEF Forces, Places
<1> QED BY <1>1 DEF Forces, Minds, Typed, At

LEMMA RelieveDoes ==
  ASSUME Typed, Relieve
  PROVE  /\ Typed' /\ Minds /\ Running # {} /\ relieving = 0
         /\ relieving' = Cardinality(Running) + 1 /\ ask' = Thread
         /\ UNCHANGED <<blk, hand, bs, state, flags, orders, inbox, app, reload>>
<1>1. Cardinality(Running) \in Nat
  BY ThreadsFinite, FS_Subset, FS_CardinalityType DEF Running
<1> QED BY <1>1 DEF Relieve, Typed

LEMMA RelieveOrderDoes ==
  ASSUME Typed, RelieveOrder
  PROVE  /\ Typed'
         /\ \E t \in ask :
              /\ ask' = ask \ {t}
              /\ \/ state[t] = "RUNNING" /\ Ordered({t}, "RELIEVE")
                 \/ state[t] # "RUNNING" /\ UNCHANGED <<orders, inbox>>
         /\ UNCHANGED <<blk, hand, bs, state, flags, app, relieving, reload>>
BY OrderedTyped DEF RelieveOrder, Typed, Orders

\* Threads of S that exited are joined.
Joins(S) ==
  /\ \A t \in Thread : state'[t] = IF t \in S /\ state[t] = "EXITED" THEN "JOINED" ELSE state[t]
  /\ \/ (\E t \in S : state[t] = "EXITED") /\ bs'.stopping /\ (Drained \/ (bs.stopping /\ UNCHANGED <<flags, orders, inbox>>))
     \/ /\ \A t \in S : state[t] # "EXITED"
        /\ bs'.stopping = bs.stopping /\ UNCHANGED <<flags, orders, inbox>>

LEMMA JoinedDoes ==
  ASSUME Typed, NEW S \in SUBSET Thread, Joined(S), bs'.stopping = (bs.stopping \/ Exited(S) # {})
  PROVE  /\ Joins(S) /\ state' \in [Thread -> {"JOINED", "STARTING", "RUNNING", "EXITED"}]
         /\ orders' \in [Thread -> SUBSET Orders] /\ inbox' \in [Thread -> SUBSET Message]
         /\ flags' \in [Thread -> SUBSET {"CREATED", "DRAINED", "FREED"}]
<1>1. state' \in [Thread -> {"JOINED", "STARTING", "RUNNING", "EXITED"}]
  BY DEF Joined, Typed
<1>2. Exited(S) = {} <=> \A t \in S : state[t] # "EXITED"
  BY DEF Exited
<1>3. \A t \in Thread : state'[t] = IF t \in S /\ state[t] = "EXITED" THEN "JOINED" ELSE state[t]
  BY DEF Joined, Exited
<1>4. bs.stopping \in BOOLEAN
  BY Fields
<1>5. CASE Exited(S) # {} /\ ~bs.stopping
  <2>1. Drained
    BY <1>5 DEF Joined
  <2> QED BY <1>1, <1>2, <1>3, <1>4, <1>5, <2>1, DrainedTyped DEF Joins
<1>6. CASE ~(Exited(S) # {} /\ ~bs.stopping)
  <2>1. UNCHANGED <<flags, orders, inbox>>
    BY <1>6 DEF Joined
  <2> QED BY <1>1, <1>2, <1>3, <1>4, <1>6, <2>1 DEF Joins, Typed
<1> QED BY <1>5, <1>6

LEMMA ClientsRunDoes ==
  ASSUME Typed, ClientsRun
  PROVE  /\ Typed' /\ bs.pc = "clients" /\ ask = {} /\ Joins(Client)
         /\ \/ bs'.pc = "home" /\ Client \cap Running = {}
            \/ bs'.pc = "clients"
         /\ bs.stopping => bs'.stopping
         /\ UNCHANGED <<blk, hand, app, ask, relieving, reload>>
<1> DEFINE p == IF Client \cap Running = {} THEN "home" ELSE bs.pc
           x == bs.stopping \/ Exited(Client) # {}
<1>1. p \in Places /\ x \in BOOLEAN /\ bs' = [bs EXCEPT !.pc = p, !.stopping = x]
  BY Fields DEF ClientsRun, Places
<1>2. bs' \in BsType /\ bs'.pc = p /\ bs'.stopping = x
  BY <1>1, BsPcStop DEF At
<1>3. /\ Joins(Client) /\ state' \in [Thread -> {"JOINED", "STARTING", "RUNNING", "EXITED"}]
      /\ orders' \in [Thread -> SUBSET Orders] /\ inbox' \in [Thread -> SUBSET Message]
      /\ flags' \in [Thread -> SUBSET {"CREATED", "DRAINED", "FREED"}]
  BY <1>2, JoinedDoes, Threads DEF ClientsRun
<1> QED BY <1>2, <1>3 DEF ClientsRun, Typed

LEMMA HomeAloneDoes ==
  ASSUME Typed, HomeAlone
  PROVE  /\ Typed' /\ bs.pc = "home" /\ At("alone", bs.stopping, bs.i)
         /\ Ordered({HOME} \cap Running, "ALONE")
         /\ UNCHANGED <<blk, hand, state, flags, app, ask, relieving, reload>>
<1>1. At("alone", bs.stopping, bs.i)
  BY BsPc DEF HomeAlone, Places
<1>2. orders' \in [Thread -> SUBSET Orders] /\ inbox' \in [Thread -> SUBSET Message]
  BY OrderedTyped DEF HomeAlone, Orders
<1> QED BY <1>1, <1>2 DEF HomeAlone, Typed, At

\* The hands, when the blockers stop.
LEMMA StoppedDoes ==
  ASSUME Typed, Stopped
  PROVE  /\ blk' \in BlkType /\ blk'.queue = blk.queue /\ blk'.stop = TRUE
         /\ hand' \in [Worker -> HandType]
         /\ \A w \in Worker : /\ hand'[w].job = hand[w].job
                              /\ hand'[w].at = IF hand[w].at = "asleep" THEN "lock" ELSE hand[w].at
<1>1. Idle \in HandType /\ Idle.at = "lock" /\ Idle.job = None
  BY DEF Idle, HandType
<1>2. \A w \in Worker : hand[w].at = "asleep" => hand[w].job = None
  BY DEF Typed
<1>3. blk' \in BlkType /\ blk'.queue = blk.queue /\ blk'.stop = TRUE
  BY BlkSet, BlkGet DEF Stopped, Typed
<1>4. hand' \in [Worker -> HandType]
  BY <1>1 DEF Stopped, Typed
<1> QED BY <1>1, <1>2, <1>3, <1>4 DEF Stopped

LEMMA StopBlockersDoes ==
  ASSUME Typed, StopBlockers
  PROVE  /\ Typed' /\ bs.pc = "alone" /\ ask = {} /\ state[HOME] # "RUNNING"
         /\ bs'.pc = "blockers" /\ (bs.stopping => bs'.stopping) /\ Joins(Thread)
         /\ blk'.queue = blk.queue /\ blk'.stop = TRUE
         /\ \A w \in Worker : /\ hand'[w].job = hand[w].job
                              /\ hand'[w].at = IF hand[w].at = "asleep" THEN "lock" ELSE hand[w].at
         /\ UNCHANGED <<app, ask, relieving, reload>>
<1> DEFINE x == bs.stopping \/ Exited(Thread) # {}
<1>1. x \in BOOLEAN /\ bs' = [bs EXCEPT !.pc = "blockers", !.stopping = x] /\ "blockers" \in Places
  BY Fields DEF StopBlockers, Places
<1>2. bs' \in BsType /\ bs'.pc = "blockers" /\ bs'.stopping = x
  BY <1>1, BsPcStop DEF At
<1>3. /\ Joins(Thread) /\ state' \in [Thread -> {"JOINED", "STARTING", "RUNNING", "EXITED"}]
      /\ orders' \in [Thread -> SUBSET Orders] /\ inbox' \in [Thread -> SUBSET Message]
      /\ flags' \in [Thread -> SUBSET {"CREATED", "DRAINED", "FREED"}]
  BY <1>2, JoinedDoes DEF StopBlockers
<1> QED BY <1>2, <1>3, StoppedDoes DEF StopBlockers, Typed

LEMMA BlockersDoneDoes ==
  ASSUME Typed, BlockersDone
  PROVE  /\ Typed' /\ bs.pc = "blockers" /\ ask = {} /\ bs'.stopping = bs.stopping
         /\ (bs'.pc = "fini" /\ Done) \/ bs'.pc = "gone"
         /\ UNCHANGED <<blk, hand, state, flags, orders, inbox, app, ask, relieving, reload>>
<1>1. CASE Done
  <2>1. 0 \in 0 .. Loops + 1 /\ bs' = [bs EXCEPT !.pc = "fini", !.i = 0] /\ "fini" \in Places
    BY <1>1 DEF BlockersDone, Places
  <2>2. At("fini", bs.stopping, 0)
    BY <2>1, BsFini
  <2> QED BY <1>1, <2>2 DEF BlockersDone, Typed, At
<1>2. CASE ~Done
  <2>1. bs' \in BsType /\ bs'.stopping = bs.stopping /\ bs'.pc = "gone"
    BY <1>2, BsGone DEF BlockersDone
  <2> QED BY <1>2, <2>1 DEF BlockersDone, Typed
<1> QED BY <1>1, <1>2

\* A loop is freed, or the last was.
LEMMA LoopFiniDoes ==
  ASSUME Typed, LoopFini
  PROVE  /\ Typed' /\ bs.pc = "fini" /\ bs'.stopping = bs.stopping
         /\ \/ bs'.pc = "gone" /\ UNCHANGED <<flags, inbox, reload>>
            \/ /\ bs'.pc = "fini" /\ bs.i \in Thread
               /\ flags' = [flags EXCEPT ![bs.i] = @ \cup {"FREED"}]
               /\ inbox' = [inbox EXCEPT ![bs.i] = {}]
               /\ \/ /\ "reload" \in inbox[bs.i] /\ ~reload'.busy /\ ~reload'.again
                     /\ reload'.applied = reload.applied /\ reload'.last = reload.last
                  \/ "reload" \notin inbox[bs.i] /\ UNCHANGED reload
         /\ UNCHANGED <<blk, hand, state, orders, app, ask, relieving>>
<1>1. CASE bs.i > Loops
  <2>1. At("gone", bs.stopping, bs.i)
    BY <1>1, BsPc DEF LoopFini, Places
  <2> QED BY <1>1, <2>1 DEF LoopFini, Typed, At
<1>2. CASE ~(bs.i > Loops)
  <2>1. bs.i \in Thread /\ bs.i + 1 \in 0 .. Loops + 1
    BY <1>2, Fields DEF Thread, Client, HOME
  <2>2. At("fini", bs.stopping, bs.i + 1)
    BY <1>2, <2>1, BsNext DEF LoopFini
  <2>3. flags' \in [Thread -> SUBSET {"CREATED", "DRAINED", "FREED"}]
    BY <1>2, <2>1 DEF LoopFini, Typed
  <2>4. inbox' \in [Thread -> SUBSET Message]
    BY <1>2, <2>1 DEF LoopFini, Typed
  <2>5. /\ reload' \in ReloadType
        /\ \/ /\ "reload" \in inbox[bs.i] /\ ~reload'.busy /\ ~reload'.again
              /\ reload'.applied = reload.applied /\ reload'.last = reload.last
           \/ "reload" \notin inbox[bs.i] /\ UNCHANGED reload
    BY <1>2 DEF LoopFini, Dropped, Typed, ReloadType
  <2> QED BY <1>2, <2>1, <2>2, <2>3, <2>4, <2>5 DEF LoopFini, Typed, At
<1> QED BY <1>1, <1>2

-----------------------------------------------------------------------------
(* The loops.                                                              *)

ThreadRunsDoes(t) ==
  /\ state[t] = "STARTING" /\ state' \in {[state EXCEPT ![t] = "RUNNING"], [state EXCEPT ![t] = "EXITED"]}
  /\ UNCHANGED <<blk, hand, bs, flags, orders, inbox, app, ask, relieving, reload>>

\* What becomes of a loop's app.
ShareIs(t, x) ==
  /\ app' \in [Thread -> AppType]
  /\ \A u \in Thread :
       /\ app'[u].share = IF u = t THEN x ELSE app[u].share
       /\ app'[u].drain = app[u].drain /\ app'[u].alone = app[u].alone
       /\ app'[u].exit = app[u].exit /\ app'[u].taken = app[u].taken

ExitIs(t) ==
  /\ app' \in [Thread -> AppType]
  /\ \A u \in Thread :
       /\ app'[u].exit = (u = t \/ app[u].exit)
       /\ app'[u].drain = app[u].drain /\ app'[u].alone = app[u].alone
       /\ app'[u].share = app[u].share /\ app'[u].taken = app[u].taken

TakenIs(t, x) ==
  /\ app' \in [Thread -> AppType]
  /\ \A u \in Thread :
       /\ app'[u].taken = IF u = t THEN x ELSE app[u].taken
       /\ app'[u].drain = app[u].drain /\ app'[u].alone = app[u].alone
       /\ app'[u].share = app[u].share /\ app'[u].exit = app[u].exit

LEMMA AppSet ==
  ASSUME Typed, NEW t \in Thread
  PROVE  /\ \A x \in {"none", "share", "trim", "walking"} :
              app' = [app EXCEPT ![t].share = x] => ShareIs(t, x)
         /\ \A x \in BOOLEAN : app' = [app EXCEPT ![t].taken = x] => TakenIs(t, x)
         /\ app' = [app EXCEPT ![t].exit = TRUE] => ExitIs(t)
<1>1. ASSUME NEW x \in {"none", "share", "trim", "walking"}, app' = [app EXCEPT ![t].share = x]
      PROVE  ShareIs(t, x)
  BY <1>1 DEF Typed, AppType, ShareIs
<1>2. ASSUME NEW x \in BOOLEAN, app' = [app EXCEPT ![t].taken = x]
      PROVE  TakenIs(t, x)
  BY <1>2 DEF Typed, AppType, TakenIs
<1>3. ASSUME app' = [app EXCEPT ![t].exit = TRUE]
      PROVE  ExitIs(t)
  <2>1. app \in [Thread -> AppType]
    BY DEF Typed
  <2>2. app' \in [Thread -> AppType]
    BY <1>3, <2>1 DEF AppType
  <2>3. ASSUME NEW u \in Thread
        PROVE  app'[u] = IF u = t THEN [app[t] EXCEPT !.exit = TRUE] ELSE app[u]
    BY <1>3, <2>1
  <2>4. \A u \in Thread : app[u] \in AppType
    BY <2>1
  <2>5. ASSUME NEW u \in Thread
        PROVE  /\ app'[u].exit = (u = t \/ app[u].exit)
               /\ app'[u].drain = app[u].drain /\ app'[u].alone = app[u].alone
               /\ app'[u].share = app[u].share /\ app'[u].taken = app[u].taken
    <3>1. CASE u = t
      BY <2>3, <2>4, <3>1 DEF AppType
    <3>2. CASE u # t
      BY <2>3, <2>4, <3>2 DEF AppType
    <3> QED BY <3>1, <3>2
  <2> QED BY <2>2, <2>5 DEF ExitIs
<1> QED BY <1>1, <1>2, <1>3

\* A blocker takes one more.
Given(j) == blk' \in BlkType /\ blk'.queue = Append(blk.queue, j) /\ blk'.stop = blk.stop /\ ~blk.stop

LEMMA SubmittedDoes ==
  ASSUME Typed, NEW j \in Jobs, Takes, blk' = Submitted(j)
  PROVE  Given(j)
<1>1. Append(blk.queue, j) \in Seq(Jobs) /\ blk.signals + 1 \in Nat
  BY Fields
<1>2. blk' = [blk EXCEPT !.queue = Append(blk.queue, j), !.signals = blk.signals + 1]
  BY DEF Submitted
<1> DEFINE q == Append(blk.queue, j)
           n == blk.signals + 1
<1> HIDE DEF q, n
<1>3. blk' \in BlkType /\ blk'.queue = q /\ blk'.stop = blk.stop
  <2>1. q \in Seq(Jobs) /\ n \in Nat /\ blk' = [blk EXCEPT !.queue = q, !.signals = n]
    BY <1>1, <1>2 DEF q, n
  <2> QED BY <2>1 DEF Typed, BlkType
<1> QED BY <1>3 DEF Given, Takes, q

LEMMA ThreadRunsIs ==
  ASSUME Typed, NEW t \in Thread, ThreadRuns(t)
  PROVE  Typed' /\ ThreadRunsDoes(t)
BY DEF ThreadRuns, ThreadRunsDoes, Typed

LEMMA TakeOrderDoes ==
  ASSUME Typed, NEW t \in Thread, TakeOrder(t)
  PROVE  /\ Typed' /\ state[t] = "RUNNING" /\ "order" \in inbox[t] /\ TakenIs(t, TRUE)
         /\ \A u \in Thread : inbox'[u] = IF u = t THEN inbox[t] \ {"order"} ELSE inbox[u]
         /\ UNCHANGED <<blk, hand, bs, state, flags, orders, ask, relieving, reload>>
<1>1. TakenIs(t, TRUE)
  BY AppSet DEF TakeOrder
<1>2. /\ inbox' \in [Thread -> SUBSET Message]
      /\ \A u \in Thread : inbox'[u] = IF u = t THEN inbox[t] \ {"order"} ELSE inbox[u]
  BY DEF TakeOrder, Typed
<1> QED BY <1>1, <1>2 DEF TakeOrder, Typed, TakenIs

LEMMA UnreadIs ==
  ASSUME NEW r \in ReloadType
  PROVE  /\ Unread(r) \in ReloadType /\ Unread(r).busy = r.busy /\ Unread(r).again = r.again
         /\ Unread(r).last = r.last
         /\ "RELOAD" \notin orders[HOME]' => Unread(r).refused = r.last
BY DEF Unread, ReloadType

\* A reload r is ordered: it follows one under way, goes to a blocker, or is
\* refused.
ReloadedDoes(r) ==
  /\ \/ r.busy /\ reload'.busy /\ reload'.again /\ UNCHANGED blk
     \/ ~r.busy /\ reload'.busy /\ reload'.again = r.again /\ Given(<<"reload", HOME>>)
     \/ /\ ~r.busy /\ ~reload'.busy /\ reload'.again = r.again /\ UNCHANGED blk
        /\ "RELOAD" \notin orders[HOME]' => reload'.refused = r.last
  /\ reload'.last = r.last

LEMMA HomeReloadIs ==
  ASSUME Typed, NEW r \in ReloadType, HomeReload(r)
  PROVE  reload' \in ReloadType /\ blk' \in BlkType /\ ReloadedDoes(r)
<1>1. <<"reload", HOME>> \in Jobs
  BY Threads DEF Jobs
<1>2. CASE r.busy
  BY <1>2 DEF HomeReload, Typed, ReloadType, ReloadedDoes
<1>3. CASE ~r.busy /\ Takes
  <2>1. Given(<<"reload", HOME>>)
    BY <1>1, <1>3, SubmittedDoes DEF HomeReload
  <2>2. reload' = [r EXCEPT !.busy = TRUE]
    BY <1>3 DEF HomeReload
  <2>3. reload' \in ReloadType /\ reload'.busy /\ reload'.again = r.again /\ reload'.last = r.last
    BY <2>2 DEF ReloadType
  <2> QED BY <1>3, <2>1, <2>3 DEF ReloadedDoes, Given
<1>4. CASE ~r.busy /\ ~Takes
  <2>1. reload' = Unread(r) /\ UNCHANGED blk
    BY <1>4 DEF HomeReload
  <2> QED BY <1>4, <2>1, UnreadIs DEF ReloadedDoes, Typed
<1> QED BY <1>2, <1>3, <1>4

\* The orders are obeyed, or the loop has exited already.
LEMMA ObeyDoes ==
  ASSUME Typed, NEW t \in Thread, Obey(t)
  PROVE  /\ Typed' /\ state[t] = "RUNNING" /\ app[t].taken
         /\ \A u \in Thread : orders'[u] = IF u = t THEN {} ELSE orders[u]
         /\ \A u \in Thread : app'[u].exit = app[u].exit
         /\ \A u \in Thread : u # t => app'[u] = app[u]
         /\ ~app'[t].taken
         /\ \/ /\ app[t].exit /\ app'[t].drain = app[t].drain /\ app'[t].alone = app[t].alone
               /\ app'[t].share = app[t].share /\ UNCHANGED <<blk, reload>>
            \/ /\ ~app[t].exit
               /\ app'[t].share = IF "RELIEVE" \in orders[t] THEN "share" ELSE app[t].share
               /\ app'[t].drain = app[t].drain + (IF "DRAIN" \in orders[t] THEN 1 ELSE 0)
               /\ app'[t].alone = (app[t].alone \/ "ALONE" \in orders[t])
               /\ \/ "RELOAD" \in orders[t] /\ ReloadedDoes(reload)
                  \/ "RELOAD" \notin orders[t] /\ UNCHANGED <<blk, reload>>
         /\ UNCHANGED <<hand, bs, state, flags, inbox, ask, relieving>>
<1>1. /\ orders' \in [Thread -> SUBSET Orders]
      /\ \A u \in Thread : orders'[u] = IF u = t THEN {} ELSE orders[u]
  BY DEF Obey, Typed
<1>2. CASE app[t].exit
  <2>1. TakenIs(t, FALSE)
    BY <1>2, AppSet DEF Obey
  <2>2. \A u \in Thread : u # t => app'[u] = app[u]
    BY <1>2 DEF Obey, Typed
  <2> QED BY <1>1, <1>2, <2>1, <2>2 DEF Obey, Typed, TakenIs
<1>3. CASE ~app[t].exit
  <2> DEFINE s == IF "RELIEVE" \in orders[t] THEN "share" ELSE app[t].share
             d == app[t].drain + (IF "DRAIN" \in orders[t] THEN 1 ELSE 0)
             a == app[t].alone \/ "ALONE" \in orders[t]
             o == app[t].open \/ "OPEN" \in orders[t]
             r == [app[t] EXCEPT !.taken = FALSE, !.share = s, !.drain = d, !.alone = a, !.open = o]
  <2>1. app' = [app EXCEPT ![t] = r]
    BY <1>3 DEF Obey, Obeyed
  <2>2. /\ s \in {"none", "share", "trim", "walking"} /\ d \in Nat /\ a \in BOOLEAN /\ o \in BOOLEAN
        /\ app[t] \in AppType
    BY Fields
  <2> HIDE DEF s, d, a, o
  <2>4. /\ r \in AppType /\ ~r.taken /\ r.share = s /\ r.drain = d /\ r.alone = a
        /\ r.exit = app[t].exit
    BY <2>2 DEF AppType
  <2> HIDE DEF r
  <2>5. /\ app' \in [Thread -> AppType] /\ app'[t] = r
        /\ \A u \in Thread : u # t => app'[u] = app[u]
    BY <2>1, <2>4 DEF Typed
  <2>6. /\ reload' \in ReloadType /\ blk' \in BlkType
        /\ \/ "RELOAD" \in orders[t] /\ ReloadedDoes(reload)
           \/ "RELOAD" \notin orders[t] /\ UNCHANGED <<blk, reload>>
    BY <1>3, HomeReloadIs DEF Obey, Typed
  <2>7. /\ app'[t].share = s /\ app'[t].drain = d /\ app'[t].alone = a /\ ~app'[t].taken
        /\ app'[t].exit = app[t].exit
    BY <2>4, <2>5
  <2> USE DEF s, d, a, o
  <2>8. Typed'
    BY <1>1, <2>5, <2>6 DEF Obey, Typed
  <2>9. \A u \in Thread : app'[u].exit = app[u].exit
    BY <2>5, <2>7
  <2> QED BY <1>1, <1>3, <2>5, <2>6, <2>7, <2>8, <2>9 DEF Obey
<1> QED BY <1>2, <1>3

LEMMA RelievedDoes ==
  ASSUME Typed, NEW t \in Thread, Relieved(t)
  PROVE  /\ relieving' = relieving - 1 /\ state[t] = "RUNNING" /\ app[t].share = "share"
         /\ ShareIs(t, IF relieving = 2 THEN "trim" ELSE "none")
         /\ relieving # 0 => Typed'
         /\ UNCHANGED <<blk, hand, bs, state, flags, orders, inbox, ask, reload>>
<1>1. ShareIs(t, IF relieving = 2 THEN "trim" ELSE "none")
  BY AppSet DEF Relieved
<1>2. ASSUME relieving # 0 PROVE Typed'
  <2>1. relieving' \in Nat
    BY <1>2 DEF Relieved, Typed
  <2> QED BY <1>1, <2>1 DEF Relieved, ShareIs, Typed
<1> QED BY <1>1, <1>2 DEF Relieved

LEMMA TrimDoes ==
  ASSUME Typed, NEW t \in Thread, Trim(t)
  PROVE  /\ Typed' /\ state[t] = "RUNNING" /\ app[t].share = "trim"
         /\ \/ Given(<<"walk", t>>) /\ ShareIs(t, "walking") /\ UNCHANGED relieving
            \/ ShareIs(t, "none") /\ relieving' = 0 /\ UNCHANGED blk
         /\ UNCHANGED <<hand, bs, state, flags, orders, inbox, ask, reload>>
<1>1. CASE Takes /\ blk' = Submitted(<<"walk", t>>) /\ app' = [app EXCEPT ![t].share = "walking"]
           /\ UNCHANGED relieving
  <2>1. Given(<<"walk", t>>)
    BY <1>1, SubmittedDoes DEF Jobs
  <2>2. ShareIs(t, "walking")
    BY <1>1, AppSet
  <2> QED BY <1>1, <2>1, <2>2 DEF Trim, Typed, ShareIs, Given
<1>2. CASE app' = [app EXCEPT ![t].share = "none"] /\ relieving' = 0 /\ UNCHANGED blk
  <2>1. ShareIs(t, "none")
    BY <1>2, AppSet
  <2> QED BY <1>2, <2>1 DEF Trim, Typed, ShareIs
<1> QED BY <1>1, <1>2 DEF Trim

LEMMA WalkDoneDoes ==
  ASSUME Typed, NEW t \in Thread, WalkDone(t)
  PROVE  /\ Typed' /\ state[t] = "RUNNING" /\ "walk" \in inbox[t]
         /\ \A u \in Thread : inbox'[u] = IF u = t THEN inbox[t] \ {"walk"} ELSE inbox[u]
         /\ \/ app[t].exit /\ UNCHANGED <<app, relieving>>
            \/ ShareIs(t, "none") /\ relieving' = 0
         /\ UNCHANGED <<blk, hand, bs, state, flags, orders, ask, reload>>
<1>1. /\ inbox' \in [Thread -> SUBSET Message]
      /\ \A u \in Thread : inbox'[u] = IF u = t THEN inbox[t] \ {"walk"} ELSE inbox[u]
  BY DEF WalkDone, Typed
<1>2. CASE app[t].exit
  BY <1>1, <1>2 DEF WalkDone, Typed
<1>3. CASE ~app[t].exit
  <2>1. ShareIs(t, "none")
    BY <1>3, AppSet DEF WalkDone
  <2> QED BY <1>1, <1>3, <2>1 DEF WalkDone, Typed, ShareIs
<1> QED BY <1>2, <1>3

LEMMA LoopExitsDoes ==
  ASSUME Typed, NEW t \in Thread, LoopExits(t)
  PROVE  /\ Typed' /\ state[t] = "RUNNING" /\ ExitIs(t)
         /\ UNCHANGED <<blk, hand, bs, state, flags, orders, inbox, ask, relieving, reload>>
<1>1. ExitIs(t)
  BY AppSet DEF LoopExits
<1> QED BY <1>1 DEF LoopExits, Typed, ExitIs

LEMMA ThreadEndsDoes ==
  ASSUME Typed, NEW t \in Thread, ThreadEnds(t)
  PROVE  /\ Typed' /\ state[t] = "RUNNING" /\ app[t].exit /\ ShareIs(t, "none")
         /\ state' = [state EXCEPT ![t] = "EXITED"]
         /\ UNCHANGED <<blk, hand, bs, flags, orders, inbox, ask, relieving, reload>>
<1>1. ShareIs(t, "none")
  BY AppSet DEF ThreadEnds
<1> QED BY <1>1 DEF ThreadEnds, Typed, ShareIs

\* What was read is applied, refused or not taken.
LEMMA ReloadAppliedIs ==
  ASSUME NEW r \in ReloadType
  PROVE  LET a == ReloadApplied(r)
         IN  /\ a \in ReloadType /\ a.busy = r.busy /\ a.again = r.again /\ a.last = r.last
             /\ r.read \in {a.applied, a.refused, a.shut}
BY DEF ReloadApplied, ReloadType

\* A reload is done: another follows; or it is the last one's, that one is
\* refused or ordered, or the loop exits.
ReloadIsDone ==
  /\ \/ reload'.busy /\ Given(<<"reload", HOME>>)
     \/ /\ ~reload'.busy /\ UNCHANGED blk
        /\ \/ app[HOME].exit \/ "RELOAD" \in orders[HOME] \/ reload'.refused = reload.last
           \/ /\ ~reload.error /\ ~reload.again
              /\ reload.read \in {reload'.applied, reload'.refused, reload'.shut}
  /\ reload'.last = reload.last

LEMMA ReloadDoneDoes ==
  ASSUME Typed, ReloadDone
  PROVE  /\ Typed' /\ state[HOME] = "RUNNING" /\ "reload" \in inbox[HOME]
         /\ \A u \in Thread : inbox'[u] = IF u = HOME THEN inbox[HOME] \ {"reload"} ELSE inbox[u]
         /\ ReloadIsDone
         /\ UNCHANGED <<hand, bs, state, flags, orders, app, ask, relieving>>
<1> DEFINE done == [reload EXCEPT !.busy = FALSE, !.again = FALSE]
           a    == ReloadApplied(done)
<1>1. /\ done \in ReloadType /\ ~done.busy /\ ~done.again
      /\ done.last = reload.last /\ done.read = reload.read
  BY DEF Typed, ReloadType
<1>2. /\ \/ reload.error /\ reload' = Unread(done) /\ UNCHANGED blk
         \/ app[HOME].exit /\ reload' = done /\ UNCHANGED blk
         \/ ~reload.error /\ HomeReload(a)
         \/ ~reload.error /\ ~reload.again /\ reload' = a /\ UNCHANGED blk
      /\ UNCHANGED <<hand, bs, state, flags, orders, app, ask, relieving>>
  BY DEF ReloadDone
<1> HIDE DEF done
<1>3. /\ a \in ReloadType /\ ~a.busy /\ ~a.again /\ a.last = reload.last
      /\ reload.read \in {a.applied, a.refused, a.shut}
  BY <1>1, ReloadAppliedIs
<1> HIDE DEF a
<1>4. HOME \in Thread
  BY Threads
<1>5. reload' \in ReloadType /\ blk' \in BlkType /\ ReloadIsDone
  <2>1. CASE reload.error /\ reload' = Unread(done) /\ UNCHANGED blk
    BY <1>1, <1>2, <2>1, UnreadIs DEF Typed, ReloadIsDone
  <2>2. CASE app[HOME].exit /\ reload' = done /\ UNCHANGED blk
    BY <1>1, <2>2 DEF Typed, ReloadIsDone
  <2>3. CASE HomeReload(a)
    BY <1>2, <1>3, <2>3, HomeReloadIs DEF ReloadedDoes, ReloadIsDone
  <2>4. CASE ~reload.error /\ ~reload.again /\ reload' = a /\ UNCHANGED blk
    BY <1>3, <2>4 DEF Typed, ReloadIsDone
  <2> QED BY <1>2, <2>1, <2>2, <2>3, <2>4
<1>6. /\ inbox' \in [Thread -> SUBSET Message]
      /\ \A u \in Thread : inbox'[u] = IF u = HOME THEN inbox[HOME] \ {"reload"} ELSE inbox[u]
  BY <1>4 DEF ReloadDone, Typed
<1>7. Typed'
  BY <1>2, <1>5, <1>6 DEF Typed
<1> QED BY <1>2, <1>5, <1>6, <1>7 DEF ReloadDone

-----------------------------------------------------------------------------
(* The blockers.                                                           *)

LEMMA SignalsDoes ==
  ASSUME Typed, Signal
  PROVE  /\ blk' \in BlkType /\ blk'.queue = blk.queue /\ blk'.stop = blk.stop
         /\ hand' \in [Worker -> HandType]
         /\ \A w \in Worker : /\ hand'[w].job = hand[w].job
                              /\ hand'[w].at \in {hand[w].at, "lock"}
                              /\ hand'[w].at # hand[w].at => hand[w].at = "asleep"
<1>1. blk' \in BlkType /\ blk'.queue = blk.queue /\ blk'.stop = blk.stop
  <2> DEFINE n == blk.signals - 1
  <2>1. n \in Nat
    BY Fields DEF Signal
  <2> HIDE DEF n
  <2>2. blk' = [blk EXCEPT !.signals = n]
    BY DEF Signal, n
  <2> QED BY <2>1, <2>2 DEF Typed, BlkType
<1>2. CASE UNCHANGED hand
  BY <1>1, <1>2 DEF Typed
<1>3. ASSUME NEW v \in Worker, hand[v].at = "asleep", hand' = [hand EXCEPT ![v].at = "lock"]
      PROVE  /\ hand' \in [Worker -> HandType]
             /\ \A w \in Worker : /\ hand'[w].job = hand[w].job
                                  /\ hand'[w].at \in {hand[w].at, "lock"}
                                  /\ hand'[w].at # hand[w].at => hand[w].at = "asleep"
  BY <1>3 DEF Typed, HandType
<1> QED BY <1>1, <1>2, <1>3 DEF Signal

\* A blocker sleeps, ends, or takes the first job.
LEMMA NextJobDoes ==
  ASSUME Typed, NEW w \in Worker, NextJob(w)
  PROVE  /\ hand[w].at = "lock" /\ hand[w].job = None /\ blk' \in BlkType /\ hand' \in [Worker -> HandType]
         /\ \A v \in Worker : v # w => hand'[v] = hand[v]
         /\ \/ /\ blk.queue = <<>> /\ UNCHANGED blk /\ hand'[w].job = None
               /\ \/ hand'[w].at = "gone" /\ blk.stop
                  \/ hand'[w].at = "asleep"
            \/ /\ blk.queue # <<>> /\ blk'.queue = Tail(blk.queue) /\ blk'.stop = blk.stop
               /\ hand'[w].job = Head(blk.queue) /\ hand'[w].at \in {"work", "cancelled"}
<1>0. hand[w].at = "lock" /\ hand[w].job = None
  BY DEF NextJob, Typed
<1>1. CASE blk.queue = <<>>
  <2> DEFINE a == IF blk.stop THEN "gone" ELSE "asleep"
  <2>1. hand' = [hand EXCEPT ![w].at = a] /\ UNCHANGED blk
    BY <1>1 DEF NextJob
  <2>2. a \in {"gone", "asleep"}
    OBVIOUS
  <2> HIDE DEF a
  <2>3. /\ hand' \in [Worker -> HandType] /\ hand'[w].at = a /\ hand'[w].job = hand[w].job
        /\ \A v \in Worker : v # w => hand'[v] = hand[v]
    BY <2>1, <2>2 DEF Typed, HandType
  <2> QED BY <1>0, <1>1, <2>1, <2>3, Fields DEF a, Typed
<1>2. CASE blk.queue # <<>>
  <2> DEFINE a == IF blk.stop THEN "cancelled" ELSE "work"
             j == Head(blk.queue)
  <2>1. hand' = [hand EXCEPT ![w] = [at |-> a, job |-> j]] /\ blk' = [blk EXCEPT !.queue = Tail(blk.queue)]
    BY <1>2 DEF NextJob
  <2>2. a \in {"work", "cancelled"} /\ j \in Jobs /\ Tail(blk.queue) \in Seq(Jobs)
    BY <1>2, Fields
  <2> HIDE DEF a, j
  <2>3. [at |-> a, job |-> j] \in HandType
    BY <2>2 DEF HandType
  <2>4. /\ hand' \in [Worker -> HandType] /\ hand'[w].at = a /\ hand'[w].job = j
        /\ \A v \in Worker : v # w => hand'[v] = hand[v]
    BY <2>1, <2>3 DEF Typed
  <2> DEFINE q == Tail(blk.queue)
  <2> HIDE DEF q
  <2>5. blk' \in BlkType /\ blk'.queue = q /\ blk'.stop = blk.stop
    <3>1. q \in Seq(Jobs) /\ blk' = [blk EXCEPT !.queue = q]
      BY <2>1, <2>2 DEF q
    <3> QED BY <3>1 DEF Typed, BlkType
  <2> QED BY <1>0, <1>2, <2>2, <2>4, <2>5 DEF j, q
<1> QED BY <1>1, <1>2

LEMMA BlockedDoes ==
  ASSUME Typed, Blocked
  PROVE  /\ Typed'
         /\ \/ Signal
            \/ \E w \in Worker : NextJob(w)
         /\ UNCHANGED <<bs, state, flags, orders, inbox, app, ask, relieving, reload>>
<1>1. CASE Signal
  BY <1>1, SignalsDoes DEF Blocked, Typed
<1>2. ASSUME NEW w \in Worker, NextJob(w) PROVE Typed'
  <2>1. \A v \in Worker : v # w => hand'[v] = hand[v]
    BY <1>2, NextJobDoes
  <2>2. blk' \in BlkType /\ hand' \in [Worker -> HandType]
    BY <1>2, NextJobDoes
  <2>3. blk.queue # <<>> => Head(blk.queue) # None
    BY Fields, NoJob
  <2>4. hand'[w].job # None <=> hand'[w].at \in {"work", "cancelled"}
    BY <1>2, <2>3, NextJobDoes
  <2> QED BY <2>1, <2>2, <2>4 DEF Blocked, Typed
<1> QED BY <1>1, <1>2 DEF Blocked

\* The last configuration is read, unless the job was cancelled.
ReadDoes ==
  /\ reload'.busy = reload.busy /\ reload'.again = reload.again
  /\ reload'.applied = reload.applied /\ reload'.refused = reload.refused
  /\ reload'.shut = reload.shut /\ reload'.last = reload.last
  /\ reload'.error \/ reload'.read = reload.last

LEMMA ReadIs ==
  ASSUME NEW r \in ReloadType, NEW worked, NEW n \in Read(r, worked)
  PROVE  /\ n \in ReloadType /\ n.busy = r.busy /\ n.again = r.again /\ n.applied = r.applied
         /\ n.refused = r.refused /\ n.shut = r.shut /\ n.last = r.last
         /\ n.error \/ n.read = r.last
<1>1. CASE worked
  <2>1. PICK x \in BOOLEAN : n = [r EXCEPT !.read = r.last, !.wrong = x, !.error = FALSE]
    BY <1>1 DEF Read
  <2> QED BY <2>1 DEF ReloadType
<1>2. CASE ~worked
  <2>1. n = [r EXCEPT !.error = TRUE]
    BY <1>2 DEF Read
  <2> QED BY <2>1 DEF ReloadType
<1> QED BY <1>1, <1>2

\* The job goes from the thread's hands to its loop's inbox.
LEMMA WorkDoes ==
  ASSUME Typed, NEW w \in Worker, Work(w)
  PROVE  \E j \in Jobs :
           /\ Typed' /\ hand[w].job = j /\ hand'[w].job = None /\ hand'[w].at = "lock"
           /\ hand[w].at \in {"work", "cancelled"}
           /\ \A v \in Worker : v # w => hand'[v] = hand[v]
           /\ \A t \in Thread : inbox'[t] = IF t = j[2] THEN inbox[t] \cup {j[1]} ELSE inbox[t]
           /\ \/ j[1] = "walk" /\ UNCHANGED reload
              \/ j[1] = "reload" /\ ReadDoes
           /\ UNCHANGED <<blk, bs, state, flags, orders, app, ask, relieving>>
<1> DEFINE j == hand[w].job
<1>1. j \in Jobs /\ hand[w].at \in {"work", "cancelled"}
  BY Fields DEF Work, Typed
<1>2. j[1] \in {"walk", "reload"} /\ j[2] \in Thread
  BY <1>1 DEF Jobs
<1>3. Idle \in HandType /\ Idle.at = "lock" /\ Idle.job = None
  BY DEF Idle, HandType
<1>4. /\ hand' \in [Worker -> HandType] /\ hand'[w] = Idle
      /\ \A v \in Worker : v # w => hand'[v] = hand[v]
  BY <1>3 DEF Work, Freed, Typed
<1>5. /\ inbox' \in [Thread -> SUBSET Message]
      /\ \A t \in Thread : inbox'[t] = IF t = j[2] THEN inbox[t] \cup {j[1]} ELSE inbox[t]
  BY <1>2 DEF Work, Typed, Message
<1>6. CASE j[1] = "walk"
  <2>1. UNCHANGED reload
    BY <1>6 DEF Work
  <2>2. Typed'
    BY <1>3, <1>4, <1>5, <2>1 DEF Work, Typed
  <2> QED BY <1>1, <1>2, <1>3, <1>4, <1>5, <1>6, <2>1, <2>2 DEF Work
<1>7. CASE j[1] = "reload"
  <2>1. reload' \in Read(reload, hand[w].at = "work")
    BY <1>7 DEF Work
  <2>2. reload \in ReloadType
    BY DEF Typed
  <2>3. reload' \in ReloadType /\ ReadDoes
    BY <2>1, <2>2, ReadIs DEF ReadDoes
  <2>4. Typed'
    BY <1>3, <1>4, <1>5, <2>3 DEF Work, Typed
  <2> QED BY <1>1, <1>2, <1>3, <1>4, <1>5, <1>7, <2>3, <2>4 DEF Work
<1> QED BY <1>2, <1>6, <1>7

-----------------------------------------------------------------------------
(* Where the jobs are.                                                     *)

Jobbed == {"walk", "reload"}

\* No job comes.
NoMore == JobsOnce' /\ \A j \in Jobs : Around(j)' => Around(j)

LEMMA JobParts == \A j \in Jobs : j[1] \in Jobbed /\ j[2] \in Thread /\ j = <<j[1], j[2]>>
BY DEF Jobs, Jobbed

LEMMA JobsSame ==
  ASSUME Typed, JobsOnce, blk'.queue = blk.queue,
         \A w \in Worker : hand'[w].job = hand[w].job,
         \A t \in Thread : inbox'[t] \cap Jobbed \subseteq inbox[t]
  PROVE  NoMore
<1>1. \A j \in Jobs : (Back(j)' => Back(j)) /\ (Waits(j)' <=> Waits(j)) /\ (InHand(j)' <=> InHand(j))
  BY JobParts DEF Back, Waits, InHand
<1>2. \A j \in Jobs : Around(j)' => Around(j)
  BY <1>1 DEF Around
<1>3. \A m, n \in DOMAIN blk'.queue : blk'.queue[m] = blk'.queue[n] => m = n
  BY DEF JobsOnce
<1>4. \A v, w \in Worker : hand'[v].job = hand'[w].job /\ hand'[v].job # None => v = w
  BY DEF JobsOnce
<1> QED BY <1>1, <1>2, <1>3, <1>4 DEF NoMore, JobsOnce

LEMMA JobGiven ==
  ASSUME Typed, JobsOnce, NEW k \in Jobs, k[1] = "reload" => k[2] = HOME,
         ~Waits(k), ~InHand(k), ~Back(k)', Given(k),
         \A w \in Worker : hand'[w].job = hand[w].job,
         \A t \in Thread : inbox'[t] \cap Jobbed \subseteq inbox[t]
  PROVE  JobsOnce' /\ \A j \in Jobs : Around(j)' => Around(j) \/ j = k
<1>1. \A j \in Jobs : (Back(j)' => Back(j)) /\ (InHand(j)' <=> InHand(j))
  BY JobParts DEF Back, InHand
<1> DEFINE N == Len(blk.queue)
<1>2. /\ N \in Nat /\ DOMAIN blk.queue = 1 .. N /\ DOMAIN blk'.queue = 1 .. N + 1
      /\ \A n \in 1 .. N : blk'.queue[n] = blk.queue[n]
      /\ blk'.queue[N + 1] = k
  BY Fields DEF Given
<1>3. \A j \in Jobs : Waits(j)' <=> (Waits(j) \/ j = k)
  BY <1>2 DEF Waits
<1>4. \A j \in Jobs : Around(j)' => Around(j) \/ j = k
  BY <1>1, <1>3 DEF Around
<1>5. ASSUME NEW m \in DOMAIN blk'.queue, NEW n \in DOMAIN blk'.queue, blk'.queue[m] = blk'.queue[n]
      PROVE  m = n
  <2>1. \A i \in 1 .. N : blk.queue[i] # k
    BY <1>2 DEF Waits
  <2> QED BY <1>2, <1>5, <2>1 DEF JobsOnce
<1>6. \A v, w \in Worker : hand'[v].job = hand'[w].job /\ hand'[v].job # None => v = w
  BY DEF JobsOnce
<1>7. \A j \in Jobs : /\ Waits(j)' => ~InHand(j)' /\ ~Back(j)'
                      /\ InHand(j)' => ~Back(j)'
  BY <1>1, <1>3 DEF JobsOnce
<1>8. \A j \in Jobs : j[1] = "reload" /\ Around(j)' => j[2] = HOME
  BY <1>4 DEF JobsOnce
<1> QED BY <1>4, <1>5, <1>6, <1>7, <1>8 DEF JobsOnce

LEMMA JobTaken ==
  ASSUME Typed, JobsOnce, NEW w \in Worker, NextJob(w), UNCHANGED inbox
  PROVE  NoMore
<1>1. CASE blk.queue = <<>>
  <2>1. blk' = blk /\ \A v \in Worker : hand'[v].job = hand[v].job
    BY <1>1, NextJobDoes
  <2> QED BY <2>1, JobsSame
<1>2. CASE blk.queue # <<>>
  <2> DEFINE k == Head(blk.queue)
             N == Len(blk.queue)
  <2>1. /\ hand[w].job = None /\ hand'[w].job = k /\ blk'.queue = Tail(blk.queue)
        /\ \A v \in Worker : v # w => hand'[v] = hand[v]
    BY <1>2, NextJobDoes
  <2>2. /\ N \in Nat \ {0} /\ DOMAIN blk.queue = 1 .. N /\ DOMAIN blk'.queue = 1 .. N - 1
        /\ \A n \in 1 .. N - 1 : blk'.queue[n] = blk.queue[n + 1]
        /\ k = blk.queue[1] /\ k \in Jobs
    BY <1>2, <2>1, Fields
  <2> HIDE DEF k, N
  <2>3. \A n \in 1 .. N : n # 1 => blk.queue[n] # k
    BY <2>2 DEF JobsOnce
  <2>4. \A j \in Jobs : Waits(j)' <=> Waits(j) /\ j # k
    <3>1. ASSUME NEW j \in Jobs, NEW n \in 1 .. N - 1, blk'.queue[n] = j PROVE Waits(j) /\ j # k
      <4>1. n + 1 \in 1 .. N /\ n + 1 # 1 /\ blk.queue[n + 1] = j
        BY <2>2, <3>1
      <4> QED BY <2>2, <2>3, <4>1 DEF Waits
    <3>2. ASSUME NEW j \in Jobs, j # k, NEW n \in 1 .. N, blk.queue[n] = j PROVE Waits(j)'
      <4>1. n - 1 \in 1 .. N - 1 /\ blk'.queue[n - 1] = j
        BY <2>2, <3>2
      <4> QED BY <2>2, <4>1 DEF Waits
    <3> QED BY <2>2, <3>1, <3>2 DEF Waits
  <2>5. \A j \in Jobs : InHand(j)' <=> InHand(j) \/ j = k
    <3>1. \A j \in Jobs : j # None
      BY NoJob
    <3> QED BY <2>1, <3>1 DEF InHand
  <2>6. \A j \in Jobs : Back(j)' <=> Back(j)
    BY JobParts DEF Back
  <2>7. Waits(k) /\ ~InHand(k) /\ ~Back(k)
    BY <2>2 DEF Waits, JobsOnce
  <2>8. \A j \in Jobs : Around(j)' => Around(j)
    BY <2>4, <2>5, <2>6, <2>7 DEF Around
  <2>9. \A m, n \in DOMAIN blk'.queue : blk'.queue[m] = blk'.queue[n] => m = n
    <3> SUFFICES ASSUME NEW m \in 1 .. N - 1, NEW n \in 1 .. N - 1, blk'.queue[m] = blk'.queue[n]
                 PROVE  m = n
      BY <2>2
    <3>1. m + 1 \in 1 .. N /\ n + 1 \in 1 .. N /\ blk.queue[m + 1] = blk.queue[n + 1]
      BY <2>2
    <3>2. m + 1 = n + 1
      BY <2>2, <3>1 DEF JobsOnce
    <3> QED BY <2>2, <3>2
  <2>10. \A u, v \in Worker : hand'[u].job = hand'[v].job /\ hand'[u].job # None => u = v
    BY <2>1, <2>7 DEF JobsOnce, InHand
  <2>11. \A j \in Jobs : /\ Waits(j)' => ~InHand(j)' /\ ~Back(j)'
                         /\ InHand(j)' => ~Back(j)'
    BY <2>4, <2>5, <2>6, <2>7 DEF JobsOnce
  <2> QED BY <2>8, <2>9, <2>10, <2>11 DEF JobsOnce, NoMore
<1> QED BY <1>1, <1>2

LEMMA JobBack ==
  ASSUME Typed, JobsOnce, NEW w \in Worker, NEW k \in Jobs,
         hand[w].job = k, hand'[w].job = None, \A v \in Worker : v # w => hand'[v] = hand[v],
         UNCHANGED blk,
         \A t \in Thread : inbox'[t] = IF t = k[2] THEN inbox[t] \cup {k[1]} ELSE inbox[t]
  PROVE  NoMore
<1>1. ASSUME NEW j \in Jobs PROVE Back(j)' <=> Back(j) \/ j = k
  <2>1. j[2] \in Thread /\ k[2] \in Thread
    BY JobParts
  <2>2. j = k <=> j[1] = k[1] /\ j[2] = k[2]
    BY JobParts
  <2> QED BY <2>1, <2>2, ZenonT(40) DEF Back
<1>2. InHand(k) /\ \A v \in Worker : v # w => hand[v].job # k
  BY NoJob DEF InHand, JobsOnce
<1>3. \A j \in Jobs : InHand(j)' <=> InHand(j) /\ j # k
  BY <1>2, NoJob DEF InHand
<1>4. \A j \in Jobs : Waits(j)' <=> Waits(j)
  BY DEF Waits
<1>5. \A j \in Jobs : Around(j)' => Around(j)
  BY <1>1, <1>2, <1>3, <1>4 DEF Around
<1>6. \A m, n \in DOMAIN blk'.queue : blk'.queue[m] = blk'.queue[n] => m = n
  BY DEF JobsOnce
<1>7. \A u, v \in Worker : hand'[u].job = hand'[v].job /\ hand'[u].job # None => u = v
  BY DEF JobsOnce
<1>8. \A j \in Jobs : /\ Waits(j)' => ~InHand(j)' /\ ~Back(j)'
                      /\ InHand(j)' => ~Back(j)'
  BY <1>1, <1>2, <1>3, <1>4 DEF JobsOnce
<1> QED BY <1>5, <1>6, <1>7, <1>8 DEF JobsOnce, NoMore

-----------------------------------------------------------------------------
(* What keeps each part of the invariant.                                  *)

\* No thread starts to run, or becomes young.
NoneRuns == \A t \in Thread : state'[t] = "RUNNING" => state[t] = "RUNNING"
NoneYoung == \A t \in Thread : Young(t)' => Young(t)

LEMMA YoungIdle == ASSUME Births, NEW t \in Thread, Young(t) PROVE state[t] # "RUNNING"
BY DEF Births, Young

LEMMA EndedKept ==
  ASSUME Ended, blk'.queue = blk.queue, blk.stop => blk'.stop,
         \A w \in Worker : hand'[w].at = "gone" => hand[w].at = "gone"
  PROVE  Ended'
BY DEF Ended

\* Nothing comes to a young thread.
Spared(t) ==
  /\ "DRAINED" \in flags'[t] => "DRAINED" \in flags[t]
  /\ orders'[t] = orders[t] /\ ("order" \in inbox'[t] => "order" \in inbox[t])
  /\ app'[t].taken = app[t].taken

LEMMA BirthsKept ==
  ASSUME Births, NoneYoung,
         bs'.pc = "start" => bs'.i \in Thread /\ \A t \in Thread : t > bs'.i => state'[t] = "JOINED",
         \A t \in Thread : state'[t] = "STARTING" => bs'.pc \in {"start", "forced"} /\ t = bs'.i,
         \A t \in Thread : Young(t)' => Spared(t) /\ (Around(<<"walk", t>>)' => Around(<<"walk", t>>)),
         Young(HOME)' => /\ reload'.applied = reload.applied /\ reload'.last = reload.last
                         /\ Around(<<"reload", HOME>>)' => Around(<<"reload", HOME>>)
  PROVE  Births'
<1>1. HOME \in Thread
  BY Threads
<1>2. ASSUME NEW t \in Thread, Young(t)'
      PROVE  /\ "DRAINED" \notin flags'[t] /\ orders'[t] = {} /\ "order" \notin inbox'[t]
             /\ ~app'[t].taken /\ ~Around(<<"walk", t>>)'
  <2>1. Young(t) /\ Spared(t) /\ (Around(<<"walk", t>>)' => Around(<<"walk", t>>))
    BY <1>2 DEF NoneYoung
  <2>2. /\ "DRAINED" \notin flags[t] /\ orders[t] = {} /\ "order" \notin inbox[t]
        /\ ~app[t].taken /\ ~Around(<<"walk", t>>)
    BY <2>1 DEF Births
  <2> QED BY <2>1, <2>2 DEF Spared
<1>3. Young(HOME)' => reload'.applied = reload'.last /\ ~Around(<<"reload", HOME>>)'
  BY <1>1 DEF NoneYoung, Births
<1> QED BY <1>2, <1>3 DEF Births

LEMMA ArriveKept ==
  ASSUME Arrive, NoneRuns,
         \A t \in Thread : state'[t] = "RUNNING" =>
           /\ orders'[t] = orders[t] /\ app'[t].taken = app[t].taken
           /\ "order" \in inbox'[t] <=> "order" \in inbox[t]
  PROVE  Arrive'
BY DEF Arrive, NoneRuns

LEMMA ArriveOrdered ==
  ASSUME Arrive, NoneRuns, UNCHANGED app, NEW T, NEW bit, Ordered(T, bit)
  PROVE  Arrive'
<1> SUFFICES ASSUME NEW t \in Thread, state'[t] = "RUNNING"
             PROVE  /\ orders'[t] # {} <=> ("order" \in inbox'[t] \/ app'[t].taken)
                    /\ app'[t].taken => "order" \notin inbox'[t]
  BY DEF Arrive
<1>1. /\ orders[t] # {} <=> ("order" \in inbox[t] \/ app[t].taken)
      /\ app[t].taken => "order" \notin inbox[t]
  BY DEF Arrive, NoneRuns
<1>2. /\ orders'[t] = IF t \in T THEN orders[t] \cup {bit} ELSE orders[t]
      /\ inbox'[t] = IF t \in T /\ orders[t] = {} THEN inbox[t] \cup {"order"} ELSE inbox[t]
  BY DEF Ordered
<1> QED BY <1>1, <1>2

\* The stop goes on only if it did.
LEMMA DrainingKept ==
  ASSUME Draining, NoneRuns,
         \A t \in Thread : /\ "DRAIN" \in orders'[t] <=> "DRAIN" \in orders[t]
                           /\ "DRAINED" \in flags'[t] <=> "DRAINED" \in flags[t]
                           /\ app'[t].drain = app[t].drain /\ (app[t].exit => app'[t].exit),
         bs'.stopping /\ bs'.pc \notin {"start", "forced"} =>
           \/ bs.stopping /\ bs.pc \notin {"start", "forced"}
           \/ \A t \in Thread : state'[t] # "RUNNING"
  PROVE  Draining'
<1>1. ASSUME NEW t \in Thread
      PROVE  /\ "DRAIN" \in orders'[t] => "DRAINED" \in flags'[t] /\ app'[t].drain = 0
             /\ app'[t].drain \in {0, 1} /\ (app'[t].drain = 1 => "DRAINED" \in flags'[t])
             /\ state'[t] = "RUNNING" /\ "DRAINED" \in flags'[t] =>
                  "DRAIN" \in orders'[t] \/ app'[t].drain = 1 \/ app'[t].exit
  BY DEF Draining, NoneRuns
<1>2. ASSUME bs'.stopping /\ bs'.pc \notin {"start", "forced"}, NEW t \in Thread, state'[t] = "RUNNING"
      PROVE  "DRAINED" \in flags'[t]
  <2>1. bs.stopping /\ bs.pc \notin {"start", "forced"} /\ state[t] = "RUNNING"
    BY <1>2 DEF NoneRuns
  <2>2. "DRAINED" \in flags[t]
    BY <2>1 DEF Draining, Running
  <2> QED BY <2>2
<1> QED BY <1>1, <1>2 DEF Draining, Running

LEMMA DrainingDrained ==
  ASSUME Draining, NoneRuns, UNCHANGED app, Drained
  PROVE  Draining'
<1> DEFINE D(t) == state[t] = "RUNNING" /\ "DRAINED" \notin flags[t]
<1>1. ASSUME NEW t \in Thread
      PROVE  /\ orders'[t] = IF D(t) THEN orders[t] \cup {"DRAIN"} ELSE orders[t]
             /\ flags'[t] = IF D(t) THEN flags[t] \cup {"DRAINED"} ELSE flags[t]
  BY DEF Drained, Ordered, Running
<1>2. ASSUME NEW t \in Thread
      PROVE  /\ "DRAIN" \in orders'[t] => "DRAINED" \in flags'[t] /\ app'[t].drain = 0
             /\ app'[t].drain \in {0, 1} /\ (app'[t].drain = 1 => "DRAINED" \in flags'[t])
             /\ state'[t] = "RUNNING" /\ "DRAINED" \in flags'[t] =>
                  "DRAIN" \in orders'[t] \/ app'[t].drain = 1 \/ app'[t].exit
             /\ state'[t] = "RUNNING" => "DRAINED" \in flags'[t]
  BY <1>1 DEF Draining, NoneRuns
<1> QED BY <1>2 DEF Draining, Running

LEMMA SharesFinite ==
  /\ IsFiniteSet(Shares) /\ Cardinality(Shares) \in Nat
  /\ IsFiniteSet(Trims) /\ Cardinality(Trims) \in Nat
  /\ Cardinality(Shares) = 0 <=> Shares = {}
  /\ Cardinality(Trims) = 0 <=> Trims = {}
<1>1. IsFiniteSet(Shares) /\ IsFiniteSet(Trims)
  BY ThreadsFinite, FS_Subset DEF Shares, Trims
<1> QED BY <1>1, FS_CardinalityType, FS_EmptySet

\* A share or a walk is where it was.
Shared ==
  \A t \in Thread :
    /\ t \in ask => "RELIEVE" \notin orders[t] /\ app[t].share # "share"
    /\ "RELIEVE" \in orders[t] => app[t].share # "share"
    /\ Around(<<"walk", t>>) /\ state[t] = "RUNNING" => app[t].share = "walking"

Counted ==
  /\ Cardinality(Trims) <= 1
  /\ Trims # {} => relieving = 1 /\ Shares = {}
  /\ Cardinality(Shares) > 0 => relieving >= Cardinality(Shares) + 1
  /\ Calm => relieving = IF Shares = {} THEN Cardinality(Trims) ELSE Cardinality(Shares) + 1

LEMMA ReliefParts == Relief <=> Shared /\ Counted
BY DEF Relief, Shared, Counted

LEMMA CountedKept ==
  ASSUME Counted, Shares' = Shares, Trims' = Trims, UNCHANGED relieving, Calm' => Calm
  PROVE  Counted'
BY DEF Counted

\* Shares are dropped, not while all is calm.
LEMMA SharesFewer ==
  ASSUME Typed, Counted, Shares' \subseteq Shares, Trims' \subseteq Trims, UNCHANGED relieving, ~Calm'
  PROVE  Counted'
<1>1. Cardinality(Shares') <= Cardinality(Shares) /\ Cardinality(Trims') <= Cardinality(Trims)
  BY SharesFinite, FS_Subset
<1>2. Cardinality(Shares') \in Nat /\ Cardinality(Trims') \in Nat /\ IsFiniteSet(Shares')
  BY SharesFinite, FS_Subset, FS_CardinalityType
<1>3. Cardinality(Shares) \in Nat /\ Cardinality(Trims) \in Nat
  BY SharesFinite
<1>4. Cardinality(Shares') > 0 => Cardinality(Shares) > 0
  BY <1>1, <1>2, <1>3
<1>5. Trims' # {} => relieving' = 1 /\ Shares' = {}
  BY DEF Counted
<1>6. Cardinality(Shares') > 0 => relieving >= Cardinality(Shares) + 1
  BY <1>4 DEF Counted
<1>7. ASSUME Cardinality(Shares') > 0 PROVE relieving' >= Cardinality(Shares') + 1
  <2>1. relieving >= Cardinality(Shares) + 1
    BY <1>6, <1>7
  <2>2. relieving' = relieving /\ relieving \in Nat
    BY DEF Typed
  <2> QED BY <1>1, <1>2, <1>3, <2>1, <2>2
<1>8. Cardinality(Trims') <= 1
  BY <1>1, <1>2, <1>3 DEF Counted
<1> QED BY <1>5, <1>7, <1>8 DEF Counted

LEMMA CalmKept ==
  ASSUME Typed, bs.stopping => bs'.stopping,
         \A t \in Thread : app[t].exit => app'[t].exit,
         bs'.stopping \/ \A t \in Thread : state[t] = "EXITED" => state'[t] = "EXITED"
  PROVE  Calm' => Calm
BY DEF Calm, Exited

LEMMA ReliefKept ==
  ASSUME Typed, Relief, NoneRuns, UNCHANGED <<ask, relieving>>,
         \A t \in Thread : state[t] = "RUNNING" => state'[t] = "RUNNING" \/ t \notin ask,
         \A t \in Thread : /\ "RELIEVE" \in orders'[t] <=> "RELIEVE" \in orders[t]
                           /\ app'[t].share = app[t].share
                           /\ state'[t] = "RUNNING" /\ Around(<<"walk", t>>)' => Around(<<"walk", t>>),
         Calm' => Calm
  PROVE  Relief'
<1>1. Shared /\ Counted
  BY ReliefParts
<1>2. Shared'
  BY <1>1 DEF Shared, NoneRuns
<1>3. Shares' = Shares
  BY DEF Shares, NoneRuns
<1>4. Trims' = Trims
  BY DEF Trims
<1>5. Counted'
  BY <1>1, <1>3, <1>4, CountedKept
<1> QED BY <1>2, <1>5 DEF Relief, Shared, Counted

LEMMA ReloadsKept ==
  ASSUME Typed, Reloads, UNCHANGED reload, state'[HOME] = "RUNNING" => state[HOME] = "RUNNING",
         Around(<<"reload", HOME>>)' => Around(<<"reload", HOME>>),
         "reload" \in inbox'[HOME] => "reload" \in inbox[HOME],
         "RELOAD" \in orders'[HOME] <=> "RELOAD" \in orders[HOME],
         app[HOME].exit => app'[HOME].exit
  PROVE  Reloads'
<1>1. HOME \in Running <=> state[HOME] = "RUNNING"
  BY Threads DEF Running
<1>2. HOME \in Running' <=> state'[HOME] = "RUNNING"
  BY Threads DEF Running
<1> QED BY <1>1, <1>2 DEF Reloads, LastReloadAnswered

-----------------------------------------------------------------------------
(* The brainstem's steps.                                                  *)

LEMMA OrderedOnly ==
  ASSUME NEW T, NEW bit, Ordered(T, bit)
  PROVE  \A t \in Thread :
           /\ \A b : b # bit => (b \in orders'[t] <=> b \in orders[t])
           /\ \A x : x # "order" => (x \in inbox'[t] <=> x \in inbox[t])
           /\ t \notin T => orders'[t] = orders[t] /\ inbox'[t] = inbox[t]
BY DEF Ordered

LEMMA DrainedOnly ==
  ASSUME Drained
  PROVE  \A t \in Thread :
           /\ \A b : b # "DRAIN" => (b \in orders'[t] <=> b \in orders[t])
           /\ \A x : x # "order" => (x \in inbox'[t] <=> x \in inbox[t])
           /\ \A f : f # "DRAINED" => (f \in flags'[t] <=> f \in flags[t])
           /\ state[t] # "RUNNING" =>
                orders'[t] = orders[t] /\ inbox'[t] = inbox[t] /\ flags'[t] = flags[t]
<1> DEFINE T == {t \in Running : "DRAINED" \notin flags[t]}
<1>1. Ordered(T, "DRAIN")
  BY DEF Drained
<1>2. \A t \in Thread : state[t] # "RUNNING" => t \notin T
  BY DEF Running
<1>3. \A t \in Thread : flags'[t] = IF t \in T THEN flags[t] \cup {"DRAINED"} ELSE flags[t]
  BY DEF Drained
<1> HIDE DEF T
<1> QED BY <1>1, <1>2, <1>3, OrderedOnly

\* Orders change in one of these ways.
Posted ==
  \/ UNCHANGED <<orders, inbox>>
  \/ \E T, bit : Ordered(T, bit)

LEMMA ArrivePosted ==
  ASSUME Arrive, NoneRuns, UNCHANGED app, Posted
  PROVE  Arrive'
<1>1. CASE UNCHANGED <<orders, inbox>>
  BY <1>1, ArriveKept
<1>2. ASSUME NEW T, NEW bit, Ordered(T, bit) PROVE Arrive'
  BY <1>2, ArriveOrdered
<1> QED BY <1>1, <1>2 DEF Posted

LEMMA PostedJobs ==
  ASSUME Posted, NEW t \in Thread
  PROVE  \A x : x # "order" => (x \in inbox'[t] <=> x \in inbox[t])
BY OrderedOnly DEF Posted

\* The blockers and what they hold are as they were.
LEMMA Aside ==
  ASSUME LifeInv, UNCHANGED <<blk, hand>>, Posted
  PROVE  JobsOnce' /\ Ended' /\ NoMore /\ \A j \in Jobs : Around(j)' => Around(j)
<1>1. \A t \in Thread : inbox'[t] \cap Jobbed \subseteq inbox[t]
  BY PostedJobs DEF Jobbed
<1>2. NoMore
  BY <1>1, JobsSame DEF LifeInv
<1> QED BY <1>2, EndedKept DEF NoMore, LifeInv

LEMMA JobKinds ==
  /\ <<"reload", HOME>> \in Jobs
  /\ \A t \in Thread : <<"walk", t>> \in Jobs
BY Threads DEF Jobs

LEMMA DrainedPosted == Drained => Posted
BY DEF Drained, Posted

LEMMA StartThreadKeeps == ASSUME LifeInv, StartThread PROVE LifeInv'
<1>1. Typed /\ JobsOnce /\ Ended /\ Births /\ Arrive /\ Draining /\ Stopping /\ Relief /\ Reloads
  BY DEF LifeInv
<1>2. /\ Typed' /\ bs.pc = "start" /\ bs.i \in Thread /\ state[bs.i] = "JOINED"
      /\ \/ /\ state' = [state EXCEPT ![bs.i] = "STARTING"]
            /\ flags' = [flags EXCEPT ![bs.i] = {"CREATED"}] /\ UNCHANGED <<bs, orders, inbox>>
         \/ At("clients", TRUE, bs.i) /\ Drained /\ UNCHANGED state
      /\ UNCHANGED <<blk, hand, app, ask, relieving, reload>>
  BY <1>1, StartThreadDoes
<1>3. Young(bs.i) /\ "DRAINED" \notin flags[bs.i]
  BY <1>1, <1>2 DEF Young, Births
<1>4. Posted
  BY <1>2, DrainedPosted DEF Posted
<1>5. JobsOnce' /\ Ended' /\ \A j \in Jobs : Around(j)' => Around(j)
  BY <1>2, <1>4, Aside
<1>6. NoneRuns /\ \A t \in Thread : state[t] = "RUNNING" => state'[t] = "RUNNING"
  BY <1>1, <1>2 DEF NoneRuns, Typed
<1>7. Arrive'
  BY <1>1, <1>2, <1>4, <1>6, ArrivePosted
<1>8. CASE /\ state' = [state EXCEPT ![bs.i] = "STARTING"]
           /\ flags' = [flags EXCEPT ![bs.i] = {"CREATED"}] /\ UNCHANGED <<bs, orders, inbox>>
  <2>1. \A t \in Thread : /\ state'[t] = IF t = bs.i THEN "STARTING" ELSE state[t]
                          /\ flags'[t] = IF t = bs.i THEN {"CREATED"} ELSE flags[t]
    BY <1>1, <1>8 DEF Typed
  <2>2. NoneYoung
    BY <1>2, <1>3, <1>8, <2>1 DEF NoneYoung, Young
  <2>3. \A t \in Thread : Spared(t)
    BY <1>2, <1>8, <2>1 DEF Spared
  <2>4. \A t \in Thread : t > bs.i => t # bs.i
    BY <1>2, Threads
  <2>5. Births'
    <3>1. bs'.pc = "start" => bs'.i \in Thread /\ \A t \in Thread : t > bs'.i => state'[t] = "JOINED"
      BY <1>1, <1>2, <1>8, <2>1, <2>4 DEF Births
    <3>2. \A t \in Thread : state'[t] = "STARTING" => bs'.pc \in {"start", "forced"} /\ t = bs'.i
      BY <1>1, <1>2, <1>8, <2>1 DEF Births
    <3> QED BY <1>1, <1>2, <1>5, <2>2, <2>3, <3>1, <3>2, BirthsKept, JobKinds
  <2>6. Draining'
    BY <1>1, <1>2, <1>3, <1>6, <1>8, <2>1, DrainingKept
  <2>7. Stopping'
    <3>1. ~app[HOME].alone /\ "ALONE" \notin orders[HOME] /\ \A t \in Thread : "FREED" \notin flags[t]
      BY <1>1, <1>2 DEF Stopping
    <3> QED BY <1>2, <1>8, <2>1, <3>1 DEF Stopping
  <2>8. Calm' => Calm
    BY <1>1, <1>2, <1>8, <2>1, CalmKept
  <2>9. Relief'
    BY <1>1, <1>2, <1>5, <1>6, <1>8, <2>8, ReliefKept, JobKinds
  <2>10. Reloads'
    BY <1>1, <1>2, <1>5, <1>6, <1>8, ReloadsKept, JobKinds, Threads DEF NoneRuns
  <2> QED BY <1>2, <1>5, <1>7, <2>5, <2>6, <2>7, <2>9, <2>10 DEF LifeInv
<1>9. CASE At("clients", TRUE, bs.i) /\ Drained /\ UNCHANGED state
  <2>0. bs'.pc = "clients" /\ bs'.stopping
    BY <1>9 DEF At
  <2>1. \A t \in Thread :
           /\ \A b : b # "DRAIN" => (b \in orders'[t] <=> b \in orders[t])
           /\ \A x : x # "order" => (x \in inbox'[t] <=> x \in inbox[t])
           /\ \A f : f # "DRAINED" => (f \in flags'[t] <=> f \in flags[t])
           /\ state[t] # "RUNNING" =>
                orders'[t] = orders[t] /\ inbox'[t] = inbox[t] /\ flags'[t] = flags[t]
    BY <1>9, DrainedOnly
  <2>2. \A t \in Thread : ~Young(t)'
    BY <1>1, <1>2, <1>9, <2>0 DEF Young, Births
  <2>5. Births'
    BY <1>1, <1>2, <1>9, <2>0, <2>2, Threads DEF Births, Young
  <2>6. Draining'
    BY <1>1, <1>2, <1>6, <1>9, DrainingDrained
  <2>7. Stopping'
    <3>1. ~app[HOME].alone /\ "ALONE" \notin orders[HOME] /\ \A t \in Thread : "FREED" \notin flags[t]
      BY <1>1, <1>2 DEF Stopping
    <3>2. ~app'[HOME].alone /\ "ALONE" \notin orders'[HOME] /\ \A t \in Thread : "FREED" \notin flags'[t]
      BY <1>2, <2>1, <3>1, Threads
    <3> QED BY <2>0, <3>2 DEF Stopping
  <2>8. Calm' => Calm
    BY <1>1, <1>2, <1>9, <2>0, CalmKept
  <2>9. Relief'
    BY <1>1, <1>2, <1>5, <1>6, <1>9, <2>1, <2>8, ReliefKept, JobKinds
  <2>10. Reloads'
    BY <1>1, <1>2, <1>5, <1>6, <1>9, <2>1, ReloadsKept, JobKinds, Threads DEF NoneRuns
  <2> QED BY <1>2, <1>5, <1>7, <2>5, <2>6, <2>7, <2>9, <2>10 DEF LifeInv
<1> QED BY <1>2, <1>8, <1>9

\* The brainstem moves on, and drains the threads or gives no order: all is
\* kept but what the stop's order says of the place it comes to.
LEMMA Goes ==
  ASSUME LifeInv, Typed',
         blk'.queue = blk.queue, blk.stop => blk'.stop,
         \A w \in Worker : hand'[w].job = hand[w].job /\ (hand'[w].at = "gone" => hand[w].at = "gone"),
         UNCHANGED <<app, ask, relieving, reload>>,
         \A t \in Thread : state'[t] = "RUNNING" <=> state[t] = "RUNNING",
         \/ Drained
         \/ /\ UNCHANGED <<flags, orders, inbox>>
            /\ bs'.stopping /\ bs'.pc \notin {"start", "forced"} =>
                 bs.stopping /\ bs.pc \notin {"start", "forced"},
         bs.stopping => bs'.stopping,
         bs'.stopping \/ \A t \in Thread : state[t] = "EXITED" => state'[t] = "EXITED",
         NoneYoung,
         bs'.pc = "start" => bs'.i \in Thread /\ \A t \in Thread : t > bs'.i => state'[t] = "JOINED",
         \A t \in Thread : state'[t] = "STARTING" => bs'.pc \in {"start", "forced"} /\ t = bs'.i
  PROVE  JobsOnce' /\ Ended' /\ Births' /\ Arrive' /\ Draining' /\ Relief' /\ Reloads'
<1>1. Typed /\ JobsOnce /\ Ended /\ Births /\ Arrive /\ Draining /\ Stopping /\ Relief /\ Reloads
  BY DEF LifeInv
<1>2. Posted /\ NoneRuns
  BY DrainedPosted DEF Posted, NoneRuns
<1>3. JobsOnce' /\ \A j \in Jobs : Around(j)' => Around(j)
  <2>1. \A t \in Thread : inbox'[t] \cap Jobbed \subseteq inbox[t]
    BY <1>2, PostedJobs DEF Jobbed
  <2> QED BY <1>1, <2>1, JobsSame DEF NoMore
<1>4. \A t \in Thread :
        /\ \A b : b # "DRAIN" => (b \in orders'[t] <=> b \in orders[t])
        /\ \A x : x # "order" => (x \in inbox'[t] <=> x \in inbox[t])
        /\ state[t] # "RUNNING" =>
             orders'[t] = orders[t] /\ inbox'[t] = inbox[t] /\ flags'[t] = flags[t]
  BY DrainedOnly
<1>5. Ended'
  BY <1>1, EndedKept
<1>6. Births'
  <2>1. \A t \in Thread : Young(t)' => Spared(t)
    BY <1>1, <1>4, YoungIdle DEF Spared, NoneYoung
  <2> QED BY <1>1, <1>3, <2>1, BirthsKept, JobKinds
<1>7. Arrive'
  BY <1>1, <1>2, ArrivePosted
<1>8. Draining'
  <2>1. CASE Drained
    BY <1>1, <1>2, <2>1, DrainingDrained
  <2>2. CASE ~Drained
    BY <1>1, <1>2, <2>2, DrainingKept
  <2> QED BY <2>1, <2>2
<1>9. Relief'
  <2>1. Calm' => Calm
    BY <1>1, CalmKept
  <2> QED BY <1>1, <1>2, <1>3, <1>4, <2>1, ReliefKept, JobKinds
<1>10. Reloads'
  BY <1>1, <1>3, <1>4, ReloadsKept, JobKinds, Threads
<1> QED BY <1>3, <1>5, <1>6, <1>7, <1>8, <1>9, <1>10

\* None starts once the brainstem has left the start.
LEMMA NoneStarting ==
  ASSUME LifeInv, bs.pc \notin {"start", "forced"}
  PROVE  \A t \in Thread : state[t] # "STARTING" /\ ~Young(t)
BY DEF LifeInv, Births, Young

\* It has to do so with the thread that it starts reported.
LEMMA NoneToStart ==
  ASSUME LifeInv, bs.pc = "start", state[bs.i] \in {"RUNNING", "EXITED"}
  PROVE  \A t \in Thread : state[t] # "STARTING" /\ (Young(t) => t > bs.i)
BY DEF LifeInv, Births, Young

\* Early in the stop, or before, home is not alone and nothing is freed.
LEMMA NotYet ==
  ASSUME LifeInv
  PROVE  /\ bs.pc \in {"start", "clients", "home"} => ~app[HOME].alone /\ "ALONE" \notin orders[HOME]
         /\ bs.pc \notin {"fini", "gone"} => \A t \in Thread : "FREED" \notin flags[t]
BY DEF LifeInv, Stopping

LEMMA StartedKeeps == ASSUME LifeInv, Started PROVE LifeInv'
<1>1. Typed /\ JobsOnce /\ Ended /\ Births /\ Arrive /\ Draining /\ Stopping /\ Relief /\ Reloads
  BY DEF LifeInv
<1>2. bs.pc = "start" /\ bs.i \in Thread
  BY <1>1 DEF Started, Births
<1>3. /\ Typed' /\ ask = {} /\ state[bs.i] \in {"RUNNING", "EXITED"}
      /\ UNCHANGED <<blk, hand, state, app, ask, relieving, reload>>
  BY <1>1, <1>2, StartedDoes
<1>4. \A t \in Thread : state[t] # "STARTING" /\ (Young(t) => t > bs.i)
  BY <1>2, <1>3, NoneToStart
<1>5. /\ ~app'[HOME].alone /\ "ALONE" \notin orders[HOME]
      /\ \A t \in Thread : "FREED" \notin flags[t]
  BY <1>2, <1>3, NotYet
<1>6. CASE /\ state[bs.i] = "RUNNING" /\ ~bs.stopping /\ bs.i < Loops
           /\ At("start", bs.stopping, bs.i + 1) /\ UNCHANGED <<flags, orders, inbox>>
  <2>1. bs'.pc = "start" /\ bs'.stopping = bs.stopping /\ bs'.i = bs.i + 1 /\ bs'.i \in Thread
    BY <1>2, <1>6, Fields, <1>1 DEF At, Thread, Client, HOME
  <2>2. ASSUME NEW t \in Thread, t > bs'.i \/ t = bs'.i PROVE t > bs.i
    <3>1. t \in Nat /\ bs.i \in Nat
      BY <1>2, Threads
    <3> QED BY <2>1, <2>2, <3>1
  <2>3. NoneYoung
    BY <1>2, <1>3, <1>4, <2>1, <2>2 DEF NoneYoung, Young
  <2>4. \A t \in Thread : t > bs'.i => state'[t] = "JOINED"
    BY <1>1, <1>2, <1>3, <2>2 DEF Births
  <2>5. JobsOnce' /\ Ended' /\ Births' /\ Arrive' /\ Draining' /\ Relief' /\ Reloads'
    BY <1>2, <1>3, <1>4, <1>6, <2>1, <2>3, <2>4, Goes
  <2>6. Stopping'
    BY <1>5, <1>6, <2>1 DEF Stopping
  <2> QED BY <1>3, <2>5, <2>6 DEF LifeInv
<1>7. CASE At("clients", TRUE, bs.i) /\ Drained
  <2>1. bs'.pc = "clients" /\ bs'.stopping
    BY <1>7 DEF At
  <2>2. NoneYoung
    BY <1>3, <1>4, <2>1 DEF NoneYoung, Young
  <2>3. JobsOnce' /\ Ended' /\ Births' /\ Arrive' /\ Draining' /\ Relief' /\ Reloads'
    BY <1>3, <1>4, <1>7, <2>1, <2>2, Goes
  <2>4. "ALONE" \notin orders'[HOME] /\ \A t \in Thread : "FREED" \notin flags'[t]
    BY <1>5, <1>7, DrainedOnly, Threads
  <2>5. Stopping'
    BY <1>5, <2>1, <2>4 DEF Stopping
  <2> QED BY <1>3, <2>3, <2>5 DEF LifeInv
<1>8. CASE /\ state[bs.i] = "RUNNING" /\ ~bs.stopping
           /\ At("clients", FALSE, bs.i) /\ Ordered({HOME}, "OPEN") /\ UNCHANGED flags
  <2>1. bs'.pc = "clients" /\ ~bs'.stopping
    BY <1>8 DEF At
  <2>2. \A t \in Thread : ~Young(t)'
    BY <1>3, <1>4, <2>1 DEF Young
  <2>3. Posted /\ NoneRuns
    BY <1>3, <1>8 DEF Posted, NoneRuns
  <2>4. JobsOnce' /\ Ended' /\ \A j \in Jobs : Around(j)' => Around(j)
    BY <1>3, <2>3, Aside
  <2>5. \A t \in Thread : /\ \A b : b # "OPEN" => (b \in orders'[t] <=> b \in orders[t])
                          /\ \A x : x # "order" => (x \in inbox'[t] <=> x \in inbox[t])
    BY <1>8, OrderedOnly
  <2>6. Births'
    BY <1>3, <1>4, <2>1, <2>2, Threads DEF Births
  <2>7. Arrive'
    BY <1>1, <1>3, <2>3, ArrivePosted
  <2>8. Draining'
    BY <1>1, <1>3, <1>8, <2>1, <2>3, <2>5, DrainingKept
  <2>9. Stopping'
    BY <1>5, <1>8, <2>1, <2>5, Threads DEF Stopping
  <2>10. Calm' => Calm
    BY <1>1, <1>3, <1>8, CalmKept
  <2>11. Relief'
    BY <1>1, <1>3, <2>3, <2>4, <2>5, <2>10, ReliefKept, JobKinds
  <2>12. Reloads'
    BY <1>1, <1>3, <2>4, <2>5, ReloadsKept, JobKinds, Threads
  <2> QED BY <1>3, <2>4, <2>6, <2>7, <2>8, <2>9, <2>11, <2>12 DEF LifeInv
<1> QED BY <1>1, <1>2, <1>6, <1>7, <1>8, StartedDoes

LEMMA SignalKeeps == ASSUME LifeInv, StopSignal PROVE LifeInv'
<1>1. Typed /\ Births /\ Stopping
  BY DEF LifeInv
<1>2. /\ Typed' /\ Minds /\ ~bs.stopping /\ At(bs.pc, TRUE, bs.i) /\ Drained
      /\ UNCHANGED <<blk, hand, state, app, ask, relieving, reload>>
  BY <1>1, SignalDoes
<1>3. bs'.pc = bs.pc /\ bs'.stopping /\ bs'.i = bs.i
  BY <1>2 DEF At
<1>4. NoneYoung
  BY <1>2, <1>3 DEF NoneYoung, Young
<1>5. /\ bs'.pc = "start" => bs'.i \in Thread /\ \A t \in Thread : t > bs'.i => state'[t] = "JOINED"
      /\ \A t \in Thread : state'[t] = "STARTING" => bs'.pc \in {"start", "forced"} /\ t = bs'.i
  BY <1>1, <1>2, <1>3 DEF Births
<1>6. JobsOnce' /\ Ended' /\ Births' /\ Arrive' /\ Draining' /\ Relief' /\ Reloads'
  BY <1>2, <1>3, <1>4, <1>5, Goes
<1>7. /\ "ALONE" \in orders'[HOME] <=> "ALONE" \in orders[HOME]
      /\ \A t \in Thread : "FREED" \in flags'[t] <=> "FREED" \in flags[t]
  BY <1>2, DrainedOnly, Threads
<1>8. \A t \in Thread : "FREED" \notin flags'[t]
  BY <1>2, <1>7, NotYet DEF Minds
<1>9. Stopping'
  BY <1>1, <1>2, <1>3, <1>7, <1>8 DEF Stopping, Done, Running
<1> QED BY <1>2, <1>6, <1>9 DEF LifeInv

LEMMA ForceKeeps == ASSUME LifeInv, Forces PROVE LifeInv'
<1>1. Typed /\ Births /\ Stopping
  BY DEF LifeInv
<1>2. /\ Typed' /\ bs.pc \in {"start", "clients", "alone", "blockers"}
      /\ At("forced", bs.stopping, bs.i)
      /\ UNCHANGED <<blk, hand, state, flags, orders, inbox, app, ask, relieving, reload>>
  BY <1>1, ForceDoes
<1>3. bs'.pc = "forced" /\ bs'.stopping = bs.stopping /\ bs'.i = bs.i
  BY <1>2 DEF At
<1>4. NoneYoung
  BY <1>2, <1>3 DEF NoneYoung, Young
<1>5. \A t \in Thread : state'[t] = "STARTING" => bs'.pc \in {"start", "forced"} /\ t = bs'.i
  BY <1>1, <1>2, <1>3 DEF Births
<1>6. JobsOnce' /\ Ended' /\ Births' /\ Arrive' /\ Draining' /\ Relief' /\ Reloads'
  BY <1>2, <1>3, <1>4, <1>5, Goes
<1>7. \A t \in Thread : "FREED" \notin flags'[t]
  BY <1>2, NotYet
<1>8. Stopping'
  BY <1>1, <1>2, <1>3, <1>7 DEF Stopping, Running
<1> QED BY <1>2, <1>6, <1>8 DEF LifeInv

LEMMA HupKeeps == ASSUME LifeInv, Hup PROVE LifeInv'
<1>1. Typed /\ JobsOnce /\ Ended /\ Births /\ Arrive /\ Draining /\ Stopping /\ Relief /\ Reloads
  BY DEF LifeInv
<1>2. /\ Typed' /\ Minds /\ state[HOME] = "RUNNING" /\ Ordered({HOME}, "RELOAD")
      /\ reload'.busy = reload.busy /\ reload'.again = reload.again
      /\ reload'.error = reload.error /\ reload'.read = reload.read
      /\ UNCHANGED <<blk, hand, bs, state, flags, app, ask, relieving>>
  BY <1>1, HupDoes
<1>3. Posted /\ NoneRuns /\ NoneYoung
  BY <1>2 DEF Posted, NoneRuns, NoneYoung, Young
<1>4. JobsOnce' /\ Ended' /\ \A j \in Jobs : Around(j)' => Around(j)
  BY <1>2, <1>3, Aside
<1>5. \A t \in Thread : /\ \A b : b # "RELOAD" => (b \in orders'[t] <=> b \in orders[t])
                        /\ \A x : x # "order" => (x \in inbox'[t] <=> x \in inbox[t])
                        /\ t # HOME => orders'[t] = orders[t] /\ inbox'[t] = inbox[t]
  BY <1>2, OrderedOnly
<1>6. Births'
  <2>1. ~Young(HOME)
    BY <1>1, <1>2, YoungIdle, Threads
  <2>2. \A t \in Thread : Young(t)' => t # HOME
    BY <1>3, <2>1 DEF NoneYoung
  <2>3. \A t \in Thread : Young(t)' => Spared(t)
    BY <1>2, <1>5, <2>2 DEF Spared
  <2>4. ~Young(HOME)'
    BY <2>2, Threads
  <2>5. bs'.pc = "start" => bs'.i \in Thread /\ \A t \in Thread : t > bs'.i => state'[t] = "JOINED"
    BY <1>1, <1>2 DEF Births
  <2>6. \A t \in Thread : state'[t] = "STARTING" => bs'.pc \in {"start", "forced"} /\ t = bs'.i
    BY <1>1, <1>2 DEF Births
  <2> QED BY <1>1, <1>3, <1>4, <2>3, <2>4, <2>5, <2>6, BirthsKept, JobKinds
<1>7. Arrive'
  BY <1>1, <1>2, <1>3, ArrivePosted
<1>8. Draining'
  BY <1>1, <1>2, <1>3, <1>5, DrainingKept
<1>9. Stopping'
  <2>1. \A t \in Thread : "FREED" \notin flags'[t]
    BY <1>2, NotYet DEF Minds
  <2> QED BY <1>1, <1>2, <1>5, <2>1, Threads DEF Stopping, Done, Running
<1>10. Relief'
  <2>1. Calm' => Calm
    BY <1>1, <1>2, CalmKept
  <2> QED BY <1>1, <1>2, <1>3, <1>4, <1>5, <2>1, ReliefKept, JobKinds
<1>11. "RELOAD" \in orders'[HOME]
  BY <1>2, Threads DEF Ordered
<1>12. Reloads'
  BY <1>1, <1>2, <1>4, <1>11, JobKinds DEF Reloads, LastReloadAnswered
<1> QED BY <1>2, <1>4, <1>6, <1>7, <1>8, <1>9, <1>10, <1>12 DEF LifeInv

LEMMA HomeAloneKeeps == ASSUME LifeInv, HomeAlone PROVE LifeInv'
<1>1. Typed /\ JobsOnce /\ Ended /\ Births /\ Arrive /\ Draining /\ Stopping /\ Relief /\ Reloads
  BY DEF LifeInv
<1>2. /\ Typed' /\ bs.pc = "home" /\ At("alone", bs.stopping, bs.i)
      /\ Ordered({HOME} \cap Running, "ALONE")
      /\ UNCHANGED <<blk, hand, state, flags, app, ask, relieving, reload>>
  BY <1>1, HomeAloneDoes
<1>3. bs'.pc = "alone" /\ bs'.stopping = bs.stopping /\ bs'.i = bs.i
  BY <1>2 DEF At
<1>4. \A t \in Thread : state[t] # "STARTING" /\ ~Young(t)'
  BY <1>2, <1>3, NoneStarting DEF Young
<1>5. Posted /\ NoneRuns
  BY <1>2 DEF Posted, NoneRuns
<1>6. JobsOnce' /\ Ended' /\ \A j \in Jobs : Around(j)' => Around(j)
  BY <1>2, <1>5, Aside
<1>7. \A t \in Thread : /\ \A b : b # "ALONE" => (b \in orders'[t] <=> b \in orders[t])
                        /\ \A x : x # "order" => (x \in inbox'[t] <=> x \in inbox[t])
  BY <1>2, OrderedOnly
<1>8. Births'
  BY <1>2, <1>3, <1>4, Threads DEF Births
<1>9. Arrive'
  BY <1>1, <1>2, <1>5, ArrivePosted
<1>10. Draining'
  BY <1>1, <1>2, <1>3, <1>5, <1>7, DrainingKept
<1>11. Stopping'
  <2>1. \A t \in Thread : "FREED" \notin flags'[t]
    BY <1>2, NotYet
  <2>2. Client \cap Running' = {}
    BY <1>1, <1>2 DEF Stopping, Running
  <2> QED BY <1>3, <2>1, <2>2 DEF Stopping
<1>12. Relief'
  <2>1. Calm' => Calm
    BY <1>1, <1>2, <1>3, CalmKept
  <2> QED BY <1>1, <1>2, <1>5, <1>6, <1>7, <2>1, ReliefKept, JobKinds
<1>13. Reloads'
  BY <1>1, <1>2, <1>6, <1>7, ReloadsKept, JobKinds, Threads
<1> QED BY <1>2, <1>6, <1>8, <1>9, <1>10, <1>11, <1>12, <1>13 DEF LifeInv

\* Threads that exited are joined: nothing runs on, and all that ran does.
LEMMA JoinsRunning ==
  ASSUME NEW S, Joins(S)
  PROVE  /\ \A t \in Thread : state'[t] = "RUNNING" <=> state[t] = "RUNNING"
         /\ \A t \in Thread : state'[t] = "STARTING" => state[t] = "STARTING"
         /\ Client \cap Running' = Client \cap Running
         /\ bs'.stopping \/ \A t \in Thread : state[t] = "EXITED" => state'[t] = "EXITED"
BY DEF Joins, Running

LEMMA ClientsRunKeeps == ASSUME LifeInv, ClientsRun PROVE LifeInv'
<1>1. Typed /\ Stopping
  BY DEF LifeInv
<1>2. /\ Typed' /\ bs.pc = "clients" /\ ask = {} /\ Joins(Client)
      /\ \/ bs'.pc = "home" /\ Client \cap Running = {}
         \/ bs'.pc = "clients"
      /\ bs.stopping => bs'.stopping
      /\ UNCHANGED <<blk, hand, app, ask, relieving, reload>>
  BY <1>1, ClientsRunDoes
<1>3. \A t \in Thread : state[t] # "STARTING"
  BY <1>2, NoneStarting
<1>4. /\ \A t \in Thread : state'[t] = "RUNNING" <=> state[t] = "RUNNING"
      /\ \A t \in Thread : state'[t] # "STARTING"
      /\ Client \cap Running' = Client \cap Running
      /\ bs'.stopping \/ \A t \in Thread : state[t] = "EXITED" => state'[t] = "EXITED"
  BY <1>2, <1>3, JoinsRunning
<1>5. NoneYoung
  BY <1>2, <1>4 DEF NoneYoung, Young
<1>6. \/ Drained
      \/ UNCHANGED <<flags, orders, inbox>> /\ (bs'.stopping => bs.stopping)
  BY <1>2 DEF Joins
<1>7. JobsOnce' /\ Ended' /\ Births' /\ Arrive' /\ Draining' /\ Relief' /\ Reloads'
  BY <1>2, <1>4, <1>5, <1>6, Goes
<1>8. /\ ~app'[HOME].alone /\ "ALONE" \notin orders'[HOME]
      /\ \A t \in Thread : "FREED" \notin flags'[t]
  <2>1. /\ ~app[HOME].alone /\ "ALONE" \notin orders[HOME]
        /\ \A t \in Thread : "FREED" \notin flags[t]
    BY <1>2, NotYet
  <2> QED BY <1>2, <1>6, <2>1, DrainedOnly, Threads
<1>9. Stopping'
  BY <1>2, <1>4, <1>8 DEF Stopping
<1> QED BY <1>2, <1>7, <1>9 DEF LifeInv

LEMMA StopBlockersKeeps == ASSUME LifeInv, StopBlockers PROVE LifeInv'
<1>1. Typed /\ Stopping
  BY DEF LifeInv
<1>2. /\ Typed' /\ bs.pc = "alone" /\ ask = {} /\ state[HOME] # "RUNNING"
      /\ bs'.pc = "blockers" /\ (bs.stopping => bs'.stopping) /\ Joins(Thread)
      /\ blk'.queue = blk.queue /\ blk'.stop = TRUE
      /\ \A w \in Worker : /\ hand'[w].job = hand[w].job
                           /\ hand'[w].at = IF hand[w].at = "asleep" THEN "lock" ELSE hand[w].at
      /\ UNCHANGED <<app, ask, relieving, reload>>
  BY <1>1, StopBlockersDoes
<1>3. \A t \in Thread : state[t] # "STARTING"
  BY <1>2, NoneStarting
<1>4. /\ \A t \in Thread : state'[t] = "RUNNING" <=> state[t] = "RUNNING"
      /\ \A t \in Thread : state'[t] # "STARTING"
      /\ Client \cap Running' = Client \cap Running
      /\ bs'.stopping \/ \A t \in Thread : state[t] = "EXITED" => state'[t] = "EXITED"
  BY <1>2, <1>3, JoinsRunning
<1>5. NoneYoung
  BY <1>2, <1>4 DEF NoneYoung, Young
<1>6. \/ Drained
      \/ UNCHANGED <<flags, orders, inbox>> /\ (bs'.stopping => bs.stopping)
  BY <1>2 DEF Joins
<1>7. \A w \in Worker : hand'[w].job = hand[w].job /\ (hand'[w].at = "gone" => hand[w].at = "gone")
  BY <1>2
<1>8. JobsOnce' /\ Ended' /\ Births' /\ Arrive' /\ Draining' /\ Relief' /\ Reloads'
  BY <1>2, <1>4, <1>5, <1>6, <1>7, Goes
<1>9. /\ "ALONE" \in orders'[HOME] <=> "ALONE" \in orders[HOME]
      /\ \A t \in Thread : "FREED" \notin flags'[t]
  <2>1. \A t \in Thread : "FREED" \notin flags[t]
    BY <1>2, NotYet
  <2> QED BY <1>6, <2>1, DrainedOnly, Threads
<1>10. Stopping'
  BY <1>1, <1>2, <1>4, <1>9, Threads DEF Stopping
<1> QED BY <1>2, <1>8, <1>10 DEF LifeInv

LEMMA BlockersDoneKeeps == ASSUME LifeInv, BlockersDone PROVE LifeInv'
<1>1. Typed /\ Stopping
  BY DEF LifeInv
<1>2. /\ Typed' /\ bs.pc = "blockers" /\ ask = {} /\ bs'.stopping = bs.stopping
      /\ (bs'.pc = "fini" /\ Done) \/ bs'.pc = "gone"
      /\ UNCHANGED <<blk, hand, state, flags, orders, inbox, app, ask, relieving, reload>>
  BY <1>1, BlockersDoneDoes
<1>3. \A t \in Thread : state[t] # "STARTING"
  BY <1>2, NoneStarting
<1>4. NoneYoung
  BY <1>2, <1>3 DEF NoneYoung, Young
<1>5. JobsOnce' /\ Ended' /\ Births' /\ Arrive' /\ Draining' /\ Relief' /\ Reloads'
  BY <1>2, <1>3, <1>4, Goes
<1>6. \A t \in Thread : "FREED" \notin flags'[t]
  BY <1>2, NotYet
<1>7. Stopping'
  BY <1>1, <1>2, <1>6 DEF Stopping, Running, Done
<1> QED BY <1>2, <1>5, <1>7 DEF LifeInv

LEMMA RelieveKeeps == ASSUME LifeInv, Relieve PROVE LifeInv'
<1>1. Typed /\ JobsOnce /\ Ended /\ Births /\ Arrive /\ Draining /\ Stopping /\ Relief /\ Reloads
  BY DEF LifeInv
<1>2. /\ Typed' /\ Minds /\ Running # {} /\ relieving = 0
      /\ relieving' = Cardinality(Running) + 1 /\ ask' = Thread
      /\ UNCHANGED <<blk, hand, bs, state, flags, orders, inbox, app, reload>>
  BY <1>1, RelieveDoes
<1>3. Posted /\ NoneRuns /\ NoneYoung
  BY <1>2 DEF Posted, NoneRuns, NoneYoung, Young
<1>4. JobsOnce' /\ Ended' /\ \A j \in Jobs : Around(j)' => Around(j)
  BY <1>2, <1>3, Aside
<1>5. Births'
  <2>1. \A t \in Thread : Spared(t)
    BY <1>2 DEF Spared
  <2>2. bs'.pc = "start" => bs'.i \in Thread /\ \A t \in Thread : t > bs'.i => state'[t] = "JOINED"
    BY <1>1, <1>2 DEF Births
  <2>3. \A t \in Thread : state'[t] = "STARTING" => bs'.pc \in {"start", "forced"} /\ t = bs'.i
    BY <1>1, <1>2 DEF Births
  <2> QED BY <1>1, <1>2, <1>3, <1>4, <2>1, <2>2, <2>3, BirthsKept, JobKinds
<1>6. Arrive'
  BY <1>1, <1>2, <1>3, ArrivePosted
<1>7. Draining'
  BY <1>1, <1>2, <1>3, DrainingKept
<1>8. Stopping'
  <2>1. bs'.pc \in {"start", "clients", "alone", "blockers"}
    BY <1>2 DEF Minds
  <2> QED BY <1>1, <1>2, <2>1 DEF Stopping, Done, Running
<1>9. Relief'
  <2>1. Shared /\ Counted
    BY <1>1, ReliefParts
  <2>2. Trims = {} /\ Cardinality(Shares) = 0
    BY <1>2, <2>1, SharesFinite DEF Counted
  <2>3. Shares = {}
    BY <2>2, SharesFinite
  <2>4. \A t \in Thread : "RELIEVE" \notin orders[t] /\ app[t].share # "share"
    BY <2>3 DEF Shares
  <2>5. Shared'
    BY <1>2, <1>4, <2>1, <2>4, JobKinds DEF Shared
  <2>6. Shares' = Running
    BY <1>2, <2>4 DEF Shares, Running
  <2>7. Trims' = {} /\ Cardinality({}) = 0
    BY <1>2, <2>2, FS_EmptySet DEF Trims
  <2>8. Cardinality(Running) \in Nat
    BY ThreadsFinite, FS_Subset, FS_CardinalityType DEF Running
  <2>9. Counted'
    BY <1>2, <2>6, <2>7, <2>8 DEF Counted
  <2> QED BY <2>5, <2>9 DEF Relief, Shared, Counted
<1>10. Reloads'
  BY <1>1, <1>2, <1>4, ReloadsKept, JobKinds
<1> QED BY <1>2, <1>4, <1>5, <1>6, <1>7, <1>8, <1>9, <1>10 DEF LifeInv

LEMMA RelieveOrderKeeps == ASSUME LifeInv, RelieveOrder PROVE LifeInv'
<1>1. Typed /\ JobsOnce /\ Ended /\ Births /\ Arrive /\ Draining /\ Stopping /\ Relief /\ Reloads
  BY DEF LifeInv
<1>2. /\ Typed' /\ UNCHANGED <<blk, hand, bs, state, flags, app, relieving, reload>>
  BY <1>1, RelieveOrderDoes
<1>3. PICK t \in ask : /\ ask' = ask \ {t}
                       /\ \/ state[t] = "RUNNING" /\ Ordered({t}, "RELIEVE")
                          \/ state[t] # "RUNNING" /\ UNCHANGED <<orders, inbox>>
  BY <1>1, RelieveOrderDoes
<1>4. t \in Thread
  BY <1>1 DEF Typed
<1>5. Posted /\ NoneRuns /\ NoneYoung
  BY <1>2, <1>3 DEF Posted, NoneRuns, NoneYoung, Young
<1>6. JobsOnce' /\ Ended' /\ \A j \in Jobs : Around(j)' => Around(j)
  BY <1>2, <1>5, Aside
<1>7. \A u \in Thread : /\ \A b : b # "RELIEVE" => (b \in orders'[u] <=> b \in orders[u])
                        /\ \A x : x # "order" => (x \in inbox'[u] <=> x \in inbox[u])
                        /\ u # t \/ state[u] # "RUNNING" =>
                             orders'[u] = orders[u] /\ inbox'[u] = inbox[u]
  BY <1>3, OrderedOnly
<1>8. Births'
  <2>1. \A u \in Thread : Young(u)' => Spared(u)
    BY <1>1, <1>2, <1>5, <1>7, YoungIdle DEF Spared, NoneYoung
  <2>2. bs'.pc = "start" => bs'.i \in Thread /\ \A u \in Thread : u > bs'.i => state'[u] = "JOINED"
    BY <1>1, <1>2 DEF Births
  <2>3. \A u \in Thread : state'[u] = "STARTING" => bs'.pc \in {"start", "forced"} /\ u = bs'.i
    BY <1>1, <1>2 DEF Births
  <2> QED BY <1>1, <1>2, <1>5, <1>6, <2>1, <2>2, <2>3, BirthsKept, JobKinds
<1>9. Arrive'
  BY <1>1, <1>2, <1>5, ArrivePosted
<1>10. Draining'
  BY <1>1, <1>2, <1>5, <1>7, DrainingKept
<1>11. Stopping'
  <2>1. bs.pc \notin {"home", "fini", "gone"}
    BY <1>1, <1>3 DEF Stopping
  <2>2. "ALONE" \in orders'[HOME] <=> "ALONE" \in orders[HOME]
    BY <1>7, Threads
  <2>3. \A u \in Thread : "FREED" \notin flags'[u]
    BY <1>2, <2>1, NotYet
  <2> QED BY <1>1, <1>2, <2>1, <2>2, <2>3 DEF Stopping, Running
<1>12. Relief'
  <2>1. Shared /\ Counted
    BY <1>1, ReliefParts
  <2>2. state[t] = "RUNNING" => "RELIEVE" \in orders'[t]
    BY <1>3, <1>4 DEF Ordered
  <2>3. Shares' = Shares
    BY <1>2, <1>3, <1>4, <1>7, <2>2 DEF Shares
  <2>4. Trims' = Trims
    BY <1>2 DEF Trims
  <2>5. Shared'
    <3>1. ASSUME NEW u \in Thread, u # t
          PROVE  /\ u \in ask' => "RELIEVE" \notin orders'[u] /\ app'[u].share # "share"
                 /\ "RELIEVE" \in orders'[u] => app'[u].share # "share"
      BY <1>2, <1>3, <1>7, <2>1, <3>1 DEF Shared
    <3>2. t \notin ask' /\ app'[t].share # "share"
      BY <1>2, <1>3, <1>4, <2>1 DEF Shared
    <3>3. \A u \in Thread : Around(<<"walk", u>>)' /\ state'[u] = "RUNNING" => app'[u].share = "walking"
      BY <1>2, <1>6, <2>1, JobKinds DEF Shared
    <3> QED BY <3>1, <3>2, <3>3 DEF Shared
  <2>6. Calm' => Calm
    BY <1>1, <1>2, CalmKept
  <2>7. Counted'
    BY <1>2, <2>1, <2>3, <2>4, <2>6, CountedKept
  <2> QED BY <2>5, <2>7 DEF Relief, Shared, Counted
<1>13. Reloads'
  BY <1>1, <1>2, <1>6, <1>7, ReloadsKept, JobKinds, Threads
<1> QED BY <1>2, <1>6, <1>8, <1>9, <1>10, <1>11, <1>12, <1>13 DEF LifeInv

LEMMA LoopFiniKeeps == ASSUME LifeInv, LoopFini PROVE LifeInv'
<1>1. Typed /\ JobsOnce /\ Ended /\ Births /\ Arrive /\ Draining /\ Stopping /\ Relief /\ Reloads
  BY DEF LifeInv
<1>2. /\ Typed' /\ bs.pc = "fini" /\ bs'.stopping = bs.stopping /\ bs'.pc \in {"fini", "gone"}
      /\ UNCHANGED <<blk, hand, state, orders, app, ask, relieving>>
  BY <1>1, LoopFiniDoes
<1>3. \/ UNCHANGED <<flags, inbox, reload>>
      \/ /\ bs.i \in Thread
         /\ flags' = [flags EXCEPT ![bs.i] = @ \cup {"FREED"}]
         /\ inbox' = [inbox EXCEPT ![bs.i] = {}]
         /\ \/ /\ "reload" \in inbox[bs.i] /\ ~reload'.busy /\ ~reload'.again
               /\ reload'.applied = reload.applied /\ reload'.last = reload.last
            \/ "reload" \notin inbox[bs.i] /\ UNCHANGED reload
  BY <1>1, LoopFiniDoes
<1>4. \A t \in Thread : state[t] # "RUNNING" /\ state[t] # "STARTING"
  BY <1>1, <1>2, NoneStarting, Threads DEF Stopping, Running
<1>5. \A t \in Thread :
        /\ inbox'[t] \subseteq inbox[t] /\ ("DRAINED" \in flags'[t] <=> "DRAINED" \in flags[t])
        /\ "FREED" \in flags'[t] => "FREED" \in flags[t] \/ inbox'[t] = {}
  BY <1>1, <1>3 DEF Typed
<1>6. NoMore
  BY <1>1, <1>2, <1>5, JobsSame
<1>7. Ended'
  BY <1>1, <1>2, EndedKept
<1>8. Births'
  BY <1>2, <1>4, Threads DEF Births, Young
<1>9. Arrive'
  BY <1>2, <1>4 DEF Arrive
<1>10. Draining'
  BY <1>1, <1>2, <1>4, <1>5, DrainingKept DEF NoneRuns
<1>11. Stopping'
  <2>1. Done' /\ Client \cap Running' = {} /\ state'[HOME] # "RUNNING" /\ ask' = {}
    BY <1>1, <1>2, <1>4, Threads DEF Stopping, Done, Running
  <2>2. \A t \in Thread : "FREED" \in flags'[t] => inbox'[t] = {}
    BY <1>1, <1>5 DEF Stopping
  <2> QED BY <1>2, <2>1, <2>2 DEF Stopping
<1>12. Relief'
  <2>1. Calm' => Calm
    BY <1>1, <1>2, CalmKept
  <2> QED BY <1>1, <1>2, <1>4, <2>1, ReliefKept DEF NoneRuns
<1>13. Reloads'
  <2>1. HOME \in Thread /\ HOME \notin Running'
    BY <1>2, <1>4, Threads DEF Running
  <2>2. CASE UNCHANGED reload
    BY <1>1, <1>6, <2>1, <2>2, JobKinds DEF Reloads, LastReloadAnswered, NoMore
  <2>3. CASE bs.i \in Thread /\ "reload" \in inbox[bs.i] /\ inbox' = [inbox EXCEPT ![bs.i] = {}]
    <3>1. <<"reload", bs.i>> \in Jobs /\ Back(<<"reload", bs.i>>)
      BY <2>3 DEF Jobs, Back
    <3>2. bs.i = HOME
      BY <1>1, <3>1 DEF JobsOnce, Around
    <3>3. ~Waits(<<"reload", HOME>>) /\ ~InHand(<<"reload", HOME>>)
      BY <1>1, <3>1, <3>2 DEF JobsOnce
    <3>4. inbox'[HOME] = {}
      BY <1>1, <2>3, <3>2 DEF Typed
    <3>5. ~Around(<<"reload", HOME>>)'
      BY <1>2, <3>3, <3>4 DEF Around, Waits, InHand, Back
    <3> QED BY <2>1, <3>4, <3>5 DEF Reloads, LastReloadAnswered
  <2> QED BY <1>3, <2>2, <2>3
<1> QED BY <1>2, <1>6, <1>7, <1>8, <1>9, <1>10, <1>11, <1>12, <1>13 DEF LifeInv, NoMore

-----------------------------------------------------------------------------
(* The loops' steps.                                                       *)

\* While a loop runs, none is freed, and it is not young.
LEMMA RunsYet ==
  ASSUME LifeInv, NEW t \in Thread, state[t] = "RUNNING"
  PROVE  /\ bs.pc \notin {"fini", "gone"} /\ \A u \in Thread : "FREED" \notin flags[u]
         /\ ~Young(t)
<1>1. Typed /\ Births /\ Stopping
  BY DEF LifeInv
<1>2. bs.pc \notin {"fini", "gone"}
  BY <1>1, Threads DEF Stopping, Running
<1>3. \A u \in Thread : "FREED" \notin flags[u]
  BY <1>1, <1>2 DEF Stopping
<1> QED BY <1>1, <1>2, <1>3, YoungIdle

\* Home ran first.
LEMMA HomeRuns ==
  ASSUME LifeInv, NEW t \in Thread, state[t] = "RUNNING", bs.pc # "forced"
  PROVE  ~Young(HOME)
<1>1. CASE bs.pc = "start"
  <2>1. bs.i \in Thread /\ ~(t > bs.i)
    BY <1>1 DEF LifeInv, Births
  <2>2. HOME \in Thread /\ HOME <= t /\ t \in Nat /\ bs.i \in Nat
    <3>1. HOME \in Thread /\ t \in Nat /\ bs.i \in Nat
      BY <2>1, Threads
    <3> QED BY <3>1 DEF HOME
  <2>3. ASSUME Young(HOME) PROVE FALSE
    <3>1. HOME = bs.i \/ HOME > bs.i
      BY <1>1, <2>2, <2>3 DEF LifeInv, Births, Young
    <3>2. t = HOME
      BY <2>1, <2>2, <3>1 DEF HOME
    <3> QED BY <2>3, <3>2, RunsYet
  <2> QED BY <2>3
<1>2. CASE bs.pc # "start"
  BY <1>2, NoneStarting, Threads
<1> QED BY <1>1, <1>2

LEMMA StoppingKept ==
  ASSUME Stopping, UNCHANGED <<bs, ask, flags>>, NoneRuns, Done => Done',
         app'[HOME].alone \/ "ALONE" \in orders'[HOME] => app[HOME].alone \/ "ALONE" \in orders[HOME],
         \A t \in Thread : "FREED" \in flags[t] => inbox'[t] = {}
  PROVE  Stopping'
<1>1. Client \cap Running = {} => Client \cap Running' = {}
  BY Threads DEF NoneRuns, Running
<1>2. state[HOME] # "RUNNING" => state'[HOME] # "RUNNING"
  BY Threads DEF NoneRuns
<1> QED BY <1>1, <1>2 DEF Stopping

\* A step of the loop t does nothing to the others' orders and messages, and
\* submits a job of its own at most.
LEMMA LoopKeeps ==
  ASSUME LifeInv, NEW t \in Thread, state[t] = "RUNNING", bs.pc # "forced",
         UNCHANGED <<hand, bs, state, flags, ask>>,
         \A u \in Thread : u # t => /\ orders'[u] = orders[u] /\ inbox'[u] = inbox[u]
                                    /\ app'[u].taken = app[u].taken
                                    /\ (Around(<<"walk", u>>)' => Around(<<"walk", u>>)),
         app'[HOME].alone \/ "ALONE" \in orders'[HOME] => app[HOME].alone \/ "ALONE" \in orders[HOME],
         UNCHANGED blk \/ \E k \in Jobs : Given(k)
  PROVE  Ended' /\ Births' /\ Stopping'
<1>1. Typed /\ Ended /\ Births /\ Stopping
  BY DEF LifeInv
<1>2. ~Young(t) /\ \A u \in Thread : "FREED" \notin flags[u]
  BY RunsYet
<1>3. NoneYoung /\ NoneRuns
  BY DEF NoneYoung, Young, NoneRuns
<1>4. Ended'
  BY <1>1 DEF Ended, Given
<1>5. Births'
  <2>1. \A u \in Thread : Young(u)' => u # t
    BY <1>2, <1>3 DEF NoneYoung
  <2>2. \A u \in Thread : Young(u)' => Spared(u) /\ (Around(<<"walk", u>>)' => Around(<<"walk", u>>))
    BY <2>1 DEF Spared
  <2>3. bs'.pc = "start" => bs'.i \in Thread /\ \A u \in Thread : u > bs'.i => state'[u] = "JOINED"
    BY <1>1 DEF Births
  <2>4. \A u \in Thread : state'[u] = "STARTING" => bs'.pc \in {"start", "forced"} /\ u = bs'.i
    BY <1>1 DEF Births
  <2>5. ~Young(HOME)'
    BY <1>3, HomeRuns, Threads DEF NoneYoung
  <2> QED BY <1>1, <1>3, <2>2, <2>3, <2>4, <2>5, BirthsKept
<1>6. Stopping'
  BY <1>1, <1>2, <1>3, StoppingKept DEF Done
<1> QED BY <1>4, <1>5, <1>6

LEMMA TakeOrderKeeps == ASSUME LifeInv, bs.pc # "forced", NEW t \in Thread, TakeOrder(t) PROVE LifeInv'
<1>1. Typed /\ JobsOnce /\ Ended /\ Births /\ Arrive /\ Draining /\ Stopping /\ Relief /\ Reloads
  BY DEF LifeInv
<1>2. /\ Typed' /\ state[t] = "RUNNING" /\ "order" \in inbox[t] /\ TakenIs(t, TRUE)
      /\ \A u \in Thread : inbox'[u] = IF u = t THEN inbox[t] \ {"order"} ELSE inbox[u]
      /\ UNCHANGED <<blk, hand, bs, state, flags, orders, ask, relieving, reload>>
  BY <1>1, TakeOrderDoes
<1>3. \A u \in Thread :
        /\ app'[u].taken = IF u = t THEN TRUE ELSE app[u].taken
        /\ app'[u].drain = app[u].drain /\ app'[u].alone = app[u].alone
        /\ app'[u].share = app[u].share /\ app'[u].exit = app[u].exit
  BY <1>2 DEF TakenIs
<1>4. NoMore /\ NoneRuns
  <2>1. \A u \in Thread : inbox'[u] \cap Jobbed \subseteq inbox[u]
    BY <1>2
  <2> QED BY <1>1, <1>2, <2>1, JobsSame DEF NoneRuns
<1>5. JobsOnce' /\ \A j \in Jobs : Around(j)' => Around(j)
  BY <1>4 DEF NoMore
<1>6. Ended' /\ Births' /\ Stopping'
  BY <1>2, <1>3, <1>5, LoopKeeps, JobKinds, Threads
<1>7. Arrive'
  BY <1>1, <1>2, <1>3 DEF Arrive
<1>8. Draining'
  BY <1>1, <1>2, <1>3, <1>4, DrainingKept
<1>9. Relief'
  <2>1. Calm' => Calm
    BY <1>1, <1>2, <1>3, CalmKept
  <2> QED BY <1>1, <1>2, <1>3, <1>4, <1>5, <2>1, ReliefKept, JobKinds
<1>10. Reloads'
  BY <1>1, <1>2, <1>3, <1>5, ReloadsKept, JobKinds, Threads
<1> QED BY <1>2, <1>5, <1>6, <1>7, <1>8, <1>9, <1>10 DEF LifeInv

LEMMA LoopExitsKeeps == ASSUME LifeInv, bs.pc # "forced", NEW t \in Thread, LoopExits(t) PROVE LifeInv'
<1>1. Typed /\ JobsOnce /\ Ended /\ Births /\ Arrive /\ Draining /\ Stopping /\ Relief /\ Reloads
  BY DEF LifeInv
<1>2. /\ Typed' /\ state[t] = "RUNNING" /\ ExitIs(t)
      /\ UNCHANGED <<blk, hand, bs, state, flags, orders, inbox, ask, relieving, reload>>
  BY <1>1, LoopExitsDoes
<1>3. \A u \in Thread :
        /\ app'[u].exit = (u = t \/ app[u].exit)
        /\ app'[u].drain = app[u].drain /\ app'[u].alone = app[u].alone
        /\ app'[u].share = app[u].share /\ app'[u].taken = app[u].taken
  BY <1>2 DEF ExitIs
<1>4. NoneRuns /\ JobsOnce' /\ \A j \in Jobs : Around(j)' => Around(j)
  BY <1>1, <1>2, JobsSame DEF NoneRuns, NoMore
<1>5. Ended' /\ Births' /\ Stopping'
  BY <1>2, <1>3, <1>4, LoopKeeps, JobKinds, Threads
<1>6. Arrive'
  BY <1>1, <1>2, <1>3, <1>4, ArriveKept
<1>7. Draining'
  BY <1>1, <1>2, <1>3, <1>4, DrainingKept
<1>8. Relief'
  <2>1. Calm' => Calm
    BY <1>1, <1>2, <1>3, CalmKept
  <2> QED BY <1>1, <1>2, <1>3, <1>4, <2>1, ReliefKept, JobKinds
<1>9. Reloads'
  BY <1>1, <1>2, <1>3, <1>4, ReloadsKept, JobKinds, Threads
<1> QED BY <1>2, <1>4, <1>5, <1>6, <1>7, <1>8, <1>9 DEF LifeInv

LEMMA ThreadRunsKeeps ==
  ASSUME LifeInv, Asked, bs.pc # "forced", NEW t \in Thread, ThreadRuns(t)
  PROVE  LifeInv'
<1>1. Typed /\ JobsOnce /\ Ended /\ Births /\ Arrive /\ Draining /\ Stopping /\ Relief /\ Reloads
  BY DEF LifeInv
<1>2. /\ Typed' /\ state[t] = "STARTING"
      /\ UNCHANGED <<blk, hand, bs, flags, orders, inbox, app, ask, relieving, reload>>
  BY <1>1, ThreadRunsIs DEF ThreadRunsDoes
<1>3. \A u \in Thread : IF u = t THEN state'[u] \in {"RUNNING", "EXITED"} ELSE state'[u] = state[u]
  BY <1>1, ThreadRunsIs DEF ThreadRunsDoes, Typed
<1>4. bs.pc = "start" /\ t = bs.i /\ Young(t)
  BY <1>1, <1>2 DEF Births, Young
<1>5. /\ "DRAINED" \notin flags[t] /\ orders[t] = {} /\ "order" \notin inbox[t]
      /\ ~app[t].taken /\ ~Around(<<"walk", t>>)
  BY <1>1, <1>4 DEF Births
<1>6. JobsOnce' /\ \A j \in Jobs : Around(j)' => Around(j)
  BY <1>1, <1>2, JobsSame DEF NoMore
<1>7. Ended'
  BY <1>1, <1>2, EndedKept
<1>8. Births'
  <2>1. NoneYoung /\ ~Young(t)'
    BY <1>2, <1>3, <1>4, Threads DEF NoneYoung, Young
  <2>2. \A u \in Thread : Spared(u)
    BY <1>2 DEF Spared
  <2>3. bs'.pc = "start" => bs'.i \in Thread /\ \A u \in Thread : u > bs'.i => state'[u] = "JOINED"
    BY <1>1, <1>2, <1>3, <1>4, Threads DEF Births
  <2>4. \A u \in Thread : state'[u] = "STARTING" => bs'.pc \in {"start", "forced"} /\ u = bs'.i
    BY <1>1, <1>2, <1>3 DEF Births
  <2> QED BY <1>1, <1>2, <1>6, <2>1, <2>2, <2>3, <2>4, BirthsKept, JobKinds
<1>9. Arrive'
  BY <1>1, <1>2, <1>3, <1>5 DEF Arrive
<1>10. Draining'
  BY <1>1, <1>2, <1>3, <1>4, <1>5 DEF Draining, Running
<1>11. Stopping'
  <2>1. ~app[HOME].alone /\ "ALONE" \notin orders[HOME] /\ \A u \in Thread : "FREED" \notin flags[u]
    BY <1>4, NotYet
  <2> QED BY <1>2, <1>4, <2>1 DEF Stopping
<1>12. Relief'
  <2>1. ask = {}
    BY <1>2, <1>4 DEF Asked
  <2>2. Shared /\ Counted
    BY <1>1, ReliefParts
  <2>3. Shares' = Shares /\ Trims' = Trims
    BY <1>2, <2>1 DEF Shares, Trims
  <2>4. Calm' => Calm
    BY <1>1, <1>2, <1>3, CalmKept
  <2>5. Counted'
    BY <1>2, <2>2, <2>3, <2>4, CountedKept
  <2>6. Shared'
    BY <1>2, <1>3, <1>5, <1>6, <2>2, JobKinds DEF Shared
  <2> QED BY <2>5, <2>6 DEF Relief, Shared, Counted
<1>13. Reloads'
  <2>1. CASE t = HOME
    <3>1. reload.applied = reload.last /\ ~Around(<<"reload", HOME>>)
      BY <1>1, <1>4, <2>1 DEF Births
    <3>2. ~Around(<<"reload", HOME>>)' /\ "reload" \notin inbox'[HOME]
      BY <1>2, <1>6, <3>1, JobKinds DEF Around, Back
    <3> QED BY <1>2, <3>1, <3>2 DEF Reloads, LastReloadAnswered
  <2>2. CASE t # HOME
    BY <1>1, <1>2, <1>3, <1>6, <2>2, ReloadsKept, JobKinds, Threads
  <2> QED BY <2>1, <2>2
<1> QED BY <1>2, <1>6, <1>7, <1>8, <1>9, <1>10, <1>11, <1>12, <1>13 DEF LifeInv

\* One thread at most trims or waits for its walk.
LEMMA OneTrims ==
  ASSUME Cardinality(Trims) <= 1, NEW t \in Trims
  PROVE  Trims = {t} /\ Cardinality(Trims) = 1
<1>1. IsFiniteSet(Trims) /\ Cardinality(Trims) \in Nat /\ Cardinality(Trims) # 0
  BY SharesFinite
<1>2. Cardinality(Trims) = 1
  BY <1>1
<1>3. Cardinality(Trims \ {t}) = 0 /\ IsFiniteSet(Trims \ {t})
  BY <1>1, <1>2, FS_RemoveElement
<1>4. Trims \ {t} = {}
  BY <1>3, FS_EmptySet
<1> QED BY <1>2, <1>4

LEMMA ObeyShared ==
  ASSUME LifeInv, NEW t \in Thread, Obey(t), ~app[t].exit,
         \A u \in Thread : Around(<<"walk", u>>)' => Around(<<"walk", u>>)
  PROVE  Relief'
<1>1. Typed /\ Shared /\ Counted
  BY ReliefParts DEF LifeInv
<1>2. /\ Typed' /\ state[t] = "RUNNING" /\ app[t].taken
      /\ \A u \in Thread : orders'[u] = IF u = t THEN {} ELSE orders[u]
      /\ \A u \in Thread : app'[u].exit = app[u].exit
      /\ \A u \in Thread : u # t => app'[u] = app[u]
      /\ app'[t].share = IF "RELIEVE" \in orders[t] THEN "share" ELSE app[t].share
      /\ UNCHANGED <<hand, bs, state, flags, inbox, ask, relieving>>
  BY <1>1, ObeyDoes
<1>3. "RELIEVE" \in orders[t] => t \in Shares /\ Trims = {} /\ t \notin ask
  BY <1>1 DEF Shares, Counted, Shared
<1>4. Shares' = Shares
  BY <1>2, <1>3 DEF Shares
<1>5. Trims' = Trims
  <2>1. CASE "RELIEVE" \in orders[t]
    BY <1>2, <1>3, <2>1 DEF Trims
  <2>2. CASE "RELIEVE" \notin orders[t]
    BY <1>2, <2>2 DEF Trims
  <2> QED BY <2>1, <2>2
<1>6. Calm' => Calm
  BY <1>1, <1>2, CalmKept
<1>7. Counted'
  BY <1>1, <1>2, <1>4, <1>5, <1>6, CountedKept
<1>8. Shared'
  <2>1. "RELIEVE" \in orders[t] => app[t].share # "walking"
    BY <1>3 DEF Trims
  <2>2. ASSUME NEW u \in Thread
        PROVE  /\ u \in ask' => "RELIEVE" \notin orders'[u] /\ app'[u].share # "share"
               /\ "RELIEVE" \in orders'[u] => app'[u].share # "share"
               /\ Around(<<"walk", u>>)' /\ state'[u] = "RUNNING" => app'[u].share = "walking"
    <3>1. CASE u = t
      BY <1>1, <1>2, <1>3, <2>1, <3>1 DEF Shared
    <3>2. CASE u # t
      BY <1>1, <1>2, <3>2 DEF Shared
    <3> QED BY <3>1, <3>2
  <2> QED BY <2>2 DEF Shared
<1> QED BY <1>7, <1>8 DEF Relief, Shared, Counted

\* A loop that has exited obeys nothing more.
LEMMA ObeyLate ==
  ASSUME LifeInv, bs.pc # "forced", NEW t \in Thread, Obey(t), app[t].exit
  PROVE  LifeInv'
<1>1. Typed /\ JobsOnce /\ Ended /\ Births /\ Arrive /\ Draining /\ Stopping /\ Relief /\ Reloads
  BY DEF LifeInv
<1>2. /\ Typed' /\ state[t] = "RUNNING" /\ app[t].taken
      /\ \A u \in Thread : orders'[u] = IF u = t THEN {} ELSE orders[u]
      /\ \A u \in Thread : app'[u].exit = app[u].exit
      /\ \A u \in Thread : u # t => app'[u] = app[u]
      /\ ~app'[t].taken
      /\ app'[t].drain = app[t].drain /\ app'[t].alone = app[t].alone
      /\ app'[t].share = app[t].share
      /\ UNCHANGED <<blk, hand, bs, state, flags, inbox, ask, relieving, reload>>
  BY <1>1, ObeyDoes
<1>3. NoneRuns /\ JobsOnce' /\ \A j \in Jobs : Around(j)' => Around(j)
  BY <1>1, <1>2, JobsSame DEF NoneRuns, NoMore
<1>4. app'[HOME].alone = app[HOME].alone /\ orders'[HOME] \subseteq orders[HOME]
  BY <1>2, Threads
<1>5. Ended' /\ Births' /\ Stopping'
  BY <1>2, <1>3, <1>4, LoopKeeps, JobKinds
<1>6. Arrive'
  BY <1>1, <1>2 DEF Arrive
<1>7. Draining'
  BY <1>1, <1>2 DEF Draining, Running
<1>8. Relief'
  <2>1. Shared /\ Counted
    BY <1>1, ReliefParts
  <2>2. \A u \in Thread : app'[u].share = app[u].share /\ orders'[u] \subseteq orders[u]
    BY <1>2
  <2>3. Shared'
    BY <1>2, <1>3, <2>1, <2>2, JobKinds DEF Shared
  <2>4. Trims' = Trims /\ Shares' \subseteq Shares
    BY <1>2, <2>2 DEF Trims, Shares
  <2>5. ~Calm'
    BY <1>1, <1>2 DEF Calm
  <2>6. Counted'
    BY <1>1, <1>2, <2>1, <2>4, <2>5, SharesFewer
  <2> QED BY <2>3, <2>6 DEF Relief, Shared, Counted
<1>9. Reloads'
  <2>1. CASE t = HOME
    BY <1>1, <1>2, <1>3, <2>1, JobKinds DEF Reloads, LastReloadAnswered
  <2>2. CASE t # HOME
    BY <1>1, <1>2, <1>3, <2>2, ReloadsKept, JobKinds, Threads
  <2> QED BY <2>1, <2>2
<1> QED BY <1>2, <1>3, <1>5, <1>6, <1>7, <1>8, <1>9 DEF LifeInv

LEMMA ObeyKeeps == ASSUME LifeInv, bs.pc # "forced", NEW t \in Thread, Obey(t), ~app[t].exit PROVE LifeInv'
<1>1. Typed /\ JobsOnce /\ Ended /\ Births /\ Arrive /\ Draining /\ Stopping /\ Relief /\ Reloads
  BY DEF LifeInv
<1>2. /\ Typed' /\ state[t] = "RUNNING" /\ app[t].taken
      /\ \A u \in Thread : orders'[u] = IF u = t THEN {} ELSE orders[u]
      /\ \A u \in Thread : app'[u].exit = app[u].exit
      /\ \A u \in Thread : u # t => app'[u] = app[u]
      /\ ~app'[t].taken
      /\ app'[t].drain = app[t].drain + (IF "DRAIN" \in orders[t] THEN 1 ELSE 0)
      /\ app'[t].alone = (app[t].alone \/ "ALONE" \in orders[t])
      /\ \/ "RELOAD" \in orders[t] /\ ReloadedDoes(reload)
         \/ "RELOAD" \notin orders[t] /\ UNCHANGED <<blk, reload>>
      /\ UNCHANGED <<hand, bs, state, flags, inbox, ask, relieving>>
  BY <1>1, ObeyDoes
<1> DEFINE k == <<"reload", HOME>>
<1>3. k \in Jobs /\ k[1] = "reload" /\ k[2] = HOME /\ HOME \in Thread
  BY JobKinds, Threads
<1> HIDE DEF k
<1>4. UNCHANGED blk \/ (~reload.busy /\ reload'.busy /\ Given(k))
  BY <1>2 DEF ReloadedDoes, k
<1>5. JobsOnce' /\ \A j \in Jobs : Around(j)' => Around(j) \/ (j = k /\ reload'.busy)
  <2>1. CASE UNCHANGED blk
    BY <1>1, <1>2, <2>1, JobsSame DEF NoMore
  <2>2. CASE ~reload.busy /\ reload'.busy /\ Given(k)
    <3>1. ~Around(k)
      BY <1>1, <2>2 DEF Reloads, k
    <3>2. ~Waits(k) /\ ~InHand(k) /\ ~Back(k)'
      BY <1>2, <3>1 DEF Around, Back
    <3> QED BY <1>1, <1>2, <1>3, <2>2, <3>2, JobGiven
  <2> QED BY <1>4, <2>1, <2>2
<1>6. \A u \in Thread : Around(<<"walk", u>>)' => Around(<<"walk", u>>)
  <2>1. \A u \in Thread : <<"walk", u>> # k
    BY <1>3
  <2> QED BY <1>5, <2>1, JobKinds
<1>7. Ended' /\ Births' /\ Stopping'
  <2>1. app'[HOME].alone \/ "ALONE" \in orders'[HOME] => app[HOME].alone \/ "ALONE" \in orders[HOME]
    BY <1>2, Threads
  <2>2. UNCHANGED blk \/ \E j \in Jobs : Given(j)
    BY <1>3, <1>4
  <2> QED BY <1>2, <1>6, <2>1, <2>2, LoopKeeps
<1>8. Arrive'
  BY <1>1, <1>2 DEF Arrive
<1>9. Draining'
  <2>1. app[t].drain \in {0, 1} /\ ("DRAIN" \in orders[t] => "DRAINED" \in flags[t] /\ app[t].drain = 0)
    BY <1>1 DEF Draining
  <2>2. /\ "DRAIN" \in orders[t] => app'[t].drain = 1 /\ "DRAINED" \in flags[t]
        /\ "DRAIN" \notin orders[t] => app'[t].drain = app[t].drain
    BY <1>2, <2>1
  <2> QED BY <1>1, <1>2, <2>1, <2>2 DEF Draining, Running
<1>10. Relief'
  BY <1>6, ObeyShared
<1>11. Reloads'
  <2>1. Around(k)' => reload'.busy
    <3>1. Around(k) => reload.busy
      BY <1>1 DEF Reloads, k
    <3>2. reload.busy => reload'.busy
      BY <1>2 DEF ReloadedDoes
    <3> QED BY <1>3, <1>5, <3>1, <3>2
  <2>2. CASE "RELOAD" \in orders[t]
    <3>1. "reload" \in inbox[HOME] => reload.busy
      BY <1>1 DEF Reloads, Around, Back
    <3>2. ReloadedDoes(reload)
      BY <1>2, <2>2
    <3>3. LastReloadAnswered'
      BY <3>2 DEF ReloadedDoes, LastReloadAnswered
    <3>4. "reload" \in inbox'[HOME] => reload'.again
      BY <1>2, <3>1, <3>2 DEF ReloadedDoes
    <3> QED BY <2>1, <3>3, <3>4 DEF Reloads, k
  <2>3. CASE "RELOAD" \notin orders[t]
    <3>1. UNCHANGED reload /\ ("RELOAD" \in orders'[HOME] <=> "RELOAD" \in orders[HOME])
      BY <1>2, <1>3, <2>3
    <3>2. Around(k)' => Around(k)
      BY <1>2, <1>3, <1>5, <2>3, JobsSame, <1>1 DEF NoMore
    <3> QED BY <1>1, <1>2, <1>3, <3>1, <3>2, ReloadsKept DEF k
  <2> QED BY <2>2, <2>3
<1> QED BY <1>2, <1>5, <1>7, <1>8, <1>9, <1>10, <1>11 DEF LifeInv

LEMMA RelievedKeeps == ASSUME LifeInv, bs.pc # "forced", NEW t \in Thread, Relieved(t) PROVE LifeInv'
<1>1. Typed /\ JobsOnce /\ Ended /\ Births /\ Arrive /\ Draining /\ Stopping /\ Relief /\ Reloads
  BY DEF LifeInv
<1> DEFINE x == IF relieving = 2 THEN "trim" ELSE "none"
<1>2. /\ relieving' = relieving - 1 /\ state[t] = "RUNNING" /\ app[t].share = "share"
      /\ ShareIs(t, x)
      /\ relieving # 0 => Typed'
      /\ UNCHANGED <<blk, hand, bs, state, flags, orders, inbox, ask, reload>>
  BY <1>1, RelievedDoes
<1>3. x \in {"trim", "none"}
  OBVIOUS
<1> HIDE DEF x
<1>4. \A u \in Thread :
        /\ app'[u].share = IF u = t THEN x ELSE app[u].share
        /\ app'[u].drain = app[u].drain /\ app'[u].alone = app[u].alone
        /\ app'[u].exit = app[u].exit /\ app'[u].taken = app[u].taken
  BY <1>2 DEF ShareIs
<1>5. Shared /\ Counted
  BY <1>1, ReliefParts
<1>6. t \in Shares /\ t \notin ask /\ "RELIEVE" \notin orders[t]
  BY <1>2, <1>5 DEF Shares, Shared
<1>7. Trims = {}
  BY <1>5, <1>6 DEF Counted
<1>8. Shares' = Shares \ {t}
  BY <1>2, <1>3, <1>4, <1>6 DEF Shares
<1> DEFINE n == Cardinality(Shares)
<1>9. n \in Nat \ {0} /\ Cardinality(Shares') = n - 1 /\ (Shares' = {} <=> n - 1 = 0)
  <2>1. IsFiniteSet(Shares) /\ n \in Nat /\ n # 0
    BY <1>6, SharesFinite
  <2>2. Cardinality(Shares \ {t}) = n - 1 /\ IsFiniteSet(Shares \ {t})
    BY <1>6, <2>1, FS_RemoveElement
  <2>3. Shares \ {t} = {} <=> n - 1 = 0
    BY <2>2, FS_EmptySet
  <2> QED BY <1>8, <2>1, <2>2, <2>3
<1> HIDE DEF n
<1>10. relieving \in Nat /\ relieving >= n + 1
  BY <1>1, <1>5, <1>9 DEF Counted, Typed, n
<1>11. Typed'
  BY <1>2, <1>9, <1>10
<1>12. NoneRuns /\ JobsOnce' /\ \A j \in Jobs : Around(j)' => Around(j)
  BY <1>1, <1>2, JobsSame DEF NoneRuns, NoMore
<1>13. Ended' /\ Births' /\ Stopping'
  BY <1>2, <1>4, <1>12, LoopKeeps, JobKinds, Threads
<1>14. Arrive'
  BY <1>1, <1>2, <1>4, <1>12, ArriveKept
<1>15. Draining'
  BY <1>1, <1>2, <1>4, <1>12, DrainingKept
<1>16. Relief'
  <2>1. Calm' => Calm
    BY <1>1, <1>2, <1>4, CalmKept
  <2>2. Shared'
    <3>1. ~Around(<<"walk", t>>)'
      BY <1>2, <1>5, <1>12, JobKinds DEF Shared
    <3>2. ASSUME NEW u \in Thread
          PROVE  /\ u \in ask' => "RELIEVE" \notin orders'[u] /\ app'[u].share # "share"
                 /\ "RELIEVE" \in orders'[u] => app'[u].share # "share"
                 /\ Around(<<"walk", u>>)' /\ state'[u] = "RUNNING" => app'[u].share = "walking"
      <4>1. CASE u = t
        BY <1>2, <1>3, <1>4, <1>6, <3>1, <4>1
      <4>2. CASE u # t
        BY <1>2, <1>4, <1>5, <1>12, <4>2, JobKinds DEF Shared
      <4> QED BY <4>1, <4>2
    <3> QED BY <3>2 DEF Shared
  <2>3. Calm => relieving = n + 1
    BY <1>5, <1>6 DEF Counted, n
  <2>4. CASE relieving = 2
    <3>1. Trims' = {t} /\ Cardinality({t}) = 1
      BY <1>4, <1>7, <2>4, FS_Singleton DEF Trims, x
    <3>2. Shares' = {} /\ Cardinality(Shares') = 0 /\ relieving' = 1
      BY <1>2, <1>9, <1>10, <2>4
    <3>3. Counted'
      BY <3>1, <3>2 DEF Counted
    <3> QED BY <2>2, <3>3 DEF Relief, Shared, Counted
  <2>5. CASE relieving # 2
    <3>1. Trims' = {} /\ Cardinality({}) = 0
      BY <1>4, <1>7, <2>5, FS_EmptySet DEF Trims, x
    <3>2. Cardinality(Shares') > 0 => relieving' >= Cardinality(Shares') + 1
      BY <1>2, <1>9, <1>10
    <3>3. Calm' => Shares' # {} /\ relieving' = Cardinality(Shares') + 1
      BY <1>2, <1>9, <1>10, <2>1, <2>3, <2>5
    <3>4. Counted'
      BY <3>1, <3>2, <3>3 DEF Counted
    <3> QED BY <2>2, <3>4 DEF Relief, Shared, Counted
  <2> QED BY <2>4, <2>5
<1>17. Reloads'
  BY <1>1, <1>2, <1>4, <1>12, ReloadsKept, JobKinds, Threads
<1> QED BY <1>11, <1>12, <1>13, <1>14, <1>15, <1>16, <1>17 DEF LifeInv

LEMMA TrimKeeps == ASSUME LifeInv, bs.pc # "forced", NEW t \in Thread, Trim(t) PROVE LifeInv'
<1>1. Typed /\ JobsOnce /\ Ended /\ Births /\ Arrive /\ Draining /\ Stopping /\ Relief /\ Reloads
  BY DEF LifeInv
<1> DEFINE k == <<"walk", t>>
<1>2. PICK x \in {"walking", "none"} :
        /\ Typed' /\ state[t] = "RUNNING" /\ app[t].share = "trim"
        /\ \/ x = "walking" /\ Given(k) /\ UNCHANGED relieving
           \/ x = "none" /\ relieving' = 0 /\ UNCHANGED blk
        /\ ShareIs(t, x)
        /\ UNCHANGED <<hand, bs, state, flags, orders, inbox, ask, reload>>
  BY <1>1, TrimDoes
<1>3. k \in Jobs /\ k[1] = "walk" /\ k[2] = t
  BY JobKinds
<1>4. \A u \in Thread :
        /\ app'[u].share = IF u = t THEN x ELSE app[u].share
        /\ app'[u].drain = app[u].drain /\ app'[u].alone = app[u].alone
        /\ app'[u].exit = app[u].exit /\ app'[u].taken = app[u].taken
  BY <1>2 DEF ShareIs
<1>5. Shared /\ Counted
  BY <1>1, ReliefParts
<1>6. Trims = {t} /\ Cardinality(Trims) = 1 /\ relieving = 1 /\ Shares = {}
  <2>1. t \in Trims /\ Cardinality(Trims) <= 1
    BY <1>2, <1>5 DEF Trims, Counted
  <2>2. Trims = {t} /\ Cardinality(Trims) = 1
    BY <2>1, OneTrims
  <2> QED BY <1>5, <2>2 DEF Counted
<1>7. ~Around(k)
  BY <1>2, <1>5 DEF Shared, k
<1> HIDE DEF k
<1>8. JobsOnce' /\ \A j \in Jobs : Around(j)' => Around(j) \/ (j = k /\ x = "walking")
  <2>1. CASE UNCHANGED blk
    BY <1>1, <1>2, <2>1, JobsSame DEF NoMore
  <2>2. CASE x = "walking" /\ Given(k)
    <3>1. ~Waits(k) /\ ~InHand(k) /\ ~Back(k)'
      BY <1>2, <1>7 DEF Around, Back
    <3> QED BY <1>1, <1>2, <1>3, <2>2, <3>1, JobGiven
  <2> QED BY <1>2, <2>1, <2>2
<1>9. NoneRuns /\ \A u \in Thread : u # t => (Around(<<"walk", u>>)' => Around(<<"walk", u>>))
  <2>1. \A u \in Thread : u # t => <<"walk", u>> # k
    BY <1>3
  <2> QED BY <1>2, <1>8, <2>1, JobKinds DEF NoneRuns
<1>10. Ended' /\ Births' /\ Stopping'
  <2>1. UNCHANGED blk \/ \E j \in Jobs : Given(j)
    BY <1>2, <1>3
  <2> QED BY <1>2, <1>4, <1>9, <2>1, LoopKeeps, Threads
<1>11. Arrive'
  BY <1>1, <1>2, <1>4, <1>9, ArriveKept
<1>12. Draining'
  BY <1>1, <1>2, <1>4, <1>9, DrainingKept
<1>13. Relief'
  <2>1. Calm' => Calm
    BY <1>1, <1>2, <1>4, CalmKept
  <2>2. Shares' = {}
    BY <1>2, <1>4, <1>6 DEF Shares
  <2>3. Shared'
    <3>1. ASSUME NEW u \in Thread
          PROVE  /\ u \in ask' => "RELIEVE" \notin orders'[u] /\ app'[u].share # "share"
                 /\ "RELIEVE" \in orders'[u] => app'[u].share # "share"
                 /\ Around(<<"walk", u>>)' /\ state'[u] = "RUNNING" => app'[u].share = "walking"
      <4>1. CASE u = t
        <5>1. Around(k)' => x = "walking"
          BY <1>3, <1>7, <1>8
        <5> QED BY <1>2, <1>4, <1>5, <4>1, <5>1 DEF k, Shared
      <4>2. CASE u # t
        BY <1>2, <1>4, <1>5, <1>9, <4>2 DEF Shared
      <4> QED BY <4>1, <4>2
    <3> QED BY <3>1 DEF Shared
  <2>4. Trims' = IF x = "walking" THEN {t} ELSE {}
    BY <1>2, <1>4, <1>6 DEF Trims
  <2>5. Cardinality({t}) = 1 /\ Cardinality({}) = 0
    BY FS_Singleton, FS_EmptySet
  <2>6. relieving' = IF x = "walking" THEN 1 ELSE 0
    BY <1>2, <1>6
  <2>7. Counted'
    BY <2>2, <2>4, <2>5, <2>6 DEF Counted
  <2> QED BY <2>3, <2>7 DEF Relief, Shared, Counted
<1>14. Reloads'
  <2>1. Around(<<"reload", HOME>>)' => Around(<<"reload", HOME>>)
    <3>1. <<"reload", HOME>> # k
      BY <1>3
    <3> QED BY <1>8, <3>1, JobKinds
  <2> QED BY <1>1, <1>2, <1>4, <2>1, ReloadsKept, Threads
<1> QED BY <1>2, <1>8, <1>10, <1>11, <1>12, <1>13, <1>14 DEF LifeInv

LEMMA WalkDoneKeeps == ASSUME LifeInv, bs.pc # "forced", NEW t \in Thread, WalkDone(t) PROVE LifeInv'
<1>1. Typed /\ JobsOnce /\ Ended /\ Births /\ Arrive /\ Draining /\ Stopping /\ Relief /\ Reloads
  BY DEF LifeInv
<1>2. /\ Typed' /\ state[t] = "RUNNING" /\ "walk" \in inbox[t]
      /\ \A u \in Thread : inbox'[u] = IF u = t THEN inbox[t] \ {"walk"} ELSE inbox[u]
      /\ \/ app[t].exit /\ UNCHANGED <<app, relieving>>
         \/ ShareIs(t, "none") /\ relieving' = 0
      /\ UNCHANGED <<blk, hand, bs, state, flags, orders, ask, reload>>
  BY <1>1, WalkDoneDoes
<1>3. \A u \in Thread :
        /\ u # t => app'[u].share = app[u].share
        /\ app'[u].drain = app[u].drain /\ app'[u].alone = app[u].alone
        /\ app'[u].exit = app[u].exit /\ app'[u].taken = app[u].taken
  BY <1>2 DEF ShareIs
<1> DEFINE k == <<"walk", t>>
<1>4. k \in Jobs /\ Back(k) /\ Around(k)
  BY <1>2, JobKinds DEF Back, Around
<1>5. NoneRuns /\ JobsOnce' /\ \A j \in Jobs : Around(j)' => Around(j)
  <2>1. \A u \in Thread : inbox'[u] \cap Jobbed \subseteq inbox[u]
    BY <1>2
  <2> QED BY <1>1, <1>2, <2>1, JobsSame DEF NoneRuns, NoMore
<1>6. ~Around(k)'
  <2>1. ~Waits(k) /\ ~InHand(k)
    BY <1>1, <1>4 DEF JobsOnce
  <2>2. ~Back(k)'
    BY <1>2 DEF Back
  <2> QED BY <1>2, <2>1, <2>2 DEF Around, Waits, InHand
<1>7. Ended' /\ Births' /\ Stopping'
  BY <1>2, <1>3, <1>5, LoopKeeps, JobKinds, Threads
<1>8. Arrive'
  BY <1>1, <1>2, <1>3, <1>5, ArriveKept
<1>9. Draining'
  BY <1>1, <1>2, <1>3, <1>5, DrainingKept
<1>10. Calm' => Calm
  BY <1>1, <1>2, <1>3, CalmKept
<1>11. Relief'
  <2>1. CASE UNCHANGED <<app, relieving>>
    BY <1>1, <1>2, <1>5, <1>10, <2>1, ReliefKept, JobKinds
  <2>2. CASE ShareIs(t, "none") /\ relieving' = 0
    <3>1. Shared /\ Counted /\ app[t].share = "walking" /\ app'[t].share = "none"
      BY <1>1, <1>2, <1>4, <2>2, ReliefParts DEF Shared, ShareIs
    <3>2. Trims = {t} /\ Shares = {}
      <4>1. t \in Trims /\ Cardinality(Trims) <= 1
        BY <3>1 DEF Trims, Counted
      <4>2. Trims = {t}
        BY <4>1, OneTrims
      <4> QED BY <3>1, <4>2 DEF Counted
    <3>3. Trims' = {} /\ Shares' = {} /\ Cardinality({}) = 0
      BY <1>2, <1>3, <3>1, <3>2, FS_EmptySet DEF Trims, Shares
    <3>4. Counted'
      BY <2>2, <3>3 DEF Counted
    <3>5. Shared'
      <4>1. ASSUME NEW u \in Thread
            PROVE  /\ u \in ask' => "RELIEVE" \notin orders'[u] /\ app'[u].share # "share"
                   /\ "RELIEVE" \in orders'[u] => app'[u].share # "share"
                   /\ Around(<<"walk", u>>)' /\ state'[u] = "RUNNING" => app'[u].share = "walking"
        <5>1. CASE u = t
          BY <1>2, <1>6, <3>1, <5>1 DEF Shared
        <5>2. CASE u # t
          BY <1>2, <1>3, <1>5, <3>1, <5>2, JobKinds DEF Shared
        <5> QED BY <5>1, <5>2
      <4> QED BY <4>1 DEF Shared
    <3> QED BY <3>4, <3>5 DEF Relief, Shared, Counted
  <2> QED BY <1>2, <2>1, <2>2
<1>12. Reloads'
  BY <1>1, <1>2, <1>3, <1>5, ReloadsKept, JobKinds, Threads
<1> QED BY <1>2, <1>5, <1>7, <1>8, <1>9, <1>11, <1>12 DEF LifeInv

LEMMA ThreadEndsKeeps == ASSUME LifeInv, NEW t \in Thread, ThreadEnds(t) PROVE LifeInv'
<1>1. Typed /\ JobsOnce /\ Ended /\ Births /\ Arrive /\ Draining /\ Stopping /\ Relief /\ Reloads
  BY DEF LifeInv
<1>2. /\ Typed' /\ state[t] = "RUNNING" /\ app[t].exit /\ ShareIs(t, "none")
      /\ UNCHANGED <<blk, hand, bs, flags, orders, inbox, ask, relieving, reload>>
  BY <1>1, ThreadEndsDoes
<1>3. \A u \in Thread : state'[u] = IF u = t THEN "EXITED" ELSE state[u]
  BY <1>1, ThreadEndsDoes DEF Typed
<1>4. \A u \in Thread :
        /\ app'[u].share = IF u = t THEN "none" ELSE app[u].share
        /\ app'[u].drain = app[u].drain /\ app'[u].alone = app[u].alone
        /\ app'[u].exit = app[u].exit /\ app'[u].taken = app[u].taken
  BY <1>2 DEF ShareIs
<1>5. NoneRuns /\ JobsOnce' /\ \A j \in Jobs : Around(j)' => Around(j)
  BY <1>1, <1>2, <1>3, JobsSame DEF NoneRuns, NoMore
<1>6. Ended'
  BY <1>1, <1>2, EndedKept
<1>7. Births'
  <2>1. NoneYoung
    BY <1>2, <1>3 DEF NoneYoung, Young
  <2>2. \A u \in Thread : Spared(u)
    BY <1>2, <1>4 DEF Spared
  <2>3. bs'.pc = "start" => bs'.i \in Thread /\ \A u \in Thread : u > bs'.i => state'[u] = "JOINED"
    BY <1>1, <1>2, <1>3 DEF Births
  <2>4. \A u \in Thread : state'[u] = "STARTING" => bs'.pc \in {"start", "forced"} /\ u = bs'.i
    BY <1>1, <1>2, <1>3 DEF Births
  <2> QED BY <1>1, <1>2, <1>5, <2>1, <2>2, <2>3, <2>4, BirthsKept, JobKinds
<1>8. Arrive'
  BY <1>1, <1>2, <1>4, <1>5, ArriveKept
<1>9. Draining'
  BY <1>1, <1>2, <1>4, <1>5, DrainingKept
<1>10. Stopping'
  BY <1>1, <1>2, <1>4, <1>5, StoppingKept, Threads DEF Done, Stopping
<1>11. Relief'
  <2>1. Shared /\ Counted
    BY <1>1, ReliefParts
  <2>2. Shares' \subseteq Shares
    BY <1>2, <1>4, <1>5 DEF Shares, NoneRuns
  <2>3. Trims' \subseteq Trims
    BY <1>4 DEF Trims
  <2>4. ~Calm'
    BY <1>2, <1>4 DEF Calm
  <2>5. Counted'
    BY <1>1, <1>2, <2>1, <2>2, <2>3, <2>4, SharesFewer
  <2>6. Shared'
    BY <1>2, <1>3, <1>4, <1>5, <2>1, JobKinds DEF Shared
  <2> QED BY <2>5, <2>6 DEF Relief, Shared, Counted
<1>12. Reloads'
  BY <1>1, <1>2, <1>4, <1>5, ReloadsKept, JobKinds, Threads DEF NoneRuns
<1> QED BY <1>2, <1>5, <1>6, <1>7, <1>8, <1>9, <1>10, <1>11, <1>12 DEF LifeInv

LEMMA ReloadDoneKeeps == ASSUME LifeInv, bs.pc # "forced", ReloadDone PROVE LifeInv'
<1>1. Typed /\ JobsOnce /\ Ended /\ Births /\ Arrive /\ Draining /\ Stopping /\ Relief /\ Reloads
  BY DEF LifeInv
<1> DEFINE k == <<"reload", HOME>>
<1>2. /\ Typed' /\ state[HOME] = "RUNNING" /\ "reload" \in inbox[HOME]
      /\ \A u \in Thread : inbox'[u] = IF u = HOME THEN inbox[HOME] \ {"reload"} ELSE inbox[u]
      /\ ReloadIsDone
      /\ UNCHANGED <<hand, bs, state, flags, orders, app, ask, relieving>>
  BY <1>1, ReloadDoneDoes
<1>3. /\ k \in Jobs /\ k[1] = "reload" /\ k[2] = HOME /\ HOME \in Thread
      /\ \/ reload'.busy /\ Given(k)
         \/ ~reload'.busy /\ UNCHANGED blk
  BY <1>2, JobKinds, Threads DEF ReloadIsDone
<1>4. Back(k) /\ ~Back(k)' /\ "reload" \notin inbox'[HOME]
  BY <1>2, <1>3 DEF Back
<1>5. ~Waits(k) /\ ~InHand(k)
  BY <1>1, <1>3, <1>4 DEF JobsOnce
<1>6. JobsOnce' /\ \A j \in Jobs : Around(j)' => Around(j)
  <2>1. \A u \in Thread : inbox'[u] \cap Jobbed \subseteq inbox[u]
    BY <1>2
  <2>2. CASE UNCHANGED blk
    BY <1>1, <1>2, <2>1, <2>2, JobsSame DEF NoMore
  <2>3. CASE Given(k)
    <3>1. /\ JobsOnce' /\ \A j \in Jobs : Around(j)' => Around(j) \/ j = k
      BY <1>1, <1>2, <1>3, <1>4, <1>5, <2>1, <2>3, JobGiven
    <3> QED BY <1>4, <3>1 DEF Around
  <2> QED BY <1>3, <2>2, <2>3
<1>7. NoneRuns /\ ~reload'.busy => ~Around(k)'
  BY <1>2, <1>3, <1>4, <1>5 DEF Around, Waits, InHand
<1>8. Ended' /\ Births' /\ Stopping'
  <2>1. UNCHANGED blk \/ \E j \in Jobs : Given(j)
    BY <1>3
  <2> QED BY <1>2, <1>3, <1>6, <2>1, LoopKeeps, JobKinds
<1>9. NoneRuns /\ Arrive'
  BY <1>1, <1>2, ArriveKept DEF NoneRuns
<1>10. Draining'
  BY <1>1, <1>2, <1>9, DrainingKept
<1>11. Relief'
  <2>1. Calm' => Calm
    BY <1>1, <1>2, CalmKept
  <2> QED BY <1>1, <1>2, <1>6, <1>9, <2>1, ReliefKept, JobKinds
<1>12. Reloads'
  <2>1. Around(k)' => reload'.busy
    BY <1>7, <1>9
  <2>2. LastReloadAnswered'
    <3> SUFFICES ASSUME ~reload'.busy, ~app'[HOME].exit, "RELOAD" \notin orders'[HOME]
                 PROVE  reload'.last \in {reload'.applied, reload'.refused, reload'.shut}
      BY DEF LastReloadAnswered
    <3>1. HOME \in Running
      BY <1>2, <1>3 DEF Running
    <3>2. ~reload.error /\ ~reload.again => reload.read = reload.last
      BY <1>1, <1>2, <3>1 DEF Reloads
    <3> QED BY <1>2, <3>2 DEF ReloadIsDone
  <2> QED BY <1>4, <2>1, <2>2 DEF Reloads
<1> QED BY <1>2, <1>6, <1>8, <1>9, <1>10, <1>11, <1>12 DEF LifeInv

-----------------------------------------------------------------------------
(* The blockers' steps.                                                    *)

\* A blocker's step changes no more than what waits and what is in hand.
LEMMA BlockerKeeps ==
  ASSUME LifeInv, Typed', NoMore, Ended', Done => Done',
         UNCHANGED <<bs, state, flags, orders, inbox, app, ask, relieving, reload>>
  PROVE  LifeInv'
<1>1. Typed /\ JobsOnce /\ Ended /\ Births /\ Arrive /\ Draining /\ Stopping /\ Relief /\ Reloads
  BY DEF LifeInv
<1>2. NoneRuns /\ NoneYoung /\ JobsOnce' /\ \A j \in Jobs : Around(j)' => Around(j)
  BY DEF NoneRuns, NoneYoung, Young, NoMore
<1>3. Births'
  <2>1. \A u \in Thread : Spared(u)
    BY DEF Spared
  <2>2. bs'.pc = "start" => bs'.i \in Thread /\ \A u \in Thread : u > bs'.i => state'[u] = "JOINED"
    BY <1>1 DEF Births
  <2>3. \A u \in Thread : state'[u] = "STARTING" => bs'.pc \in {"start", "forced"} /\ u = bs'.i
    BY <1>1 DEF Births
  <2> QED BY <1>1, <1>2, <2>1, <2>2, <2>3, BirthsKept, JobKinds
<1>4. Arrive'
  BY <1>1, <1>2, ArriveKept
<1>5. Draining'
  BY <1>1, <1>2, DrainingKept
<1>6. Stopping'
  BY <1>1, <1>2, StoppingKept DEF Stopping
<1>7. Relief'
  <2>1. Calm' => Calm
    BY <1>1, CalmKept
  <2> QED BY <1>1, <1>2, <2>1, ReliefKept, JobKinds
<1>8. Reloads'
  BY <1>1, <1>2, ReloadsKept, JobKinds
<1> QED BY <1>2, <1>3, <1>4, <1>5, <1>6, <1>7, <1>8 DEF LifeInv

LEMMA BlockedKeeps == ASSUME LifeInv, Blocked PROVE LifeInv'
<1>1. Typed /\ JobsOnce /\ Ended
  BY DEF LifeInv
<1>2. /\ Typed' /\ UNCHANGED <<bs, state, flags, orders, inbox, app, ask, relieving, reload>>
  BY <1>1, BlockedDoes
<1>3. CASE Signal
  <2>1. /\ blk'.queue = blk.queue /\ blk'.stop = blk.stop
        /\ \A w \in Worker : /\ hand'[w].job = hand[w].job
                             /\ hand'[w].at \in {hand[w].at, "lock"}
                             /\ hand'[w].at # hand[w].at => hand[w].at = "asleep"
    BY <1>1, <1>3, SignalsDoes
  <2>2. NoMore
    BY <1>1, <1>2, <2>1, JobsSame
  <2>3. Ended' /\ (Done => Done')
    <3>1. \A w \in Worker : hand'[w].at = "gone" <=> hand[w].at = "gone"
      BY <2>1
    <3> QED BY <1>1, <2>1, <3>1, EndedKept DEF Done
  <2> QED BY <1>2, <2>2, <2>3, BlockerKeeps
<1>4. ASSUME NEW w \in Worker, NextJob(w) PROVE LifeInv'
  <2>1. NoMore
    BY <1>1, <1>2, <1>4, JobTaken
  <2>2. /\ hand[w].at = "lock" /\ \A v \in Worker : v # w => hand'[v] = hand[v]
        /\ \/ /\ blk.queue = <<>> /\ UNCHANGED blk
              /\ \/ hand'[w].at = "gone" /\ blk.stop
                 \/ hand'[w].at = "asleep"
           \/ /\ blk.queue # <<>> /\ hand'[w].at \in {"work", "cancelled"}
    BY <1>1, <1>4, NextJobDoes
  <2>3. ~Done
    BY <2>2 DEF Done
  <2>4. Ended'
    BY <1>1, <2>2 DEF Ended
  <2> QED BY <1>2, <2>1, <2>3, <2>4, BlockerKeeps
<1> QED BY <1>1, <1>3, <1>4, BlockedDoes

LEMMA WorkKeeps == ASSUME LifeInv, NEW w \in Worker, Work(w) PROVE LifeInv'
<1>1. Typed /\ JobsOnce /\ Ended /\ Births /\ Arrive /\ Draining /\ Stopping /\ Relief /\ Reloads
  BY DEF LifeInv
<1>2. PICK k \in Jobs :
        /\ Typed' /\ hand[w].job = k /\ hand'[w].job = None /\ hand'[w].at = "lock"
        /\ hand[w].at \in {"work", "cancelled"}
        /\ \A v \in Worker : v # w => hand'[v] = hand[v]
        /\ \A t \in Thread : inbox'[t] = IF t = k[2] THEN inbox[t] \cup {k[1]} ELSE inbox[t]
        /\ \/ k[1] = "walk" /\ UNCHANGED reload
           \/ k[1] = "reload" /\ ReadDoes
        /\ UNCHANGED <<blk, bs, state, flags, orders, app, ask, relieving>>
  BY <1>1, WorkDoes
<1>3. NoMore
  BY <1>1, <1>2, JobBack
<1>4. NoneRuns /\ NoneYoung /\ JobsOnce' /\ \A j \in Jobs : Around(j)' => Around(j)
  BY <1>2, <1>3 DEF NoneRuns, NoneYoung, Young, NoMore
<1>5. ~Done /\ \A t \in Thread : "FREED" \notin flags[t]
  BY <1>1, <1>2 DEF Done, Stopping
<1>6. \A t \in Thread : \A x : x # k[1] => (x \in inbox'[t] <=> x \in inbox[t])
  BY <1>2
<1>7. \A t \in Thread : "order" \in inbox'[t] <=> "order" \in inbox[t]
  <2>1. k[1] # "order"
    BY JobParts DEF Jobbed
  <2> QED BY <1>6, <2>1
<1>8. Ended'
  BY <1>1, <1>2 DEF Ended
<1>9. reload'.applied = reload.applied /\ reload'.last = reload.last
  BY <1>2 DEF ReadDoes
<1>10. Births'
  <2>1. \A u \in Thread : Spared(u)
    BY <1>2, <1>7 DEF Spared
  <2>2. bs'.pc = "start" => bs'.i \in Thread /\ \A u \in Thread : u > bs'.i => state'[u] = "JOINED"
    BY <1>1, <1>2 DEF Births
  <2>3. \A u \in Thread : state'[u] = "STARTING" => bs'.pc \in {"start", "forced"} /\ u = bs'.i
    BY <1>1, <1>2 DEF Births
  <2> QED BY <1>1, <1>4, <1>9, <2>1, <2>2, <2>3, BirthsKept, JobKinds
<1>11. Arrive'
  BY <1>1, <1>2, <1>4, <1>7, ArriveKept
<1>12. Draining'
  BY <1>1, <1>2, <1>4, DrainingKept
<1>13. Stopping'
  BY <1>1, <1>2, <1>4, <1>5, StoppingKept
<1>14. Relief'
  <2>1. Calm' => Calm
    BY <1>1, <1>2, CalmKept
  <2> QED BY <1>1, <1>2, <1>4, <2>1, ReliefKept, JobKinds
<1>15. Reloads'
  <2>1. CASE k[1] = "walk"
    <3>1. "reload" \in inbox'[HOME] <=> "reload" \in inbox[HOME]
      BY <1>6, <2>1, Threads
    <3>2. UNCHANGED <<reload, state, orders, app>>
      BY <1>2, <2>1
    <3> QED BY <1>1, <1>4, <3>1, <3>2, ReloadsKept, JobKinds
  <2>2. CASE k[1] = "reload"
    <3>1. Around(<<"reload", HOME>>)' => reload'.busy
      BY <1>1, <1>2, <1>4, <2>2, JobKinds DEF Reloads, ReadDoes
    <3>2. LastReloadAnswered'
      BY <1>1, <1>2, <2>2 DEF Reloads, LastReloadAnswered, Running, ReadDoes
    <3>3. reload'.error \/ reload'.read = reload'.last
      BY <1>2, <2>2 DEF ReadDoes
    <3> QED BY <3>1, <3>2, <3>3 DEF Reloads
  <2> QED BY <1>2, <2>1, <2>2
<1> QED BY <1>2, <1>4, <1>8, <1>10, <1>11, <1>12, <1>13, <1>14, <1>15 DEF LifeInv

-----------------------------------------------------------------------------
(* The invariant holds, and what it says.                                  *)

LEMMA LifeStart == ASSUME Init PROVE LifeInv /\ Asked
<1>1. /\ blk = [queue |-> <<>>, stop |-> FALSE, signals |-> 0] /\ hand = [w \in Worker |-> Idle]
      /\ bs = [pc |-> "start", i |-> 0, stopping |-> FALSE, late |-> FALSE]
      /\ state = [t \in Thread |-> "JOINED"] /\ flags = [t \in Thread |-> {}]
      /\ orders = [t \in Thread |-> {}] /\ inbox = [t \in Thread |-> {}]
      /\ app = [t \in Thread |-> NewApp] /\ ask = {} /\ relieving = 0
      /\ reload = [busy |-> FALSE, again |-> FALSE, error |-> FALSE, wrong |-> FALSE, last |-> 0,
                   read |-> 0, applied |-> 0, refused |-> 0, shut |-> 0]
  BY DEF Init, BlockersInit
<1>2. Idle \in HandType /\ Idle.at = "lock" /\ Idle.job = None
  BY DEF Idle, HandType
<1>3. /\ NewApp \in AppType /\ NewApp.drain = 0 /\ ~NewApp.alone /\ ~NewApp.exit /\ ~NewApp.taken
      /\ NewApp.share = "none"
  BY DEF NewApp, AppType
<1>4. blk \in BlkType /\ blk.queue = <<>> /\ DOMAIN blk.queue = {}
  BY <1>1 DEF BlkType
<1>5. bs \in BsType /\ bs.pc = "start" /\ bs.i = 0 /\ ~bs.stopping
  BY <1>1 DEF BsType, Places
<1>6. reload \in ReloadType /\ reload.applied = reload.last
  BY <1>1 DEF ReloadType
<1>7. hand \in [Worker -> HandType] /\ \A w \in Worker : hand[w].at = "lock" /\ hand[w].job = None
  BY <1>1, <1>2
<1>8. app \in [Thread -> AppType] /\ \A t \in Thread : app[t] = NewApp
  BY <1>1, <1>3
<1>9. \A t \in Thread : state[t] = "JOINED" /\ flags[t] = {} /\ orders[t] = {} /\ inbox[t] = {}
  BY <1>1
<1>10. Typed
  BY <1>1, <1>4, <1>5, <1>6, <1>7, <1>8 DEF Typed
<1>11. \A j \in Jobs : ~Waits(j) /\ ~InHand(j) /\ ~Back(j)
  BY <1>4, <1>7, <1>9, NoJob, JobParts DEF Waits, InHand, Back
<1>12. JobsOnce
  BY <1>4, <1>7, <1>11 DEF JobsOnce, Around
<1>13. Ended
  BY <1>7 DEF Ended
<1>14. Births
  BY <1>3, <1>5, <1>6, <1>8, <1>9, <1>11, JobKinds, Threads DEF Births, Around, HOME
<1>15. Arrive /\ Draining /\ Stopping
  <2>1. \A t \in Thread : /\ app[t].drain = 0 /\ ~app[t].alone /\ state[t] # "RUNNING"
                          /\ flags[t] = {} /\ orders[t] = {}
    BY <1>3, <1>8, <1>9
  <2>2. Arrive
    BY <2>1 DEF Arrive
  <2>3. Draining
    BY <1>5, <2>1 DEF Draining
  <2>4. ~app[HOME].alone /\ "ALONE" \notin orders[HOME]
    BY <2>1, Threads
  <2>5. Stopping
    BY <1>5, <2>1, <2>4 DEF Stopping
  <2> QED BY <2>2, <2>3, <2>5
<1>16. Relief
  <2>1. Shares = {} /\ Trims = {} /\ Cardinality({}) = 0
    BY <1>1, <1>3, <1>8, <1>9, FS_EmptySet DEF Shares, Trims
  <2>2. \A t \in Thread : ~Around(<<"walk", t>>)
    BY <1>11, JobKinds DEF Around
  <2> QED BY <1>1, <1>3, <1>8, <1>9, <2>1, <2>2 DEF Relief
<1>17. Reloads
  <2>1. ~Around(<<"reload", HOME>>) /\ "reload" \notin inbox[HOME]
    BY <1>9, <1>11, JobKinds, Threads DEF Around
  <2> QED BY <1>6, <2>1 DEF Reloads, LastReloadAnswered
<1> QED BY <1>1, <1>10, <1>12, <1>13, <1>14, <1>15, <1>16, <1>17 DEF LifeInv, Asked

\* Nothing but the start of a thread makes one that is yet to report, and that
\* waits until a relief has asked all.
LEMMA AskedKept ==
  ASSUME Asked, bs'.pc = "start" => bs.pc = "start" /\ bs'.i = bs.i,
         ask' # {} => ask # {},
         state[bs.i] \in {"RUNNING", "EXITED"} => state'[bs.i] \in {"RUNNING", "EXITED"}
  PROVE  Asked'
BY DEF Asked

LEMMA AskedKeeps ==
  ASSUME LifeInv, Asked, Next
  PROVE  Asked'
<1>1. Typed /\ Births
  BY DEF LifeInv
<1>2. CASE StartThread
  <2>1. /\ bs.pc = "start" /\ state[bs.i] = "JOINED" /\ UNCHANGED ask
    BY <1>1, <1>2, StartThreadDoes
  <2>2. ask = {}
    BY <2>1 DEF Asked
  <2> QED BY <2>1, <2>2 DEF Asked
<1>3. CASE Started
  BY <1>3 DEF Started, Asked
<1>4. CASE StopSignal
  BY <1>1, <1>4, SignalDoes, AskedKept DEF At
<1>5. CASE Hup
  BY <1>1, <1>5, HupDoes, AskedKept
<1>6. CASE Forces
  BY <1>1, <1>6, ForceDoes DEF At, Asked
<1>7. CASE Relieve
  <2>1. Minds /\ \A t \in Thread : state[t] # "STARTING"
    BY <1>7 DEF Relieve
  <2>2. bs.pc = "start" => state[bs.i] # "JOINED" /\ bs.i \in Thread
    BY <1>1, <2>1 DEF Minds, Births
  <2>3. bs.pc = "start" => state[bs.i] \in {"RUNNING", "EXITED"}
    BY <1>1, <2>1, <2>2 DEF Typed
  <2> QED BY <1>1, <1>7, <2>3, RelieveDoes DEF Asked
<1>8. CASE RelieveOrder
  BY <1>1, <1>8, RelieveOrderDoes, AskedKept
<1>9. CASE ClientsRun
  BY <1>1, <1>9, ClientsRunDoes DEF Asked
<1>10. CASE HomeAlone
  BY <1>1, <1>10, HomeAloneDoes DEF Asked, At
<1>11. CASE StopBlockers
  BY <1>1, <1>11, StopBlockersDoes DEF Asked
<1>12. CASE BlockersDone
  BY <1>1, <1>12, BlockersDoneDoes DEF Asked
<1>13. CASE LoopFini
  BY <1>1, <1>13, LoopFiniDoes DEF Asked
<1>14. CASE ReloadDone
  BY <1>14, AskedKept DEF ReloadDone
<1>15. CASE Blocked
  BY <1>15, AskedKept DEF Blocked
<1>16. ASSUME NEW w \in Worker, Work(w) PROVE Asked'
  BY <1>16, AskedKept DEF Work
<1>17. ASSUME NEW t \in Thread, ThreadStep(t) PROVE Asked'
  <2>1. CASE ThreadRuns(t)
    <3>1. \A u \in Thread : state'[u] \in {state[u], "RUNNING", "EXITED"}
      BY <1>1, <2>1 DEF ThreadRuns, Typed
    <3> QED BY <1>1, <2>1, <3>1 DEF Asked, Births, ThreadRuns
  <2>2. CASE ThreadEnds(t)
    <3>1. \A u \in Thread : state'[u] \in {state[u], "EXITED"}
      BY <1>1, <2>2 DEF ThreadEnds, Typed
    <3> QED BY <1>1, <2>2, <3>1 DEF Asked, Births, ThreadEnds
  <2>3. CASE TakeOrder(t) \/ Obey(t) \/ Relieved(t) \/ Trim(t) \/ WalkDone(t) \/ LoopExits(t)
    <3>1. UNCHANGED <<bs, state, ask>>
      BY <2>3 DEF TakeOrder, Obey, Relieved, Trim, WalkDone, LoopExits
    <3> QED BY <3>1, AskedKept
  <2> QED BY <1>17, <2>1, <2>2, <2>3 DEF ThreadStep
<1> QED BY <1>2, <1>3, <1>4, <1>5, <1>6, <1>7, <1>8, <1>9, <1>10, <1>11, <1>12, <1>13, <1>14, <1>15,
           <1>16, <1>17 DEF Next, BrainstemStep

LEMMA LifeStep ==
  ASSUME LifeInv, Asked, [Next]_vars
  PROVE  LifeInv' /\ Asked'
<1>1. CASE Next
  <2>1. bs.pc # "forced"
    BY <1>1 DEF Next, Over
  <2>2. ASSUME NEW t \in Thread, ThreadStep(t) PROVE LifeInv'
    BY <2>1, <2>2, ThreadRunsKeeps, TakeOrderKeeps, ObeyLate, ObeyKeeps, RelievedKeeps, TrimKeeps,
       WalkDoneKeeps, LoopExitsKeeps, ThreadEndsKeeps DEF ThreadStep
  <2>3. ASSUME BrainstemStep PROVE LifeInv'
    BY <2>3, StartThreadKeeps, StartedKeeps, RelieveOrderKeeps, ClientsRunKeeps, HomeAloneKeeps,
       StopBlockersKeeps, BlockersDoneKeeps, LoopFiniKeeps DEF BrainstemStep
  <2>4. ASSUME NEW w \in Worker, Work(w) PROVE LifeInv'
    BY <2>4, WorkKeeps
  <2>5. LifeInv'
    BY <1>1, <2>1, <2>2, <2>3, <2>4, SignalKeeps, HupKeeps, ForceKeeps, RelieveKeeps,
       ReloadDoneKeeps, BlockedKeeps DEF Next
  <2> QED BY <1>1, <2>5, AskedKeeps
<1>2. CASE UNCHANGED vars
  <2>1. Typed /\ JobsOnce /\ Ended
    BY DEF LifeInv
  <2>2. UNCHANGED <<blk, hand, bs, state, flags, orders, inbox, app, ask, relieving, reload>>
    BY <1>2 DEF vars
  <2>3. Typed' /\ Ended' /\ (Done => Done')
    BY <2>1, <2>2 DEF Typed, Ended, Done
  <2>4. NoMore
    BY <2>1, <2>2, JobsSame
  <2>5. Asked'
    BY <2>2 DEF Asked
  <2> QED BY <2>2, <2>3, <2>4, <2>5, BlockerKeeps
<1> QED BY <1>1, <1>2

\* With each of the blockers gone, at least one of them, nothing is queued.
LEMMA LifeInOrder ==
  ASSUME LifeInv
  PROVE  GoesInOrder /\ OrdersArrive
<1>1. Draining /\ Stopping /\ Arrive /\ Ended
  BY DEF LifeInv
<1>2. bs.stopping /\ bs.pc \notin {"start", "forced"} =>
        \A t \in Running : "DRAIN" \in orders[t] \/ app[t].drain = 1 \/ app[t].exit
  BY <1>1 DEF Draining, Running
<1>3. \A t \in Thread : "DRAIN" \in orders[t] => app[t].drain = 0
  BY <1>1 DEF Draining
<1>4. app[HOME].alone \/ "ALONE" \in orders[HOME] => Client \cap Running = {}
  BY <1>1 DEF Stopping
<1>5. \A t \in Thread : "FREED" \in flags[t] => inbox[t] = {}
  BY <1>1 DEF Stopping
<1>6. Done => blk.queue = <<>>
  BY <1>1 DEF Done, Ended
<1>7. OrdersArrive
  BY <1>1 DEF OrdersArrive, Arrive, Running
<1> QED BY <1>2, <1>3, <1>4, <1>5, <1>6, <1>7 DEF GoesInOrder

LEMMA LifeCounts ==
  ASSUME LifeInv
  PROVE  ReliefCounts /\ LastReloadAnswered
<1>1. Counted /\ LastReloadAnswered
  BY ReliefParts DEF LifeInv, Reloads
<1>2. ReliefCounts
  BY <1>1 DEF Counted, ReliefCounts, Shares, Trims, Calm
<1> QED BY <1>1, <1>2

\* The stop goes in order: every loop that runs has had its one order to drain,
\* home is alone only when no client loop runs, no loop that was freed is
\* posted to, the blockers end with nothing queued, and an order that is given
\* is on its way until its loop ends (brainstem_stop(), brainstem_wait(),
\* brainstem_thread_order(), brainstem_thread_obey(), blocker_next()).
THEOREM StopGoesInOrder == PSpec => []StopsInOrder
<1> DEFINE I == part = "life" => LifeInv /\ Asked
<1>1. PInit => I
  BY LifeStart DEF PInit
<1>2. I /\ [PNext]_pvars => I'
  <2> SUFFICES ASSUME I, [PNext]_pvars, part' = "life" PROVE LifeInv' /\ Asked'
    OBVIOUS
  <2>1. part = "life" /\ (Next \/ UNCHANGED vars)
    BY DEF PNext, pvars, rest
  <2> QED BY <2>1, LifeStep
<1>3. I => StopsInOrder
  BY LifeInOrder DEF StopsInOrder
<1> QED BY <1>1, <1>2, <1>3, PTL DEF PSpec

\* A relief's count is that of the shares to come and of the trim, so that one
\* loop trims, once; and no SIGHUP is lost to a reload under way: the last one's
\* configuration was read and applied, or refused, or not taken as the door was
\* not open (brainstem_relieve(), askai_keep_relieved(), askai_keep_trim(),
\* askai_home_reload(), askai_reload_done(), askai_reload_apply()).
THEOREM WorkIsCounted == PSpec => []WorkCounts
<1> DEFINE I == part = "life" => LifeInv /\ Asked
<1>1. PInit => I
  BY LifeStart DEF PInit
<1>2. I /\ [PNext]_pvars => I'
  <2> SUFFICES ASSUME I, [PNext]_pvars, part' = "life" PROVE LifeInv' /\ Asked'
    OBVIOUS
  <2>1. part = "life" /\ (Next \/ UNCHANGED vars)
    BY DEF PNext, pvars, rest
  <2> QED BY <2>1, LifeStep
<1>3. I => WorkCounts
  BY LifeCounts DEF WorkCounts
<1> QED BY <1>1, <1>2, <1>3, PTL DEF PSpec

USE RingsAssumption, RoomAssumption, LinesAssumption

(***************************************************************************)
(* The logger: its inductive invariant.                                    *)
(***************************************************************************)

\* A thread that has copied its line has still to move the head past it.
Copied(r) == ring[r].head + (IF put[r] = "stores" THEN 1 ELSE 0)

\* What the logger has still to write is as it was put, and fits.
Whole ==
  \A r \in Ring :
    /\ Copied(r) <= MaxLines[r] /\ Copied(r) - ring[r].tail <= RING
    /\ \A n \in ring[r].tail + 1 .. Copied(r) : ring[r].data[(n - 1) % RING] = n

\* Those that are about to wake the logger, and those that will look whether to.
Writing == (\E r \in Ring : put[r] = "writes") \/ stopper = "writes"
Waking  == (\E r \in Ring : put[r] \in {"asks", "swaps", "writes"}) \/ stopper \in {"swaps", "writes"}

\* What the logger's last look has found empty, the order (0) or a ring.
Looked(r) == logger.at = "polls" \/ (logger.at = "looks" /\ r < logger.i)

Sleeps ==
  ~woken =>
    /\ logger.at \in {"looks", "polls"} /\ ~asleep => Writing
    /\ Looked(0) /\ order # "RUNNING" => Waking
    /\ \A r \in Ring : Looked(r) /\ ring[r].head # ring[r].tail => Waking

RingType == [head : Nat, tail : Nat, seen : Nat, data : [0 .. RING - 1 -> Nat]]
LoggerPlaces   == {"reads", "writes", "tails", "checks", "dozes", "looks", "polls", "polled",
             "wakes", "gone"}

LinesTyped ==
  /\ ring \in [Ring -> RingType]
  /\ \A r \in Ring : ring[r].tail <= ring[r].seen /\ ring[r].seen <= ring[r].head
  /\ asleep \in BOOLEAN /\ woken \in BOOLEAN /\ order \in {"RUNNING", "STOPPING", "DONE"}
  /\ logger \in [at : LoggerPlaces, i : 0 .. Rings + 1]
  /\ put \in [Ring -> Waker] /\ stopper \in {"runs", "swaps", "writes", "waits"}
  /\ held \in [Ring -> Nat]

LinesInv == LinesTyped /\ Whole /\ Sleeps

-----------------------------------------------------------------------------
(* LoggerPlaces in a ring.                                                       *)

LEMMA DivMod ==
  ASSUME NEW a \in Nat
  PROVE  a % RING \in 0 .. RING - 1 /\ a \div RING \in Nat /\ a = RING * (a \div RING) + (a % RING)
OBVIOUS

\* Two lines less than a ring apart have different places.
LEMMA Apart ==
  ASSUME NEW a \in Nat, NEW b \in Nat, b < a, a - b < RING
  PROVE  a % RING # b % RING
<1> DEFINE p == a \div RING
           q == b \div RING
<1>1. p \in Nat /\ q \in Nat /\ a = RING * p + (a % RING) /\ b = RING * q + (b % RING)
  BY DivMod
<1>2. a % RING \in Int
  BY DivMod
<1> HIDE DEF p, q
<1> SUFFICES ASSUME a % RING = b % RING PROVE FALSE
  OBVIOUS
<1>3. PICK m \in Int : a % RING = m /\ b % RING = m
  BY <1>2
<1>4. a - b = RING * (p - q)
  BY <1>1, <1>3
<1>5. CASE p - q <= 0
  <2>1. RING * (p - q) <= 0
    BY <1>1, <1>5
  <2> QED BY <1>4, <2>1
<1>6. CASE p - q >= 1
  <2>1. RING * (p - q) >= RING
    BY <1>1, <1>6
  <2> QED BY <1>4, <2>1
<1> QED BY <1>1, <1>5, <1>6

-----------------------------------------------------------------------------
(* The logger's steps.                                                     *)

\* What the types say of a ring.
LEMMA RingFields ==
  ASSUME LinesTyped, NEW r \in Ring
  PROVE  /\ ring[r] \in RingType /\ ring[r].head \in Nat /\ ring[r].tail \in Nat
         /\ ring[r].seen \in Nat /\ ring[r].tail <= ring[r].seen /\ ring[r].seen <= ring[r].head
         /\ put[r] \in Waker /\ Copied(r) \in Nat /\ MaxLines[r] \in Nat
BY DEF LinesTyped, RingType, Copied

\* The logger goes on to a place.
LEMMA LoggerGoes ==
  ASSUME NEW at \in LoggerPlaces, Go(at)
  PROVE  /\ logger' \in [at : LoggerPlaces, i : 0 .. Rings + 1] /\ logger'.at = at
         /\ logger'.i = IF at = "looks" THEN 0 ELSE 1
BY DEF Go

LEMMA ReadKeeps ==
  ASSUME LinesInv, ReadHead \/ StoreTail
  PROVE  LinesInv'
<1>1. LinesTyped /\ Whole /\ Sleeps
  BY DEF LinesInv
<1>2. UNCHANGED <<asleep, woken, order, put, stopper, held>> /\ logger.at \in {"reads", "tails"}
  BY DEF ReadHead, StoreTail
<1>3. CASE logger.i \in Ring
  <2> DEFINE r == logger.i
  <2>1. PICK x \in RingType :
          /\ ring' = [ring EXCEPT ![r] = x] /\ x.head = ring[r].head /\ x.data = ring[r].data
          /\ x.tail \in {ring[r].tail, ring[r].seen} /\ x.seen \in {ring[r].seen, ring[r].head}
          /\ x.tail <= x.seen
    <3>1. CASE ReadHead
      <4> DEFINE x == [ring[r] EXCEPT !.seen = ring[r].head]
      <4>1. ring' = [ring EXCEPT ![r] = x]
        BY <1>1, <1>3, <3>1 DEF ReadHead
      <4>2. x \in RingType /\ x.head = ring[r].head /\ x.data = ring[r].data
            /\ x.tail = ring[r].tail /\ x.seen = ring[r].head
        BY <1>1, <1>3, RingFields DEF RingType
      <4>3. x.tail <= x.seen
        BY <1>1, <1>3, <4>2, RingFields
      <4> HIDE DEF x
      <4> QED BY <4>1, <4>2, <4>3
    <3>2. CASE StoreTail
      <4> DEFINE x == [ring[r] EXCEPT !.tail = ring[r].seen]
      <4>1. ring' = [ring EXCEPT ![r] = x]
        BY <1>1, <1>3, <3>2 DEF StoreTail
      <4>2. x \in RingType /\ x.head = ring[r].head /\ x.data = ring[r].data
            /\ x.tail = ring[r].seen /\ x.seen = ring[r].seen
        BY <1>1, <1>3, RingFields DEF RingType
      <4>3. x.tail <= x.seen
        BY <1>1, <1>3, <4>2, RingFields
      <4> HIDE DEF x
      <4> QED BY <4>1, <4>2, <4>3
    <3> QED BY <3>1, <3>2
  <2>2. logger' = [logger EXCEPT !.i = r + 1]
    BY <1>3 DEF ReadHead, StoreTail
  <2>3. logger'.at = logger.at /\ logger' \in [at : LoggerPlaces, i : 0 .. Rings + 1]
    <3>1. logger \in [at : LoggerPlaces, i : 0 .. Rings + 1] /\ r + 1 \in 0 .. Rings + 1
      BY <1>1, <1>3 DEF LinesTyped, Ring
    <3> HIDE DEF r
    <3> QED BY <2>2, <3>1
  <2> HIDE DEF r
  <2>4. r \in Ring
    BY <1>3 DEF r
  <2>5. LinesTyped'
    BY <1>1, <1>2, <2>1, <2>3, <2>4, RingFields DEF LinesTyped
  <2>6. ASSUME NEW s \in Ring
        PROVE  /\ ring'[s].head = ring[s].head /\ ring'[s].data = ring[s].data
               /\ ring'[s].tail \in Nat /\ ring'[s].tail >= ring[s].tail
               /\ ring[s].tail \in Nat /\ ring[s].head \in Nat
               /\ Copied(s)' = Copied(s) /\ Copied(s) \in Nat
    BY <1>1, <1>2, <2>1, <2>4, RingFields DEF LinesTyped, Copied
  <2>7. Whole'
    BY <1>1, <2>6 DEF Whole
  <2>8. Sleeps'
    BY <1>2, <2>3 DEF Sleeps, Looked
  <2> QED BY <2>5, <2>7, <2>8 DEF LinesInv
<1>4. CASE logger.i \notin Ring
  <2>1. UNCHANGED ring /\ \E at \in {"writes", "checks", "reads"} : Go(at)
    BY <1>4 DEF ReadHead, StoreTail
  <2>2. logger' \in [at : LoggerPlaces, i : 0 .. Rings + 1] /\ logger'.at \in {"writes", "checks", "reads"}
    BY <2>1, LoggerGoes DEF LoggerPlaces
  <2>3. LinesTyped' /\ Whole'
    BY <1>1, <1>2, <2>1, <2>2 DEF LinesTyped, Whole, Copied
  <2>4. Sleeps'
    BY <1>2, <2>2 DEF Sleeps, Looked
  <2> QED BY <2>3, <2>4 DEF LinesInv
<1> QED BY <1>3, <1>4

LEMMA LoggerKeeps ==
  ASSUME LinesInv, LoggerStep
  PROVE  LinesInv'
<1>1. LinesTyped /\ Whole /\ Sleeps
  BY DEF LinesInv
<1>2. CASE ReadHead \/ StoreTail
  BY <1>2, ReadKeeps
<1>3. ASSUME UNCHANGED <<ring, put, stopper, held>>, asleep' \in BOOLEAN, woken' \in BOOLEAN,
             order' \in {order, "DONE"}, logger' \in [at : LoggerPlaces, i : 0 .. Rings + 1]
      PROVE  LinesTyped' /\ Whole'
  BY <1>1, <1>3 DEF LinesTyped, Whole, Copied
<1>4. CASE WriteOut \/ CheckOrder \/ WakeUp \/ Poll
  <2>1. /\ UNCHANGED <<ring, put, stopper, held>> /\ asleep' \in BOOLEAN /\ woken' \in BOOLEAN
        /\ order' \in {order, "DONE"}
    BY <1>1, <1>4 DEF WriteOut, CheckOrder, WakeUp, Poll, LinesTyped
  <2>2. \E at \in {"tails", "gone", "dozes", "reads", "polled", "wakes"} : Go(at)
    BY <1>4 DEF WriteOut, CheckOrder, WakeUp, Poll
  <2>3. /\ logger' \in [at : LoggerPlaces, i : 0 .. Rings + 1]
        /\ logger'.at \in {"tails", "gone", "dozes", "reads", "polled", "wakes"}
    BY <2>2, LoggerGoes DEF LoggerPlaces
  <2>4. Sleeps'
    BY <2>3 DEF Sleeps, Looked
  <2> QED BY <1>3, <2>1, <2>3, <2>4 DEF LinesInv
<1>5. CASE Doze
  <2>1. /\ UNCHANGED <<ring, woken, order, put, stopper, held>> /\ asleep' = TRUE /\ Go("looks")
    BY <1>5 DEF Doze
  <2>2. /\ logger' \in [at : LoggerPlaces, i : 0 .. Rings + 1] /\ logger'.at = "looks" /\ logger'.i = 0
    BY <2>1, LoggerGoes DEF LoggerPlaces
  <2>3. Sleeps'
    BY <2>1, <2>2 DEF Sleeps, Looked, Ring
  <2> QED BY <1>1, <1>3, <2>1, <2>2, <2>3 DEF LinesInv, LinesTyped
<1>6. CASE Look
  <2>1. UNCHANGED <<ring, asleep, woken, order, put, stopper, held>> /\ logger.at = "looks"
    BY <1>6 DEF Look
  <2>2. logger.i \in 0 .. Rings + 1 /\ logger \in [at : LoggerPlaces, i : 0 .. Rings + 1]
    BY <1>1 DEF LinesTyped
  <2>3. CASE logger.i > Rings /\ Go("polls")
    <3>1. /\ logger' \in [at : LoggerPlaces, i : 0 .. Rings + 1] /\ logger'.at = "polls"
      BY <2>3, LoggerGoes DEF LoggerPlaces
    <3>2. Sleeps'
      BY <1>1, <2>1, <2>2, <2>3, <3>1 DEF Sleeps, Looked, Writing, Waking, Ring
    <3> QED BY <1>1, <1>3, <2>1, <3>1, <3>2 DEF LinesInv, LinesTyped
  <2>4. CASE Go("wakes")
    <3>1. /\ logger' \in [at : LoggerPlaces, i : 0 .. Rings + 1] /\ logger'.at = "wakes"
      BY <2>4, LoggerGoes DEF LoggerPlaces
    <3>2. Sleeps'
      BY <3>1 DEF Sleeps, Looked
    <3> QED BY <1>1, <1>3, <2>1, <3>1, <3>2 DEF LinesInv, LinesTyped
  <2>5. CASE /\ logger.i <= Rings /\ logger' = [logger EXCEPT !.i = @ + 1]
             /\ IF logger.i = 0 THEN order = "RUNNING"
                                ELSE ring[logger.i].head = ring[logger.i].tail
    <3>1. /\ logger' \in [at : LoggerPlaces, i : 0 .. Rings + 1] /\ logger'.at = "looks"
          /\ logger'.i = logger.i + 1
      BY <2>1, <2>2, <2>5
    <3>2. Sleeps'
      BY <1>1, <2>1, <2>2, <2>5, <3>1 DEF Sleeps, Looked, Writing, Waking, Ring
    <3> QED BY <1>1, <1>3, <2>1, <3>1, <3>2 DEF LinesInv, LinesTyped
  <2> QED BY <1>6, <2>2, <2>3, <2>4, <2>5 DEF Look
<1> QED BY <1>2, <1>4, <1>5, <1>6 DEF LoggerStep

-----------------------------------------------------------------------------
(* The steps of the threads that log, and of log_stop().                   *)

\* A line is copied where no line is that the logger has still to write.
LEMMA CopyKeeps ==
  ASSUME LinesInv, NEW r \in Ring, Copy(r)
  PROVE  LinesInv'
<1> DEFINE n == ring[r].head
           t == ring[r].tail
           k == n % RING
           x == [ring[r] EXCEPT !.data[k] = n + 1]
<1>1. LinesTyped /\ Whole /\ Sleeps
  BY DEF LinesInv
<1>2. /\ put[r] = "idle" /\ n < MaxLines[r] /\ RING - (n - t) >= 1
      /\ ring' = [ring EXCEPT ![r] = x] /\ put' = [put EXCEPT ![r] = "stores"]
      /\ UNCHANGED <<asleep, woken, order, logger, stopper, held>>
  BY DEF Copy
<1>3. n \in Nat /\ t \in Nat /\ t <= n /\ k \in 0 .. RING - 1
  BY <1>1, RingFields, DivMod
<1>4. /\ x \in RingType /\ x.head = n /\ x.tail = t /\ x.seen = ring[r].seen
      /\ x.data = [ring[r].data EXCEPT ![k] = n + 1]
      /\ ring[r].data \in [0 .. RING - 1 -> Nat]
  <2>1. ring[r] \in RingType /\ n + 1 \in Nat
    BY <1>1, <1>3, RingFields
  <2>2. ring[r].data \in [0 .. RING - 1 -> Nat]
    BY <2>1 DEF RingType
  <2>3. /\ x \in RingType /\ x.data = [ring[r].data EXCEPT ![k] = n + 1]
        /\ x.head = ring[r].head /\ x.tail = ring[r].tail /\ x.seen = ring[r].seen
    <3> DEFINE q == ring[r]
               m == n + 1
    <3>1. q \in RingType /\ m \in Nat /\ k \in 0 .. RING - 1 /\ x = [q EXCEPT !.data[k] = m]
      BY <1>3, <2>1
    <3> HIDE DEF x, k, q, m
    <3>2. /\ x \in RingType /\ x.data = [q.data EXCEPT ![k] = m]
          /\ x.head = q.head /\ x.tail = q.tail /\ x.seen = q.seen
      BY <3>1 DEF RingType
    <3> QED BY <3>2 DEF q, m
  <2> QED BY <2>2, <2>3
<1> HIDE DEF x
<1>5. LinesTyped'
  BY <1>1, <1>2, <1>4, RingFields DEF LinesTyped, Waker
<1>6. ASSUME NEW s \in Ring
      PROVE  /\ ring'[s].head = ring[s].head /\ ring'[s].tail = ring[s].tail
             /\ s # r => ring'[s].data = ring[s].data /\ put'[s] = put[s]
  BY <1>1, <1>2, <1>4 DEF LinesTyped
<1>7. ring'[r].data = x.data /\ put'[r] = "stores"
  BY <1>1, <1>2 DEF LinesTyped
<1>8. Whole'
  <2> SUFFICES ASSUME NEW s \in Ring
               PROVE  /\ Copied(s)' <= MaxLines[s] /\ Copied(s)' - ring'[s].tail <= RING
                      /\ \A m \in ring'[s].tail + 1 .. Copied(s)' :
                           ring'[s].data[(m - 1) % RING] = m
    BY DEF Whole
  <2>1. CASE s # r
    <3>1. Copied(s)' = Copied(s)
      BY <1>6, <2>1 DEF Copied
    <3> QED BY <1>1, <1>6, <2>1, <3>1 DEF Whole
  <2>2. CASE s = r
    <3>1. Copied(s)' = n + 1 /\ Copied(r) = n /\ ring'[s].tail = t
      BY <1>2, <1>3, <1>6, <1>7, <2>2 DEF Copied
    <3>2. n + 1 <= MaxLines[r] /\ n + 1 - t <= RING
      BY <1>1, <1>2, <1>3, RingFields
    <3>3. ASSUME NEW m \in t + 1 .. n + 1
          PROVE  x.data[(m - 1) % RING] = m
      <4>1. CASE m = n + 1
        BY <1>3, <1>4, <4>1, SMTT(60)
      <4>2. CASE m # n + 1
        <5>1. m - 1 \in Nat /\ m - 1 < n /\ n - (m - 1) < RING /\ m \in t + 1 .. n
          <6> HIDE DEF n, t
          <6> QED BY <1>2, <1>3, <4>2
        <5>2. (m - 1) % RING # k /\ (m - 1) % RING \in 0 .. RING - 1
          BY <1>3, <5>1, Apart, DivMod
        <5>3. ring[r].data[(m - 1) % RING] = m
          BY <1>1, <3>1, <5>1 DEF Whole
        <5> HIDE DEF k
        <5> QED BY <1>4, <5>2, <5>3
      <4> QED BY <4>1, <4>2
    <3>4. Copied(s)' <= MaxLines[s] /\ Copied(s)' - ring'[s].tail <= RING
      <4>1. Copied(s)' = n + 1 /\ ring'[s].tail = t /\ MaxLines[s] = MaxLines[r]
        BY <2>2, <3>1
      <4> HIDE DEF n, t
      <4> QED BY <1>3, <3>2, <4>1
    <3>5. ASSUME NEW m \in ring'[s].tail + 1 .. Copied(s)'
          PROVE  ring'[s].data[(m - 1) % RING] = m
      <4>1. m \in t + 1 .. n + 1
        BY <3>1
      <4> QED BY <1>7, <2>2, <3>3, <4>1
    <3> QED BY <3>4, <3>5
  <2> QED BY <2>1, <2>2
<1>9. Sleeps'
  <2>1. Writing => Writing'
    BY <1>2, <1>6, <1>7 DEF Writing
  <2>2. Waking => Waking'
    BY <1>2, <1>6, <1>7 DEF Waking
  <2> QED BY <1>1, <1>2, <1>6, <2>1, <2>2 DEF Sleeps, Looked
<1> QED BY <1>5, <1>8, <1>9 DEF LinesInv

\* The head is moved: from then on the thread is one that will look.
LEMMA StoreKeeps ==
  ASSUME LinesInv, NEW r \in Ring, StoreHead(r)
  PROVE  LinesInv'
<1> DEFINE x == [ring[r] EXCEPT !.head = ring[r].head + 1]
<1>1. LinesTyped /\ Whole /\ Sleeps
  BY DEF LinesInv
<1>2. /\ put[r] = "stores" /\ put' = [put EXCEPT ![r] = "asks"]
      /\ ring' = [ring EXCEPT ![r] = x]
      /\ UNCHANGED <<asleep, woken, order, logger, stopper, held>>
  BY DEF StoreHead
<1>3. /\ x \in RingType /\ x.head = ring[r].head + 1 /\ x.tail = ring[r].tail
      /\ x.seen = ring[r].seen /\ x.data = ring[r].data
  <2>1. ring[r] \in RingType /\ ring[r].head + 1 \in Nat
    BY <1>1, RingFields
  <2> QED BY <2>1 DEF RingType
<1> HIDE DEF x
<1>4. LinesTyped'
  BY <1>1, <1>2, <1>3, RingFields DEF LinesTyped, Waker
<1>5. ASSUME NEW s \in Ring
      PROVE  /\ ring'[s].tail = ring[s].tail /\ ring'[s].data = ring[s].data
             /\ s # r => ring'[s].head = ring[s].head /\ put'[s] = put[s]
  BY <1>1, <1>2, <1>3 DEF LinesTyped
<1>6. put'[r] = "asks" /\ ring'[r].head = ring[r].head + 1
  BY <1>1, <1>2, <1>3 DEF LinesTyped
<1>7. ASSUME NEW s \in Ring PROVE Copied(s)' = Copied(s)
  <2>1. CASE s # r
    BY <1>5, <2>1 DEF Copied
  <2>2. CASE s = r
    BY <1>1, <1>2, <1>6, <2>2, RingFields DEF Copied
  <2> QED BY <2>1, <2>2
<1>8. Whole'
  BY <1>1, <1>5, <1>7 DEF Whole
<1>9. Writing => Writing'
  BY <1>2, <1>5 DEF Writing
<1>10. Waking'
  BY <1>6 DEF Waking
<1>11. Sleeps'
  BY <1>1, <1>2, <1>9, <1>10 DEF Sleeps, Looked
<1> QED BY <1>4, <1>8, <1>11 DEF LinesInv

\* Whoever finds the logger awake leaves it so, and whoever finds it asleep
\* wakes it.
LEMMA WakeKeeps ==
  ASSUME LinesInv, NEW r \in Ring, AskAsleep(r) \/ SwapAsleep(r) \/ WriteWake(r)
  PROVE  LinesInv'
<1>1. LinesTyped /\ Whole /\ Sleeps
  BY DEF LinesInv
<1>2. /\ UNCHANGED <<ring, order, logger, stopper, held>> /\ put[r] \in {"asks", "swaps", "writes"}
      /\ \E p \in {"swaps", "writes", "idle"} : put' = [put EXCEPT ![r] = p]
      /\ asleep' \in BOOLEAN /\ woken' \in BOOLEAN
  BY <1>1 DEF AskAsleep, SwapAsleep, WriteWake, LinesTyped
<1>3. LinesTyped'
  BY <1>1, <1>2 DEF LinesTyped, Waker
<1>4. ASSUME NEW s \in Ring PROVE (s # r => put'[s] = put[s]) /\ put'[r] # "stores"
  BY <1>1, <1>2 DEF LinesTyped
<1>5. ASSUME NEW s \in Ring PROVE Copied(s)' = Copied(s)
  BY <1>1, <1>2, <1>4 DEF Copied
<1>6. Whole'
  BY <1>1, <1>2, <1>5 DEF Whole
<1>7. CASE AskAsleep(r)
  <2>1. UNCHANGED <<asleep, woken>> /\ put[r] = "asks"
        /\ put'[r] = IF asleep THEN "swaps" ELSE "idle"
    BY <1>1, <1>7 DEF AskAsleep, LinesTyped
  <2>2. Writing => Writing'
    BY <1>2, <1>4, <2>1 DEF Writing
  <2>3. asleep /\ Waking => Waking'
    BY <1>2, <1>4, <2>1 DEF Waking
  <2>4. Writing => Waking
    BY DEF Writing, Waking
  <2>5. Writing' => Waking'
    BY DEF Writing, Waking
  <2>6. Sleeps'
    BY <1>1, <1>2, <2>1, <2>2, <2>3, <2>5 DEF Sleeps, Looked
  <2> QED BY <1>3, <1>6, <2>6 DEF LinesInv
<1>8. CASE SwapAsleep(r)
  <2>1. woken' = woken /\ asleep' = FALSE /\ put[r] = "swaps"
        /\ put'[r] = IF asleep THEN "writes" ELSE "idle"
    BY <1>1, <1>8 DEF SwapAsleep, LinesTyped
  <2>2. Writing => Writing'
    BY <1>2, <1>4, <2>1 DEF Writing
  <2>3. asleep => Writing'
    BY <2>1 DEF Writing
  <2>4. Writing' => Waking'
    BY DEF Writing, Waking
  <2>5. Sleeps'
    BY <1>1, <1>2, <2>1, <2>2, <2>3, <2>4 DEF Sleeps, Looked
  <2> QED BY <1>3, <1>6, <2>5 DEF LinesInv
<1>9. CASE WriteWake(r)
  <2>1. Sleeps'
    BY <1>9 DEF WriteWake, Sleeps
  <2> QED BY <1>3, <1>6, <2>1 DEF LinesInv
<1> QED BY <1>7, <1>8, <1>9

LEMMA StopKeeps ==
  ASSUME LinesInv, LogStop
  PROVE  LinesInv'
<1>1. LinesTyped /\ Whole /\ Sleeps
  BY DEF LinesInv
<1>2. /\ UNCHANGED <<ring, logger, put>> /\ asleep' \in BOOLEAN /\ woken' \in BOOLEAN
      /\ order' \in {order, "STOPPING"} /\ stopper' \in {"swaps", "writes", "waits"}
  BY <1>1 DEF LogStop, LinesTyped
<1>3. held' \in [Ring -> Nat]
  BY <1>1, RingFields DEF LogStop, LinesTyped
<1>4. LinesTyped' /\ Whole'
  BY <1>1, <1>2, <1>3 DEF LinesTyped, Whole, Copied
<1>5. CASE stopper = "runs" /\ stopper' = "swaps" /\ UNCHANGED <<asleep, woken>>
  <2>1. (Writing => Writing') /\ Waking'
    BY <1>2, <1>5 DEF Writing, Waking
  <2>2. Sleeps'
    BY <1>1, <1>2, <1>5, <2>1 DEF Sleeps, Looked
  <2> QED BY <1>4, <2>2 DEF LinesInv
<1>6. CASE /\ stopper = "swaps" /\ asleep' = FALSE /\ UNCHANGED <<woken, order>>
           /\ stopper' = IF asleep THEN "writes" ELSE "waits"
  <2>1. (Writing => Writing') /\ (asleep => Writing') /\ (Writing' => Waking')
    BY <1>2, <1>6 DEF Writing, Waking
  <2>2. Sleeps'
    BY <1>1, <1>2, <1>6, <2>1 DEF Sleeps, Looked
  <2> QED BY <1>4, <2>2 DEF LinesInv
<1>7. CASE woken' = TRUE
  BY <1>4, <1>7 DEF LinesInv, Sleeps
<1> QED BY <1>5, <1>6, <1>7 DEF LogStop

-----------------------------------------------------------------------------
(* The theorems.                                                           *)

LEMMA LinesStart == LInit => LinesInv
<1> SUFFICES ASSUME LInit PROVE LinesInv
  OBVIOUS
<1> DEFINE x == [head |-> 0, tail |-> 0, seen |-> 0, data |-> [b \in 0 .. RING - 1 |-> 0]]
<1>1. x \in RingType /\ x.head = 0 /\ x.tail = 0 /\ x.seen = 0
  BY DEF RingType
<1>2. ring = [r \in Ring |-> x]
  BY DEF LInit
<1> HIDE DEF x
<1>3. logger \in [at : LoggerPlaces, i : 0 .. Rings + 1] /\ logger.at = "reads"
  BY DEF LInit, LoggerPlaces
<1>4. LinesTyped
  <2>1. ring \in [Ring -> RingType] /\ held \in [Ring -> Nat]
    BY <1>1, <1>2 DEF LInit
  <2>2. \A r \in Ring : ring[r].tail <= ring[r].seen /\ ring[r].seen <= ring[r].head
    BY <1>1, <1>2
  <2> QED BY <1>3, <2>1, <2>2 DEF LInit, LinesTyped, Waker
<1>5. \A r \in Ring : Copied(r) = 0 /\ ring[r].tail = 0 /\ MaxLines[r] \in Nat
  BY <1>1, <1>2 DEF LInit, Copied
<1>6. Whole
  BY <1>5 DEF Whole
<1>7. Sleeps
  BY <1>3 DEF Sleeps, Looked
<1> QED BY <1>4, <1>6, <1>7 DEF LinesInv

LEMMA LinesStep == LinesInv /\ [LNext]_lvars => LinesInv'
<1> SUFFICES ASSUME LinesInv, [LNext]_lvars PROVE LinesInv'
  OBVIOUS
<1>1. CASE LoggerStep
  BY <1>1, LoggerKeeps
<1>2. CASE LogStop
  BY <1>2, StopKeeps
<1>3. ASSUME NEW r \in Ring, Copy(r) \/ Emits(r) PROVE LinesInv'
  BY <1>3, CopyKeeps, StoreKeeps, WakeKeeps DEF Emits
<1>4. CASE UNCHANGED lvars
  BY <1>4 DEF lvars, LinesInv, LinesTyped, Whole, Copied, Sleeps, Looked, Writing, Waking
<1> QED BY <1>1, <1>2, <1>3, <1>4 DEF LNext

LEMMA LinesEnough == LinesInv => LTypeOK /\ NoneSleptOn /\ BatchWhole
<1> SUFFICES ASSUME LinesInv PROVE LTypeOK /\ NoneSleptOn /\ BatchWhole
  OBVIOUS
<1>1. LinesTyped /\ Whole /\ Sleeps
  BY DEF LinesInv
<1>2. \A r \in Ring : ring[r].head <= MaxLines[r] /\ ring[r].seen <= Copied(r)
  BY <1>1, RingFields DEF Whole, Copied
<1>3. LTypeOK
  BY <1>1, <1>2 DEF LTypeOK, LinesTyped, RingType, LoggerPlaces
<1>4. NoneSleptOn
  BY <1>1 DEF NoneSleptOn, Sleeps, Looked, Waking, Writing
<1>5. BatchWhole
  <2> SUFFICES ASSUME NEW r \in Ring, NEW n \in ring[r].tail + 1 .. ring[r].seen
               PROVE  ring[r].data[(n - 1) % RING] = n
    BY DEF BatchWhole
  <2>1. n \in ring[r].tail + 1 .. Copied(r)
    BY <1>1, <1>2, RingFields
  <2> QED BY <1>1, <2>1 DEF Whole
<1> QED BY <1>3, <1>4, <1>5

\* The logger alone, for any number of threads that log and any size of a
\* ring: it does not sleep on a line or on the order to stop, and no thread
\* copies over a line that it has still to write (log_emit(), log_thread()).
THEOREM LoggerSafe == LSpec => [](LTypeOK /\ NoneSleptOn /\ BatchWhole)
<1>1. LSpec => []LinesInv
  BY LinesStart, LinesStep, PTL DEF LSpec
<1> QED BY <1>1, LinesEnough, PTL

\* And so it is in a behaviour of the process whose part is the logger.
THEOREM LinesAreTrue == PSpec => []LinesTrue
<1> DEFINE I == part = "lines" => LinesInv
<1>1. PInit => I
  BY LinesStart DEF PInit
<1>2. I /\ [PNext]_pvars => I'
  <2> SUFFICES ASSUME I, [PNext]_pvars, part' = "lines" PROVE LinesInv'
    OBVIOUS
  <2>1. part = "lines" /\ (LNext \/ UNCHANGED lvars)
    BY DEF PNext, pvars, rest
  <2> QED BY <2>1, LinesStep
<1>3. I => LinesTrue
  BY LinesEnough DEF LinesTrue
<1> QED BY <1>1, <1>2, <1>3, PTL DEF PSpec
-----------------------------------------------------------------------------
(***************************************************************************)
(* What is on disk: the run's journal and reasoning, of which the proofs   *)
(* are JournalProofs' and ReasoningProofs'.  MCProcess names the same      *)
(* modules, and so their definitions are the same.                         *)
(***************************************************************************)
JP == INSTANCE JournalProofs WITH Job <- {"a", "w"}, Wal <- {"w"}, JOURNAL_QUEUE <- 1,
        JOURNAL_CONTROL <- 2, JOURNAL_JOBS <- 1, JOURNAL_RECOVERY <- 3,
        JOURNAL_TERMINAL <- 1, MaxPuts <- 2, MaxFaults <- 1, MaxCrashes <- 1
RP == INSTANCE ReasoningProofs WITH Turn <- {1}, Piece <- {"x", "y"}, Whole <- 3,
        MaxAttempts <- 3

\* What the instances define alike.
LEMMA FilesStart == Files!Init => JP!Init
BY DEF Files!Init, JP!Init, Files!Idle, JP!Idle, Files!Scanned, JP!Scanned, Files!SetToSeqs,
       JP!SetToSeqs, Files!Cardinality, JP!Cardinality, Files!FoldSet, JP!FoldSet,
       Files!MapThenFoldSet, JP!MapThenFoldSet, Files!Terminal, JP!Terminal, Files!Kind,
       JP!Kind, Files!Record, JP!Record, Files!Kinds, JP!Kinds, Files!ToSet, JP!ToSet,
       Files!Without, JP!Without, Files!Among, JP!Among, Files!Taken, JP!Taken, Files!Old,
       JP!Old, Files!View, JP!View, Files!Last, JP!Last

LEMMA FilesStep == Files!Next => JP!Next
BY DEF Files!Next, JP!Next, Files!Put, JP!Put, Files!Signal, JP!Signal, Files!Stop, JP!Stop,
       Files!WriterStep, JP!WriterStep, Files!Take, JP!Take, Files!Wait, JP!Wait, Files!Evict,
       JP!Evict, Files!Full, JP!Full, Files!Expire, JP!Expire, Files!Write, JP!Write,
       Files!Rename, JP!Rename, Files!Sync, JP!Sync, Files!Fault, JP!Fault, Files!Crash,
       JP!Crash, Files!Operation, JP!Operation, Files!Stale, JP!Stale, Files!Limit, JP!Limit,
       Files!MayCancel, JP!MayCancel, Files!Finished, JP!Finished, Files!Fails, JP!Fails,
       Files!Lost, JP!Lost, Files!Base, JP!Base, Files!Marked, JP!Marked, Files!New, JP!New,
       Files!Need, JP!Need, Files!Expires, JP!Expires, Files!Oldest, JP!Oldest, Files!NoRoom,
       JP!NoRoom, Files!There, JP!There, Files!Used, JP!Used, Files!Room, JP!Room,
       Files!NoJob, JP!NoJob, Files!Durable, JP!Durable, Files!Touched, JP!Touched,
       Files!Remove, JP!Remove, Files!vars, JP!vars, Files!Terminal, JP!Terminal, Files!Kind,
       JP!Kind, Files!Record, JP!Record, Files!Kinds, JP!Kinds, Files!ToSet, JP!ToSet,
       Files!Without, JP!Without, Files!Among, JP!Among, Files!Taken, JP!Taken, Files!Old,
       JP!Old, Files!View, JP!View, Files!Last, JP!Last, Files!Idle, JP!Idle, Files!Scanned,
       JP!Scanned, Files!SetToSeqs, JP!SetToSeqs, Files!Cardinality, JP!Cardinality,
       Files!FoldSet, JP!FoldSet, Files!MapThenFoldSet, JP!MapThenFoldSet

LEMMA FilesEnough == JP!Recovers => Files!Recovers
BY DEF Files!Recovers, JP!Recovers, Files!Found, JP!Found, Files!NoGap, JP!NoGap,
       Files!Terminal, JP!Terminal, Files!Kind, JP!Kind, Files!Record, JP!Record, Files!Kinds,
       JP!Kinds, Files!ToSet, JP!ToSet, Files!Without, JP!Without, Files!Among, JP!Among,
       Files!Taken, JP!Taken, Files!Old, JP!Old, Files!View, JP!View, Files!Last, JP!Last

LEMMA TextsStart == Texts!RInit => RP!RInit
BY DEF Texts!RInit, RP!RInit, Texts!None, RP!None, Texts!Shut, RP!Shut

LEMMA TextsStep == Texts!RNext => RP!RNext
BY DEF Texts!RNext, RP!RNext, Texts!None, RP!None, Texts!Shut, RP!Shut, Texts!Begin, RP!Begin,
       Texts!Closed, RP!Closed, Texts!Put, RP!Put, Texts!Commit, RP!Commit, Texts!Crash,
       RP!Crash, Texts!Opened, RP!Opened, Texts!Entry, RP!Entry, Texts!Matches, RP!Matches,
       Texts!Seen, RP!Seen

LEMMA TextsEnough == RP!Verified => Texts!Verified
BY DEF Texts!Verified, RP!Verified, Texts!None, RP!None

\* After a crash at any point the journal finds what it acknowledged, and what
\* is committed of a turn's reasoning is what the provider sent
\* (journal_checkpoint_write(), journal_thought_commit()).
THEOREM ProcessRecovers == PSpec => []Recovers
<1> DEFINE I == (part = "files" => JP!IInv) /\ (part = "texts" => RP!RInv)
<1>1. PInit => I
  BY FilesStart, TextsStart, JP!InitHolds, RP!InitHolds DEF PInit
<1>2. I /\ [PNext]_pvars => I'
  <2>1. ASSUME I, [PNext]_pvars, part' = "files" PROVE JP!IInv'
    <3>1. JP!IInv /\ (Files!Next \/ UNCHANGED filesvars)
      BY <2>1 DEF PNext, pvars, rest
    <3>2. JP!IInv /\ [JP!Next]_(JP!vars)
      BY <3>1, FilesStep DEF filesvars, JP!vars
    <3> QED BY <3>2, JP!NextHolds
  <2>2. ASSUME I, [PNext]_pvars, part' = "texts" PROVE RP!RInv'
    <3>1. RP!RInv /\ (Texts!RNext \/ UNCHANGED textsvars)
      BY <2>2 DEF PNext, pvars, rest
    <3>2. [RP!RNext]_(RP!rvars)
      BY <3>1, TextsStep DEF textsvars, RP!rvars
    <3>3. RP!None \notin {1}
      BY DEF RP!None
    <3> QED BY <3>1, <3>2, <3>3, RP!NextHolds
  <2> QED BY <2>1, <2>2
<1>3. I => Recovers
  BY FilesEnough, TextsEnough, JP!HoldsRecovers, RP!HoldsVerified DEF Recovers
<1> QED BY <1>1, <1>2, <1>3, PTL DEF PSpec

-----------------------------------------------------------------------------
(***************************************************************************)
(* Home's queues: the run's scheduler, of which the proofs are HomeProofs'.*)
(* The definitions are the same again, first those of the functions that   *)
(* handlers share, then those of the handlers.                             *)
(***************************************************************************)
HP == INSTANCE HomeProofs WITH
        Job <- {"a1", "a2", "b"}, Principal <- {"A", "B"}, None <- "none",
        Class <- [j \in {"a1", "a2", "b"} |-> 0],
        Who <- [j \in {"a1", "a2", "b"} |-> IF j = "b" THEN "B" ELSE "A"], Fixed <- {},
        Setup <- {[journal |-> FALSE, asking |-> TRUE, slots |-> 1]},
        MaxCalls <- 3, JOB_QUEUED <- 2, FAILURES <- 1, SLOTS <- 1, Slots <- {1},
        a1 <- "a1", a2 <- "a2", b1 <- "b", g1 <- "g1", g2 <- "g2", A <- "A", B <- "B",
        r1 <- "r1", r2 <- "r2", r3 <- "r3", ledger <- 0, rec <- 0, wait <- 0, todo <- 0,
        open <- 0

\* What HomeScheduler assumes of its constants holds of the run's.
LEMMA SlotsGiven ==
  /\ "none" \notin {"t1", "w1", "a", "r1", "r2", "r3"}
  /\ HP!IsFiniteSet({"a1", "a2", "b"})
<1>1. \A S : IsFiniteSet(S) => HP!IsFiniteSet(S)
  BY DEF IsFiniteSet, HP!IsFiniteSet
<1>2. IsFiniteSet(({"a1"} \cup {"a2"}) \cup {"b"})
  BY FS_Singleton, FS_AddElement
<1>3. ({"a1"} \cup {"a2"}) \cup {"b"} = {"a1", "a2", "b"}
  OBVIOUS
<1> QED BY <1>1, <1>2, <1>3

\* What the instances define alike.
LEMMA SlotsStart == Sched!Init => HP!Init
BY DEF Sched!Init, HP!Init

LEMMA UnqueueSame == \A h, j : Sched!Unqueue(h, j) = HP!Unqueue(h, j)
BY DEF Sched!Unqueue, HP!Unqueue, Sched!Whom, HP!Whom, Sched!Off, HP!Off, Sched!ToSet,
       HP!ToSet, Sched!RemoveAt, HP!RemoveAt

LEMMA UnlistedSame == \A h, j : Sched!Unlisted(h, j) = HP!Unlisted(h, j)
BY DEF Sched!Unlisted, HP!Unlisted, Sched!Off, HP!Off, Sched!ToSet, HP!ToSet, Sched!RemoveAt,
       HP!RemoveAt

LEMMA QueuedSame == \A h, j : Sched!Queued(h, j) <=> HP!Queued(h, j)
BY DEF Sched!Queued, HP!Queued, Sched!Whom, HP!Whom

LEMMA RetireSame == \A h, j : Sched!Retire(h, j) = HP!Retire(h, j)
<1> TAKE h, j
<1> DEFINE c == [k \in {"a1", "a2", "b"} |-> 0][j]
           off(q) == [q EXCEPT !.due = @ \ {j},
                        !.readied[c] = @ - (IF "READY" \in h.flags[j] THEN 1 ELSE 0)]
           after(u) == IF "RUNNING" \notin h.flags[j] THEN u
                       ELSE LET r == [u EXCEPT !.running = @ - 1, !.running_bg = @ - c,
                                               !.probing = @ /\ "PROBE" \notin h.flags[j]]
                            IN  [r EXCEPT !.armed = @ \cup {"start"}]
           mine  == Sched!Unlisted(IF Sched!Queued(h, j) THEN Sched!Unqueue(h, j) ELSE h, j)
           yours == HP!Unlisted(IF HP!Queued(h, j) THEN HP!Unqueue(h, j) ELSE h, j)
<1>1. Sched!Retire(h, j) = after(off(mine)) /\ HP!Retire(h, j) = after(off(yours))
  BY DEF Sched!Retire, HP!Retire, Sched!Armed, HP!Armed, Sched!Has, HP!Has
<1>2. mine = yours
  BY UnqueueSame, UnlistedSame, QueuedSame
<1> HIDE DEF after, off, mine, yours
<1> QED BY <1>1, <1>2

LEMMA ResetSame == \A h, j : Sched!Reset(h, j) = HP!Reset(h, j)
BY DEF Sched!Reset, HP!Reset

LEMMA EndSame == \A h, j : Sched!End(h, j) = HP!End(h, j)
BY RetireSame, ResetSame DEF Sched!End, HP!End

LEMMA BreakerOpenSame == \A h : Sched!BreakerOpen(h) = HP!BreakerOpen(h)
BY DEF Sched!BreakerOpen, HP!BreakerOpen, Sched!Armed, HP!Armed

LEMMA PreemptExcessSame == \A h : Sched!PreemptExcess(h) = HP!PreemptExcess(h)
BY DEF Sched!PreemptExcess, HP!PreemptExcess, Sched!Cuttable, HP!Cuttable, Sched!Excess,
       HP!Excess, Sched!BackgroundSlots, HP!BackgroundSlots, Sched!Among, HP!Among,
       Sched!Taken, HP!Taken, Sched!ToSet, HP!ToSet, Sched!Has, HP!Has

LEMMA BreakerProbedSame == \A h, j, failure : Sched!BreakerProbed(h, j, failure) = HP!BreakerProbed(h, j, failure)
BY BreakerOpenSame, PreemptExcessSame DEF Sched!BreakerProbed, HP!BreakerProbed, Sched!Armed,
       HP!Armed

LEMMA BreakerNoteSame == \A h, j, failure, retry : Sched!BreakerNote(h, j, failure, retry) = HP!BreakerNote(h, j, failure, retry)
BY BreakerOpenSame, BreakerProbedSame DEF Sched!BreakerNote, HP!BreakerNote, Sched!Has, HP!Has

LEMMA FinishSame == \A h, j, failure, retry : Sched!Finish(h, j, failure, retry) = HP!Finish(h, j, failure, retry)
BY BreakerNoteSame, EndSame DEF Sched!Finish, HP!Finish

LEMMA CutSame == \A h, j, failure : Sched!Cut(h, j, failure) = HP!Cut(h, j, failure)
BY FinishSame DEF Sched!Cut, HP!Cut

LEMMA CancelSame == \A h, j : Sched!Cancel(h, j) = HP!Cancel(h, j)
BY EndSame DEF Sched!Cancel, HP!Cancel

LEMMA NextJobSame == \A h, start : Sched!NextJob(h, start) = HP!NextJob(h, start)
BY DEF Sched!NextJob, HP!NextJob, Sched!First, HP!First, Sched!BackgroundSlots,
       HP!BackgroundSlots

LEMMA HomeWaitSame == \A h, j : Sched!HomeWait(h, j) = HP!HomeWait(h, j)
BY PreemptExcessSame, SMTT(20) DEF Sched!HomeWait, HP!HomeWait, Sched!Whom, HP!Whom

LEMMA VacantSame == \A h, c : Sched!Vacant(h, c) <=> HP!Vacant(h, c)
BY DEF Sched!Vacant, HP!Vacant, Sched!BackgroundSlots, HP!BackgroundSlots

LEMMA AdmitSame == \A h, j : Sched!Admit(h, j) = HP!Admit(h, j)
<1> TAKE h, j
<1> DEFINE c == [k \in {"a1", "a2", "b"} |-> 0][j]
           no1 == \/ h.draining \/ h.state = "OPEN" \/ Sched!Cardinality(h.due) >= 3
                  \/ ~h.fifo /\ Len(h.queue[c][Sched!Whom(h, j)]) >= 2
           no2 == \/ h.draining \/ h.state = "OPEN" \/ HP!Cardinality(h.due) >= 3
                  \/ ~h.fifo /\ Len(h.queue[c][HP!Whom(h, j)]) >= 2
           goes == LET g == [h EXCEPT !.due = @ \cup {j}, !.ready[c] = Append(@, j),
                               !.flags[j] = @ \cup {"READY"}, !.readied[c] = @ + 1]
                   IN  [g EXCEPT !.armed = @ \cup {"start"}]
           start(w) == [w EXCEPT !.armed = @ \cup {"start"}]
<1>1. /\ Sched!Admit(h, j) = IF no1 THEN Sched!End(h, j) ELSE IF Sched!Vacant(h, c) THEN goes
                             ELSE start(Sched!HomeWait(h, j))
      /\ HP!Admit(h, j) = IF no2 THEN HP!End(h, j) ELSE IF HP!Vacant(h, c) THEN goes
                          ELSE start(HP!HomeWait(h, j))
  BY DEF Sched!Admit, HP!Admit, Sched!Armed, HP!Armed
<1>2. no1 <=> no2
  BY DEF Sched!Cardinality, HP!Cardinality, Sched!Whom, HP!Whom
<1> HIDE DEF no1, no2, goes, start, c
<1> QED BY <1>1, <1>2, VacantSame, HomeWaitSame, EndSame

LEMMA StartSame == \A h, j, done : Sched!Start(h, j, done) = HP!Start(h, j, done)
BY EndSame DEF Sched!Start, HP!Start

LEMMA PreemptSame == \A h, j : Sched!Preempt(h, j) = HP!Preempt(h, j)
BY DEF Sched!Preempt, HP!Preempt, Sched!Armed, HP!Armed

LEMMA SubmitSame == \A j : Sched!Submit(j) => HP!Submit(j)
BY AdmitSame DEF Sched!Submit, HP!Submit

LEMMA ReleaseSame == \A j : Sched!Release(j) => HP!Release(j)
BY UnlistedSame, EndSame, Zenon DEF Sched!Release, HP!Release, Sched!Armed, HP!Armed,
       Sched!Has, HP!Has

LEMMA StartStepSame == Sched!StartStep => HP!StartStep
BY NextJobSame, UnlistedSame, UnqueueSame, StartSame, Zenon DEF Sched!StartStep, HP!StartStep,
       Sched!Ready, HP!Ready, Sched!Disarmed, HP!Disarmed, Sched!MayStart, HP!MayStart,
       Sched!Has, HP!Has

LEMMA ShedStepSame == Sched!ShedStep => HP!ShedStep
BY NextJobSame, EndSame, Zenon DEF Sched!ShedStep, HP!ShedStep, Sched!Ready, HP!Ready,
       Sched!Disarmed, HP!Disarmed

LEMMA PreemptStepSame == Sched!PreemptStep => HP!PreemptStep
BY PreemptSame DEF Sched!PreemptStep, HP!PreemptStep, Sched!Ready, HP!Ready, Sched!Disarmed,
       HP!Disarmed, Sched!Cuttable, HP!Cuttable, Sched!Excess, HP!Excess,
       Sched!BackgroundSlots, HP!BackgroundSlots, Sched!Has, HP!Has

LEMMA StopStepSame == Sched!StopStep => HP!StopStep
BY CancelSame DEF Sched!StopStep, HP!StopStep, Sched!Ready, HP!Ready, Sched!Disarmed,
       HP!Disarmed

LEMMA DrainStepSame == Sched!DrainStep => HP!DrainStep
BY CancelSame DEF Sched!DrainStep, HP!DrainStep, Sched!Ready, HP!Ready, Sched!Disarmed,
       HP!Disarmed

LEMMA ProbeAnswersSame == \A j : Sched!ProbeAnswers(j) => HP!ProbeAnswers(j)
BY BreakerProbedSame, Zenon DEF Sched!ProbeAnswers, HP!ProbeAnswers, Sched!Has, HP!Has

LEMMA DeliveredSame == \A j : Sched!Delivered(j) => HP!Delivered(j)
BY FinishSame DEF Sched!Delivered, HP!Delivered

LEMMA ThinksSame == \A j : Sched!Thinks(j) => HP!Thinks(j)
BY DEF Sched!Thinks, HP!Thinks, Sched!Has, HP!Has

LEMMA ReadWholeSame == \A j : Sched!ReadWhole(j) => HP!ReadWhole(j)
BY FinishSame, CutSame, Zenon DEF Sched!ReadWhole, HP!ReadWhole, Sched!Has, HP!Has

LEMMA JournalDoneSame == \A j : Sched!JournalDone(j) => HP!JournalDone(j)
BY CutSame, EndSame, FinishSame DEF Sched!JournalDone, HP!JournalDone, Sched!Has, HP!Has

LEMMA ExpireSame == \A j : Sched!Expire(j) => HP!Expire(j)
BY CancelSame, CutSame, EndSame, Zenon DEF Sched!Expire, HP!Expire, Sched!Has, HP!Has

LEMMA StallSame == \A j : Sched!Stall(j) => HP!Stall(j)
BY CutSame, Zenon DEF Sched!Stall, HP!Stall

LEMMA BreakerEventSame == Sched!BreakerEvent => HP!BreakerEvent
BY DEF Sched!BreakerEvent, HP!BreakerEvent, Sched!Armed, HP!Armed

LEMMA SlotsToldSame == \A n : Sched!SlotsTold(n) => HP!SlotsTold(n)
BY PreemptExcessSame DEF Sched!SlotsTold, HP!SlotsTold, Sched!Armed, HP!Armed

LEMMA DrainSame == Sched!Drain => HP!Drain
BY DEF Sched!Drain, HP!Drain, Sched!Armed, HP!Armed

LEMMA SlotsStep == Sched!Next => HP!Next
BY SubmitSame, ReleaseSame, StartStepSame, ShedStepSame, PreemptStepSame, StopStepSame,
   DrainStepSame, ProbeAnswersSame, DeliveredSame, ThinksSame, ReadWholeSame, JournalDoneSame,
   ExpireSame, StallSame, BreakerEventSame, SlotsToldSame, DrainSame DEF
       Sched!Next, HP!Next, Sched!Steps, HP!Steps

LEMMA SlotsEnough == HP!PlacesTrue => Sched!PlacesTrue
BY DEF Sched!PlacesTrue, HP!PlacesTrue

\* The place that a queued job has been told is its place, in the run of the
\* process (home_unqueue(), home_wait()).
THEOREM PlacesAlways == PSpec => []PlacesTrue
<1> DEFINE I == part = "slots" => HP!Good(home)
<1>1. PInit => I
  BY SlotsGiven, SlotsStart, HP!InitGood DEF PInit
<1>2. I /\ [PNext]_pvars => I'
  <2> SUFFICES ASSUME I, [PNext]_pvars, part' = "slots" PROVE HP!Good(home')
    BY DEF HP!Good, HP!Sound, HP!Starts, HP!Ends
  <2>1. HP!Good(home) /\ (Sched!Next \/ UNCHANGED home)
    BY DEF PNext, pvars, rest
  <2>2. CASE HP!Next
    BY <2>1, <2>2, SlotsGiven, HP!NextKeeps
  <2>3. CASE UNCHANGED home
    BY <2>1, <2>3
  <2> QED BY <2>1, <2>2, <2>3, SlotsStep
<1>3. I => PlacesTrue
  BY SlotsGiven, SlotsEnough, HP!GoodPlaces DEF PlacesTrue
<1> QED BY <1>1, <1>2, <1>3, PTL DEF PSpec
=============================================================================
