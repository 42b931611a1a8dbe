------------------------------ MODULE Journal ------------------------------
(***************************************************************************)
(* The journal's recovery checkpoints (src/src/journal.c): a bounded queue *)
(* that any loop puts records in, one writer thread that replaces a job's  *)
(* checkpoint file for each, the table of the jobs that have one, and what *)
(* a crash leaves of the files.                                            *)
(*                                                                         *)
(* A directory's entry is durable once the directory is synchronized, so a *)
(* file that was renamed or removed since may have either content after a  *)
(* crash: images[j] is the set of contents that a crash now could leave of *)
(* the checkpoint of job j, and disk[j] the one that readers see.  Bytes   *)
(* are counted in records.                                                 *)
(***************************************************************************)
EXTENDS IntrusiveLists, FiniteSets

CONSTANTS Job,          \* the jobs' ids
          Wal,          \* those with records in the legacy WAL
          JOURNAL_QUEUE, JOURNAL_CONTROL,           \* the queue's limits
          JOURNAL_JOBS,                             \* the table's size
          JOURNAL_RECOVERY, JOURNAL_TERMINAL,       \* room, and the reserve
          MaxPuts, MaxFaults, MaxCrashes            \* bounds

VARIABLES
  queue,    \* the items queued
  stop,     \* WRITER_STOP
  signals,  \* calls of pthread_cond_signal() not made yet
  writer,   \* the writer thread, and the item it works on
  disk, images,
  table,    \* struct journal_job of each job, there or not
  aged,     \* the jobs of the table, the least recently touched first
  puts, faults, crashes,
  \* History: what a client may find again of each job, the jobs of the WAL
  \* whose checkpoint began with a state, whether a put or a write of a
  \* record that ends a job found no room, and the jobs with a record lost.
  known, restated, refused, lost

vars == <<queue, stop, signals, writer, disk, images, table, aged, puts, faults,
          crashes, known, restated, refused, lost>>

-----------------------------------------------------------------------------
(* Records and checkpoints.                                                *)

Terminal == {"RESULT", "CANCEL"}
Kind     == {"STATE", "META", "TOOL", "LEGACY"} \cup Terminal
Record   == [kind : Kind, n : Nat]
\* JOURNAL_CONTROL_PUT with its record's kind, or another operation.
Operation == (Kind \ {"LEGACY"}) \cup {"THOUGHT", "FINISH", "LOAD"}

Kinds(c)     == {r.kind : r \in ToSet(c)}
\* The records of c that are not of the kinds K: journal_records_drop().
Without(c, K) == Among(c, [kind : Kind \ K, n : Nat])

\* The legacy WAL's records of a job, as journal_records_read() returns them.
Old(j) == IF j \in Wal THEN <<[kind |-> "STATE", n |-> 0], [kind |-> "TOOL", n |-> 0]>>
          ELSE <<>>

\* What journal_load_records() finds of a job whose file is c.
View(c, j) == IF c = <<>> THEN Old(j) ELSE Without(c, {"LEGACY"})

\* The kinds that a record of the kind k makes stale.
Stale(k) == IF k \in Terminal THEN Kind \ {"STATE", "LEGACY"}
            ELSE IF k = "META" THEN {"META"} ELSE IF k = "STATE" THEN Kind \ {"LEGACY"} ELSE {}

NoJob == [there |-> FALSE, bytes |-> 0, terminal |-> FALSE, legacy |-> FALSE, error |-> FALSE]

There     == {j \in Job : table[j].there}
Used      == FoldSet(LAMBDA j, n : table[j].bytes + n, 0, There)
Room(k)   == JOURNAL_RECOVERY + (IF k \in Terminal THEN JOURNAL_TERMINAL ELSE 0)

\* journal_jobs_scan(): the table that the files make, in an order that the
\* files' times give.
Scanned(d) == [j \in Job |-> [there |-> d[j] # <<>>, bytes |-> Len(d[j]),
                              terminal |-> Kinds(d[j]) \cap Terminal # {},
                              legacy |-> "LEGACY" \in Kinds(d[j]), error |-> FALSE]]

Idle == [at |-> "idle", job |-> CHOOSE j \in Job : TRUE, op |-> "LOAD", n |-> 0, new |-> <<>>]

TypeOK ==
  /\ queue \in Seq([job : Job, op : Operation, n : 1 .. MaxPuts])
  /\ {stop, refused} \subseteq BOOLEAN /\ signals \in Nat
  /\ writer.at \in {"idle", "asleep", "room", "rename", "sync", "gone"}
  /\ disk \in [Job -> Seq(Record)] /\ \A j \in Job : disk[j] \in images[j]
  /\ \A j \in Job : writer.at \in {"idle", "asleep", "gone"} => table[j].bytes \in Nat
  /\ ToSet(aged) = There /\ Cardinality(There) = Len(aged)
  /\ puts \in 0 .. MaxPuts /\ faults \in 0 .. MaxFaults /\ crashes \in 0 .. MaxCrashes
  /\ restated \subseteq Wal /\ lost \subseteq Job

\* journal_create(), over what an earlier process left.
Init ==
  /\ queue = <<>> /\ stop = FALSE /\ signals = 0 /\ writer = Idle
  /\ \E d \in [Job -> {<<>>, <<[kind |-> "STATE", n |-> 0]>>,
                       <<[kind |-> "STATE", n |-> 0], [kind |-> "RESULT", n |-> 0]>>}] :
       /\ \A j \in Wal : d[j] = <<>>
       /\ Cardinality({j \in Job : d[j] # <<>>}) <= JOURNAL_JOBS
       /\ disk = d /\ images = [j \in Job |-> {d[j]}] /\ table = Scanned(d)
       /\ aged \in {s \in SetToSeqs({j \in Job : d[j] # <<>>}) : TRUE}
       /\ known = [j \in Job |-> {View(d[j], j)}]
       /\ FoldSet(LAMBDA j, n : Len(d[j]) + n, 0, Job) <= JOURNAL_RECOVERY + JOURNAL_TERMINAL
  /\ puts = 0 /\ faults = 0 /\ crashes = 0
  /\ restated = {} /\ refused = FALSE /\ lost = {}

-----------------------------------------------------------------------------
(* The loops: putting and stopping.                                        *)

\* A mistake the checks would catch: no place is kept for a cancellation.
LimitOne(op) == JOURNAL_QUEUE

\* The queue's limit for an item: a small cancellation has more.
Limit(op) == JOURNAL_QUEUE + (IF op = "CANCEL" THEN JOURNAL_CONTROL ELSE 0)

\* A job is cancelled once in a life of the journal: the ledger sees to that.
MayCancel(j) == \A i \in DOMAIN queue : queue[i].job = j => queue[i].op # "CANCEL"

\* journal_enqueue(): queued under the lock, or refused with EAGAIN.
Put(j, op) ==
  /\ ~stop /\ writer.at # "gone" /\ puts < MaxPuts
  /\ op = "CANCEL" => MayCancel(j)
  /\ puts' = puts + 1
  /\ IF Len(queue) < Limit(op)
     THEN /\ queue' = Append(queue, [job |-> j, op |-> op, n |-> puts + 1])
          /\ signals' = signals + 1 /\ UNCHANGED refused
     ELSE refused' = (refused \/ op = "CANCEL") /\ UNCHANGED <<queue, signals>>
  /\ UNCHANGED <<stop, writer, disk, images, table, aged, faults, crashes, known,
                 restated, lost>>

\* pthread_cond_signal(), after the lock was released.
Signal ==
  /\ signals > 0 /\ signals' = signals - 1
  /\ writer' = IF writer.at = "asleep" THEN [writer EXCEPT !.at = "idle"] ELSE writer
  /\ UNCHANGED <<queue, stop, disk, images, table, aged, puts, faults, crashes, known,
                 restated, refused, lost>>

\* journal_stop(): it then waits for the writer.
Stop ==
  /\ ~stop /\ stop' = TRUE /\ signals' = signals + 1
  /\ UNCHANGED <<queue, writer, disk, images, table, aged, puts, faults, crashes, known,
                 restated, refused, lost>>

-----------------------------------------------------------------------------
(* The writer.                                                             *)

\* journal_finish(): the item's callback is posted, and the next is taken.
Finished == writer' = Idle

\* An item fails.  The job, if the table has it, remembers that a record of
\* it is lost; the client that hears of it may find the record or not.
Fails(j) ==
  /\ Finished
  /\ table' = [table EXCEPT ![j].error = @ \/ table[j].there]
  /\ lost' = IF table[j].there THEN lost \cup {j} ELSE lost
  /\ UNCHANGED known

\* An append to a job with a record lost fails before anything is written.
Lost(j, op) == table[j].error /\ op \notin Terminal \cup {"STATE"}

\* The records that a record of the kind op joins, and whether the new
\* checkpoint has the mark of the legacy WAL.
Base(j, op)  == IF op = "STATE" THEN <<>> ELSE IF table[j].bytes > 0 THEN disk[j] ELSE Old(j)
Marked(j, op) == IF op # "STATE" /\ table[j].bytes = 0 THEN Old(j) # <<>> ELSE table[j].legacy

\* The checkpoint that the record r of the job j makes.
New(j, r) ==
  LET base == Base(j, r.kind)
      mark == IF Marked(j, r.kind) /\ "LEGACY" \notin Kinds(base)
              THEN <<[kind |-> "LEGACY", n |-> 0]>> ELSE <<>>
  IN  mark \o Append(Without(base, Stale(r.kind)), r)

\* journal_take(), and the start of journal_checkpoint_write(): what the job's
\* checkpoint will be; the file may not be readable.
Take ==
  /\ writer.at = "idle" /\ queue # <<>>
  /\ queue' = Tail(queue)
  /\ LET i == Head(queue)
         r == [kind |-> i.op, n |-> i.n]
         unread == i.op # "STATE" /\ table[i.job].bytes > 0 /\ disk[i.job] = <<>>
     IN  CASE i.op = "LOAD" -> Finished /\ UNCHANGED <<table, known, lost>>
           [] i.op \in {"THOUGHT", "FINISH"} ->
                /\ writer' = [at |-> "room", job |-> i.job, op |-> i.op, n |-> i.n, new |-> <<>>]
                /\ UNCHANGED <<table, known, lost>>
           [] OTHER ->
                IF Lost(i.job, i.op) THEN Finished /\ UNCHANGED <<table, known, lost>>
                ELSE IF unread THEN Fails(i.job)
                ELSE /\ writer' = [at |-> "room", job |-> i.job, op |-> i.op, n |-> i.n,
                                   new |-> New(i.job, r)]
                     /\ UNCHANGED <<table, known, lost>>
  /\ UNCHANGED <<stop, signals, disk, images, aged, puts, faults, crashes, restated, refused>>

\* The queue is empty: the writer waits, or was told to stop.
Wait ==
  /\ writer.at = "idle" /\ queue = <<>>
  /\ writer' = [writer EXCEPT !.at = IF stop THEN "gone" ELSE "asleep"]
  /\ UNCHANGED <<queue, stop, signals, disk, images, table, aged, puts, faults, crashes,
                 known, restated, refused, lost>>

\* journal_checkpoint_space() has to make room.  A thought asks for none but
\* a place in the table.
Need ==
  LET j == writer.job
      k == IF writer.op \in {"THOUGHT", "FINISH"} THEN "RESULT" ELSE writer.op
  IN  /\ writer.op = "FINISH" => FALSE
      /\ writer.op = "THOUGHT" => ~table[j].there
      /\ \/ Used - table[j].bytes + Len(writer.new) > Room(k)
         \/ ~table[j].there /\ Cardinality(There) = JOURNAL_JOBS

\* The jobs that may expire, and the one of them that does: the oldest.
Expires(j) == j # writer.job /\ table[j].terminal /\ ~table[j].legacy
Oldest(v)  == \E i \in DOMAIN aged : /\ aged[i] = v /\ Expires(v)
                                      /\ \A k \in 1 .. i - 1 : ~Expires(aged[k])

\* A record that ends a job finds no room for itself.
NoRoom == writer.op \in Terminal /\ table[writer.job].bytes > 0

\* No job can expire: the item fails.
Full ==
  /\ writer.at = "room" /\ Need /\ \A i \in DOMAIN aged : ~Expires(aged[i])
  /\ Fails(writer.job)
  /\ refused' = (refused \/ (NoRoom /\ \A j \in There : ~table[j].legacy))
  /\ UNCHANGED <<queue, stop, signals, disk, images, aged, puts, faults, crashes, restated>>

\* A completed job expires, with its checkpoint if it has one, unless that
\* file is not there (ENOENT).
Expire(v) ==
  /\ writer.at = "room" /\ Need /\ Oldest(v)
  /\ IF table[v].bytes > 0 /\ disk[v] = <<>>
     THEN Fails(writer.job) /\ UNCHANGED <<disk, images, aged>>
     ELSE /\ table' = [table EXCEPT ![v] = NoJob]
          /\ aged' = Remove(aged, v) /\ lost' = lost \ {v} /\ UNCHANGED writer
          /\ IF table[v].bytes > 0
             THEN /\ disk' = [disk EXCEPT ![v] = <<>>]
                  /\ images' = [j \in Job |-> {disk'[j]}]
                  /\ known' = [known EXCEPT ![v] = {<<>>}]
             ELSE UNCHANGED <<disk, images, known>>
  /\ UNCHANGED <<queue, stop, signals, puts, faults, crashes, restated, refused>>

Evict == Full \/ \E v \in Job : Expire(v)

\* The file is written and synchronized under another name; a client may now
\* find the record, or not.  A thought's job is added to the table.
Write ==
  /\ writer.at = "room" /\ ~Need
  /\ LET j == writer.job
         r == [kind |-> writer.op, n |-> writer.n]
     IN  CASE writer.op = "THOUGHT" ->
                /\ table' = [table EXCEPT ![j].there = TRUE,
                                          ![j].terminal = @ /\ table[j].bytes > 0]
                /\ aged' = IF table[j].there THEN aged ELSE <<j>> \o aged
                /\ Finished /\ UNCHANGED <<known, restated>>
           [] writer.op = "FINISH" ->
                /\ table' = [table EXCEPT ![j].terminal =
                               @ \/ (table[j].there /\ table[j].bytes = 0)]
                /\ Finished /\ UNCHANGED <<aged, known, restated>>
           [] OTHER ->
                /\ writer' = [writer EXCEPT !.at = "rename"]
                /\ known' = [known EXCEPT ![j] =
                               @ \cup {Append(Without(v, Stale(r.kind)), r) : v \in @}]
                /\ restated' = IF j \in Wal /\ "LEGACY" \notin Kinds(writer.new)
                               THEN restated \cup {j} ELSE restated
                /\ UNCHANGED <<table, aged>>
  /\ UNCHANGED <<queue, stop, signals, disk, images, puts, faults, crashes, refused, lost>>

\* renameat()
Rename ==
  /\ writer.at = "rename"
  /\ disk' = [disk EXCEPT ![writer.job] = writer.new]
  /\ images' = [images EXCEPT ![writer.job] = @ \cup {writer.new}]
  /\ writer' = [writer EXCEPT !.at = "sync"]
  /\ UNCHANGED <<queue, stop, signals, table, aged, puts, faults, crashes, known, restated,
                 refused, lost>>

\* A mistake the checks would catch: the directory is not synchronized.
Synced(d) == images

\* fsync() of the directory: what readers see is what a crash leaves.
Durable(d) == [j \in Job |-> {d[j]}]

\* A mistake the checks would catch: a job that was in the table stays where
\* it was, and is there again.
TouchedAgain(j) == Append(aged, j)

\* The job is the last that was touched.
Touched(j) == Append(Remove(aged, j), j)

\* The write is durable and the table's entry follows; it is acknowledged.
Sync ==
  /\ writer.at = "sync"
  /\ images' = Durable(disk)
  /\ LET j == writer.job
         kinds == Kinds(writer.new)
     IN  /\ table' = [table EXCEPT ![j] = [there |-> TRUE, bytes |-> Len(writer.new),
                                            terminal |-> kinds \cap Terminal # {},
                                            legacy |-> "LEGACY" \in kinds, error |-> FALSE]]
         /\ aged' = Touched(j)
         /\ known' = [known EXCEPT ![j] =
                        {v \in @ : v # <<>> /\ Last(v) = [kind |-> writer.op, n |-> writer.n]}]
         /\ lost' = IF writer.op \in Terminal \cup {"STATE"} THEN lost \ {j} ELSE lost
  /\ Finished
  /\ UNCHANGED <<queue, stop, signals, disk, puts, faults, crashes, restated, refused>>

\* A call of the system's fails: the write, the rename or the removal and
\* nothing is changed; or the synchronization after it.
Fault ==
  /\ faults < MaxFaults /\ faults' = faults + 1
  /\ writer.at \in {"room", "rename", "sync"} /\ writer.op \in Kind
  /\ \/ UNCHANGED <<disk, images>>
     \/ \E v \in Job :
          /\ writer.at = "room" /\ Need /\ Oldest(v) /\ table[v].bytes > 0
          /\ disk' = [disk EXCEPT ![v] = <<>>]
          /\ images' = [images EXCEPT ![v] = @ \cup {<<>>}]
  /\ Finished
  /\ table' = [table EXCEPT ![writer.job].error = @ \/ table[writer.job].there]
  /\ lost' = IF table[writer.job].there THEN lost \cup {writer.job} ELSE lost
  /\ known' = [j \in Job |-> IF disk'[j] = disk[j] THEN known[j] ELSE known[j] \cup {<<>>}]
  /\ UNCHANGED <<queue, stop, signals, aged, puts, crashes, restated, refused>>

\* The process dies and another starts: of each file one of its images is
\* left, and what was not on disk is forgotten.  A client may find a record
\* that nobody acknowledged.
Crash ==
  /\ crashes < MaxCrashes /\ crashes' = crashes + 1
  /\ \E d \in [Job -> UNION {images[j] : j \in Job}] :
       /\ \A j \in Job : d[j] \in images[j]
       /\ Cardinality({j \in Job : d[j] # <<>>}) <= JOURNAL_JOBS
       /\ disk' = d /\ images' = Durable(d) /\ table' = Scanned(d)
       /\ aged' \in SetToSeqs({j \in Job : d[j] # <<>>})
  /\ queue' = <<>> /\ stop' = FALSE /\ signals' = 0 /\ writer' = Idle /\ lost' = {}
  /\ UNCHANGED <<puts, faults, known, restated, refused>>

WriterStep == Take \/ Wait \/ Evict \/ Write \/ Rename \/ Sync

Next ==
  \/ \E j \in Job, op \in Operation : Put(j, op)
  \/ Signal \/ Stop \/ WriterStep \/ Fault \/ Crash

Fairness == WF_vars(Signal) /\ WF_vars(WriterStep)

Spec == Init /\ [][Next]_vars /\ Fairness

-----------------------------------------------------------------------------

\* What is acknowledged is found again after a crash at any point, and what
\* is found is nothing but what was put: of each job a checkpoint that the
\* records accepted make, all of those acknowledged among them.  Only completed
\* jobs expire ("Active checkpoints never disappear", journal.c:588).
Found == \A j \in Job \ restated : \A c \in images[j] : View(c, j) \in known[j]

\* No record joins those of a job that has lost one, until a state or a
\* terminal record replaces them all (journal.h).
NoGap == writer.at \in {"rename", "sync"} /\ writer.job \in lost
           => writer.op \in Terminal \cup {"STATE"}

\* A journal keeps what it acknowledged, and keeps it whole.
Recovers == Found /\ NoGap

\* A checkpoint of a job that the legacy journal holds is not evicted
\* (README.md:344): what is found of it never falls back to that journal.
LegacyRetained == \A j \in restated : \A c \in images[j] : View(c, j) \in known[j]

\* The files never outgrow the table and the cache, or the next start would
\* refuse them (journal_jobs_scan()); yet a job can always be ended: its
\* cancellation finds a place in the queue however full that is, and the record
\* that ends it room in a full cache, unless the legacy journal's jobs take it.
RoomKept ==
  /\ ~refused
  /\ faults = 0 =>
       \A d \in [Job -> UNION {images[j] : j \in Job}] :
         (\A j \in Job : d[j] \in images[j]) =>
            /\ Cardinality({j \in Job : d[j] # <<>>}) <= JOURNAL_JOBS
            /\ FoldSet(LAMBDA j, n : Len(d[j]) + n, 0, Job)
                 <= JOURNAL_RECOVERY + JOURNAL_TERMINAL
=============================================================================
