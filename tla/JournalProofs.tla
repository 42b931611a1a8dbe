--------------------------- MODULE JournalProofs ---------------------------
(***************************************************************************)
(* What the journal acknowledged is found again after a crash at any       *)
(* point, for any jobs, limits and numbers of puts, faults and crashes.    *)
(***************************************************************************)
EXTENDS Journal, ListProofs

Cs == Seq(Record)

-----------------------------------------------------------------------------
(* What journal_records_drop() leaves.                                     *)

\* What is left of a checkpoint and of one with another record at its end.
LEMMA WithoutLast ==
  ASSUME NEW K
  PROVE  /\ Without(<<>>, K) = <<>>
         /\ \A c \in Cs :
              /\ Without(c, K) \in Cs
              /\ \A r \in Record : Without(Append(c, r), K) =
                   IF r.kind \in K THEN Without(c, K) ELSE Append(Without(c, K), r)
<1> DEFINE S == [kind : Kind \ K, n : Nat]
<1>1. \A r \in Record : r \in S <=> r.kind \notin K
  BY DEF Record
<1> HIDE DEF S
<1>2. /\ Among(<<>>, S) = <<>>
      /\ \A c \in Seq(Record) :
           /\ Among(c, S) \in Seq(Record)
           /\ \A r \in Record : Among(Append(c, r), S) = IF r \in S THEN Append(Among(c, S), r)
                                                         ELSE Among(c, S)
  BY AmongFromTheEnd
<1>3. \A c : Without(c, K) = Among(c, S)
  BY DEF Without, S
<1> QED BY <1>1, <1>2, <1>3 DEF Cs

\* A checkpoint with another record ends with it.
LEMMA OneMore ==
  ASSUME NEW c \in Cs, NEW r \in Record
  PROVE  Append(c, r) \in Cs /\ Append(c, r) # <<>> /\ Last(Append(c, r)) = r
<1>1. c \in Seq(Record)
  BY DEF Cs
<1>2. /\ Append(c, r) \in Seq(Record) /\ Len(Append(c, r)) = Len(c) + 1 /\ Len(c) \in Nat
      /\ Append(c, r)[Len(c) + 1] = r
  BY <1>1
<1>3. Append(c, r) # <<>>
  BY <1>2
<1> QED BY <1>2, <1>3 DEF Cs, Last

\* The order in which two sets of kinds are dropped does not matter.
LEMMA WithoutBoth ==
  ASSUME NEW K, NEW M, NEW c \in Cs
  PROVE  Without(Without(c, K), M) = Without(Without(c, M), K)
<1> DEFINE C == {s \in Cs : Without(Without(s, K), M) = Without(Without(s, M), K)}
<1>a. \A s \in Cs, r \in Record :
         Without(Append(s, r), K) = IF r.kind \in K THEN Without(s, K)
                                    ELSE Append(Without(s, K), r)
  BY WithoutLast
<1>b. \A s \in Cs, r \in Record :
         Without(Append(s, r), M) = IF r.kind \in M THEN Without(s, M)
                                    ELSE Append(Without(s, M), r)
  BY WithoutLast
<1>1. <<>> \in C
  BY WithoutLast DEF Cs
<1>2. ASSUME NEW s \in C, NEW r \in Record PROVE Append(s, r) \in C
  <2>0. s \in Cs
    OBVIOUS
  <2>1. s \in Cs /\ Append(s, r) \in Cs /\ Without(s, K) \in Cs /\ Without(s, M) \in Cs
    BY <2>0, OneMore, WithoutLast, Zenon
  <2>2. Without(Append(s, r), K) = IF r.kind \in K THEN Without(s, K)
                                   ELSE Append(Without(s, K), r)
    BY <2>1, <1>a
  <2>3. Without(Append(s, r), M) = IF r.kind \in M THEN Without(s, M)
                                   ELSE Append(Without(s, M), r)
    BY <2>1, <1>b
  <2>4. Without(Append(Without(s, K), r), M) =
          IF r.kind \in M THEN Without(Without(s, K), M)
          ELSE Append(Without(Without(s, K), M), r)
    BY <2>1, <1>b
  <2>5. Without(Append(Without(s, M), r), K) =
          IF r.kind \in K THEN Without(Without(s, M), K)
          ELSE Append(Without(Without(s, M), K), r)
    BY <2>1, <1>a
  <2>6. Without(Without(s, K), M) = Without(Without(s, M), K)
    OBVIOUS
  <2> QED BY <2>1, <2>2, <2>3, <2>4, <2>5, <2>6
<1>3. C = Cs
  <2>1. C \subseteq Seq(Record)
    BY DEF Cs
  <2> HIDE DEF C
  <2> QED BY <1>1, <1>2, <2>1, FromTheEnd DEF Cs
<1> QED BY <1>3

\* Of records without marks, nothing is left of the other kinds.
LEMMA WithoutAll ==
  ASSUME NEW c \in Cs
  PROVE  Without(Without(c, {"LEGACY"}), Kind \ {"LEGACY"}) = <<>>
<1> DEFINE W(s) == Without(Without(s, {"LEGACY"}), Kind \ {"LEGACY"})
           C == {s \in Cs : W(s) = <<>>}
<1>a. \A s \in Cs, r \in Record :
         Without(Append(s, r), {"LEGACY"}) = IF r.kind \in {"LEGACY"} THEN Without(s, {"LEGACY"})
                                     ELSE Append(Without(s, {"LEGACY"}), r)
  BY WithoutLast
<1>b. \A s \in Cs, r \in Record :
         Without(Append(s, r), Kind \ {"LEGACY"}) = IF r.kind \in Kind \ {"LEGACY"}
                    THEN Without(s, Kind \ {"LEGACY"})
                    ELSE Append(Without(s, Kind \ {"LEGACY"}), r)
  BY WithoutLast
<1>1. <<>> \in C
  BY WithoutLast DEF Cs
<1>2. ASSUME NEW s \in C, NEW r \in Record PROVE Append(s, r) \in C
  <2>0. s \in Cs /\ r.kind \in Kind
    BY DEF Record
  <2>1. s \in Cs /\ Append(s, r) \in Cs /\ Without(s, {"LEGACY"}) \in Cs /\ r.kind \in Kind
    BY <2>0, OneMore, WithoutLast, Zenon
  <2>2. Without(Append(s, r), {"LEGACY"}) =
          IF r.kind = "LEGACY" THEN Without(s, {"LEGACY"}) ELSE Append(Without(s, {"LEGACY"}), r)
    BY <2>1, <1>a
  <2>3. r.kind # "LEGACY" =>
          Without(Append(Without(s, {"LEGACY"}), r), Kind \ {"LEGACY"}) = W(s)
    BY <2>1, <1>b
  <2> QED BY <2>1, <2>2, <2>3
<1>3. C = Cs
  <2>1. C \subseteq Seq(Record)
    BY DEF Cs
  <2> HIDE DEF C
  <2> QED BY <1>1, <1>2, <2>1, FromTheEnd DEF Cs
<1> QED BY <1>3

\* The mark that begins a checkpoint is dropped.
LEMMA WithoutMark ==
  ASSUME NEW m \in Record, m.kind = "LEGACY", NEW c \in Cs
  PROVE  Without(<<m>> \o c, {"LEGACY"}) = Without(c, {"LEGACY"})
<1> DEFINE C == {s \in Cs : Without(<<m>> \o s, {"LEGACY"}) = Without(s, {"LEGACY"})}
<1>a. \A s \in Cs, r \in Record :
         Without(Append(s, r), {"LEGACY"}) = IF r.kind \in {"LEGACY"} THEN Without(s, {"LEGACY"})
                                     ELSE Append(Without(s, {"LEGACY"}), r)
  BY WithoutLast
<1>1. <<>> \in C
  <2>1. <<m>> \o <<>> = Append(<<>>, m) /\ <<>> \in Cs
    BY DEF Cs
  <2> QED BY <2>1, WithoutLast
<1>2. ASSUME NEW s \in C, NEW r \in Record PROVE Append(s, r) \in C
  <2>1. s \in Cs /\ Append(s, r) \in Cs /\ <<m>> \o s \in Cs
    BY DEF Cs
  <2>2. <<m>> \o Append(s, r) = Append(<<m>> \o s, r)
    BY DEF Cs
  <2>3. Without(Append(s, r), {"LEGACY"}) =
          IF r.kind = "LEGACY" THEN Without(s, {"LEGACY"}) ELSE Append(Without(s, {"LEGACY"}), r)
    BY <2>1, <1>a
  <2>4. Without(Append(<<m>> \o s, r), {"LEGACY"}) =
          IF r.kind = "LEGACY" THEN Without(<<m>> \o s, {"LEGACY"})
          ELSE Append(Without(<<m>> \o s, {"LEGACY"}), r)
    BY <2>1, <1>a
  <2> QED BY <2>1, <2>2, <2>3, <2>4
<1>3. C = Cs
  <2>1. C \subseteq Seq(Record)
    BY DEF Cs
  <2> HIDE DEF C
  <2> QED BY <1>1, <1>2, <2>1, FromTheEnd DEF Cs
<1> QED BY <1>3

\* The legacy WAL's records have no marks.
LEMMA OldUnmarked ==
  ASSUME NEW j
  PROVE  /\ Old(j) \in Cs /\ Without(Old(j), {"LEGACY"}) = Old(j)
         /\ Without(Old(j), Kind \ {"LEGACY"}) = <<>>
<1> DEFINE a == [kind |-> "STATE", n |-> 0]
           b == [kind |-> "TOOL", n |-> 0]
<1>1. a \in Record /\ b \in Record /\ a.kind = "STATE" /\ b.kind = "TOOL"
      /\ {"STATE", "TOOL"} \subseteq Kind \ {"LEGACY"}
  BY DEF Record, Kind, Terminal
<1>2. Old(j) = IF j \in Wal THEN <<a, b>> ELSE <<>>
  BY DEF Old
<1> HIDE DEF a, b
<1>3. <<>> \in Cs /\ <<a>> \in Cs /\ <<a, b>> \in Cs /\ <<a>> = Append(<<>>, a)
      /\ <<a, b>> = Append(<<a>>, b)
  BY <1>1 DEF Cs
<1>4. ASSUME NEW K
      PROVE  Without(<<a, b>>, K) =
               IF b.kind \in K THEN IF a.kind \in K THEN <<>> ELSE <<a>>
               ELSE Append(IF a.kind \in K THEN <<>> ELSE <<a>>, b)
  <2>1. /\ Without(<<>>, K) = <<>>
        /\ \A s \in Cs, r \in Record :
             Without(Append(s, r), K) = IF r.kind \in K THEN Without(s, K)
                                        ELSE Append(Without(s, K), r)
    BY WithoutLast
  <2>2. Without(<<a>>, K) = IF a.kind \in K THEN <<>> ELSE <<a>>
    BY <1>1, <1>3, <2>1
  <2>3. Without(<<a, b>>, K) = IF b.kind \in K THEN Without(<<a>>, K)
                               ELSE Append(Without(<<a>>, K), b)
    BY <1>1, <1>3, <2>1
  <2> QED BY <2>2, <2>3
<1>5. Without(<<a, b>>, {"LEGACY"}) = <<a, b>>
  BY <1>1, <1>3, <1>4
<1>6. Without(<<a, b>>, Kind \ {"LEGACY"}) = <<>>
  BY <1>1, <1>4
<1> QED BY <1>2, <1>3, <1>5, <1>6, WithoutLast

\* What a client finds of a job has no marks.
LEMMA ViewUnmarked ==
  ASSUME NEW c \in Cs, NEW j
  PROVE  View(c, j) \in Cs /\ Without(View(c, j), Kind \ {"LEGACY"}) = <<>>
BY OldUnmarked, WithoutAll, WithoutLast DEF View

\* A record that a client puts, and how a checkpoint may begin: with the mark
\* that the journal itself puts on a job of the legacy WAL, or without.
Real  == {r \in Record : r.kind # "LEGACY"}
Heads == {<<>>, <<[kind |-> "LEGACY", n |-> 0]>>}

\* The checkpoint of a record that joins those of another, without those that
\* it makes stale.
Joined(base, K, r)       == Append(Without(base, K), r)
Headed(mark, base, K, r) == mark \o Joined(base, K, r)

\* What a client finds of a new checkpoint is the same without marks.
LEMMA ViewOfNew ==
  ASSUME NEW base \in Cs, NEW K, NEW r \in Real, NEW j,
         NEW mark \in Heads, NEW new, new = Headed(mark, base, K, r)
  PROVE  /\ new \in Cs /\ new # <<>>
         /\ View(new, j) = Joined(Without(base, {"LEGACY"}), K, r)
         /\ View(new, j) \in Cs /\ View(new, j) # <<>> /\ Last(View(new, j)) = r
<1> DEFINE m == [kind |-> "LEGACY", n |-> 0]
           kept == Without(base, K)
           a == Append(kept, r)
<1>a. r \in Record /\ r.kind # "LEGACY"
  BY DEF Real
<1>0. new = mark \o a
  BY DEF Headed, Joined
<1>1. m \in Record /\ m.kind = "LEGACY"
  BY DEF Record, Kind
<1>2. kept \in Cs /\ Without(base, {"LEGACY"}) \in Cs
  BY WithoutLast
<1>3. a \in Cs /\ a # <<>>
  BY <1>a, <1>2, OneMore
<1>4. Without(a, {"LEGACY"}) = Append(Without(kept, {"LEGACY"}), r)
  <2>1. \A s \in Cs, x \in Record :
          Without(Append(s, x), {"LEGACY"}) =
            IF x.kind \in {"LEGACY"} THEN Without(s, {"LEGACY"})
            ELSE Append(Without(s, {"LEGACY"}), x)
    BY WithoutLast
  <2> QED BY <1>a, <1>2, <2>1
<1>5. Without(kept, {"LEGACY"}) = Without(Without(base, {"LEGACY"}), K)
  BY WithoutBoth
<1> HIDE DEF a, m, kept
<1>6. new \in Cs /\ new # <<>> /\ Without(new, {"LEGACY"}) = Without(a, {"LEGACY"})
  <2>1. CASE mark = <<>>
    <3>1. new = a
      BY <1>0, <1>3, <2>1 DEF Cs
    <3> QED BY <1>3, <3>1
  <2>2. CASE mark = <<m>>
    <3>1. new \in Cs /\ new # <<>>
      BY <1>0, <1>1, <1>3, <2>2 DEF Cs
    <3> QED BY <1>0, <1>1, <1>3, <2>2, <3>1, WithoutMark
  <2> QED BY <2>1, <2>2 DEF m, Heads
<1>7. View(new, j) = Append(Without(Without(base, {"LEGACY"}), K), r)
  BY <1>4, <1>5, <1>6 DEF View
<1>8. Without(Without(base, {"LEGACY"}), K) \in Cs
  BY <1>2, WithoutLast
<1>9. View(new, j) \in Cs /\ View(new, j) # <<>> /\ Last(View(new, j)) = r
  BY <1>a, <1>7, <1>8, OneMore
<1> QED BY <1>6, <1>7, <1>9 DEF a, kept, Joined

-----------------------------------------------------------------------------
(* The inductive invariant.                                                *)

Entries == [there : BOOLEAN, bytes : Nat, terminal : BOOLEAN, legacy : BOOLEAN, error : BOOLEAN]
Items   == [job : Job, op : Operation, n : Nat]

Typed ==
  /\ disk \in [Job -> Cs] /\ images \in [Job -> SUBSET Cs] /\ \A j \in Job : disk[j] \in images[j]
  /\ known \in [Job -> SUBSET Cs] /\ table \in [Job -> Entries]
  /\ queue \in Seq(Items) /\ puts \in Nat
  /\ writer \in [at : {"idle", "asleep", "room", "rename", "sync", "gone"},
                 job : Job \cup {Idle.job}, op : Operation, n : Nat, new : Cs]
  /\ writer.at \in {"room", "rename", "sync"} => writer.job \in Job
  /\ writer.at \in {"rename", "sync"} => writer.op \in Kind
  /\ writer.at = "room" => writer.op # "LOAD"

\* The writer has a record to write.
Busy == writer.at \in {"room", "rename", "sync"} /\ writer.op \in Kind
Written == [kind |-> writer.op, n |-> writer.n]

\* The next record of a job without a checkpoint joins those of the legacy WAL.
FallsBack == \A j \in Job \ restated : table[j].bytes = 0 => Old(j) \in known[j]

\* A job of the legacy WAL is marked, in the table and in its files, so that it
\* does not expire.
Retained ==
  \A j \in (Job \cap Wal) \ restated :
    /\ table[j].bytes > 0 => table[j].legacy
    /\ \A c \in images[j] : c = <<>> \/ "LEGACY" \in Kinds(c)

\* What the writer has prepared ends with the record it was given, and has it
\* join records that may be found now; then it may itself be found.
Prepared ==
  LET view == View(writer.new, writer.job) IN
  /\ Busy => writer.new # <<>> /\ view # <<>> /\ Last(view) = Written
  /\ Busy /\ writer.at = "room" /\ writer.job \notin restated =>
       \E v \in known[writer.job] : view = Append(Without(v, Stale(writer.op)), Written)
  /\ writer.at \in {"rename", "sync"} /\ writer.job \notin restated =>
       /\ view \in known[writer.job]
       /\ writer.job \in Wal => "LEGACY" \in Kinds(writer.new)
  /\ writer.at = "sync" => disk[writer.job] = writer.new

\* A job with a record lost is known to have one, and the writer prepares
\* nothing that would join its others.
Gapless ==
  /\ \A j \in lost \cap Job : table[j].error
  /\ Busy /\ writer.job \in lost => writer.op \in Terminal \cup {"STATE"}

IInv == Typed /\ Found /\ FallsBack /\ Retained /\ Prepared /\ Gapless

-----------------------------------------------------------------------------
(* Its first state.                                                        *)

LEMMA IdleTyped ==
  /\ Idle \in [at : {"idle", "asleep", "room", "rename", "sync", "gone"},
               job : Job \cup {Idle.job}, op : Operation, n : Nat, new : Cs]
  /\ Idle.at = "idle" /\ Idle.op = "LOAD" /\ ~(Idle.op \in Kind)
BY DEF Idle, Operation, Kind, Terminal, Cs

LEMMA InitHolds == Init => IInv
<1> SUFFICES ASSUME Init PROVE IInv
  OBVIOUS
<1> DEFINE D == {<<>>, <<[kind |-> "STATE", n |-> 0]>>,
                 <<[kind |-> "STATE", n |-> 0], [kind |-> "RESULT", n |-> 0]>>}
<1>1. PICK d \in [Job -> D] :
        /\ \A j \in Wal : d[j] = <<>>
        /\ disk = d /\ images = [j \in Job |-> {d[j]}] /\ table = Scanned(d)
        /\ known = [j \in Job |-> {View(d[j], j)}]
  BY Zenon DEF Init
<1>2. D \subseteq Cs
  BY DEF Cs, Record, Kind, Terminal
<1>3. queue = <<>> /\ writer = Idle /\ puts = 0 /\ restated = {} /\ lost = {}
  BY DEF Init
<1> HIDE DEF D
<1>4. d \in [Job -> Cs]
  BY <1>2
<1>5. \A j \in Job : d[j] \in Cs /\ View(d[j], j) \in Cs /\ Len(d[j]) \in Nat
                     /\ (Len(d[j]) = 0 <=> d[j] = <<>>)
  <2>1. \A c \in Cs : Len(c) \in Nat /\ (Len(c) = 0 <=> c = <<>>)
    BY DEF Cs
  <2> QED BY <1>4, <2>1, ViewUnmarked
<1>6. /\ table \in [Job -> Entries]
      /\ \A j \in Job : table[j].bytes = Len(d[j])
  BY <1>1, <1>5 DEF Scanned, Entries
<1>7. Typed
  <2>1. <<>> \in Seq(Items)
    OBVIOUS
  <2>2. /\ disk \in [Job -> Cs] /\ images \in [Job -> SUBSET Cs]
        /\ \A j \in Job : disk[j] \in images[j]
        /\ known \in [Job -> SUBSET Cs]
    BY <1>1, <1>4, <1>5
  <2> QED BY <1>3, <1>6, <2>1, <2>2, IdleTyped DEF Typed
<1>8. Found
  BY <1>1 DEF Found
<1>9. FallsBack
  BY <1>1, <1>5, <1>6 DEF FallsBack, View
<1>10. Retained
  BY <1>1, <1>5, <1>6 DEF Retained
<1>11. Prepared /\ Gapless
  BY <1>3, IdleTyped DEF Prepared, Gapless, Busy
<1> QED BY <1>7, <1>8, <1>9, <1>10, <1>11 DEF IInv

-----------------------------------------------------------------------------
(* Its steps.                                                              *)

\* A writer with no record to write has prepared nothing.
LEMMA Rests ==
  ASSUME Typed', ~Busy', \A j \in lost' \cap Job : table'[j].error
  PROVE  Prepared' /\ Gapless'
BY DEF Typed, Prepared, Gapless, Busy

\* A step that changes no file and no entry.
LEMMA Quiet ==
  ASSUME IInv, Typed', UNCHANGED <<disk, images, table, known, restated, lost>>,
         writer' = writer \/ ~Busy'
  PROVE  IInv'
<1>1. Found' /\ FallsBack' /\ Retained'
  BY DEF IInv, Found, FallsBack, Retained
<1>2. CASE writer' = writer
  <2>1. Prepared'
    BY <1>2 DEF IInv, Prepared, Busy, Written
  <2>2. Gapless'
    BY <1>2 DEF IInv, Gapless, Busy
  <2> QED BY <1>1, <2>1, <2>2 DEF IInv
<1>3. CASE ~Busy'
  <2>1. \A j \in lost' \cap Job : table'[j].error
    BY DEF IInv, Gapless
  <2> QED BY <1>1, <1>3, <2>1, Rests DEF IInv
<1> QED BY <1>2, <1>3

LEMMA PutHolds == ASSUME IInv, NEW j \in Job, NEW op \in Operation, Put(j, op) PROVE IInv'
<1>1. UNCHANGED <<disk, images, table, known, restated, lost, writer>> /\ puts' = puts + 1
      /\ (queue' = queue \/ queue' = Append(queue, [job |-> j, op |-> op, n |-> puts + 1]))
  BY DEF Put
<1>2. [job |-> j, op |-> op, n |-> puts + 1] \in Items
  BY DEF IInv, Typed, Items
<1>3. queue' \in Seq(Items) /\ puts' \in Nat
  BY <1>1, <1>2 DEF IInv, Typed
<1>4. Typed'
  BY <1>1, <1>3 DEF IInv, Typed
<1> QED BY <1>1, <1>4, Quiet

LEMMA SignalHolds == ASSUME IInv, Signal PROVE IInv'
<1>1. UNCHANGED <<disk, images, table, known, restated, lost, queue, puts>>
      /\ (writer' = writer \/ (writer.at = "asleep" /\ writer' = [writer EXCEPT !.at = "idle"]))
  BY DEF Signal
<1>2. writer' = writer \/ (writer'.at = "idle" /\ Typed')
  BY <1>1 DEF IInv, Typed
<1>3. Typed'
  BY <1>1, <1>2 DEF IInv, Typed
<1>4. writer' = writer \/ ~Busy'
  BY <1>2 DEF Busy
<1> QED BY <1>1, <1>3, <1>4, Quiet

LEMMA StopHolds == ASSUME IInv, Stop PROVE IInv'
<1>1. UNCHANGED <<disk, images, table, known, restated, lost, queue, puts, writer>>
  BY DEF Stop
<1>2. Typed'
  BY <1>1 DEF IInv, Typed
<1> QED BY <1>1, <1>2, Quiet

LEMMA WaitHolds == ASSUME IInv, Wait PROVE IInv'
<1>1. UNCHANGED <<disk, images, table, known, restated, lost, queue, puts>>
      /\ \E at \in {"gone", "asleep"} : writer' = [writer EXCEPT !.at = at]
  BY DEF Wait
<1>2. Typed' /\ writer'.at \in {"gone", "asleep"}
  BY <1>1 DEF IInv, Typed
<1> QED BY <1>1, <1>2, Quiet DEF Busy

\* An item fails that changed no file.
LEMMA FailsHolds ==
  ASSUME IInv, writer.at = "idle" \/ writer.at = "room", NEW j \in Job, Fails(j),
         UNCHANGED <<disk, images, restated, puts>>, queue' \in Seq(Items)
  PROVE  IInv'
<1>1. /\ writer' = Idle /\ table' = [table EXCEPT ![j].error = @ \/ table[j].there]
      /\ lost' = (IF table[j].there THEN lost \cup {j} ELSE lost) /\ known' = known
  BY DEF Fails, Finished
<1>2. table \in [Job -> Entries]
  BY DEF IInv, Typed
<1>3. /\ table' \in [Job -> Entries]
      /\ \A k \in Job : /\ table'[k].bytes = table[k].bytes /\ table'[k].legacy = table[k].legacy
                        /\ table'[k].error = (table[k].error \/ (k = j /\ table[j].there))
  BY <1>1, <1>2 DEF Entries
<1>4. Typed'
  BY <1>1, <1>3, IdleTyped DEF IInv, Typed
<1>5. Found' /\ FallsBack' /\ Retained'
  BY <1>1, <1>3 DEF IInv, Found, FallsBack, Retained
<1>6. \A k \in lost' \cap Job : table'[k].error
  BY <1>1, <1>3 DEF IInv, Gapless
<1>7. ~Busy'
  BY <1>1, IdleTyped DEF Busy
<1> QED BY <1>4, <1>5, <1>6, <1>7, Rests DEF IInv

\* What the writer prepares for a record of a job whose file it can read.
LEMMA Prepares ==
  ASSUME IInv, NEW j \in Job, NEW r \in Record, r.kind # "LEGACY",
         ~(r.kind # "STATE" /\ table[j].bytes > 0 /\ disk[j] = <<>>)
  PROVE  /\ New(j, r) \in Cs /\ New(j, r) # <<>>
         /\ View(New(j, r), j) # <<>> /\ Last(View(New(j, r), j)) = r
         /\ j \notin restated =>
              \E v \in known[j] : View(New(j, r), j) = Append(Without(v, Stale(r.kind)), r)
<1> DEFINE base == Base(j, r.kind)
           K == Stale(r.kind)
           mark == IF Marked(j, r.kind) /\ "LEGACY" \notin Kinds(base)
                   THEN <<[kind |-> "LEGACY", n |-> 0]>> ELSE <<>>
           joined == Joined(Without(base, {"LEGACY"}), K, r)
<1>1. disk[j] \in Cs /\ Old(j) \in Cs /\ table[j].bytes \in Nat
  BY OldUnmarked DEF IInv, Typed, Entries
<1>2. base \in Cs
  BY <1>1 DEF Base, Cs
<1>3. New(j, r) = Headed(mark, base, K, r)
  BY DEF New, Headed, Joined
<1>4. mark \in Heads
  BY DEF Heads
<1> HIDE DEF mark, K, base
<1>5. /\ New(j, r) \in Cs /\ New(j, r) # <<>> /\ View(New(j, r), j) = joined
      /\ View(New(j, r), j) # <<>> /\ Last(View(New(j, r), j)) = r
  <2>1. r \in Real
    BY DEF Real
  <2> QED BY <1>2, <1>3, <1>4, <2>1, ViewOfNew
<1>6. ASSUME j \notin restated PROVE \E v \in known[j] : joined = Joined(v, K, r)
  <2>1. disk[j] \in images[j] /\ View(disk[j], j) \in known[j]
    BY <1>6 DEF IInv, Typed, Found
  <2>2. CASE r.kind = "STATE"
    <3>1. base = <<>> /\ K = Kind \ {"LEGACY"}
      BY <2>2 DEF base, K, Base, Stale, Terminal
    <3>2. Without(Without(base, {"LEGACY"}), K) = <<>>
      BY <3>1, WithoutLast
    <3>3. Without(View(disk[j], j), K) = <<>>
      BY <1>1, <3>1, ViewUnmarked
    <3> QED BY <2>1, <3>2, <3>3 DEF Joined
  <2>3. CASE r.kind # "STATE" /\ table[j].bytes > 0
    <3>1. base = disk[j] /\ disk[j] # <<>>
      BY <2>3 DEF base, Base
    <3>2. Without(base, {"LEGACY"}) = View(disk[j], j)
      BY <3>1 DEF View
    <3> QED BY <2>1, <3>2 DEF Joined
  <2>4. CASE r.kind # "STATE" /\ ~(table[j].bytes > 0)
    <3>1. base = Old(j) /\ table[j].bytes = 0
      BY <1>1, <2>4 DEF base, Base
    <3>2. Without(base, {"LEGACY"}) = Old(j) /\ Old(j) \in known[j]
      BY <1>6, <3>1, OldUnmarked DEF IInv, FallsBack
    <3> QED BY <3>2 DEF Joined
  <2> QED BY <2>2, <2>3, <2>4
<1> QED BY <1>5, <1>6 DEF K, Joined

LEMMA TakeHolds == ASSUME IInv, Take PROVE IInv'
<1> DEFINE i == Head(queue)
           r == [kind |-> i.op, n |-> i.n]
           unread == i.op # "STATE" /\ table[i.job].bytes > 0 /\ disk[i.job] = <<>>
<1>1. /\ writer.at = "idle" /\ queue # <<>> /\ queue' = Tail(queue)
      /\ UNCHANGED <<disk, images, puts, restated>>
  BY DEF Take
<1>2. queue' \in Seq(Items) /\ i \in Items
  BY <1>1 DEF IInv, Typed
<1>3. i.job \in Job /\ i.op \in Operation /\ i.n \in Nat
  BY <1>2 DEF Items
<1> HIDE DEF i
<1>4. \/ writer' = Idle /\ UNCHANGED <<table, known, lost>>
      \/ /\ i.op \in {"THOUGHT", "FINISH"} /\ UNCHANGED <<table, known, lost>>
         /\ writer' = [at |-> "room", job |-> i.job, op |-> i.op, n |-> i.n, new |-> <<>>]
      \/ Fails(i.job)
      \/ /\ i.op \notin {"LOAD", "THOUGHT", "FINISH"} /\ ~Lost(i.job, i.op) /\ ~unread
         /\ writer' = [at |-> "room", job |-> i.job, op |-> i.op, n |-> i.n, new |-> New(i.job, r)]
         /\ UNCHANGED <<table, known, lost>>
  <2>1. CASE i.op = "LOAD"
    BY <2>1 DEF Take, Finished, i
  <2>2. CASE i.op \in {"THOUGHT", "FINISH"}
    BY <2>2 DEF Take, i
  <2>3. CASE i.op \notin {"LOAD", "THOUGHT", "FINISH"}
    BY <2>3 DEF Take, Finished, i
  <2> QED BY <2>1, <2>2, <2>3
<1>5. CASE writer' = Idle /\ UNCHANGED <<table, known, lost>>
  <2>1. Typed' /\ ~Busy'
    BY <1>1, <1>2, <1>5, IdleTyped DEF IInv, Typed, Busy
  <2> QED BY <1>1, <1>5, <2>1, Quiet
<1>6. CASE /\ i.op \in {"THOUGHT", "FINISH"} /\ UNCHANGED <<table, known, lost>>
           /\ writer' = [at |-> "room", job |-> i.job, op |-> i.op, n |-> i.n, new |-> <<>>]
  <2>1. writer'.op \notin Kind /\ <<>> \in Cs
    BY <1>6 DEF Kind, Terminal, Cs
  <2>2. Typed' /\ ~Busy'
    BY <1>1, <1>2, <1>3, <1>6, <2>1 DEF IInv, Typed, Busy
  <2> QED BY <1>1, <1>6, <2>2, Quiet
<1>7. CASE Fails(i.job)
  BY <1>1, <1>2, <1>3, <1>7, FailsHolds
<1>8. CASE /\ i.op \notin {"LOAD", "THOUGHT", "FINISH"} /\ ~Lost(i.job, i.op) /\ ~unread
           /\ writer' = [at |-> "room", job |-> i.job, op |-> i.op, n |-> i.n,
                         new |-> New(i.job, r)]
           /\ UNCHANGED <<table, known, lost>>
  <2>1. i.op \in Kind /\ i.op # "LEGACY" /\ r \in Record /\ r.kind = i.op
    BY <1>3, <1>8 DEF Operation, Record, Kind, Terminal
  <2>2. /\ New(i.job, r) \in Cs /\ New(i.job, r) # <<>>
        /\ View(New(i.job, r), i.job) # <<>> /\ Last(View(New(i.job, r), i.job)) = r
        /\ i.job \notin restated =>
             \E v \in known[i.job] : View(New(i.job, r), i.job) = Append(Without(v, Stale(i.op)), r)
    <3> HIDE DEF r
    <3> QED BY <1>3, <1>8, <2>1, Prepares
  <2>3. /\ writer'.at = "room" /\ writer'.job = i.job /\ writer'.op = i.op
        /\ writer'.n = i.n /\ writer'.new = New(i.job, r) /\ Written' = r
    BY <1>8 DEF Written
  <2>4. Typed'
    BY <1>1, <1>2, <1>3, <1>8, <2>2 DEF IInv, Typed
  <2>5. Found' /\ FallsBack' /\ Retained'
    BY <1>1, <1>8 DEF IInv, Found, FallsBack, Retained
  <2> HIDE DEF r
  <2>6. Prepared'
    BY <1>1, <1>8, <2>2, <2>3 DEF Prepared, Busy
  <2>7. Gapless'
    BY <1>1, <1>3, <1>8, <2>3 DEF IInv, Gapless, Busy, Lost
  <2> QED BY <2>4, <2>5, <2>6, <2>7 DEF IInv
<1> QED BY <1>4, <1>5, <1>6, <1>7, <1>8

LEMMA FullHolds == ASSUME IInv, Full PROVE IInv'
<1>1. writer.at = "room" /\ Fails(writer.job) /\ UNCHANGED <<disk, images, restated, puts, queue>>
  BY DEF Full
<1>2. writer.job \in Job /\ queue' \in Seq(Items)
  BY <1>1 DEF IInv, Typed
<1> QED BY <1>1, <1>2, FailsHolds

\* A job that expires is not of the legacy WAL, or that has its records no
\* more: nothing is found of it then, or what the WAL has.
LEMMA ExpireHolds == ASSUME IInv, NEW v \in Job, Expire(v) PROVE IInv'
<1>1. /\ writer.at = "room" /\ v # writer.job /\ ~table[v].legacy
      /\ UNCHANGED <<queue, puts, restated>>
  BY DEF Expire, Oldest, Expires
<1>2. CASE Fails(writer.job) /\ UNCHANGED <<disk, images>>
  <2>1. writer.job \in Job /\ queue' \in Seq(Items)
    BY <1>1 DEF IInv, Typed
  <2> QED BY <1>1, <1>2, <2>1, FailsHolds
<1>3. CASE /\ table' = [table EXCEPT ![v] = NoJob] /\ lost' = lost \ {v} /\ UNCHANGED writer
           /\ IF table[v].bytes > 0
              THEN /\ disk' = [disk EXCEPT ![v] = <<>>] /\ images' = [j \in Job |-> {disk'[j]}]
                   /\ known' = [known EXCEPT ![v] = {<<>>}]
              ELSE UNCHANGED <<disk, images, known>>
  <2>1. /\ disk \in [Job -> Cs] /\ images \in [Job -> SUBSET Cs] /\ known \in [Job -> SUBSET Cs]
        /\ table \in [Job -> Entries] /\ \A j \in Job : disk[j] \in images[j]
        /\ <<>> \in Cs /\ NoJob \in Entries /\ NoJob.bytes = 0
    BY DEF IInv, Typed, Cs, Entries, NoJob
  <2>2. /\ table' \in [Job -> Entries] /\ table'[v].bytes = 0
        /\ \A j \in Job \ {v} : table'[j] = table[j] /\ disk'[j] = disk[j] /\ known'[j] = known[j]
                                /\ images'[j] \subseteq images[j]
    BY <1>3, <2>1
  <2>3. /\ disk' \in [Job -> Cs] /\ images' \in [Job -> SUBSET Cs] /\ known' \in [Job -> SUBSET Cs]
        /\ \A j \in Job : disk'[j] \in images'[j]
    BY <1>3, <2>1
  <2>4. v \notin restated => /\ Old(v) \in known'[v]
                             /\ \A c \in images'[v] : View(c, v) \in known'[v]
                             /\ v \in Wal => \A c \in images'[v] : c \in images[v]
    <3>1. CASE table[v].bytes > 0
      <4>1. v \notin restated => v \notin Wal
        BY <1>1, <3>1 DEF IInv, Retained
      <4>2. images'[v] = {<<>>} /\ known'[v] = {<<>>}
        BY <1>3, <2>1, <3>1
      <4>3. v \notin restated => Old(v) = <<>> /\ View(<<>>, v) = <<>>
        BY <4>1 DEF Old, View
      <4> QED BY <4>1, <4>2, <4>3
    <3>2. CASE ~(table[v].bytes > 0)
      <4>1. table[v].bytes = 0 /\ UNCHANGED <<disk, images, known>>
        BY <1>3, <2>1, <3>2 DEF Entries
      <4> QED BY <4>1 DEF IInv, FallsBack, Found
    <3> QED BY <3>1, <3>2
  <2>5. Typed'
    BY <1>1, <1>3, <2>2, <2>3 DEF IInv, Typed
  <2>6. Found'
    BY <1>1, <2>2, <2>4 DEF IInv, Found
  <2>7. FallsBack'
    BY <1>1, <2>2, <2>4 DEF IInv, FallsBack
  <2>8. Retained'
    BY <1>1, <2>2, <2>4 DEF IInv, Retained
  <2>9. Prepared'
    <3>1. known'[writer.job] = known[writer.job] /\ writer.job \in Job
      BY <1>1, <2>2 DEF IInv, Typed
    <3> QED BY <1>1, <1>3, <3>1 DEF IInv, Prepared, Busy, Written
  <2>10. Gapless'
    BY <1>3, <2>2 DEF IInv, Gapless, Busy
  <2> QED BY <2>5, <2>6, <2>7, <2>8, <2>9, <2>10 DEF IInv
<1> QED BY <1>2, <1>3 DEF Expire

LEMMA WriteHolds == ASSUME IInv, Write PROVE IInv'
<1> DEFINE j == writer.job
           r == [kind |-> writer.op, n |-> writer.n]
<1>1. writer.at = "room" /\ UNCHANGED <<queue, disk, images, puts, lost>>
  BY DEF Write
<1>2. j \in Job /\ table \in [Job -> Entries] /\ known \in [Job -> SUBSET Cs]
  BY <1>1 DEF IInv, Typed
<1>3. CASE writer.op \in {"THOUGHT", "FINISH"}
  <2> DEFINE x == table[j].terminal /\ table[j].bytes > 0
             y == table[j].terminal \/ (table[j].there /\ table[j].bytes = 0)
  <2>1. /\ writer' = Idle /\ UNCHANGED <<known, restated>>
        /\ \/ table' = [table EXCEPT ![j].there = TRUE, ![j].terminal = x]
           \/ table' = [table EXCEPT ![j].terminal = y]
    <3>1. CASE writer.op = "THOUGHT"
      BY <1>1, <3>1 DEF Write, Finished
    <3>2. CASE writer.op = "FINISH"
      BY <1>1, <3>2 DEF Write, Finished
    <3> QED BY <1>3, <3>1, <3>2
  <2>2. /\ table' \in [Job -> Entries]
        /\ \A k \in Job : /\ table'[k].bytes = table[k].bytes /\ table'[k].legacy = table[k].legacy
                          /\ table'[k].error = table[k].error
    <3>1. x \in BOOLEAN /\ y \in BOOLEAN
      <4>1. table[j].terminal \in BOOLEAN /\ table[j].there \in BOOLEAN
        BY <1>2 DEF Entries
      <4> QED BY <4>1, Zenon
    <3> HIDE DEF x, y
    <3>2. ASSUME NEW e \in Entries, table' = [table EXCEPT ![j] = e],
                 e.bytes = table[j].bytes, e.legacy = table[j].legacy, e.error = table[j].error
          PROVE  /\ table' \in [Job -> Entries]
                 /\ \A k \in Job : /\ table'[k].bytes = table[k].bytes
                                   /\ table'[k].legacy = table[k].legacy
                                   /\ table'[k].error = table[k].error
      BY <1>2, <3>2
    <3>3. CASE table' = [table EXCEPT ![j].there = TRUE, ![j].terminal = x]
      <4> DEFINE e == [table[j] EXCEPT !.there = TRUE, !.terminal = x]
      <4>1. /\ e \in Entries /\ e.bytes = table[j].bytes /\ e.legacy = table[j].legacy
            /\ e.error = table[j].error
        BY <1>2, <3>1 DEF Entries
      <4>2. table' = [table EXCEPT ![j] = e]
        BY <1>2, <3>3
      <4> HIDE DEF e
      <4> QED BY <3>2, <4>1, <4>2
    <3>4. CASE table' = [table EXCEPT ![j].terminal = y]
      <4> DEFINE e == [table[j] EXCEPT !.terminal = y]
      <4>1. /\ e \in Entries /\ e.bytes = table[j].bytes /\ e.legacy = table[j].legacy
            /\ e.error = table[j].error
        BY <1>2, <3>1 DEF Entries
      <4>2. table' = [table EXCEPT ![j] = e]
        BY <3>4
      <4> HIDE DEF e
      <4> QED BY <3>2, <4>1, <4>2
    <3> QED BY <2>1, <3>3, <3>4
  <2>3. Typed' /\ ~Busy'
    BY <1>1, <2>1, <2>2, IdleTyped DEF IInv, Typed, Busy
  <2>4. Found' /\ FallsBack' /\ Retained'
    BY <1>1, <2>1, <2>2 DEF IInv, Found, FallsBack, Retained
  <2>5. \A k \in lost' \cap Job : table'[k].error
    BY <1>1, <2>2 DEF IInv, Gapless
  <2> QED BY <2>3, <2>4, <2>5, Rests DEF IInv
<1>4. CASE writer.op \notin {"THOUGHT", "FINISH"}
  <2>1. /\ writer' = [writer EXCEPT !.at = "rename"] /\ table' = table
        /\ known' = [known EXCEPT ![j] = @ \cup {Append(Without(v, Stale(r.kind)), r) : v \in @}]
        /\ restated' = IF j \in Wal /\ "LEGACY" \notin Kinds(writer.new)
                       THEN restated \cup {j} ELSE restated
    BY <1>4 DEF Write
  <2>2. /\ writer'.at = "rename" /\ writer'.job = j /\ writer'.op = writer.op
        /\ writer'.n = writer.n /\ writer'.new = writer.new /\ Written' = Written
        /\ Written = r
    BY <2>1 DEF IInv, Typed, Written
  <2>3. writer.op \in Kind /\ r \in Record
    BY <1>1, <1>2, <1>4 DEF IInv, Typed, Operation, Kind, Terminal, Record
  <2>4. Busy /\ Busy'
    BY <1>1, <2>2, <2>3 DEF Busy
  <2>5. \A v \in Cs : Append(Without(v, Stale(r.kind)), r) \in Cs
    BY <2>3, OneMore, WithoutLast
  <2>6. known' \in [Job -> SUBSET Cs] /\ \A k \in Job : known[k] \subseteq known'[k]
    BY <1>2, <2>1, <2>5
  <2>7. \A v \in known[j] : Append(Without(v, Stale(r.kind)), r) \in known'[j]
    BY <1>2, <2>1
  <2>8. Typed'
    BY <1>1, <2>1, <2>2, <2>3, <2>6 DEF IInv, Typed
  <2>9. \A k \in Job : k \notin restated' => k \notin restated
    BY <2>1
  <2>10. Found' /\ FallsBack' /\ Retained'
    BY <1>1, <2>1, <2>6, <2>9 DEF IInv, Found, FallsBack, Retained
  <2>11. Prepared'
    <3>1. /\ writer.new # <<>> /\ View(writer.new, j) # <<>> /\ Last(View(writer.new, j)) = r
          /\ j \notin restated => \E v \in known[j] :
                                    View(writer.new, j) = Append(Without(v, Stale(writer.op)), r)
      BY <1>1, <2>2, <2>4 DEF IInv, Prepared
    <3>2. j \notin restated' /\ j \in Wal => "LEGACY" \in Kinds(writer.new)
      BY <2>1
    <3>3. j \notin restated' => View(writer.new, j) \in known'[j]
      BY <1>2, <2>7, <2>9, <3>1
    <3> QED BY <2>2, <2>4, <3>1, <3>2, <3>3 DEF Prepared
  <2>12. Gapless'
    BY <1>1, <2>1, <2>2, <2>4 DEF IInv, Gapless
  <2> QED BY <2>8, <2>10, <2>11, <2>12 DEF IInv
<1> QED BY <1>3, <1>4

LEMMA RenameHolds == ASSUME IInv, Rename PROVE IInv'
<1> DEFINE j == writer.job
           new == writer.new
<1>1. /\ writer.at = "rename" /\ disk' = [disk EXCEPT ![j] = new]
      /\ images' = [images EXCEPT ![j] = @ \cup {new}] /\ writer' = [writer EXCEPT !.at = "sync"]
      /\ UNCHANGED <<queue, table, puts, known, restated, lost>>
  BY DEF Rename
<1>2. /\ j \in Job /\ new \in Cs /\ writer.op \in Kind
      /\ disk \in [Job -> Cs] /\ images \in [Job -> SUBSET Cs]
      /\ \A k \in Job : disk[k] \in images[k]
  BY <1>1 DEF IInv, Typed
<1>3. /\ writer'.at = "sync" /\ writer'.job = j /\ writer'.op = writer.op
      /\ writer'.n = writer.n /\ writer'.new = new /\ Written' = Written
  BY <1>1 DEF IInv, Typed, Written
<1>4. /\ disk' \in [Job -> Cs] /\ images' \in [Job -> SUBSET Cs]
      /\ \A k \in Job : disk'[k] \in images'[k]
      /\ disk'[j] = new /\ images'[j] = images[j] \cup {new}
      /\ \A k \in Job \ {j} : images'[k] = images[k]
  BY <1>1, <1>2
<1>5. Typed'
  BY <1>1, <1>2, <1>3, <1>4 DEF IInv, Typed
<1>6. j \notin restated => View(new, j) \in known[j] /\ (j \in Wal => "LEGACY" \in Kinds(new))
  BY <1>1 DEF IInv, Prepared
<1>7. Found'
  BY <1>1, <1>4, <1>6 DEF IInv, Found
<1>8. FallsBack' /\ Retained'
  BY <1>1, <1>4, <1>6 DEF IInv, FallsBack, Retained
<1>9. Prepared' /\ Gapless'
  BY <1>1, <1>2, <1>3, <1>4, <1>6 DEF IInv, Prepared, Gapless, Busy
<1> QED BY <1>5, <1>7, <1>8, <1>9 DEF IInv

LEMMA SyncHolds == ASSUME IInv, Sync PROVE IInv'
<1> DEFINE j == writer.job
           new == writer.new
           e == [there |-> TRUE, bytes |-> Len(new), terminal |-> Kinds(new) \cap Terminal # {},
                 legacy |-> "LEGACY" \in Kinds(new), error |-> FALSE]
<1>1. /\ writer.at = "sync" /\ writer' = Idle /\ UNCHANGED <<queue, disk, puts, restated>>
      /\ images' = [k \in Job |-> {disk[k]}] /\ table' = [table EXCEPT ![j] = e]
      /\ known' = [known EXCEPT ![j] = {v \in @ : v # <<>> /\ Last(v) = Written}]
      /\ lost' = IF writer.op \in Terminal \cup {"STATE"} THEN lost \ {j} ELSE lost
  BY DEF Sync, Durable, Finished, Written
<1>2. /\ j \in Job /\ new \in Cs /\ writer.op \in Kind /\ Busy
      /\ disk \in [Job -> Cs] /\ images \in [Job -> SUBSET Cs] /\ table \in [Job -> Entries]
      /\ known \in [Job -> SUBSET Cs] /\ \A k \in Job : disk[k] \in images[k]
  BY <1>1 DEF IInv, Typed, Busy
<1>3. /\ new # <<>> /\ View(new, j) # <<>> /\ Last(View(new, j)) = Written /\ disk[j] = new
      /\ j \notin restated => View(new, j) \in known[j] /\ (j \in Wal => "LEGACY" \in Kinds(new))
  BY <1>1, <1>2 DEF IInv, Prepared
<1>4. Len(new) \in Nat /\ Len(new) > 0
  BY <1>2, <1>3 DEF Cs
<1>5. e \in Entries /\ e.bytes = Len(new) /\ e.error = FALSE /\ e.legacy = ("LEGACY" \in Kinds(new))
  BY <1>4 DEF Entries
<1> HIDE DEF e
<1>6. /\ table' \in [Job -> Entries] /\ table'[j] = e /\ \A k \in Job \ {j} : table'[k] = table[k]
      /\ known' \in [Job -> SUBSET Cs] /\ \A k \in Job \ {j} : known'[k] = known[k]
      /\ images' \in [Job -> SUBSET Cs] /\ \A k \in Job : images'[k] = {disk[k]}
      /\ \A k \in Job : disk[k] \in images'[k] /\ images'[k] \subseteq images[k]
  BY <1>1, <1>2, <1>5
<1>7. j \notin restated => View(new, j) \in known'[j]
  BY <1>1, <1>2, <1>3
<1>8. Typed' /\ ~Busy'
  BY <1>1, <1>2, <1>6, IdleTyped DEF IInv, Typed, Busy
<1>9. Found'
  BY <1>1, <1>3, <1>6, <1>7 DEF IInv, Found
<1>10. FallsBack'
  BY <1>1, <1>4, <1>5, <1>6 DEF IInv, FallsBack
<1>11. Retained'
  BY <1>1, <1>3, <1>5, <1>6 DEF IInv, Retained
<1>12. \A k \in lost' \cap Job : table'[k].error
  <2>1. j \notin lost'
    BY <1>1, <1>2 DEF IInv, Gapless
  <2> QED BY <1>1, <1>6, <2>1 DEF IInv, Gapless
<1> QED BY <1>8, <1>9, <1>10, <1>11, <1>12, Rests DEF IInv

LEMMA FaultHolds == ASSUME IInv, Fault PROVE IInv'
<1> DEFINE j == writer.job
<1>1. /\ writer.at \in {"room", "rename", "sync"} /\ writer' = Idle
      /\ UNCHANGED <<queue, puts, restated>>
      /\ table' = [table EXCEPT ![j].error = @ \/ table[j].there]
      /\ lost' = (IF table[j].there THEN lost \cup {j} ELSE lost)
      /\ known' = [k \in Job |-> IF disk'[k] = disk[k] THEN known[k] ELSE known[k] \cup {<<>>}]
  BY DEF Fault, Finished
<1>2. /\ j \in Job
      /\ disk \in [Job -> Cs] /\ images \in [Job -> SUBSET Cs] /\ table \in [Job -> Entries]
      /\ known \in [Job -> SUBSET Cs] /\ \A k \in Job : disk[k] \in images[k] /\ <<>> \in Cs
  BY <1>1 DEF IInv, Typed, Cs
<1>3. \/ UNCHANGED <<disk, images>>
      \/ \E v \in Job : /\ ~table[v].legacy /\ table[v].bytes > 0
                        /\ disk' = [disk EXCEPT ![v] = <<>>]
                        /\ images' = [images EXCEPT ![v] = @ \cup {<<>>}]
  BY DEF Fault, Oldest, Expires
<1>4. /\ table' \in [Job -> Entries]
      /\ \A k \in Job : /\ table'[k].bytes = table[k].bytes /\ table'[k].legacy = table[k].legacy
                        /\ table'[k].error = (table[k].error \/ (k = j /\ table[j].there))
  <2> HIDE DEF j
  <2> QED BY <1>1, <1>2 DEF Entries
<1>5. known' \in [Job -> SUBSET Cs] /\ \A k \in Job : known[k] \subseteq known'[k]
  BY <1>1, <1>2
<1> DEFINE Left == /\ disk' \in [Job -> Cs] /\ images' \in [Job -> SUBSET Cs]
                   /\ \A k \in Job : disk'[k] \in images'[k]
                   /\ \A k \in Job : \/ images'[k] = images[k]
                                     \/ /\ images'[k] = images[k] \cup {<<>>} /\ <<>> \in known'[k]
                                        /\ k \in restated \/ k \notin Wal
<1>6. Left
  <2>1. CASE UNCHANGED <<disk, images>>
    BY <1>2, <2>1
  <2>2. ASSUME NEW v \in Job, ~table[v].legacy, table[v].bytes > 0,
               disk' = [disk EXCEPT ![v] = <<>>],
               images' = [images EXCEPT ![v] = @ \cup {<<>>}]
        PROVE  Left
    <3>1. /\ disk' \in [Job -> Cs] /\ images' \in [Job -> SUBSET Cs]
          /\ \A k \in Job : disk'[k] \in images'[k]
          /\ disk'[v] = <<>> /\ images'[v] = images[v] \cup {<<>>}
          /\ \A k \in Job \ {v} : images'[k] = images[k]
      BY <1>2, <2>2
    <3>2. v \in restated \/ v \notin Wal
      BY <2>2 DEF IInv, Retained
    <3>3. disk[v] = <<>> => images'[v] = images[v]
      BY <1>2, <3>1
    <3>4. disk[v] # <<>> => <<>> \in known'[v]
      BY <1>1, <3>1
    <3> QED BY <3>1, <3>2, <3>3, <3>4
  <2> QED BY <1>3, <2>1, <2>2
<1>7. Typed' /\ ~Busy'
  BY <1>1, <1>4, <1>5, <1>6, IdleTyped DEF IInv, Typed, Busy
<1>8. Found'
  <2>1. \A k \in Job \ restated : <<>> \in known'[k] /\ k \notin Wal => View(<<>>, k) \in known'[k]
    BY DEF View, Old
  <2> QED BY <1>1, <1>5, <1>6, <2>1 DEF IInv, Found
<1>9. FallsBack'
  BY <1>1, <1>4, <1>5 DEF IInv, FallsBack
<1>10. Retained'
  BY <1>1, <1>4, <1>6 DEF IInv, Retained
<1>11. \A k \in lost' \cap Job : table'[k].error
  BY <1>1, <1>4 DEF IInv, Gapless
<1> QED BY <1>7, <1>8, <1>9, <1>10, <1>11, Rests DEF IInv

LEMMA CrashHolds == ASSUME IInv, Crash PROVE IInv'
<1>1. PICK d \in [Job -> UNION {images[j] : j \in Job}] :
        /\ \A j \in Job : d[j] \in images[j]
        /\ disk' = d /\ images' = Durable(d) /\ table' = Scanned(d)
  BY DEF Crash
<1>2. /\ queue' = <<>> /\ writer' = Idle /\ lost' = {} /\ UNCHANGED <<puts, known, restated>>
  BY DEF Crash
<1>3. images \in [Job -> SUBSET Cs]
  BY DEF IInv, Typed
<1>4. \A j \in Job : d[j] \in Cs /\ Len(d[j]) \in Nat /\ (Len(d[j]) = 0 <=> d[j] = <<>>)
  <2>1. \A c \in Cs : Len(c) \in Nat /\ (Len(c) = 0 <=> c = <<>>)
    BY DEF Cs
  <2> QED BY <1>1, <1>3, <2>1
<1>5. disk' \in [Job -> Cs] /\ images' \in [Job -> SUBSET Cs]
      /\ \A j \in Job : disk'[j] = d[j] /\ images'[j] = {d[j]}
  BY <1>1, <1>4 DEF Durable
<1>6. /\ table' \in [Job -> Entries]
      /\ \A j \in Job : table'[j].bytes = Len(d[j]) /\ table'[j].legacy = ("LEGACY" \in Kinds(d[j]))
  BY <1>1, <1>4 DEF Scanned, Entries
<1>7. Typed' /\ ~Busy'
  BY <1>2, <1>5, <1>6, IdleTyped DEF IInv, Typed, Busy
<1>8. Found'
  BY <1>1, <1>2, <1>5 DEF IInv, Found
<1>9. FallsBack'
  <2>1. \A j \in Job \ restated : d[j] = <<>> => Old(j) \in known[j]
    BY <1>1 DEF IInv, Found, View
  <2> QED BY <1>2, <1>4, <1>6, <2>1 DEF FallsBack
<1>10. Retained'
  <2>1. \A j \in (Job \cap Wal) \ restated : d[j] = <<>> \/ "LEGACY" \in Kinds(d[j])
    BY <1>1 DEF IInv, Retained
  <2>2. ASSUME NEW j \in (Job \cap Wal) \ restated, table'[j].bytes > 0 PROVE table'[j].legacy
    <3>1. d[j] # <<>>
      BY <1>4, <1>6, <2>2
    <3>2. "LEGACY" \in Kinds(d[j]) /\ table'[j].legacy = ("LEGACY" \in Kinds(d[j]))
      BY <1>6, <2>1, <3>1
    <3> QED BY <3>2, Zenon
  <2>3. \A j \in (Job \cap Wal) \ restated :
          \A c \in images'[j] : c = <<>> \/ "LEGACY" \in Kinds(c)
    BY <1>5, <2>1
  <2> QED BY <1>2, <2>2, <2>3 DEF Retained
<1>11. \A k \in lost' \cap Job : table'[k].error
  BY <1>2
<1> QED BY <1>7, <1>8, <1>9, <1>10, <1>11, Rests DEF IInv

LEMMA NextHolds == ASSUME IInv, [Next]_vars PROVE IInv'
<1>1. ASSUME NEW j \in Job, NEW op \in Operation, Put(j, op) PROVE IInv'
  BY <1>1, PutHolds
<1>2. CASE Signal
  BY <1>2, SignalHolds
<1>3. CASE Stop
  BY <1>3, StopHolds
<1>4. CASE WriterStep
  <2>1. CASE Take
    BY <2>1, TakeHolds
  <2>2. CASE Wait
    BY <2>2, WaitHolds
  <2>3. CASE Full
    BY <2>3, FullHolds
  <2>4. ASSUME NEW v \in Job, Expire(v) PROVE IInv'
    BY <2>4, ExpireHolds
  <2>5. CASE Write
    BY <2>5, WriteHolds
  <2>6. CASE Rename
    BY <2>6, RenameHolds
  <2>7. CASE Sync
    BY <2>7, SyncHolds
  <2> QED BY <1>4, <2>1, <2>2, <2>3, <2>4, <2>5, <2>6, <2>7 DEF WriterStep, Evict
<1>5. CASE Fault
  BY <1>5, FaultHolds
<1>6. CASE Crash
  BY <1>6, CrashHolds
<1>7. CASE UNCHANGED vars
  <2>1. UNCHANGED <<disk, images, table, known, restated, lost, queue, puts, writer>>
    BY <1>7 DEF vars
  <2>2. Typed'
    BY <2>1 DEF IInv, Typed
  <2> QED BY <2>1, <2>2, Quiet
<1> QED BY <1>1, <1>2, <1>3, <1>4, <1>5, <1>6, <1>7 DEF Next

LEMMA HoldsRecovers == IInv => Recovers
<1>1. IInv => NoGap
  BY DEF IInv, Typed, Gapless, Busy, NoGap
<1> QED BY <1>1 DEF IInv, Recovers

\* What the journal acknowledged is found after a crash at any point, whatever
\* was queued, failed, expired or was lost before it, and nothing that was not
\* put is found; and no record joins those of a job that has lost one
\* (journal_checkpoint_write(), journal_checkpoint_space()).
THEOREM AcknowledgedIsFound == Spec => []Recovers
<1>1. Init => IInv
  BY InitHolds
<1>2. IInv /\ [Next]_vars => IInv'
  BY NextHolds
<1> QED BY <1>1, <1>2, HoldsRecovers, PTL DEF Spec
=============================================================================
