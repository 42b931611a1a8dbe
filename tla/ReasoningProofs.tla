-------------------------- MODULE ReasoningProofs --------------------------
(***************************************************************************)
(* What is committed of the reasoning is what the provider sent, for any   *)
(* turns, texts and numbers of attempts, unless the turn is torn.          *)
(***************************************************************************)
EXTENDS Reasoning, Integers, TLAPS

RSpec == RInit /\ [][RNext]_rvars

-----------------------------------------------------------------------------
(* The inductive invariant.                                                *)

Files == [open : BOOLEAN, size : Nat, committed : Nat]

Entries == [turn : Turn \cup {None}, seen : Nat, error : BOOLEAN]

Typed ==
  /\ file \in [Turn -> Seq(Piece)] /\ said \in [Turn -> Seq(Piece)] /\ git \in [Turn -> Seq(Piece)]
  /\ safe \in [Turn -> Nat] /\ cache \in [Turn -> Files] /\ tries \in [Turn -> Nat]
  /\ job \in Entries /\ torn \subseteq Turn
  /\ turn \in Turn \cup {None} /\ final \in BOOLEAN

\* What is synchronized is in the file, and is so before a commit of it.
Synchronized == \A t \in Turn : safe[t] <= Len(file[t]) /\ (safe[t] = 0 => git[t] = <<>>)

\* An open file is as long as its size, or longer if the turn is torn; else
\* it is known what is committed of it.
Sizes ==
  \A t \in Turn : cache[t].open =>
    /\ cache[t].size <= Len(file[t])
    /\ t \notin torn =>
         /\ cache[t].size = Len(file[t]) /\ cache[t].committed <= cache[t].size
         /\ cache[t].size > 0 /\ cache[t].committed = cache[t].size => git[t] = file[t]

\* Unless the attempt failed, what it sent is in the file so far, and is what
\* the job has seen.
Replayed ==
  turn # None =>
    /\ job.turn \in {turn, None}
    /\ job.turn = None => said[turn] = <<>>
    /\ job.turn = turn /\ ~job.error /\ turn \notin torn =>
         /\ job.seen = Len(said[turn]) /\ job.seen <= Len(file[turn])
         /\ \A i \in 1 .. job.seen : file[turn][i] = said[turn][i]

Ended == turn # None /\ final /\ turn \notin torn => git[turn] = said[turn]

RInv == Typed /\ Synchronized /\ Sizes /\ Replayed /\ Ended

-----------------------------------------------------------------------------
(* Its first state and its steps.                                          *)

LEMMA EntryFrom ==
  ASSUME NEW t \in Turn \cup {None}, NEW e, e = [turn |-> t, seen |-> 0, error |-> FALSE]
  PROVE  e \in Entries /\ e.turn = t /\ e.seen = 0 /\ ~e.error
BY DEF Entries

LEMMA InitHolds == RInit => RInv
<1> SUFFICES ASSUME RInit PROVE RInv
  OBVIOUS
<1>1. <<>> \in Seq(Piece) /\ Len(<<>>) = 0 /\ Shut \in Files /\ Shut.open = FALSE
  BY DEF Shut, Files
<1>2. Typed
  <2>1. job \in Entries
    BY EntryFrom DEF RInit
  <2> QED BY <1>1, <2>1 DEF RInit, Typed
<1>3. Synchronized
  BY <1>1 DEF RInit, Synchronized
<1>4. Sizes /\ Replayed /\ Ended
  BY <1>1 DEF RInit, Sizes, Replayed, Ended
<1> QED BY <1>2, <1>3, <1>4 DEF RInv

LEMMA BeginHolds == ASSUME RInv, None \notin Turn, NEW t \in Turn, Begin(t) PROVE RInv'
<1>1. /\ said' = [said EXCEPT ![t] = <<>>] /\ turn' = t /\ final' = FALSE
      /\ tries' = [tries EXCEPT ![t] = @ + 1] /\ UNCHANGED <<file, safe, cache, git>>
      /\ torn' \subseteq torn /\ \A u \in Turn : cache[u].open /\ u \in torn => u \in torn'
      /\ \/ job' = [turn |-> None, seen |-> 0, error |-> FALSE]
         \/ job' = [turn |-> t, seen |-> 0, error |-> FALSE]
  BY DEF Begin, Entry
<1>2. said'[t] = <<>> /\ said' \in [Turn -> Seq(Piece)] /\ Len(<<>>) = 0
  BY <1>1 DEF RInv, Typed
<1>3. Typed'
  <2>1. job' \in Entries
    BY <1>1, EntryFrom
  <2>2. tries' \in [Turn -> Nat]
    BY <1>1 DEF RInv, Typed
  <2> QED BY <1>1, <1>2, <2>1, <2>2 DEF RInv, Typed
<1>4. Synchronized' /\ Sizes' /\ Ended'
  BY <1>1 DEF RInv, Synchronized, Sizes, Ended
<1>5. Replayed'
  <2>1. Len(file[t]) \in Nat
    BY DEF RInv, Typed
  <2> QED BY <1>1, <1>2, <2>1 DEF Replayed
<1> QED BY <1>3, <1>4, <1>5 DEF RInv

\* The file of a turn, opened: its size is the file's.
LEMMA OpenedIs ==
  ASSUME RInv, NEW t \in Turn
  PROVE  /\ Opened(t) \in Files /\ Opened(t).open /\ Opened(t).size <= Len(file[t])
         /\ t \notin torn =>
              /\ Opened(t).size = Len(file[t]) /\ Opened(t).committed <= Opened(t).size
              /\ Opened(t).size > 0 /\ Opened(t).committed = Opened(t).size => git[t] = file[t]
<1>1. Len(file[t]) \in Nat /\ cache[t] \in Files
  BY DEF RInv, Typed
<1>2. CASE cache[t].open
  BY <1>1, <1>2 DEF RInv, Sizes, Opened
<1>3. CASE ~cache[t].open
  BY <1>1, <1>3 DEF Opened, Files
<1> QED BY <1>2, <1>3

LEMMA PutUntorn ==
  ASSUME RInv, None \notin Turn, NEW t \in Turn, NEW p \in Piece, Put(t, p),
         t \notin torn'
  PROVE  RInv'
<1> DEFINE e == Entry(t, FALSE)
           f == Opened(t)
           at == Len(said[t])
           new == at >= f.size
           fits == at <= f.size /\ Matches(<<p>>, t, at, f.size)
<1>1. /\ turn = t /\ ~final /\ ~e.error /\ said' = [said EXCEPT ![t] = Append(@, p)]
      /\ UNCHANGED <<torn, safe, git, tries, turn, final>>
      /\ \/ /\ fits /\ file' = (IF new THEN [file EXCEPT ![t] = Append(@, p)] ELSE file)
            /\ cache' = [cache EXCEPT ![t] = IF new THEN [f EXCEPT !.size = @ + 1] ELSE f]
            /\ job' = [e EXCEPT !.seen = at + 1]
         \/ /\ file' = file /\ cache' = [cache EXCEPT ![t] = f] /\ job' = [e EXCEPT !.error = TRUE]
  BY DEF Put
<1>2. /\ said[t] \in Seq(Piece) /\ at \in Nat /\ file[t] \in Seq(Piece) /\ t # None
      /\ Append(said[t], p) \in Seq(Piece) /\ Len(Append(said[t], p)) = at + 1
      /\ Append(said[t], p)[at + 1] = p
      /\ \A i \in 1 .. at : Append(said[t], p)[i] = said[t][i]
  BY DEF RInv, Typed
<1>3. /\ e \in Entries /\ e.turn = t
      /\ e.seen = at /\ at <= Len(file[t]) /\ \A i \in 1 .. at : file[t][i] = said[t][i]
  <2>1. job \in Entries
    BY DEF RInv, Typed
  <2>2. job.turn \in {t, None}
    BY <1>1, <1>2 DEF RInv, Replayed
  <2>3. CASE job.turn = t
    <3>1. e = job
      BY <2>3 DEF Entry
    <3> QED BY <1>1, <1>2, <2>1, <2>3, <3>1 DEF RInv, Replayed
  <2>4. CASE job.turn = None
    <3>1. e = [turn |-> t, seen |-> 0, error |-> FALSE]
      BY <1>2, <2>4 DEF Entry
    <3>2. said[t] = <<>>
      BY <1>1, <1>2, <2>4 DEF RInv, Replayed
    <3>3. at = 0 /\ Len(file[t]) \in Nat
      BY <1>2, <3>2
    <3>4. e \in Entries /\ e.turn = t /\ e.seen = 0
      BY <3>1, EntryFrom
    <3> HIDE DEF e, at
    <3> QED BY <3>3, <3>4
  <2> QED BY <2>2, <2>3, <2>4
<1>4. /\ f \in Files /\ f.open /\ f.size = Len(file[t]) /\ f.committed <= f.size
      /\ f.size > 0 /\ f.committed = f.size => git[t] = file[t]
  BY <1>1, OpenedIs
<1> HIDE DEF e, f
<1>5. /\ said' \in [Turn -> Seq(Piece)] /\ said'[t] = Append(said[t], p)
  BY <1>1, <1>2 DEF RInv, Typed
<1>6. Ended' /\ (Synchronized' <=> \A u \in Turn : safe[u] <= Len(file'[u])
                                                    /\ (safe[u] = 0 => git[u] = <<>>))
  BY <1>1 DEF Ended, Synchronized
<1>7. CASE /\ fits /\ file' = (IF new THEN [file EXCEPT ![t] = Append(@, p)] ELSE file)
           /\ cache' = [cache EXCEPT ![t] = IF new THEN [f EXCEPT !.size = @ + 1] ELSE f]
           /\ job' = [e EXCEPT !.seen = at + 1]
  <2> DEFINE g == IF new THEN [f EXCEPT !.size = @ + 1] ELSE f
  <2>1. /\ file' \in [Turn -> Seq(Piece)] /\ \A u \in Turn \ {t} : file'[u] = file[u]
        /\ Len(file'[t]) \in Nat /\ Len(file[t]) <= Len(file'[t]) /\ at + 1 <= Len(file'[t])
        /\ \A i \in 1 .. at : file'[t][i] = file[t][i]
        /\ file'[t][at + 1] = p
        /\ g \in Files /\ g.open /\ g.size = Len(file'[t]) /\ g.committed <= g.size
        /\ g.size > 0 /\ g.committed = g.size => git[t] = file'[t]
    <3>1. CASE new
      <4>1. at = f.size
        BY <1>2, <1>4, <1>7, <3>1 DEF Files
      <4>2. /\ file' \in [Turn -> Seq(Piece)] /\ \A u \in Turn \ {t} : file'[u] = file[u]
            /\ file'[t] = Append(file[t], p)
        BY <1>2, <1>7, <3>1 DEF RInv, Typed
      <4>3. /\ Len(file'[t]) = at + 1 /\ file'[t][at + 1] = p
            /\ \A i \in 1 .. at : file'[t][i] = file[t][i]
        BY <1>2, <1>4, <4>1, <4>2
      <4>4. g \in Files /\ g.open /\ g.size = at + 1 /\ g.committed <= at
        BY <1>2, <1>4, <3>1, <4>1 DEF Files
      <4> HIDE DEF g
      <4> QED BY <1>2, <1>4, <4>1, <4>2, <4>3, <4>4 DEF Files
    <3>2. CASE ~new
      <4>1. at + 1 <= Len(file[t]) /\ g = f /\ file' = file
        BY <1>2, <1>4, <1>7, <3>2 DEF Files
      <4>2. file[t][at + 1] = p
        <5>1. 1 \in DOMAIN <<p>> /\ <<p>>[1] = p
          OBVIOUS
        <5> QED BY <1>4, <1>7, <4>1, <5>1 DEF Matches
      <4> HIDE DEF g
      <4> QED BY <1>2, <1>4, <4>1, <4>2 DEF RInv, Typed
    <3> QED BY <3>1, <3>2
  <2> HIDE DEF g
  <2>2. /\ cache' \in [Turn -> Files] /\ cache'[t] = g
        /\ \A u \in Turn \ {t} : cache'[u] = cache[u]
    <3>1. cache' = [cache EXCEPT ![t] = g]
      BY <1>7 DEF g
    <3> QED BY <2>1, <3>1 DEF RInv, Typed
  <2>3. /\ job' \in Entries
        /\ job'.turn = t /\ job'.seen = at + 1
    BY <1>2, <1>3, <1>7 DEF Entries
  <2>4. Typed'
    BY <1>1, <1>5, <2>1, <2>2, <2>3 DEF RInv, Typed
  <2>5. Synchronized'
    <3>1. \A u \in Turn : safe[u] <= Len(file[u]) /\ safe[u] \in Nat /\ Len(file[u]) \in Nat
      BY DEF RInv, Typed, Synchronized
    <3>2. \A u \in Turn : safe[u] <= Len(file'[u])
      BY <2>1, <3>1
    <3> QED BY <1>6, <3>2 DEF RInv, Synchronized
  <2>6. Sizes'
    <3>1. /\ cache'[t].size <= Len(file'[t]) /\ cache'[t].size = Len(file'[t])
          /\ cache'[t].committed <= cache'[t].size
          /\ cache'[t].size > 0 /\ cache'[t].committed = cache'[t].size => git'[t] = file'[t]
      BY <1>1, <2>1, <2>2
    <3>2. \A u \in Turn \ {t} : UNCHANGED <<cache[u], file[u], git[u], torn>>
      BY <1>1, <2>1, <2>2
    <3> QED BY <3>1, <3>2 DEF RInv, Sizes
  <2>7. Replayed'
    <3>1. Len(said'[t]) = at + 1 /\ \A i \in 1 .. at + 1 : file'[t][i] = said'[t][i]
      BY <1>2, <1>3, <1>5, <2>1
    <3> QED BY <1>1, <1>2, <2>1, <2>3, <3>1 DEF Replayed
  <2> QED BY <1>6, <2>4, <2>5, <2>6, <2>7 DEF RInv
<1>8. CASE file' = file /\ cache' = [cache EXCEPT ![t] = f] /\ job' = [e EXCEPT !.error = TRUE]
  <2>1. /\ job' \in Entries
        /\ job'.turn = t /\ job'.error
    BY <1>3, <1>8 DEF Entries
  <2>2. cache' \in [Turn -> Files] /\ cache'[t] = f /\ \A u \in Turn \ {t} : cache'[u] = cache[u]
    BY <1>4, <1>8 DEF RInv, Typed
  <2>3. Typed'
    BY <1>1, <1>5, <1>8, <2>1, <2>2 DEF RInv, Typed
  <2>4. Synchronized'
    BY <1>6, <1>8 DEF RInv, Synchronized
  <2>5. Sizes'
    BY <1>1, <1>4, <1>8, <2>2 DEF RInv, Sizes
  <2>6. Replayed'
    BY <1>1, <1>2, <2>1 DEF Replayed
  <2> QED BY <1>6, <2>3, <2>4, <2>5, <2>6 DEF RInv
<1> QED
  <2>1. file' = file \/ ~fits \/ file' = (IF new THEN [file EXCEPT ![t] = Append(@, p)] ELSE file)
    BY <1>1
  <2> QED BY <1>1, <1>7, <1>8

\* A write that failed leaves a rest of it in the file, or an attempt writes
\* after one.
LEMMA PutTorn ==
  ASSUME RInv, None \notin Turn, NEW t \in Turn, NEW p \in Piece, Put(t, p), t \in torn'
  PROVE  RInv'
<1> DEFINE e == Entry(t, FALSE)
           f == Opened(t)
<1>1. /\ turn = t /\ ~final /\ said' = [said EXCEPT ![t] = Append(@, p)]
      /\ UNCHANGED <<safe, git, tries, turn, final>> /\ torn' \in {torn, torn \cup {t}}
      /\ file' \in {file, [file EXCEPT ![t] = Append(@, p)]}
      /\ \/ cache' = [cache EXCEPT ![t] = f]
         \/ /\ cache' = [cache EXCEPT ![t] = [f EXCEPT !.size = @ + 1]]
            /\ file' = [file EXCEPT ![t] = Append(@, p)]
      /\ job' \in {[e EXCEPT !.seen = Len(said[t]) + 1], [e EXCEPT !.error = TRUE]}
  BY DEF Put
<1>2. /\ said[t] \in Seq(Piece) /\ file[t] \in Seq(Piece) /\ t # None
      /\ Append(said[t], p) \in Seq(Piece) /\ Append(file[t], p) \in Seq(Piece)
      /\ Len(said[t]) \in Nat /\ Len(file[t]) \in Nat
      /\ Len(Append(file[t], p)) = Len(file[t]) + 1
  BY DEF RInv, Typed
<1>3. e \in Entries /\ e.turn = t
  <2>1. job \in Entries
    BY DEF RInv, Typed
  <2> QED BY <2>1 DEF Entry, Entries
<1>4. f \in Files /\ f.open /\ f.size <= Len(file[t])
  BY OpenedIs
<1> HIDE DEF e, f
<1>5. /\ file' \in [Turn -> Seq(Piece)] /\ \A u \in Turn \ {t} : file'[u] = file[u]
      /\ Len(file'[t]) \in Nat /\ Len(file[t]) <= Len(file'[t])
  <2>1. CASE file' = file
    BY <1>2, <2>1 DEF RInv, Typed
  <2>2. CASE file' = [file EXCEPT ![t] = Append(@, p)]
    <3>1. file'[t] = Append(file[t], p)
      BY <2>2 DEF RInv, Typed
    <3> QED BY <1>2, <2>2, <3>1 DEF RInv, Typed
  <2> QED BY <1>1, <2>1, <2>2
<1>6. /\ cache' \in [Turn -> Files] /\ cache'[t].size <= Len(file'[t])
      /\ \A u \in Turn \ {t} : cache'[u] = cache[u]
  <2>1. CASE cache' = [cache EXCEPT ![t] = f]
    <3>1. cache' \in [Turn -> Files] /\ cache'[t] = f /\ \A u \in Turn \ {t} : cache'[u] = cache[u]
      BY <1>4, <2>1 DEF RInv, Typed
    <3>2. f.size \in Nat
      BY <1>4 DEF Files
    <3> QED BY <1>2, <1>4, <1>5, <3>1, <3>2
  <2>2. CASE /\ cache' = [cache EXCEPT ![t] = [f EXCEPT !.size = @ + 1]]
             /\ file' = [file EXCEPT ![t] = Append(@, p)]
    <3> DEFINE g == [f EXCEPT !.size = @ + 1]
    <3>1. g \in Files /\ g.size = f.size + 1 /\ f.size \in Nat
      BY <1>4 DEF Files
    <3>2. Len(file'[t]) = Len(file[t]) + 1
      BY <1>2, <2>2 DEF RInv, Typed
    <3>3. cache' = [cache EXCEPT ![t] = g]
      BY <2>2
    <3> HIDE DEF g
    <3>4. cache' \in [Turn -> Files] /\ cache'[t] = g /\ \A u \in Turn \ {t} : cache'[u] = cache[u]
      BY <3>1, <3>3 DEF RInv, Typed
    <3> QED BY <1>2, <1>4, <3>1, <3>2, <3>4
  <2> QED BY <1>1, <2>1, <2>2
<1>7. job' \in Entries /\ job'.turn = t
  <2>1. Len(said[t]) + 1 \in Nat
    BY <1>2
  <2> QED BY <1>1, <1>3, <2>1 DEF Entries
<1>8. Typed'
  <2>1. said' \in [Turn -> Seq(Piece)]
    BY <1>1, <1>2 DEF RInv, Typed
  <2> QED BY <1>1, <1>5, <1>6, <1>7, <2>1 DEF RInv, Typed
<1>9. Synchronized'
  <2>1. \A u \in Turn : safe[u] <= Len(file[u]) /\ safe[u] \in Nat /\ Len(file[u]) \in Nat
    BY DEF RInv, Typed, Synchronized
  <2>2. \A u \in Turn : safe[u] <= Len(file'[u])
    BY <1>5, <2>1
  <2> QED BY <1>1, <2>2 DEF RInv, Synchronized
<1>10. Sizes'
  BY <1>1, <1>5, <1>6 DEF RInv, Sizes
<1>11. Replayed' /\ Ended'
  BY <1>1, <1>2, <1>7 DEF Replayed, Ended
<1> QED BY <1>8, <1>9, <1>10, <1>11 DEF RInv

LEMMA PutHolds ==
  ASSUME RInv, None \notin Turn, NEW t \in Turn, NEW p \in Piece, Put(t, p)
  PROVE  RInv'
BY PutUntorn, PutTorn

LEMMA CommitUntorn ==
  ASSUME RInv, None \notin Turn, NEW t \in Turn, NEW finish \in BOOLEAN, Commit(t, finish),
         t \notin torn
  PROVE  RInv'
<1> DEFINE f == Opened(t)
<1>1. turn = t /\ ~final /\ UNCHANGED <<file, torn, job, said, tries, turn>> /\ t # None
  BY DEF Commit
<1>2. /\ f \in Files /\ f.open /\ f.size = Len(file[t]) /\ f.committed <= f.size
      /\ f.size > 0 /\ f.committed = f.size => git[t] = file[t]
  BY OpenedIs
<1>3. file[t] \in Seq(Piece) /\ said[t] \in Seq(Piece) /\ git[t] \in Seq(Piece)
  BY DEF RInv, Typed
<1>4. Replayed'
  BY <1>1 DEF RInv, Replayed
\* What the attempt sent is all of the file, if it is as much as that.
<1>5. job.turn = t /\ ~job.error /\ Seen(t, f) >= f.size => said[t] = file[t]
  <2> SUFFICES ASSUME job.turn = t, ~job.error, Seen(t, f) >= f.size PROVE said[t] = file[t]
    OBVIOUS
  <2>1. /\ job.seen = Len(said[t]) /\ job.seen <= Len(file[t]) /\ job.seen >= f.size
        /\ \A i \in 1 .. job.seen : file[t][i] = said[t][i]
    BY <1>1 DEF RInv, Replayed, Seen
  <2>2. Len(said[t]) = Len(file[t])
    BY <1>2, <1>3, <2>1
  <2> QED BY <1>3, <2>1, <2>2
<1>6. job.turn # t => said[t] = <<>> /\ Seen(t, f) = 0
  BY <1>1 DEF RInv, Replayed, Seen
<1> HIDE DEF f
<1>7. CASE UNCHANGED <<safe, cache, git, final>>
  BY <1>1, <1>4, <1>7 DEF RInv, Typed, Synchronized, Sizes, Ended
<1>8. ASSUME cache' = [cache EXCEPT ![t] = f], UNCHANGED <<safe, git>>, final' \in BOOLEAN, Ended'
      PROVE  RInv'
  <2>1. cache' \in [Turn -> Files] /\ cache'[t] = f /\ \A u \in Turn \ {t} : cache'[u] = cache[u]
    BY <1>2, <1>8 DEF RInv, Typed
  <2>2. Typed' /\ Synchronized'
    BY <1>1, <1>8, <2>1 DEF RInv, Typed, Synchronized
  <2>3. Sizes'
    BY <1>1, <1>2, <1>8, <2>1 DEF RInv, Sizes
  <2> QED BY <1>4, <1>8, <2>2, <2>3 DEF RInv
<1>9. /\ Seen(t, f) \in Nat /\ f.size \in Nat
      /\ f.size = 0 => file[t] = <<>> /\ git[t] = <<>>
  <2>1. Seen(t, f) \in Nat
    BY DEF RInv, Typed, Entries, Seen
  <2>2. f.size \in Nat /\ (f.size = 0 => file[t] = <<>>)
    BY <1>2, <1>3
  <2>3. safe[t] \in Nat /\ safe[t] <= f.size /\ (safe[t] = 0 => git[t] = <<>>)
    BY <1>2 DEF RInv, Typed, Synchronized
  <2> QED BY <2>1, <2>2, <2>3
<1>10. CASE /\ job.turn = t => ~job.error
            /\ ~(f.size > 0 /\ Seen(t, f) < f.size) /\ (f.size = 0 \/ f.committed = f.size)
            /\ cache' = [cache EXCEPT ![t] = f] /\ final' = finish /\ UNCHANGED <<safe, git>>
  <2>1. git[t] = said[t]
    <3>1. CASE f.size = 0
      <4>1. said[t] = <<>>
        BY <1>5, <1>6, <1>9, <1>10, <3>1
      <4> QED BY <1>9, <3>1, <4>1
    <3>2. CASE f.size > 0
      <4>1. Seen(t, f) >= f.size /\ Seen(t, f) # 0 /\ f.committed = f.size
        BY <1>9, <1>10, <3>2
      <4>2. said[t] = file[t]
        BY <1>5, <1>6, <1>10, <4>1
      <4> QED BY <1>2, <3>2, <4>1, <4>2
    <3> QED BY <1>9, <3>1, <3>2
  <2>2. Ended'
    BY <1>1, <1>10, <2>1 DEF Ended
  <2> QED BY <1>8, <1>10, <2>2
<1>11. ASSUME job.turn = t => ~job.error, f.size > 0, Seen(t, f) >= f.size,
              safe' = [safe EXCEPT ![t] = Len(file[t])],
              git' = git \/ git' = [git EXCEPT ![t] = file[t]],
              NEW g \in {f, [f EXCEPT !.committed = f.size]}, cache' = [cache EXCEPT ![t] = g],
              g = f \/ git' = [git EXCEPT ![t] = file[t]],
              final' = final \/ (final' = finish /\ git' = [git EXCEPT ![t] = file[t]])
       PROVE  RInv'
  <2>1. /\ g \in Files /\ g.open /\ g.size = f.size /\ g.committed <= g.size
        /\ g = f \/ g.committed = f.size
    BY <1>2, <1>11 DEF Files
  <2>2. /\ cache' \in [Turn -> Files] /\ cache'[t] = g
        /\ \A u \in Turn \ {t} : cache'[u] = cache[u]
    BY <1>11, <2>1 DEF RInv, Typed
  <2>3. /\ git' \in [Turn -> Seq(Piece)] /\ \A u \in Turn \ {t} : git'[u] = git[u]
        /\ git'[t] = git[t] \/ git'[t] = file[t]
    BY <1>3, <1>11 DEF RInv, Typed
  <2>4. /\ safe' \in [Turn -> Nat] /\ safe'[t] = f.size
        /\ \A u \in Turn \ {t} : safe'[u] = safe[u]
    BY <1>2, <1>9, <1>11 DEF RInv, Typed
  <2>5. Typed'
    BY <1>1, <1>11, <2>2, <2>3, <2>4 DEF RInv, Typed
  <2>6. Synchronized'
    BY <1>1, <1>2, <1>9, <1>11, <2>3, <2>4 DEF RInv, Synchronized
  <2>7. g.committed = g.size => git'[t] = file[t]
    <3>1. CASE git' = [git EXCEPT ![t] = file[t]]
      BY <3>1 DEF RInv, Typed
    <3>2. CASE git' = git /\ g = f
      BY <1>2, <1>11, <3>2
    <3> QED BY <1>11, <3>1, <3>2
  <2>8. Sizes'
    BY <1>1, <1>2, <2>1, <2>2, <2>3, <2>7 DEF RInv, Sizes
  <2>9. Ended'
    <3>1. said[t] = file[t]
      BY <1>5, <1>6, <1>9, <1>11
    <3>2. git' = [git EXCEPT ![t] = file[t]] => git'[t] = file[t]
      BY DEF RInv, Typed
    <3> QED BY <1>1, <1>11, <3>1, <3>2 DEF Ended
  <2> QED BY <1>4, <2>5, <2>6, <2>8, <2>9 DEF RInv
<1> DEFINE failed == job.turn = t /\ job.error
<1>12. CASE failed
  BY <1>7, <1>12 DEF Commit
<1>13. CASE ~failed /\ f.size > 0 /\ Seen(t, f) < f.size
  <2>1. cache' = [cache EXCEPT ![t] = f] /\ UNCHANGED <<safe, git, final>>
    BY <1>13 DEF Commit, f
  <2>2. Ended'
    BY <1>1, <2>1 DEF Ended
  <2>3. final' \in BOOLEAN
    BY <2>1 DEF RInv, Typed
  <2> QED BY <1>8, <2>1, <2>2, <2>3
<1>14. CASE /\ ~failed /\ ~(f.size > 0 /\ Seen(t, f) < f.size)
            /\ f.size = 0 \/ f.committed = f.size
  <2>1. cache' = [cache EXCEPT ![t] = f] /\ final' = finish /\ UNCHANGED <<safe, git>>
    BY <1>14 DEF Commit, f
  <2> QED BY <1>10, <1>14, <2>1
<1>15. CASE /\ ~failed /\ ~(f.size > 0 /\ Seen(t, f) < f.size)
            /\ ~(f.size = 0 \/ f.committed = f.size)
  <2>1. /\ safe' = [safe EXCEPT ![t] = Len(file[t])]
        /\ \/ /\ git' = [git EXCEPT ![t] = file[t]] /\ final' = finish
              /\ cache' = [cache EXCEPT ![t] = [f EXCEPT !.committed = f.size]]
           \/ /\ git' \in {git, [git EXCEPT ![t] = file[t]]} /\ final' = final
              /\ cache' = [cache EXCEPT ![t] = f]
    BY <1>15 DEF Commit, f
  <2>2. (job.turn = t => ~job.error) /\ f.size > 0 /\ Seen(t, f) >= f.size
    BY <1>9, <1>15
  <2>3. CASE /\ git' = [git EXCEPT ![t] = file[t]] /\ final' = finish
             /\ cache' = [cache EXCEPT ![t] = [f EXCEPT !.committed = f.size]]
    BY <1>11, <2>1, <2>2, <2>3
  <2>4. CASE /\ git' \in {git, [git EXCEPT ![t] = file[t]]} /\ final' = final
             /\ cache' = [cache EXCEPT ![t] = f]
    BY <1>11, <2>1, <2>2, <2>4
  <2> QED BY <2>1, <2>3, <2>4
<1> QED BY <1>12, <1>13, <1>14, <1>15

LEMMA CommitTorn ==
  ASSUME RInv, None \notin Turn, NEW t \in Turn, NEW finish \in BOOLEAN, Commit(t, finish),
         t \in torn
  PROVE  RInv'
<1> DEFINE f == Opened(t)
<1>1. /\ turn = t /\ t # None /\ UNCHANGED <<file, torn, job, said, tries, turn>>
      /\ final' \in {final, finish} /\ git' \in {git, [git EXCEPT ![t] = file[t]]}
      /\ \/ UNCHANGED cache
         \/ cache' = [cache EXCEPT ![t] = f]
         \/ cache' = [cache EXCEPT ![t] = [f EXCEPT !.committed = f.size]]
      /\ \/ UNCHANGED <<safe, git>>
         \/ f.size > 0 /\ safe' = [safe EXCEPT ![t] = Len(file[t])]
  <2>1. f.size \in Nat
    BY OpenedIs DEF Files
  <2> HIDE DEF f
  <2>2. Opened(t) = f
    BY DEF f
  <2> QED BY <2>1, <2>2 DEF Commit
<1>2. f \in Files /\ f.size \in Nat /\ f.size <= Len(file[t])
  BY OpenedIs DEF Files
<1>3. file[t] \in Seq(Piece) /\ Len(file[t]) \in Nat
  BY DEF RInv, Typed
<1> HIDE DEF f
<1>4. /\ cache' \in [Turn -> Files]
      /\ cache'[t] = cache[t] \/ cache'[t].size = f.size
      /\ \A u \in Turn \ {t} : cache'[u] = cache[u]
  <2> DEFINE g == [f EXCEPT !.committed = f.size]
  <2>1. g \in Files /\ g.size = f.size
    BY <1>2 DEF Files
  <2>2. UNCHANGED cache \/ cache' = [cache EXCEPT ![t] = f] \/ cache' = [cache EXCEPT ![t] = g]
    BY <1>1
  <2> HIDE DEF g
  <2> QED BY <1>2, <2>1, <2>2, ZenonT(40) DEF RInv, Typed
<1>5. /\ git' \in [Turn -> Seq(Piece)] /\ safe' \in [Turn -> Nat]
      /\ \A u \in Turn \ {t} : git'[u] = git[u] /\ safe'[u] = safe[u]
      /\ \/ git'[t] = git[t] /\ safe'[t] = safe[t]
         \/ f.size > 0 /\ safe'[t] = Len(file[t])
  <2>1. /\ git' \in [Turn -> Seq(Piece)]
        /\ \A u \in Turn \ {t} : git'[u] = git[u]
    BY <1>1, <1>3 DEF RInv, Typed
  <2>2. /\ safe' \in [Turn -> Nat]
        /\ \A u \in Turn \ {t} : safe'[u] = safe[u]
        /\ UNCHANGED <<safe, git>> \/ (f.size > 0 /\ safe'[t] = Len(file[t]))
    BY <1>1, <1>3 DEF RInv, Typed
  <2> QED BY <2>1, <2>2
<1>6. Typed'
  BY <1>1, <1>4, <1>5 DEF RInv, Typed
<1>7. Synchronized'
  <2>1. safe'[t] <= Len(file[t]) /\ (safe'[t] = 0 => git'[t] = <<>>)
    <3>1. CASE git'[t] = git[t] /\ safe'[t] = safe[t]
      BY <3>1 DEF RInv, Synchronized
    <3>2. CASE f.size > 0 /\ safe'[t] = Len(file[t])
      BY <1>2, <1>3, <3>2
    <3> QED BY <1>5, <3>1, <3>2
  <2>2. \A u \in Turn \ {t} : git'[u] = git[u] /\ safe'[u] = safe[u]
    BY <1>5
  <2> QED BY <1>1, <2>1, <2>2 DEF RInv, Synchronized
<1>8. Sizes'
  BY <1>1, <1>2, <1>4, <1>5 DEF RInv, Sizes
<1>9. Replayed' /\ Ended'
  BY <1>1 DEF RInv, Replayed, Ended
<1> QED BY <1>6, <1>7, <1>8, <1>9 DEF RInv

LEMMA CommitHolds ==
  ASSUME RInv, None \notin Turn, NEW t \in Turn, NEW finish \in BOOLEAN, Commit(t, finish)
  PROVE  RInv'
BY CommitUntorn, CommitTorn

LEMMA ClosedHolds == ASSUME RInv, NEW t \in Turn, Closed(t) PROVE RInv'
<1>1. cache' = [cache EXCEPT ![t] = Shut] /\ UNCHANGED <<file, torn, safe, job, git, said, tries, turn, final>>
  BY DEF Closed
<1>2. Shut \in Files /\ ~Shut.open
  BY DEF Shut, Files
<1>3. cache' \in [Turn -> Files] /\ cache'[t] = Shut /\ \A u \in Turn \ {t} : cache'[u] = cache[u]
  BY <1>1, <1>2 DEF RInv, Typed
<1>4. Typed' /\ Synchronized' /\ Replayed' /\ Ended'
  BY <1>1, <1>3 DEF RInv, Typed, Synchronized, Replayed, Ended
<1>5. Sizes'
  BY <1>1, <1>2, <1>3 DEF RInv, Sizes
<1> QED BY <1>4, <1>5 DEF RInv

LEMMA CrashHolds == ASSUME RInv, Crash PROVE RInv'
<1>1. PICK n \in [Turn -> 0 .. Whole] :
        /\ \A t \in Turn : n[t] \in safe[t] .. Len(file[t])
        /\ file' = [t \in Turn |-> SubSeq(file[t], 1, n[t])] /\ safe' = n
  BY DEF Crash
<1>2. /\ cache' = [t \in Turn |-> Shut] /\ torn' = {} /\ turn' = None /\ final' = FALSE
      /\ job' = [turn |-> None, seen |-> 0, error |-> FALSE] /\ UNCHANGED <<git, said, tries>>
  BY DEF Crash
<1>3. Shut \in Files /\ ~Shut.open
  BY DEF Shut, Files
<1>4. \A t \in Turn : /\ n[t] \in Nat /\ n[t] <= Len(file[t]) /\ safe[t] <= n[t]
                      /\ safe[t] \in Nat /\ file[t] \in Seq(Piece)
  BY <1>1 DEF RInv, Typed
<1>5. \A t \in Turn : SubSeq(file[t], 1, n[t]) \in Seq(Piece) /\ Len(SubSeq(file[t], 1, n[t])) = n[t]
  <2>1. \A s \in Seq(Piece), m \in Nat :
          m <= Len(s) => SubSeq(s, 1, m) \in Seq(Piece) /\ Len(SubSeq(s, 1, m)) = m
    OBVIOUS
  <2> QED BY <1>4, <2>1
<1>6. /\ file' \in [Turn -> Seq(Piece)] /\ \A t \in Turn : Len(file'[t]) = n[t]
  BY <1>1, <1>5
<1>7. safe' \in [Turn -> Nat]
  BY <1>1, <1>4
<1>8. job' \in Entries
  BY <1>2, EntryFrom
<1>9. Typed'
  BY <1>2, <1>3, <1>6, <1>7, <1>8 DEF RInv, Typed
<1>10. Synchronized'
  <2>1. \A t \in Turn : safe'[t] = n[t] /\ (safe[t] = 0 => git'[t] = <<>>)
    BY <1>1, <1>2 DEF RInv, Synchronized
  <2>2. \A t \in Turn : n[t] = 0 => safe[t] = 0
    BY <1>4
  <2>3. \A t \in Turn : safe'[t] <= Len(file'[t])
    BY <1>4, <1>6, <2>1
  <2> QED BY <2>1, <2>2, <2>3 DEF Synchronized
<1>11. Sizes' /\ Replayed' /\ Ended'
  BY <1>2, <1>3 DEF Sizes, Replayed, Ended
<1> QED BY <1>9, <1>10, <1>11 DEF RInv

LEMMA HoldsVerified == RInv => Verified
<1> SUFFICES ASSUME RInv, turn # None, turn \notin torn PROVE Verified
  BY DEF Verified
<1>1. final => git[turn] = said[turn]
  BY DEF RInv, Ended
<1>2. ASSUME job.turn = turn, ~job.error, cache[turn].open, job.seen = cache[turn].size
      PROVE  file[turn] = said[turn]
  <2> DEFINE a == file[turn]
             b == said[turn]
  <2>1. a \in Seq(Piece) /\ b \in Seq(Piece) /\ turn \in Turn
    BY DEF RInv, Typed
  <2>2. /\ job.seen = Len(said[turn]) /\ job.seen = Len(file[turn])
        /\ \A i \in 1 .. job.seen : file[turn][i] = said[turn][i]
    BY <1>2, <2>1 DEF RInv, Replayed, Sizes
  <2>3. Len(a) = Len(b) /\ \A i \in 1 .. Len(a) : a[i] = b[i]
    BY <2>2
  <2> HIDE DEF a, b
  <2>4. a = b
    BY <2>1, <2>3
  <2> QED BY <2>4 DEF a, b
<1> QED BY <1>1, <1>2 DEF Verified

LEMMA NextHolds == ASSUME RInv, None \notin Turn, [RNext]_rvars PROVE RInv'
<1>1. ASSUME NEW t \in Turn, Begin(t) PROVE RInv'
  BY <1>1, BeginHolds
<1>2. ASSUME NEW t \in Turn, Closed(t) PROVE RInv'
  BY <1>2, ClosedHolds
<1>3. ASSUME NEW t \in Turn, NEW p \in Piece, Put(t, p) PROVE RInv'
  BY <1>3, PutHolds
<1>4. ASSUME NEW t \in Turn, NEW finish \in BOOLEAN, Commit(t, finish) PROVE RInv'
  BY <1>4, CommitHolds
<1>5. CASE Crash
  BY <1>5, CrashHolds
<1>6. CASE UNCHANGED rvars
  BY <1>6 DEF rvars, RInv, Typed, Synchronized, Sizes, Replayed, Ended
<1> QED BY <1>1, <1>2, <1>3, <1>4, <1>5, <1>6 DEF RNext

\* What is committed at the end of a turn is all that the provider sent in the
\* attempt that ended, and a file that an attempt has verified to its end is
\* what it sent, however often it was interrupted, the process died or git
\* failed (journal_thought_write(), journal_thought_commit()).  Turns are
\* numbered from one, and a write that fails has written nothing.
THEOREM CommittedIsSent == None \notin Turn => (RSpec => []Verified)
<1> SUFFICES ASSUME None \notin Turn PROVE RSpec => []Verified
  OBVIOUS
<1>1. RInit => RInv
  BY InitHolds
<1>2. RInv /\ [RNext]_rvars => RInv'
  BY NextHolds
<1> QED BY <1>1, <1>2, HoldsVerified, PTL DEF RSpec
=============================================================================
