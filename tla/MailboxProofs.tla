---------------------------- MODULE MailboxProofs ----------------------------
(***************************************************************************)
(* Proofs about LoopInbox, for every set of posters and of messages and    *)
(* every MAIL: the types, that no wake-up is lost, and that the inbox      *)
(* implements the mailbox and leaves no message behind.  The four lists    *)
(* are given as sequences: what the pointers link is exactly them.         *)
(***************************************************************************)
EXTENDS MCLoopInbox, ListProofs, TLAPS

(* The two halves of Next. *)
Poke == \E p \in Thread : PostBegin(p) \/ PostStep(p)
Turn == LoopStep \/ WaitOther \/ WaitInterrupted \/ WaitFailed

LEMMA NextSplit == Next <=> Poke \/ Turn
  BY DEF Next, Poke, Turn

-----------------------------------------------------------------------------

LEMMA TypePoke == TypeOK /\ Poke => TypeOK'
<1> USE NullAssumption, SelfAssumption, MailAssumption
<1> SUFFICES ASSUME TypeOK, NEW p \in Thread, PostBegin(p) \/ PostStep(p)
             PROVE  TypeOK'
  BY DEF Poke
<1> USE DEF TypeOK, Link, OnLoop, LoopPlace, PostPlace, shared, mailbag, turn, reversing
<1>1. CASE PostBegin(p)
  BY <1>1 DEF PostBegin
<1>2. CASE PostLoad(p)
  BY <1>2 DEF PostLoad
<1>3. CASE PostSwap(p)
  <2>1. pm[p] = Null => next' = next /\ where' = where
    BY <1>3 DEF PostSwap
  <2>2. CASE pm[p] \in Msg
    BY <1>3, <2>2 DEF PostSwap
  <2>3. CASE pm[p] = Null
    BY <1>3, <2>1, <2>3 DEF PostSwap
  <2> QED BY <2>2, <2>3
<1>4. CASE PostAsleep(p)
  BY <1>4 DEF PostAsleep
<1>5. CASE PostWrite(p)
  BY <1>5 DEF PostWrite
<1> QED BY <1>1, <1>2, <1>3, <1>4, <1>5 DEF PostStep

LEMMA TypeTurn == TypeOK /\ Turn => TypeOK'
<1> USE NullAssumption, SelfAssumption, MailAssumption
<1> SUFFICES ASSUME TypeOK, Turn PROVE TypeOK'
  OBVIOUS
<1> USE DEF TypeOK, Link, OnLoop, LoopPlace, PostPlace, shared, mailbag, turn,
            reversing, posting
<1>1. CASE LoopPlan        BY <1>1 DEF LoopPlan
<1>2. CASE LoopDoze        BY <1>2 DEF LoopDoze
<1>3. CASE LoopLook        BY <1>3 DEF LoopLook
<1>4. CASE WaitWoken       BY <1>4 DEF WaitWoken, WaitEnd
<1>5. CASE WaitOver        BY <1>5 DEF WaitOver, WaitEnd
<1>6. CASE WaitOther       BY <1>6 DEF WaitOther, WaitEnd
<1>7. CASE WaitInterrupted BY <1>7 DEF WaitInterrupted, WaitEnd
<1>8. CASE WaitFailed      BY <1>8 DEF WaitFailed, WaitEnd
<1>9. CASE LoopClear       BY <1>9 DEF LoopClear
<1>10. CASE LoopEvents     BY <1>10 DEF LoopEvents
<1>11. CASE LoopCollect    BY <1>11 DEF LoopCollect, Moved
<1>12. CASE LoopReverse    BY <1>12 DEF LoopReverse
<1>13. CASE LoopJoin       BY <1>13 DEF LoopJoin, Moved
<1>14. CASE LoopDeliver    BY <1>14 DEF LoopDeliver
<1>15. CASE LoopHandled    BY <1>15 DEF LoopHandled
<1>16. CASE LoopDelivered  BY <1>16 DEF LoopDelivered
<1>17. CASE LoopSteps      BY <1>17 DEF LoopSteps
<1>18. CASE LoopFini       BY <1>18 DEF LoopFini
<1>19. CASE LoopGone       BY <1>19 DEF LoopGone
<1> QED BY <1>1, <1>2, <1>3, <1>4, <1>5, <1>6, <1>7, <1>8, <1>9, <1>10, <1>11,
           <1>12, <1>13, <1>14, <1>15, <1>16, <1>17, <1>18, <1>19
        DEF Turn, LoopStep

\* Every variable of loop_post() and of loop_turn() keeps its type.
THEOREM TypeCorrect == Spec => []TypeOK
<1> USE NullAssumption, SelfAssumption, MailAssumption
<1>1. Init => TypeOK
  BY DEF Init, TypeOK, Link, LoopPlace, PostPlace, Thread
<1>2. TypeOK /\ [Next]_vars => TypeOK'
  <2>1. TypeOK /\ UNCHANGED vars => TypeOK'
    BY DEF TypeOK, vars
  <2> QED BY <2>1, NextSplit, TypePoke, TypeTurn
<1> QED BY <1>1, <1>2, PTL DEF Spec

-----------------------------------------------------------------------------
(* A sleeping loop is woken.  NoLostWakeup needs WakeArmed: a message that *)
(* is pushed while the loop is about to sleep or sleeps finds it asleep,   *)
(* unless a wake-up is there or on its way already.  The loop's own thread *)
(* posts only from a callback, never while it sleeps.                      *)

WakeInv == TypeOK /\ WakeArmed /\ NoLostWakeup

LEMMA WakePoke == WakeInv /\ Poke => WakeInv'
<1> USE NullAssumption, SelfAssumption, MailAssumption
<1> SUFFICES ASSUME WakeInv, NEW p \in Thread, PostBegin(p) \/ PostStep(p)
             PROVE  WakeArmed' /\ NoLostWakeup'
  BY TypePoke DEF Poke, WakeInv
<1> USE DEF WakeInv, WakeArmed, NoLostWakeup, TypeOK, PostPlace, shared,
            mailbag, turn, reversing
<1>1. CASE PostBegin(p)
  BY <1>1 DEF PostBegin
<1>2. CASE PostLoad(p)
  BY <1>2 DEF PostLoad
<1>3. CASE PostSwap(p)
  BY <1>3 DEF PostSwap
<1>4. CASE PostAsleep(p)
  <2>1. CASE asleep = 1
    <3>1. pc'[p] = "write"
      BY <1>4, <2>1 DEF PostAsleep
    <3> QED BY <3>1
  <2>2. CASE asleep = 0
    <3>1. \A q \in Thread : pc[q] = "write" => pc'[q] = "write"
      BY <1>4 DEF PostAsleep
    <3> QED BY <1>4, <2>2, <3>1 DEF PostAsleep
  <2> QED BY <2>1, <2>2
<1>5. CASE PostWrite(p)
  BY <1>5 DEF PostWrite
<1> QED BY <1>1, <1>2, <1>3, <1>4, <1>5 DEF PostStep

LEMMA WakeTurn == WakeInv /\ Turn => WakeInv'
<1> USE NullAssumption, SelfAssumption, MailAssumption
<1> SUFFICES ASSUME WakeInv, Turn PROVE WakeArmed' /\ NoLostWakeup'
  BY TypeTurn DEF WakeInv
<1> USE DEF WakeInv, WakeArmed, NoLostWakeup, TypeOK, LoopPlace, shared,
            mailbag, turn, reversing, posting
<1>1. CASE LoopPlan        BY <1>1 DEF LoopPlan
<1>2. CASE LoopDoze        BY <1>2 DEF LoopDoze
<1>3. CASE LoopLook        BY <1>3 DEF LoopLook
<1>4. CASE WaitWoken       BY <1>4 DEF WaitWoken, WaitEnd
<1>5. CASE WaitOver        BY <1>5 DEF WaitOver, WaitEnd
<1>6. CASE WaitOther       BY <1>6 DEF WaitOther, WaitEnd
<1>7. CASE WaitInterrupted BY <1>7 DEF WaitInterrupted, WaitEnd
<1>8. CASE WaitFailed      BY <1>8 DEF WaitFailed, WaitEnd
<1>9. CASE LoopClear       BY <1>9 DEF LoopClear
<1>10. CASE LoopEvents     BY <1>10 DEF LoopEvents
<1>11. CASE LoopCollect    BY <1>11 DEF LoopCollect, Moved
<1>12. CASE LoopReverse    BY <1>12 DEF LoopReverse
<1>13. CASE LoopJoin       BY <1>13 DEF LoopJoin
<1>14. CASE LoopDeliver    BY <1>14 DEF LoopDeliver
<1>15. CASE LoopHandled    BY <1>15 DEF LoopHandled
<1>16. CASE LoopDelivered  BY <1>16 DEF LoopDelivered
<1>17. CASE LoopSteps      BY <1>17 DEF LoopSteps
<1>18. CASE LoopFini       BY <1>18 DEF LoopFini
<1>19. CASE LoopGone       BY <1>19 DEF LoopGone
<1> QED BY <1>1, <1>2, <1>3, <1>4, <1>5, <1>6, <1>7, <1>8, <1>9, <1>10, <1>11,
           <1>12, <1>13, <1>14, <1>15, <1>16, <1>17, <1>18, <1>19
        DEF Turn, LoopStep

\* A loop never sleeps through a message: loop_post()'s exchange of asleep
\* and loop_turn()'s look at the inbox cannot both miss the other.
THEOREM WakeupNotLost == Spec => []NoLostWakeup
<1> USE NullAssumption, SelfAssumption, MailAssumption
<1>1. Init => WakeInv
  BY DEF Init, WakeInv, WakeArmed, NoLostWakeup, TypeOK, Link, LoopPlace,
         PostPlace, Thread
<1>2. WakeInv /\ [Next]_vars => WakeInv'
  <2>1. WakeInv /\ UNCHANGED vars => WakeInv'
    BY DEF WakeInv, WakeArmed, NoLostWakeup, TypeOK, vars
  <2> QED BY <2>1, NextSplit, WakePoke, WakeTurn
<1>3. WakeInv => NoLostWakeup
  BY DEF WakeInv
<1> QED BY <1>1, <1>2, <1>3, PTL DEF Spec

-----------------------------------------------------------------------------
(* The lists stay apart.  ListsApart is inductive with three facts more:   *)
(* loop_collect() has locals only while it runs, and last is the end of    *)
(* the reversed part; each poster holds a message of its own until it is   *)
(* pushed; and the head it loaded is not that message.                     *)

Collecting ==
  /\ lpc \notin {"reverse", "join"} => msg = Null /\ fifo = Null /\ last = Null
  /\ lpc \in {"reverse", "join"} => last # Null
  /\ lpc = "reverse" /\ fifo = Null => msg = last /\ msg # Null
  /\ lpc = "join" => msg = Null /\ fifo # Null
  /\ fifo # Null => last # Null /\ where[last] = "turned" /\ next[last] = Null

Holding ==
  \A p \in Thread : pc[p] \in {"load", "cas"} =>
    /\ pm[p] \in Msg /\ where[pm[p]] = "held"
    /\ pc[p] = "cas" => head[p] # pm[p]
    /\ \A q \in Thread : pc[q] \in {"load", "cas"} /\ pm[q] = pm[p] => q = p

ListInv == TypeOK /\ ListsApart /\ Collecting /\ Holding /\ NeverRefused

LEMMA ListPoke == ListInv /\ Poke => ListInv'
<1> USE NullAssumption, SelfAssumption, MailAssumption
<1> SUFFICES ASSUME ListInv, NEW p \in Thread, PostBegin(p) \/ PostStep(p)
             PROVE  (ListsApart /\ Collecting /\ Holding /\ NeverRefused)'
  BY TypePoke DEF Poke, ListInv
<1> USE DEF ListInv, TypeOK, Link, OnLoop, PostPlace, shared, mailbag, turn,
            reversing
<1>1. CASE PostBegin(p)
  <2> PICK m \in Msg : /\ where[m] = "free"
                       /\ pm' = [pm EXCEPT ![p] = m]
                       /\ where' = [where EXCEPT ![m] = "held"]
    BY <1>1 DEF PostBegin
  <2>1. ListsApart'
    BY <1>1 DEF PostBegin, ListsApart
  <2>2. Collecting'
    BY <1>1 DEF PostBegin, Collecting
  <2>3. Holding'
    BY <1>1 DEF PostBegin, Holding
  <2>4. NeverRefused'
    BY <1>1 DEF PostBegin, NeverRefused
  <2> QED BY <2>1, <2>2, <2>3, <2>4
<1>2. CASE PostLoad(p)
  <2>1. ListsApart' /\ Collecting' /\ NeverRefused'
    BY <1>2 DEF PostLoad, ListsApart, Collecting, NeverRefused
  <2>2. Holding'
    BY <1>2 DEF PostLoad, Holding, ListsApart
  <2> QED BY <2>1, <2>2
<1>3. CASE PostSwap(p)
  <2>0. /\ pm[p] \in Msg /\ where[pm[p]] = "held" /\ head[p] # pm[p]
        /\ next' = [next EXCEPT ![pm[p]] = head[p]]
    BY <1>3 DEF PostSwap, Holding
  <2>1. CASE inbox = head[p]
    <3>0. /\ inbox' = pm[p]
          /\ where' = [where EXCEPT ![pm[p]] = "inbox"]
          /\ pc' = [pc EXCEPT ![p] = "swap"]
          /\ UNCHANGED <<head, asleep, efd, mailbag, flags, ready, lpc, turn,
                         reversing, pm>>
      BY <1>3, <2>0, <2>1 DEF PostSwap
    <3>1. ListsApart'
      BY <2>0, <2>1, <3>0 DEF ListsApart
    <3>2. Collecting'
      BY <2>0, <3>0 DEF Collecting
    <3>3. Holding'
      <4>1. \A q \in Thread : pc'[q] \in {"load", "cas"} =>
              q # p /\ pc[q] = pc'[q] /\ pm[q] # pm[p]
        BY <1>3, <3>0 DEF PostSwap, Holding
      <4>2. UNCHANGED <<pm, head>>
        BY <3>0
      <4> QED BY <2>0, <3>0, <4>1, <4>2 DEF Holding
    <3>4. NeverRefused'
      BY <2>0, <3>0 DEF NeverRefused
    <3> QED BY <3>1, <3>2, <3>3, <3>4
  <2>2. CASE inbox # head[p]
    <3>0. /\ head' = [head EXCEPT ![p] = inbox]
          /\ UNCHANGED <<inbox, where, pc, asleep, efd, mailbag, flags, ready,
                         lpc, turn, reversing, pm>>
      BY <1>3, <2>0, <2>2 DEF PostSwap
    <3>1. ListsApart' /\ Collecting' /\ NeverRefused'
      BY <2>0, <3>0 DEF ListsApart, Collecting, NeverRefused
    <3>2. Holding'
      BY <2>0, <3>0 DEF Holding, ListsApart
    <3> QED BY <3>1, <3>2
  <2> QED BY <2>1, <2>2
<1>4. CASE PostAsleep(p)
  BY <1>4 DEF PostAsleep, ListsApart, Collecting, Holding, NeverRefused
<1>5. CASE PostWrite(p)
  BY <1>5 DEF PostWrite, ListsApart, Collecting, Holding, NeverRefused
<1> QED BY <1>1, <1>2, <1>3, <1>4, <1>5 DEF PostStep

\* The loop's steps that move no message between lists.
LEMMA ListStill ==
  ASSUME ListInv, UNCHANGED <<inbox, next, where, mail, mail_last, posting>>,
         UNCHANGED reversing, lpc' \notin {"reverse", "join"},
         lpc \notin {"reverse", "join"}
  PROVE  (ListsApart /\ Collecting /\ Holding /\ NeverRefused)'
  BY DEF ListInv, ListsApart, Collecting, Holding, NeverRefused, posting,
         reversing

LEMMA ListTurn == ListInv /\ Turn => ListInv'
<1> USE NullAssumption, SelfAssumption, MailAssumption
<1> SUFFICES ASSUME ListInv, Turn
             PROVE  (ListsApart /\ Collecting /\ Holding /\ NeverRefused)'
  BY TypeTurn DEF ListInv
<1> USE DEF LoopPlace, shared, mailbag, turn
<1>1. CASE LoopPlan        BY <1>1, ListStill DEF LoopPlan
<1>2. CASE LoopDoze        BY <1>2, ListStill DEF LoopDoze
<1>3. CASE LoopLook        BY <1>3, ListStill DEF LoopLook
<1>4. CASE \E w \in {"eventfd", "others", "EINTR", "error"} : WaitEnd(w)
  BY <1>4, ListStill DEF WaitEnd
<1>9. CASE LoopClear
  <2>1. lpc' \in {"plan", "exited", "events"}
    BY <1>9, Zenon DEF LoopClear
  <2> QED BY <1>9, <2>1, ListStill DEF LoopClear
<1>10. CASE LoopEvents     BY <1>10, ListStill DEF LoopEvents
<1>11. CASE LoopCollect
  <2>1. CASE inbox = Null
    BY <1>11, <2>1, ListStill DEF LoopCollect, reversing
  <2>2. CASE inbox # Null
    <3> USE DEF ListInv, TypeOK, Link, OnLoop
    <3>0. /\ lpc = "collect" /\ lpc' = "reverse"
          /\ msg' = inbox /\ last' = inbox /\ inbox' = Null
          /\ where' = Moved("inbox", "taken")
          /\ UNCHANGED <<next, mailbag, fifo, posting>>
      BY <1>11, <2>2 DEF LoopCollect
    <3>1. ListsApart'
      BY <2>2, <3>0 DEF ListsApart, Collecting, Moved
    <3>2. Collecting'
      BY <2>2, <3>0 DEF Collecting
    <3>3. Holding' /\ NeverRefused'
      BY <3>0 DEF Holding, NeverRefused, Moved, posting
    <3> QED BY <3>1, <3>2, <3>3
  <2> QED BY <2>1, <2>2
<1>12. CASE LoopReverse
  <2> USE DEF ListInv, TypeOK, Link, OnLoop
  <2>1. CASE msg = Null
    BY <1>12, <2>1 DEF LoopReverse, ListsApart, Collecting, Holding,
                       NeverRefused, posting
  <2>2. CASE msg # Null
    <3>0. /\ lpc = "reverse" /\ lpc' = "reverse" /\ msg \in Msg
          /\ next' = [next EXCEPT ![msg] = fifo]
          /\ fifo' = msg /\ msg' = next[msg]
          /\ where' = [where EXCEPT ![msg] = "turned"]
          /\ UNCHANGED <<inbox, mailbag, last, posting>>
      BY <1>12, <2>2 DEF LoopReverse
    <3>1. where[msg] = "taken" /\ (fifo # Null => last # msg)
      BY <2>2 DEF ListsApart, Collecting
    <3>2. ListsApart'
      BY <2>2, <3>0, <3>1 DEF ListsApart
    <3>3. Collecting'
      BY <2>2, <3>0, <3>1 DEF Collecting
    <3>4. Holding' /\ NeverRefused'
      BY <3>0, <3>1 DEF Holding, NeverRefused, posting
    <3> QED BY <3>2, <3>3, <3>4
  <2> QED BY <2>1, <2>2
<1>13. CASE LoopJoin
  <2> USE DEF ListInv, TypeOK, Link, OnLoop
  <2>0. /\ lpc = "join" /\ lpc' = "deliver" /\ msg = Null /\ fifo # Null
        /\ fifo' = Null /\ last' = Null /\ msg' = Null /\ mail_last' = last
        /\ where' = Moved("turned", "mail")
        /\ last # Null /\ where[last] = "turned" /\ next[last] = Null
        /\ UNCHANGED <<inbox, posting>>
    BY <1>13 DEF LoopJoin, Collecting
  <2>1. ListsApart'
    <3>1. CASE mail_last # Null
      <4>1. next' = [next EXCEPT ![mail_last] = fifo] /\ mail' = mail
        BY <1>13, <3>1 DEF LoopJoin
      <4> QED BY <2>0, <3>1, <4>1 DEF ListsApart, Moved
    <3>2. CASE mail_last = Null
      <4>1. mail' = fifo /\ next' = next
        BY <1>13, <3>2 DEF LoopJoin
      <4> QED BY <2>0, <3>2, <4>1 DEF ListsApart, Moved
    <3> QED BY <3>1, <3>2
  <2>2. Collecting'
    BY <2>0 DEF Collecting
  <2>3. Holding' /\ NeverRefused'
    BY <2>0 DEF Holding, NeverRefused, Moved, posting
  <2> QED BY <2>1, <2>2, <2>3
<1>14. CASE LoopDeliver
  <2> USE DEF ListInv, TypeOK, Link, OnLoop
  <2>0. /\ lpc = "deliver" /\ lpc' = "handle" /\ mail \in Msg
        /\ where' = [where EXCEPT ![mail] = "free"]
        /\ mail' = next[mail]
        /\ mail_last' = IF next[mail] = Null THEN Null ELSE mail_last
        /\ UNCHANGED <<inbox, next, reversing, posting>>
    BY <1>14 DEF LoopDeliver
  <2>1. ListsApart'
    BY <2>0 DEF ListsApart, Collecting, reversing
  <2>2. Collecting'
    BY <2>0 DEF Collecting, reversing
  <2>3. Holding' /\ NeverRefused'
    BY <2>0 DEF Holding, NeverRefused, ListsApart, posting
  <2> QED BY <2>1, <2>2, <2>3
<1>15. CASE LoopHandled    BY <1>15, ListStill DEF LoopHandled
<1>16. CASE LoopDelivered  BY <1>16, ListStill DEF LoopDelivered
<1>17. CASE LoopSteps      BY <1>17, ListStill DEF LoopSteps
<1>18. CASE LoopFini       BY <1>18, ListStill DEF LoopFini
<1>19. CASE LoopGone       BY <1>19, ListStill DEF LoopGone
<1> QED BY <1>1, <1>2, <1>3, <1>4, <1>9, <1>10, <1>11, <1>12, <1>13, <1>14,
           <1>15, <1>16, <1>17, <1>18, <1>19
        DEF Turn, LoopStep, WaitWoken, WaitOver, WaitOther, WaitInterrupted,
            WaitFailed

\* loop_post(), loop_collect() and loop_deliver() never mix up their lists,
\* however posts, the exchange and the reversal interleave.
THEOREM ListsStayApart == Spec => [](ListsApart /\ NeverRefused)
<1> USE NullAssumption, SelfAssumption, MailAssumption
<1>1. Init => ListInv
  BY DEF Init, ListInv, ListsApart, Collecting, Holding, NeverRefused, TypeOK,
         Link, OnLoop, LoopPlace, PostPlace, Thread
<1>2. ListInv /\ [Next]_vars => ListInv'
  <2>1. ListInv /\ UNCHANGED vars => ListInv'
    BY DEF ListInv, ListsApart, Collecting, Holding, NeverRefused, TypeOK, vars
  <2> QED BY <2>1, NextSplit, ListPoke, ListTurn
<1>3. ListInv => ListsApart /\ NeverRefused
  BY DEF ListInv
<1> QED BY <1>1, <1>2, <1>3, PTL DEF Spec

-----------------------------------------------------------------------------
(* The implementation of the mailbox.                                      *)

USE MsgAssumption

-----------------------------------------------------------------------------
(* What a list's pointers link.                                            *)

\* The list that m begins, through the links nx, is s.
Links(nx, m, s) ==
  /\ s \in Lists(Msg)
  /\ m = IF s = <<>> THEN Null ELSE s[1]
  /\ \A i \in 1 .. Len(s) : nx[s[i]] = IF i = Len(s) THEN Null ELSE s[i + 1]

\* What Linked(nx) makes of fewer links.
Further(nx, f, k) ==
  [l \in Link |-> IF k = 0 \/ l = Null THEN <<>> ELSE <<l>> \o f[k - 1][nx[l]]]

\* The recursion has a solution, which is what Linked is.
LEMMA LinkedIs ==
  ASSUME NEW nx
  PROVE  Linked(nx) = [k \in 0 .. Cardinality(Msg) |-> Further(nx, Linked(nx), k)]
<1> DEFINE N == {n \in Nat : \E f : f = [k \in 0 .. n |-> Further(nx, f, k)]}
<1>1. 0 \in N
  <2> DEFINE f == [k \in 0 .. 0 |-> [l \in Link |-> <<>>]]
  <2>1. f = [k \in 0 .. 0 |-> Further(nx, f, k)]
    BY DEF Further
  <2> QED BY <2>1
<1>2. ASSUME NEW n \in N PROVE n + 1 \in N
  <2>1. PICK f : f = [k \in 0 .. n |-> Further(nx, f, k)]
    OBVIOUS
  <2> DEFINE g == [k \in 0 .. n + 1 |-> IF k <= n THEN f[k] ELSE Further(nx, f, k)]
  <2>2. n \in Nat /\ n + 1 \in Nat
    OBVIOUS
  <2> HIDE DEF N
  <2>3. ASSUME NEW k \in 0 .. n + 1 PROVE g[k] = Further(nx, g, k)
    <3>1. g[k] = Further(nx, f, k)
      <4>1. CASE k <= n
        <5>1. k \in 0 .. n /\ f[k] = Further(nx, f, k)
          BY <2>1, <2>2, <4>1
        <5> QED BY <4>1, <5>1
      <4>2. CASE ~(k <= n)
        BY <4>2
      <4> QED BY <4>1, <4>2
    <3>2. CASE k = 0
      BY <3>1, <3>2 DEF Further
    <3>3. CASE k # 0
      <4>1. g[k - 1] = f[k - 1]
        BY <2>2, <3>3
      <4> HIDE DEF g
      <4> QED BY <3>1, <4>1 DEF Further
    <3> QED BY <3>2, <3>3
  <2>4. g = [k \in 0 .. n + 1 |-> Further(nx, g, k)]
    BY <2>3
  <2> HIDE DEF g
  <2>5. \E h : h = [k \in 0 .. n + 1 |-> Further(nx, h, k)]
    BY <2>4
  <2> QED BY <2>2, <2>5 DEF N
<1>3. N = Nat
  <2> HIDE DEF N
  <2>1. N \subseteq Nat
    BY DEF N
  <2> QED BY <1>1, <1>2, <2>1, Naturally
<1>4. Cardinality(Msg) \in N
  BY <1>3, FS_CardinalityType
<1>5. \E f : f = [k \in 0 .. Cardinality(Msg) |-> Further(nx, f, k)]
  BY <1>4
<1>6. Linked(nx) = CHOOSE f : f = [k \in 0 .. Cardinality(Msg) |-> Further(nx, f, k)]
  BY DEF Linked, Further
<1> QED BY <1>5, <1>6

\* A list of messages is no longer than there are messages.
LEMMA ListShort == ASSUME NEW s \in Lists(Msg) PROVE Len(s) <= Cardinality(Msg)
<1>1. s \in [1 .. Len(s) -> Msg] /\ \A i, j \in 1 .. Len(s) : s[i] = s[j] => i = j
  BY OnList
<1>0. s \in Injection(1 .. Len(s), Msg)
  BY <1>1 DEF Injection, IsInjective
<1>2. Len(s) \in Nat
  BY OnList
<1>3. Cardinality(1 .. Len(s)) = Len(s)
  <2>1. \A i, j \in Int : Cardinality(i .. j) = IF i > j THEN 0 ELSE j - i + 1
    BY FS_Interval
  <2>2. Cardinality(1 .. Len(s)) = IF 1 > Len(s) THEN 0 ELSE Len(s) - 1 + 1
    BY <1>2, <2>1
  <2> QED BY <1>2, <2>2
<1>4. ASSUME NEW D, NEW f \in Injection(D, Msg) PROVE Cardinality(D) <= Cardinality(Msg)
  BY FS_Injection, MsgAssumption, SMTT(30)
<1>5. Cardinality(1 .. Len(s)) <= Cardinality(Msg)
  BY <1>0, <1>4
<1> QED BY <1>3, <1>5

\* Following the links gives the list.
LEMMA ChainIs ==
  ASSUME NEW nx, NEW m, NEW s, Links(nx, m, s)
  PROVE  Linked(nx)[Cardinality(Msg)][m] = s
<1> DEFINE C == Cardinality(Msg)
           L == Linked(nx)
           n == Len(s)
           At(i) == IF i <= n THEN s[i] ELSE Null
           N == {k \in Nat : k <= C => \A i \in 1 .. n + 1 :
                               n + 1 - i <= k => L[k][At(i)] = SubSeq(s, i, n)}
<1>1. C \in Nat /\ n \in Nat /\ n <= C /\ s \in Seq(Msg)
      /\ \A i \in 1 .. n : s[i] \in Msg
  BY FS_CardinalityType, ListShort, OnList DEF Links
<1>2. L = [k \in 0 .. C |-> Further(nx, L, k)]
  BY LinkedIs
<1> HIDE DEF C, L
<1>3. \A i \in 1 .. n + 1 : At(i) \in Link
  BY <1>1 DEF Link
<1>4. \A k \in 0 .. C : L[k][Null] = <<>>
  BY <1>2 DEF Further, Link
<1>5. SubSeq(s, n + 1, n) = <<>>
  BY <1>1, SubSeqEmpty
<1>6. 0 \in N
  <2>1. ASSUME NEW i \in 1 .. n + 1, n + 1 - i <= 0 PROVE i = n + 1
    BY <1>1, <2>1
  <2>2. At(n + 1) = Null /\ 0 \in 0 .. C
    BY <1>1
  <2> HIDE DEF At, n
  <2> QED BY <1>4, <1>5, <2>1, <2>2
<1>7. ASSUME NEW k \in N PROVE k + 1 \in N
  <2> SUFFICES ASSUME k + 1 <= C, NEW i \in 1 .. n + 1, n + 1 - i <= k + 1
               PROVE  L[k + 1][At(i)] = SubSeq(s, i, n)
    OBVIOUS
  <2>1. k \in Nat /\ k + 1 \in 0 .. C /\ k <= C
    BY <1>1
  <2>2. CASE i = n + 1
    <3>1. At(i) = Null
      BY <1>1, <2>2
    <3> HIDE DEF At, n
    <3> QED BY <1>4, <1>5, <2>1, <2>2, <3>1
  <2>3. CASE i # n + 1
    <3>1. i \in 1 .. n /\ i + 1 \in 1 .. n + 1 /\ n + 1 - (i + 1) <= k
      BY <1>1, <2>1, <2>3
    <3>2. L[k][At(i + 1)] = SubSeq(s, i + 1, n)
      <4>1. \A j \in 1 .. n + 1 : n + 1 - j <= k => L[k][At(j)] = SubSeq(s, j, n)
        BY <2>1
      <4> QED BY <3>1, <4>1
    <3>3. At(i) = s[i] /\ s[i] \in Msg /\ s[i] # Null
      BY <1>1, <3>1, NullAssumption
    <3>4. nx[s[i]] = At(i + 1)
      <4>1. nx[s[i]] = IF i = n THEN Null ELSE s[i + 1]
        BY <3>1 DEF Links
      <4>2. i + 1 <= n <=> i # n
        BY <1>1, <3>1
      <4> QED BY <4>1, <4>2
    <3>6. L[k + 1][At(i)] = <<s[i]>> \o L[k][At(i + 1)]
      <4> DEFINE j == k + 1
      <4>1. j \in 0 .. C /\ j # 0 /\ j - 1 = k
        BY <2>1
      <4> HIDE DEF At, j, N, n
      <4>2. L[j] = Further(nx, L, j)
        BY <1>2, <4>1, Zenon
      <4>3. L[j][s[i]] = <<s[i]>> \o L[j - 1][nx[s[i]]]
        BY <3>3, <4>1, <4>2 DEF Further, Link
      <4> QED BY <3>3, <3>4, <4>1, <4>3 DEF j
    <3>5. SubSeq(s, i, n) = <<s[i]>> \o SubSeq(s, i + 1, n)
      BY <1>1, <3>1, SubSeqRecursiveFirst
    <3> QED BY <3>2, <3>5, <3>6
  <2> QED BY <2>2, <2>3
<1>8. N = Nat
  <2> HIDE DEF N
  <2>1. N \subseteq Nat
    BY DEF N
  <2> QED BY <1>6, <1>7, <2>1, Naturally
<1>9. L[C][At(1)] = SubSeq(s, 1, n)
  <2>1. C <= C /\ 1 \in 1 .. n + 1 /\ n + 1 - 1 <= C
    BY <1>1
  <2>2. C \in N
    BY <1>1, <1>8
  <2> HIDE DEF At, n
  <2> QED BY <2>1, <2>2
<1>10. SubSeq(s, 1, n) = s
  BY <1>1, SubSeqFull
<1>11. At(1) = m
  BY <1>1, OnList DEF Links
<1> QED BY <1>9, <1>10, <1>11 DEF C, L

-----------------------------------------------------------------------------
(* How the links of a list change.                                         *)

LEMMA LinksIn ==
  ASSUME NEW nx, NEW m, NEW s, Links(nx, m, s)
  PROVE  /\ s \in Lists(Msg) /\ (m = Null <=> s = <<>>)
         /\ m # Null => m = s[1] /\ m \in Msg /\ m \in ToSet(s)
BY OnList, NullAssumption DEF Links

LEMMA NoLinks == ASSUME NEW nx PROVE Links(nx, Null, <<>>)
BY EmptyList DEF Links

\* Messages that are not in the list may be linked to others.
LEMMA LinksKept ==
  ASSUME NEW nx, NEW m, NEW s, Links(nx, m, s), NEW ny, \A x \in ToSet(s) : ny[x] = nx[x]
  PROVE  Links(ny, m, s)
BY OnList DEF Links

\* What loop_post() and the reversal do: a message is put before the others.
LEMMA LinksPut ==
  ASSUME NEW nx \in [Msg -> Link], NEW h, NEW s, Links(nx, h, s),
         NEW m \in Msg, m \notin ToSet(s)
  PROVE  Links([nx EXCEPT ![m] = h], m, <<m>> \o s)
<1> DEFINE ny == [nx EXCEPT ![m] = h]
           t == <<m>> \o s
<1>1. s \in Lists(Msg) /\ s \in Seq(Msg) /\ Len(s) \in Nat
  BY OnList DEF Links
<1>2. t \in Lists(Msg) /\ Len(t) = Len(s) + 1
  BY <1>1, PutFirst
<1>3. t[1] = m /\ \A i \in 2 .. Len(s) + 1 : t[i] = s[i - 1]
  BY <1>1
<1>4. ny[m] = h /\ \A x \in ToSet(s) : ny[x] = nx[x]
  BY <1>1, OnList
<1> HIDE DEF ny, t
<1>5. ASSUME NEW i \in 1 .. Len(t) PROVE ny[t[i]] = IF i = Len(t) THEN Null ELSE t[i + 1]
  <2>1. CASE i = 1
    <3>1. ny[t[i]] = h
      BY <1>3, <1>4, <2>1
    <3>2. h = IF s = <<>> THEN Null ELSE s[1]
      BY DEF Links
    <3>3. s # <<>> => i # Len(t) /\ t[i + 1] = s[1]
      BY <1>1, <1>2, <1>3, <2>1
    <3>4. s = <<>> => i = Len(t)
      BY <1>2, <2>1
    <3> QED BY <3>1, <3>2, <3>3, <3>4
  <2>2. CASE i # 1
    <3>1. i - 1 \in 1 .. Len(s) /\ t[i] = s[i - 1] /\ (i = Len(t) <=> i - 1 = Len(s))
      BY <1>1, <1>2, <1>3, <2>2
    <3>2. nx[s[i - 1]] = IF i - 1 = Len(s) THEN Null ELSE s[i - 1 + 1]
      BY <3>1 DEF Links
    <3>3. ny[t[i]] = nx[s[i - 1]]
      BY <1>1, <1>4, <3>1, OnList
    <3>4. i # Len(t) => t[i + 1] = s[i - 1 + 1]
      BY <1>1, <1>2, <1>3, <2>2
    <3> QED BY <3>1, <3>2, <3>3, <3>4
  <2> QED BY <2>1, <2>2
<1>6. t # <<>>
  BY <1>1, <1>2
<1> QED BY <1>2, <1>3, <1>5, <1>6 DEF Links, ny, t

\* What the reversal and loop_deliver() do: the first message is taken off.
LEMMA LinksTail ==
  ASSUME NEW nx, NEW m, NEW s, Links(nx, m, s), m # Null
  PROVE  /\ Links(nx, nx[m], Tail(s)) /\ s = <<m>> \o Tail(s) /\ m \notin ToSet(Tail(s))
         /\ nx[m] = Null <=> Tail(s) = <<>>
<1>1. s \in Lists(Msg) /\ s # <<>> /\ m = s[1] /\ s \in Seq(Msg) /\ Len(s) \in Nat /\ Len(s) > 0
  BY LinksIn, OnList
<1> DEFINE t == Tail(s)
<1>2. /\ t \in Lists(Msg) /\ ToSet(t) = ToSet(s) \ {m} /\ Len(t) = Len(s) - 1
      /\ \A i \in 1 .. Len(s) - 1 : t[i] = s[i + 1]
  BY <1>1, TailList, HeadTailProperties
<1>3. s = <<m>> \o t
  BY <1>1
<1>4. nx[m] = IF Len(s) = 1 THEN Null ELSE s[2]
  <2>1. 1 \in 1 .. Len(s)
    BY <1>1
  <2>2. nx[s[1]] = IF 1 = Len(s) THEN Null ELSE s[1 + 1]
    BY <2>1 DEF Links
  <2> QED BY <1>1, <2>2
<1> HIDE DEF t
<1>5. nx[m] = IF t = <<>> THEN Null ELSE t[1]
  BY <1>1, <1>2, <1>4, OnList
<1>6. ASSUME NEW i \in 1 .. Len(t) PROVE nx[t[i]] = IF i = Len(t) THEN Null ELSE t[i + 1]
  <2>1. i + 1 \in 1 .. Len(s) /\ t[i] = s[i + 1] /\ (i = Len(t) <=> i + 1 = Len(s))
        /\ (i # Len(t) => t[i + 1] = s[i + 1 + 1])
    BY <1>1, <1>2
  <2> QED BY <2>1 DEF Links
<1>7. Links(nx, nx[m], t)
  BY <1>2, <1>5, <1>6 DEF Links
<1>8. nx[m] = Null <=> t = <<>>
  BY <1>7, LinksIn
<1> QED BY <1>2, <1>3, <1>7, <1>8 DEF t

\* What loop_collect() does: a list is linked behind another.
LEMMA LinksJoin ==
  ASSUME NEW nx \in [Msg -> Link], NEW m, NEW s, Links(nx, m, s), s # <<>>,
         NEW h, NEW t, Links(nx, h, t), t # <<>>, ToSet(s) \cap ToSet(t) = {}
  PROVE  Links([nx EXCEPT ![s[Len(s)]] = h], m, s \o t)
<1> DEFINE z == s[Len(s)]
           ny == [nx EXCEPT ![z] = h]
           u == s \o t
<1>1. /\ s \in Lists(Msg) /\ s \in Seq(Msg) /\ Len(s) \in Nat /\ Len(s) > 0
      /\ t \in Lists(Msg) /\ t \in Seq(Msg) /\ Len(t) \in Nat /\ Len(t) > 0
      /\ z \in Msg /\ z \in ToSet(s)
  BY OnList DEF Links
<1>2. /\ u \in Lists(Msg) /\ Len(u) = Len(s) + Len(t)
      /\ \A i \in 1 .. Len(s) + Len(t) : u[i] = IF i <= Len(s) THEN s[i] ELSE t[i - Len(s)]
  BY <1>1, ConcatLists, ConcatProperties
<1>3. ny[z] = h /\ \A x \in Msg : x # z => ny[x] = nx[x]
  BY <1>1
<1>4. \A i \in 1 .. Len(s) - 1 : s[i] # z /\ s[i] \in Msg
  BY <1>1, OnList
<1>5. \A i \in 1 .. Len(t) : t[i] # z /\ t[i] \in Msg
  BY <1>1, OnList
<1> HIDE DEF z, ny, u
<1>6. ASSUME NEW i \in 1 .. Len(u) PROVE ny[u[i]] = IF i = Len(u) THEN Null ELSE u[i + 1]
  <2>1. CASE i < Len(s)
    <3>1. i \in 1 .. Len(s) - 1 /\ i \in 1 .. Len(s) /\ u[i] = s[i] /\ u[i + 1] = s[i + 1]
          /\ i # Len(u) /\ i # Len(s)
      BY <1>1, <1>2, <2>1
    <3>2. nx[s[i]] = s[i + 1]
      BY <3>1 DEF Links
    <3> QED BY <1>3, <1>4, <3>1, <3>2
  <2>2. CASE i = Len(s)
    <3>1. u[i] = z /\ u[i + 1] = t[1] /\ i # Len(u)
      BY <1>1, <1>2, <2>2 DEF z
    <3>2. h = t[1]
      BY DEF Links
    <3> QED BY <1>3, <3>1, <3>2
  <2>3. CASE i > Len(s)
    <3> DEFINE j == i - Len(s)
    <3>1. j \in 1 .. Len(t) /\ u[i] = t[j] /\ (i = Len(u) <=> j = Len(t))
          /\ (i # Len(u) => u[i + 1] = t[j + 1])
      BY <1>1, <1>2, <2>3
    <3> HIDE DEF j
    <3>2. nx[t[j]] = IF j = Len(t) THEN Null ELSE t[j + 1]
      BY <3>1 DEF Links
    <3> QED BY <1>3, <1>5, <3>1, <3>2
  <2> QED BY <1>1, <1>2, <2>1, <2>2, <2>3
<1>7. u # <<>> /\ m = u[1]
  BY <1>1, <1>2 DEF Links
<1> QED BY <1>2, <1>6, <1>7 DEF Links, z, ny, u

-----------------------------------------------------------------------------
(* What is posted, in order.                                               *)

LEMMA ReverseIs ==
  ASSUME NEW T, NEW s \in Seq(T)
  PROVE  /\ Reverse(s) \in Seq(T) /\ Len(Reverse(s)) = Len(s)
         /\ \A i \in 1 .. Len(s) : Reverse(s)[i] = s[Len(s) - i + 1]
<1>1. \A i \in 1 .. Len(s) : Len(s) - i + 1 \in 1 .. Len(s)
  OBVIOUS
<1> QED BY <1>1 DEF Reverse

LEMMA ReverseNone == Reverse(<<>>) = <<>>
BY DEF Reverse

LEMMA ReversePut ==
  ASSUME NEW T, NEW s \in Seq(T), NEW x \in T
  PROVE  Reverse(<<x>> \o s) = Append(Reverse(s), x)
<1> DEFINE n == Len(s)
           u == <<x>> \o s
           r == Reverse(u)
           v == Reverse(s)
           w == Append(v, x)
<1>1. n \in Nat /\ u \in Seq(T) /\ Len(u) = n + 1 /\ u[1] = x /\ \A i \in 2 .. n + 1 : u[i] = s[i - 1]
  OBVIOUS
<1>2. r \in Seq(T) /\ Len(r) = n + 1 /\ \A i \in 1 .. n + 1 : r[i] = u[n + 1 - i + 1]
  <2>1. /\ r \in Seq(T) /\ Len(r) = Len(u)
        /\ \A i \in 1 .. Len(u) : r[i] = u[Len(u) - i + 1]
    BY <1>1, ReverseIs, Zenon
  <2> HIDE DEF u, n, r
  <2> QED BY <1>1, <2>1
<1>3. v \in Seq(T) /\ Len(v) = n /\ \A i \in 1 .. n : v[i] = s[n - i + 1]
  BY ReverseIs
<1> HIDE DEF u, r, v, n
<1>4. /\ w \in Seq(T) /\ Len(w) = n + 1 /\ w[n + 1] = x
      /\ \A i \in 1 .. n : w[i] = v[i]
  BY <1>1, <1>3, AppendProperties
<1> HIDE DEF w
<1>5. ASSUME NEW i \in 1 .. n + 1 PROVE r[i] = w[i]
  <2>1. CASE i = n + 1
    BY <1>1, <1>2, <1>4, <2>1
  <2>2. CASE i # n + 1
    <3>1. i \in 1 .. n /\ n + 1 - i + 1 \in 2 .. n + 1 /\ n + 1 - i + 1 - 1 = n - i + 1
      BY <1>1, <2>2
    <3>2. r[i] = u[n + 1 - i + 1] /\ w[i] = v[i] /\ v[i] = s[n - i + 1]
      BY <1>2, <1>3, <1>4, <3>1
    <3> DEFINE j == n + 1 - i + 1
    <3>3. j \in 2 .. n + 1 /\ j - 1 = n - i + 1 /\ r[i] = u[j]
      BY <1>1, <3>1, <3>2
    <3> HIDE DEF j
    <3>4. u[j] = s[j - 1]
      BY <1>1, <3>3
    <3> QED BY <3>2, <3>3, <3>4
  <2> QED BY <2>1, <2>2
<1>6. r = w
  BY <1>2, <1>4, <1>5, SeqEqual
<1> QED BY <1>6 DEF w, r, u, v

\* What the four lists hold, oldest first.
Line(a, b, c, d) == ((a \o Reverse(b)) \o c) \o Reverse(d)

LEMMA LineIs ==
  ASSUME NEW a \in Seq(Msg), NEW b \in Seq(Msg), NEW c \in Seq(Msg), NEW d \in Seq(Msg)
  PROVE  Line(a, b, c, d) \in Seq(Msg)
BY ReverseIs, ConcatProperties DEF Line

LEMMA LineHolds ==
  ASSUME NEW a \in Lists(Msg), NEW b \in Lists(Msg), NEW c \in Lists(Msg), NEW d \in Lists(Msg),
         NEW m, m \notin ToSet(a), m \notin ToSet(b), m \notin ToSet(c), m \notin ToSet(d)
  PROVE  \A i \in 1 .. Len(Line(a, b, c, d)) : Line(a, b, c, d)[i] # m
<1> DEFINE rb == Reverse(b)
           rd == Reverse(d)
           ab == a \o rb
           abc == ab \o c
           l == abc \o rd
<1>1. /\ a \in Seq(Msg) /\ b \in Seq(Msg) /\ c \in Seq(Msg) /\ d \in Seq(Msg)
      /\ \A i \in 1 .. Len(a) : a[i] # m
      /\ \A i \in 1 .. Len(b) : b[i] # m
      /\ \A i \in 1 .. Len(c) : c[i] # m
      /\ \A i \in 1 .. Len(d) : d[i] # m
  BY OnList
<1>0. ASSUME NEW s \in Seq(Msg), \A i \in 1 .. Len(s) : s[i] # m
      PROVE  Reverse(s) \in Seq(Msg) /\ \A i \in 1 .. Len(Reverse(s)) : Reverse(s)[i] # m
  <2>1. /\ Reverse(s) \in Seq(Msg) /\ Len(Reverse(s)) = Len(s)
        /\ \A i \in 1 .. Len(s) : Reverse(s)[i] = s[Len(s) - i + 1]
    BY ReverseIs
  <2>2. \A i \in 1 .. Len(s) : Len(s) - i + 1 \in 1 .. Len(s)
    OBVIOUS
  <2> QED BY <1>0, <2>1, <2>2
<1>2. rb \in Seq(Msg) /\ \A i \in 1 .. Len(rb) : rb[i] # m
  BY <1>0, <1>1
<1>3. rd \in Seq(Msg) /\ \A i \in 1 .. Len(rd) : rd[i] # m
  BY <1>0, <1>1
<1> HIDE DEF rb, rd
<1>4. ASSUME NEW s \in Seq(Msg), NEW t \in Seq(Msg),
             \A i \in 1 .. Len(s) : s[i] # m, \A i \in 1 .. Len(t) : t[i] # m
      PROVE  s \o t \in Seq(Msg) /\ \A i \in 1 .. Len(s \o t) : (s \o t)[i] # m
  BY <1>4, ConcatProperties
<1>5. ab \in Seq(Msg) /\ \A i \in 1 .. Len(ab) : ab[i] # m
  BY <1>1, <1>2, <1>4
<1> HIDE DEF ab
<1>6. abc \in Seq(Msg) /\ \A i \in 1 .. Len(abc) : abc[i] # m
  BY <1>1, <1>5, <1>4
<1> HIDE DEF abc
<1>7. l \in Seq(Msg) /\ \A i \in 1 .. Len(l) : l[i] # m
  BY <1>3, <1>6, <1>4
<1> QED BY <1>7 DEF Line, l, abc, ab, rb, rd

LEMMA LinePost ==
  ASSUME NEW x \in Seq(Msg), NEW d \in Seq(Msg), NEW m \in Msg
  PROVE  x \o Reverse(<<m>> \o d) = Append(x \o Reverse(d), m)
<1> DEFINE r == Reverse(d)
<1>1. r \in Seq(Msg)
  BY ReverseIs
<1>2. Reverse(<<m>> \o d) = Append(r, m)
  BY ReversePut
<1> HIDE DEF r
<1>3. Append(r, m) = r \o <<m>> /\ <<m>> \in Seq(Msg) /\ x \o r \in Seq(Msg)
  BY <1>1, AppendIsConcat, ConcatProperties
<1>4. Append(x \o r, m) = (x \o r) \o <<m>>
  BY <1>3, AppendIsConcat
<1>5. x \o (r \o <<m>>) = (x \o r) \o <<m>>
  BY <1>1, <1>3, ConcatAssociative
<1>6. x \o Append(r, m) = Append(x \o r, m)
  BY <1>3, <1>4, <1>5
<1> QED BY <1>2, <1>6 DEF r

LEMMA LineCollect ==
  ASSUME NEW a \in Seq(Msg), NEW d \in Seq(Msg)
  PROVE  Line(a, <<>>, <<>>, d) = Line(a, d, <<>>, <<>>) /\ Line(a, <<>>, <<>>, d) = a \o Reverse(d)
<1>1. Reverse(d) \in Seq(Msg) /\ a \o Reverse(d) \in Seq(Msg)
  BY ReverseIs, ConcatProperties
<1>2. a \o <<>> = a /\ (a \o Reverse(d)) \o <<>> = a \o Reverse(d)
  BY <1>1, ConcatEmptySeq
<1> QED BY <1>2, ReverseNone DEF Line

LEMMA LineReverse ==
  ASSUME NEW a \in Seq(Msg), NEW b \in Seq(Msg), NEW c \in Seq(Msg), NEW d \in Seq(Msg),
         NEW m \in Msg
  PROVE  Line(a, <<m>> \o b, c, d) = Line(a, b, <<m>> \o c, d)
<1> DEFINE r == Reverse(b)
           q == Reverse(d)
<1>1. r \in Seq(Msg) /\ q \in Seq(Msg) /\ <<m>> \in Seq(Msg)
  BY ReverseIs
<1>2. Reverse(<<m>> \o b) = r \o <<m>>
  BY <1>1, ReversePut, AppendIsConcat
<1> DEFINE y == <<m>>
           x == a \o r
<1> HIDE DEF r, q, y
<1>3. a \o (r \o y) = x \o y
  BY <1>1, ConcatAssociative DEF y
<1>4. x \in Seq(Msg) /\ y \in Seq(Msg)
  BY <1>1, ConcatProperties DEF y
<1> HIDE DEF x, y
<1>5. (x \o y) \o c = x \o (y \o c)
  BY <1>4, ConcatAssociative, SMTT(30)
<1>6. ((a \o (r \o y)) \o c) \o q = ((a \o r) \o (y \o c)) \o q
  <2>1. a \o (r \o y) = (a \o r) \o y /\ ((a \o r) \o y) \o c = (a \o r) \o (y \o c)
    BY <1>3, <1>5, Zenon DEF x
  <2> QED BY <2>1, Zenon
<1>7. Line(a, <<m>> \o b, c, d) = ((a \o (r \o y)) \o c) \o q
  BY <1>2, Zenon DEF Line, r, q, y
<1>8. Line(a, b, <<m>> \o c, d) = ((a \o r) \o (y \o c)) \o q
  BY Zenon DEF Line, r, q, y
<1> QED BY <1>6, <1>7, <1>8, Zenon

LEMMA LineJoin ==
  ASSUME NEW a \in Seq(Msg), NEW c \in Seq(Msg), NEW d \in Seq(Msg)
  PROVE  Line(a, <<>>, c, d) = Line(a \o c, <<>>, <<>>, d)
<1>1. a \o <<>> = a /\ a \o c \in Seq(Msg) /\ (a \o c) \o <<>> = a \o c
  BY ConcatEmptySeq, ConcatProperties
<1> QED BY <1>1, ReverseNone DEF Line

LEMMA LineDeliver ==
  ASSUME NEW a \in Seq(Msg), NEW d \in Seq(Msg), a # <<>>
  PROVE  /\ Line(a, <<>>, <<>>, d) # <<>> /\ Head(Line(a, <<>>, <<>>, d)) = a[1]
         /\ Tail(Line(a, <<>>, <<>>, d)) = Line(Tail(a), <<>>, <<>>, d)
<1> DEFINE r == Reverse(d)
           t == Tail(a)
<1>1. /\ r \in Seq(Msg) /\ t \in Seq(Msg) /\ Len(a) \in Nat /\ Len(a) > 0
      /\ Len(t) = Len(a) - 1 /\ \A i \in 1 .. Len(t) : t[i] = a[i + 1]
  BY ReverseIs, HeadTailProperties
<1>2. Line(a, <<>>, <<>>, d) = a \o r /\ Line(t, <<>>, <<>>, d) = t \o r
  BY <1>1, LineCollect
<1> HIDE DEF r, t
<1>3. (a \o r) # <<>> /\ Head(a \o r) = a[1] /\ Tail(a \o r) = t \o r
  <2> DEFINE u == a \o r
             v == t \o r
  <2>1. /\ u \in Seq(Msg) /\ Len(u) = Len(a) + Len(r)
        /\ \A i \in 1 .. Len(a) + Len(r) : u[i] = IF i <= Len(a) THEN a[i] ELSE r[i - Len(a)]
    BY <1>1, ConcatProperties
  <2>2. /\ v \in Seq(Msg) /\ Len(v) = Len(t) + Len(r)
        /\ \A i \in 1 .. Len(t) + Len(r) : v[i] = IF i <= Len(t) THEN t[i] ELSE r[i - Len(t)]
    BY <1>1, ConcatProperties
  <2> HIDE DEF u, v
  <2>3. Len(r) \in Nat /\ Len(u) > 0 /\ u # <<>>
    BY <1>1, <2>1
  <2>4. /\ Tail(u) \in Seq(Msg) /\ Len(Tail(u)) = Len(u) - 1
        /\ \A i \in 1 .. Len(Tail(u)) : Tail(u)[i] = u[i + 1]
    BY <2>1, <2>3, HeadTailProperties
  <2>5. Head(u) = a[1]
    BY <1>1, <2>1, <2>3
  <2>6. ASSUME NEW i \in 1 .. Len(v) PROVE Tail(u)[i] = v[i]
    <3>1. i \in 1 .. Len(Tail(u)) /\ i + 1 \in 1 .. Len(a) + Len(r) /\ i \in 1 .. Len(t) + Len(r)
      BY <1>1, <2>1, <2>2, <2>3, <2>4
    <3>2. CASE i <= Len(t)
      <4>1. i + 1 <= Len(a) /\ i \in 1 .. Len(t)
        BY <1>1, <3>2
      <4> QED BY <1>1, <2>1, <2>2, <2>4, <3>1, <3>2, <4>1
    <3>3. CASE ~(i <= Len(t))
      <4>1. ~(i + 1 <= Len(a)) /\ i + 1 - Len(a) = i - Len(t)
        BY <1>1, <3>3
      <4>2. v[i] = r[i - Len(t)]
        BY <2>2, <3>1, <3>3
      <4>3. Tail(u)[i] = u[i + 1]
        BY <2>4, <3>1
      <4>4. u[i + 1] = r[i + 1 - Len(a)]
        BY <2>1, <3>1, <4>1
      <4> QED BY <4>1, <4>2, <4>3, <4>4
    <3> QED BY <3>2, <3>3
  <2>7. Len(Tail(u)) = Len(v)
    BY <1>1, <2>1, <2>2, <2>3, <2>4
  <2>8. Tail(u) = v
    BY <2>2, <2>4, <2>6, <2>7, SeqEqual
  <2> QED BY <2>3, <2>5, <2>8 DEF u, v
<1> QED BY <1>2, <1>3 DEF t

-----------------------------------------------------------------------------
(* The four lists as sequences: a is the mail, b what is left of the list  *)
(* taken, c its reversed part, d the inbox.  Each is the list that its     *)
(* pointers link, and holds the messages that are in it.                   *)

Laid(a, b, c, d) ==
  /\ Links(next, mail, a) /\ Links(next, msg, b)
  /\ Links(next, fifo, c) /\ Links(next, inbox, d)
  /\ \A m \in Msg : /\ m \in ToSet(a) <=> where[m] = "mail"
                    /\ m \in ToSet(b) <=> where[m] = "taken"
                    /\ m \in ToSet(c) <=> where[m] = "turned"
                    /\ m \in ToSet(d) <=> where[m] = "inbox"
  /\ mail_last = IF a = <<>> THEN Null ELSE a[Len(a)]
  /\ c # <<>> => last = c[Len(c)]

LEMMA LaidLists ==
  ASSUME NEW a, NEW b, NEW c, NEW d, Laid(a, b, c, d)
  PROVE  /\ a \in Lists(Msg) /\ b \in Lists(Msg) /\ c \in Lists(Msg) /\ d \in Lists(Msg)
         /\ a \in Seq(Msg) /\ b \in Seq(Msg) /\ c \in Seq(Msg) /\ d \in Seq(Msg)
BY OnList, LinksIn DEF Laid

LEMMA LaidQueue ==
  ASSUME NEW a, NEW b, NEW c, NEW d, Laid(a, b, c, d)
  PROVE  Queue = Line(a, b, c, d)
<1>1. Chain(mail) = a /\ Chain(msg) = b /\ Chain(fifo) = c /\ Chain(inbox) = d
  BY ChainIs DEF Laid, Chain
<1>2. Queue = ((a \o Reverse(b)) \o c) \o Reverse(d)
  BY <1>1 DEF Queue
<1> QED BY <1>2 DEF Line

LEMMA LaidQueueNext ==
  ASSUME NEW a, NEW b, NEW c, NEW d, Laid(a, b, c, d)'
  PROVE  Queue' = Line(a, b, c, d)
<1>1. Chain(mail)' = a /\ Chain(msg)' = b /\ Chain(fifo)' = c /\ Chain(inbox)' = d
  BY ChainIs DEF Laid, Chain
<1>2. Queue' = ((a \o Reverse(b)) \o c) \o Reverse(d)
  BY <1>1 DEF Queue
<1> QED BY <1>2 DEF Line

-----------------------------------------------------------------------------
(* The steps.  Beside the lists, NothingLeft needs that a message that is  *)
(* held is its poster's, and that in loop_fini() nobody posts but the      *)
(* handler that runs, so that an inbox that was collected stays empty      *)
(* until the next handler.                                                 *)

Held == \A m \in Msg : where[m] = "held" =>
          \E p \in Thread : pc[p] \in {"load", "cas"} /\ pm[p] = m

Ending ==
  /\ lpc = "gone" => flags = "fini" /\ mail = Null
  /\ flags = "fini" =>
       /\ lpc \in {"collect", "reverse", "join", "deliver", "handle", "gone"}
       /\ \A p \in Thread : pc[p] # "idle" => p = Self /\ lpc = "handle"
       /\ lpc \notin {"collect", "handle"} => inbox = Null

OrderInv ==
  /\ ListInv /\ Held /\ Ending
  /\ \E a \in Lists(Msg), b \in Lists(Msg), c \in Lists(Msg), d \in Lists(Msg) : Laid(a, b, c, d)

\* What a step of the inbox is to the mailbox.
Served == [MB!MNext]_(MB!mvars)

LEMMA ServedStill == Queue' = Queue /\ Free' = Free => Served
BY DEF Served, MB!mvars

LEMMA ServedPick ==
  ASSUME NEW m \in Msg, m \in Free, Free' = Free \ {m}, Queue' = Queue
  PROVE  Served
<1>1. MB!Pick(m)
  BY DEF MB!Pick
<1> QED BY <1>1 DEF Served, MB!MNext

LEMMA ServedPost ==
  ASSUME NEW m \in Msg, m \notin Free, \A i \in 1 .. Len(Queue) : Queue[i] # m,
         Queue' = Append(Queue, m), Free' = Free
  PROVE  Served
<1>1. MB!Post(m)
  BY DEF MB!Post
<1> QED BY <1>1 DEF Served, MB!MNext

LEMMA ServedDeliver ==
  ASSUME Queue # <<>>, Queue' = Tail(Queue), Free' = Free \cup {Head(Queue)}
  PROVE  Served
<1>1. MB!Deliver
  BY DEF MB!Deliver
<1> QED BY <1>1 DEF Served, MB!MNext

\* The steps that change neither a list nor who holds what.
LEMMA LaidStill ==
  ASSUME NEW a, NEW b, NEW c, NEW d, Laid(a, b, c, d),
         UNCHANGED <<inbox, mail, mail_last, msg, fifo, last, where>>,
         \A m \in Msg : where[m] \in OnLoop => next'[m] = next[m]
  PROVE  Laid(a, b, c, d)' /\ Served
<1>1. \A x \in ToSet(a) \cup ToSet(b) \cup ToSet(c) \cup ToSet(d) : next'[x] = next[x]
  <2>1. ToSet(a) \cup ToSet(b) \cup ToSet(c) \cup ToSet(d) \subseteq Msg
    BY LaidLists, OnList
  <2>2. \A x \in Msg : x \in ToSet(a) \cup ToSet(b) \cup ToSet(c) \cup ToSet(d) =>
                      where[x] \in OnLoop
    BY DEF Laid, OnLoop
  <2> QED BY <2>1, <2>2
<1>2. Links(next, mail, a) /\ Links(next, msg, b) /\ Links(next, fifo, c) /\ Links(next, inbox, d)
  BY DEF Laid
<1>3. Links(next', mail, a) /\ Links(next', msg, b) /\ Links(next', fifo, c) /\ Links(next', inbox, d)
  BY <1>1, <1>2, LinksKept
<1>4. Laid(a, b, c, d)'
  BY <1>3 DEF Laid
<1>5. Queue' = Queue
  BY <1>4, LaidQueue, LaidQueueNext
<1>6. Free' = Free
  BY DEF Free
<1> QED BY <1>4, <1>5, <1>6, ServedStill

LEMMA OrderPoke == ASSUME OrderInv, Poke PROVE OrderInv' /\ Served
<1> PICK p \in Thread : PostBegin(p) \/ PostStep(p)
  BY DEF Poke
<1> PICK a \in Lists(Msg), b \in Lists(Msg), c \in Lists(Msg), d \in Lists(Msg) : Laid(a, b, c, d)
  BY DEF OrderInv
<1>0. ListInv' /\ ListInv /\ TypeOK /\ Held /\ Ending
  BY ListPoke DEF OrderInv, ListInv
<1> SUFFICES Held' /\ Ending' /\ Served /\ \E w \in Lists(Msg), x \in Lists(Msg), y \in Lists(Msg),
                                           z \in Lists(Msg) : Laid(w, x, y, z)'
  BY <1>0 DEF OrderInv
<1> USE DEF shared, mailbag, turn, reversing
<1>1. CASE PostBegin(p)
  <2>1. PICK m \in Msg : /\ where[m] = "free"
                         /\ pm' = [pm EXCEPT ![p] = m]
                         /\ where' = [where EXCEPT ![m] = "held"]
    BY <1>1 DEF PostBegin
  <2>2. /\ pc[p] = "idle" /\ pc' = [pc EXCEPT ![p] = "load"]
        /\ flags = "fini" => p = Self /\ lpc \in {"events", "handle", "steps"}
        /\ UNCHANGED <<inbox, next, mail, mail_last, msg, fifo, last, flags, lpc>>
    BY <1>1 DEF PostBegin
  <2>3. Laid(a, b, c, d)'
    BY <1>0, <2>1, <2>2 DEF Laid, TypeOK
  <2>4. Held'
    BY <1>0, <2>1, <2>2 DEF Held, TypeOK
  <2>5. Ending'
    BY <1>0, <2>2 DEF Ending, TypeOK
  <2>6. Queue' = Queue
    BY <2>3, LaidQueue, LaidQueueNext
  <2>7. m \in Free /\ Free' = Free \ {m}
    BY <1>0, <2>1 DEF Free, TypeOK
  <2> QED BY <2>3, <2>4, <2>5, <2>6, <2>7, ServedPick
<1>2. CASE PostLoad(p) \/ PostAsleep(p) \/ PostWrite(p)
  <2>1. UNCHANGED <<inbox, next, mail, mail_last, msg, fifo, last, where, flags, lpc>>
    BY <1>2 DEF PostLoad, PostAsleep, PostWrite
  <2>2. Laid(a, b, c, d)' /\ Served
    BY <2>1, LaidStill
  <2>3. Held'
    BY <1>0, <1>2 DEF Held, PostLoad, PostAsleep, PostWrite, TypeOK
  <2>4. Ending'
    BY <1>0, <1>2 DEF Ending, PostLoad, PostAsleep, PostWrite, TypeOK
  <2> QED BY <2>2, <2>3, <2>4
<1>3. CASE PostSwap(p)
  <2>0. /\ pc[p] = "cas" /\ pm[p] \in Msg /\ where[pm[p]] = "held" /\ head[p] # pm[p]
        /\ next' = [next EXCEPT ![pm[p]] = head[p]]
        /\ UNCHANGED <<mail, mail_last, msg, fifo, last, flags, lpc, pm>>
    BY <1>0, <1>3 DEF PostSwap, Holding, ListInv
  <2>1. flags = "fini" => p = Self /\ lpc = "handle"
    BY <1>0, <2>0 DEF Ending
  <2>2. Ending'
    BY <1>0, <1>3, <2>0, <2>1 DEF Ending, PostSwap, TypeOK
  <2>3. CASE inbox = head[p]
    <3>0. PICK m \in Msg : m = pm[p]
      BY <2>0
    <3>1. /\ inbox' = m /\ where' = [where EXCEPT ![m] = "inbox"]
          /\ pc' = [pc EXCEPT ![p] = "swap"] /\ next' = [next EXCEPT ![m] = inbox]
      BY <1>3, <2>0, <2>3, <3>0 DEF PostSwap
    <3>2. m \in Msg /\ where[m] = "held" /\ next \in [Msg -> Link] /\ where \in [Msg -> {"free", "held"} \cup OnLoop]
      BY <1>0, <2>0, <3>0 DEF TypeOK
    <3>3. Held'
      BY <1>0, <2>0, <3>0, <3>1, <3>2 DEF Held, TypeOK
    <3>4. m \notin ToSet(a) /\ m \notin ToSet(b) /\ m \notin ToSet(c) /\ m \notin ToSet(d)
      BY <3>2 DEF Laid
    <3>5. Links(next, inbox, d)
      BY DEF Laid
    <3>6. Links(next', m, <<m>> \o d)
      BY <3>1, <3>2, <3>4, <3>5, LinksPut
    <3>7. \A x \in ToSet(a) \cup ToSet(b) \cup ToSet(c) : next'[x] = next[x]
      <4>1. ToSet(a) \cup ToSet(b) \cup ToSet(c) \subseteq Msg
        BY OnList
      <4> QED BY <3>1, <3>2, <3>4, <4>1
    <3>8. Links(next', mail, a) /\ Links(next', msg, b) /\ Links(next', fifo, c)
      BY <3>7, LinksKept DEF Laid
    <3>9. <<m>> \o d \in Lists(Msg) /\ ToSet(<<m>> \o d) = ToSet(d) \cup {m}
      BY <3>2, <3>4, PutFirst
    <3>10. Laid(a, b, c, <<m>> \o d)'
      <4> DEFINE e == <<m>> \o d
      <4>1. e \in Lists(Msg) /\ ToSet(e) = ToSet(d) \cup {m} /\ Links(next', m, e)
        BY <3>6, <3>9
      <4> HIDE DEF e
      <4>2. Laid(a, b, c, e)'
        <5>1. /\ Links(next', mail', a) /\ Links(next', msg', b)
              /\ Links(next', fifo', c) /\ Links(next', inbox', e)
          BY <2>0, <3>1, <3>8, <4>1
        <5>2. ASSUME NEW x \in Msg
              PROVE  /\ x \in ToSet(a) <=> where'[x] = "mail"
                     /\ x \in ToSet(b) <=> where'[x] = "taken"
                     /\ x \in ToSet(c) <=> where'[x] = "turned"
                     /\ x \in ToSet(e) <=> where'[x] = "inbox"
          BY <3>1, <3>2, <3>4, <4>1 DEF Laid
        <5> QED BY <2>0, <5>1, <5>2 DEF Laid
      <4> QED BY <4>2 DEF e
    <3>11. Queue' = Append(Queue, m)
      <4>1. Queue = Line(a, b, c, d) /\ Queue' = Line(a, b, c, <<m>> \o d)
        BY <3>10, LaidQueue, LaidQueueNext
      <4>2. a \in Seq(Msg) /\ b \in Seq(Msg) /\ c \in Seq(Msg) /\ d \in Seq(Msg)
        BY OnList
      <4>3. Line(a, b, c, <<m>> \o d) = Append(Line(a, b, c, d), m)
        <5> DEFINE x == (a \o Reverse(b)) \o c
        <5>1. x \in Seq(Msg)
          BY <4>2, ReverseIs, ConcatProperties
        <5> HIDE DEF x
        <5>2. x \o Reverse(<<m>> \o d) = Append(x \o Reverse(d), m)
          BY <4>2, <5>1, LinePost
        <5> QED BY <5>2 DEF Line, x
      <4> QED BY <4>1, <4>3
    <3>12. Free' = Free /\ m \notin Free
      BY <3>1, <3>2 DEF Free
    <3>13. \A i \in 1 .. Len(Queue) : Queue[i] # m
      BY <3>4, LineHolds, LaidQueue
    <3>14. Served
      BY <3>2, <3>11, <3>12, <3>13, ServedPost
    <3>15. \E z \in Lists(Msg) : Laid(a, b, c, z)'
      BY <3>9, <3>10
    <3> QED BY <2>2, <3>3, <3>14, <3>15
  <2>4. CASE inbox # head[p]
    <3>1. UNCHANGED <<inbox, where, pc>>
      BY <1>3, <2>0, <2>4 DEF PostSwap
    <3>2. \A m \in Msg : where[m] \in OnLoop => next'[m] = next[m]
      BY <1>0, <2>0 DEF OnLoop, TypeOK
    <3>3. Laid(a, b, c, d)' /\ Served
      BY <2>0, <3>1, <3>2, LaidStill
    <3>4. Held'
      BY <1>0, <2>0, <3>1 DEF Held
    <3> QED BY <2>2, <3>3, <3>4
  <2> QED BY <2>3, <2>4
<1> QED BY <1>1, <1>2, <1>3 DEF PostStep

LEMMA OrderTurn == ASSUME OrderInv, Turn PROVE OrderInv' /\ Served
<1> PICK a \in Lists(Msg), b \in Lists(Msg), c \in Lists(Msg), d \in Lists(Msg) : Laid(a, b, c, d)
  BY DEF OrderInv
<1>0. ListInv' /\ ListInv /\ TypeOK /\ ListsApart /\ Collecting /\ Held /\ Ending
  BY ListTurn DEF OrderInv, ListInv
<1> DEFINE Lain == \E w \in Lists(Msg), x \in Lists(Msg), y \in Lists(Msg), z \in Lists(Msg) :
                     Laid(w, x, y, z)
<1> SUFFICES Held' /\ Ending' /\ Served /\ Lain'
  BY <1>0 DEF OrderInv
<1> USE DEF shared, mailbag, turn
<1>s. a \in Seq(Msg) /\ b \in Seq(Msg) /\ c \in Seq(Msg) /\ d \in Seq(Msg) /\ <<>> \in Lists(Msg)
  BY OnList, EmptyList
<1>1. ASSUME UNCHANGED <<inbox, next, mail, mail_last, where, pc, pm>>, UNCHANGED reversing
      PROVE  Held' /\ Served /\ Lain'
  <2>1. Held'
    BY <1>0, <1>1 DEF Held
  <2>2. Laid(a, b, c, d)' /\ Served
    BY <1>1, LaidStill DEF reversing
  <2> QED BY <2>1, <2>2
<1>2. ASSUME LoopPlan \/ LoopDoze \/ LoopLook \/ LoopEvents \/ LoopHandled \/ LoopDelivered \/ LoopSteps
             \/ LoopFini \/ LoopGone
      PROVE  Held' /\ Ending' /\ Served /\ Lain'
  <2>1. Held' /\ Served /\ Lain'
    BY <1>1, <1>2 DEF LoopPlan, LoopDoze, LoopLook, LoopEvents, LoopHandled, LoopDelivered, LoopSteps,
                     LoopFini, LoopGone, posting
  <2>2. Ending'
    BY <1>0, <1>2 DEF Ending, LoopPlan, LoopDoze, LoopLook, LoopEvents, LoopHandled, LoopDelivered,
                     LoopSteps, LoopFini, LoopGone, posting
  <2> QED BY <2>1, <2>2
<1>3. ASSUME LoopClear \/ \E w \in {"eventfd", "others", "EINTR", "error"} : WaitEnd(w)
      PROVE  Held' /\ Ending' /\ Served /\ Lain'
  <2>1. Held' /\ Served /\ Lain'
    BY <1>1, <1>3 DEF LoopClear, WaitEnd, posting
  <2>2. lpc \in {"clear", "wait"} /\ flags' = flags
    BY <1>3 DEF LoopClear, WaitEnd
  <2>3. lpc' # "gone"
    <3>1. CASE LoopClear
      <4>1. lpc' \in {"plan", "exited", "events"}
        BY <3>1, Zenon DEF LoopClear
      <4> QED BY <4>1
    <3>2. CASE \E w \in {"eventfd", "others", "EINTR", "error"} : WaitEnd(w)
      BY <3>2 DEF WaitEnd
    <3> QED BY <1>3, <3>1, <3>2
  <2>4. Ending'
    BY <1>0, <2>2, <2>3 DEF Ending
  <2> QED BY <2>1, <2>4
<1>4. CASE LoopCollect
  <2>1. CASE inbox = Null
    <3>1. Held' /\ Served /\ Lain'
      BY <1>1, <1>4, <2>1 DEF LoopCollect, reversing, posting
    <3>2. Ending'
      BY <1>0, <1>4, <2>1 DEF LoopCollect, Ending, posting
    <3> QED BY <3>1, <3>2
  <2>2. CASE inbox # Null
    <3>0. /\ lpc = "collect" /\ lpc' = "reverse"
          /\ msg' = inbox /\ last' = inbox /\ inbox' = Null
          /\ where' = Moved("inbox", "taken")
          /\ UNCHANGED <<next, mail, mail_last, fifo, flags, pc, pm>>
      BY <1>4, <2>2 DEF LoopCollect, posting
    <3>1. Held'
      BY <1>0, <3>0 DEF Held, Moved
    <3>2. Ending'
      BY <1>0, <3>0 DEF Ending
    <3>3. msg = Null /\ fifo = Null /\ b = <<>> /\ c = <<>>
      BY <1>0, <3>0, LinksIn DEF Collecting, Laid
    <3>4. Laid(a, d, <<>>, <<>>)'
      <4>1. /\ Links(next', mail', a) /\ Links(next', msg', d)
            /\ Links(next', fifo', <<>>) /\ Links(next', inbox', <<>>)
        BY <3>0, <3>3 , NoLinks DEF Laid
      <4>2. ASSUME NEW x \in Msg
            PROVE  /\ x \in ToSet(a) <=> where'[x] = "mail"
                   /\ x \in ToSet(d) <=> where'[x] = "taken"
                   /\ x \in ToSet(<<>>) <=> where'[x] = "turned"
                   /\ x \in ToSet(<<>>) <=> where'[x] = "inbox"
        BY <3>0, <3>3, EmptyList DEF Laid, Moved
      <4> QED BY <3>0, <4>1, <4>2 DEF Laid
    <3>5. Queue' = Queue
      <4>1. Queue = Line(a, <<>>, <<>>, d) /\ Queue' = Line(a, d, <<>>, <<>>)
        BY <3>3, <3>4, LaidQueue, LaidQueueNext
      <4> QED BY <1>s, <4>1, LineCollect
    <3>6. Free' = Free
      BY <3>0 DEF Free, Moved
    <3>7. Served
      BY <3>5, <3>6, ServedStill
    <3>8. Lain'
      BY <1>s, <3>4
    <3> QED BY <3>1, <3>2, <3>7, <3>8
  <2> QED BY <2>1, <2>2
<1>5. CASE LoopReverse
  <2>1. CASE msg = Null
    <3>1. Held' /\ Served /\ Lain'
      BY <1>1, <1>5, <2>1 DEF LoopReverse, reversing, posting
    <3>2. Ending'
      BY <1>0, <1>5, <2>1 DEF LoopReverse, Ending, posting
    <3> QED BY <3>1, <3>2
  <2>2. CASE msg # Null
    <3> PICK m \in Msg : m = msg
      BY <1>0, <2>2 DEF TypeOK, Link
    <3>0. /\ lpc = "reverse" /\ lpc' = "reverse"
          /\ next' = [next EXCEPT ![m] = fifo]
          /\ fifo' = m /\ msg' = next[m]
          /\ where' = [where EXCEPT ![m] = "turned"]
          /\ UNCHANGED <<inbox, mail, mail_last, last, flags, pc, pm>>
      BY <1>5, <2>2 DEF LoopReverse, posting
    <3>s. where[m] = "taken" /\ (fifo = Null => last = m) /\ next \in [Msg -> Link]
          /\ where \in [Msg -> {"free", "held"} \cup OnLoop]
      <4>1. where[m] = "taken"
        BY <1>0, <2>2 DEF ListsApart
      <4>2. fifo = Null => last = m
        BY <1>0, <3>0 DEF Collecting
      <4> QED BY <1>0, <4>1, <4>2 DEF TypeOK
    <3>1. Held'
      BY <1>0, <3>0, <3>s DEF Held
    <3>2. Ending'
      BY <1>0, <3>0 DEF Ending
    <3> DEFINE s == Tail(b)
               t == <<m>> \o c
    <3>3. Links(next, next[m], s) /\ b = <<m>> \o s /\ m \notin ToSet(s) /\ s \in Lists(Msg)
      <4>1. Links(next, m, b) /\ m # Null
        BY <2>2 DEF Laid
      <4> QED BY <4>1, LinksTail, LinksIn
    <3>4. ToSet(b) = ToSet(s) \cup {m} /\ s \in Seq(Msg)
      <4> HIDE DEF s
      <4> QED BY <3>3, PutFirst, OnList
    <3>5. m \notin ToSet(a) /\ m \notin ToSet(c) /\ m \notin ToSet(d)
      BY <3>s DEF Laid
    <3>6. t \in Lists(Msg) /\ ToSet(t) = ToSet(c) \cup {m} /\ Len(t) = Len(c) + 1
      BY <3>5, PutFirst
    <3>7. Links(next', m, t)
      BY <3>0, <3>s, <3>5, LinksPut DEF Laid
    <3>8. \A x \in ToSet(a) \cup ToSet(s) \cup ToSet(d) : next'[x] = next[x]
      <4>1. ToSet(a) \cup ToSet(s) \cup ToSet(d) \subseteq Msg
        BY <3>3, OnList
      <4> QED BY <3>0, <3>s, <3>3, <3>5, <4>1
    <3>9. t[Len(t)] = IF c = <<>> THEN m ELSE c[Len(c)]
      BY <1>s, <3>6
    <3>10. last = t[Len(t)]
      <4>1. c = <<>> <=> fifo = Null
        BY LinksIn DEF Laid
      <4> QED BY <3>s, <3>9, <4>1 DEF Laid
    <3> HIDE DEF s, t
    <3>11. Laid(a, s, t, d)'
      <4>1. /\ Links(next', mail', a) /\ Links(next', msg', s)
            /\ Links(next', fifo', t) /\ Links(next', inbox', d)
        <5>1. Links(next', mail, a) /\ Links(next', next[m], s) /\ Links(next', inbox, d)
          <6>1. Links(next, mail, a) /\ Links(next, next[m], s) /\ Links(next, inbox, d)
            BY <3>3 DEF Laid
          <6> QED BY <3>8, <6>1, LinksKept
        <5> QED BY <3>0, <3>7, <5>1
      <4>2. ASSUME NEW x \in Msg
            PROVE  /\ x \in ToSet(a) <=> where'[x] = "mail"
                   /\ x \in ToSet(s) <=> where'[x] = "taken"
                   /\ x \in ToSet(t) <=> where'[x] = "turned"
                   /\ x \in ToSet(d) <=> where'[x] = "inbox"
        BY <3>0, <3>s, <3>3, <3>4, <3>5, <3>6 DEF Laid
      <4> QED BY <3>0, <3>10, <4>1, <4>2 DEF Laid
    <3>12. Queue' = Queue
      <4>1. Queue = Line(a, <<m>> \o s, c, d) /\ Queue' = Line(a, s, <<m>> \o c, d)
        BY <3>3, <3>11, LaidQueue, LaidQueueNext DEF t
      <4> QED BY <1>s, <3>4, <4>1, LineReverse
    <3>13. Free' = Free
      BY <3>0, <3>s DEF Free
    <3>14. Served
      BY <3>12, <3>13, ServedStill
    <3>15. Lain'
      BY <3>3, <3>6, <3>11
    <3> QED BY <3>1, <3>2, <3>14, <3>15
  <2> QED BY <2>1, <2>2
<1>6. CASE LoopJoin
  <2>0. /\ lpc = "join" /\ lpc' = "deliver" /\ msg = Null /\ fifo # Null
        /\ fifo' = Null /\ last' = Null /\ msg' = Null /\ mail_last' = last
        /\ where' = Moved("turned", "mail")
        /\ UNCHANGED <<inbox, flags, pc, pm>>
    BY <1>0, <1>6 DEF LoopJoin, Collecting, posting
  <2>1. Held'
    BY <1>0, <2>0 DEF Held, Moved
  <2>2. Ending'
    BY <1>0, <2>0 DEF Ending
  <2>3. b = <<>> /\ c # <<>> /\ last = c[Len(c)] /\ next \in [Msg -> Link]
    BY <1>0, <2>0, LinksIn DEF Laid, TypeOK
  <2>4. ToSet(a) \cap ToSet(c) = {} /\ ToSet(d) \cap ToSet(a) = {} /\ ToSet(a) \subseteq Msg
        /\ ToSet(c) \subseteq Msg /\ ToSet(d) \subseteq Msg
    BY OnList DEF Laid
  <2> DEFINE u == a \o c
  <2>5. u \in Lists(Msg) /\ ToSet(u) = ToSet(a) \cup ToSet(c) /\ Len(u) = Len(a) + Len(c)
    BY <2>4, ConcatLists
  <2>6. u[Len(u)] = c[Len(c)] /\ u # <<>>
    <3>1. Len(a) \in Nat /\ Len(c) \in Nat /\ Len(c) > 0
      BY <2>3, OnList
    <3>2. \A i \in 1 .. Len(a) + Len(c) : u[i] = IF i <= Len(a) THEN a[i] ELSE c[i - Len(a)]
      BY <1>s, ConcatProperties
    <3> HIDE DEF u
    <3> QED BY <2>5, <3>1, <3>2
  <2>7. Links(next', mail', u) /\ Links(next', inbox, d)
    <3>1. CASE mail_last # Null
      <4>1. a # <<>> /\ mail_last = a[Len(a)]
        BY <3>1 DEF Laid
      <4>2. next' = [next EXCEPT ![a[Len(a)]] = fifo] /\ mail' = mail
        BY <1>6, <3>1, <4>1 DEF LoopJoin
      <4>3. Links(next', mail', u)
        BY <2>3, <2>4, <4>1, <4>2, LinksJoin DEF Laid
      <4>4. a[Len(a)] \in ToSet(a) /\ a[Len(a)] \in Msg
        BY <4>1, OnList
      <4>5. \A x \in ToSet(d) : next'[x] = next[x]
        BY <2>3, <2>4, <4>2, <4>4
      <4>6. Links(next', inbox, d)
        BY <4>5, LinksKept DEF Laid
      <4> QED BY <4>3, <4>6
    <3>2. CASE mail_last = Null
      <4>1. mail' = fifo /\ next' = next
        BY <1>6, <3>2 DEF LoopJoin
      <4>2. a = <<>>
        <5>1. a # <<>> => a[Len(a)] \in Msg
          BY OnList
        <5> QED BY <3>2, <5>1, NullAssumption DEF Laid
      <4>3. u = c
        BY <1>s, <4>2
      <4> QED BY <4>1, <4>3 DEF Laid
    <3> QED BY <3>1, <3>2
  <2> HIDE DEF u
  <2>8. Laid(u, <<>>, <<>>, d)'
    <3>1. /\ Links(next', mail', u) /\ Links(next', msg', <<>>)
          /\ Links(next', fifo', <<>>) /\ Links(next', inbox', d)
      BY <2>0, <2>7, NoLinks
    <3>2. ASSUME NEW x \in Msg
          PROVE  /\ x \in ToSet(u) <=> where'[x] = "mail"
                 /\ x \in ToSet(<<>>) <=> where'[x] = "taken"
                 /\ x \in ToSet(<<>>) <=> where'[x] = "turned"
                 /\ x \in ToSet(d) <=> where'[x] = "inbox"
      BY <2>0, <2>3, <2>5, EmptyList DEF Laid, Moved
    <3> QED BY <2>0, <2>3, <2>6, <3>1, <3>2 DEF Laid
  <2>9. Queue' = Queue
    <3>1. Queue = Line(a, <<>>, c, d) /\ Queue' = Line(a \o c, <<>>, <<>>, d)
      BY <2>3, <2>8, LaidQueue, LaidQueueNext DEF u
    <3> QED BY <1>s, <3>1, LineJoin
  <2>10. Free' = Free
    BY <2>0 DEF Free, Moved
  <2>11. Served
    BY <2>9, <2>10, ServedStill
  <2>12. Lain'
    BY <1>s, <2>5, <2>8
  <2> QED BY <2>1, <2>2, <2>11, <2>12
<1>7. CASE LoopDeliver
  <2> PICK m \in Msg : m = mail
    BY <1>0, <1>7 DEF TypeOK, Link, LoopDeliver
  <2>0. /\ lpc = "deliver" /\ lpc' = "handle" /\ mail = m
        /\ where' = [where EXCEPT ![m] = "free"]
        /\ mail' = next[m]
        /\ mail_last' = IF next[m] = Null THEN Null ELSE mail_last
        /\ UNCHANGED <<inbox, next, msg, fifo, last, flags, pc, pm>>
    BY <1>7 DEF LoopDeliver, reversing, posting
  <2>s. where[m] = "mail" /\ where \in [Msg -> {"free", "held"} \cup OnLoop] /\ m # Null
    BY <1>0, <2>0, NullAssumption DEF ListsApart, TypeOK
  <2>1. Held'
    BY <1>0, <2>0, <2>s DEF Held
  <2>2. Ending'
    BY <1>0, <2>0 DEF Ending
  <2>3. b = <<>> /\ c = <<>> /\ a # <<>> /\ a[1] = m
    BY <1>0, <2>0, <2>s, LinksIn DEF Collecting, Laid
  <2> DEFINE t == Tail(a)
  <2>4. /\ Links(next, next[m], t) /\ a = <<m>> \o t /\ m \notin ToSet(t)
        /\ next[m] = Null <=> t = <<>>
    BY <2>0, <2>s, LinksTail DEF Laid
  <2>5. t \in Lists(Msg) /\ ToSet(t) = ToSet(a) \ {m} /\ Len(t) = Len(a) - 1
    BY <2>3, TailList
  <2>6. t # <<>> => t[Len(t)] = a[Len(a)]
    BY <1>s, <2>3, HeadTailProperties
  <2> HIDE DEF t
  <2>7. Laid(t, <<>>, <<>>, d)'
    <3>1. /\ Links(next', mail', t) /\ Links(next', msg', <<>>)
          /\ Links(next', fifo', <<>>) /\ Links(next', inbox', d)
      BY <2>0, <2>3, <2>4 DEF Laid
    <3>2. ASSUME NEW x \in Msg
          PROVE  /\ x \in ToSet(t) <=> where'[x] = "mail"
                 /\ x \in ToSet(<<>>) <=> where'[x] = "taken"
                 /\ x \in ToSet(<<>>) <=> where'[x] = "turned"
                 /\ x \in ToSet(d) <=> where'[x] = "inbox"
      BY <2>0, <2>s, <2>3, <2>5 DEF Laid
    <3> QED BY <2>0, <2>3, <2>4, <2>6, <3>1, <3>2 DEF Laid
  <2>8. Queue # <<>> /\ Queue' = Tail(Queue) /\ Head(Queue) = m
    <3>1. Queue = Line(a, <<>>, <<>>, d) /\ Queue' = Line(Tail(a), <<>>, <<>>, d)
      BY <2>3, <2>7, LaidQueue, LaidQueueNext DEF t
    <3> QED BY <1>s, <2>3, <3>1, LineDeliver
  <2>9. Free' = Free \cup {m}
    BY <2>0, <2>s DEF Free
  <2>10. Served
    BY <2>8, <2>9, ServedDeliver
  <2>11. Lain'
    BY <1>s, <2>5, <2>7
  <2> QED BY <2>1, <2>2, <2>10, <2>11
<1> QED BY <1>2, <1>3, <1>4, <1>5, <1>6, <1>7
        DEF Turn, LoopStep, WaitWoken, WaitOver, WaitOther, WaitInterrupted, WaitFailed

LEMMA OrderStart == Init => OrderInv /\ MB!MInit
<1> SUFFICES ASSUME Init PROVE OrderInv /\ MB!MInit
  OBVIOUS
<1>1. ListInv
  BY NullAssumption, MailAssumption
     DEF Init, ListInv, ListsApart, Collecting, Holding, NeverRefused, TypeOK, Link, OnLoop, LoopPlace,
         PostPlace, Thread
<1>2. Held /\ Ending
  BY DEF Init, Held, Ending
<1>3. Laid(<<>>, <<>>, <<>>, <<>>)
  BY NoLinks, EmptyList DEF Init, Laid
<1>4. Queue = <<>>
  <2>1. Queue = Line(<<>>, <<>>, <<>>, <<>>)
    BY <1>3, LaidQueue
  <2>2. <<>> \in Seq(Msg)
    OBVIOUS
  <2>3. Line(<<>>, <<>>, <<>>, <<>>) = <<>> \o Reverse(<<>>)
    BY <2>2, LineCollect
  <2> QED BY <2>1, <2>2, <2>3, ReverseNone, ConcatEmptySeq
<1>5. Free = Msg
  BY DEF Init, Free
<1> QED BY <1>1, <1>2, <1>3, <1>4, <1>5, EmptyList DEF OrderInv, MB!MInit

LEMMA OrderStep == OrderInv /\ [Next]_vars => OrderInv' /\ Served
<1>1. ASSUME OrderInv, Next PROVE OrderInv' /\ Served
  BY <1>1, NextSplit, OrderPoke, OrderTurn
<1>2. ASSUME OrderInv, UNCHANGED vars PROVE OrderInv' /\ Served
  <2> PICK a \in Lists(Msg), b \in Lists(Msg), c \in Lists(Msg), d \in Lists(Msg) : Laid(a, b, c, d)
    BY <1>2 DEF OrderInv
  <2>1. Laid(a, b, c, d)' /\ Served
    BY <1>2, LaidStill DEF vars
  <2>2. ListInv' /\ Held' /\ Ending'
    BY <1>2 DEF OrderInv, ListInv, ListsApart, Collecting, Holding, NeverRefused, TypeOK, Held, Ending, vars
  <2> QED BY <2>1, <2>2 DEF OrderInv
<1> QED BY <1>1, <1>2

\* However the pushes, the exchange, the reversal and the turns interleave, the
\* messages posted are handed out in the order of the pushes, each once: the
\* pointers of loop_post(), loop_collect() and loop_deliver() are a FIFO queue.
THEOREM InboxIsMailbox == Spec => ImplementsMailbox
<1>1. Init => OrderInv /\ MB!MInit
  BY OrderStart
<1>2. OrderInv /\ [Next]_vars => OrderInv' /\ [MB!MNext]_(MB!mvars)
  BY OrderStep DEF Served
<1> QED BY <1>1, <1>2, PTL DEF Spec, ImplementsMailbox, MB!MOrder

\* loop_fini() frees the loop only once each message went to its handler.
THEOREM NothingLeftBehind == Spec => []NothingLeft
<1>1. OrderInv => NothingLeft
  <2> SUFFICES ASSUME OrderInv, lpc = "gone", NEW m \in Msg PROVE where[m] = "free"
    BY DEF NothingLeft
  <2> PICK a \in Lists(Msg), b \in Lists(Msg), c \in Lists(Msg), d \in Lists(Msg) : Laid(a, b, c, d)
    BY DEF OrderInv
  <2>1. where[m] \in {"free", "held"} \cup OnLoop
    BY DEF OrderInv, ListInv, TypeOK
  <2>2. flags = "fini" /\ inbox = Null /\ mail = Null /\ msg = Null /\ fifo = Null
    BY DEF OrderInv, ListInv, Ending, Collecting
  <2>3. where[m] # "held"
    BY <2>2 DEF OrderInv, Held, Ending
  <2>4. a = <<>> /\ b = <<>> /\ c = <<>> /\ d = <<>>
    BY <2>2, LinksIn DEF Laid
  <2>5. where[m] \notin OnLoop
    BY <2>4, EmptyList DEF Laid, OnLoop
  <2> QED BY <2>1, <2>3, <2>5
<1> QED BY <1>1, OrderStart, OrderStep, PTL DEF Spec
=============================================================================
