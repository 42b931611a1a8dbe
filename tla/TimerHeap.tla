----------------------------- MODULE TimerHeap -----------------------------
(***************************************************************************)
(* A loop's timers (src/src/loop.c): a heap with Arity children to a node  *)
(* (four in the code), in which each timer knows its place.  A timer that  *)
(* was set stays in the heap until it is stopped; one that has fired is    *)
(* due at Never.                                                           *)
(*                                                                         *)
(* Times go from 0 to Never; those before Now are due.  Places in the heap *)
(* count from 1, as a timer's slot does.                                   *)
(***************************************************************************)
EXTENDS Naturals, Sequences, FiniteSets

CONSTANTS Timers,       \* how many there are
          Arity,
          Now, Never

Timer == 1 .. Timers

VARIABLES
  heap,    \* loop.heap
  slot,    \* each timer's place in it, or 0
  due,     \* each timer's
  owed     \* history: the timers set and not stopped nor fired since

hvars == <<heap, slot, due, owed>>

HTypeOK ==
  /\ heap \in Seq(Timer) /\ slot \in [Timer -> 0 .. Timers]
  /\ due \in [Timer -> 0 .. Never] /\ owed \subseteq Timer

HInit ==
  /\ heap = <<>> /\ slot = [t \in Timer |-> 0] /\ due = [t \in Timer |-> 0] /\ owed = {}

Parent(i)   == (i - 2) \div Arity + 1
Children(i) == {k \in 2 .. Timers : Parent(k) = i}

\* A heap on its way: its places, the slots, and the place i that a timer is
\* to take.
Heaps == [at : Seq(Timer), slot : [Timer -> 0 .. Timers], i : Nat]

\* loop_heap_put(), and the place that the timer left.
PutAt(h, t, i) == [h EXCEPT !.at[h.i] = t, !.slot[t] = h.i, !.i = i]

\* loop_heap_fix(): the place goes up past the parents that are due later,
\* then down past the children that are due sooner, and the timer takes it.
Fix(h, t, d) ==
  LET up[g \in Heaps] ==
        IF g.i = 1 \/ d[g.at[Parent(g.i)]] <= d[t] THEN g
        ELSE up[PutAt(g, g.at[Parent(g.i)], Parent(g.i))]
      down[g \in Heaps] ==
        LET C == Children(g.i) \cap DOMAIN g.at
            c == CHOOSE x \in C : \A k \in C : \/ d[g.at[x]] < d[g.at[k]]
                                               \/ d[g.at[x]] = d[g.at[k]] /\ x <= k
        IN  IF C = {} \/ d[g.at[c]] >= d[t] THEN g ELSE down[PutAt(g, g.at[c], c)]
  IN  PutAt(down[up[h]], t, 0)

Becomes(h) == heap' = h.at /\ slot' = h.slot
In(t, at)  == [at |-> at, slot |-> slot, i |-> IF slot[t] = 0 THEN Len(at) ELSE slot[t]]

-----------------------------------------------------------------------------
\* loop_timer_set()
TimerSet(t, d) ==
  /\ due' = [due EXCEPT ![t] = d] /\ owed' = owed \cup {t}
  /\ Becomes(Fix(In(t, IF slot[t] = 0 THEN Append(heap, t) ELSE heap), t, due'))

\* A mistake the checks would catch: what takes the place of a timer stopped
\* keeps it.
TimerStopKept(t) ==
  /\ slot[t] # 0
  /\ LET n == Len(heap)
         last == heap[n]
         i == slot[t]
     IN  /\ heap' = SubSeq([heap EXCEPT ![i] = last], 1, n - 1)
         /\ slot' = [slot EXCEPT ![last] = i, ![t] = 0]
  /\ owed' = owed \ {t} /\ UNCHANGED due

\* loop_timer_stop(): the last takes its place, and the heap is put right.
TimerStop(t) ==
  /\ slot[t] # 0
  /\ LET n == Len(heap)
         last == heap[n]
         i == slot[t]
         h == [at |-> SubSeq([heap EXCEPT ![i] = last], 1, n - 1),
               slot |-> [slot EXCEPT ![t] = 0], i |-> i]
     IN  IF i = n THEN heap' = h.at /\ slot' = h.slot ELSE Becomes(Fix(h, last, due))
  /\ owed' = owed \ {t} /\ UNCHANGED due

\* loop_fire(): the first, if it is due, is due no more and fires.
TimerFire ==
  /\ heap # <<>> /\ due[heap[1]] < Now
  /\ due' = [due EXCEPT ![heap[1]] = Never] /\ owed' = owed \ {heap[1]}
  /\ Becomes(Fix([at |-> heap, slot |-> slot, i |-> 1], heap[1], due'))

HNext ==
  \/ \E t \in Timer : TimerStop(t) \/ \E d \in 0 .. Never - 1 : TimerSet(t, d)
  \/ TimerFire

-----------------------------------------------------------------------------
\* The heap is in order, each timer in it knows its place and no other does,
\* after any number of timers set, set again, stopped and fired.
HeapTrue ==
  /\ \A i \in 2 .. Len(heap) : due[heap[Parent(i)]] <= due[heap[i]]
  /\ \A t \in Timer : IF slot[t] = 0 THEN \A i \in DOMAIN heap : heap[i] # t
                      ELSE slot[t] \in DOMAIN heap /\ heap[slot[t]] = t

\* A timer fires when it is set, once, and the wait of the loop's poll ends by
\* the first of those set: none is missed and none that was stopped is left.
OwedFirst ==
  /\ owed = {t \in Timer : slot[t] # 0 /\ due[t] # Never}
  /\ owed # {} => heap[1] \in owed /\ \A t \in owed : due[heap[1]] <= due[t]
=============================================================================
