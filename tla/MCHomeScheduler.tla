-------------------------- MODULE MCHomeScheduler --------------------------
(***************************************************************************)
(* HomeScheduler on small instances: the jobs, and how home begins.        *)
(***************************************************************************)
EXTENDS HomeScheduler

CONSTANTS a1, a2, b1, g1, g2, A, B

\* a1 and a2 are interactive and A's, b1 interactive and B's; g1 is background
\* work of A's, g2 of B's.
MixedClass == [j \in Job |-> IF j \in {g1, g2} THEN 1 ELSE 0]
MixedWho   == [j \in Job |-> IF j \in {b1, g2} THEN B ELSE A]

\* Told the slots or asking for them; archived calls with one slot only, which
\* keeps the instance small.
PlainSetup == {[journal |-> FALSE, asking |-> TRUE, slots |-> SLOTS]}
                \cup {[journal |-> FALSE, asking |-> FALSE, slots |-> n] : n \in Slots}
ArchivedSetup == {[journal |-> TRUE, asking |-> FALSE, slots |-> 1]}
MixedSetup == PlainSetup \cup ArchivedSetup
=============================================================================
