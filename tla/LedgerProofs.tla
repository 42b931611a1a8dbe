---------------------------- MODULE LedgerProofs ----------------------------
(***************************************************************************)
(* Proofs about Ledger, for any loops, records, waits, owners and limits.  *)
(*                                                                         *)
(* The functions that hold the lock are operators from struct ledger to    *)
(* struct ledger, and so each has a lemma; what a handler does to records  *)
(* and waits is then related to what it does to the ledger, one part of    *)
(* the invariant after the other.                                          *)
(***************************************************************************)
EXTENDS MCWaits, ListProofs

(***************************************************************************)
(* The inductive invariant.                                                *)
(***************************************************************************)

Struct ==
  [records : [Key -> Lists(Rec)], ended : Lists(Rec), n : [Key -> Int],
   running : [Key -> Int], waits : [Key -> SUBSET Wait], n_waits : [Key -> Int],
   timers : [Key -> [Slot -> {"none", "set", "fired"}]], owners : SUBSET Key,
   n_anonymous : Int]

Used(l, k) ==
  \/ l.records[k] # <<>> \/ l.waits[k] # {}
  \/ \E i \in Slot : l.timers[k][i] # "none"

\* The lists of the ledger by themselves, its counts and its limits.
Listed(l) ==
  /\ \A j, k \in Key : j # k => /\ ToSet(l.records[j]) \cap ToSet(l.records[k]) = {}
                                /\ l.waits[j] \cap l.waits[k] = {}
  /\ \A k \in Key : /\ l.n[k] = Len(l.records[k]) /\ l.n_waits[k] = Cardinality(l.waits[k])
                    /\ l.n_waits[k] <= LEDGER_WAITS
                    /\ Used(l, k) => k \in l.owners
  /\ ToSet(l.ended) \subseteq Tasks(l)
  /\ l.n_anonymous = Cardinality(l.owners \cap Anonymous)
  /\ Cardinality(l.owners) <= LEDGER_OWNERS
  /\ Cardinality(l.owners \cap Anonymous) <= LEDGER_OWNERS \div 2
  /\ Size(l) <= LEDGER_MAX

Shape(l) == l \in Struct /\ Listed(l)

\* All owners but those in K have something.
InUse(l, K) == \A k \in l.owners : k \in K \/ Used(l, k)

RecordType ==
  [state : {"free"} \cup Working \cup Ended, loop : Loop \cup {None},
   asked : BOOLEAN, shown : BOOLEAN, cancel : BOOLEAN, refs : Nat]
WaitType ==
  [state : {"free", "looks", "parked", "done", "left"}, loop : Loop \cup {None},
   any : BOOLEAN, posted : BOOLEAN, mail : BOOLEAN, hand : BOOLEAN,
   covers : SUBSET Slot, refs : Nat]
Records == [Rec -> RecordType]
Waits   == [Wait -> WaitType]
Todo == [Loop -> [hits : Lists(Wait), gone : SUBSET Rec]]

Working1(l, q, k) == {r \in ToSet(l.records[k]) : q[r].state \in Working}
Jobs1(l, q, k)    == {r \in ToSet(l.records[k]) : q[r].state = "job"}

\* The ledger and its records: what runs is in the table, what has ended is
\* on the ended list as well.
Known(l, q) ==
  /\ \A r \in Rec : q[r].state \in Working => r \in Tasks(l)
  /\ \A r \in Tasks(l) : q[r].state # "free"
  /\ ToSet(l.ended) = {r \in Tasks(l) : q[r].state \in Ended}
  /\ \A k \in Key : /\ l.running[k] = Cardinality(Working1(l, q, k))
                    /\ Cardinality(Jobs1(l, q, k)) <= LEDGER_RUNNING

\* A call that runs is cancelled by who asked.
Marked(q) == \A r \in Rec : q[r].state \in Working /\ q[r].cancel => q[r].asked

Drops(td, r) == {t \in Loop : r \in td[t].gone}
Held(l, q, td, r) ==
  Bit(r \in Tasks(l)) + Bit(q[r].state \in Working) + Bit(q[r].shown) + Bit(q[r].cancel)
    + Cardinality(Drops(td, r))
Referred(l, q, td) ==
  \A r \in Rec : q[r].refs = Held(l, q, td, r) /\ (q[r].refs = 0 => q[r] = FreeRec)

Waited == {"looks", "parked", "done"}
Entered(l, wt) == \A w \in Wait : wt[w].state \in Waited <=> \E k \in Key : w \in l.waits[k]
Called(wt) ==
  \A w \in Wait : /\ wt[w].refs = Bit(wt[w].state \in Waited) + Bit(wt[w].posted)
                                    + Bit(wt[w].hand)
                  /\ wt[w].refs = 0 => wt[w] = FreeWait
Posted(wt, td) ==
  /\ \A t, u \in Loop : t # u => ToSet(td[t].hits) \cap ToSet(td[u].hits) = {}
  /\ \A w \in Wait : /\ wt[w].posted <=> wt[w].mail \/ \E t \in Loop : w \in ToSet(td[t].hits)
                     /\ wt[w].mail => \A t \in Loop : w \notin ToSet(td[t].hits)

\* Of a parked wait whose message is not under way.
Heeded(l, q, wt) ==
  \A k \in Key : \A w \in l.waits[k] : wt[w].state = "parked" /\ ~wt[w].posted =>
    /\ wt[w].any => \A r \in ToSet(l.records[k]) : q[r].state # "ended"
    /\ \A i \in Slot : l.timers[k][i] # "none" => i \in wt[w].covers

Books(l, q, wt, td, o) ==
  /\ q \in Records /\ wt \in Waits /\ td \in Todo /\ o \in BOOLEAN
  /\ Shape(l) /\ InUse(l, {}) /\ Known(l, q) /\ Referred(l, q, td) /\ Marked(q)
  /\ Entered(l, wt) /\ Called(wt) /\ Posted(wt, td) /\ Heeded(l, q, wt)

LedgerInv == Books(ledger, rec, wait, todo, open)

-----------------------------------------------------------------------------
(* Lists and sets.                                                         *)

LEMMA Sub ==
  ASSUME NEW S, IsFiniteSet(S), NEW T, T \subseteq S
  PROVE  IsFiniteSet(T) /\ Cardinality(T) \in Nat /\ Cardinality(T) <= Cardinality(S)
BY FS_Subset, FS_CardinalityType

\* A list is as long as what it holds.
LEMMA ListCount ==
  ASSUME NEW T, NEW s \in Lists(T)
  PROVE  IsFiniteSet(ToSet(s)) /\ Cardinality(ToSet(s)) = Len(s)
<1>1. /\ s \in Seq(T) /\ DOMAIN s = 1 .. Len(s) /\ Len(s) \in Nat
      /\ \A a, b \in 1 .. Len(s) : s[a] = s[b] => a = b
  BY OnList
<1>2. s \in Bijection(1 .. Len(s), ToSet(s))
  BY <1>1 DEF Bijection, Injection, Surjection, IsInjective, ToSet
<1>3. IsFiniteSet(1 .. Len(s)) /\ Cardinality(1 .. Len(s)) = Len(s)
  BY <1>1, FS_Interval
<1> QED BY <1>2, <1>3, FS_Bijection DEF ExistsBijection

\* ledger_owner_wake()'s chain, in some order.
LEMMA SetList ==
  ASSUME NEW T, NEW S, S \subseteq T, IsFiniteSet(S)
  PROVE  SetToSeq(S) \in Lists(T) /\ ToSet(SetToSeq(S)) = S
<1> DEFINE n == Cardinality(S)
           s == SetToSeq(S)
<1>1. n \in Nat /\ \E f : f \in Bijection(1 .. n, S)
  BY FS_CardinalityType DEF ExistsBijection
<1>2. \E f \in [1 .. n -> S] : IsInjective(f)
  BY <1>1 DEF Bijection, Injection
<1>3. s \in [1 .. n -> S] /\ IsInjective(s)
  BY <1>2 DEF SetToSeq
<1>4. IsFiniteSet(1 .. n) /\ Cardinality(1 .. n) = n
  BY <1>1, FS_Interval
<1>5. s \in Injection(1 .. n, S)
  BY <1>3 DEF Injection
<1>6. s \in Surjection(1 .. n, S)
  BY <1>4, <1>5, FS_Injection
<1> HIDE DEF s
<1>7. DOMAIN s = 1 .. n /\ \A x \in S : \E i \in 1 .. n : s[i] = x
  BY <1>3, <1>6 DEF Surjection
<1>8. s \in Seq(T) /\ ToSet(s) = S
  BY <1>1, <1>3, <1>7 DEF ToSet
<1> QED BY <1>3, <1>8 DEF Lists, s

LEMMA SuffixList ==
  ASSUME NEW T, NEW s \in Lists(T), NEW n \in 1 .. Len(s) + 1
  PROVE  /\ SubSeq(s, n, Len(s)) \in Lists(T) /\ Len(SubSeq(s, n, Len(s))) = Len(s) - n + 1
         /\ \A k \in 1 .. Len(s) - n + 1 : SubSeq(s, n, Len(s))[k] = s[k + n - 1]
<1> DEFINE m == Len(s)
           o == SubSeq(s, n, m)
<1>1. /\ s \in Seq(T) /\ m \in Nat /\ DOMAIN s = 1 .. m
      /\ \A a, b \in 1 .. m : s[a] = s[b] => a = b
  BY OnList
<1>2. \A k \in n .. m : s[k] \in T
  BY <1>1
<1>3. /\ o \in Seq(T) /\ Len(o) = (IF n <= m THEN m - n + 1 ELSE 0)
      /\ \A k \in 1 .. m - n + 1 : o[k] = s[n + k - 1]
  BY <1>1, <1>2, SubSeqProperties
<1> HIDE DEF o, m
<1>4. n \in 1 .. m + 1
  BY DEF m
<1>5. Len(o) = m - n + 1 /\ DOMAIN o = 1 .. m - n + 1
  BY <1>1, <1>3, <1>4
<1>6. ASSUME NEW a \in DOMAIN o, NEW b \in DOMAIN o, o[a] = o[b] PROVE a = b
  <2>1. /\ n + a - 1 \in 1 .. m /\ n + b - 1 \in 1 .. m
        /\ s[n + a - 1] = s[n + b - 1]
    BY <1>1, <1>3, <1>4, <1>5, <1>6
  <2>2. n + a - 1 = n + b - 1
    BY <1>1, <2>1
  <2> QED BY <1>4, <1>5, <2>2
<1>7. \A k \in 1 .. m - n + 1 : n + k - 1 = k + n - 1
  BY <1>1, <1>4
<1> QED BY <1>3, <1>5, <1>6, <1>7 DEF Lists, IsInjective, o, m

\* list_insert(), at its place among those that began before.
LEMMA InsertList ==
  ASSUME NEW T, NEW s \in Lists(T), NEW x \in T, x \notin ToSet(s), NEW i \in 1 .. Len(s) + 1
  PROVE  /\ InsertAt(s, i, x) \in Lists(T) /\ ToSet(InsertAt(s, i, x)) = ToSet(s) \cup {x}
         /\ Len(InsertAt(s, i, x)) = Len(s) + 1
<1> DEFINE n == Len(s)
           a == SubSeq(s, 1, i - 1)
           b == SubSeq(s, i, n)
<1>1. /\ s \in Seq(T) /\ n \in Nat /\ DOMAIN s = 1 .. n
      /\ \A c, d \in 1 .. n : s[c] = s[d] => c = d
  BY OnList
<1>2. i - 1 \in 0 .. n /\ i \in 1 .. n + 1
  BY <1>1
<1>3. /\ a \in Lists(T) /\ Len(a) = i - 1
      /\ \A k \in 1 .. i - 1 : a[k] = s[k]
  BY <1>1, <1>2, PrefixList
<1>4. b \in Lists(T) /\ Len(b) = n - i + 1 /\ \A k \in 1 .. n - i + 1 : b[k] = s[k + i - 1]
  BY SuffixList
<1> HIDE DEF a, b, n
<1>5. /\ \A y : y \in ToSet(a) <=> \E k \in 1 .. i - 1 : s[k] = y
      /\ \A y : y \in ToSet(b) <=> \E k \in 1 .. n - i + 1 : s[k + i - 1] = y
  <2>1. /\ \A y : y \in ToSet(a) <=> \E k \in 1 .. Len(a) : a[k] = y
        /\ \A y : y \in ToSet(b) <=> \E k \in 1 .. Len(b) : b[k] = y
    BY <1>3, <1>4, OnList
  <2> QED BY <1>3, <1>4, <2>1
<1>6. \A y : y \in ToSet(b) <=> \E k \in i .. n : s[k] = y
  <2>1. \A k \in 1 .. n - i + 1 : k + i - 1 \in i .. n
    BY <1>1, <1>2
  <2>2. \A k \in i .. n : k - i + 1 \in 1 .. n - i + 1 /\ (k - i + 1) + i - 1 = k
    BY <1>1, <1>2
  <2> QED BY <1>5, <2>1, <2>2
<1>7. /\ \A y : y \in ToSet(s) <=> y \in ToSet(a) \/ y \in ToSet(b)
      /\ ToSet(a) \cap ToSet(b) = {}
  <2>1. \A k \in 1 .. n : k \in 1 .. i - 1 \/ k \in i .. n
    BY <1>1, <1>2
  <2>2. \A k \in 1 .. i - 1 : k \in 1 .. n /\ k \notin i .. n
    BY <1>1, <1>2
  <2>3. \A k \in i .. n : k \in 1 .. n
    BY <1>1, <1>2
  <2>4. \A y : y \in ToSet(s) <=> \E k \in 1 .. n : s[k] = y
    BY OnList DEF n
  <2>5. \A y : y \in ToSet(s) <=> y \in ToSet(a) \/ y \in ToSet(b)
    BY <1>5, <1>6, <2>1, <2>2, <2>3, <2>4
  <2>6. ASSUME NEW y \in ToSet(a), y \in ToSet(b) PROVE FALSE
    <3>1. PICK k \in 1 .. i - 1 : s[k] = y
      BY <1>5
    <3>2. PICK m \in i .. n : s[m] = y
      BY <1>6, <2>6
    <3>3. k = m
      BY <1>1, <2>2, <2>3, <3>1, <3>2
    <3> QED BY <2>2, <3>3
  <2> QED BY <2>5, <2>6
<1>8. x \notin ToSet(a) /\ x \notin ToSet(b)
  BY <1>7
<1> DEFINE c == Append(a, x)
<1>9. c \in Lists(T) /\ ToSet(c) = ToSet(a) \cup {x} /\ Len(c) = Len(a) + 1
  BY <1>3, <1>8, AppendTo
<1>10. a \o <<x>> = c
  BY <1>3 DEF Lists
<1> HIDE DEF c
<1>11. c \o b \in Lists(T) /\ ToSet(c \o b) = ToSet(c) \cup ToSet(b) /\ Len(c \o b) = Len(c) + Len(b)
  BY <1>4, <1>7, <1>8, <1>9, ConcatLists
<1>12. InsertAt(s, i, x) = c \o b
  BY <1>10 DEF InsertAt, a, b, n
<1>13. Len(c \o b) = n + 1
  BY <1>1, <1>2, <1>3, <1>4, <1>9, <1>11
<1>14. ToSet(c \o b) = ToSet(s) \cup {x}
  BY <1>7, <1>9, <1>11
<1> QED BY <1>11, <1>12, <1>13, <1>14 DEF n

-----------------------------------------------------------------------------
(* The ledger's lists.                                                     *)

LEMMA Given ==
  /\ IsFiniteSet(Loop) /\ IsFiniteSet(Rec) /\ IsFiniteSet(Wait) /\ IsFiniteSet(Key)
  /\ None \notin Loop \cup Rec \cup Wait \cup Key /\ Anonymous \subseteq Key
  /\ LEDGER_MAX \in Nat /\ LEDGER_RUNNING \in Nat /\ LEDGER_WAITS \in Nat
  /\ LEDGER_TIMERS \in Nat /\ LEDGER_OWNERS \in Nat /\ LEDGER_MINE \in Nat
  /\ LEDGER_MAX > 0 /\ LEDGER_RUNNING > 0 /\ LEDGER_WAITS > 0
  /\ LEDGER_TIMERS > 0 /\ LEDGER_OWNERS > 0 /\ LEDGER_MINE > 1
BY FiniteAssumption, LedgerAssumption

LEMMA Fields ==
  ASSUME NEW l \in Struct
  PROVE  /\ l.records \in [Key -> Lists(Rec)] /\ l.ended \in Lists(Rec)
         /\ l.n \in [Key -> Int] /\ l.running \in [Key -> Int]
         /\ l.waits \in [Key -> SUBSET Wait] /\ l.n_waits \in [Key -> Int]
         /\ l.timers \in [Key -> [Slot -> {"none", "set", "fired"}]]
         /\ l.owners \subseteq Key /\ l.n_anonymous \in Int
BY DEF Struct

LEMMA InTable ==
  ASSUME NEW l \in Struct
  PROVE  /\ Tasks(l) \subseteq Rec /\ IsFiniteSet(Tasks(l)) /\ Size(l) \in Nat
         /\ \A r : r \in Tasks(l) <=> \E k \in Key : r \in ToSet(l.records[k])
         /\ \A k \in Key : /\ l.records[k] \in Lists(Rec) /\ ToSet(l.records[k]) \subseteq Tasks(l)
                           /\ ToSet(l.records[k]) \subseteq Rec
                           /\ IsFiniteSet(ToSet(l.records[k]))
                           /\ Cardinality(ToSet(l.records[k])) = Len(l.records[k])
                           /\ Len(l.records[k]) \in Nat
                           /\ (l.records[k] = <<>> <=> ToSet(l.records[k]) = {})
                           /\ (l.records[k] = <<>> <=> Len(l.records[k]) = 0)
                           /\ IsFiniteSet(l.waits[k]) /\ Cardinality(l.waits[k]) \in Nat
                           /\ (l.waits[k] = {} <=> Cardinality(l.waits[k]) = 0)
<1>1. ASSUME NEW k \in Key
      PROVE  /\ l.records[k] \in Lists(Rec) /\ ToSet(l.records[k]) \subseteq Rec
             /\ IsFiniteSet(ToSet(l.records[k]))
             /\ Cardinality(ToSet(l.records[k])) = Len(l.records[k])
             /\ Len(l.records[k]) \in Nat
             /\ (l.records[k] = <<>> <=> ToSet(l.records[k]) = {})
             /\ l.waits[k] \subseteq Wait
  <2>1. l.records[k] \in Lists(Rec) /\ l.waits[k] \subseteq Wait
    BY Fields
  <2> QED BY <2>1, OnList, ListCount
<1>2. \A r : r \in Tasks(l) <=> \E k \in Key : r \in ToSet(l.records[k])
  BY DEF Tasks
<1>3. Tasks(l) \subseteq Rec
  BY <1>1, <1>2
<1>4. IsFiniteSet(Tasks(l)) /\ Size(l) \in Nat
  BY <1>3, Given, Sub DEF Size
<1>5. ASSUME NEW k \in Key
      PROVE  /\ IsFiniteSet(l.waits[k]) /\ Cardinality(l.waits[k]) \in Nat
             /\ (l.waits[k] = {} <=> Cardinality(l.waits[k]) = 0)
             /\ (l.records[k] = <<>> <=> Len(l.records[k]) = 0)
  <2>1. IsFiniteSet(l.waits[k]) /\ Cardinality(l.waits[k]) \in Nat
    BY <1>1, Given, Sub
  <2> QED BY <1>1, <2>1, FS_EmptySet
<1> QED BY <1>1, <1>2, <1>3, <1>4, <1>5

LEMMA Owners ==
  ASSUME NEW l \in Struct
  PROVE  /\ IsFiniteSet(l.owners) /\ Cardinality(l.owners) \in Nat
         /\ IsFiniteSet(l.owners \cap Anonymous) /\ Cardinality(l.owners \cap Anonymous) \in Nat
BY Fields, Given, Sub

\* What is the same in two structs.
Same(m, l) ==
  /\ m.records = l.records /\ m.ended = l.ended /\ m.n = l.n /\ m.running = l.running
  /\ m.waits = l.waits /\ m.n_waits = l.n_waits

LEMMA SameTasks ==
  ASSUME NEW l, NEW m, Same(m, l) PROVE Tasks(m) = Tasks(l) /\ Size(m) = Size(l)
BY DEF Same, Tasks, Size

\* The anonymous owners after some have gone.
LEMMA FewerOwners ==
  ASSUME NEW S, IsFiniteSet(S), NEW U, U \subseteq S, NEW A
  PROVE  /\ Cardinality((S \ U) \cap A) = Cardinality(S \cap A) - Cardinality(U \cap A)
         /\ Cardinality(S \ U) <= Cardinality(S)
         /\ Cardinality((S \ U) \cap A) <= Cardinality(S \cap A)
<1>1. IsFiniteSet(S \cap A)
  BY Sub
<1>2. Cardinality((S \cap A) \ U) = Cardinality(S \cap A) - Cardinality((S \cap A) \cap U)
  BY <1>1, FS_Difference
<1>3. (S \cap A) \ U = (S \ U) \cap A /\ (S \cap A) \cap U = U \cap A
  OBVIOUS
<1>4. Cardinality(S \ U) <= Cardinality(S)
  BY Sub
<1>5. Cardinality((S \ U) \cap A) <= Cardinality(S \cap A)
  <2>1. (S \ U) \cap A \subseteq S \cap A
    OBVIOUS
  <2> QED BY <1>1, <2>1, Sub
<1> QED BY <1>2, <1>3, <1>4, <1>5

\* ledger_owner_gc() takes those of K that have nothing out of the table.
LEMMA GcIs ==
  ASSUME NEW l, l \in Struct, NEW K, K \subseteq Key,
         \A k \in Key : l.n[k] = Len(l.records[k]) /\ l.n_waits[k] = Cardinality(l.waits[k])
  PROVE  LET m == Gc(l, K)
         IN  /\ m \in Struct /\ Same(m, l) /\ m.timers = l.timers
             /\ m.owners = {k \in l.owners : k \in K => Used(l, k)}
             /\ m.n_anonymous = l.n_anonymous
                  - (Cardinality(l.owners \cap Anonymous) - Cardinality(m.owners \cap Anonymous))
             /\ Cardinality(m.owners) <= Cardinality(l.owners)
             /\ Cardinality(m.owners \cap Anonymous) <= Cardinality(l.owners \cap Anonymous)
<1> DEFINE idle == {k \in l.owners \cap K : l.n[k] = 0 /\ l.n_waits[k] = 0
                                          /\ \A i \in Slot : l.timers[k][i] = "none"}
           m == [l EXCEPT !.owners = @ \ idle,
                          !.n_anonymous = @ - Cardinality(idle \cap Anonymous)]
<1>1. m = Gc(l, K)
  BY DEF Gc
<1>2. l.owners \subseteq Key /\ l.n_anonymous \in Int
  BY Fields
<1>3. ASSUME NEW k \in l.owners \cap K PROVE k \in idle <=> ~Used(l, k)
  BY <1>2, InTable DEF Used
<1>4. l.owners \ idle = {k \in l.owners : k \in K => Used(l, k)}
  BY <1>3
<1> HIDE DEF idle
<1>5. idle \subseteq l.owners
  BY DEF idle
<1>6. /\ IsFiniteSet(l.owners) /\ Cardinality(idle \cap Anonymous) \in Nat
      /\ Cardinality(l.owners \cap Anonymous) \in Nat
      /\ Cardinality((l.owners \ idle) \cap Anonymous) =
           Cardinality(l.owners \cap Anonymous) - Cardinality(idle \cap Anonymous)
      /\ Cardinality(l.owners \ idle) <= Cardinality(l.owners)
      /\ Cardinality((l.owners \ idle) \cap Anonymous) <= Cardinality(l.owners \cap Anonymous)
  <2>1. IsFiniteSet(l.owners) /\ Cardinality(l.owners \cap Anonymous) \in Nat
    BY Owners
  <2>2. Cardinality(idle \cap Anonymous) \in Nat
    BY <1>5, <2>1, Sub
  <2>3. /\ Cardinality((l.owners \ idle) \cap Anonymous) =
             Cardinality(l.owners \cap Anonymous) - Cardinality(idle \cap Anonymous)
        /\ Cardinality(l.owners \ idle) <= Cardinality(l.owners)
        /\ Cardinality((l.owners \ idle) \cap Anonymous) <= Cardinality(l.owners \cap Anonymous)
    BY <1>5, <2>1, FewerOwners, Zenon
  <2> QED BY <2>1, <2>2, <2>3
<1>7. /\ m.records = l.records /\ m.ended = l.ended /\ m.n = l.n /\ m.running = l.running
      /\ m.waits = l.waits /\ m.n_waits = l.n_waits /\ m.timers = l.timers
      /\ m.owners = l.owners \ idle
      /\ m.n_anonymous = l.n_anonymous - Cardinality(idle \cap Anonymous)
  BY DEF Struct
<1>8. m \in Struct
  <2>1. l.owners \ idle \in SUBSET Key /\ l.n_anonymous - Cardinality(idle \cap Anonymous) \in Int
    BY <1>2, <1>6
  <2> QED BY <2>1, ZenonT(60) DEF Struct
<1> HIDE DEF m
<1> QED BY <1>1, <1>2, <1>4, <1>6, <1>7, <1>8 DEF Same

\* l after some of its records have left it.
Swept(m, l) ==
  /\ Tasks(m) \subseteq Tasks(l)
  /\ \A k \in Key : ToSet(m.records[k]) = ToSet(l.records[k]) \cap Tasks(m)
  /\ ToSet(m.ended) = ToSet(l.ended) \cap Tasks(m)
  /\ m.running = l.running /\ m.waits = l.waits /\ m.n_waits = l.n_waits
  /\ m.timers = l.timers /\ m.owners \subseteq l.owners
  /\ \A K : InUse(l, K) => InUse(m, K)

LEMMA SweptOn ==
  ASSUME NEW l, NEW m, NEW o, Swept(m, l), Swept(o, m)
  PROVE  Swept(o, l)
<1>1. Tasks(o) \subseteq Tasks(l)
  BY DEF Swept
<1>2. \A k \in Key : ToSet(o.records[k]) = ToSet(l.records[k]) \cap Tasks(o)
  BY DEF Swept
<1>3. ToSet(o.ended) = ToSet(l.ended) \cap Tasks(o)
  BY DEF Swept
<1> QED BY <1>1, <1>2, <1>3 DEF Swept

LEMMA SweptNone ==
  ASSUME NEW l, Shape(l)
  PROVE  Swept(l, l)
<1>1. /\ \A k \in Key : ToSet(l.records[k]) \subseteq Tasks(l)
      /\ ToSet(l.ended) \subseteq Tasks(l)
  BY InTable DEF Shape, Listed
<1> QED BY <1>1 DEF Swept

\* ledger_drop()
LEMMA DroppedIs ==
  ASSUME NEW l, Shape(l), NEW R
  PROVE  /\ Shape(Dropped(l, R)) /\ Swept(Dropped(l, R), l)
         /\ Tasks(Dropped(l, R)) = Tasks(l) \ R
<1>1. l \in Struct /\ Listed(l)
  BY DEF Shape
<1>2. /\ l.records \in [Key -> Lists(Rec)] /\ l.ended \in Lists(Rec)
      /\ l.n \in [Key -> Int] /\ l.owners \subseteq Key
  BY <1>1, Fields
<1> DEFINE rs == [k \in Key |-> Among(l.records[k], Rec \ R)]
           es == Among(l.ended, Rec \ R)
           ns == [k \in Key |-> l.n[k] - Cardinality(ToSet(l.records[k]) \cap R)]
           d  == [l EXCEPT !.records = rs, !.ended = es, !.n = ns]
           K0 == {k \in Key : ToSet(l.records[k]) \cap R # {}}
           m  == Gc(d, K0)
<1>3. Dropped(l, R) = m
  BY <1>1 DEF Dropped, Struct
<1>4. ASSUME NEW k \in Key
      PROVE  /\ rs[k] \in Lists(Rec) /\ ToSet(rs[k]) = ToSet(l.records[k]) \ R
             /\ ns[k] \in Int /\ ns[k] = Len(rs[k])
  <2>1. /\ l.records[k] \in Lists(Rec) /\ ToSet(l.records[k]) \subseteq Rec
        /\ IsFiniteSet(ToSet(l.records[k]))
        /\ Cardinality(ToSet(l.records[k])) = Len(l.records[k]) /\ Len(l.records[k]) \in Nat
    BY <1>1, InTable
  <2>2. rs[k] \in Lists(Rec) /\ ToSet(rs[k]) = ToSet(l.records[k]) \cap (Rec \ R)
    BY <2>1, AmongList
  <2>3. ToSet(rs[k]) = ToSet(l.records[k]) \ R
    BY <2>1, <2>2
  <2>4. Cardinality(ToSet(rs[k])) = Len(rs[k])
    BY <2>2, ListCount
  <2>5. Cardinality(ToSet(l.records[k]) \ R) =
          Cardinality(ToSet(l.records[k])) - Cardinality(ToSet(l.records[k]) \cap R)
    BY <2>1, FS_Difference
  <2>6. Cardinality(ToSet(l.records[k]) \cap R) \in Nat
    BY <2>1, Sub
  <2>7. l.n[k] = Len(l.records[k])
    BY <1>1 DEF Listed
  <2>8. ns[k] = l.n[k] - Cardinality(ToSet(l.records[k]) \cap R)
    OBVIOUS
  <2> HIDE DEF ns, rs
  <2>9. Len(rs[k]) = Len(l.records[k]) - Cardinality(ToSet(l.records[k]) \cap R)
    BY <2>1, <2>3, <2>4, <2>5
  <2>10. ns[k] = Len(rs[k]) /\ ns[k] \in Int
    BY <2>1, <2>6, <2>7, <2>8, <2>9
  <2> QED BY <2>2, <2>3, <2>10
<1>5. es \in Lists(Rec) /\ ToSet(es) = ToSet(l.ended) \ R
  <2>1. es \in Lists(Rec) /\ ToSet(es) = ToSet(l.ended) \cap (Rec \ R)
    BY <1>2, AmongList
  <2>2. ToSet(l.ended) \subseteq Rec
    BY <1>2, OnList
  <2> QED BY <2>1, <2>2
<1> HIDE DEF es
<1>6. rs \in [Key -> Lists(Rec)] /\ ns \in [Key -> Int]
  BY <1>4
<1> HIDE DEF rs, ns
<1>7. /\ d.records = rs /\ d.ended = es /\ d.n = ns /\ d.running = l.running
      /\ d.waits = l.waits /\ d.n_waits = l.n_waits /\ d.timers = l.timers
      /\ d.owners = l.owners /\ d.n_anonymous = l.n_anonymous
  BY <1>1 DEF Struct
<1>8. d \in Struct
  BY <1>1, <1>5, <1>6, ZenonT(60) DEF Struct
<1> HIDE DEF d
<1>9. /\ K0 \subseteq Key
      /\ \A k \in Key : d.n[k] = Len(d.records[k]) /\ d.n_waits[k] = Cardinality(d.waits[k])
  BY <1>1, <1>4, <1>7 DEF Listed
<1>10. /\ m \in Struct /\ Same(m, d) /\ m.timers = d.timers
       /\ m.owners = {k \in d.owners : k \in K0 => Used(d, k)}
       /\ m.n_anonymous = d.n_anonymous
            - (Cardinality(d.owners \cap Anonymous) - Cardinality(m.owners \cap Anonymous))
       /\ Cardinality(m.owners) <= Cardinality(d.owners)
       /\ Cardinality(m.owners \cap Anonymous) <= Cardinality(d.owners \cap Anonymous)
  BY <1>8, <1>9, GcIs
<1> HIDE DEF m
<1>11. Tasks(m) = Tasks(l) \ R /\ Tasks(d) = Tasks(l) \ R
  <2>0. \A k \in Key : ToSet(d.records[k]) = ToSet(l.records[k]) \ R
    BY <1>4, <1>7
  <2>1. \A r : r \in Tasks(d) <=> \E k \in Key : r \in ToSet(l.records[k]) \ R
    BY <1>8, <2>0, InTable
  <2>2. \A r : r \in Tasks(l) <=> \E k \in Key : r \in ToSet(l.records[k])
    BY <1>1, InTable
  <2>3. Tasks(m) = Tasks(d)
    BY <1>10, SameTasks
  <2> QED BY <2>1, <2>2, <2>3
<1>12. ASSUME NEW k \in Key
       PROVE  /\ ToSet(m.records[k]) = ToSet(l.records[k]) \ R
              /\ ToSet(m.records[k]) = ToSet(l.records[k]) \cap Tasks(m)
              /\ Used(m, k) <=> Used(d, k)
              /\ Used(d, k) => Used(l, k)
              /\ k \notin K0 => (Used(l, k) => Used(d, k))
  <2>1. ToSet(m.records[k]) = ToSet(l.records[k]) \ R /\ ToSet(d.records[k]) = ToSet(l.records[k]) \ R
    BY <1>4, <1>7, <1>10 DEF Same
  <2>2. ToSet(l.records[k]) \subseteq Tasks(l)
    BY <1>1, InTable
  <2>3. /\ l.records[k] = <<>> <=> ToSet(l.records[k]) = {}
        /\ d.records[k] = <<>> <=> ToSet(d.records[k]) = {}
    BY <1>1, <1>8, InTable
  <2>4. Used(m, k) <=> Used(d, k)
    BY <1>10 DEF Used, Same
  <2>5. Used(d, k) => Used(l, k)
    BY <1>7, <2>1, <2>3 DEF Used
  <2>6. k \notin K0 => (Used(l, k) => Used(d, k))
    BY <1>7, <2>1, <2>3 DEF Used
  <2> QED BY <1>11, <2>1, <2>2, <2>4, <2>5, <2>6
<1>13. ASSUME NEW K, InUse(l, K) PROVE InUse(m, K)
  BY <1>2, <1>7, <1>10, <1>12, <1>13 DEF InUse
<1>14. Swept(m, l)
  <2>1. ToSet(m.ended) = ToSet(l.ended) \cap Tasks(m)
    BY <1>1, <1>5, <1>7, <1>10, <1>11 DEF Same, Listed
  <2> QED BY <1>7, <1>10, <1>11, <1>12, <1>13, <2>1 DEF Swept, Same
<1>15. Listed(m)
  <2>1. \A j, k \in Key : j # k => /\ ToSet(m.records[j]) \cap ToSet(m.records[k]) = {}
                                   /\ m.waits[j] \cap m.waits[k] = {}
    BY <1>1, <1>7, <1>10, <1>12 DEF Listed, Same
  <2>2. ASSUME NEW k \in Key
        PROVE  /\ m.n[k] = Len(m.records[k]) /\ m.n_waits[k] = Cardinality(m.waits[k])
               /\ m.n_waits[k] <= LEDGER_WAITS
               /\ Used(m, k) => k \in m.owners
    <3>1. Used(l, k) => k \in l.owners
      BY <1>1 DEF Listed
    <3> QED BY <1>1, <1>7, <1>9, <1>10, <1>12, <3>1 DEF Listed, Same
  <2>3. ToSet(m.ended) \subseteq Tasks(m)
    BY <1>14 DEF Swept
  <2>4. /\ m.n_anonymous = Cardinality(m.owners \cap Anonymous)
        /\ Cardinality(m.owners) <= LEDGER_OWNERS
        /\ Cardinality(m.owners \cap Anonymous) <= LEDGER_OWNERS \div 2
    <3>1. /\ Cardinality(l.owners) \in Nat /\ Cardinality(l.owners \cap Anonymous) \in Nat
          /\ Cardinality(m.owners) \in Nat /\ Cardinality(m.owners \cap Anonymous) \in Nat
      BY <1>1, <1>10, Owners
    <3>2. /\ l.n_anonymous = Cardinality(l.owners \cap Anonymous)
          /\ Cardinality(l.owners) <= LEDGER_OWNERS
          /\ Cardinality(l.owners \cap Anonymous) <= LEDGER_OWNERS \div 2
      BY <1>1 DEF Listed
    <3> QED BY <1>7, <1>10, <3>1, <3>2, Given
  <2>5. Size(m) <= LEDGER_MAX
    <3>1. Size(m) <= Size(l) /\ Size(m) \in Nat /\ Size(l) \in Nat
      <4>1. IsFiniteSet(Tasks(l)) /\ Tasks(m) \subseteq Tasks(l)
        BY <1>1, <1>11, InTable
      <4> QED BY <1>1, <1>10, <4>1, InTable, Sub DEF Size
    <3> QED BY <1>1, <3>1, Given DEF Listed
  <2> QED BY <2>1, <2>2, <2>3, <2>4, <2>5 DEF Listed
<1> QED BY <1>3, <1>10, <1>11, <1>14, <1>15 DEF Shape

\* Only records that have ended have left l.
Lost(m, l) == Tasks(l) \ Tasks(m) \subseteq ToSet(l.ended)

LEMMA KnownSwept ==
  ASSUME NEW l, NEW m, NEW q, Known(l, q), l \in Struct, m \in Struct, Swept(m, l), Lost(m, l)
  PROVE  Known(m, q)
<1>1. \A r \in Rec : q[r].state \in Working => r \in Tasks(m)
  BY DEF Known, Lost, Working, Ended
<1>2. \A r \in Tasks(m) : q[r].state # "free"
  BY DEF Known, Swept
<1>3. ToSet(m.ended) = {r \in Tasks(m) : q[r].state \in Ended}
  BY DEF Known, Swept
<1>4. ASSUME NEW k \in Key
      PROVE  Working1(m, q, k) = Working1(l, q, k) /\ Jobs1(m, q, k) = Jobs1(l, q, k)
  <2>1. ToSet(l.records[k]) \subseteq Tasks(l) /\ ToSet(m.records[k]) = ToSet(l.records[k]) \cap Tasks(m)
    BY InTable DEF Swept
  <2>2. \A r \in ToSet(l.records[k]) : q[r].state \in Working => r \in Tasks(m)
    BY <2>1 DEF Known, Lost, Working, Ended
  <2> QED BY <2>1, <2>2 DEF Working1, Jobs1, Working
<1> QED BY <1>1, <1>2, <1>3, <1>4 DEF Known, Swept

LEMMA LostOn ==
  ASSUME NEW l, NEW m, NEW o, Swept(m, l), Lost(m, l), Lost(o, m)
  PROVE  Lost(o, l)
BY DEF Swept, Lost

\* ledger_owner_ended()
LEMMA OldestIs ==
  ASSUME NEW l, l \in Struct, NEW k \in Key, HasEnded(l, k)
  PROVE  OldestEnded(l, k) \in ToSet(l.records[k]) /\ rec[OldestEnded(l, k)].state \in Ended
<1> DEFINE s == l.records[k]
           E(i) == rec[s[i]].state \in Ended
           T == {i \in 1 .. Len(s) : E(i)}
<1>1. s \in Lists(Rec)
  BY Fields
<1>2. /\ DOMAIN s = 1 .. Len(s) /\ Len(s) \in Nat
      /\ \A x : x \in ToSet(s) <=> \E i \in 1 .. Len(s) : s[i] = x
  BY <1>1, OnList
<1>3. T # {} /\ T \subseteq Nat
  BY <1>2 DEF HasEnded
<1>4. PICK i \in T : \A y \in T : i <= y
  BY <1>3, Least
<1>5. E(i) /\ i \in DOMAIN s /\ \A j \in 1 .. i - 1 : ~E(j)
  BY <1>2, <1>4
<1>6. \E e \in DOMAIN s : E(e) /\ \A j \in 1 .. e - 1 : ~E(j)
  BY <1>5
<1>7. LET e == CHOOSE e \in DOMAIN s : E(e) /\ \A j \in 1 .. e - 1 : ~E(j)
      IN  e \in DOMAIN s /\ E(e) /\ OldestEnded(l, k) = s[e]
  BY <1>6 DEF OldestEnded
<1> QED BY <1>2, <1>7

\* ledger_owner_most()
LEMMA MostIs ==
  ASSUME NEW l, Shape(l), rec \in Records, Known(l, rec), NEW k \in Most(l)
  PROVE  k \in Key /\ HasEnded(l, k)
<1>1. l \in Struct /\ Listed(l)
  BY DEF Shape
<1>2. k \in Key /\ l.n[k] - l.running[k] > 0
  BY <1>1, Fields DEF Most
<1>3. /\ IsFiniteSet(ToSet(l.records[k])) /\ Cardinality(ToSet(l.records[k])) = l.n[k]
      /\ ToSet(l.records[k]) \subseteq Tasks(l) /\ ToSet(l.records[k]) \subseteq Rec
  BY <1>1, <1>2, InTable DEF Listed
<1>4. l.running[k] = Cardinality(Working1(l, rec, k))
  BY <1>2 DEF Known
<1>5. Working1(l, rec, k) # ToSet(l.records[k])
  <2>1. l.n[k] \in Int
    BY <1>1, <1>2, Fields
  <2> QED BY <1>2, <1>3, <1>4, <2>1
<1>6. PICK r \in ToSet(l.records[k]) : rec[r].state \notin Working
  BY <1>5 DEF Working1
<1>7. rec[r].state \in Ended
  BY <1>3, <1>6 DEF Known, Records, RecordType
<1> QED BY <1>2, <1>6, <1>7 DEF HasEnded

\* ledger_sweep(), for time and bytes...
LEMMA SweptIs ==
  ASSUME NEW l, Shape(l), NEW i \in 0 .. Len(l.ended)
  PROVE  LET m == Dropped(l, ToSet(SubSeq(l.ended, 1, i)))
         IN  Shape(m) /\ Swept(m, l) /\ Lost(m, l)
<1> DEFINE R == ToSet(SubSeq(l.ended, 1, i))
<1>1. l.ended \in Lists(Rec)
  BY Fields DEF Shape
<1>2. R \subseteq ToSet(l.ended)
  BY <1>1, PrefixList
<1> HIDE DEF R
<1>3. /\ Shape(Dropped(l, R)) /\ Swept(Dropped(l, R), l)
      /\ Tasks(Dropped(l, R)) = Tasks(l) \ R
  BY DroppedIs
<1>4. Lost(Dropped(l, R), l)
  BY <1>2, <1>3 DEF Lost
<1> QED BY <1>3, <1>4 DEF R

LEMMA SweepsIs ==
  ASSUME NEW l, Shape(l), NEW s \in Sweeps(l, FALSE)
  PROVE  Shape(s) /\ Swept(s, l) /\ Lost(s, l)
<1>1. PICK i \in 0 .. Len(l.ended) : s = Dropped(l, ToSet(SubSeq(l.ended, 1, i)))
  BY DEF Sweeps
<1> QED BY <1>1, SweptIs

\* ... and for room.
LEMMA RoomIs ==
  ASSUME NEW l, Shape(l), rec \in Records, Known(l, rec), NEW s \in Sweeps(l, TRUE)
  PROVE  Shape(s) /\ Swept(s, l) /\ Lost(s, l) /\ Known(s, rec)
<1>1. PICK i \in 0 .. Len(l.ended) :
        LET m == Dropped(l, ToSet(SubSeq(l.ended, 1, i)))
        IN  s = m \/ \E k \in Most(m) : s = Dropped(m, {OldestEnded(m, k)})
  BY DEF Sweeps
<1> DEFINE m == Dropped(l, ToSet(SubSeq(l.ended, 1, i)))
<1>2. Shape(m) /\ Swept(m, l) /\ Lost(m, l)
  BY SweptIs
<1>3. s = m \/ \E k \in Most(m) : s = Dropped(m, {OldestEnded(m, k)})
  BY <1>1
<1> HIDE DEF m
<1>4. Known(m, rec)
  BY <1>2, KnownSwept DEF Shape
<1>5. CASE s = m
  BY <1>2, <1>4, <1>5
<1>6. ASSUME NEW k \in Most(m), s = Dropped(m, {OldestEnded(m, k)})
      PROVE  Shape(s) /\ Swept(s, l) /\ Lost(s, l) /\ Known(s, rec)
  <2>1. k \in Key /\ HasEnded(m, k) /\ m \in Struct
    BY <1>2, <1>4, MostIs DEF Shape
  <2>2. OldestEnded(m, k) \in ToSet(m.records[k]) /\ rec[OldestEnded(m, k)].state \in Ended
    BY <2>1, OldestIs
  <2>3. OldestEnded(m, k) \in ToSet(m.ended)
    BY <1>4, <2>1, <2>2, InTable DEF Known
  <2>4. /\ Shape(s) /\ Swept(s, m) /\ Tasks(s) = Tasks(m) \ {OldestEnded(m, k)}
    BY <1>2, <1>6, DroppedIs
  <2>5. Lost(s, m)
    BY <2>3, <2>4 DEF Lost
  <2>6. Known(s, rec)
    BY <1>4, <2>1, <2>4, <2>5, KnownSwept DEF Shape
  <2> QED BY <1>2, <2>4, <2>5, <2>6, SweptOn, LostOn
<1> QED BY <1>3, <1>5, <1>6

\* ledger_owner_expire()
LEMMA ExpiredIs ==
  ASSUME NEW l, l \in Struct, NEW x
  PROVE  LET e == Expired(l, x)
         IN  /\ e \in Struct /\ Same(e, l) /\ e.owners = l.owners /\ e.n_anonymous = l.n_anonymous
             /\ \A k \in Key, i \in Slot :
                  e.timers[k][i] = IF <<k, i>> \in x THEN "none" ELSE l.timers[k][i]
<1> DEFINE ts == [k \in Key |-> [i \in Slot |->
                    IF <<k, i>> \in x THEN "none" ELSE l.timers[k][i]]]
           e == [l EXCEPT !.timers = ts]
<1>1. e = Expired(l, x)
  BY DEF Expired, Struct
<1>2. ts \in [Key -> [Slot -> {"none", "set", "fired"}]]
  BY Fields
<1>3. \A k \in Key, i \in Slot : ts[k][i] = IF <<k, i>> \in x THEN "none" ELSE l.timers[k][i]
  OBVIOUS
<1> HIDE DEF ts
<1>4. e \in Struct
  BY <1>2, ZenonT(60) DEF Struct
<1>5. /\ e.records = l.records /\ e.ended = l.ended /\ e.n = l.n /\ e.running = l.running
      /\ e.waits = l.waits /\ e.n_waits = l.n_waits /\ e.timers = ts
      /\ e.owners = l.owners /\ e.n_anonymous = l.n_anonymous
  BY DEF Struct
<1> HIDE DEF e
<1> QED BY <1>1, <1>3, <1>4, <1>5 DEF Same

\* A struct with the same lists and owners, and no more timers.
LEMMA SameShape ==
  ASSUME NEW l, Shape(l), NEW m, m \in Struct, Same(m, l), m.owners = l.owners,
         m.n_anonymous = l.n_anonymous, \A k \in Key : Used(m, k) => Used(l, k)
  PROVE  Shape(m)
<1>1. Tasks(m) = Tasks(l) /\ Size(m) = Size(l)
  BY SameTasks
<1> QED BY <1>1 DEF Shape, Listed, Same

LEMMA ExpiredShape ==
  ASSUME NEW l, Shape(l), NEW x
  PROVE  Shape(Expired(l, x))
<1>1. l \in Struct
  BY DEF Shape
<1> DEFINE e == Expired(l, x)
<1>2. /\ e \in Struct /\ Same(e, l) /\ e.owners = l.owners /\ e.n_anonymous = l.n_anonymous
      /\ \A k \in Key, i \in Slot :
           e.timers[k][i] = IF <<k, i>> \in x THEN "none" ELSE l.timers[k][i]
  BY <1>1, ExpiredIs
<1> HIDE DEF e
<1>3. \A k \in Key : Used(e, k) => Used(l, k)
  BY <1>2 DEF Used, Same
<1> QED BY <1>2, <1>3, SameShape DEF e

\* ledger_owner_gc()
LEMMA GcShape ==
  ASSUME NEW l, Shape(l), NEW K, K \subseteq Key
  PROVE  LET m == Gc(l, K)
         IN  /\ Shape(m) /\ Same(m, l) /\ m.timers = l.timers
             /\ \A J : InUse(l, K \cup J) => InUse(m, J)
<1> DEFINE m == Gc(l, K)
<1>1. /\ l \in Struct /\ Listed(l)
      /\ \A k \in Key : l.n[k] = Len(l.records[k]) /\ l.n_waits[k] = Cardinality(l.waits[k])
  BY DEF Shape, Listed
<1>2. /\ m \in Struct /\ Same(m, l) /\ m.timers = l.timers
      /\ m.owners = {k \in l.owners : k \in K => Used(l, k)}
      /\ m.n_anonymous = l.n_anonymous
           - (Cardinality(l.owners \cap Anonymous) - Cardinality(m.owners \cap Anonymous))
      /\ Cardinality(m.owners) <= Cardinality(l.owners)
      /\ Cardinality(m.owners \cap Anonymous) <= Cardinality(l.owners \cap Anonymous)
  BY <1>1, GcIs
<1> HIDE DEF m
<1>3. Tasks(m) = Tasks(l) /\ Size(m) = Size(l)
  BY <1>2, SameTasks
<1>4. \A k \in Key : Used(m, k) <=> Used(l, k)
  BY <1>2 DEF Used, Same
<1>5. ASSUME NEW J, InUse(l, K \cup J) PROVE InUse(m, J)
  BY <1>1, <1>2, <1>4, <1>5, Fields DEF InUse
<1>6. /\ m.n_anonymous = Cardinality(m.owners \cap Anonymous)
      /\ Cardinality(m.owners) <= LEDGER_OWNERS
      /\ Cardinality(m.owners \cap Anonymous) <= LEDGER_OWNERS \div 2
  <2>1. /\ Cardinality(l.owners) \in Nat /\ Cardinality(l.owners \cap Anonymous) \in Nat
        /\ Cardinality(m.owners) \in Nat /\ Cardinality(m.owners \cap Anonymous) \in Nat
    BY <1>1, <1>2, Owners
  <2>2. /\ l.n_anonymous = Cardinality(l.owners \cap Anonymous)
        /\ Cardinality(l.owners) <= LEDGER_OWNERS
        /\ Cardinality(l.owners \cap Anonymous) <= LEDGER_OWNERS \div 2
    BY <1>1 DEF Listed
  <2> QED BY <1>2, <2>1, <2>2, Given
<1>7. \A k \in Key : Used(m, k) => k \in m.owners
  BY <1>1, <1>2, <1>4 DEF Listed
<1>8. Listed(m)
  BY <1>1, <1>2, <1>3, <1>6, <1>7 DEF Listed, Same
<1> QED BY <1>2, <1>5, <1>8 DEF Shape, m

\* ledger_owner_get(): the lists are as they were, some timers have gone, and
\* only k may be an owner with nothing.
LEMMA OwnerGetIs ==
  ASSUME NEW l, Shape(l), InUse(l, {}), NEW k \in Key, NEW x
  PROVE  LET g == OwnerGet(l, k, x)
         IN  /\ Shape(g) /\ Same(g, l) /\ InUse(g, {k})
             /\ \A j \in Key, i \in Slot : g.timers[j][i] \in {l.timers[j][i], "none"}
<1> DEFINE m == IF k \in l.owners \/ Room(l, k) THEN l ELSE OwnersExpired(l, x)
           g == IF k \in m.owners \/ ~Room(m, k) THEN m
                ELSE [m EXCEPT !.owners = @ \cup {k},
                               !.n_anonymous = @ + (IF k \in Anonymous THEN 1 ELSE 0)]
<1>1. g = OwnerGet(l, k, x)
  BY DEF OwnerGet
<1>2. /\ Shape(m) /\ Same(m, l) /\ InUse(m, {})
      /\ \A j \in Key, i \in Slot : m.timers[j][i] \in {l.timers[j][i], "none"}
  <2>1. CASE k \in l.owners \/ Room(l, k)
    BY <2>1 DEF Same
  <2>2. CASE ~(k \in l.owners \/ Room(l, k))
    <3> DEFINE e == Expired(l, x)
    <3>1. m = Gc(e, Key)
      BY <2>2 DEF OwnersExpired
    <3>2. /\ Shape(e) /\ Same(e, l)
          /\ \A j \in Key, i \in Slot :
               e.timers[j][i] = IF <<j, i>> \in x THEN "none" ELSE l.timers[j][i]
      BY ExpiredShape, ExpiredIs DEF Shape
    <3> HIDE DEF e, m
    <3>3. /\ Shape(m) /\ Same(m, e) /\ m.timers = e.timers
          /\ \A J : InUse(e, Key \cup J) => InUse(m, J)
      BY <3>1, <3>2, GcShape
    <3>4. InUse(e, Key \cup {})
      BY <3>2, Fields DEF InUse, Shape
    <3>5. InUse(m, {})
      BY <3>3, <3>4
    <3> QED BY <3>2, <3>3, <3>5 DEF Same
  <2> QED BY <2>1, <2>2
<1> HIDE DEF m
<1>3. InUse(m, {k})
  BY <1>2 DEF InUse
<1>4. CASE k \in m.owners \/ ~Room(m, k)
  BY <1>1, <1>2, <1>3, <1>4
<1>5. CASE ~(k \in m.owners \/ ~Room(m, k))
  <2>1. m \in Struct /\ Listed(m) /\ m.owners \subseteq Key /\ m.n_anonymous \in Int
    BY <1>2, Fields DEF Shape
  <2> DEFINE os == m.owners \cup {k}
             na == m.n_anonymous + (IF k \in Anonymous THEN 1 ELSE 0)
             d  == [m EXCEPT !.owners = os, !.n_anonymous = na]
  <2>2. g = d
    BY <1>5, <2>1 DEF Struct
  <2>3. os \in SUBSET Key /\ na \in Int
    BY <2>1
  <2>4. /\ Cardinality(os) <= LEDGER_OWNERS /\ na = Cardinality(os \cap Anonymous)
        /\ Cardinality(os \cap Anonymous) <= LEDGER_OWNERS \div 2
    <3>1. /\ IsFiniteSet(m.owners) /\ Cardinality(m.owners) \in Nat
          /\ IsFiniteSet(m.owners \cap Anonymous) /\ Cardinality(m.owners \cap Anonymous) \in Nat
      BY <2>1, Owners
    <3>2. /\ Cardinality(m.owners) < LEDGER_OWNERS
          /\ k \in Anonymous => m.n_anonymous < LEDGER_OWNERS \div 2
      BY <1>5 DEF Room
    <3>3. /\ m.n_anonymous = Cardinality(m.owners \cap Anonymous)
          /\ Cardinality(m.owners \cap Anonymous) <= LEDGER_OWNERS \div 2
      BY <2>1 DEF Listed
    <3>4. Cardinality(os) = Cardinality(m.owners) + 1
      BY <1>5, <3>1, FS_AddElement
    <3>5. Cardinality(os \cap Anonymous) = na
      <4>1. CASE k \in Anonymous
        <5>1. os \cap Anonymous = (m.owners \cap Anonymous) \cup {k}
          BY <4>1
        <5>2. Cardinality((m.owners \cap Anonymous) \cup {k}) = Cardinality(m.owners \cap Anonymous) + 1
          BY <1>5, <3>1, FS_AddElement
        <5> QED BY <3>3, <4>1, <5>1, <5>2
      <4>2. CASE k \notin Anonymous
        <5>1. os \cap Anonymous = m.owners \cap Anonymous
          BY <4>2
        <5>2. na = m.n_anonymous
          BY <2>1, <4>2
        <5> HIDE DEF os, na
        <5> QED BY <3>3, <5>1, <5>2
      <4> QED BY <4>1, <4>2
    <3>6. na <= LEDGER_OWNERS \div 2
      BY <3>1, <3>2, <3>3, Given
    <3> HIDE DEF os, na
    <3> QED BY <3>1, <3>2, <3>4, <3>5, <3>6, Given
  <2> HIDE DEF na
  <2>5. d \in Struct
    BY <2>1, <2>3, ZenonT(60) DEF Struct
  <2>6. /\ d.records = m.records /\ d.ended = m.ended /\ d.n = m.n /\ d.running = m.running
        /\ d.waits = m.waits /\ d.n_waits = m.n_waits /\ d.timers = m.timers
        /\ d.owners = os /\ d.n_anonymous = na
    BY <2>1 DEF Struct
  <2> HIDE DEF d
  <2>7. Same(d, m) /\ Tasks(d) = Tasks(m) /\ Size(d) = Size(m)
    BY <2>6, SameTasks DEF Same
  <2>8. \A j \in Key : Used(d, j) <=> Used(m, j)
    BY <2>6 DEF Used
  <2>9. Listed(d)
    BY <2>1, <2>4, <2>6, <2>7, <2>8 DEF Listed
  <2>10. InUse(d, {k})
    BY <1>2, <2>1, <2>6, <2>8 DEF InUse
  <2> QED BY <1>1, <1>2, <2>2, <2>5, <2>6, <2>7, <2>9, <2>10 DEF Shape, Same
<1> QED BY <1>4, <1>5

\* m is d with r among k's records.
Grown(m, d, k, r) ==
  /\ Tasks(m) = Tasks(d) \cup {r}
  /\ ToSet(m.records[k]) = ToSet(d.records[k]) \cup {r}
  /\ \A j \in Key \ {k} : m.records[j] = d.records[j]
  /\ m.ended = d.ended /\ m.running = d.running /\ m.waits = d.waits
  /\ m.n_waits = d.n_waits /\ m.timers = d.timers /\ m.owners = d.owners

\* ledger_insert(): with LEDGER_MINE records and one of them ended, the oldest
\* of those goes first, and its owner stays as it has others.
LEMMA InsertedIs ==
  ASSUME NEW l, Shape(l), rec \in Records, Known(l, rec), NEW k \in Key, k \in l.owners,
         InUse(l, {k}), NEW r \in Rec, r \notin Tasks(l), Size(l) # LEDGER_MAX,
         NEW m \in Inserted(l, k, r)
  PROVE  /\ Shape(m) /\ InUse(m, {})
         /\ \E d : /\ Shape(d) /\ Swept(d, l) /\ Lost(d, l) /\ Known(d, rec) /\ Grown(m, d, k, r)
                   /\ r \notin Tasks(d)
<1> DEFINE d == IF l.n[k] >= LEDGER_MINE /\ HasEnded(l, k)
                THEN Dropped(l, {OldestEnded(l, k)}) ELSE l
<1>1. PICK i \in 1 .. Len(d.records[k]) + 1 :
        m = [d EXCEPT !.records[k] = InsertAt(@, i, r), !.n[k] = @ + 1]
  BY DEF Inserted
<1>2. l \in Struct /\ Listed(l)
  BY DEF Shape
<1>3. Shape(d) /\ Swept(d, l) /\ Lost(d, l) /\ Known(d, rec) /\ k \in d.owners
  <2>1. CASE l.n[k] >= LEDGER_MINE /\ HasEnded(l, k)
    <3> DEFINE o == OldestEnded(l, k)
    <3>1. o \in ToSet(l.records[k]) /\ rec[o].state \in Ended
      BY <1>2, <2>1, OldestIs
    <3>2. d = Dropped(l, {o})
      BY <2>1
    <3> HIDE DEF d, o
    <3>3. o \in ToSet(l.ended)
      BY <1>2, <3>1, InTable DEF Known
    <3>4. Shape(d) /\ Swept(d, l) /\ Tasks(d) = Tasks(l) \ {o}
      BY <3>2, DroppedIs
    <3>5. Lost(d, l)
      BY <3>3, <3>4 DEF Lost
    <3>6. Known(d, rec)
      BY <1>2, <3>4, <3>5, KnownSwept DEF Shape
    <3>7. d.records[k] # <<>>
      <4>1. /\ IsFiniteSet(ToSet(l.records[k])) /\ Cardinality(ToSet(l.records[k])) = l.n[k]
            /\ ToSet(l.records[k]) \subseteq Tasks(l) /\ l.n[k] \in Nat
        BY <1>2, InTable DEF Listed
      <4>2. ToSet(d.records[k]) = ToSet(l.records[k]) \ {o}
        BY <3>4, <4>1 DEF Swept
      <4>3. Cardinality(ToSet(l.records[k]) \ {o}) =
              IF o \in ToSet(l.records[k]) THEN Cardinality(ToSet(l.records[k])) - 1
              ELSE Cardinality(ToSet(l.records[k]))
        BY <4>1, FS_RemoveElement, Zenon
      <4>4. Cardinality(ToSet(d.records[k])) # 0
        BY <2>1, <3>1, <4>1, <4>2, <4>3, Given
      <4>5. Cardinality({}) = 0
        BY FS_EmptySet
      <4>6. ToSet(d.records[k]) # {}
        BY <4>4, <4>5, Zenon
      <4> QED BY <3>4, <4>6, InTable DEF Shape
    <3>8. k \in d.owners
      BY <3>4, <3>7 DEF Shape, Listed, Used
    <3> QED BY <3>4, <3>5, <3>6, <3>8
  <2>2. CASE ~(l.n[k] >= LEDGER_MINE /\ HasEnded(l, k))
    BY <2>2, SweptNone DEF Lost
  <2> QED BY <2>1, <2>2
<1> HIDE DEF d
<1>4. d \in Struct /\ Listed(d)
  BY <1>3 DEF Shape
<1>5. d.records \in [Key -> Lists(Rec)] /\ d.n \in [Key -> Int]
  BY <1>4, Fields
<1>6. r \notin Tasks(d) /\ r \notin ToSet(d.records[k])
  BY <1>3, <1>4, InTable DEF Swept
<1> DEFINE t == InsertAt(d.records[k], i, r)
           rs == [d.records EXCEPT ![k] = t]
           ns == [d.n EXCEPT ![k] = @ + 1]
<1>7. t \in Lists(Rec) /\ ToSet(t) = ToSet(d.records[k]) \cup {r} /\ Len(t) = Len(d.records[k]) + 1
  BY <1>5, <1>6, InsertList
<1> HIDE DEF t
<1>8. rs \in [Key -> Lists(Rec)] /\ ns \in [Key -> Int]
  BY <1>5, <1>7
<1>9. /\ \A j \in Key : rs[j] = IF j = k THEN t ELSE d.records[j]
      /\ \A j \in Key : ns[j] = IF j = k THEN d.n[k] + 1 ELSE d.n[j]
  BY <1>5
<1>10. m = [d EXCEPT !.records = rs, !.n = ns]
  BY <1>1, <1>4 DEF Struct, t
<1> HIDE DEF rs, ns
<1>11. m \in Struct
  BY <1>4, <1>8, <1>10, ZenonT(60) DEF Struct
<1>12. /\ m.records = rs /\ m.n = ns /\ m.ended = d.ended /\ m.running = d.running
       /\ m.waits = d.waits /\ m.n_waits = d.n_waits /\ m.timers = d.timers
       /\ m.owners = d.owners /\ m.n_anonymous = d.n_anonymous
  BY <1>4, <1>10 DEF Struct
<1>13. /\ ToSet(m.records[k]) = ToSet(d.records[k]) \cup {r}
       /\ \A j \in Key \ {k} : m.records[j] = d.records[j]
  BY <1>7, <1>9, <1>12
<1>14. Tasks(m) = Tasks(d) \cup {r}
  <2>1. \A x : x \in Tasks(m) <=> \E j \in Key : x \in ToSet(m.records[j])
    BY <1>11, InTable
  <2>2. \A x : x \in Tasks(d) <=> \E j \in Key : x \in ToSet(d.records[j])
    BY <1>4, InTable
  <2> QED BY <1>13, <2>1, <2>2
<1>15. Grown(m, d, k, r)
  BY <1>12, <1>13, <1>14 DEF Grown
<1>16. Size(m) <= LEDGER_MAX
  <2>1. /\ IsFiniteSet(Tasks(l)) /\ IsFiniteSet(Tasks(d)) /\ Size(d) \in Nat /\ Size(l) \in Nat
    BY <1>2, <1>4, InTable
  <2>2. Size(d) <= Size(l)
    BY <1>3, <2>1, Sub DEF Size, Swept
  <2>3. Size(m) = Size(d) + 1
    BY <1>6, <1>14, <2>1, FS_AddElement DEF Size
  <2>4. Size(l) <= LEDGER_MAX
    BY <1>2 DEF Listed
  <2> QED BY <2>1, <2>2, <2>3, <2>4, Given
<1>17. m.records[k] # <<>>
  <2>1. ToSet(m.records[k]) # {}
    BY <1>13
  <2> QED BY <1>11, <2>1, InTable
<1>18. \A j \in Key \ {k} : Used(m, j) <=> Used(d, j)
  BY <1>12, <1>13 DEF Used
<1>19. Listed(m)
  <2>1. \A i1, j1 \in Key : i1 # j1 => /\ ToSet(m.records[i1]) \cap ToSet(m.records[j1]) = {}
                                       /\ m.waits[i1] \cap m.waits[j1] = {}
    <3>1. \A j \in Key : r \notin ToSet(d.records[j])
      BY <1>4, <1>6, InTable
    <3>2. \A i1, j1 \in Key : i1 # j1 => /\ ToSet(d.records[i1]) \cap ToSet(d.records[j1]) = {}
                                         /\ d.waits[i1] \cap d.waits[j1] = {}
      BY <1>4 DEF Listed
    <3>3. \A j \in Key : ToSet(m.records[j]) = IF j = k THEN ToSet(d.records[k]) \cup {r}
                                               ELSE ToSet(d.records[j])
      BY <1>13
    <3> QED BY <1>12, <3>1, <3>2, <3>3
  <2>2. ASSUME NEW j \in Key
        PROVE  /\ m.n[j] = Len(m.records[j]) /\ m.n_waits[j] = Cardinality(m.waits[j])
               /\ m.n_waits[j] <= LEDGER_WAITS /\ (Used(m, j) => j \in m.owners)
    BY <1>3, <1>4, <1>7, <1>9, <1>12, <1>18 DEF Listed
  <2>3. ToSet(m.ended) \subseteq Tasks(m)
    BY <1>4, <1>12, <1>14 DEF Listed
  <2> QED BY <1>4, <1>12, <1>16, <2>1, <2>2, <2>3 DEF Listed
<1>20. InUse(m, {})
  <2>1. InUse(d, {k})
    BY <1>3 DEF Swept
  <2>2. Used(m, k)
    BY <1>17 DEF Used
  <2>3. m.owners \subseteq Key
    BY <1>11, Fields
  <2> QED BY <1>12, <1>18, <2>1, <2>2, <2>3 DEF InUse
<1> QED BY <1>3, <1>6, <1>11, <1>15, <1>19, <1>20 DEF Shape

-----------------------------------------------------------------------------
(* Records and waits.                                                      *)

LEMMA Bits == \A b : Bit(b) \in Nat /\ Bit(TRUE) = 1 /\ Bit(FALSE) = 0 /\ (~b => Bit(b) = 0)
BY DEF Bit

LEMMA FreeRecIs ==
  /\ FreeRec \in RecordType /\ FreeRec.state = "free" /\ FreeRec.refs = 0
  /\ ~FreeRec.shown /\ ~FreeRec.cancel /\ FreeRec.state \notin Working \cup Ended
BY DEF FreeRec, RecordType, Working, Ended

LEMMA RecordFields ==
  ASSUME NEW q \in Records, NEW r \in Rec
  PROVE  /\ q[r] \in RecordType /\ q[r].refs \in Nat
         /\ q[r].shown \in BOOLEAN /\ q[r].cancel \in BOOLEAN /\ q[r].asked \in BOOLEAN
         /\ q[r].state \in {"free", "task", "job", "ended", "told"}
BY DEF Records, RecordType, Working, Ended

LEMMA WaitFields ==
  ASSUME NEW wt \in Waits, NEW w \in Wait
  PROVE  /\ wt[w] \in WaitType /\ wt[w].refs \in Nat /\ wt[w].covers \subseteq Slot
         /\ wt[w].any \in BOOLEAN /\ wt[w].posted \in BOOLEAN
         /\ wt[w].mail \in BOOLEAN /\ wt[w].hand \in BOOLEAN
         /\ wt[w].state \in {"free", "looks", "parked", "done", "left"}
BY DEF Waits, WaitType

\* Two states of a record that the lists do not tell apart.
SameKind(b, a) ==
  /\ b.state \in Working <=> a.state \in Working
  /\ b.state = "job" <=> a.state = "job"
  /\ b.state \in Ended <=> a.state \in Ended
  /\ b.state = "ended" => a.state = "ended"

LEMMA KnownAlike ==
  ASSUME NEW l, l \in Struct, NEW p \in Records, NEW q \in Records, Known(l, p),
         \A r \in Rec : IF r \in Tasks(l) THEN SameKind(q[r], p[r]) ELSE q[r].state \notin Working
  PROVE  Known(l, q) /\ \A wt : Heeded(l, p, wt) => Heeded(l, q, wt)
<1>1. \A r \in Tasks(l) : r \in Rec /\ SameKind(q[r], p[r])
  BY InTable
<1>2. \A k \in Key : \A r \in ToSet(l.records[k]) : r \in Tasks(l)
  BY InTable
<1>3. ASSUME NEW k \in Key
      PROVE  Working1(l, q, k) = Working1(l, p, k) /\ Jobs1(l, q, k) = Jobs1(l, p, k)
  BY <1>1, <1>2 DEF Working1, Jobs1, SameKind
<1>4. ToSet(l.ended) = {r \in Tasks(l) : q[r].state \in Ended}
  BY <1>1 DEF Known, SameKind
<1>5. \A r \in Tasks(l) : q[r].state # "free"
  <2> SUFFICES ASSUME NEW r \in Tasks(l) PROVE q[r].state # "free"
    OBVIOUS
  <2>1. p[r].state \in Working \/ p[r].state \in Ended
    BY <1>1, RecordFields DEF Known, Working, Ended
  <2> QED BY <1>1, <2>1 DEF SameKind, Working, Ended
<1>6. Known(l, q)
  BY <1>3, <1>4, <1>5 DEF Known
<1>7. ASSUME NEW wt, Heeded(l, p, wt) PROVE Heeded(l, q, wt)
  BY <1>1, <1>2, <1>7 DEF Heeded, SameKind
<1> QED BY <1>6, <1>7

LEMMA DropsIs ==
  ASSUME NEW td \in Todo, NEW r
  PROVE  IsFiniteSet(Drops(td, r)) /\ Cardinality(Drops(td, r)) \in Nat
BY Given, Sub DEF Drops

\* A loop that had nothing to drop has G, and one that had is done.
LEMMA DropsMore ==
  ASSUME NEW td \in Todo, NEW t \in Loop, td[t].gone = {}, NEW h \in Lists(Wait),
         NEW G \in SUBSET Rec
  PROVE  LET ue == [td EXCEPT ![t] = [hits |-> h, gone |-> G]]
         IN  /\ ue \in Todo
             /\ \A r : Cardinality(Drops(ue, r)) = Cardinality(Drops(td, r)) + Bit(r \in G)
<1> DEFINE ue == [td EXCEPT ![t] = [hits |-> h, gone |-> G]]
<1>1. ue \in Todo
  BY DEF Todo
<1>2. ASSUME NEW r PROVE Cardinality(Drops(ue, r)) = Cardinality(Drops(td, r)) + Bit(r \in G)
  <2>0. ue[t].gone = G /\ \A u \in Loop \ {t} : ue[u] = td[u]
    BY DEF Todo
  <2>1. t \notin Drops(td, r)
    BY DEF Drops
  <2>2. CASE r \in G
    <3>1. Drops(ue, r) = Drops(td, r) \cup {t}
      BY <2>0, <2>2 DEF Drops
    <3>2. Cardinality(Drops(td, r) \cup {t}) =
            IF t \in Drops(td, r) THEN Cardinality(Drops(td, r)) ELSE Cardinality(Drops(td, r)) + 1
      BY DropsIs, FS_AddElement, Zenon
    <3> HIDE DEF ue
    <3> QED BY <2>1, <2>2, <3>1, <3>2 DEF Bit
  <2>3. CASE r \notin G
    <3>1. Drops(ue, r) = Drops(td, r)
      BY <2>0, <2>1, <2>3 DEF Drops
    <3> HIDE DEF ue
    <3> QED BY <2>3, <3>1, DropsIs DEF Bit
  <2> QED BY <2>2, <2>3
<1> QED BY <1>1, <1>2

LEMMA DropsLess ==
  ASSUME NEW td \in Todo, NEW t \in Loop
  PROVE  LET ue == [td EXCEPT ![t] = Nothing]
         IN  /\ ue \in Todo
             /\ \A r : /\ Cardinality(Drops(ue, r)) =
                            Cardinality(Drops(td, r)) - Bit(r \in td[t].gone)
                       /\ Cardinality(Drops(ue, r)) \in Nat
<1> DEFINE ue == [td EXCEPT ![t] = Nothing]
<1>0. Nothing \in [hits : Lists(Wait), gone : SUBSET Rec] /\ Nothing.gone = {}
  BY EmptyList DEF Nothing
<1>1. ue \in Todo
  BY <1>0 DEF Todo
<1>2. ue[t].gone = {} /\ \A u \in Loop \ {t} : ue[u] = td[u]
  BY <1>0 DEF Todo
<1> HIDE DEF ue
<1>3. ASSUME NEW r
      PROVE  Cardinality(Drops(ue, r)) = Cardinality(Drops(td, r)) - Bit(r \in td[t].gone)
  <2>1. Drops(ue, r) = Drops(td, r) \ {t}
    BY <1>2 DEF Drops
  <2>2. Cardinality(Drops(td, r) \ {t}) =
          IF t \in Drops(td, r) THEN Cardinality(Drops(td, r)) - 1 ELSE Cardinality(Drops(td, r))
    BY DropsIs, FS_RemoveElement, Zenon
  <2>3. t \in Drops(td, r) <=> r \in td[t].gone
    BY DEF Drops
  <2> QED BY <2>1, <2>2, <2>3, DropsIs DEF Bit
<1> QED BY <1>1, <1>3, DropsIs DEF ue

LEMMA IdleIs ==
  ASSUME todo \in Todo, NEW t \in Loop, Idle(t)
  PROVE  /\ open /\ todo[t] = Nothing /\ todo[t].gone = {} /\ todo[t].hits = <<>>
         /\ ToSet(todo[t].hits) = {}
BY EmptyList DEF Idle, Nothing

\* ledger_owner_wake() of the waits in W, for the chain of loop t.
LEMMA ChainedIs ==
  ASSUME wait \in Waits, todo \in Todo, Called(wait), Posted(wait, todo), NEW t \in Loop,
         todo[t] = Nothing, NEW W \in SUBSET Wait, \A w \in W : ~wait[w].posted,
         NEW G \in SUBSET Rec,
         \A w \in W : wait[w].state \in Waited
  PROVE  LET wt == Chained(W)
             td == [todo EXCEPT ![t] = [hits |-> SetToSeq(W), gone |-> G]]
         IN  /\ wt \in Waits /\ td \in Todo /\ Called(wt) /\ Posted(wt, td)
             /\ \A w \in Wait : /\ wt[w].state = wait[w].state /\ wt[w].any = wait[w].any
                                /\ wt[w].covers = wait[w].covers
                                /\ wt[w].posted <=> wait[w].posted \/ w \in W
<1> DEFINE wt == Chained(W)
           td == [todo EXCEPT ![t] = [hits |-> SetToSeq(W), gone |-> G]]
<1>1. SetToSeq(W) \in Lists(Wait) /\ ToSet(SetToSeq(W)) = W
  BY Given, Sub, SetList
<1>2. td \in Todo /\ td[t].hits = SetToSeq(W) /\ \A u \in Loop \ {t} : td[u] = todo[u]
  BY <1>1 DEF Todo
<1>3. todo[t].hits = <<>> /\ ToSet(todo[t].hits) = {}
  BY EmptyList DEF Nothing
<1>4. ASSUME NEW w \in Wait
      PROVE  /\ w \in W => wt[w] = [wait[w] EXCEPT !.posted = TRUE, !.refs = @ + 1]
             /\ w \notin W => wt[w] = wait[w]
  BY DEF Chained
<1>5. ASSUME NEW w \in Wait
      PROVE  /\ wt[w].state = wait[w].state /\ wt[w].any = wait[w].any
             /\ wt[w].covers = wait[w].covers /\ wt[w].mail = wait[w].mail
             /\ wt[w].hand = wait[w].hand
             /\ wt[w].posted = (wait[w].posted \/ w \in W)
             /\ wt[w].refs = wait[w].refs + Bit(w \in W)
  <2>1. wait[w] \in WaitType /\ wait[w].refs \in Nat /\ wait[w].posted \in BOOLEAN
    BY WaitFields
  <2>2. CASE w \in W
    <3> DEFINE v == [wait[w] EXCEPT !.posted = TRUE, !.refs = @ + 1]
    <3>1. wt[w] = v
      BY <1>4, <2>2
    <3> HIDE DEF wt
    <3>2. /\ v.state = wait[w].state /\ v.any = wait[w].any
          /\ v.covers = wait[w].covers /\ v.mail = wait[w].mail /\ v.hand = wait[w].hand
          /\ v.posted = TRUE /\ v.refs = wait[w].refs + 1
      BY <2>1 DEF WaitType
    <3> QED BY <2>2, <3>1, <3>2 DEF Bit
  <2>3. CASE w \notin W
    <3>1. wt[w] = wait[w]
      BY <1>4, <2>3
    <3> HIDE DEF wt
    <3> QED BY <2>1, <2>3, <3>1 DEF Bit
  <2> QED BY <2>2, <2>3
<1>6. wt \in Waits
  <2>1. ASSUME NEW w \in Wait PROVE wt[w] \in WaitType
    <3>1. wait[w] \in WaitType /\ wait[w].refs + 1 \in Nat
      BY WaitFields
    <3>2. [wait[w] EXCEPT !.posted = TRUE, !.refs = @ + 1] \in WaitType
      BY <3>1, ZenonT(60) DEF WaitType
    <3> HIDE DEF wt
    <3> QED BY <1>4, <3>1, <3>2
  <2> QED BY <2>1 DEF Waits, Chained
<1> HIDE DEF wt, td
<1>7. Called(wt)
  <2> SUFFICES ASSUME NEW w \in Wait
               PROVE  /\ wt[w].refs = Bit(wt[w].state \in Waited) + Bit(wt[w].posted)
                                        + Bit(wt[w].hand)
                      /\ wt[w].refs = 0 => wt[w] = FreeWait
    BY DEF Called
  <2>1. /\ wait[w].refs = Bit(wait[w].state \in Waited) + Bit(wait[w].posted)
                                        + Bit(wait[w].hand)
        /\ wait[w].refs = 0 => wait[w] = FreeWait
    BY DEF Called
  <2>2. CASE w \in W
    <3>1. ~wait[w].posted
      BY <2>2
    <3>2. Bit(wait[w].posted) = 0 /\ Bit(wt[w].posted) = 1 /\ Bit(w \in W) = 1
      BY <1>5, <2>2, <3>1 DEF Bit
    <3> QED BY <1>5, <2>1, <3>2, Bits
  <2>3. CASE w \notin W
    BY <1>4, <2>1, <2>3
  <2> QED BY <2>2, <2>3
<1>8. Posted(wt, td)
  <2>1. ToSet(td[t].hits) = W /\ \A u \in Loop \ {t} : ToSet(td[u].hits) = ToSet(todo[u].hits)
    BY <1>1, <1>2
  <2>2. \A w \in W : \A u \in Loop : w \notin ToSet(todo[u].hits) /\ ~wait[w].mail
    BY DEF Posted
  <2>3. \A u, v \in Loop : u # v => ToSet(td[u].hits) \cap ToSet(td[v].hits) = {}
    BY <2>1, <2>2 DEF Posted
  <2>4. ASSUME NEW w \in Wait
        PROVE  /\ wt[w].posted <=> wt[w].mail \/ \E u \in Loop : w \in ToSet(td[u].hits)
               /\ wt[w].mail => \A u \in Loop : w \notin ToSet(td[u].hits)
    <3>1. /\ wait[w].posted <=> wait[w].mail \/ \E u \in Loop : w \in ToSet(todo[u].hits)
          /\ wait[w].mail => \A u \in Loop : w \notin ToSet(todo[u].hits)
      BY DEF Posted
    <3> QED BY <1>3, <1>5, <2>1, <2>2, <3>1
  <2> QED BY <2>3, <2>4 DEF Posted
<1> QED BY <1>2, <1>5, <1>6, <1>7, <1>8 DEF wt, td

\* A wait that is still parked without a message has still nothing to hear of.
LEMMA HeededStill ==
  ASSUME NEW l, NEW m, NEW p, NEW q, NEW wt, NEW wu, Heeded(l, p, wt), m.waits = l.waits,
         l \in Struct,
         \A k \in Key :
           \/ \A w \in m.waits[k] : wu[w].posted
           \/ /\ \A r \in ToSet(m.records[k]) : q[r].state = "ended" =>
                   r \in ToSet(l.records[k]) /\ p[r].state = "ended"
              /\ \A i \in Slot : m.timers[k][i] # "none" => l.timers[k][i] # "none",
         \A w \in Wait : wu[w].state = "parked" /\ ~wu[w].posted =>
           /\ wt[w].state = "parked" /\ ~wt[w].posted /\ (wu[w].any => wt[w].any)
           /\ wt[w].covers \subseteq wu[w].covers
  PROVE  Heeded(m, q, wu)
<1> SUFFICES ASSUME NEW k \in Key, NEW w \in m.waits[k], wu[w].state = "parked", ~wu[w].posted
             PROVE  /\ wu[w].any => \A r \in ToSet(m.records[k]) : q[r].state # "ended"
                    /\ \A i \in Slot : m.timers[k][i] # "none" => i \in wu[w].covers
  BY DEF Heeded
<1>1. w \in Wait /\ w \in l.waits[k]
  BY Fields
<1>2. /\ wt[w].state = "parked" /\ ~wt[w].posted /\ (wu[w].any => wt[w].any)
      /\ wt[w].covers \subseteq wu[w].covers
  BY <1>1
<1>3. /\ wt[w].any => \A r \in ToSet(l.records[k]) : p[r].state # "ended"
      /\ \A i \in Slot : l.timers[k][i] # "none" => i \in wt[w].covers
  BY <1>1, <1>2 DEF Heeded
<1>4. /\ \A r \in ToSet(m.records[k]) : q[r].state = "ended" =>
           r \in ToSet(l.records[k]) /\ p[r].state = "ended"
      /\ \A i \in Slot : m.timers[k][i] # "none" => l.timers[k][i] # "none"
  OBVIOUS
<1> QED BY <1>2, <1>3, <1>4

\* The table and its owners do not depend on which of the records run.
LEMMA ShapeOther ==
  ASSUME NEW l, Shape(l), NEW m, m \in Struct, m.records = l.records, m.n = l.n,
         m.waits = l.waits, m.n_waits = l.n_waits, m.timers = l.timers, m.owners = l.owners,
         m.n_anonymous = l.n_anonymous, ToSet(m.ended) \subseteq Tasks(l)
  PROVE  /\ Shape(m) /\ Tasks(m) = Tasks(l) /\ Size(m) = Size(l)
         /\ \A K : InUse(l, K) => InUse(m, K)
<1>1. Tasks(m) = Tasks(l) /\ Size(m) = Size(l)
  BY DEF Tasks, Size
<1>2. \A k \in Key : Used(m, k) <=> Used(l, k)
  BY DEF Used
<1>3. Shape(m)
  BY <1>1, <1>2 DEF Shape, Listed
<1>4. \A K : InUse(l, K) => InUse(m, K)
  BY <1>2, Fields DEF InUse, Shape
<1> QED BY <1>1, <1>3, <1>4

LEMMA HeldIs ==
  ASSUME NEW l, NEW q, NEW td \in Todo, NEW r
  PROVE  /\ Held(l, q, td, r) \in Nat
         /\ Held(l, q, td, r) = 0 =>
              /\ r \notin Tasks(l) /\ Cardinality(Drops(td, r)) = 0
              /\ \A t \in Loop : r \notin td[t].gone
<1>1. /\ Cardinality(Drops(td, r)) \in Nat /\ IsFiniteSet(Drops(td, r))
      /\ Cardinality(Drops(td, r)) = 0 <=> Drops(td, r) = {}
  BY DropsIs, FS_EmptySet
<1>2. Bit(r \in Tasks(l)) = 0 => r \notin Tasks(l)
  BY DEF Bit
<1>3. Drops(td, r) = {} => \A t \in Loop : r \notin td[t].gone
  BY DEF Drops
<1> DEFINE a == Bit(r \in Tasks(l))
           b == Bit(q[r].state \in Working)
           c == Bit(q[r].shown)
           d == Bit(q[r].cancel)
           e == Cardinality(Drops(td, r))
<1>4. a \in Nat /\ b \in Nat /\ c \in Nat /\ d \in Nat /\ e \in Nat
  BY <1>1, Bits
<1>5. Held(l, q, td, r) = a + b + c + d + e
  BY DEF Held
<1> HIDE DEF a, b, c, d, e
<1>6. /\ a + b + c + d + e \in Nat
      /\ a + b + c + d + e = 0 => a = 0 /\ e = 0
  BY <1>4
<1> QED BY <1>1, <1>2, <1>3, <1>5, <1>6 DEF a, e

\* A record that leaves the table is its loop's to drop.
LEMMA OwedRefs ==
  ASSUME NEW l, NEW m, Referred(l, rec, todo), rec \in Records, todo \in Todo, l \in Struct,
         NEW t \in Loop, todo[t].gone = {}, NEW h \in Lists(Wait), Tasks(m) \subseteq Tasks(l)
  PROVE  LET td == [todo EXCEPT ![t] = [hits |-> h, gone |-> Tasks(l) \ Tasks(m)]]
         IN  td \in Todo /\ Referred(m, rec, td)
<1> DEFINE G == Tasks(l) \ Tasks(m)
           td == [todo EXCEPT ![t] = [hits |-> h, gone |-> G]]
<1>1. G \in SUBSET Rec
  BY InTable
<1>2. /\ td \in Todo
      /\ \A r : Cardinality(Drops(td, r)) = Cardinality(Drops(todo, r)) + Bit(r \in G)
  BY <1>1, DropsMore
<1> HIDE DEF td
<1>3. ASSUME NEW r \in Rec PROVE Held(m, rec, td, r) = Held(l, rec, todo, r)
  <2>1. Bit(r \in Tasks(m)) + Bit(r \in G) = Bit(r \in Tasks(l))
    BY DEF Bit
  <2>2. Cardinality(Drops(todo, r)) \in Nat
    BY DropsIs
  <2> HIDE DEF G
  <2> QED BY <1>2, <2>1, <2>2, Bits DEF Held
<1>4. Referred(m, rec, td)
  BY <1>3 DEF Referred
<1> QED BY <1>2, <1>4 DEF td

LEMMA NewIs ==
  ASSUME NEW t \in Loop, NEW state \in Working \cup {"ended"}
  PROVE  /\ New(t, state) \in RecordType /\ New(t, state).state = state
         /\ New(t, state).refs = 2 /\ ~New(t, state).cancel
         /\ IF state = "ended" THEN New(t, state).shown ELSE ~New(t, state).shown
BY DEF New, FreeRec, RecordType, Working, Ended

\* A record made has the table's reference and its caller's.
LEMMA NewOwed ==
  ASSUME NEW l, NEW m, Referred(l, rec, todo), rec \in Records, todo \in Todo, l \in Struct,
         NEW t \in Loop, todo[t].gone = {}, NEW h \in Lists(Wait),
         NEW r \in Rec, rec[r] = FreeRec, r \in Tasks(m), Tasks(m) \subseteq Tasks(l) \cup {r},
         NEW state \in Working \cup {"ended"}
  PROVE  LET td == [todo EXCEPT ![t] = [hits |-> h, gone |-> Tasks(l) \ Tasks(m)]]
             q  == [rec EXCEPT ![r] = New(t, state)]
         IN  td \in Todo /\ q \in Records /\ Referred(m, q, td)
<1> DEFINE G == Tasks(l) \ Tasks(m)
           td == [todo EXCEPT ![t] = [hits |-> h, gone |-> G]]
           q  == [rec EXCEPT ![r] = New(t, state)]
<1>1. G \in SUBSET Rec
  BY InTable
<1>2. /\ td \in Todo
      /\ \A x : Cardinality(Drops(td, x)) = Cardinality(Drops(todo, x)) + Bit(x \in G)
  BY <1>1, DropsMore
<1>3. q \in Records
  BY NewIs DEF Records
<1>4. q[r] = New(t, state) /\ \A x \in Rec \ {r} : q[x] = rec[x]
  BY DEF Records
<1> HIDE DEF td, q
<1>8. /\ q[r].state = state /\ q[r].refs = 2 /\ ~q[r].cancel
      /\ IF state = "ended" THEN q[r].shown ELSE ~q[r].shown
  BY <1>4, NewIs
<1>5. ASSUME NEW x \in Rec \ {r} PROVE Held(m, q, td, x) = Held(l, rec, todo, x)
  <2>1. Bit(x \in Tasks(m)) + Bit(x \in G) = Bit(x \in Tasks(l))
    BY DEF Bit
  <2>2. Cardinality(Drops(todo, x)) \in Nat /\ q[x] = rec[x]
    BY <1>4, DropsIs
  <2> HIDE DEF G
  <2> QED BY <1>2, <2>1, <2>2, Bits DEF Held
<1>6. Held(m, q, td, r) = 2
  <2>1. Held(l, rec, todo, r) = 0
    BY FreeRecIs DEF Referred
  <2>2. r \notin Tasks(l) /\ Cardinality(Drops(todo, r)) = 0
    BY <2>1, HeldIs
  <2>3. Bit(r \in Tasks(m)) = 1 /\ Bit(r \in G) = 0
    BY <2>2 DEF Bit
  <2>4. Bit(q[r].state \in Working) + Bit(q[r].shown) = 1 /\ Bit(q[r].cancel) = 0
    <3>1. CASE state = "ended"
      <4>1. q[r].shown /\ q[r].state \notin Working /\ ~q[r].cancel
        BY <1>8, <3>1 DEF Working
      <4> QED BY <4>1 DEF Bit
    <3>2. CASE state \in Working
      <4>1. ~q[r].shown /\ q[r].state \in Working /\ ~q[r].cancel
        BY <1>8, <3>2 DEF Working
      <4> QED BY <4>1 DEF Bit
    <3> QED BY <3>1, <3>2
  <2> HIDE DEF G
  <2> QED BY <1>2, <2>2, <2>3, <2>4, Bits DEF Held
<1>7. Referred(m, q, td)
  <2> SUFFICES ASSUME NEW x \in Rec
               PROVE  q[x].refs = Held(m, q, td, x) /\ (q[x].refs = 0 => q[x] = FreeRec)
    BY DEF Referred
  <2>1. CASE x = r
    BY <1>6, <1>8, <2>1
  <2>2. CASE x # r
    BY <1>4, <1>5, <2>2 DEF Referred
  <2> QED BY <2>1, <2>2
<1> QED BY <1>2, <1>3, <1>7 DEF td, q

-----------------------------------------------------------------------------
(* What each action keeps: the records.                                    *)

LEMMA Parts ==
  LedgerInv =>
    /\ rec \in Records /\ wait \in Waits /\ todo \in Todo /\ open \in BOOLEAN
    /\ Shape(ledger) /\ ledger \in Struct /\ Listed(ledger) /\ InUse(ledger, {})
    /\ Known(ledger, rec) /\ Referred(ledger, rec, todo) /\ Marked(rec)
    /\ Entered(ledger, wait) /\ Called(wait) /\ Posted(wait, todo) /\ Heeded(ledger, rec, wait)
BY DEF LedgerInv, Books, Shape

LEMMA RecordKeeps ==
  ASSUME LedgerInv, UNCHANGED <<ledger, wait, todo, open>>, rec' \in Records,
         Known(ledger, rec'), Heeded(ledger, rec', wait), Referred(ledger, rec', todo),
         Marked(rec')
  PROVE  Books(ledger', rec', wait', todo', open')
BY DEF LedgerInv, Books

LEMMA PutType ==
  ASSUME NEW v \in RecordType, v.refs > 0
  PROVE  /\ Put(v) \in RecordType
         /\ v.refs = 1 => Put(v) = FreeRec
         /\ v.refs # 1 => /\ Put(v).refs = v.refs - 1 /\ Put(v).state = v.state
                          /\ Put(v).shown = v.shown /\ Put(v).cancel = v.cancel
                          /\ Put(v).asked = v.asked
<1>1. CASE v.refs = 1
  BY <1>1, FreeRecIs DEF Put
<1>2. CASE v.refs # 1
  <2>1. v.refs - 1 \in Nat
    BY <1>2 DEF RecordType
  <2>2. Put(v) = [v EXCEPT !.refs = v.refs - 1]
    BY <1>2 DEF Put, RecordType
  <2>3. [v EXCEPT !.refs = v.refs - 1] \in RecordType
    BY <2>1, ZenonT(60) DEF RecordType
  <2> QED BY <1>2, <2>2, <2>3 DEF RecordType
<1> QED BY <1>1, <1>2

\* One of those that hold a record lets go of it.
LEMMA PutKeeps ==
  ASSUME LedgerInv, NEW r \in Rec, NEW v \in RecordType, SameKind(v, rec[r]),
         v.refs = rec[r].refs, v.state \in Working /\ v.cancel => v.asked,
         Bit(rec[r].shown) + Bit(rec[r].cancel) = Bit(v.shown) + Bit(v.cancel) + 1,
         rec' = [rec EXCEPT ![r] = Put(v)], UNCHANGED <<ledger, wait, todo, open>>
  PROVE  Books(ledger', rec', wait', todo', open')
<1>1. /\ rec \in Records /\ todo \in Todo /\ ledger \in Struct /\ Known(ledger, rec)
      /\ Referred(ledger, rec, todo) /\ Heeded(ledger, rec, wait) /\ Marked(rec)
  BY Parts
<1> DEFINE a == Bit(r \in Tasks(ledger))
           b == Bit(rec[r].state \in Working)
           c == Bit(v.shown)
           d == Bit(v.cancel)
           e == Cardinality(Drops(todo, r))
<1>2. a \in Nat /\ b \in Nat /\ c \in Nat /\ d \in Nat /\ e \in Nat
  BY <1>1, Bits, DropsIs
<1>3. v.refs = a + b + c + d + e + 1 /\ v.refs > 0
  <2>1. rec[r].refs = a + b + (Bit(rec[r].shown) + Bit(rec[r].cancel)) + e
    <3>1. rec[r].refs = a + b + Bit(rec[r].shown) + Bit(rec[r].cancel) + e
      BY <1>1 DEF Referred, Held
    <3>2. Bit(rec[r].shown) \in Nat /\ Bit(rec[r].cancel) \in Nat
      BY Bits
    <3> HIDE DEF a, b, c, d, e
    <3> QED BY <1>2, <3>1, <3>2
  <2> HIDE DEF a, b, c, d, e
  <2>2. rec[r].refs = a + b + (c + d + 1) + e
    BY <2>1 DEF c, d
  <2> QED BY <1>2, <2>2
<1>4. /\ Put(v) \in RecordType
      /\ v.refs = 1 => Put(v) = FreeRec
      /\ v.refs # 1 => /\ Put(v).refs = v.refs - 1 /\ Put(v).state = v.state
                       /\ Put(v).shown = v.shown /\ Put(v).cancel = v.cancel
                       /\ Put(v).asked = v.asked
  BY <1>3, PutType
<1>5. rec' \in Records /\ rec'[r] = Put(v) /\ \A x \in Rec \ {r} : rec'[x] = rec[x]
  BY <1>1, <1>4 DEF Records
<1>6. v.refs = 1 => r \notin Tasks(ledger)
  <2> SUFFICES ASSUME v.refs = 1 PROVE r \notin Tasks(ledger)
    OBVIOUS
  <2>1. a = 0
    <3> HIDE DEF a, b, c, d, e
    <3> QED BY <1>2, <1>3
  <2> QED BY <2>1 DEF Bit
<1>7. \A x \in Rec : IF x \in Tasks(ledger) THEN SameKind(rec'[x], rec[x])
                     ELSE rec'[x].state \notin Working
  <2> SUFFICES ASSUME NEW x \in Rec
               PROVE  IF x \in Tasks(ledger) THEN SameKind(rec'[x], rec[x])
                      ELSE rec'[x].state \notin Working
    OBVIOUS
  <2>1. CASE x # r
    BY <1>1, <1>5, <2>1 DEF Known, SameKind
  <2>2. CASE x = r /\ v.refs = 1
    BY <1>4, <1>5, <1>6, <2>2, FreeRecIs
  <2>3. CASE x = r /\ v.refs # 1
    BY <1>1, <1>4, <1>5, <2>3 DEF SameKind, Known
  <2> QED BY <2>1, <2>2, <2>3
<1>8. Known(ledger, rec') /\ Heeded(ledger, rec', wait)
  BY <1>1, <1>5, <1>7, KnownAlike
<1>9. Referred(ledger, rec', todo)
  <2> SUFFICES ASSUME NEW x \in Rec
               PROVE  /\ rec'[x].refs = Held(ledger, rec', todo, x)
                      /\ rec'[x].refs = 0 => rec'[x] = FreeRec
    BY DEF Referred
  <2>1. CASE x # r
    <3>1. rec'[x] = rec[x] /\ Held(ledger, rec', todo, x) = Held(ledger, rec, todo, x)
      BY <1>5, <2>1 DEF Held
    <3> QED BY <1>1, <3>1 DEF Referred
  <2>2. CASE x = r /\ v.refs = 1
    <3>1. a = 0 /\ e = 0
      <4> HIDE DEF a, b, c, d, e
      <4> QED BY <1>2, <1>3, <2>2
    <3>2. rec'[r] = FreeRec
      BY <1>4, <1>5, <2>2
    <3>3. Bit(rec'[r].state \in Working) = 0 /\ Bit(rec'[r].shown) = 0 /\ Bit(rec'[r].cancel) = 0
      BY <3>2, FreeRecIs DEF Bit
    <3> QED BY <2>2, <3>1, <3>2, <3>3, FreeRecIs DEF Held
  <2>3. CASE x = r /\ v.refs # 1
    <3>1. Bit(rec'[r].state \in Working) = b
      BY <1>4, <1>5, <2>3 DEF SameKind, Bit
    <3>2. Bit(rec'[r].shown) = c /\ Bit(rec'[r].cancel) = d
      BY <1>4, <1>5, <2>3
    <3>3. Held(ledger, rec', todo, r) = a + b + c + d + e
      BY <3>1, <3>2 DEF Held
    <3>4. rec'[r].refs = v.refs - 1
      BY <1>4, <1>5, <2>3
    <3> HIDE DEF a, b, c, d, e
    <3> QED BY <1>2, <1>3, <2>3, <3>3, <3>4
  <2> QED BY <2>1, <2>2, <2>3
<1>10. Marked(rec')
  <2> SUFFICES ASSUME NEW x \in Rec, rec'[x].state \in Working, rec'[x].cancel
               PROVE  rec'[x].asked
    BY DEF Marked
  <2>1. CASE x # r
    BY <1>1, <1>5, <2>1 DEF Marked
  <2>2. CASE x = r /\ v.refs = 1
    BY <1>4, <1>5, <2>2, FreeRecIs
  <2>3. CASE x = r /\ v.refs # 1
    BY <1>4, <1>5, <2>3
  <2> QED BY <2>1, <2>2, <2>3
<1> QED BY <1>5, <1>8, <1>9, <1>10, RecordKeeps

LEMMA ReadRecordKeeps ==
  ASSUME LedgerInv, NEW t \in Loop, NEW r \in Rec, ReadRecord(t, r)
  PROVE  Books(ledger', rec', wait', todo', open')
<1>1. PICK s \in {rec[r].state} \cup {x \in {"told"} : rec[r].state \in Ended} :
        rec' = [rec EXCEPT ![r] = Put([rec[r] EXCEPT !.shown = FALSE, !.state = s])]
  <2>1. rec \in Records
    BY Parts
  <2> QED BY <2>1 DEF ReadRecord, Records, RecordType
<1> DEFINE v == [rec[r] EXCEPT !.shown = FALSE, !.state = s]
<1>2. rec[r] \in RecordType /\ rec[r].shown /\ UNCHANGED <<ledger, wait, todo, open>>
  BY Parts, RecordFields DEF ReadRecord
<1>3. s \in {"free"} \cup Working \cup Ended
  BY <1>2 DEF RecordType, Ended
<1>4. v \in RecordType
  BY <1>2, <1>3, ZenonT(60) DEF RecordType
<1>5. /\ v.state = s /\ v.refs = rec[r].refs /\ ~v.shown /\ v.cancel = rec[r].cancel
      /\ v.asked = rec[r].asked
  BY <1>2 DEF RecordType
<1> HIDE DEF v
<1>6. SameKind(v, rec[r])
  BY <1>5 DEF SameKind, Working, Ended
<1>7. Bit(rec[r].shown) + Bit(rec[r].cancel) = Bit(v.shown) + Bit(v.cancel) + 1
  <2>1. Bit(rec[r].shown) = 1 /\ Bit(v.shown) = 0 /\ Bit(v.cancel) = Bit(rec[r].cancel)
    BY <1>2, <1>5 DEF Bit
  <2> QED BY <2>1, Bits
<1>8. v.state \in Working /\ v.cancel => v.asked
  BY <1>5, <1>6, Parts DEF SameKind, Marked
<1> QED BY <1>1, <1>2, <1>4, <1>5, <1>6, <1>7, <1>8, PutKeeps DEF v

LEMMA OnTaskCancelKeeps ==
  ASSUME LedgerInv, NEW t \in Loop, NEW r \in Rec, OnTaskCancel(t, r)
  PROVE  Books(ledger', rec', wait', todo', open')
<1> DEFINE v == [rec[r] EXCEPT !.cancel = FALSE]
<1>1. rec' = [rec EXCEPT ![r] = Put(v)]
  <2>1. rec \in Records
    BY Parts
  <2> QED BY <2>1 DEF OnTaskCancel, Records, RecordType
<1>2. rec[r] \in RecordType /\ rec[r].cancel /\ UNCHANGED <<ledger, wait, todo, open>>
  BY Parts, RecordFields DEF OnTaskCancel
<1>4. v \in RecordType
  BY <1>2, ZenonT(60) DEF RecordType
<1>5. v.state = rec[r].state /\ v.refs = rec[r].refs /\ ~v.cancel /\ v.shown = rec[r].shown
  BY <1>2 DEF RecordType
<1> HIDE DEF v
<1>6. SameKind(v, rec[r])
  BY <1>5 DEF SameKind
<1>7. Bit(rec[r].shown) + Bit(rec[r].cancel) = Bit(v.shown) + Bit(v.cancel) + 1
  <2>1. Bit(rec[r].cancel) = 1 /\ Bit(v.cancel) = 0 /\ Bit(v.shown) = Bit(rec[r].shown)
    BY <1>2, <1>5 DEF Bit
  <2> QED BY <2>1, Bits
<1> QED BY <1>1, <1>2, <1>4, <1>5, <1>6, <1>7, PutKeeps

LEMMA CancelRecordKeeps ==
  ASSUME LedgerInv, NEW t \in Loop, NEW r \in Rec, CancelRecord(t, r)
  PROVE  Books(ledger', rec', wait', todo', open')
<1>1. /\ rec \in Records /\ todo \in Todo /\ ledger \in Struct /\ Known(ledger, rec)
      /\ Referred(ledger, rec, todo) /\ Heeded(ledger, rec, wait) /\ Marked(rec)
      /\ rec[r] \in RecordType /\ rec[r].refs \in Nat
  BY Parts, RecordFields
<1> DEFINE v == [rec[r] EXCEPT !.asked = TRUE, !.cancel = TRUE, !.refs = @ + 1]
<1>2. ~rec[r].cancel /\ UNCHANGED <<ledger, wait, todo, open>> /\ rec' = [rec EXCEPT ![r] = v]
  BY <1>1 DEF CancelRecord, Marked, Records, RecordType
<1>3. v \in RecordType
  <2>1. rec[r].refs + 1 \in Nat
    BY <1>1
  <2> QED BY <1>1, <2>1, ZenonT(60) DEF RecordType
<1>4. /\ v.state = rec[r].state /\ v.refs = rec[r].refs + 1 /\ v.cancel
      /\ v.shown = rec[r].shown /\ v.asked
  BY <1>1 DEF RecordType
<1>5. rec' \in Records /\ rec'[r] = v /\ \A x \in Rec \ {r} : rec'[x] = rec[x]
  BY <1>1, <1>2, <1>3 DEF Records
<1> HIDE DEF v
<1>6. \A x \in Rec : SameKind(rec'[x], rec[x])
  BY <1>4, <1>5 DEF SameKind
<1>7. Known(ledger, rec') /\ Heeded(ledger, rec', wait)
  <2>1. \A x \in Rec : IF x \in Tasks(ledger) THEN SameKind(rec'[x], rec[x])
                       ELSE rec'[x].state \notin Working
    BY <1>1, <1>6 DEF Known, SameKind
  <2> QED BY <1>1, <1>5, <2>1, KnownAlike
<1>8. Marked(rec')
  BY <1>1, <1>4, <1>5 DEF Marked
<1>9. Referred(ledger, rec', todo)
  <2> SUFFICES ASSUME NEW x \in Rec
               PROVE  /\ rec'[x].refs = Held(ledger, rec', todo, x)
                      /\ rec'[x].refs = 0 => rec'[x] = FreeRec
    BY DEF Referred
  <2>1. CASE x # r
    <3>1. rec'[x] = rec[x] /\ Held(ledger, rec', todo, x) = Held(ledger, rec, todo, x)
      BY <1>5, <2>1 DEF Held
    <3> QED BY <1>1, <3>1 DEF Referred
  <2>2. CASE x = r
    <3>1. /\ Bit(rec'[r].state \in Working) = Bit(rec[r].state \in Working)
          /\ Bit(rec'[r].shown) = Bit(rec[r].shown)
      BY <1>4, <1>5
    <3>2. Bit(rec[r].cancel) = 0 /\ Bit(rec'[r].cancel) = 1
      BY <1>2, <1>4, <1>5 DEF Bit
    <3>3. Cardinality(Drops(todo, r)) \in Nat
      BY <1>1, DropsIs
    <3>4. Held(ledger, rec', todo, r) = Held(ledger, rec, todo, r) + 1
      BY <3>1, <3>2, <3>3, Bits DEF Held
    <3>5. rec'[r].refs = rec[r].refs + 1 /\ rec[r].refs = Held(ledger, rec, todo, r)
      BY <1>1, <1>4, <1>5 DEF Referred
    <3> QED BY <1>1, <2>2, <3>4, <3>5
  <2> QED BY <2>1, <2>2
<1> QED BY <1>2, <1>5, <1>7, <1>8, <1>9, RecordKeeps

\* The lock released with no wait to wake.
LEMMA SweptOwed ==
  ASSUME LedgerInv, NEW t \in Loop, todo[t] = Nothing, NEW m, Shape(m), InUse(m, {}), Known(m, rec),
         m.waits = ledger.waits,
         \A k \in Key : ToSet(m.records[k]) \subseteq ToSet(ledger.records[k]),
         \A k \in Key, i \in Slot : m.timers[k][i] # "none" => ledger.timers[k][i] # "none"
  PROVE  LET td == [todo EXCEPT ![t] = [hits |-> SetToSeq({}), gone |-> Tasks(ledger) \ Tasks(m)]]
         IN  Books(m, rec, wait, td, open)
<1> DEFINE td == [todo EXCEPT ![t] = [hits |-> SetToSeq({}), gone |-> Tasks(ledger) \ Tasks(m)]]
<1>1. /\ rec \in Records /\ todo \in Todo /\ ledger \in Struct /\ wait \in Waits /\ open \in BOOLEAN
      /\ Referred(ledger, rec, todo) /\ Heeded(ledger, rec, wait) /\ Marked(rec)
      /\ Entered(ledger, wait) /\ Called(wait) /\ Posted(wait, todo)
  BY Parts
<1>2. m \in Struct
  BY DEF Shape
<1>3. Tasks(m) \subseteq Tasks(ledger) /\ Tasks(ledger) \subseteq Rec
  BY <1>1, <1>2, InTable
<1>4. SetToSeq({}) \in Lists(Wait) /\ todo[t].gone = {}
  BY SetList, FS_EmptySet DEF Nothing
<1>5. td \in Todo /\ Referred(m, rec, td)
  BY <1>1, <1>3, <1>4, OwedRefs
<1>6. Posted(Chained({}), td)
  <2>1. Tasks(ledger) \ Tasks(m) \in SUBSET Rec
    BY <1>3
  <2> HIDE DEF td
  <2> QED BY <1>1, <2>1, ChainedIs DEF td
<1>7. Chained({}) = wait
  BY <1>1 DEF Chained, Waits
<1> HIDE DEF td
<1>8. Heeded(m, rec, wait)
  BY <1>1, HeededStill
<1>9. Entered(m, wait)
  BY <1>1 DEF Entered
<1> QED BY <1>1, <1>5, <1>6, <1>7, <1>8, <1>9 DEF Books, td

\* Readers take references.
LEMMA ReadKeeps ==
  ASSUME NEW m, NEW td, NEW o, Books(m, rec, wait, td, o), NEW R, R \subseteq Tasks(m),
         \A r \in R : ~rec[r].shown, Read(R)
  PROVE  Books(m, rec', wait, td, o)
<1>1. /\ rec \in Records /\ td \in Todo /\ m \in Struct /\ Known(m, rec)
      /\ Referred(m, rec, td) /\ Heeded(m, rec, wait) /\ Marked(rec)
  BY DEF Books, Shape
<1>2. R \subseteq Rec
  BY <1>1, InTable
<1>3. ASSUME NEW r \in Rec
      PROVE  /\ rec'[r] \in RecordType /\ rec'[r].state = rec[r].state
             /\ rec'[r].cancel = rec[r].cancel /\ rec'[r].asked = rec[r].asked
             /\ r \in R => rec'[r].shown /\ rec'[r].refs = rec[r].refs + 1
             /\ r \notin R => rec'[r] = rec[r]
  <2>1. rec[r] \in RecordType /\ rec[r].refs \in Nat
    BY <1>1, RecordFields
  <2> DEFINE v == [rec[r] EXCEPT !.shown = TRUE, !.refs = @ + 1]
  <2>2. rec'[r] = IF r \in R THEN v ELSE rec[r]
    BY DEF Read
  <2>3. v \in RecordType
    <3>1. rec[r].refs + 1 \in Nat
      BY <2>1
    <3> QED BY <2>1, <3>1, ZenonT(60) DEF RecordType
  <2>4. /\ v.state = rec[r].state /\ v.cancel = rec[r].cancel /\ v.asked = rec[r].asked
        /\ v.shown /\ v.refs = rec[r].refs + 1
    BY <2>1 DEF RecordType
  <2> HIDE DEF v
  <2> QED BY <2>1, <2>2, <2>3, <2>4
<1>4. rec' \in Records
  BY <1>3 DEF Records, Read
<1>5. \A r \in Rec : IF r \in Tasks(m) THEN SameKind(rec'[r], rec[r])
                     ELSE rec'[r].state \notin Working
  BY <1>1, <1>3 DEF SameKind, Known
<1>6. Known(m, rec') /\ Heeded(m, rec', wait)
  BY <1>1, <1>4, <1>5, KnownAlike
<1>7. Marked(rec')
  BY <1>1, <1>3 DEF Marked
<1>8. Referred(m, rec', td)
  <2> SUFFICES ASSUME NEW r \in Rec
               PROVE  /\ rec'[r].refs = Held(m, rec', td, r)
                      /\ rec'[r].refs = 0 => rec'[r] = FreeRec
    BY DEF Referred
  <2>1. /\ rec[r].refs = Held(m, rec, td, r) /\ rec[r].refs \in Nat
        /\ rec[r].refs = 0 => rec[r] = FreeRec
    BY <1>1, RecordFields DEF Referred
  <2>2. CASE r \notin R
    <3>1. rec'[r] = rec[r] /\ Held(m, rec', td, r) = Held(m, rec, td, r)
      BY <1>3, <2>2 DEF Held
    <3> QED BY <2>1, <3>1
  <2>3. CASE r \in R
    <3>1. /\ Bit(rec'[r].state \in Working) = Bit(rec[r].state \in Working)
          /\ Bit(rec'[r].cancel) = Bit(rec[r].cancel)
      BY <1>3
    <3>2. Bit(rec[r].shown) = 0 /\ Bit(rec'[r].shown) = 1
      BY <1>3, <2>3 DEF Bit
    <3>3. Cardinality(Drops(td, r)) \in Nat
      BY <1>1, DropsIs
    <3>4. Held(m, rec', td, r) = Held(m, rec, td, r) + 1
      BY <3>1, <3>2, <3>3, Bits DEF Held
    <3>5. rec'[r].refs = rec[r].refs + 1
      BY <1>3, <2>3
    <3> QED BY <2>1, <3>4, <3>5
  <2> QED BY <2>2, <2>3
<1> QED BY <1>4, <1>6, <1>7, <1>8 DEF Books

LEMMA SweptFacts ==
  ASSUME NEW l, NEW m, Swept(m, l), l \in Struct, InUse(l, {})
  PROVE  /\ InUse(m, {}) /\ m.waits = l.waits /\ Tasks(m) \subseteq Tasks(l)
         /\ \A k \in Key : ToSet(m.records[k]) \subseteq ToSet(l.records[k])
         /\ \A k \in Key, i \in Slot : m.timers[k][i] # "none" => l.timers[k][i] # "none"
BY DEF Swept

LEMMA FindKeeps ==
  ASSUME LedgerInv, NEW t \in Loop, NEW r \in Rec, Find(t, r)
  PROVE  Books(ledger', rec', wait', todo', open')
<1>1. /\ rec \in Records /\ todo \in Todo /\ ledger \in Struct /\ Shape(ledger)
      /\ InUse(ledger, {}) /\ Known(ledger, rec)
  BY Parts
<1>2. PICK l \in Sweeps(ledger, FALSE) : ledger' = l /\ Owes(t, {}, l) /\ Read({r} \cap Tasks(l))
  BY DEF Find
<1>3. Shape(l) /\ Swept(l, ledger) /\ Lost(l, ledger)
  BY <1>1, SweepsIs
<1>4. Known(l, rec)
  BY <1>1, <1>3, KnownSwept DEF Shape
<1>5. todo[t] = Nothing
  BY <1>1, IdleIs DEF Find
<1>6. Books(l, rec, wait, todo', open)
  BY <1>1, <1>2, <1>3, <1>4, <1>5, SweptFacts, SweptOwed DEF Owes
<1>7. \A x \in {r} \cap Tasks(l) : ~rec[x].shown
  BY DEF Find
<1>8. Books(l, rec', wait, todo', open)
  BY <1>2, <1>6, <1>7, ReadKeeps
<1> QED BY <1>2, <1>8 DEF Find

LEMMA ListKeeps ==
  ASSUME LedgerInv, NEW t \in Loop, NEW k \in Key, List(t, k)
  PROVE  Books(ledger', rec', wait', todo', open')
<1>1. /\ rec \in Records /\ todo \in Todo /\ ledger \in Struct /\ Shape(ledger)
      /\ InUse(ledger, {}) /\ Known(ledger, rec)
  BY Parts
<1>2. PICK s \in Sweeps(ledger, FALSE), x \in SUBSET {y \in Fired(ledger) : y[1] = k} :
        LET l == Gc(Expired(s, x), {k})
        IN  /\ \A r \in ToSet(l.records[k]) : ~rec[r].shown
            /\ ledger' = l /\ Owes(t, {}, l) /\ Read(ToSet(l.records[k]))
  BY DEF List
<1> DEFINE e == Expired(s, x)
           l == Gc(e, {k})
<1>3. Shape(s) /\ Swept(s, ledger) /\ Lost(s, ledger) /\ s \in Struct
  BY <1>1, SweepsIs DEF Shape
<1>4. Known(s, rec)
  BY <1>1, <1>3, KnownSwept
<1>5. /\ Shape(e) /\ Same(e, s) /\ e.owners = s.owners /\ e.n_anonymous = s.n_anonymous
      /\ \A j \in Key, i \in Slot :
           e.timers[j][i] = IF <<j, i>> \in x THEN "none" ELSE s.timers[j][i]
  BY <1>3, ExpiredIs, ExpiredShape
<1> HIDE DEF e
<1>6. Shape(l) /\ Same(l, e) /\ l.timers = e.timers /\ \A J : InUse(e, {k} \cup J) => InUse(l, J)
  BY <1>5, GcShape
<1>7. ledger' = l /\ Owes(t, {}, l) /\ Read(ToSet(l.records[k]))
      /\ \A r \in ToSet(l.records[k]) : ~rec[r].shown
  BY <1>2 DEF e
<1> HIDE DEF l
<1>8. InUse(l, {})
  <2>1. InUse(s, {})
    BY <1>1, <1>3 DEF Swept
  <2>2. \A j \in Key \ {k} : Used(s, j) => Used(e, j)
    <3>1. \A j \in Key \ {k}, i \in Slot : <<j, i>> \notin x
      BY <1>2
    <3> QED BY <1>5, <3>1 DEF Used, Same
  <2>3. InUse(e, {k} \cup {})
    BY <1>3, <1>5, <2>1, <2>2, Fields DEF InUse
  <2> QED BY <1>6, <2>3
<1>9. Same(l, s) /\ Tasks(l) = Tasks(s)
  BY <1>5, <1>6, SameTasks DEF Same
<1>10. Known(l, rec)
  BY <1>4, <1>9 DEF Known, Same, Working1, Jobs1
<1>11. todo[t] = Nothing
  BY <1>1, IdleIs DEF List
<1>12. /\ l.waits = ledger.waits
       /\ \A j \in Key : ToSet(l.records[j]) \subseteq ToSet(ledger.records[j])
       /\ \A j \in Key, i \in Slot : l.timers[j][i] # "none" => ledger.timers[j][i] # "none"
  BY <1>3, <1>5, <1>6, <1>9 DEF Swept, Same
<1>13. Books(l, rec, wait, todo', open)
  BY <1>6, <1>7, <1>8, <1>10, <1>11, <1>12, SweptOwed DEF Owes
<1>14. ToSet(l.records[k]) \subseteq Tasks(l)
  BY <1>6, InTable DEF Shape
<1>15. Books(l, rec', wait, todo', open)
  BY <1>7, <1>13, <1>14, ReadKeeps
<1> QED BY <1>7, <1>15 DEF List

LEMMA RemoveRecordKeeps ==
  ASSUME LedgerInv, NEW t \in Loop, NEW r \in Rec, RemoveRecord(t, r)
  PROVE  Books(ledger', rec', wait', todo', open')
<1>1. /\ rec \in Records /\ todo \in Todo /\ ledger \in Struct /\ Shape(ledger)
      /\ InUse(ledger, {}) /\ Known(ledger, rec)
  BY Parts
<1> DEFINE l == Dropped(ledger, {r})
<1>2. ledger' = l /\ Owes(t, {}, l) /\ r \in ToSet(ledger.ended)
  BY <1>1 DEF RemoveRecord, Known
<1>3. Shape(l) /\ Swept(l, ledger) /\ Tasks(l) = Tasks(ledger) \ {r}
  BY <1>1, DroppedIs
<1> HIDE DEF l
<1>4. Lost(l, ledger)
  BY <1>2, <1>3 DEF Lost
<1>5. Known(l, rec)
  BY <1>1, <1>3, <1>4, KnownSwept DEF Shape
<1>6. todo[t] = Nothing
  BY <1>1, IdleIs DEF RemoveRecord
<1>7. Books(l, rec, wait, todo', open)
  BY <1>1, <1>2, <1>3, <1>5, <1>6, SweptFacts, SweptOwed DEF Owes
<1> QED BY <1>2, <1>7 DEF RemoveRecord

\* Swept, and k an owner if there is room for one.
Got(s, k, x) == IF Size(s) = LEDGER_MAX THEN s ELSE OwnerGet(s, k, x)

LEMMA GotIs ==
  ASSUME LedgerInv, NEW k \in Key, NEW s \in Sweeps(ledger, TRUE), NEW x
  PROVE  LET g == Got(s, k, x)
         IN  /\ Shape(g) /\ Known(g, rec) /\ InUse(g, {k}) /\ Tasks(g) \subseteq Tasks(ledger)
             /\ Size(g) = LEDGER_MAX => InUse(g, {})
             /\ g.waits = ledger.waits
             /\ \A j \in Key : ToSet(g.records[j]) \subseteq ToSet(ledger.records[j])
             /\ \A j \in Key, i \in Slot :
                  g.timers[j][i] # "none" => ledger.timers[j][i] # "none"
<1> DEFINE g == Got(s, k, x)
<1>1. Shape(s) /\ Swept(s, ledger) /\ Known(s, rec) /\ s \in Struct
  BY Parts, RoomIs DEF Shape
<1>2. /\ InUse(s, {}) /\ s.waits = ledger.waits /\ Tasks(s) \subseteq Tasks(ledger)
      /\ \A j \in Key : ToSet(s.records[j]) \subseteq ToSet(ledger.records[j])
      /\ \A j \in Key, i \in Slot : s.timers[j][i] # "none" => ledger.timers[j][i] # "none"
  BY <1>1, Parts, SweptFacts
<1>3. CASE Size(s) = LEDGER_MAX
  <2>1. g = s
    BY <1>3 DEF Got
  <2>2. InUse(s, {k})
    BY <1>2 DEF InUse
  <2> HIDE DEF g
  <2> QED BY <1>1, <1>2, <2>1, <2>2 DEF g
<1>4. CASE Size(s) # LEDGER_MAX
  <2>1. g = OwnerGet(s, k, x)
    BY <1>4 DEF Got
  <2> HIDE DEF g
  <2>2. /\ Shape(g) /\ Same(g, s) /\ InUse(g, {k})
        /\ \A j \in Key, i \in Slot : g.timers[j][i] \in {s.timers[j][i], "none"}
    BY <1>1, <1>2, <2>1, OwnerGetIs
  <2>3. Tasks(g) = Tasks(s) /\ Size(g) = Size(s)
    BY <2>2, SameTasks
  <2>4. Known(g, rec)
    BY <1>1, <2>2, <2>3 DEF Known, Same, Working1, Jobs1
  <2>5. \A j \in Key, i \in Slot : g.timers[j][i] # "none" => ledger.timers[j][i] # "none"
    BY <1>2, <2>2
  <2> QED BY <1>2, <1>4, <2>2, <2>3, <2>4, <2>5 DEF Same, g
<1> QED BY <1>3, <1>4

\* ledger_insert() fails: an owner made for it is not left with nothing.
LEMMA RefusedKeeps ==
  ASSUME LedgerInv, NEW t \in Loop, todo[t] = Nothing, NEW k \in Key,
         NEW s \in Sweeps(ledger, TRUE), NEW x, NEW state, Refused(Got(s, k, x), k, state),
         ledger' = Got(s, k, x), Owes(t, {}, Got(s, k, x)), UNCHANGED <<rec, wait, open>>
  PROVE  Books(ledger', rec', wait', todo', open')
<1> DEFINE g == Got(s, k, x)
<1>1. /\ Shape(g) /\ Known(g, rec) /\ InUse(g, {k})
      /\ Size(g) = LEDGER_MAX => InUse(g, {})
      /\ g.waits = ledger.waits
      /\ \A j \in Key : ToSet(g.records[j]) \subseteq ToSet(ledger.records[j])
      /\ \A j \in Key, i \in Slot : g.timers[j][i] # "none" => ledger.timers[j][i] # "none"
  BY GotIs
<1>2. Refused(g, k, state) /\ ledger' = g /\ Owes(t, {}, g)
  OBVIOUS
<1> HIDE DEF g
<1>3. InUse(g, {})
  <2>1. CASE Size(g) = LEDGER_MAX
    BY <1>1, <2>1
  <2>2. CASE k \notin g.owners
    BY <1>1, <2>2 DEF InUse
  <2>3. CASE g.running[k] >= LEDGER_RUNNING
    <3>1. Cardinality(Working1(g, rec, k)) # 0
      BY <1>1, <2>3, Given DEF Known
    <3>2. Cardinality({}) = 0
      BY FS_EmptySet
    <3>3. Working1(g, rec, k) # {}
      BY <3>1, <3>2, Zenon
    <3>4. ToSet(g.records[k]) # {}
      BY <3>3 DEF Working1
    <3>5. Used(g, k)
      BY <1>1, <3>4, InTable DEF Used, Shape
    <3> QED BY <1>1, <3>5 DEF InUse
  <2> QED BY <1>2, <2>1, <2>2, <2>3 DEF Refused
<1> DEFINE td == [todo EXCEPT ![t] = [hits |-> SetToSeq({}), gone |-> Tasks(ledger) \ Tasks(g)]]
<1>4. Books(g, rec, wait, td, open)
  BY <1>1, <1>3, SweptOwed
<1>5. todo' = td
  BY <1>2 DEF Owes
<1> QED BY <1>2, <1>4, <1>5

\* ledger_insert() succeeds.
Admitted(m, k, r, state) ==
  /\ Shape(m) /\ InUse(m, {}) /\ m.waits = ledger.waits
  /\ r \in Tasks(m) /\ Tasks(m) \subseteq Tasks(ledger) \cup {r}
  /\ \A j \in Key : ToSet(m.records[j]) \subseteq
       ToSet(ledger.records[j]) \cup (IF j = k THEN {r} ELSE {})
  /\ \A j \in Key, i \in Slot : m.timers[j][i] # "none" => ledger.timers[j][i] # "none"
  /\ \E d : /\ Shape(d) /\ Known(d, rec) /\ Grown(m, d, k, r) /\ r \notin Tasks(d)
            /\ state = "job" => d.running[k] < LEDGER_RUNNING

LEMMA AdmittedIs ==
  ASSUME LedgerInv, NEW k \in Key, NEW s \in Sweeps(ledger, TRUE), NEW x, NEW state,
         ~Refused(Got(s, k, x), k, state), NEW r \in Rec, rec[r] = FreeRec,
         NEW m \in Inserted(Got(s, k, x), k, r)
  PROVE  Admitted(m, k, r, state)
<1> DEFINE g == Got(s, k, x)
<1>1. /\ Shape(g) /\ Known(g, rec) /\ InUse(g, {k}) /\ Tasks(g) \subseteq Tasks(ledger)
      /\ g.waits = ledger.waits
      /\ \A j \in Key : ToSet(g.records[j]) \subseteq ToSet(ledger.records[j])
      /\ \A j \in Key, i \in Slot : g.timers[j][i] # "none" => ledger.timers[j][i] # "none"
  BY GotIs
<1>2. ~Refused(g, k, state) /\ m \in Inserted(g, k, r)
  OBVIOUS
<1> HIDE DEF g
<1>3. r \notin Tasks(g) /\ k \in g.owners /\ Size(g) # LEDGER_MAX
  BY <1>1, <1>2, FreeRecIs DEF Refused, Known
<1>4. /\ rec \in Records /\ Shape(m) /\ InUse(m, {})
      /\ \E d : /\ Shape(d) /\ Swept(d, g) /\ Lost(d, g) /\ Known(d, rec) /\ Grown(m, d, k, r)
                /\ r \notin Tasks(d)
  BY <1>1, <1>2, <1>3, Parts, InsertedIs
<1>5. PICK d : /\ Shape(d) /\ Swept(d, g) /\ Lost(d, g) /\ Known(d, rec) /\ Grown(m, d, k, r)
               /\ r \notin Tasks(d)
  BY <1>4
<1>6. state = "job" => d.running[k] < LEDGER_RUNNING
  <2>1. g.running[k] \in Int /\ d.running = g.running
    BY <1>1, <1>5, Fields DEF Swept, Shape
  <2> QED BY <1>2, <2>1, Given DEF Refused
<1>7. /\ m.waits = ledger.waits /\ r \in Tasks(m) /\ Tasks(m) \subseteq Tasks(ledger) \cup {r}
  BY <1>1, <1>5 DEF Swept, Grown
<1>8. \A j \in Key : ToSet(m.records[j]) \subseteq
        ToSet(ledger.records[j]) \cup (IF j = k THEN {r} ELSE {})
  BY <1>1, <1>5 DEF Swept, Grown
<1>9. \A j \in Key, i \in Slot : m.timers[j][i] # "none" => ledger.timers[j][i] # "none"
  BY <1>1, <1>5 DEF Swept, Grown
<1> QED BY <1>4, <1>5, <1>6, <1>7, <1>8, <1>9 DEF Admitted

LEMMA OpenKeeps ==
  ASSUME LedgerInv, NEW t \in Loop, NEW k \in Key, NEW r \in Rec, Open(t, k, r)
  PROVE  Books(ledger', rec', wait', todo', open')
<1>1. /\ rec \in Records /\ todo \in Todo /\ ledger \in Struct /\ wait \in Waits /\ open \in BOOLEAN
      /\ Referred(ledger, rec, todo) /\ Heeded(ledger, rec, wait) /\ Marked(rec)
      /\ Entered(ledger, wait) /\ Called(wait) /\ Posted(wait, todo)
  BY Parts
<1>2. /\ rec[r] = FreeRec /\ wait' = wait /\ open' = open /\ Idle(t)
      /\ \E s \in Sweeps(ledger, TRUE), state \in Working, x \in SUBSET Fired(ledger) :
           IF Refused(Got(s, k, x), k, state)
           THEN ledger' = Got(s, k, x) /\ Owes(t, {}, Got(s, k, x)) /\ UNCHANGED rec
           ELSE \E m \in Inserted(Got(s, k, x), k, r) :
                  /\ ledger' = [m EXCEPT !.running[k] = @ + 1]
                  /\ rec' = [rec EXCEPT ![r] = New(t, state)]
                  /\ Owes(t, {}, m)
  BY DEF Open, Got
<1>3. PICK s \in Sweeps(ledger, TRUE), state \in Working, x \in SUBSET Fired(ledger) :
        IF Refused(Got(s, k, x), k, state)
        THEN ledger' = Got(s, k, x) /\ Owes(t, {}, Got(s, k, x)) /\ UNCHANGED rec
        ELSE \E m \in Inserted(Got(s, k, x), k, r) :
               /\ ledger' = [m EXCEPT !.running[k] = @ + 1]
               /\ rec' = [rec EXCEPT ![r] = New(t, state)]
               /\ Owes(t, {}, m)
  BY <1>2
<1>4. todo[t] = Nothing /\ todo[t].gone = {}
  BY <1>1, <1>2, IdleIs
<1>5. CASE Refused(Got(s, k, x), k, state)
  BY <1>2, <1>3, <1>4, <1>5, RefusedKeeps
<1>6. CASE ~Refused(Got(s, k, x), k, state)
  <2>1. PICK m \in Inserted(Got(s, k, x), k, r) :
               /\ ledger' = [m EXCEPT !.running[k] = @ + 1]
               /\ rec' = [rec EXCEPT ![r] = New(t, state)]
               /\ Owes(t, {}, m)
    BY <1>3, <1>6
  <2>2. /\ Shape(m) /\ InUse(m, {}) /\ m.waits = ledger.waits
        /\ r \in Tasks(m) /\ Tasks(m) \subseteq Tasks(ledger) \cup {r}
        /\ \A j \in Key : ToSet(m.records[j]) \subseteq
             ToSet(ledger.records[j]) \cup (IF j = k THEN {r} ELSE {})
        /\ \A j \in Key, i \in Slot : m.timers[j][i] # "none" => ledger.timers[j][i] # "none"
        /\ \E d : /\ Shape(d) /\ Known(d, rec) /\ Grown(m, d, k, r) /\ r \notin Tasks(d)
                  /\ state = "job" => d.running[k] < LEDGER_RUNNING
    <3>1. Admitted(m, k, r, state)
      BY <1>2, <1>6, AdmittedIs
    <3> QED BY <3>1 DEF Admitted
  <2>3. PICK d : /\ Shape(d) /\ Known(d, rec) /\ Grown(m, d, k, r) /\ r \notin Tasks(d)
                 /\ state = "job" => d.running[k] < LEDGER_RUNNING
    BY <2>2
  <2>4. m \in Struct /\ Listed(m) /\ d \in Struct
    BY <2>2, <2>3 DEF Shape
  <2> DEFINE rn == [m.running EXCEPT ![k] = @ + 1]
             f  == [m EXCEPT !.running = rn]
             q  == [rec EXCEPT ![r] = New(t, state)]
             td == [todo EXCEPT ![t] = [hits |-> SetToSeq({}), gone |-> Tasks(ledger) \ Tasks(m)]]
  <2>5. ledger' = f /\ rec' = q /\ todo' = td
    BY <2>1, <2>4 DEF Owes, Struct
  <2>6. rn \in [Key -> Int] /\ \A j \in Key : rn[j] = m.running[j] + (IF j = k THEN 1 ELSE 0)
    BY <2>4, Fields
  <2>7. q \in Records /\ q[r] = New(t, state) /\ \A y \in Rec \ {r} : q[y] = rec[y]
    BY <1>1, NewIs DEF Records
  <2>8. q[r].state = state /\ ~q[r].cancel
    BY <2>7, NewIs
  <2> HIDE DEF rn, q
  <2>9. f \in Struct
    BY <2>4, <2>6, ZenonT(60) DEF Struct
  <2>10. /\ f.running = rn /\ f.records = m.records /\ f.n = m.n /\ f.waits = m.waits
         /\ f.n_waits = m.n_waits /\ f.timers = m.timers /\ f.owners = m.owners
         /\ f.n_anonymous = m.n_anonymous /\ f.ended = m.ended
    BY <2>4 DEF Struct
  <2> HIDE DEF f
  <2>11. Shape(f) /\ Tasks(f) = Tasks(m) /\ InUse(f, {})
    BY <2>2, <2>4, <2>9, <2>10, ShapeOther DEF Listed
  <2>12. SetToSeq({}) \in Lists(Wait)
    BY SetList, FS_EmptySet
  <2>13. td \in Todo /\ Referred(f, q, td)
    <3>1. td \in Todo /\ Referred(m, q, td)
      BY <1>1, <1>2, <1>4, <2>2, <2>12, NewOwed DEF q
    <3> HIDE DEF td
    <3> QED BY <2>11, <3>1 DEF Referred, Held
  <2>14. Posted(wait, td)
    <3>1. Tasks(ledger) \ Tasks(m) \in SUBSET Rec
      BY <1>1, InTable
    <3>2. Posted(Chained({}), td)
      <4> HIDE DEF td
      <4> QED BY <1>1, <1>4, <3>1, ChainedIs DEF td
    <3>3. Chained({}) = wait
      BY <1>1 DEF Chained, Waits
    <3> QED BY <3>2, <3>3
  <2> HIDE DEF td
  <2>15. Known(f, q)
    <3>1. /\ Tasks(f) = Tasks(d) \cup {r} /\ f.ended = d.ended
          /\ ToSet(f.records[k]) = ToSet(d.records[k]) \cup {r}
          /\ \A j \in Key \ {k} : f.records[j] = d.records[j]
          /\ \A j \in Key : f.running[j] = d.running[j] + (IF j = k THEN 1 ELSE 0)
      BY <2>3, <2>6, <2>10, <2>11 DEF Grown
    <3>2. state \notin Ended /\ state # "free"
      BY DEF Working, Ended
    <3>3. /\ \A y \in Rec : q[y].state \in Working => y \in Tasks(f)
          /\ \A y \in Tasks(f) : q[y].state # "free"
          /\ ToSet(f.ended) = {y \in Tasks(f) : q[y].state \in Ended}
      <4>1. Tasks(d) \subseteq Rec
        BY <2>4, InTable
      <4> QED BY <2>3, <2>7, <2>8, <3>1, <3>2, <4>1 DEF Known
    <3>4. ASSUME NEW j \in Key
          PROVE  /\ f.running[j] = Cardinality(Working1(f, q, j))
                 /\ Cardinality(Jobs1(f, q, j)) <= LEDGER_RUNNING
      <4> DEFINE S == ToSet(d.records[j])
                 A == Working1(d, rec, j)
                 B == Jobs1(d, rec, j)
      <4>1. IsFiniteSet(S) /\ r \notin S /\ S \subseteq Rec
        BY <2>3, <2>4, InTable
      <4>2. /\ IsFiniteSet(A) /\ IsFiniteSet(B) /\ r \notin A /\ r \notin B
            /\ Cardinality(A) \in Nat /\ Cardinality(B) \in Nat /\ Cardinality(B) <= Cardinality(A)
        <5>1. B \subseteq A /\ A \subseteq S
          BY DEF Working1, Jobs1, Working
        <5> HIDE DEF A, B, S
        <5>2. IsFiniteSet(A) /\ Cardinality(A) \in Nat
          BY <4>1, <5>1, Sub
        <5>3. IsFiniteSet(B) /\ Cardinality(B) \in Nat /\ Cardinality(B) <= Cardinality(A)
          BY <5>1, <5>2, Sub
        <5> QED BY <4>1, <5>1, <5>2, <5>3
      <4>3. d.running[j] = Cardinality(A) /\ Cardinality(B) <= LEDGER_RUNNING
        BY <2>3 DEF Known
      <4>4. CASE j # k
        <5>1. Working1(f, q, j) = A /\ Jobs1(f, q, j) = B
          BY <2>7, <3>1, <4>1, <4>4 DEF Working1, Jobs1
        <5> HIDE DEF A, B
        <5> QED BY <3>1, <4>2, <4>3, <4>4, <5>1
      <4>5. CASE j = k
        <5>1. Working1(f, q, j) = A \cup {r}
          BY <2>7, <2>8, <3>1, <4>1, <4>5 DEF Working1
        <5>2. Jobs1(f, q, j) = IF state = "job" THEN B \cup {r} ELSE B
          BY <2>7, <2>8, <3>1, <4>1, <4>5 DEF Jobs1
        <5> HIDE DEF A, B
        <5>3. Cardinality(A \cup {r}) = Cardinality(A) + 1 /\ Cardinality(B \cup {r}) = Cardinality(B) + 1
          BY <4>2, FS_AddElement
        <5>4. state = "job" => d.running[j] < LEDGER_RUNNING
          BY <2>3, <4>5
        <5>5. CASE state = "job"
          BY <3>1, <4>2, <4>3, <4>5, <5>1, <5>2, <5>3, <5>4, <5>5, Given
        <5>6. CASE state # "job"
          BY <3>1, <4>2, <4>3, <4>5, <5>1, <5>2, <5>3, <5>6, Given
        <5> QED BY <5>5, <5>6
      <4> QED BY <4>4, <4>5
    <3> QED BY <3>3, <3>4 DEF Known
  <2>16. Marked(q)
    BY <1>1, <2>7, <2>8 DEF Marked
  <2>17. Entered(f, wait)
    BY <1>1, <2>2, <2>10 DEF Entered
  <2>18. Heeded(f, q, wait)
    <3>1. \A j \in Key : \A y \in ToSet(f.records[j]) : q[y].state = "ended" =>
            y \in ToSet(ledger.records[j]) /\ rec[y].state = "ended"
      <4>1. state # "ended"
        BY DEF Working
      <4>2. \A j \in Key : ToSet(f.records[j]) \subseteq Rec
        BY <2>9, InTable
      <4> QED BY <2>2, <2>7, <2>8, <2>10, <4>1, <4>2
    <3> QED BY <1>1, <2>2, <2>10, <3>1, HeededStill
  <2>19. Books(f, q, wait, td, open)
    BY <1>1, <2>7, <2>11, <2>13, <2>14, <2>15, <2>16, <2>17, <2>18 DEF Books
  <2> QED BY <1>2, <2>5, <2>19
<1> QED BY <1>5, <1>6

\* r ends: the sweep goes before r is on the ended list, as if after.
EndedWith(l, r) == [l EXCEPT !.ended = Append(@, r)]

LEMMA EndedWithIs ==
  ASSUME NEW l, Shape(l), NEW r \in Tasks(l), r \notin ToSet(l.ended)
  PROVE  LET j == EndedWith(l, r)
         IN  /\ Shape(j) /\ j \in Struct /\ Tasks(j) = Tasks(l) /\ \A K : InUse(l, K) => InUse(j, K)
             /\ ToSet(j.ended) = ToSet(l.ended) \cup {r}
             /\ j.records = l.records /\ j.running = l.running /\ j.waits = l.waits
             /\ j.n_waits = l.n_waits /\ j.timers = l.timers /\ j.owners = l.owners
<1> DEFINE e == Append(l.ended, r)
           j == EndedWith(l, r)
<1>1. l \in Struct /\ Listed(l) /\ r \in Rec
  BY InTable DEF Shape
<1>2. e \in Lists(Rec) /\ ToSet(e) = ToSet(l.ended) \cup {r}
  BY <1>1, Fields, AppendTo
<1>3. j = [l EXCEPT !.ended = e]
  BY <1>1 DEF Struct, EndedWith
<1> HIDE DEF e, j
<1>4. j \in Struct
  BY <1>1, <1>2, <1>3, ZenonT(60) DEF Struct
<1>5. /\ j.ended = e /\ j.records = l.records /\ j.n = l.n /\ j.waits = l.waits
      /\ j.n_waits = l.n_waits /\ j.timers = l.timers /\ j.owners = l.owners
      /\ j.n_anonymous = l.n_anonymous /\ j.running = l.running
  BY <1>1, <1>3 DEF Struct
<1>6. ToSet(j.ended) \subseteq Tasks(l)
  BY <1>1, <1>2, <1>5 DEF Listed
<1>7. Shape(j) /\ Tasks(j) = Tasks(l) /\ \A K : InUse(l, K) => InUse(j, K)
  BY <1>4, <1>5, <1>6, ShapeOther
<1> QED BY <1>2, <1>4, <1>5, <1>7 DEF j

Ending(f, s, l, r, q) ==
  /\ Shape(f) /\ f \in Struct /\ InUse(f, {}) /\ Known(f, q)
  /\ Tasks(f) = Tasks(s) /\ Tasks(s) \subseteq Tasks(l) /\ r \in Tasks(s)
  /\ f.waits = l.waits /\ s.waits = l.waits /\ f.timers = l.timers
  /\ \A k \in Key : ToSet(f.records[k]) \subseteq ToSet(l.records[k])

LEMMA EndedOn ==
  ASSUME NEW l, Shape(l), InUse(l, {}), NEW r \in Tasks(l), r \notin ToSet(l.ended),
         NEW s \in Sweeps(l, FALSE), NEW q, Known(EndedWith(l, r), q)
  PROVE  Ending(EndedWith(s, r), s, l, r, q)
<1> DEFINE j == EndedWith(l, r)
           f == EndedWith(s, r)
<1>1. Shape(s) /\ Swept(s, l) /\ Lost(s, l)
  BY SweepsIs
<1>2. r \in Tasks(s) /\ r \notin ToSet(s.ended)
  BY <1>1 DEF Lost, Swept
<1>3. /\ Shape(j) /\ j \in Struct /\ Tasks(j) = Tasks(l) /\ InUse(j, {})
      /\ ToSet(j.ended) = ToSet(l.ended) \cup {r}
      /\ j.records = l.records /\ j.running = l.running /\ j.waits = l.waits
      /\ j.n_waits = l.n_waits /\ j.timers = l.timers /\ j.owners = l.owners
  BY EndedWithIs
<1>4. /\ Shape(f) /\ f \in Struct /\ Tasks(f) = Tasks(s) /\ \A K : InUse(s, K) => InUse(f, K)
      /\ ToSet(f.ended) = ToSet(s.ended) \cup {r}
      /\ f.records = s.records /\ f.running = s.running /\ f.waits = s.waits
      /\ f.n_waits = s.n_waits /\ f.timers = s.timers /\ f.owners = s.owners
  BY <1>1, <1>2, EndedWithIs
<1>5. Known(j, q)
  OBVIOUS
<1> HIDE DEF j, f
<1>6. \A K : InUse(j, K) => InUse(f, K)
  <2>1. \A k \in Key : Used(j, k) <=> Used(l, k)
    BY <1>3 DEF Used
  <2>2. j.owners \subseteq Key
    BY <1>3, Fields
  <2>3. \A K : InUse(j, K) => InUse(l, K)
    BY <1>3, <2>1, <2>2 DEF InUse
  <2> QED BY <1>1, <1>4, <2>3 DEF Swept
<1>7. Swept(f, j)
  <2>1. /\ Tasks(f) \subseteq Tasks(j)
        /\ \A k \in Key : ToSet(f.records[k]) = ToSet(j.records[k]) \cap Tasks(f)
        /\ ToSet(f.ended) = ToSet(j.ended) \cap Tasks(f)
    BY <1>1, <1>2, <1>3, <1>4 DEF Swept
  <2>2. /\ f.running = j.running /\ f.waits = j.waits /\ f.n_waits = j.n_waits
        /\ f.timers = j.timers /\ f.owners \subseteq j.owners
    BY <1>1, <1>3, <1>4 DEF Swept
  <2> QED BY <1>6, <2>1, <2>2 DEF Swept
<1>8. Lost(f, j)
  BY <1>1, <1>3, <1>4 DEF Lost
<1>9. Known(f, q)
  BY <1>3, <1>4, <1>5, <1>7, <1>8, KnownSwept
<1>10. InUse(f, {})
  BY <1>1, <1>4 DEF Swept
<1>11. /\ Tasks(s) \subseteq Tasks(l) /\ f.waits = l.waits /\ s.waits = l.waits
       /\ f.timers = l.timers /\ \A k \in Key : ToSet(f.records[k]) \subseteq ToSet(l.records[k])
  BY <1>1, <1>4 DEF Swept
<1> QED BY <1>2, <1>4, <1>9, <1>10, <1>11 DEF f, Ending

\* The waits of k are woken.
LEMMA WokenIs ==
  ASSUME LedgerInv, NEW t \in Loop, todo[t] = Nothing, NEW k \in Key, NEW m,
         m.waits = ledger.waits, NEW G \in SUBSET Rec
  PROVE  LET W  == Woken(m, k)
             wt == Chained(W)
             td == [todo EXCEPT ![t] = [hits |-> SetToSeq(W), gone |-> G]]
         IN  /\ wt \in Waits /\ td \in Todo /\ Called(wt) /\ Posted(wt, td) /\ Entered(m, wt)
             /\ SetToSeq(W) \in Lists(Wait)
             /\ \A w \in m.waits[k] : wt[w].posted
             /\ \A w \in Wait : /\ wt[w].state = wait[w].state /\ wt[w].any = wait[w].any
                                /\ wt[w].covers = wait[w].covers
                                /\ wt[w].posted <=> wait[w].posted \/ w \in W
<1> DEFINE W  == Woken(m, k)
           wt == Chained(W)
           td == [todo EXCEPT ![t] = [hits |-> SetToSeq(W), gone |-> G]]
<1>1. /\ todo \in Todo /\ ledger \in Struct /\ wait \in Waits
      /\ Entered(ledger, wait) /\ Called(wait) /\ Posted(wait, todo)
  BY Parts
<1>2. m.waits[k] \subseteq Wait
  BY <1>1, Fields
<1>3. W \in SUBSET Wait /\ \A w \in W : ~wait[w].posted /\ wait[w].state \in Waited
  BY <1>1, <1>2 DEF Woken, Entered
<1>4. /\ wt \in Waits /\ td \in Todo /\ Called(wt) /\ Posted(wt, td)
      /\ \A w \in Wait : /\ wt[w].state = wait[w].state /\ wt[w].any = wait[w].any
                         /\ wt[w].covers = wait[w].covers
                         /\ wt[w].posted <=> wait[w].posted \/ w \in W
  <2> HIDE DEF W
  <2> QED BY <1>1, <1>3, ChainedIs
<1>5. SetToSeq(W) \in Lists(Wait)
  BY <1>3, Given, Sub, SetList
<1> HIDE DEF wt, td
<1>6. \A w \in m.waits[k] : wt[w].posted
  BY <1>2, <1>4 DEF Woken
<1>7. Entered(m, wt)
  BY <1>1, <1>4 DEF Entered
<1> QED BY <1>4, <1>5, <1>6, <1>7 DEF wt, td

LEMMA RestoreKeeps ==
  ASSUME LedgerInv, NEW t \in Loop, NEW k \in Key, NEW r \in Rec, Restore(t, k, r)
  PROVE  Books(ledger', rec', wait', todo', open')
<1>1. /\ rec \in Records /\ todo \in Todo /\ ledger \in Struct /\ wait \in Waits /\ open \in BOOLEAN
      /\ Referred(ledger, rec, todo) /\ Heeded(ledger, rec, wait) /\ Marked(rec)
  BY Parts
<1>2. /\ rec[r] = FreeRec /\ open' = open /\ Idle(t)
      /\ \E s \in Sweeps(ledger, TRUE), x \in SUBSET Fired(ledger) :
           IF Refused(Got(s, k, x), k, "ended")
           THEN ledger' = Got(s, k, x) /\ Owes(t, {}, Got(s, k, x)) /\ UNCHANGED <<rec, wait>>
           ELSE \E i \in Inserted(Got(s, k, x), k, r) : \E m \in Sweeps(i, FALSE) :
                  /\ rec' = [rec EXCEPT ![r] = New(t, "ended")]
                  /\ ledger' = EndedWith(m, r)
                  /\ wait' = Chained(Woken(m, k))
                  /\ Owes(t, Woken(m, k), m)
  BY DEF Restore, Got, EndedWith
<1>3. PICK s \in Sweeps(ledger, TRUE), x \in SUBSET Fired(ledger) :
        IF Refused(Got(s, k, x), k, "ended")
        THEN ledger' = Got(s, k, x) /\ Owes(t, {}, Got(s, k, x)) /\ UNCHANGED <<rec, wait>>
        ELSE \E i \in Inserted(Got(s, k, x), k, r) : \E m \in Sweeps(i, FALSE) :
               /\ rec' = [rec EXCEPT ![r] = New(t, "ended")]
               /\ ledger' = EndedWith(m, r)
               /\ wait' = Chained(Woken(m, k))
               /\ Owes(t, Woken(m, k), m)
  BY <1>2
<1>4. todo[t] = Nothing /\ todo[t].gone = {}
  BY <1>1, <1>2, IdleIs
<1>5. CASE Refused(Got(s, k, x), k, "ended")
  BY <1>2, <1>3, <1>4, <1>5, RefusedKeeps
<1>6. CASE ~Refused(Got(s, k, x), k, "ended")
  <2>1. PICK i \in Inserted(Got(s, k, x), k, r) : \E m \in Sweeps(i, FALSE) :
               /\ rec' = [rec EXCEPT ![r] = New(t, "ended")]
               /\ ledger' = EndedWith(m, r)
               /\ wait' = Chained(Woken(m, k))
               /\ Owes(t, Woken(m, k), m)
    BY <1>3, <1>6
  <2>2. PICK m \in Sweeps(i, FALSE) :
               /\ rec' = [rec EXCEPT ![r] = New(t, "ended")]
               /\ ledger' = EndedWith(m, r)
               /\ wait' = Chained(Woken(m, k))
               /\ Owes(t, Woken(m, k), m)
    BY <2>1
  <2>3. /\ Shape(i) /\ InUse(i, {}) /\ i.waits = ledger.waits
        /\ r \in Tasks(i) /\ Tasks(i) \subseteq Tasks(ledger) \cup {r}
        /\ \A j \in Key : ToSet(i.records[j]) \subseteq
             ToSet(ledger.records[j]) \cup (IF j = k THEN {r} ELSE {})
        /\ \A j \in Key, a \in Slot : i.timers[j][a] # "none" => ledger.timers[j][a] # "none"
        /\ \E d : /\ Shape(d) /\ Known(d, rec) /\ Grown(i, d, k, r) /\ r \notin Tasks(d)
    <3>1. Admitted(i, k, r, "ended")
      BY <1>2, <1>6, AdmittedIs
    <3> QED BY <3>1 DEF Admitted
  <2>4. PICK d : /\ Shape(d) /\ Known(d, rec) /\ Grown(i, d, k, r) /\ r \notin Tasks(d)
    BY <2>3
  <2>5. d \in Struct /\ Tasks(d) \subseteq Rec
    BY <2>4, InTable DEF Shape
  <2> DEFINE q  == [rec EXCEPT ![r] = New(t, "ended")]
             e  == EndedWith(i, r)
             f  == EndedWith(m, r)
             G  == Tasks(ledger) \ Tasks(m)
             wt == Chained(Woken(m, k))
             td == [todo EXCEPT ![t] = [hits |-> SetToSeq(Woken(m, k)), gone |-> G]]
  <2>6. ledger' = f /\ rec' = q /\ wait' = wt /\ todo' = td
    BY <2>2 DEF Owes
  <2>7. q \in Records /\ q[r] = New(t, "ended") /\ \A y \in Rec \ {r} : q[y] = rec[y]
    BY <1>1, NewIs DEF Records
  <2>8. q[r].state = "ended" /\ ~q[r].cancel
    BY <2>7, NewIs
  <2>9. r \notin ToSet(i.ended)
    BY <2>4 DEF Grown, Shape, Listed
  <2>10. /\ e \in Struct /\ Tasks(e) = Tasks(i) /\ ToSet(e.ended) = ToSet(i.ended) \cup {r}
         /\ e.records = i.records /\ e.running = i.running
    BY <2>3, <2>9, EndedWithIs
  <2> HIDE DEF q, e, wt, td, G
  <2>11. Known(e, q)
    <3>1. /\ Tasks(e) = Tasks(d) \cup {r} /\ ToSet(e.ended) = ToSet(d.ended) \cup {r}
          /\ ToSet(e.records[k]) = ToSet(d.records[k]) \cup {r}
          /\ \A j \in Key \ {k} : e.records[j] = d.records[j]
          /\ e.running = d.running
      BY <2>4, <2>10 DEF Grown
    <3>2. "ended" \notin Working /\ "ended" \in Ended /\ "ended" # "job" /\ "ended" # "free"
      BY DEF Working, Ended
    <3>3. /\ \A y \in Rec : q[y].state \in Working => y \in Tasks(e)
          /\ \A y \in Tasks(e) : q[y].state # "free"
          /\ ToSet(e.ended) = {y \in Tasks(e) : q[y].state \in Ended}
      BY <2>4, <2>5, <2>7, <2>8, <3>1, <3>2 DEF Known
    <3>4. \A j \in Key : ToSet(d.records[j]) \subseteq Tasks(d)
      BY <2>5, InTable
    <3>5. \A j \in Key : Working1(e, q, j) = Working1(d, rec, j) /\ Jobs1(e, q, j) = Jobs1(d, rec, j)
      BY <2>4, <2>5, <2>7, <2>8, <3>1, <3>2, <3>4 DEF Working1, Jobs1
    <3> QED BY <2>4, <3>1, <3>3, <3>5 DEF Known
  <2>12. /\ Shape(f) /\ f \in Struct /\ InUse(f, {}) /\ Known(f, q)
         /\ Tasks(f) = Tasks(m) /\ Tasks(m) \subseteq Tasks(i) /\ r \in Tasks(m)
         /\ f.waits = i.waits /\ m.waits = i.waits /\ f.timers = i.timers
         /\ \A j \in Key : ToSet(f.records[j]) \subseteq ToSet(i.records[j])
    <3>1. Ending(f, m, i, r, q)
      BY <2>3, <2>9, <2>11, EndedOn DEF e
    <3> QED BY <3>1 DEF Ending
  <2> HIDE DEF f
  <2>13. G \in SUBSET Rec
    BY <1>1, InTable DEF G
  <2>14. /\ wt \in Waits /\ Called(wt) /\ Posted(wt, td) /\ Entered(m, wt)
         /\ SetToSeq(Woken(m, k)) \in Lists(Wait)
         /\ \A w \in m.waits[k] : wt[w].posted
         /\ \A w \in Wait : /\ wt[w].state = wait[w].state /\ wt[w].any = wait[w].any
                            /\ wt[w].covers = wait[w].covers
                            /\ wt[w].posted <=> wait[w].posted \/ w \in Woken(m, k)
    BY <1>4, <2>3, <2>12, <2>13, WokenIs DEF wt, td
  <2>15. td \in Todo /\ Referred(f, q, td)
    <3>1. Tasks(m) \subseteq Tasks(ledger) \cup {r}
      BY <2>3, <2>12
    <3>2. td \in Todo /\ Referred(m, q, td)
      BY <1>1, <1>2, <1>4, <2>12, <2>14, <3>1, NewOwed DEF q, td, G
    <3> QED BY <2>12, <3>2 DEF Referred, Held
  <2>16. Marked(q)
    BY <1>1, <2>7, <2>8 DEF Marked
  <2>17. Entered(f, wt)
    BY <2>12, <2>14 DEF Entered
  <2>18. Heeded(f, q, wt)
    <3>1. ASSUME NEW j \in Key
          PROVE  \/ \A w \in f.waits[j] : wt[w].posted
                 \/ /\ \A y \in ToSet(f.records[j]) : q[y].state = "ended" =>
                         y \in ToSet(ledger.records[j]) /\ rec[y].state = "ended"
                    /\ \A a \in Slot : f.timers[j][a] # "none" => ledger.timers[j][a] # "none"
      <4>1. CASE j = k
        BY <2>12, <2>14, <4>1
      <4>2. CASE j # k
        <5>1. ToSet(f.records[j]) \subseteq ToSet(ledger.records[j])
          BY <2>3, <2>12, <4>2
        <5>2. r \notin ToSet(ledger.records[j]) /\ ToSet(ledger.records[j]) \subseteq Rec
          <6>1. r \notin Tasks(ledger)
            BY <1>2, Parts, FreeRecIs DEF Known
          <6> QED BY <1>1, <6>1, InTable
        <5> QED BY <2>3, <2>7, <2>12, <5>1, <5>2
      <4> QED BY <4>1, <4>2
    <3>2. f.waits = ledger.waits
      BY <2>3, <2>12
    <3>3. \A w \in Wait : wt[w].state = "parked" /\ ~wt[w].posted =>
            /\ wait[w].state = "parked" /\ ~wait[w].posted /\ (wt[w].any => wait[w].any)
            /\ wait[w].covers \subseteq wt[w].covers
      BY <2>14
    <3> QED BY <1>1, <3>1, <3>2, <3>3, HeededStill
  <2>19. Books(f, q, wt, td, open)
    BY <1>1, <2>7, <2>12, <2>14, <2>15, <2>16, <2>17, <2>18 DEF Books
  <2> QED BY <1>2, <2>6, <2>19
<1> QED BY <1>5, <1>6

LEMMA EndKeeps ==
  ASSUME LedgerInv, NEW t \in Loop, NEW r \in Rec, End(t, r)
  PROVE  Books(ledger', rec', wait', todo', open')
<1>1. /\ rec \in Records /\ todo \in Todo /\ ledger \in Struct /\ wait \in Waits /\ open \in BOOLEAN
      /\ Referred(ledger, rec, todo) /\ Heeded(ledger, rec, wait) /\ Marked(rec)
      /\ Known(ledger, rec) /\ Shape(ledger) /\ Listed(ledger) /\ InUse(ledger, {})
  BY Parts
<1> DEFINE k == OwnerOf(ledger, r)
           rn == [ledger.running EXCEPT ![k] = @ - 1]
           e == [ledger EXCEPT !.running = rn]
           v == [rec[r] EXCEPT !.state = "ended", !.asked = FALSE]
           q == [rec EXCEPT ![r] = v]
<1>2. /\ rec[r].state \in Working /\ open' = open /\ Idle(t)
      /\ rec' = q
      /\ \E l \in Sweeps(e, FALSE) :
           /\ ledger' = EndedWith(l, r)
           /\ wait' = Chained(Woken(ledger, k))
           /\ todo' = [todo EXCEPT ![t] = [hits |-> SetToSeq(Woken(ledger, k)),
                                          gone |-> {r} \cup (Tasks(ledger) \ Tasks(l))]]
  BY <1>1 DEF End, EndedWith, Records, RecordType, Struct
<1>3. k \in Key /\ r \in ToSet(ledger.records[k]) /\ r \in Tasks(ledger) /\ r \notin ToSet(ledger.ended)
  <2>1. r \in Tasks(ledger) /\ r \notin ToSet(ledger.ended)
    BY <1>1, <1>2 DEF Known, Working, Ended
  <2>2. \E j \in Key : r \in ToSet(ledger.records[j])
    BY <1>1, <2>1, InTable
  <2> QED BY <2>1, <2>2 DEF OwnerOf
<1> HIDE DEF k
<1>4. rn \in [Key -> Int] /\ \A j \in Key : rn[j] = ledger.running[j] - (IF j = k THEN 1 ELSE 0)
  BY <1>1, <1>3, Fields
<1> HIDE DEF rn
<1>5. e \in Struct
  BY <1>1, <1>4, ZenonT(60) DEF Struct
<1>6. /\ e.running = rn /\ e.records = ledger.records /\ e.n = ledger.n /\ e.waits = ledger.waits
      /\ e.n_waits = ledger.n_waits /\ e.timers = ledger.timers /\ e.owners = ledger.owners
      /\ e.n_anonymous = ledger.n_anonymous /\ e.ended = ledger.ended
  BY <1>1 DEF Struct
<1>7. rec[r] \in RecordType
  BY <1>1, RecordFields
<1>8. v \in RecordType
  <2>1. "ended" \in {"free"} \cup Working \cup Ended /\ FALSE \in BOOLEAN
    BY DEF Ended
  <2> QED BY <1>7, <2>1, ZenonT(60) DEF RecordType
<1>9. /\ v.state = "ended" /\ v.shown = rec[r].shown /\ v.cancel = rec[r].cancel
      /\ v.refs = rec[r].refs
  BY <1>7 DEF RecordType
<1> HIDE DEF e, v
<1>10. q \in Records /\ q[r] = v /\ \A y \in Rec \ {r} : q[y] = rec[y]
  BY <1>1, <1>8 DEF Records
<1> HIDE DEF q
<1>11. PICK l \in Sweeps(e, FALSE) :
         /\ ledger' = EndedWith(l, r)
         /\ wait' = Chained(Woken(ledger, k))
         /\ todo' = [todo EXCEPT ![t] = [hits |-> SetToSeq(Woken(ledger, k)),
                                         gone |-> {r} \cup (Tasks(ledger) \ Tasks(l))]]
  BY <1>2
<1>12. Shape(e) /\ Tasks(e) = Tasks(ledger) /\ InUse(e, {})
  BY <1>1, <1>5, <1>6, ShapeOther DEF Listed
<1> DEFINE j == EndedWith(e, r)
           f == EndedWith(l, r)
           G == {r} \cup (Tasks(ledger) \ Tasks(l))
           wt == Chained(Woken(ledger, k))
           td == [todo EXCEPT ![t] = [hits |-> SetToSeq(Woken(ledger, k)), gone |-> G]]
<1>13. /\ j \in Struct /\ Tasks(j) = Tasks(ledger) /\ ToSet(j.ended) = ToSet(ledger.ended) \cup {r}
       /\ j.records = ledger.records /\ j.running = rn
  BY <1>3, <1>6, <1>12, EndedWithIs
<1>14. ledger' = f /\ wait' = wt /\ todo' = td
  BY <1>11
<1> HIDE DEF j, G, wt, td
<1>15. Known(j, q)
  <2>1. "ended" \notin Working /\ "ended" \in Ended /\ "ended" # "job" /\ "ended" # "free"
    BY DEF Working, Ended
  <2>2. /\ \A y \in Rec : q[y].state \in Working => y \in Tasks(j)
        /\ \A y \in Tasks(j) : q[y].state # "free"
        /\ ToSet(j.ended) = {y \in Tasks(j) : q[y].state \in Ended}
    <3>1. Tasks(ledger) \subseteq Rec
      BY <1>1, InTable
    <3> QED BY <1>1, <1>3, <1>9, <1>10, <1>13, <2>1, <3>1 DEF Known
  <2>3. ASSUME NEW i \in Key
        PROVE  /\ j.running[i] = Cardinality(Working1(j, q, i))
               /\ Cardinality(Jobs1(j, q, i)) <= LEDGER_RUNNING
    <3> DEFINE A == Working1(ledger, rec, i)
               B == Jobs1(ledger, rec, i)
    <3>1. IsFiniteSet(A) /\ Cardinality(A) \in Nat /\ IsFiniteSet(B) /\ Cardinality(B) \in Nat
      <4>1. IsFiniteSet(ToSet(ledger.records[i]))
        BY <1>1, InTable
      <4>2. A \subseteq ToSet(ledger.records[i]) /\ B \subseteq ToSet(ledger.records[i])
        BY DEF Working1, Jobs1
      <4> HIDE DEF A, B
      <4> QED BY <4>1, <4>2, Sub
    <3>2. ledger.running[i] = Cardinality(A) /\ Cardinality(B) <= LEDGER_RUNNING
      BY <1>1 DEF Known
    <3>3. ToSet(ledger.records[i]) \subseteq Rec /\ (r \in ToSet(ledger.records[i]) <=> i = k)
      BY <1>1, <1>3, InTable DEF Listed
    <3>4. Working1(j, q, i) = A \ {r} /\ Jobs1(j, q, i) = B \ {r}
      BY <1>9, <1>10, <1>13, <2>1, <3>3 DEF Working1, Jobs1
    <3>5. r \in A <=> i = k
      BY <1>2, <3>3 DEF Working1
    <3> HIDE DEF A, B
    <3>6. Cardinality(A \ {r}) = IF r \in A THEN Cardinality(A) - 1 ELSE Cardinality(A)
      BY <3>1, FS_RemoveElement, Zenon
    <3>7. Cardinality(B \ {r}) <= Cardinality(B) /\ Cardinality(B \ {r}) \in Nat
      BY <3>1, Sub
    <3>8. j.running[i] = ledger.running[i] - (IF i = k THEN 1 ELSE 0)
      BY <1>4, <1>13
    <3>9. j.running[i] = Cardinality(A \ {r})
      BY <3>1, <3>2, <3>5, <3>6, <3>8
    <3>10. Cardinality(B \ {r}) <= LEDGER_RUNNING
      BY <3>1, <3>2, <3>7, Given
    <3> QED BY <3>4, <3>9, <3>10
  <2> QED BY <2>2, <2>3 DEF Known
<1>16. /\ Shape(f) /\ f \in Struct /\ InUse(f, {}) /\ Known(f, q)
       /\ Tasks(f) = Tasks(l) /\ Tasks(l) \subseteq Tasks(ledger) /\ r \in Tasks(l)
       /\ f.waits = ledger.waits /\ f.timers = ledger.timers
       /\ \A i \in Key : ToSet(f.records[i]) \subseteq ToSet(ledger.records[i])
  <2>1. r \in Tasks(e) /\ r \notin ToSet(e.ended)
    BY <1>3, <1>6, <1>12
  <2>2. /\ Shape(f) /\ f \in Struct /\ InUse(f, {}) /\ Known(f, q)
        /\ Tasks(f) = Tasks(l) /\ Tasks(l) \subseteq Tasks(e) /\ r \in Tasks(l)
        /\ f.waits = e.waits /\ f.timers = e.timers
        /\ \A i \in Key : ToSet(f.records[i]) \subseteq ToSet(e.records[i])
    <3>1. /\ Shape(e) /\ InUse(e, {}) /\ r \in Tasks(e) /\ r \notin ToSet(e.ended)
          /\ l \in Sweeps(e, FALSE) /\ Known(EndedWith(e, r), q)
      BY <1>12, <1>15, <2>1 DEF j
    <3>2. Ending(f, l, e, r, q)
      BY <3>1, EndedOn
    <3> QED BY <3>2 DEF Ending
  <2> HIDE DEF f
  <2> QED BY <1>6, <1>12, <2>2
<1> HIDE DEF f
<1>17. G \in SUBSET Rec
  BY <1>1, InTable DEF G
<1>18. todo[t] = Nothing /\ todo[t].gone = {}
  BY <1>1, <1>2, IdleIs
<1>19. /\ wt \in Waits /\ td \in Todo /\ Called(wt) /\ Posted(wt, td) /\ Entered(ledger, wt)
       /\ SetToSeq(Woken(ledger, k)) \in Lists(Wait)
       /\ \A w \in ledger.waits[k] : wt[w].posted
       /\ \A w \in Wait : /\ wt[w].state = wait[w].state /\ wt[w].any = wait[w].any
                          /\ wt[w].covers = wait[w].covers
                          /\ wt[w].posted <=> wait[w].posted \/ w \in Woken(ledger, k)
  BY <1>3, <1>17, <1>18, WokenIs DEF wt, td
<1>20. Referred(f, q, td)
  <2>1. \A x : Cardinality(Drops(td, x)) = Cardinality(Drops(todo, x)) + Bit(x \in G)
    BY <1>1, <1>17, <1>18, <1>19, DropsMore DEF td
  <2> SUFFICES ASSUME NEW x \in Rec
               PROVE  q[x].refs = Held(f, q, td, x) /\ (q[x].refs = 0 => q[x] = FreeRec)
    BY DEF Referred
  <2>2. rec[x].refs = Held(ledger, rec, todo, x) /\ (rec[x].refs = 0 => rec[x] = FreeRec)
    BY <1>1 DEF Referred
  <2>3. Cardinality(Drops(todo, x)) \in Nat
    BY <1>1, DropsIs
  <2>4. CASE x # r
    <3>1. Bit(x \in Tasks(f)) + Bit(x \in G) = Bit(x \in Tasks(ledger))
      BY <1>16, <2>4 DEF Bit, G
    <3>2. q[x] = rec[x]
      BY <1>10, <2>4
    <3> QED BY <2>1, <2>2, <2>3, <3>1, <3>2, Bits DEF Held
  <2>5. CASE x = r
    <3>1. /\ Bit(x \in Tasks(f)) = 1 /\ Bit(x \in G) = 1 /\ Bit(x \in Tasks(ledger)) = 1
      BY <1>3, <1>16, <2>5 DEF Bit, G
    <3>2. Bit(q[x].state \in Working) = 0 /\ Bit(rec[x].state \in Working) = 1
      <4>1. "ended" \notin Working
        BY DEF Working
      <4> QED BY <1>2, <1>9, <1>10, <2>5, <4>1 DEF Bit
    <3>3. q[x].shown = rec[x].shown /\ q[x].cancel = rec[x].cancel /\ q[x].refs = rec[x].refs
      BY <1>9, <1>10, <2>5
    <3>4. Held(f, q, td, x) = Held(ledger, rec, todo, x)
      BY <2>1, <2>3, <3>1, <3>2, <3>3, Bits DEF Held
    <3>5. rec[x].refs # 0
      BY <1>2, <2>2, <2>5, FreeRecIs
    <3> QED BY <2>2, <3>3, <3>4, <3>5
  <2> QED BY <2>4, <2>5
<1>21. Marked(q)
  <2>1. "ended" \notin Working
    BY DEF Working
  <2> QED BY <1>1, <1>9, <1>10, <2>1 DEF Marked
<1>22. Entered(f, wt)
  BY <1>16, <1>19 DEF Entered
<1>23. Heeded(f, q, wt)
  <2>1. ASSUME NEW i \in Key
        PROVE  \/ \A w \in f.waits[i] : wt[w].posted
               \/ /\ \A y \in ToSet(f.records[i]) : q[y].state = "ended" =>
                       y \in ToSet(ledger.records[i]) /\ rec[y].state = "ended"
                  /\ \A a \in Slot : f.timers[i][a] # "none" => ledger.timers[i][a] # "none"
    <3>1. CASE i = k
      BY <1>16, <1>19, <3>1
    <3>2. CASE i # k
      <4>1. r \notin ToSet(ledger.records[i]) /\ ToSet(ledger.records[i]) \subseteq Rec
        BY <1>1, <1>3, <3>2, InTable DEF Listed
      <4> QED BY <1>10, <1>16, <4>1
    <3> QED BY <3>1, <3>2
  <2>2. \A w \in Wait : wt[w].state = "parked" /\ ~wt[w].posted =>
          /\ wait[w].state = "parked" /\ ~wait[w].posted /\ (wt[w].any => wait[w].any)
          /\ wait[w].covers \subseteq wt[w].covers
    BY <1>19
  <2> QED BY <1>1, <1>16, <2>1, <2>2, HeededStill
<1>24. Books(f, q, wt, td, open)
  BY <1>1, <1>10, <1>16, <1>19, <1>20, <1>21, <1>22, <1>23 DEF Books
<1> QED BY <1>2, <1>14, <1>24

\* A holder lets go of a record: the ledger, or a loop that had yet to.
LEMMA PutOne ==
  ASSUME NEW l, NEW m, NEW q \in Records, NEW p, NEW td \in Todo, NEW ue \in Todo, NEW r \in Rec,
         q[r].refs = Held(l, q, td, r), p[r] = Put(q[r]),
         Bit(r \in Tasks(l)) + Cardinality(Drops(td, r)) =
           Bit(r \in Tasks(m)) + Cardinality(Drops(ue, r)) + 1
  PROVE  /\ p[r] \in RecordType /\ p[r].refs = Held(m, p, ue, r)
         /\ p[r].refs = 0 => p[r] = FreeRec
         /\ \/ p[r] = FreeRec /\ r \notin Tasks(m) /\ q[r].state \notin Working
            \/ p[r].state = q[r].state /\ p[r].cancel = q[r].cancel /\ p[r].asked = q[r].asked
<1> DEFINE a == Bit(r \in Tasks(m))
           b == Bit(q[r].state \in Working)
           c == Bit(q[r].shown)
           d == Bit(q[r].cancel)
           e == Cardinality(Drops(ue, r))
<1>1. a \in Nat /\ b \in Nat /\ c \in Nat /\ d \in Nat /\ e \in Nat
  BY Bits, DropsIs
<1>2. q[r].refs = a + b + c + d + e + 1
  <2> DEFINE f == Bit(r \in Tasks(l))
             g == Cardinality(Drops(td, r))
  <2>1. f \in Nat /\ g \in Nat
    BY Bits, DropsIs
  <2>2. q[r].refs = f + b + c + d + g
    BY DEF Held
  <2>3. f + g = a + e + 1
    OBVIOUS
  <2> HIDE DEF a, b, c, d, e, f, g
  <2> QED BY <1>1, <2>1, <2>2, <2>3
<1>3. q[r] \in RecordType /\ q[r].refs > 0
  <2>1. q[r] \in RecordType
    BY RecordFields
  <2> HIDE DEF a, b, c, d, e
  <2> QED BY <1>1, <1>2, <2>1
<1>4. /\ Put(q[r]) \in RecordType
      /\ q[r].refs = 1 => Put(q[r]) = FreeRec
      /\ q[r].refs # 1 => /\ Put(q[r]).refs = q[r].refs - 1 /\ Put(q[r]).state = q[r].state
                          /\ Put(q[r]).shown = q[r].shown /\ Put(q[r]).cancel = q[r].cancel
                          /\ Put(q[r]).asked = q[r].asked
  BY <1>3, PutType
<1>5. CASE q[r].refs = 1
  <2>1. a = 0 /\ b = 0 /\ e = 0
    <3> HIDE DEF a, b, c, d, e
    <3> QED BY <1>1, <1>2, <1>5
  <2>2. p[r] = FreeRec /\ r \notin Tasks(m) /\ q[r].state \notin Working
    BY <1>4, <1>5, <2>1 DEF Bit
  <2>3. Bit(p[r].state \in Working) = 0 /\ Bit(p[r].shown) = 0 /\ Bit(p[r].cancel) = 0
    BY <2>2, FreeRecIs DEF Bit
  <2>4. Held(m, p, ue, r) = 0
    BY <2>1, <2>3 DEF Held
  <2> QED BY <2>2, <2>4, FreeRecIs
<1>6. CASE q[r].refs # 1
  <2>1. Held(m, p, ue, r) = a + b + c + d + e
    BY <1>4, <1>6 DEF Held
  <2>2. p[r].refs = q[r].refs - 1
    BY <1>4, <1>6
  <2>3. p[r].refs = a + b + c + d + e /\ p[r].refs # 0
    <3> HIDE DEF a, b, c, d, e
    <3> QED BY <1>1, <1>2, <1>6, <2>2
  <2> QED BY <1>4, <1>6, <2>1, <2>3
<1> QED BY <1>5, <1>6

LEMMA PutAllKeeps ==
  ASSUME LedgerInv, NEW t \in Loop, PutAll(t)
  PROVE  Books(ledger', rec', wait', todo', open')
<1>1. /\ rec \in Records /\ todo \in Todo /\ ledger \in Struct /\ wait \in Waits /\ open \in BOOLEAN
      /\ Referred(ledger, rec, todo) /\ Heeded(ledger, rec, wait) /\ Marked(rec)
      /\ Known(ledger, rec) /\ Posted(wait, todo)
  BY Parts
<1> DEFINE G == todo[t].gone
           p == [r \in Rec |-> IF r \in G THEN Put(rec[r]) ELSE rec[r]]
           td == [todo EXCEPT ![t] = Nothing]
<1>2. rec' = p /\ todo' = td /\ UNCHANGED <<ledger, wait, open>> /\ todo[t].hits = <<>>
  BY DEF PutAll
<1>3. /\ td \in Todo
      /\ \A r : /\ Cardinality(Drops(td, r)) = Cardinality(Drops(todo, r)) - Bit(r \in G)
                /\ Cardinality(Drops(td, r)) \in Nat
  BY <1>1, DropsLess
<1>4. ASSUME NEW r \in Rec
      PROVE  /\ p[r] \in RecordType /\ p[r].refs = Held(ledger, p, td, r)
             /\ p[r].refs = 0 => p[r] = FreeRec
             /\ \/ p[r] = FreeRec /\ r \notin Tasks(ledger)
                \/ p[r].state = rec[r].state /\ p[r].cancel = rec[r].cancel
                   /\ p[r].asked = rec[r].asked
  <2>1. /\ rec[r].refs = Held(ledger, rec, todo, r) /\ (rec[r].refs = 0 => rec[r] = FreeRec)
        /\ rec[r] \in RecordType /\ Cardinality(Drops(todo, r)) \in Nat
    BY <1>1, RecordFields, DropsIs DEF Referred
  <2>2. Cardinality(Drops(td, r)) = Cardinality(Drops(todo, r)) - Bit(r \in G)
        /\ Cardinality(Drops(td, r)) \in Nat
    BY <1>3
  <2>3. CASE r \in G
    <3>1. p[r] = Put(rec[r])
      BY <2>3
    <3>2. Bit(r \in G) = 1
      BY <2>3 DEF Bit
    <3> HIDE DEF td, p, G
    <3>3. Bit(r \in Tasks(ledger)) + Cardinality(Drops(todo, r)) =
            Bit(r \in Tasks(ledger)) + Cardinality(Drops(td, r)) + 1
      BY <2>1, <2>2, <3>2, Bits
    <3> QED BY <1>1, <1>3, <2>1, <3>1, <3>3, PutOne
  <2>4. CASE r \notin G
    <3>1. p[r] = rec[r] /\ Bit(r \in G) = 0
      BY <2>4 DEF Bit
    <3> HIDE DEF td, p, G
    <3>2. Cardinality(Drops(td, r)) = Cardinality(Drops(todo, r))
      BY <2>1, <2>2, <3>1
    <3>3. Held(ledger, p, td, r) = Held(ledger, rec, todo, r)
      BY <3>1, <3>2 DEF Held
    <3> QED BY <2>1, <3>1, <3>3
  <2> QED BY <2>3, <2>4
<1>5. p \in Records
  BY <1>4 DEF Records
<1>6. Posted(wait, td)
  <2>1. \A u \in Loop : td[u].hits = todo[u].hits
    BY <1>1, <1>2 DEF Todo, Nothing
  <2> HIDE DEF td
  <2> QED BY <1>1, <2>1 DEF Posted
<1> HIDE DEF p, td, G
<1>7. Referred(ledger, p, td)
  BY <1>4 DEF Referred
<1>8. Known(ledger, p) /\ Heeded(ledger, p, wait)
  <2>1. \A r \in Rec : IF r \in Tasks(ledger) THEN SameKind(p[r], rec[r])
                       ELSE p[r].state \notin Working
    BY <1>1, <1>4, FreeRecIs DEF SameKind, Known
  <2> QED BY <1>1, <1>5, <2>1, KnownAlike
<1>9. Marked(p)
  BY <1>1, <1>4, FreeRecIs DEF Marked
<1>10. Books(ledger, p, wait, td, open)
  BY <1>1, <1>3, <1>5, <1>6, <1>7, <1>8, <1>9, Parts DEF Books
<1> QED BY <1>2, <1>10

LEMMA EmptyIs ==
  /\ Shape(Empty) /\ InUse(Empty, {}) /\ Tasks(Empty) = {} /\ ToSet(Empty.ended) = {}
  /\ \A k \in Key : Empty.records[k] = <<>> /\ Empty.waits[k] = {} /\ Empty.running[k] = 0
<1>1. /\ [k \in Key |-> <<>>] \in [Key -> Lists(Rec)] /\ <<>> \in Lists(Rec)
      /\ ToSet(<<>>) = {} /\ Len(<<>>) = 0
  BY EmptyList
<1>2. Empty \in Struct
  <2>1. /\ [k \in Key |-> 0] \in [Key -> Int] /\ [k \in Key |-> {}] \in [Key -> SUBSET Wait]
        /\ {} \in SUBSET Key /\ 0 \in Int
    OBVIOUS
  <2>2. [k \in Key |-> [i \in Slot |-> "none"]] \in [Key -> [Slot -> {"none", "set", "fired"}]]
    OBVIOUS
  <2> QED BY <1>1, <2>1, <2>2, ZenonT(60) DEF Empty, Struct
<1>3. /\ \A k \in Key : /\ Empty.records[k] = <<>> /\ Empty.waits[k] = {} /\ Empty.running[k] = 0
                        /\ Empty.n[k] = 0 /\ Empty.n_waits[k] = 0
                        /\ \A i \in Slot : Empty.timers[k][i] = "none"
      /\ Empty.ended = <<>> /\ Empty.owners = {} /\ Empty.n_anonymous = 0
  BY DEF Empty
<1> HIDE DEF Empty
<1>4. Tasks(Empty) = {}
  BY <1>1, <1>3 DEF Tasks
<1>5. Cardinality({}) = 0
  BY FS_EmptySet
<1>6. \A k \in Key : ~Used(Empty, k)
  BY <1>3 DEF Used
<1>7. Cardinality({} \cap Anonymous) = 0
  BY <1>5
<1>8. Size(Empty) = 0
  BY <1>4, <1>5 DEF Size
<1>9. Listed(Empty)
  <2>1. LEDGER_OWNERS \div 2 \in Nat
    BY Given
  <2>2. /\ \A j, k \in Key : j # k => /\ ToSet(Empty.records[j]) \cap ToSet(Empty.records[k]) = {}
                                      /\ Empty.waits[j] \cap Empty.waits[k] = {}
        /\ \A k \in Key : /\ Empty.n[k] = Len(Empty.records[k])
                          /\ Empty.n_waits[k] = Cardinality(Empty.waits[k])
                          /\ Empty.n_waits[k] <= LEDGER_WAITS
                          /\ Used(Empty, k) => k \in Empty.owners
        /\ ToSet(Empty.ended) \subseteq Tasks(Empty)
    <3>1. \A k \in Key : /\ ToSet(Empty.records[k]) = {} /\ Empty.waits[k] = {}
                         /\ Len(Empty.records[k]) = 0 /\ Cardinality(Empty.waits[k]) = 0
      BY <1>1, <1>3, <1>5
    <3>2. ToSet(Empty.ended) = {}
      BY <1>1, <1>3
    <3> QED BY <1>3, <1>6, <3>1, <3>2, Given
  <2>3. /\ Empty.n_anonymous = Cardinality(Empty.owners \cap Anonymous)
        /\ Cardinality(Empty.owners) <= LEDGER_OWNERS
        /\ Cardinality(Empty.owners \cap Anonymous) <= LEDGER_OWNERS \div 2
        /\ Size(Empty) <= LEDGER_MAX
    BY <1>3, <1>5, <1>7, <1>8, <2>1, Given
  <2> QED BY <2>2, <2>3 DEF Listed
<1> QED BY <1>1, <1>2, <1>3, <1>4, <1>9 DEF Shape, InUse

LEMMA FreeWaitIs ==
  /\ FreeWait \in WaitType /\ FreeWait.state = "free" /\ FreeWait.refs = 0
  /\ ~FreeWait.posted /\ ~FreeWait.mail /\ ~FreeWait.hand /\ FreeWait.state \notin Waited
BY DEF FreeWait, WaitType, Waited

\* A ledger with nothing in it, whose waits are all free.
LEMMA EmptyBooks ==
  ASSUME NEW q \in Records, NEW wt \in Waits, NEW td \in Todo, NEW o \in BOOLEAN,
         \A r \in Rec : q[r].state \notin Working, Referred(Empty, q, td),
         \A w \in Wait : wt[w] = FreeWait, \A t \in Loop : ToSet(td[t].hits) = {}
  PROVE  Books(Empty, q, wt, td, o)
<1>1. Known(Empty, q)
  <2>1. Cardinality({}) = 0 /\ 0 <= LEDGER_RUNNING
    BY FS_EmptySet, Given
  <2>2. \A k \in Key : ToSet(Empty.records[k]) = {}
    BY EmptyIs, EmptyList
  <2>3. \A k \in Key : Working1(Empty, q, k) = {} /\ Jobs1(Empty, q, k) = {}
    BY <2>2 DEF Working1, Jobs1
  <2> QED BY <2>1, <2>3, EmptyIs DEF Known
<1>2. Marked(q)
  BY DEF Marked
<1>3. Entered(Empty, wt) /\ Heeded(Empty, q, wt)
  BY EmptyIs, FreeWaitIs DEF Entered, Heeded
<1>4. Called(wt)
  <2> SUFFICES ASSUME NEW w \in Wait
               PROVE  /\ wt[w].refs = Bit(wt[w].state \in Waited) + Bit(wt[w].posted)
                                        + Bit(wt[w].hand)
                      /\ wt[w].refs = 0 => wt[w] = FreeWait
    BY DEF Called
  <2>1. Bit(wt[w].state \in Waited) = 0 /\ Bit(wt[w].posted) = 0 /\ Bit(wt[w].hand) = 0
    BY FreeWaitIs DEF Bit
  <2> QED BY <2>1, FreeWaitIs
<1>5. Posted(wt, td)
  BY FreeWaitIs DEF Posted
<1> QED BY <1>1, <1>2, <1>3, <1>4, <1>5, EmptyIs DEF Books

LEMMA DestroyKeeps ==
  ASSUME LedgerInv, Destroy
  PROVE  Books(ledger', rec', wait', todo', open')
<1>1. /\ rec \in Records /\ todo \in Todo /\ ledger \in Struct /\ wait \in Waits
      /\ Referred(ledger, rec, todo)
  BY Parts
<1> DEFINE p == [r \in Rec |-> IF r \in Tasks(ledger) THEN Put(rec[r]) ELSE rec[r]]
<1>2. /\ rec' = p /\ ledger' = Empty /\ open' = FALSE /\ wait' = wait /\ todo' = todo
      /\ \A t \in Loop : Idle(t)
      /\ \A w \in Wait : wait[w] = FreeWait
      /\ \A r \in Rec : rec[r].state \notin Working
  BY DEF Destroy
<1>3. \A t \in Loop : ToSet(todo[t].hits) = {}
  BY <1>1, <1>2, IdleIs
<1>4. ASSUME NEW r \in Rec
      PROVE  /\ p[r] \in RecordType /\ p[r].refs = Held(Empty, p, todo, r)
             /\ p[r].refs = 0 => p[r] = FreeRec
             /\ p[r].state \notin Working
  <2>1. /\ rec[r].refs = Held(ledger, rec, todo, r) /\ (rec[r].refs = 0 => rec[r] = FreeRec)
        /\ rec[r] \in RecordType /\ Cardinality(Drops(todo, r)) \in Nat
    BY <1>1, RecordFields, DropsIs DEF Referred
  <2>2. r \notin Tasks(Empty) /\ Bit(r \in Tasks(Empty)) = 0
    BY EmptyIs DEF Bit
  <2>3. CASE r \in Tasks(ledger)
    <3>1. p[r] = Put(rec[r])
      BY <2>3
    <3>2. Bit(r \in Tasks(ledger)) = 1
      BY <2>3 DEF Bit
    <3> HIDE DEF p
    <3>3. Bit(r \in Tasks(ledger)) + Cardinality(Drops(todo, r)) =
            Bit(r \in Tasks(Empty)) + Cardinality(Drops(todo, r)) + 1
      BY <2>1, <2>2, <3>2
    <3>4. /\ p[r] \in RecordType /\ p[r].refs = Held(Empty, p, todo, r)
          /\ p[r].refs = 0 => p[r] = FreeRec
          /\ p[r] = FreeRec \/ p[r].state = rec[r].state
      BY <1>1, <2>1, <3>1, <3>3, PutOne
    <3> QED BY <1>2, <3>4, FreeRecIs
  <2>4. CASE r \notin Tasks(ledger)
    <3>1. p[r] = rec[r] /\ Bit(r \in Tasks(ledger)) = 0
      BY <2>4 DEF Bit
    <3> HIDE DEF p
    <3>2. Held(Empty, p, todo, r) = Held(ledger, rec, todo, r)
      BY <2>2, <3>1 DEF Held
    <3> QED BY <1>2, <2>1, <3>1, <3>2
  <2> QED BY <2>3, <2>4
<1>5. p \in Records
  BY <1>4 DEF Records
<1> HIDE DEF p
<1>6. Referred(Empty, p, todo)
  BY <1>4 DEF Referred
<1>7. Books(Empty, p, wait, todo, FALSE)
  BY <1>1, <1>2, <1>3, <1>4, <1>5, <1>6, EmptyBooks
<1> QED BY <1>2, <1>7

LEMMA InitBooks == Init => LedgerInv
<1> SUFFICES ASSUME Init PROVE Books(ledger, rec, wait, todo, open)
  BY DEF LedgerInv
<1>1. /\ ledger = Empty /\ rec = [r \in Rec |-> FreeRec] /\ wait = [w \in Wait |-> FreeWait]
      /\ todo = [t \in Loop |-> Nothing] /\ open = TRUE
  BY DEF Init
<1>2. rec \in Records /\ \A r \in Rec : rec[r] = FreeRec
  BY <1>1, FreeRecIs DEF Records
<1>3. wait \in Waits /\ \A w \in Wait : wait[w] = FreeWait
  BY <1>1, FreeWaitIs DEF Waits
<1>4. todo \in Todo /\ \A t \in Loop : todo[t].gone = {} /\ ToSet(todo[t].hits) = {}
  BY <1>1, EmptyList DEF Todo, Nothing
<1>5. Referred(Empty, rec, todo)
  <2> SUFFICES ASSUME NEW r \in Rec
               PROVE  rec[r].refs = Held(Empty, rec, todo, r)
    BY <1>2 DEF Referred
  <2>1. Bit(rec[r].state \in Working) = 0 /\ Bit(rec[r].shown) = 0 /\ Bit(rec[r].cancel) = 0
    BY <1>2, FreeRecIs DEF Bit
  <2>2. Bit(r \in Tasks(Empty)) = 0
    BY EmptyIs DEF Bit
  <2>3. Drops(todo, r) = {} /\ Cardinality({}) = 0
    BY <1>4, FS_EmptySet DEF Drops
  <2>4. Cardinality(Drops(todo, r)) = 0
    BY <2>3
  <2> QED BY <1>2, <2>1, <2>2, <2>4, FreeRecIs DEF Held
<1>6. \A r \in Rec : rec[r].state \notin Working
  BY <1>2, FreeRecIs
<1> QED BY <1>1, <1>2, <1>3, <1>4, <1>5, <1>6, EmptyBooks

-----------------------------------------------------------------------------
(* What each action keeps: the timers.                                     *)

\* Only the owners and their timers change.
LEMMA TimersKeep ==
  ASSUME LedgerInv, NEW m, Shape(m), Same(m, ledger), InUse(m, {}),
         \A k \in Key, i \in Slot : m.timers[k][i] # "none" => ledger.timers[k][i] # "none",
         ledger' = m, UNCHANGED <<rec, wait, todo, open>>
  PROVE  Books(ledger', rec', wait', todo', open')
<1>1. /\ ledger \in Struct /\ Known(ledger, rec) /\ Referred(ledger, rec, todo)
      /\ Entered(ledger, wait) /\ Heeded(ledger, rec, wait)
  BY Parts
<1>2. Tasks(m) = Tasks(ledger)
  BY SameTasks
<1>3. Known(m, rec)
  BY <1>1, <1>2 DEF Known, Same, Working1, Jobs1
<1>4. Referred(m, rec, todo)
  BY <1>1, <1>2 DEF Referred, Held
<1>5. Entered(m, wait)
  BY <1>1 DEF Entered, Same
<1>6. Heeded(m, rec, wait)
  BY <1>1 DEF Heeded, Same
<1>7. Books(m, rec, wait, todo, open)
  BY <1>3, <1>4, <1>5, <1>6, Parts DEF Books
<1> QED BY <1>7

LEMMA TimerFiresKeeps ==
  ASSUME LedgerInv, NEW k \in Key, NEW i \in Slot, TimerFires(k, i)
  PROVE  Books(ledger', rec', wait', todo', open')
<1>1. ledger \in Struct /\ Shape(ledger) /\ InUse(ledger, {})
  BY Parts
<1> DEFINE ts == [ledger.timers EXCEPT ![k][i] = "fired"]
           m == [ledger EXCEPT !.timers = ts]
<1>2. ledger.timers[k][i] = "set" /\ ledger' = m /\ UNCHANGED <<rec, wait, todo, open>>
  BY <1>1 DEF TimerFires, Struct
<1>3. /\ ts \in [Key -> [Slot -> {"none", "set", "fired"}]]
      /\ \A j \in Key, a \in Slot : ts[j][a] = IF j = k /\ a = i THEN "fired" ELSE ledger.timers[j][a]
  BY <1>1, Fields
<1> HIDE DEF ts
<1>4. m \in Struct
  BY <1>1, <1>3, ZenonT(60) DEF Struct
<1>5. Same(m, ledger) /\ m.timers = ts /\ m.owners = ledger.owners /\ m.n_anonymous = ledger.n_anonymous
  BY <1>1 DEF Struct, Same
<1> HIDE DEF m
<1>6. \A j \in Key, a \in Slot : m.timers[j][a] # "none" <=> ledger.timers[j][a] # "none"
  BY <1>2, <1>3, <1>5
<1>7. \A j \in Key : Used(m, j) <=> Used(ledger, j)
  BY <1>5, <1>6 DEF Used, Same
<1>8. Shape(m)
  BY <1>1, <1>4, <1>5, <1>7, SameShape
<1>9. InUse(m, {})
  BY <1>1, <1>5, <1>7, Fields DEF InUse
<1> QED BY <1>2, <1>5, <1>6, <1>8, <1>9, TimersKeep

LEMMA TimerCancelKeeps ==
  ASSUME LedgerInv, NEW t \in Loop, NEW k \in Key, NEW i \in Slot, TimerCancel(t, k, i)
  PROVE  Books(ledger', rec', wait', todo', open')
<1>1. ledger \in Struct /\ Shape(ledger) /\ InUse(ledger, {})
  BY Parts
<1>2. PICK x \in SUBSET {y \in Fired(ledger) : y[1] = k} :
        ledger' = Gc([Expired(ledger, x) EXCEPT !.timers[k][i] = "none"], {k})
  BY DEF TimerCancel
<1> DEFINE y == x \cup {<<k, i>>}
           e == Expired(ledger, y)
           m == Gc(e, {k})
<1>3. [Expired(ledger, x) EXCEPT !.timers[k][i] = "none"] = e
  <2> DEFINE a == [j \in Key |-> [b \in Slot |-> IF <<j, b>> \in x THEN "none"
                                                ELSE ledger.timers[j][b]]]
             c == [j \in Key |-> [b \in Slot |-> IF <<j, b>> \in y THEN "none"
                                                ELSE ledger.timers[j][b]]]
  <2>1. Expired(ledger, x) = [ledger EXCEPT !.timers = a] /\ e = [ledger EXCEPT !.timers = c]
    BY <1>1 DEF Expired, Struct
  <2>2. [a EXCEPT ![k][i] = "none"] = c
    OBVIOUS
  <2> HIDE DEF a, c, e
  <2> QED BY <1>1, <2>1, <2>2 DEF Struct
<1>4. /\ Shape(e) /\ Same(e, ledger) /\ e.owners = ledger.owners
      /\ \A j \in Key, b \in Slot :
           e.timers[j][b] = IF <<j, b>> \in y THEN "none" ELSE ledger.timers[j][b]
  BY <1>1, ExpiredIs, ExpiredShape
<1> HIDE DEF e
<1>5. Shape(m) /\ Same(m, e) /\ m.timers = e.timers /\ (InUse(e, {k} \cup {}) => InUse(m, {}))
  BY <1>4, GcShape
<1>6. ledger' = m /\ UNCHANGED <<rec, wait, todo, open>>
  BY <1>2, <1>3 DEF TimerCancel
<1> HIDE DEF m
<1>7. InUse(e, {k} \cup {})
  <2>1. \A j \in Key \ {k}, b \in Slot : <<j, b>> \notin y
    BY <1>2
  <2>2. \A j \in Key \ {k} : Used(ledger, j) => Used(e, j)
    BY <1>4, <2>1 DEF Used, Same
  <2> QED BY <1>1, <1>4, <2>2, Fields DEF InUse
<1>8. Same(m, ledger)
  BY <1>4, <1>5 DEF Same
<1>9. \A j \in Key, b \in Slot : m.timers[j][b] # "none" => ledger.timers[j][b] # "none"
  BY <1>4, <1>5, ZenonT(40)
<1> QED BY <1>5, <1>6, <1>7, <1>8, <1>9, TimersKeep

LEMMA TimerSetKeeps ==
  ASSUME LedgerInv, NEW t \in Loop, NEW k \in Key, TimerSet(t, k)
  PROVE  Books(ledger', rec', wait', todo', open')
<1>1. /\ rec \in Records /\ todo \in Todo /\ ledger \in Struct /\ wait \in Waits /\ open \in BOOLEAN
      /\ Shape(ledger) /\ InUse(ledger, {}) /\ Known(ledger, rec) /\ Marked(rec)
      /\ Referred(ledger, rec, todo) /\ Heeded(ledger, rec, wait)
  BY Parts
<1> DEFINE G(x) == OwnerGet(ledger, k, x)
           L(x) == Expired(G(x), {y \in x : y[1] = k})
           E(x) == {i \in Slot : L(x).timers[k][i] = "none"}
           I(x) == CHOOSE j \in E(x) : \A m \in E(x) : j <= m
<1>2. /\ Idle(t) /\ UNCHANGED <<rec, open>>
      /\ \E x \in SUBSET Fired(ledger) :
           IF k \notin G(x).owners \/ E(x) = {}
           THEN ledger' = (IF k \in G(x).owners THEN L(x) ELSE G(x)) /\ UNCHANGED <<wait, todo>>
           ELSE /\ ledger' = [L(x) EXCEPT !.timers[k][I(x)] = "set"]
                /\ wait' = [w \in Wait |-> [Chained(Woken(L(x), k))[w] EXCEPT
                              !.covers = IF w \in L(x).waits[k] THEN @ \ {I(x)} ELSE @]]
                /\ todo' = [todo EXCEPT ![t].hits = SetToSeq(Woken(L(x), k))]
  BY DEF TimerSet
<1>3. PICK x \in SUBSET Fired(ledger) :
           IF k \notin G(x).owners \/ E(x) = {}
           THEN ledger' = (IF k \in G(x).owners THEN L(x) ELSE G(x)) /\ UNCHANGED <<wait, todo>>
           ELSE /\ ledger' = [L(x) EXCEPT !.timers[k][I(x)] = "set"]
                /\ wait' = [w \in Wait |-> [Chained(Woken(L(x), k))[w] EXCEPT
                              !.covers = IF w \in L(x).waits[k] THEN @ \ {I(x)} ELSE @]]
                /\ todo' = [todo EXCEPT ![t].hits = SetToSeq(Woken(L(x), k))]
  BY <1>2
<1> DEFINE g == OwnerGet(ledger, k, x)
           z == {y \in x : y[1] = k}
           l == Expired(g, z)
           empty == {i \in Slot : l.timers[k][i] = "none"}
           i == CHOOSE j \in empty : \A m \in empty : j <= m
           wt == [w \in Wait |-> [Chained(Woken(l, k))[w] EXCEPT
                              !.covers = IF w \in l.waits[k] THEN @ \ {i} ELSE @]]
<1>4. IF k \notin g.owners \/ empty = {}
      THEN ledger' = (IF k \in g.owners THEN l ELSE g) /\ UNCHANGED <<wait, todo>>
      ELSE /\ ledger' = [l EXCEPT !.timers[k][i] = "set"]
           /\ wait' = wt
           /\ todo' = [todo EXCEPT ![t].hits = SetToSeq(Woken(l, k))]
  BY <1>3
<1> HIDE DEF G, L, E, I
<1>5. /\ Shape(g) /\ Same(g, ledger) /\ InUse(g, {k})
      /\ \A j \in Key, a \in Slot : g.timers[j][a] \in {ledger.timers[j][a], "none"}
  BY <1>1, OwnerGetIs
<1> HIDE DEF g
<1>6. /\ Shape(l) /\ l \in Struct /\ Same(l, g) /\ l.owners = g.owners
      /\ l.n_anonymous = g.n_anonymous
      /\ \A j \in Key, a \in Slot :
           l.timers[j][a] = IF <<j, a>> \in z THEN "none" ELSE g.timers[j][a]
  BY <1>5, ExpiredIs, ExpiredShape DEF Shape
<1> HIDE DEF l
<1>7. Same(l, ledger) /\ \A j \in Key, a \in Slot : l.timers[j][a] # "none" => ledger.timers[j][a] # "none"
  <2> HIDE DEF z
  <2>1. Same(l, ledger)
    BY <1>5, <1>6 DEF Same
  <2>2. ASSUME NEW j \in Key, NEW a \in Slot, l.timers[j][a] # "none"
        PROVE  ledger.timers[j][a] # "none"
    <3>1. l.timers[j][a] = g.timers[j][a]
      BY <1>6, <2>2
    <3> QED BY <1>5, <2>2, <3>1
  <2> QED BY <2>1, <2>2
<1>8. InUse(l, {k})
  <2>1. \A j \in Key \ {k}, a \in Slot : <<j, a>> \notin z
    OBVIOUS
  <2>2. \A j \in Key \ {k} : Used(g, j) => Used(l, j)
    BY <1>6, <2>1 DEF Used, Same
  <2> QED BY <1>5, <1>6, <2>2, Fields DEF InUse
<1>9. CASE k \notin g.owners
  <2>1. ledger' = g /\ UNCHANGED <<rec, wait, todo, open>>
    BY <1>2, <1>4, <1>9
  <2>2. InUse(g, {})
    BY <1>5, <1>9 DEF InUse
  <2>3. \A j \in Key, a \in Slot : g.timers[j][a] # "none" => ledger.timers[j][a] # "none"
    BY <1>5
  <2> QED BY <1>5, <2>1, <2>2, <2>3, TimersKeep
<1>10. CASE k \in g.owners /\ empty = {}
  <2>1. ledger' = l /\ UNCHANGED <<rec, wait, todo, open>>
    BY <1>2, <1>4, <1>10
  <2>2. 1 \in Slot
    BY Given DEF Slot
  <2>3. Used(l, k)
    BY <1>10, <2>2 DEF Used
  <2>4. InUse(l, {})
    BY <1>8, <2>3 DEF InUse
  <2> QED BY <1>6, <1>7, <2>1, <2>4, TimersKeep
<1>11. CASE k \in g.owners /\ empty # {}
  <2>1. i \in Slot /\ l.timers[k][i] = "none"
    <3>1. empty \subseteq Nat /\ empty # {}
      BY <1>11 DEF Slot
    <3>2. \E j \in empty : \A m \in empty : j <= m
      BY <3>1, Least
    <3>3. i \in empty
      BY <3>2
    <3> QED BY <3>3
  <2> HIDE DEF i, empty
  <2> DEFINE ts == [l.timers EXCEPT ![k][i] = "set"]
             m  == [l EXCEPT !.timers = ts]
             W  == Woken(l, k)
             ch == Chained(W)
             td == [todo EXCEPT ![t] = [hits |-> SetToSeq(W), gone |-> {}]]
  <2>2. todo[t] = Nothing
    BY <1>1, <1>2, IdleIs
  <2>3. ledger' = m /\ wait' = wt /\ todo' = td /\ UNCHANGED <<rec, open>>
    <3>1. todo' = [todo EXCEPT ![t].hits = SetToSeq(W)]
      BY <1>4, <1>11
    <3>2. todo' = td
      <4> DEFINE h == SetToSeq(W)
      <4> HIDE DEF W, h
      <4>1. [todo[t] EXCEPT !.hits = h] = [hits |-> h, gone |-> {}]
        BY <2>2 DEF Nothing
      <4>2. todo' = [todo EXCEPT ![t] = [todo[t] EXCEPT !.hits = h]]
        BY <3>1 DEF h
      <4> QED BY <4>1, <4>2 DEF h
    <3> QED BY <1>2, <1>4, <1>6, <1>11, <3>2 DEF Struct
  <2>4. /\ ts \in [Key -> [Slot -> {"none", "set", "fired"}]]
        /\ \A j \in Key, a \in Slot : ts[j][a] = IF j = k /\ a = i THEN "set" ELSE l.timers[j][a]
    BY <1>6, <2>1, Fields
  <2> HIDE DEF ts
  <2>5. m \in Struct
    BY <1>6, <2>4, ZenonT(60) DEF Struct
  <2>6. Same(m, l) /\ m.timers = ts /\ m.owners = l.owners /\ m.n_anonymous = l.n_anonymous
    BY <1>6 DEF Struct, Same
  <2> HIDE DEF m
  <2>7. Used(m, k) /\ \A j \in Key \ {k} : Used(m, j) <=> Used(l, j)
    BY <2>1, <2>4, <2>6 DEF Used, Same
  <2>8. Shape(m)
    <3>1. Tasks(m) = Tasks(l) /\ Size(m) = Size(l)
      BY <2>6, SameTasks
    <3>2. k \in m.owners
      BY <1>6, <1>11, <2>6
    <3> QED BY <1>6, <2>5, <2>6, <2>7, <3>1, <3>2 DEF Shape, Listed, Same
  <2>9. InUse(m, {})
    BY <1>6, <1>8, <2>6, <2>7, Fields DEF InUse
  <2>10. Same(m, ledger) /\ Tasks(m) = Tasks(ledger)
    BY <1>7, <2>6, SameTasks DEF Same
  <2>11. /\ ch \in Waits /\ td \in Todo /\ Called(ch) /\ Posted(ch, td) /\ Entered(l, ch)
         /\ SetToSeq(W) \in Lists(Wait)
         /\ \A w \in l.waits[k] : ch[w].posted
         /\ \A w \in Wait : /\ ch[w].state = wait[w].state /\ ch[w].any = wait[w].any
                            /\ ch[w].covers = wait[w].covers
                            /\ ch[w].posted <=> wait[w].posted \/ w \in W
    <3>1. {} \in SUBSET Rec /\ l.waits = ledger.waits
      BY <1>7 DEF Same
    <3> QED BY <2>2, <3>1, WokenIs
  <2>12. Referred(m, rec, td)
    <3>1. /\ \A r : Cardinality(Drops(td, r)) = Cardinality(Drops(todo, r)) + Bit(r \in {})
      <4>1. todo[t].gone = {} /\ {} \in SUBSET Rec
        BY <2>2 DEF Nothing
      <4> QED BY <1>1, <2>11, <4>1, DropsMore
    <3>2. \A r : Bit(r \in {}) = 0 /\ Cardinality(Drops(todo, r)) \in Nat
      BY <1>1, DropsIs DEF Bit
    <3> HIDE DEF td
    <3>3. \A r : Cardinality(Drops(td, r)) = Cardinality(Drops(todo, r))
      BY <3>1, <3>2
    <3> QED BY <1>1, <2>10, <3>3 DEF Referred, Held
  <2> HIDE DEF ch, td
  <2>13. ASSUME NEW w \in Wait
         PROVE  /\ wt[w] \in WaitType /\ wt[w].state = ch[w].state /\ wt[w].any = ch[w].any
                /\ wt[w].posted = ch[w].posted /\ wt[w].mail = ch[w].mail /\ wt[w].hand = ch[w].hand
                /\ wt[w].refs = ch[w].refs
                /\ w \notin l.waits[k] => wt[w] = ch[w]
    <3>1. ch[w] \in WaitType /\ ch[w].covers \subseteq Slot
      BY <2>11, WaitFields
    <3> DEFINE c == IF w \in l.waits[k] THEN ch[w].covers \ {i} ELSE ch[w].covers
    <3>2. wt[w] = [ch[w] EXCEPT !.covers = c]
      BY <3>1 DEF WaitType, ch
    <3>3. c \in SUBSET Slot
      BY <3>1
    <3>4. [ch[w] EXCEPT !.covers = c] \in WaitType
      <4> HIDE DEF c
      <4> QED BY <3>1, <3>3, ZenonT(60) DEF WaitType
    <3>5. w \notin l.waits[k] => [ch[w] EXCEPT !.covers = c] = ch[w]
      BY <3>1 DEF WaitType
    <3> HIDE DEF c, wt
    <3> QED BY <3>1, <3>2, <3>4, <3>5 DEF WaitType
  <2>14. wt \in Waits
    BY <2>13 DEF Waits
  <2> HIDE DEF wt
  <2>15. Entered(m, wt)
    BY <2>6, <2>11, <2>13 DEF Entered, Same
  <2>16. Posted(wt, td)
    BY <2>11, <2>13 DEF Posted
  <2>17. Called(wt)
    <3> SUFFICES ASSUME NEW w \in Wait
                 PROVE  /\ wt[w].refs = Bit(wt[w].state \in Waited) + Bit(wt[w].posted)
                                          + Bit(wt[w].hand)
                        /\ wt[w].refs = 0 => wt[w] = FreeWait
      BY DEF Called
    <3>1. /\ ch[w].refs = Bit(ch[w].state \in Waited) + Bit(ch[w].posted) + Bit(ch[w].hand)
          /\ ch[w].refs = 0 => ch[w] = FreeWait
      BY <2>11 DEF Called
    <3>2. w \in l.waits[k] => ch[w].refs # 0
      BY <2>11, <3>1, FreeWaitIs DEF Entered
    <3> QED BY <2>13, <3>1, <3>2
  <2>18. Known(m, rec)
    BY <1>1, <2>10 DEF Known, Same, Working1, Jobs1
  <2>19. Heeded(m, rec, wt)
    <3>1. l.waits[k] \subseteq Wait /\ m.waits = l.waits
      BY <1>6, <2>6, Fields DEF Same
    <3>2. ASSUME NEW j \in Key
          PROVE  \/ \A w \in m.waits[j] : wt[w].posted
                 \/ /\ \A r \in ToSet(m.records[j]) : rec[r].state = "ended" =>
                         r \in ToSet(ledger.records[j]) /\ rec[r].state = "ended"
                    /\ \A a \in Slot : m.timers[j][a] # "none" => ledger.timers[j][a] # "none"
      <4>1. CASE j = k
        BY <2>11, <2>13, <3>1, <4>1
      <4>2. CASE j # k
        BY <1>7, <2>4, <2>6, <2>10, <4>2 DEF Same
      <4> QED BY <4>1, <4>2
    <3>3. ASSUME NEW w \in Wait, wt[w].state = "parked", ~wt[w].posted
          PROVE  /\ wait[w].state = "parked" /\ ~wait[w].posted /\ (wt[w].any => wait[w].any)
                 /\ wait[w].covers \subseteq wt[w].covers
      <4>1. w \notin l.waits[k]
        BY <2>11, <2>13, <3>1, <3>3
      <4> QED BY <2>11, <2>13, <3>3, <4>1
    <3>4. m.waits = ledger.waits
      BY <2>10 DEF Same
    <3> QED BY <1>1, <3>2, <3>3, <3>4, HeededStill
  <2>20. Books(m, rec, wt, td, open)
    BY <1>1, <2>8, <2>9, <2>11, <2>12, <2>14, <2>15, <2>16, <2>17, <2>18, <2>19 DEF Books
  <2> QED BY <2>3, <2>20
<1> QED BY <1>9, <1>10, <1>11

-----------------------------------------------------------------------------
(* What each action keeps: the waits.                                      *)

Counted(v) ==
  /\ v.refs = Bit(v.state \in Waited) + Bit(v.posted) + Bit(v.hand)
  /\ v.refs = 0 => v = FreeWait

\* Only one wait changes, and stays in the ledger or out of it.
LEMMA WaitKeeps ==
  ASSUME LedgerInv, NEW w \in Wait, NEW v \in WaitType, Counted(v),
         v.state \in Waited <=> wait[w].state \in Waited,
         v.posted <=> v.mail \/ \E t \in Loop : w \in ToSet(todo[t].hits),
         v.mail => \A t \in Loop : w \notin ToSet(todo[t].hits),
         v.state = "parked" /\ ~v.posted =>
           /\ wait[w].state = "parked" /\ ~wait[w].posted /\ (v.any => wait[w].any)
           /\ wait[w].covers \subseteq v.covers,
         wait' = [wait EXCEPT ![w] = v], UNCHANGED <<ledger, rec, todo, open>>
  PROVE  Books(ledger', rec', wait', todo', open')
<1>1. /\ ledger \in Struct /\ wait \in Waits /\ todo \in Todo /\ Heeded(ledger, rec, wait)
      /\ Entered(ledger, wait) /\ Called(wait) /\ Posted(wait, todo)
  BY Parts
<1> DEFINE wt == [wait EXCEPT ![w] = v]
<1>2. wt \in Waits /\ wt[w] = v /\ \A x \in Wait \ {w} : wt[x] = wait[x]
  BY <1>1 DEF Waits
<1> HIDE DEF wt
<1>3. Entered(ledger, wt)
  BY <1>1, <1>2 DEF Entered
<1>4. Called(wt)
  BY <1>1, <1>2 DEF Called, Counted
<1>5. Posted(wt, todo)
  BY <1>1, <1>2 DEF Posted
<1>6. Heeded(ledger, rec, wt)
  <2>1. \A x \in Wait : wt[x].state = "parked" /\ ~wt[x].posted =>
          /\ wait[x].state = "parked" /\ ~wait[x].posted /\ (wt[x].any => wait[x].any)
          /\ wait[x].covers \subseteq wt[x].covers
    BY <1>2
  <2> QED BY <1>1, <2>1, HeededStill
<1>7. Books(ledger, rec, wt, todo, open)
  BY <1>2, <1>3, <1>4, <1>5, <1>6, Parts DEF Books
<1> QED BY <1>7 DEF wt

LEMMA WaitAlarmKeeps ==
  ASSUME LedgerInv, NEW t \in Loop, NEW w \in Wait, WaitAlarm(t, w)
  PROVE  Books(ledger', rec', wait', todo', open')
<1>1. /\ wait \in Waits /\ wait[w] \in WaitType /\ Called(wait) /\ Posted(wait, todo)
  BY Parts, WaitFields
<1> DEFINE v == [wait[w] EXCEPT !.state = "looks", !.covers = {}]
<1>2. /\ wait' = [wait EXCEPT ![w] = v] /\ UNCHANGED <<ledger, rec, todo, open>>
      /\ wait[w].state = "parked"
  BY <1>1 DEF WaitAlarm, Waits, WaitType
<1>3. v \in WaitType
  <2>1. {} \in SUBSET Slot /\ "looks" \in {"free", "looks", "parked", "done", "left"}
    OBVIOUS
  <2> QED BY <1>1, <2>1, ZenonT(60) DEF WaitType
<1>4. /\ v.state = "looks" /\ v.posted = wait[w].posted /\ v.mail = wait[w].mail
      /\ v.hand = wait[w].hand /\ v.refs = wait[w].refs
  BY <1>1 DEF WaitType
<1> HIDE DEF v
<1>5. v.state \in Waited /\ wait[w].state \in Waited
  BY <1>2, <1>4 DEF Waited
<1>6. Counted(v)
  <2>1. Counted(wait[w])
    BY <1>1 DEF Called, Counted
  <2>2. wait[w].refs # 0
    BY <1>2, <2>1, FreeWaitIs DEF Counted
  <2>3. Bit(v.state \in Waited) = Bit(wait[w].state \in Waited)
    BY <1>5 DEF Bit
  <2> QED BY <1>4, <2>1, <2>2, <2>3 DEF Counted
<1>7. /\ v.posted <=> v.mail \/ \E u \in Loop : w \in ToSet(todo[u].hits)
      /\ v.mail => \A u \in Loop : w \notin ToSet(todo[u].hits)
  BY <1>1, <1>4 DEF Posted
<1> QED BY <1>2, <1>3, <1>4, <1>5, <1>6, <1>7, WaitKeeps

LEMMA OnWakeKeeps ==
  ASSUME LedgerInv, NEW t \in Loop, NEW w \in Wait, OnWake(t, w)
  PROVE  Books(ledger', rec', wait', todo', open')
<1>1. /\ wait \in Waits /\ wait[w] \in WaitType /\ Called(wait) /\ Posted(wait, todo)
      /\ wait[w].state \in {"free", "looks", "parked", "done", "left"}
  BY Parts, WaitFields
<1> DEFINE st == IF wait[w].state = "parked" THEN "looks" ELSE wait[w].state
           v == [wait[w] EXCEPT !.mail = FALSE, !.posted = FALSE, !.hand = TRUE,
                                !.state = st, !.covers = {}]
<1>2. /\ wait' = [wait EXCEPT ![w] = v] /\ UNCHANGED <<ledger, rec, todo, open>>
      /\ wait[w].mail /\ ~wait[w].hand
  BY <1>1 DEF OnWake, Waits, WaitType, Idle
<1>3. st \in {"free", "looks", "parked", "done", "left"} /\ st # "parked"
      /\ (st \in Waited <=> wait[w].state \in Waited)
  BY <1>1 DEF Waited
<1> HIDE DEF st
<1>4. v \in WaitType
  <2>1. {} \in SUBSET Slot /\ TRUE \in BOOLEAN /\ FALSE \in BOOLEAN
    OBVIOUS
  <2> QED BY <1>1, <1>3, <2>1, ZenonT(60) DEF WaitType
<1>5. v.state = st /\ ~v.posted /\ ~v.mail /\ v.hand /\ v.refs = wait[w].refs
  BY <1>1 DEF WaitType
<1> HIDE DEF v
<1>6. wait[w].posted /\ \A u \in Loop : w \notin ToSet(todo[u].hits)
  BY <1>1, <1>2 DEF Posted
<1>7. Counted(v)
  <2>1. Counted(wait[w])
    BY <1>1 DEF Called, Counted
  <2>2. wait[w].refs # 0
    BY <1>2, <2>1, FreeWaitIs DEF Counted
  <2>3. Bit(v.state \in Waited) = Bit(wait[w].state \in Waited)
    BY <1>3, <1>5 DEF Bit
  <2>4. /\ Bit(wait[w].posted) = 1 /\ Bit(wait[w].hand) = 0 /\ Bit(v.posted) = 0 /\ Bit(v.hand) = 1
    BY <1>2, <1>5, <1>6 DEF Bit
  <2>5. v.refs = Bit(v.state \in Waited) + Bit(v.posted) + Bit(v.hand)
    <3>1. wait[w].refs = Bit(wait[w].state \in Waited) + Bit(wait[w].posted) + Bit(wait[w].hand)
      BY <1>1 DEF Called
    <3> DEFINE a == Bit(wait[w].state \in Waited)
    <3>2. a \in Nat /\ wait[w].refs = a + 1 + 0
      BY <2>4, <3>1, Bits
    <3>3. Bit(v.state \in Waited) + Bit(v.posted) + Bit(v.hand) = a + 0 + 1
      BY <2>3, <2>4
    <3>4. v.refs = wait[w].refs
      BY <1>5
    <3> HIDE DEF a
    <3>5. a + 0 + 1 = a + 1 + 0
      BY <3>2
    <3> QED BY <3>2, <3>3, <3>4, <3>5, Zenon
  <2> QED BY <1>5, <2>2, <2>5 DEF Counted
<1> QED BY <1>2, <1>3, <1>4, <1>5, <1>6, <1>7, WaitKeeps

LEMMA PutWaitIs ==
  ASSUME NEW v \in WaitType, v.refs > 0
  PROVE  /\ PutWait(v) \in WaitType
         /\ v.refs = 1 => PutWait(v) = FreeWait
         /\ v.refs # 1 => /\ PutWait(v).refs = v.refs - 1 /\ PutWait(v).state = v.state
                          /\ PutWait(v).posted = v.posted /\ PutWait(v).mail = v.mail
                          /\ PutWait(v).hand = v.hand /\ PutWait(v).any = v.any
                          /\ PutWait(v).covers = v.covers
<1>1. CASE v.refs = 1
  BY <1>1, FreeWaitIs DEF PutWait
<1>2. CASE v.refs # 1
  <2>1. v.refs - 1 \in Nat
    BY <1>2 DEF WaitType
  <2>2. PutWait(v) = [v EXCEPT !.refs = v.refs - 1]
    BY <1>2 DEF PutWait, WaitType
  <2>3. [v EXCEPT !.refs = v.refs - 1] \in WaitType
    BY <2>1, ZenonT(60) DEF WaitType
  <2> QED BY <1>2, <2>2, <2>3 DEF WaitType
<1> QED BY <1>1, <1>2

\* One of those that hold a wait lets go of it.
LEMMA PutCounted ==
  ASSUME NEW v \in WaitType, v.refs = Bit(v.state \in Waited) + Bit(v.posted) + Bit(v.hand) + 1
  PROVE  LET p == PutWait(v)
         IN  /\ p \in WaitType /\ Counted(p)
             /\ p.state \in Waited <=> v.state \in Waited
             /\ p.posted <=> v.posted
             /\ p.mail => v.mail
             /\ v.posted => p.mail = v.mail
             /\ p.state = "parked" => p.state = v.state /\ p.any = v.any /\ p.covers = v.covers
<1> DEFINE a == Bit(v.state \in Waited)
           b == Bit(v.posted)
           c == Bit(v.hand)
           p == PutWait(v)
<1>1. a \in Nat /\ b \in Nat /\ c \in Nat /\ v.refs = a + b + c + 1
  BY Bits
<1>2. v.refs > 0
  <2> HIDE DEF a, b, c
  <2> QED BY <1>1
<1>3. /\ p \in WaitType
      /\ v.refs = 1 => p = FreeWait
      /\ v.refs # 1 => /\ p.refs = v.refs - 1 /\ p.state = v.state
                       /\ p.posted = v.posted /\ p.mail = v.mail
                       /\ p.hand = v.hand /\ p.any = v.any /\ p.covers = v.covers
  BY <1>2, PutWaitIs
<1> HIDE DEF p
<1>4. CASE v.refs = 1
  <2>1. a = 0 /\ b = 0
    <3> HIDE DEF a, b, c
    <3> QED BY <1>1, <1>4
  <2>2. v.state \notin Waited /\ ~v.posted
    BY <2>1 DEF Bit
  <2>3. p = FreeWait
    BY <1>3, <1>4
  <2>4. Bit(p.state \in Waited) = 0 /\ Bit(p.posted) = 0 /\ Bit(p.hand) = 0
    BY <2>3, FreeWaitIs DEF Bit
  <2>5. Counted(p)
    BY <2>3, <2>4, FreeWaitIs DEF Counted
  <2> QED BY <1>3, <2>2, <2>3, <2>5, FreeWaitIs DEF p
<1>5. CASE v.refs # 1
  <2>1. p.refs = a + b + c /\ p.refs # 0
    <3>1. p.refs = v.refs - 1
      BY <1>3, <1>5
    <3> HIDE DEF a, b, c
    <3> QED BY <1>1, <1>5, <3>1
  <2>2. Counted(p)
    BY <1>3, <1>5, <2>1 DEF Counted
  <2> QED BY <1>3, <1>5, <2>2 DEF p
<1> QED BY <1>4, <1>5

LEMMA WakePutKeeps ==
  ASSUME LedgerInv, NEW t \in Loop, NEW w \in Wait, WakePut(t, w)
  PROVE  Books(ledger', rec', wait', todo', open')
<1>1. /\ wait \in Waits /\ wait[w] \in WaitType /\ Called(wait) /\ Posted(wait, todo)
  BY Parts, WaitFields
<1> DEFINE v == [wait[w] EXCEPT !.hand = FALSE]
           p == PutWait(v)
<1>2. /\ wait' = [wait EXCEPT ![w] = p] /\ UNCHANGED <<ledger, rec, todo, open>> /\ wait[w].hand
  BY <1>1 DEF WakePut, Waits, WaitType
<1>3. v \in WaitType
  BY <1>1, ZenonT(60) DEF WaitType
<1>4. /\ v.state = wait[w].state /\ v.posted = wait[w].posted /\ v.mail = wait[w].mail
      /\ ~v.hand /\ v.refs = wait[w].refs /\ v.any = wait[w].any /\ v.covers = wait[w].covers
  BY <1>1 DEF WaitType
<1> HIDE DEF v
<1>5. v.refs = Bit(v.state \in Waited) + Bit(v.posted) + Bit(v.hand) + 1
  <2>1. wait[w].refs = Bit(wait[w].state \in Waited) + Bit(wait[w].posted) + Bit(wait[w].hand)
    BY <1>1 DEF Called
  <2>2. Bit(wait[w].hand) = 1 /\ Bit(v.hand) = 0
    BY <1>2, <1>4 DEF Bit
  <2> QED BY <1>4, <2>1, <2>2, Bits
<1>6. /\ p \in WaitType /\ Counted(p)
      /\ p.state \in Waited <=> v.state \in Waited
      /\ p.posted <=> v.posted
      /\ p.mail => v.mail
      /\ v.posted => p.mail = v.mail
      /\ p.state = "parked" => p.state = v.state /\ p.any = v.any /\ p.covers = v.covers
  BY <1>3, <1>5, PutCounted
<1> HIDE DEF p
<1>7. /\ v.posted <=> v.mail \/ \E u \in Loop : w \in ToSet(todo[u].hits)
      /\ v.mail => \A u \in Loop : w \notin ToSet(todo[u].hits)
  BY <1>1, <1>4 DEF Posted
<1>8. /\ p.posted <=> p.mail \/ \E u \in Loop : w \in ToSet(todo[u].hits)
      /\ p.mail => \A u \in Loop : w \notin ToSet(todo[u].hits)
  BY <1>6, <1>7
<1> QED BY <1>2, <1>4, <1>6, <1>8, WaitKeeps

LEMMA WakeNextKeeps ==
  ASSUME LedgerInv, NEW t \in Loop, WakeNext(t)
  PROVE  Books(ledger', rec', wait', todo', open')
<1>1. /\ wait \in Waits /\ todo \in Todo /\ ledger \in Struct /\ rec \in Records
      /\ Called(wait) /\ Posted(wait, todo) /\ Entered(ledger, wait)
      /\ Heeded(ledger, rec, wait) /\ Referred(ledger, rec, todo)
  BY Parts
<1> DEFINE h == todo[t].hits
           w == Head(h)
           v == [wait[w] EXCEPT !.mail = TRUE]
           wt == [wait EXCEPT ![w] = v]
           td == [todo EXCEPT ![t] = [todo[t] EXCEPT !.hits = Tail(h)]]
<1>2. h \in Lists(Wait) /\ h # <<>>
  BY <1>1 DEF WakeNext, Todo
<1>3. /\ w \in ToSet(h) /\ Tail(h) \in Lists(Wait) /\ ToSet(Tail(h)) = ToSet(h) \ {w}
      /\ ToSet(h) \subseteq Wait
  BY <1>2, OnList, TailList
<1>4. w \in Wait /\ wait[w] \in WaitType
  BY <1>1, <1>3, WaitFields
<1>5. wait' = wt /\ todo' = td /\ UNCHANGED <<ledger, rec, open>>
  BY <1>1, <1>4 DEF WakeNext, Waits, WaitType, Todo
<1> HIDE DEF w
<1>6. v \in WaitType
  BY <1>4, ZenonT(60) DEF WaitType
<1>7. /\ v.state = wait[w].state /\ v.posted = wait[w].posted /\ v.hand = wait[w].hand
      /\ v.mail /\ v.refs = wait[w].refs /\ v.any = wait[w].any /\ v.covers = wait[w].covers
  BY <1>4 DEF WaitType
<1> HIDE DEF v
<1>8. wt \in Waits /\ wt[w] = v /\ \A x \in Wait \ {w} : wt[x] = wait[x]
  BY <1>1, <1>4, <1>6 DEF Waits
<1>9. /\ td \in Todo /\ ToSet(td[t].hits) = ToSet(h) \ {w} /\ td[t].gone = todo[t].gone
      /\ \A u \in Loop \ {t} : td[u] = todo[u]
  <2>1. todo[t] \in [hits : Lists(Wait), gone : SUBSET Rec]
    BY <1>1 DEF Todo
  <2> DEFINE a == [todo[t] EXCEPT !.hits = Tail(h)]
  <2>2. a \in [hits : Lists(Wait), gone : SUBSET Rec] /\ a.hits = Tail(h) /\ a.gone = todo[t].gone
    BY <1>3, <2>1
  <2> HIDE DEF a
  <2> QED BY <1>1, <1>3, <2>2 DEF Todo, a
<1> HIDE DEF wt, td
<1>10. Referred(ledger, rec, td)
  <2>1. \A r : Drops(td, r) = Drops(todo, r)
    BY <1>9 DEF Drops
  <2> QED BY <1>1, <2>1 DEF Referred, Held
<1>11. wait[w].posted
  BY <1>1, <1>3, <1>4 DEF Posted
<1>12. Posted(wt, td)
  <2>1. \A u \in Loop : u # t => w \notin ToSet(todo[u].hits) /\ ToSet(td[u].hits) = ToSet(todo[u].hits)
    BY <1>1, <1>3, <1>9 DEF Posted
  <2>2. \A u \in Loop : w \notin ToSet(td[u].hits) /\ ToSet(td[u].hits) \subseteq ToSet(todo[u].hits)
    BY <1>9, <2>1
  <2>3. \A x \in Wait \ {w} : \A u \in Loop : x \in ToSet(td[u].hits) <=> x \in ToSet(todo[u].hits)
    BY <1>9, <2>1
  <2>4. \A u, a \in Loop : u # a => ToSet(td[u].hits) \cap ToSet(td[a].hits) = {}
    BY <1>1, <2>2 DEF Posted
  <2>5. ASSUME NEW x \in Wait
        PROVE  /\ wt[x].posted <=> wt[x].mail \/ \E u \in Loop : x \in ToSet(td[u].hits)
               /\ wt[x].mail => \A u \in Loop : x \notin ToSet(td[u].hits)
    <3>1. CASE x = w
      BY <1>7, <1>8, <1>11, <2>2, <3>1
    <3>2. CASE x # w
      BY <1>1, <1>8, <2>3, <3>2 DEF Posted
    <3> QED BY <3>1, <3>2
  <2> QED BY <2>4, <2>5 DEF Posted
<1>13. Entered(ledger, wt)
  BY <1>1, <1>7, <1>8 DEF Entered
<1>14. Called(wt)
  <2> SUFFICES ASSUME NEW x \in Wait PROVE Counted(wt[x])
    BY DEF Called, Counted
  <2>1. Counted(wait[x])
    BY <1>1 DEF Called, Counted
  <2>2. CASE x # w
    BY <1>8, <2>1, <2>2
  <2>3. CASE x = w
    <3>1. wait[w].refs # 0
      BY <1>11, <2>1, <2>3, FreeWaitIs DEF Counted
    <3> QED BY <1>7, <1>8, <2>1, <2>3, <3>1 DEF Counted
  <2> QED BY <2>2, <2>3
<1>15. Heeded(ledger, rec, wt)
  <2>1. \A x \in Wait : wt[x].state = "parked" /\ ~wt[x].posted =>
          /\ wait[x].state = "parked" /\ ~wait[x].posted /\ (wt[x].any => wait[x].any)
          /\ wait[x].covers \subseteq wt[x].covers
    BY <1>7, <1>8
  <2> QED BY <1>1, <2>1, HeededStill
<1>16. Books(ledger, rec, wt, td, open)
  BY <1>8, <1>9, <1>10, <1>12, <1>13, <1>14, <1>15, Parts DEF Books
<1> QED BY <1>5, <1>16

\* A call's wait enters or leaves the owner k's.
WaitsOf(l, k, S) == [l EXCEPT !.waits[k] = S, !.n_waits[k] = Cardinality(S)]
Rewaited(m, l, k, S) ==
  /\ Shape(m) /\ m \in Struct /\ Tasks(m) = Tasks(l) /\ m.records = l.records
  /\ m.ended = l.ended /\ m.running = l.running /\ m.timers = l.timers
  /\ m.owners = l.owners
  /\ \A j \in Key : m.waits[j] = IF j = k THEN S ELSE l.waits[j]
  /\ InUse(l, {k}) => InUse(m, {k})

LEMMA WaitsChanged ==
  ASSUME NEW l, Shape(l), NEW k \in Key, k \in l.owners, NEW S \in SUBSET Wait,
         \A j \in Key \ {k} : l.waits[j] \cap S = {},
         Cardinality(S) <= LEDGER_WAITS
  PROVE  Rewaited(WaitsOf(l, k, S), l, k, S)
<1>1. l \in Struct /\ Listed(l)
  BY DEF Shape
<1>2. l.waits \in [Key -> SUBSET Wait] /\ l.n_waits \in [Key -> Int]
  BY <1>1, Fields
<1> DEFINE ws == [l.waits EXCEPT ![k] = S]
           ns == [l.n_waits EXCEPT ![k] = Cardinality(S)]
           m == WaitsOf(l, k, S)
<1>3. Cardinality(S) \in Nat
  BY Given, Sub
<1>4. /\ ws \in [Key -> SUBSET Wait] /\ ns \in [Key -> Int]
      /\ \A j \in Key : ws[j] = IF j = k THEN S ELSE l.waits[j]
      /\ \A j \in Key : ns[j] = IF j = k THEN Cardinality(S) ELSE l.n_waits[j]
  BY <1>2, <1>3
<1>5. m = [l EXCEPT !.waits = ws, !.n_waits = ns]
  BY <1>1 DEF Struct, WaitsOf
<1> HIDE DEF m, ws, ns
<1>6. m \in Struct
  BY <1>1, <1>4, <1>5, ZenonT(60) DEF Struct
<1>7. /\ m.waits = ws /\ m.n_waits = ns /\ m.records = l.records /\ m.ended = l.ended
      /\ m.n = l.n /\ m.running = l.running /\ m.timers = l.timers
      /\ m.owners = l.owners /\ m.n_anonymous = l.n_anonymous
  BY <1>1, <1>5 DEF Struct
<1>8. Tasks(m) = Tasks(l) /\ Size(m) = Size(l)
  BY <1>7 DEF Tasks, Size
<1>9. \A j \in Key \ {k} : Used(m, j) <=> Used(l, j)
  BY <1>4, <1>7 DEF Used
<1>10. Listed(m)
  <2>1. \A i, j \in Key : i # j => /\ ToSet(m.records[i]) \cap ToSet(m.records[j]) = {}
                                   /\ m.waits[i] \cap m.waits[j] = {}
    <3>1. \A i, j \in Key : i # j => /\ ToSet(l.records[i]) \cap ToSet(l.records[j]) = {}
                                     /\ l.waits[i] \cap l.waits[j] = {}
      BY <1>1 DEF Listed
    <3>2. \A j \in Key : m.waits[j] = IF j = k THEN S ELSE l.waits[j]
      BY <1>4, <1>7
    <3> QED BY <1>7, <3>1, <3>2
  <2>2. ASSUME NEW j \in Key
        PROVE  /\ m.n[j] = Len(m.records[j]) /\ m.n_waits[j] = Cardinality(m.waits[j])
               /\ m.n_waits[j] <= LEDGER_WAITS /\ (Used(m, j) => j \in m.owners)
    BY <1>1, <1>4, <1>7, <1>9 DEF Listed
  <2>3. /\ ToSet(m.ended) \subseteq Tasks(m)
        /\ m.n_anonymous = Cardinality(m.owners \cap Anonymous)
        /\ Cardinality(m.owners) <= LEDGER_OWNERS
        /\ Cardinality(m.owners \cap Anonymous) <= LEDGER_OWNERS \div 2
        /\ Size(m) <= LEDGER_MAX
    BY <1>1, <1>7, <1>8 DEF Listed
  <2> QED BY <2>1, <2>2, <2>3 DEF Listed
<1>11. InUse(l, {k}) => InUse(m, {k})
  BY <1>1, <1>7, <1>9, Fields DEF InUse
<1> QED BY <1>4, <1>6, <1>7, <1>8, <1>10, <1>11 DEF Shape, m, Rewaited

LEMMA WaitMoves ==
  ASSUME LedgerInv, NEW m, Shape(m), InUse(m, {}), m.records = ledger.records,
         m.ended = ledger.ended, m.running = ledger.running,
         \A k \in Key, i \in Slot : m.timers[k][i] # "none" => ledger.timers[k][i] # "none",
         NEW w \in Wait, NEW v \in WaitType, Counted(v), v.state # "parked",
         v.state \in Waited <=> \E k \in Key : w \in m.waits[k],
         \A k \in Key : m.waits[k] \ {w} = ledger.waits[k] \ {w},
         v.posted <=> v.mail \/ \E t \in Loop : w \in ToSet(todo[t].hits),
         v.mail => \A t \in Loop : w \notin ToSet(todo[t].hits),
         ledger' = m, wait' = [wait EXCEPT ![w] = v], UNCHANGED <<rec, todo, open>>
  PROVE  Books(ledger', rec', wait', todo', open')
<1>1. /\ ledger \in Struct /\ wait \in Waits /\ todo \in Todo /\ Heeded(ledger, rec, wait)
      /\ Entered(ledger, wait) /\ Called(wait) /\ Posted(wait, todo)
      /\ Known(ledger, rec) /\ Referred(ledger, rec, todo)
  BY Parts
<1> DEFINE wt == [wait EXCEPT ![w] = v]
<1>2. wt \in Waits /\ wt[w] = v /\ \A x \in Wait \ {w} : wt[x] = wait[x]
  BY <1>1 DEF Waits
<1> HIDE DEF wt
<1>3. Tasks(m) = Tasks(ledger) /\ m \in Struct
  BY DEF Tasks, Shape
<1>4. Entered(m, wt)
  <2> SUFFICES ASSUME NEW x \in Wait
               PROVE  wt[x].state \in Waited <=> \E k \in Key : x \in m.waits[k]
    BY DEF Entered
  <2>1. CASE x = w
    BY <1>2, <2>1
  <2>2. CASE x # w
    <3>1. \A k \in Key : x \in m.waits[k] <=> x \in ledger.waits[k]
      BY <2>2
    <3> QED BY <1>1, <1>2, <2>2, <3>1 DEF Entered
  <2> QED BY <2>1, <2>2
<1>5. Called(wt)
  BY <1>1, <1>2 DEF Called, Counted
<1>6. Posted(wt, todo)
  BY <1>1, <1>2 DEF Posted
<1>7. Heeded(m, rec, wt)
  <2> SUFFICES ASSUME NEW k \in Key, NEW x \in m.waits[k], wt[x].state = "parked", ~wt[x].posted
               PROVE  /\ wt[x].any => \A r \in ToSet(m.records[k]) : rec[r].state # "ended"
                      /\ \A i \in Slot : m.timers[k][i] # "none" => i \in wt[x].covers
    BY DEF Heeded
  <2>1. x \in Wait /\ x # w
    BY <1>2, <1>3, Fields
  <2>2. x \in ledger.waits[k] /\ wt[x] = wait[x]
    BY <1>2, <2>1
  <2> QED BY <1>1, <2>2 DEF Heeded
<1>8. Known(m, rec)
  BY <1>1, <1>3 DEF Known, Working1, Jobs1
<1>9. Referred(m, rec, todo)
  BY <1>1, <1>3 DEF Referred, Held
<1>10. Books(m, rec, wt, todo, open)
  BY <1>2, <1>4, <1>5, <1>6, <1>7, <1>8, <1>9, Parts DEF Books
<1> QED BY <1>10 DEF wt

LEMMA WaitEnterKeeps ==
  ASSUME LedgerInv, NEW t \in Loop, NEW k \in Key, NEW w \in Wait, WaitEnter(t, k, w)
  PROVE  Books(ledger', rec', wait', todo', open')
<1>1. /\ ledger \in Struct /\ wait \in Waits /\ Shape(ledger) /\ InUse(ledger, {})
      /\ Entered(ledger, wait) /\ Posted(wait, todo)
  BY Parts
<1> DEFINE v(any) == [FreeWait EXCEPT !.state = "looks", !.loop = t, !.any = any, !.refs = 1]
<1>2. /\ wait[w] = FreeWait /\ UNCHANGED <<rec, todo, open>>
      /\ \E x \in SUBSET Fired(ledger), any \in BOOLEAN :
           LET g == OwnerGet(ledger, k, x)
           IN  IF k \notin g.owners \/ g.n_waits[k] >= LEDGER_WAITS
               THEN ledger' = g /\ UNCHANGED wait
               ELSE /\ ledger' = [g EXCEPT !.waits[k] = @ \cup {w}, !.n_waits[k] = @ + 1]
                    /\ wait' = [wait EXCEPT ![w] = v(any)]
  BY DEF WaitEnter
<1>3. PICK x \in SUBSET Fired(ledger), any \in BOOLEAN :
        LET g == OwnerGet(ledger, k, x)
        IN  IF k \notin g.owners \/ g.n_waits[k] >= LEDGER_WAITS
            THEN ledger' = g /\ UNCHANGED wait
            ELSE /\ ledger' = [g EXCEPT !.waits[k] = @ \cup {w}, !.n_waits[k] = @ + 1]
                 /\ wait' = [wait EXCEPT ![w] = v(any)]
  BY <1>2
<1> DEFINE g == OwnerGet(ledger, k, x)
<1>4. IF k \notin g.owners \/ g.n_waits[k] >= LEDGER_WAITS
      THEN ledger' = g /\ UNCHANGED wait
      ELSE /\ ledger' = [g EXCEPT !.waits[k] = @ \cup {w}, !.n_waits[k] = @ + 1]
           /\ wait' = [wait EXCEPT ![w] = v(any)]
  BY <1>3
<1>5. /\ Shape(g) /\ Same(g, ledger) /\ InUse(g, {k})
      /\ \A j \in Key, a \in Slot : g.timers[j][a] \in {ledger.timers[j][a], "none"}
  BY <1>1, OwnerGetIs
<1> HIDE DEF g
<1>6. \A j \in Key, a \in Slot : g.timers[j][a] # "none" => ledger.timers[j][a] # "none"
  BY <1>5
<1>7. g \in Struct /\ Listed(g)
  BY <1>5 DEF Shape
<1>8. CASE k \notin g.owners \/ g.n_waits[k] >= LEDGER_WAITS
  <2>1. InUse(g, {})
    <3>1. CASE k \notin g.owners
      BY <1>5, <3>1 DEF InUse
    <3>2. CASE g.n_waits[k] >= LEDGER_WAITS
      <4>1. Cardinality(g.waits[k]) # 0
        BY <1>7, <3>2, Given DEF Listed
      <4>2. g.waits[k] # {}
        BY <1>7, <4>1, InTable
      <4>3. Used(g, k)
        BY <4>2 DEF Used
      <4> QED BY <1>5, <4>3 DEF InUse
    <3> QED BY <1>8, <3>1, <3>2
  <2> QED BY <1>2, <1>4, <1>5, <1>6, <1>8, <2>1, TimersKeep
<1>9. CASE ~(k \notin g.owners \/ g.n_waits[k] >= LEDGER_WAITS)
  <2> DEFINE S == g.waits[k] \cup {w}
             m == WaitsOf(g, k, S)
             u == [FreeWait EXCEPT !.state = "looks", !.loop = t, !.any = any, !.refs = 1]
  <2>1. \A j \in Key : w \notin g.waits[j]
    BY <1>1, <1>2, <1>5, FreeWaitIs DEF Entered, Same
  <2>2. /\ g.waits[k] \in SUBSET Wait /\ IsFiniteSet(g.waits[k]) /\ g.n_waits[k] \in Int
        /\ g.n_waits[k] = Cardinality(g.waits[k]) /\ Cardinality(g.waits[k]) \in Nat
    BY <1>7, InTable, Fields DEF Listed
  <2>3. Cardinality(S) = g.n_waits[k] + 1 /\ S \in SUBSET Wait
    BY <2>1, <2>2, FS_AddElement
  <2>4. Cardinality(S) <= LEDGER_WAITS /\ k \in g.owners
    BY <1>9, <2>2, <2>3, Given
  <2>5. \A j \in Key \ {k} : g.waits[j] \cap S = {}
    BY <1>7, <2>1 DEF Listed
  <2>6. ledger' = m /\ wait' = [wait EXCEPT ![w] = u]
    <3>1. ledger' = [g EXCEPT !.waits[k] = g.waits[k] \cup {w}, !.n_waits[k] = g.n_waits[k] + 1]
      BY <1>4, <1>7, <1>9 DEF Struct
    <3> QED BY <1>4, <1>9, <2>3, <3>1 DEF WaitsOf
  <2> HIDE DEF S
  <2>7. /\ Shape(m) /\ m.records = g.records /\ m.ended = g.ended /\ m.running = g.running
        /\ m.timers = g.timers /\ m.owners = g.owners
        /\ \A j \in Key : m.waits[j] = IF j = k THEN S ELSE g.waits[j]
        /\ InUse(m, {k})
    <3>1. Rewaited(m, g, k, S)
      BY <1>5, <2>3, <2>4, <2>5, WaitsChanged
    <3> QED BY <1>5, <3>1 DEF Rewaited
  <2> HIDE DEF m
  <2>8. InUse(m, {}) /\ w \in m.waits[k]
    <3>1. w \in m.waits[k]
      BY <2>7 DEF S
    <3>2. Used(m, k)
      BY <3>1 DEF Used
    <3> QED BY <2>7, <3>1, <3>2 DEF InUse
  <2>9. /\ u \in WaitType /\ u.state = "looks" /\ u.refs = 1 /\ ~u.posted /\ ~u.mail /\ ~u.hand
    BY DEF FreeWait, WaitType
  <2> HIDE DEF u
  <2>10. Counted(u) /\ u.state \in Waited
    <3>1. u.state \in Waited
      BY <2>9 DEF Waited
    <3>2. Bit(u.state \in Waited) = 1 /\ Bit(u.posted) = 0 /\ Bit(u.hand) = 0
      BY <2>9, <3>1 DEF Bit
    <3> QED BY <2>9, <3>1, <3>2 DEF Counted
  <2>11. \A j \in Key : m.waits[j] \ {w} = ledger.waits[j] \ {w}
    BY <1>5, <2>7 DEF S, Same
  <2>12. \A a \in Loop : w \notin ToSet(todo[a].hits)
    BY <1>1, <1>2, FreeWaitIs DEF Posted
  <2>13. /\ m.records = ledger.records /\ m.ended = ledger.ended /\ m.running = ledger.running
         /\ \A j \in Key, i \in Slot : m.timers[j][i] # "none" => ledger.timers[j][i] # "none"
    BY <1>5, <1>6, <2>7 DEF Same
  <2>14. /\ u.state \in Waited <=> \E j \in Key : w \in m.waits[j]
         /\ u.posted <=> u.mail \/ \E a \in Loop : w \in ToSet(todo[a].hits)
         /\ u.mail => \A a \in Loop : w \notin ToSet(todo[a].hits)
         /\ u.state # "parked" /\ u \in WaitType
    BY <2>8, <2>9, <2>10, <2>12
  <2>15. Shape(m) /\ UNCHANGED <<rec, todo, open>>
    BY <1>2, <2>7
  <2> QED BY <2>6, <2>8, <2>10, <2>11, <2>13, <2>14, <2>15, WaitMoves
<1> QED BY <1>8, <1>9

LEMMA WaitsForIs ==
  ASSUME LedgerInv, NEW w \in Wait, wait[w].state \in Waited
  PROVE  /\ WaitsFor(w) \in Key /\ w \in ledger.waits[WaitsFor(w)]
         /\ \A j \in Key : w \in ledger.waits[j] => j = WaitsFor(w)
<1>1. Entered(ledger, wait) /\ Listed(ledger)
  BY Parts
<1>2. \E k \in Key : w \in ledger.waits[k]
  BY <1>1 DEF Entered
<1>3. WaitsFor(w) \in Key /\ w \in ledger.waits[WaitsFor(w)]
  BY <1>2 DEF WaitsFor
<1> QED BY <1>1, <1>3 DEF Listed

LEMMA WaitLeaveKeeps ==
  ASSUME LedgerInv, NEW t \in Loop, NEW w \in Wait, WaitLeave(t, w)
  PROVE  Books(ledger', rec', wait', todo', open')
<1>1. /\ ledger \in Struct /\ wait \in Waits /\ Shape(ledger) /\ Listed(ledger) /\ InUse(ledger, {})
      /\ Called(wait) /\ Posted(wait, todo) /\ wait[w] \in WaitType
  BY Parts, WaitFields
<1> DEFINE k == WaitsFor(w)
           S == ledger.waits[k] \ {w}
           l == WaitsOf(ledger, k, S)
           m == Gc(l, {k})
           v == [wait[w] EXCEPT !.state = "left", !.any = FALSE, !.covers = {}]
           p == PutWait(v)
<1>2. /\ wait[w].state \in Waited /\ UNCHANGED <<rec, todo, open>>
      /\ wait' = [wait EXCEPT ![w] = p]
      /\ ledger' = Gc([ledger EXCEPT !.waits[k] = @ \ {w}, !.n_waits[k] = @ - 1], {k})
  BY <1>1 DEF WaitLeave, Waited, Waits, WaitType
<1>3. k \in Key /\ w \in ledger.waits[k] /\ \A j \in Key : w \in ledger.waits[j] => j = k
  BY <1>2, WaitsForIs
<1> HIDE DEF k
<1>4. /\ ledger.waits[k] \in SUBSET Wait /\ IsFiniteSet(ledger.waits[k])
      /\ ledger.n_waits[k] = Cardinality(ledger.waits[k]) /\ Cardinality(ledger.waits[k]) \in Nat
      /\ ledger.n_waits[k] <= LEDGER_WAITS
  BY <1>1, <1>3, InTable, Fields DEF Listed
<1>5. Cardinality(S) = IF w \in ledger.waits[k] THEN Cardinality(ledger.waits[k]) - 1
                       ELSE Cardinality(ledger.waits[k])
  BY <1>4, FS_RemoveElement, Zenon
<1>6. Cardinality(S) = ledger.n_waits[k] - 1 /\ Cardinality(S) <= LEDGER_WAITS
  BY <1>3, <1>4, <1>5, Given
<1>7. S \in SUBSET Wait /\ k \in ledger.owners /\ \A j \in Key \ {k} : ledger.waits[j] \cap S = {}
  BY <1>1, <1>3, <1>4 DEF Listed, Used
<1>8. ledger' = m
  <2>1. [ledger EXCEPT !.waits[k] = @ \ {w}, !.n_waits[k] = @ - 1] = l
    BY <1>1, <1>6 DEF Struct, WaitsOf
  <2> QED BY <1>2, <2>1
<1> HIDE DEF S
<1>9. /\ Shape(l) /\ l.records = ledger.records /\ l.ended = ledger.ended
      /\ l.running = ledger.running /\ l.timers = ledger.timers /\ l.owners = ledger.owners
      /\ \A j \in Key : l.waits[j] = IF j = k THEN S ELSE ledger.waits[j]
      /\ InUse(ledger, {k}) => InUse(l, {k})
  <2>1. Rewaited(l, ledger, k, S)
    BY <1>1, <1>3, <1>6, <1>7, WaitsChanged
  <2> QED BY <2>1 DEF Rewaited
<1> HIDE DEF l
<1>10. /\ Shape(m) /\ Same(m, l) /\ m.timers = l.timers /\ (InUse(l, {k} \cup {}) => InUse(m, {}))
  BY <1>3, <1>9, GcShape
<1> HIDE DEF m
<1>11. InUse(m, {})
  <2>1. InUse(ledger, {k})
    BY <1>1 DEF InUse
  <2> QED BY <1>9, <1>10, <2>1
<1>12. /\ m.records = ledger.records /\ m.ended = ledger.ended /\ m.running = ledger.running
       /\ \A j \in Key, i \in Slot : m.timers[j][i] # "none" => ledger.timers[j][i] # "none"
       /\ \A j \in Key : m.waits[j] = IF j = k THEN S ELSE ledger.waits[j]
  BY <1>9, <1>10 DEF Same
<1>13. /\ \A j \in Key : m.waits[j] \ {w} = ledger.waits[j] \ {w}
       /\ \A j \in Key : w \notin m.waits[j]
  BY <1>3, <1>12 DEF S
<1>14. v \in WaitType
  <2>1. {} \in SUBSET Slot /\ FALSE \in BOOLEAN
        /\ "left" \in {"free", "looks", "parked", "done", "left"}
    OBVIOUS
  <2> QED BY <1>1, <2>1, ZenonT(60) DEF WaitType
<1>15. /\ v.state = "left" /\ v.posted = wait[w].posted /\ v.mail = wait[w].mail
       /\ v.hand = wait[w].hand /\ v.refs = wait[w].refs
  BY <1>1 DEF WaitType
<1> HIDE DEF v
<1>16. v.state \notin Waited
  BY <1>15 DEF Waited
<1>17. v.refs = Bit(v.state \in Waited) + Bit(v.posted) + Bit(v.hand) + 1
  <2>1. wait[w].refs = Bit(wait[w].state \in Waited) + Bit(wait[w].posted) + Bit(wait[w].hand)
    BY <1>1 DEF Called
  <2>2. Bit(wait[w].state \in Waited) = 1 /\ Bit(v.state \in Waited) = 0
    BY <1>2, <1>16 DEF Bit
  <2> QED BY <1>15, <2>1, <2>2, Bits
<1>18. /\ p \in WaitType /\ Counted(p)
       /\ p.state \in Waited <=> v.state \in Waited
       /\ p.posted <=> v.posted
       /\ p.mail => v.mail
       /\ v.posted => p.mail = v.mail
  BY <1>14, <1>17, PutCounted
<1> HIDE DEF p
<1>19. p.state \notin Waited /\ p.state # "parked"
  BY <1>16, <1>18 DEF Waited
<1>20. /\ v.posted <=> v.mail \/ \E u \in Loop : w \in ToSet(todo[u].hits)
       /\ v.mail => \A u \in Loop : w \notin ToSet(todo[u].hits)
  BY <1>1, <1>15 DEF Posted
<1>21. /\ p.posted <=> p.mail \/ \E u \in Loop : w \in ToSet(todo[u].hits)
       /\ p.mail => \A u \in Loop : w \notin ToSet(todo[u].hits)
  BY <1>18, <1>20
<1> QED BY <1>2, <1>8, <1>10, <1>11, <1>12, <1>13, <1>18, <1>19, <1>21, WaitMoves, ZenonT(40)

LEMMA WaitCheckKeeps ==
  ASSUME LedgerInv, NEW t \in Loop, NEW w \in Wait, WaitCheck(t, w)
  PROVE  Books(ledger', rec', wait', todo', open')
<1>1. /\ rec \in Records /\ todo \in Todo /\ ledger \in Struct /\ wait \in Waits /\ open \in BOOLEAN
      /\ Shape(ledger) /\ Listed(ledger) /\ InUse(ledger, {}) /\ Known(ledger, rec) /\ Marked(rec)
      /\ Referred(ledger, rec, todo) /\ Heeded(ledger, rec, wait) /\ Entered(ledger, wait)
      /\ Called(wait) /\ Posted(wait, todo) /\ wait[w] \in WaitType
  BY Parts, WaitFields
<1> DEFINE k == WaitsFor(w)
           fired == {i \in Slot : ledger.timers[k][i] = "fired"}
           parks(told) == told = {} /\ fired = {}
           cv(told) == {i \in Slot : parks(told) /\ ledger.timers[k][i] = "set"}
           st(told) == IF parks(told) THEN "parked" ELSE "done"
           v(told) == [wait[w] EXCEPT !.state = st(told), !.covers = cv(told)]
           q(told) == [r \in Rec |-> IF r \notin told THEN rec[r]
                                     ELSE [rec[r] EXCEPT !.state = "told", !.refs = @ + 1]]
<1>2. PICK told \in Tellings(w) :
        /\ ledger' = Expired(ledger, {k} \X fired)
        /\ rec' = q(told)
        /\ todo' = [todo EXCEPT ![t].gone = told]
        /\ wait' = [wait EXCEPT ![w] = v(told)]
  <2>1. PICK told \in Tellings(w) :
          /\ ledger' = Expired(ledger, {k} \X fired)
          /\ rec' = q(told)
          /\ todo' = [todo EXCEPT ![t].gone = told]
          /\ wait' = [wait EXCEPT ![w].state = st(told), ![w].covers = cv(told)]
    BY DEF WaitCheck
  <2>2. wait' = [wait EXCEPT ![w] = v(told)]
    BY <1>1, <2>1 DEF Waits, WaitType
  <2> QED BY <2>1, <2>2
<1>3. Idle(t) /\ wait[w].state = "looks" /\ open' = open
  BY DEF WaitCheck
<1>4. k \in Key /\ w \in ledger.waits[k] /\ \A j \in Key : w \in ledger.waits[j] => j = k
  BY <1>3, WaitsForIs DEF Waited
<1>5. /\ told \subseteq ToSet(ledger.records[k]) /\ \A r \in told : rec[r].state \in Ended
      /\ wait[w].any => told = {r \in ToSet(ledger.records[k]) : rec[r].state = "ended"}
  BY <1>2 DEF Tellings, Untold, Ended
<1> HIDE DEF k
<1>6. told \subseteq Tasks(ledger) /\ told \subseteq Rec
  BY <1>1, <1>4, <1>5, InTable
<1> DEFINE x == {k} \X fired
           m == Expired(ledger, x)
           p == q(told)
           u == v(told)
           wt == [wait EXCEPT ![w] = u]
           td == [todo EXCEPT ![t] = [hits |-> <<>>, gone |-> told]]
<1>7. /\ Shape(m) /\ m \in Struct /\ Same(m, ledger) /\ m.owners = ledger.owners
      /\ \A j \in Key, i \in Slot :
           m.timers[j][i] = IF <<j, i>> \in x THEN "none" ELSE ledger.timers[j][i]
  BY <1>1, ExpiredIs, ExpiredShape
<1>8. todo[t] = Nothing /\ todo[t].gone = {} /\ todo[t].hits = <<>>
  BY <1>1, <1>3, IdleIs
<1>9. ledger' = m /\ rec' = p /\ wait' = wt /\ todo' = td
  <2>1. [todo[t] EXCEPT !.gone = told] = [hits |-> <<>>, gone |-> told]
    BY <1>8 DEF Nothing
  <2>2. todo' = [todo EXCEPT ![t] = [todo[t] EXCEPT !.gone = told]]
    BY <1>2
  <2> QED BY <1>2, <2>1, <2>2
<1> HIDE DEF m
<1>10. Tasks(m) = Tasks(ledger)
  BY <1>7, SameTasks
<1>11. InUse(m, {})
  <2>1. Used(m, k)
    BY <1>4, <1>7 DEF Used, Same
  <2>2. \A j \in Key \ {k}, i \in Slot : m.timers[j][i] = ledger.timers[j][i]
    BY <1>7
  <2>3. \A j \in Key \ {k} : Used(ledger, j) => Used(m, j)
    BY <1>7, <2>2 DEF Used, Same
  <2> QED BY <1>1, <1>7, <2>1, <2>3, Fields DEF InUse
<1>12. ASSUME NEW r \in Rec
       PROVE  /\ p[r] \in RecordType
              /\ r \notin told => p[r] = rec[r]
              /\ r \in told => /\ p[r].state = "told" /\ p[r].refs = rec[r].refs + 1
                               /\ p[r].shown = rec[r].shown /\ p[r].cancel = rec[r].cancel
                               /\ p[r].asked = rec[r].asked
  <2>1. rec[r] \in RecordType /\ rec[r].refs \in Nat
    BY <1>1, RecordFields
  <2> DEFINE a == [rec[r] EXCEPT !.state = "told", !.refs = rec[r].refs + 1]
  <2>2. p[r] = IF r \notin told THEN rec[r] ELSE a
    BY <2>1 DEF RecordType
  <2>3. a \in RecordType
    <3>1. rec[r].refs + 1 \in Nat /\ "told" \in {"free"} \cup Working \cup Ended
      BY <2>1 DEF Ended
    <3> QED BY <2>1, <3>1, ZenonT(60) DEF RecordType
  <2>4. /\ a.state = "told" /\ a.refs = rec[r].refs + 1
        /\ a.shown = rec[r].shown /\ a.cancel = rec[r].cancel /\ a.asked = rec[r].asked
    BY <2>1 DEF RecordType
  <2> HIDE DEF a, p
  <2> QED BY <2>1, <2>2, <2>3, <2>4
<1>13. p \in Records
  BY <1>12 DEF Records
<1> HIDE DEF p
<1>14. Known(ledger, p)
  <2>1. \A r \in Rec : IF r \in Tasks(ledger) THEN SameKind(p[r], rec[r])
                       ELSE p[r].state \notin Working
    <3>1. \A r \in Rec : SameKind(p[r], rec[r])
      <4> SUFFICES ASSUME NEW r \in Rec PROVE SameKind(p[r], rec[r])
        OBVIOUS
      <4>1. CASE r \notin told
        BY <1>12, <4>1 DEF SameKind
      <4>2. CASE r \in told
        <5>1. p[r].state = "told" /\ rec[r].state \in Ended
          BY <1>5, <1>12, <4>2
        <5> QED BY <5>1 DEF SameKind, Working, Ended
      <4> QED BY <4>1, <4>2
    <3> QED BY <1>1, <3>1 DEF Known, SameKind
  <2> QED BY <1>1, <1>13, <2>1, KnownAlike
<1>15. Known(m, p)
  BY <1>7, <1>10, <1>14 DEF Known, Same, Working1, Jobs1
<1>16. Marked(p)
  <2>1. "told" \notin Working
    BY DEF Working
  <2> QED BY <1>1, <1>12, <2>1 DEF Marked
<1>17. /\ td \in Todo
       /\ \A r : Cardinality(Drops(td, r)) = Cardinality(Drops(todo, r)) + Bit(r \in told)
  <2>1. <<>> \in Lists(Wait) /\ told \in SUBSET Rec
    BY <1>6, EmptyList
  <2> QED BY <1>1, <1>8, <2>1, DropsMore
<1>18. \A a \in Loop : td[a].hits = todo[a].hits
  BY <1>1, <1>8 DEF Todo
<1> HIDE DEF td
<1>19. Referred(m, p, td)
  <2> SUFFICES ASSUME NEW r \in Rec
               PROVE  p[r].refs = Held(m, p, td, r) /\ (p[r].refs = 0 => p[r] = FreeRec)
    BY DEF Referred
  <2>1. /\ rec[r].refs = Held(ledger, rec, todo, r) /\ (rec[r].refs = 0 => rec[r] = FreeRec)
        /\ rec[r].refs \in Nat /\ Cardinality(Drops(todo, r)) \in Nat
    BY <1>1, RecordFields, DropsIs DEF Referred
  <2>2. Cardinality(Drops(td, r)) = Cardinality(Drops(todo, r)) + Bit(r \in told)
    BY <1>17
  <2>3. CASE r \notin told
    <3>1. Bit(r \in told) = 0 /\ p[r] = rec[r]
      BY <1>12, <2>3 DEF Bit
    <3>2. Cardinality(Drops(td, r)) = Cardinality(Drops(todo, r))
      BY <2>1, <2>2, <3>1
    <3>3. Held(m, p, td, r) = Held(ledger, rec, todo, r)
      BY <1>10, <3>1, <3>2 DEF Held
    <3> QED BY <2>1, <3>1, <3>3
  <2>4. CASE r \in told
    <3>1. Bit(r \in told) = 1
      BY <2>4 DEF Bit
    <3>2. /\ Bit(p[r].state \in Working) = Bit(rec[r].state \in Working)
          /\ Bit(p[r].shown) = Bit(rec[r].shown) /\ Bit(p[r].cancel) = Bit(rec[r].cancel)
          /\ Bit(r \in Tasks(m)) = Bit(r \in Tasks(ledger))
      <4>1. p[r].state \notin Working /\ rec[r].state \notin Working
        <5>1. p[r].state = "told" /\ rec[r].state \in Ended
          BY <1>5, <1>12, <2>4
        <5> QED BY <5>1 DEF Working, Ended
      <4>2. Bit(p[r].state \in Working) = 0 /\ Bit(rec[r].state \in Working) = 0
        BY <4>1 DEF Bit
      <4> QED BY <1>10, <1>12, <2>4, <4>2
    <3> DEFINE a == Bit(r \in Tasks(ledger))
               b == Bit(rec[r].state \in Working)
               c == Bit(rec[r].shown)
               d == Bit(rec[r].cancel)
               e == Cardinality(Drops(todo, r))
    <3>3. a \in Nat /\ b \in Nat /\ c \in Nat /\ d \in Nat /\ e \in Nat
      BY <2>1, Bits
    <3>4. Held(m, p, td, r) = a + b + c + d + (e + 1) /\ Held(ledger, rec, todo, r) = a + b + c + d + e
      BY <2>2, <3>1, <3>2 DEF Held
    <3>5. p[r].refs = rec[r].refs + 1
      BY <1>12, <2>4
    <3> HIDE DEF a, b, c, d, e
    <3> QED BY <2>1, <3>3, <3>4, <3>5
  <2> QED BY <2>3, <2>4
<1> DEFINE s == st(told)
           c == cv(told)
<1>20. /\ s \in {"parked", "done"} /\ c \in SUBSET Slot
       /\ s = "parked" => told = {} /\ fired = {} /\ c = {i \in Slot : ledger.timers[k][i] = "set"}
  OBVIOUS
<1>21. u = [wait[w] EXCEPT !.state = s, !.covers = c]
  OBVIOUS
<1> HIDE DEF u, s, c, wt
<1>22. u \in WaitType
  <2>1. s \in {"free", "looks", "parked", "done", "left"}
    BY <1>20
  <2> QED BY <1>1, <1>20, <1>21, <2>1, ZenonT(60) DEF WaitType
<1>23. /\ u.state = s /\ u.covers = c /\ u.posted = wait[w].posted /\ u.mail = wait[w].mail
       /\ u.hand = wait[w].hand /\ u.refs = wait[w].refs /\ u.any = wait[w].any
  BY <1>1, <1>21 DEF WaitType
<1>24. wt \in Waits /\ wt[w] = u /\ \A y \in Wait \ {w} : wt[y] = wait[y]
  BY <1>1, <1>22 DEF Waits, wt
<1>25. u.state \in Waited /\ wait[w].state \in Waited
  BY <1>3, <1>20, <1>23 DEF Waited
<1>26. Entered(m, wt)
  BY <1>1, <1>7, <1>24, <1>25 DEF Entered, Same
<1>27. Called(wt)
  <2> SUFFICES ASSUME NEW y \in Wait PROVE Counted(wt[y])
    BY DEF Called, Counted
  <2>1. Counted(wait[y])
    BY <1>1 DEF Called, Counted
  <2>2. CASE y # w
    BY <1>24, <2>1, <2>2
  <2>3. CASE y = w
    <3>1. wait[w].refs # 0
      BY <1>25, <2>1, <2>3, FreeWaitIs DEF Counted
    <3>2. Bit(u.state \in Waited) = Bit(wait[w].state \in Waited)
      BY <1>25 DEF Bit
    <3> QED BY <1>23, <1>24, <2>1, <2>3, <3>1, <3>2 DEF Counted
  <2> QED BY <2>2, <2>3
<1>28. Posted(wt, td)
  <2>1. \A y \in Wait : wt[y].posted = wait[y].posted /\ wt[y].mail = wait[y].mail
    BY <1>23, <1>24
  <2> QED BY <1>1, <1>18, <2>1 DEF Posted
<1>29. Heeded(m, p, wt)
  <2> SUFFICES ASSUME NEW j \in Key, NEW y \in m.waits[j], wt[y].state = "parked", ~wt[y].posted
               PROVE  /\ wt[y].any => \A r \in ToSet(m.records[j]) : p[r].state # "ended"
                      /\ \A i \in Slot : m.timers[j][i] # "none" => i \in wt[y].covers
    BY DEF Heeded
  <2>1. y \in Wait /\ y \in ledger.waits[j] /\ m.records = ledger.records
        /\ ToSet(ledger.records[j]) \subseteq Rec
    BY <1>1, <1>7, Fields, InTable DEF Same
  <2>2. \A i \in Slot : m.timers[j][i] # "none" => ledger.timers[j][i] # "none"
    BY <1>7
  <2>3. CASE y = w
    <3>1. j = k /\ told = {} /\ fired = {} /\ c = {i \in Slot : ledger.timers[k][i] = "set"}
      BY <1>4, <1>20, <1>23, <1>24, <2>1, <2>3
    <3>2. wt[y].any => \A r \in ToSet(m.records[j]) : p[r].state # "ended"
      BY <1>5, <1>12, <1>23, <1>24, <2>1, <2>3, <3>1
    <3>3. \A i \in Slot : ledger.timers[k][i] \in {"none", "set", "fired"}
      BY <1>1, <1>4, Fields
    <3>4. \A i \in Slot : ledger.timers[k][i] # "fired"
      BY <3>1
    <3>5. \A i \in Slot : m.timers[j][i] # "none" => i \in c
      BY <2>2, <3>1, <3>3, <3>4
    <3> QED BY <1>23, <1>24, <2>3, <3>2, <3>5
  <2>4. CASE y # w
    <3>1. wt[y] = wait[y]
      BY <1>24, <2>1, <2>4
    <3>2. \A r \in ToSet(m.records[j]) : p[r].state = "ended" => rec[r].state = "ended"
      BY <1>12, <2>1
    <3> QED BY <1>1, <2>1, <2>2, <3>1, <3>2 DEF Heeded
  <2> QED BY <2>3, <2>4
<1>30. Books(m, p, wt, td, open)
  BY <1>1, <1>7, <1>11, <1>13, <1>15, <1>16, <1>17, <1>19, <1>24, <1>26, <1>27, <1>28, <1>29 DEF Books
<1> QED BY <1>3, <1>9, <1>30

-----------------------------------------------------------------------------
(* The invariant, and what follows from it.                                *)

LEMMA NextKeeps ==
  ASSUME LedgerInv, Next
  PROVE  Books(ledger', rec', wait', todo', open')
<1>1. ASSUME NEW t \in Loop, Unlocked(t)
      PROVE  Books(ledger', rec', wait', todo', open')
  BY <1>1, WakeNextKeeps, PutAllKeeps, WakePutKeeps DEF Unlocked
<1>2. ASSUME NEW t \in Loop, Handlers(t)
      PROVE  Books(ledger', rec', wait', todo', open')
  BY <1>2, OnWakeKeeps, WaitCheckKeeps, WaitAlarmKeeps, OnTaskCancelKeeps DEF Handlers
<1>3. ASSUME NEW t \in Loop, Calls(t)
      PROVE  Books(ledger', rec', wait', todo', open')
  <2>1. ASSUME NEW r \in Rec, NEW k \in Key, Open(t, k, r) \/ Restore(t, k, r)
        PROVE  Books(ledger', rec', wait', todo', open')
    BY <2>1, OpenKeeps, RestoreKeeps
  <2>2. ASSUME NEW r \in Rec,
               \/ End(t, r) \/ Find(t, r) \/ ReadRecord(t, r) \/ CancelRecord(t, r)
               \/ RemoveRecord(t, r)
        PROVE  Books(ledger', rec', wait', todo', open')
    BY <2>2, EndKeeps, FindKeeps, ReadRecordKeeps, CancelRecordKeeps, RemoveRecordKeeps
  <2>3. ASSUME NEW k \in Key,
               \/ List(t, k) \/ TimerSet(t, k) \/ \E i \in Slot : TimerCancel(t, k, i)
               \/ \E w \in Wait : WaitEnter(t, k, w)
        PROVE  Books(ledger', rec', wait', todo', open')
    BY <2>3, ListKeeps, TimerSetKeeps, TimerCancelKeeps, WaitEnterKeeps
  <2>4. ASSUME NEW w \in Wait, WaitLeave(t, w)
        PROVE  Books(ledger', rec', wait', todo', open')
    BY <2>4, WaitLeaveKeeps
  <2> QED BY <1>3, <2>1, <2>2, <2>3, <2>4 DEF Calls
<1>4. ASSUME NEW k \in Key, NEW i \in Slot, TimerFires(k, i)
      PROVE  Books(ledger', rec', wait', todo', open')
  BY <1>4, TimerFiresKeeps
<1>5. ASSUME Destroy
      PROVE  Books(ledger', rec', wait', todo', open')
  BY <1>5, DestroyKeeps
<1> QED BY <1>1, <1>2, <1>3, <1>4, <1>5 DEF Next

LEMMA StepKeeps == LedgerInv /\ [Next]_vars => LedgerInv'
<1>1. ASSUME LedgerInv, Next PROVE LedgerInv'
  BY <1>1, NextKeeps DEF LedgerInv
<1>2. ASSUME LedgerInv, UNCHANGED vars PROVE LedgerInv'
  <2>1. UNCHANGED <<ledger, rec, wait, todo, open>>
    BY <1>2 DEF vars
  <2>2. Books(ledger', rec', wait', todo', open')
    BY <1>2, <2>1 DEF LedgerInv
  <2> QED BY <2>2 DEF LedgerInv
<1> QED BY <1>1, <1>2

LEMMA RecordRefs ==
  ASSUME LedgerInv, NEW r \in Rec
  PROVE  /\ rec[r].refs = Held(ledger, rec, todo, r)
         /\ rec[r] = FreeRec <=> Held(ledger, rec, todo, r) = 0
BY Parts, FreeRecIs DEF Referred

LEMMA WaitRefs ==
  ASSUME LedgerInv, NEW w \in Wait
  PROVE  LET holders == Bit(wait[w].state \in Waited) + Bit(wait[w].posted) + Bit(wait[w].hand)
         IN  wait[w].refs = holders /\ (wait[w] = FreeWait <=> holders = 0)
BY Parts, FreeWaitIs DEF Called

LEMMA InvRefs == LedgerInv => RefsExact
BY RecordRefs, WaitRefs DEF RefsExact, Held, Drops, Waited

LEMMA InvChains == LedgerInv => ChainsApart
<1> SUFFICES ASSUME LedgerInv, NEW w \in Wait
             PROVE  Cardinality(Chains(w)) + Bit(wait[w].mail) = Bit(wait[w].posted)
  BY DEF ChainsApart
<1>1. Posted(wait, todo) /\ todo \in Todo /\ wait \in Waits
  BY Parts
<1>2. wait[w].mail \in BOOLEAN /\ wait[w].posted \in BOOLEAN
  BY <1>1, WaitFields
<1>3. \A c : c \in Chains(w) <=>
        \E t \in Loop : \E i \in DOMAIN todo[t].hits : todo[t].hits[i] = w /\ c = <<t, i>>
  BY DEF Chains
<1>4. \A t \in Loop : /\ w \in ToSet(todo[t].hits) <=>
                           \E i \in DOMAIN todo[t].hits : todo[t].hits[i] = w
                      /\ todo[t].hits \in Lists(Wait)
  BY <1>1 DEF Todo, ToSet
<1>5. CASE \A t \in Loop : w \notin ToSet(todo[t].hits)
  <2>1. Chains(w) = {}
    BY <1>3, <1>4, <1>5
  <2>2. Cardinality(Chains(w)) = 0
    BY <2>1, FS_EmptySet
  <2>3. wait[w].posted <=> wait[w].mail
    BY <1>1, <1>5 DEF Posted
  <2>4. Bit(wait[w].mail) = Bit(wait[w].posted) /\ Bit(wait[w].mail) \in Nat
    BY <1>2, <2>3 DEF Bit
  <2> QED BY <2>2, <2>4
<1>6. ASSUME NEW t \in Loop, w \in ToSet(todo[t].hits)
      PROVE  Cardinality(Chains(w)) + Bit(wait[w].mail) = Bit(wait[w].posted)
  <2>1. PICK i \in DOMAIN todo[t].hits : todo[t].hits[i] = w
    BY <1>4, <1>6
  <2>2. \A u \in Loop : w \in ToSet(todo[u].hits) => u = t
    BY <1>1, <1>6 DEF Posted
  <2>3. \A j \in DOMAIN todo[t].hits : todo[t].hits[j] = w => j = i
    BY <1>4, <2>1, OnList
  <2>4. Chains(w) = {<<t, i>>}
    BY <1>3, <1>4, <2>1, <2>2, <2>3
  <2>5. Cardinality(Chains(w)) = 1
    BY <2>4, FS_Singleton
  <2>6. ~wait[w].mail /\ wait[w].posted
    BY <1>1, <1>6 DEF Posted
  <2>7. Bit(wait[w].mail) = 0 /\ Bit(wait[w].posted) = 1
    BY <2>6 DEF Bit
  <2> QED BY <2>5, <2>7
<1> QED BY <1>5, <1>6

LEMMA InvHeeds == LedgerInv => NothingMissed
<1> SUFFICES ASSUME LedgerInv, NEW w \in Wait, wait[w].state = "parked", ~wait[w].posted
             PROVE  /\ wait[w].any => Untold(WaitsFor(w)) = {}
                    /\ \A i \in Slot : ledger.timers[WaitsFor(w)][i] # "none"
                                        => i \in wait[w].covers
  BY DEF NothingMissed
<1>1. WaitsFor(w) \in Key /\ w \in ledger.waits[WaitsFor(w)]
  BY WaitsForIs DEF Waited
<1>2. Heeded(ledger, rec, wait)
  BY Parts
<1> QED BY <1>1, <1>2 DEF Heeded, Untold

LEMMA InvOwners == LedgerInv => OwnersExact
<1> SUFFICES ASSUME LedgerInv PROVE OwnersExact
  OBVIOUS
<1>1. /\ ledger \in Struct /\ Listed(ledger) /\ InUse(ledger, {}) /\ Known(ledger, rec)
  BY Parts
<1>2. ASSUME NEW k \in Key
      PROVE  /\ ledger.n[k] = Len(ledger.records[k])
             /\ ledger.running[k] = Cardinality({r \in ToSet(ledger.records[k]) :
                                                  rec[r].state \in Working})
             /\ ledger.n_waits[k] = Cardinality(ledger.waits[k])
             /\ k \in ledger.owners <=>
                  \/ ledger.records[k] # <<>> \/ ledger.waits[k] # {}
                  \/ \E i \in Slot : ledger.timers[k][i] # "none"
  <2>1. k \in ledger.owners <=> Used(ledger, k)
    BY <1>1 DEF Listed, InUse
  <2> QED BY <1>1, <2>1 DEF Listed, Known, Working1, Used
<1>3. IsInjective(ledger.ended)
  BY <1>1 DEF Struct, Lists
<1> QED BY <1>1, <1>2, <1>3 DEF OwnersExact, Listed, Known

LEMMA InvLimits == LedgerInv => WithinLimits
BY Parts DEF WithinLimits, Listed, Known, Jobs1

LEMMA InvTypes == LedgerInv => TypeOK
<1> SUFFICES ASSUME LedgerInv PROVE TypeOK
  OBVIOUS
<1>1. /\ ledger \in Struct /\ Listed(ledger) /\ rec \in Records /\ wait \in Waits
      /\ todo \in Todo /\ open \in BOOLEAN
  BY Parts
<1>2. /\ ledger.records \in [Key -> Seq(Rec)] /\ ledger.ended \in Seq(Rec)
      /\ ledger.n \in [Key -> Int] /\ ledger.running \in [Key -> Int]
      /\ ledger.waits \in [Key -> SUBSET Wait] /\ ledger.n_waits \in [Key -> Int]
      /\ ledger.timers \in [Key -> [Slot -> {"none", "set", "fired"}]]
      /\ ledger.owners \subseteq Key /\ ledger.n_anonymous \in Int
  BY <1>1 DEF Struct, Lists
<1>3. \A k \in Key : ledger.n_waits[k] \in 0 .. LEDGER_WAITS
  <2> SUFFICES ASSUME NEW k \in Key PROVE ledger.n_waits[k] \in 0 .. LEDGER_WAITS
    OBVIOUS
  <2>1. IsFiniteSet(Wait) /\ ledger.waits[k] \subseteq Wait
    BY <1>2, FiniteAssumption
  <2>2. Cardinality(ledger.waits[k]) \in Nat
    BY <2>1, Sub
  <2> QED BY <1>1, <2>2, LedgerAssumption DEF Listed
<1>4. ledger.n_waits \in [Key -> 0 .. LEDGER_WAITS]
  BY <1>2, <1>3
<1>5. todo \in [Loop -> [hits : Seq(Wait), gone : SUBSET Rec]]
  BY <1>1 DEF Todo, Lists
<1> QED BY <1>1, <1>2, <1>4, <1>5 DEF TypeOK, Records, RecordType, Waits, WaitType

-----------------------------------------------------------------------------
(* The theorems.                                                           *)

LEMMA BooksAlways == Spec => []LedgerInv
BY InitBooks, StepKeeps, PTL DEF Spec

Kept == part = "books" => LedgerInv

LEMMA KeptAlways == WSpec => []Kept
<1>1. WInit => Kept
  BY InitBooks DEF WInit, Kept
<1>2. Kept /\ [WNext]_allvars => Kept'
  <2> SUFFICES ASSUME Kept, [WNext]_allvars, part' = "books" PROVE LedgerInv'
    BY DEF Kept
  <2>1. part = "books" /\ [Next]_vars
    BY DEF WNext, allvars, Closed
  <2> QED BY <2>1, StepKeeps DEF Kept
<1> QED BY <1>1, <1>2, PTL DEF WSpec

\* The ledger, its records, its waits and what the loops owe have their types;
\* no owner has more waits than its share (ledger_wait_enter()).
THEOREM LedgerTypes == Spec => []TypeOK
BY BooksAlways, InvTypes, PTL

\* The ledger's counts are those of its lists, and an owner is in its table
\* exactly while it has something, however many loops open, end, find, list
\* and remove records, and whatever the sweeps take (ledger_drop(),
\* ledger_owner_gc(), ledger_end()).
THEOREM OwnersTrue == Spec => []OwnersExact
BY BooksAlways, InvOwners, PTL

\* No more records, owners, anonymous owners or running jobs of an owner than
\* ledger.h allows (ledger_insert(), ledger_owner_room()).
THEOREM LimitsKept == Spec => []WithinLimits
BY BooksAlways, InvLimits, PTL

\* The same two of the runs' specification.
THEOREM OwnersAlways == WSpec => []OwnersKept
<1>1. Kept => OwnersKept
  BY InvOwners, InvLimits DEF Kept, OwnersKept
<1> QED BY <1>1, KeptAlways, PTL

\* Every record and every wait has the references of all that hold it and is
\* freed with the last, and a wait is on one chain or its message is queued,
\* never both, whatever loops do between the ledger's lock and their posts
\* and drops (ledger_task_put(), ledger_wait_put(), ledger_owner_wake()).
THEOREM ReferencesExact == WSpec => []HeldExactly
<1>1. Kept => HeldExactly
  BY InvRefs, InvChains DEF Kept, HeldExactly
<1> QED BY <1>1, KeptAlways, PTL

\* A parked wait whose message is not under way has missed no end and no
\* timer of its owner, though it looked before it parked and the lock was
\* free in between (mcp_wait_check(), ledger_timer_set(), ledger_end()).
THEOREM NoEventMissed == WSpec => []EventsTold
<1>1. Kept => EventsTold
  BY InvHeeds DEF Kept, EventsTold
<1> QED BY <1>1, KeptAlways, PTL
=============================================================================
