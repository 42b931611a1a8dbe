----------------------------- MODULE ListProofs -----------------------------
(***************************************************************************)
(* What is on a list after something is taken off it, or is looked for     *)
(* along it.                                                               *)
(***************************************************************************)
EXTENDS IntrusiveLists, Integers, WellFoundedInduction, FiniteSetTheorems, SequenceTheorems, TLAPS

\* A list of members of T.
Lists(T) == {s \in Seq(T) : IsInjective(s)}

-----------------------------------------------------------------------------
(* Induction over the naturals, from the least element of a set.           *)

LEMMA Least ==
  ASSUME NEW T, T \subseteq Nat, T # {}
  PROVE  \E x \in T : \A y \in T : x <= y
<1> DEFINE R == OpToRel(<, Nat)
<1>1. IsWellFoundedOn(R, Nat)
  BY NatLessThanWellFounded
<1>2. \A x, y \in Nat : <<y, x>> \in R <=> y < x
  BY DEF OpToRel
<1> HIDE DEF R
<1>3. \E x \in T : \A y \in T : ~(<<y, x>> \in R)
  BY <1>1, WFMin
<1>4. PICK x \in T : \A y \in T : ~(<<y, x>> \in R)
  BY <1>3
<1>5. x \in Nat /\ \A y \in T : y \in Nat /\ ~(y < x)
  BY <1>2, <1>4
<1> HIDE DEF R
<1>6. \A y \in T : x <= y
  BY <1>5
<1> QED BY <1>6

LEMMA Naturally ==
  ASSUME NEW T, T \subseteq Nat, 0 \in T, \A n \in T : n + 1 \in T
  PROVE  T = Nat
<1> SUFFICES ASSUME Nat \ T # {} PROVE FALSE
  OBVIOUS
<1>1. PICK m \in Nat \ T : \A y \in Nat \ T : m <= y
  BY Least
<1>2. m # 0 /\ m - 1 \in Nat /\ m - 1 \in T
  BY <1>1
<1> QED BY <1>2, <1>1

-----------------------------------------------------------------------------
(* Off.                                                                    *)

\* Where it was, those behind come a place nearer.
LEMMA OffAt ==
  ASSUME NEW T, NEW s \in Lists(T), NEW i \in 1 .. Len(s)
  PROVE  /\ Off(s, s[i]) \in Seq(T) /\ Len(Off(s, s[i])) = Len(s) - 1
         /\ \A k \in 1 .. Len(s) - 1 : Off(s, s[i])[k] = IF k < i THEN s[k] ELSE s[k + 1]
<1>1. s \in Seq(T) /\ DOMAIN s = 1 .. Len(s) /\ \A a, b \in 1 .. Len(s) : s[a] = s[b] => a = b
  BY DEF Lists, IsInjective
<1>2. (CHOOSE k \in DOMAIN s : s[k] = s[i]) = i
  BY <1>1
<1>3. s[i] \in ToSet(s)
  BY <1>1 DEF ToSet
<1>4. Off(s, s[i]) = SubSeq(s, 1, i - 1) \o SubSeq(s, i + 1, Len(s))
  BY <1>2, <1>3 DEF Off, RemoveAt
<1>5. /\ SubSeq(s, 1, i - 1) \in Seq(T) /\ Len(SubSeq(s, 1, i - 1)) = i - 1
      /\ \A k \in 1 .. i - 1 : SubSeq(s, 1, i - 1)[k] = s[k]
  BY <1>1
<1> DEFINE n == Len(s)
           a == SubSeq(s, 1, i - 1)
           b == SubSeq(s, i + 1, n)
<1>6. n \in Nat /\ i + 1 \in 1 .. n + 1
  OBVIOUS
<1>7. b \in Seq(T) /\ Len(b) = n - i /\ \A k \in 1 .. n - i : b[k] = s[k + i]
  <2>1. \A k \in i + 1 .. n : s[k] \in T
    BY <1>1
  <2>2. /\ b \in Seq(T) /\ Len(b) = (IF i + 1 <= n THEN n - (i + 1) + 1 ELSE 0)
        /\ \A k \in 1 .. n - (i + 1) + 1 : b[k] = s[i + 1 + k - 1]
    BY <1>6, <2>1, SubSeqProperties
  <2> HIDE DEF b, n
  <2> QED BY <1>6, <2>2
<1> HIDE DEF n, a, b
<1>8. a \o b \in Seq(T) /\ Len(a \o b) = n - 1
  BY <1>5, <1>6, <1>7 DEF a
<1>9. ASSUME NEW k \in 1 .. n - 1 PROVE (a \o b)[k] = IF k < i THEN s[k] ELSE s[k + 1]
  <2>1. CASE k < i
    BY <1>5, <1>6, <1>7, <2>1 DEF a
  <2>2. CASE ~(k < i)
    <3>1. (a \o b)[k] = b[k - (i - 1)]
      BY <1>5, <1>6, <1>7, <2>2, SMTT(60) DEF a
    <3>2. k - (i - 1) \in 1 .. n - i /\ k - (i - 1) + i = k + 1
      BY <1>6, <2>2
    <3> QED BY <1>7, <2>2, <3>1, <3>2
  <2> QED BY <2>1, <2>2
<1> QED BY <1>4, <1>8, <1>9 DEF a, b, n

LEMMA OffList ==
  ASSUME NEW T, NEW s \in Lists(T), NEW x
  PROVE  /\ Off(s, x) \in Lists(T) /\ ToSet(Off(s, x)) = ToSet(s) \ {x}
         /\ Len(Off(s, x)) = IF x \in ToSet(s) THEN Len(s) - 1 ELSE Len(s)
<1>1. s \in Seq(T) /\ DOMAIN s = 1 .. Len(s) /\ \A a, b \in 1 .. Len(s) : s[a] = s[b] => a = b
  BY DEF Lists, IsInjective
<1>2. CASE x \in ToSet(s)
  <2>1. PICK i \in 1 .. Len(s) : s[i] = x
    BY <1>1, <1>2 DEF ToSet
  <2> DEFINE o == Off(s, x)
  <2>2. /\ o \in Seq(T) /\ Len(o) = Len(s) - 1 /\ DOMAIN o = 1 .. Len(s) - 1
        /\ \A k \in 1 .. Len(s) - 1 : o[k] = IF k < i THEN s[k] ELSE s[k + 1]
    <3>1. /\ o \in Seq(T) /\ Len(o) = Len(s) - 1
          /\ \A k \in 1 .. Len(s) - 1 : o[k] = IF k < i THEN s[k] ELSE s[k + 1]
      BY <2>1, OffAt, Zenon
    <3> HIDE DEF o
    <3> QED BY <3>1
  <2> HIDE DEF o
  <2>3. \A a, b \in DOMAIN o : o[a] = o[b] => a = b
    BY <1>1, <2>2
  <2>4. ASSUME NEW y PROVE y \in ToSet(o) <=> y \in ToSet(s) /\ y # x
    <3>1. ASSUME NEW k \in DOMAIN o PROVE o[k] \in ToSet(s) /\ o[k] # x
      <4>1. CASE k < i
        BY <1>1, <2>1, <2>2, <4>1 DEF ToSet
      <4>2. CASE ~(k < i)
        <5>1. k + 1 \in 1 .. Len(s) /\ o[k] = s[k + 1] /\ k + 1 # i
          BY <2>2, <4>2
        <5> QED BY <1>1, <2>1, <5>1 DEF ToSet
      <4> QED BY <4>1, <4>2
    <3>2. ASSUME NEW m \in 1 .. Len(s), m # i PROVE s[m] \in ToSet(o)
      <4>1. CASE m < i
        BY <2>2, <4>1 DEF ToSet
      <4>2. CASE m > i
        <5>1. m - 1 \in DOMAIN o /\ o[m - 1] = s[m]
          BY <2>2, <4>2
        <5> QED BY <5>1 DEF ToSet
      <4> QED BY <3>2, <4>1, <4>2
    <3> QED BY <1>1, <2>1, <3>1, <3>2 DEF ToSet
  <2> QED BY <1>2, <2>2, <2>3, <2>4 DEF Lists, IsInjective, o
<1>3. CASE x \notin ToSet(s)
  BY <1>3 DEF Off
<1> QED BY <1>2, <1>3

-----------------------------------------------------------------------------
(* The other ways that lists change.                                       *)

LEMMA OnList ==
  ASSUME NEW T, NEW s \in Lists(T)
  PROVE  /\ s \in Seq(T) /\ DOMAIN s = 1 .. Len(s) /\ Len(s) \in Nat
         /\ \A a, b \in 1 .. Len(s) : s[a] = s[b] => a = b
         /\ ToSet(s) \subseteq T /\ \A x : x \in ToSet(s) <=> \E i \in 1 .. Len(s) : s[i] = x
         /\ s = <<>> <=> ToSet(s) = {}
         /\ s # <<>> => Head(s) \in ToSet(s) /\ Len(s) > 0
<1>1. s \in Seq(T) /\ DOMAIN s = 1 .. Len(s) /\ Len(s) \in Nat
      /\ \A a, b \in 1 .. Len(s) : s[a] = s[b] => a = b
  BY DEF Lists, IsInjective
<1>2. ToSet(s) \subseteq T /\ \A x : x \in ToSet(s) <=> \E i \in 1 .. Len(s) : s[i] = x
  BY <1>1 DEF ToSet
<1>3. s = <<>> => ToSet(s) = {}
  BY <1>2
<1>4. s # <<>> => Head(s) \in ToSet(s) /\ Len(s) > 0
  BY <1>1, <1>2
<1> QED BY <1>1, <1>2, <1>3, <1>4

LEMMA EmptyList == ASSUME NEW T PROVE <<>> \in Lists(T) /\ ToSet(<<>>) = {} /\ Len(<<>>) = 0
BY DEF Lists, IsInjective, ToSet

LEMMA AppendTo ==
  ASSUME NEW T, NEW s \in Lists(T), NEW x \in T, x \notin ToSet(s)
  PROVE  /\ Append(s, x) \in Lists(T) /\ ToSet(Append(s, x)) = ToSet(s) \cup {x}
         /\ Len(Append(s, x)) = Len(s) + 1
<1> DEFINE o == Append(s, x)
<1>1. /\ o \in Seq(T) /\ Len(o) = Len(s) + 1 /\ DOMAIN o = 1 .. Len(s) + 1
      /\ \A i \in 1 .. Len(s) + 1 : o[i] = IF i <= Len(s) THEN s[i] ELSE x
  BY OnList
<1> HIDE DEF o
<1>2. \A a, b \in DOMAIN o : o[a] = o[b] => a = b
  BY <1>1, OnList
<1>3. ASSUME NEW y PROVE y \in ToSet(o) <=> y \in ToSet(s) \/ y = x
  <2>1. \A i \in 1 .. Len(s) : i \in DOMAIN o /\ o[i] = s[i]
    BY <1>1, OnList
  <2>2. Len(s) + 1 \in DOMAIN o /\ o[Len(s) + 1] = x
    BY <1>1, OnList
  <2> QED BY <1>1, <2>1, <2>2, OnList DEF ToSet
<1> QED BY <1>1, <1>2, <1>3 DEF Lists, IsInjective, o

LEMMA ConcatLists ==
  ASSUME NEW T, NEW s \in Lists(T), NEW t \in Lists(T), ToSet(s) \cap ToSet(t) = {}
  PROVE  /\ s \o t \in Lists(T) /\ ToSet(s \o t) = ToSet(s) \cup ToSet(t)
         /\ Len(s \o t) = Len(s) + Len(t)
<1> DEFINE o == s \o t
<1>1. /\ o \in Seq(T) /\ Len(o) = Len(s) + Len(t) /\ DOMAIN o = 1 .. Len(s) + Len(t)
      /\ \A i \in 1 .. Len(s) + Len(t) : o[i] = IF i <= Len(s) THEN s[i] ELSE t[i - Len(s)]
  BY OnList, ConcatProperties
<1> HIDE DEF o
<1>2. ASSUME NEW a \in DOMAIN o, NEW b \in DOMAIN o, o[a] = o[b] PROVE a = b
  <2>1. CASE a <= Len(s) /\ b <= Len(s)
    BY <1>1, <1>2, <2>1, OnList
  <2>2. CASE a > Len(s) /\ b > Len(s)
    <3>1. a - Len(s) \in 1 .. Len(t) /\ b - Len(s) \in 1 .. Len(t)
          /\ t[a - Len(s)] = t[b - Len(s)]
      BY <1>1, <1>2, <2>2, OnList
    <3>2. a - Len(s) = b - Len(s)
      BY <3>1, OnList
    <3> QED BY <1>1, <3>2, OnList
  <2>3. ASSUME NEW i \in 1 .. Len(s), NEW j \in DOMAIN o, j > Len(s), o[i] = o[j] PROVE FALSE
    <3>1. j - Len(s) \in 1 .. Len(t) /\ o[j] = t[j - Len(s)] /\ o[i] = s[i]
      BY <1>1, <2>3, OnList
    <3>2. s[i] \in ToSet(s) /\ s[i] \in ToSet(t)
      BY <2>3, <3>1, OnList
    <3> QED BY <3>2
  <2> QED BY <1>1, <1>2, <2>1, <2>2, <2>3, OnList
<1>3. ASSUME NEW y PROVE y \in ToSet(o) <=> y \in ToSet(s) \/ y \in ToSet(t)
  <2>1. \A i \in 1 .. Len(s) : i \in DOMAIN o /\ o[i] = s[i]
    BY <1>1, OnList
  <2>2. \A i \in 1 .. Len(t) : Len(s) + i \in DOMAIN o /\ o[Len(s) + i] = t[i]
    BY <1>1, OnList, SMTT(20)
  <2>3. \A i \in DOMAIN o : i \in 1 .. Len(s) \/ i - Len(s) \in 1 .. Len(t)
    BY <1>1, OnList
  <2>4. \A i \in DOMAIN o : o[i] \in ToSet(s) \/ o[i] \in ToSet(t)
    BY <1>1, <2>3, OnList, SMTT(20)
  <2> QED BY <2>1, <2>2, <2>4, OnList DEF ToSet
<1> QED BY <1>1, <1>2, <1>3 DEF Lists, IsInjective, o

LEMMA PutFirst ==
  ASSUME NEW T, NEW s \in Lists(T), NEW x \in T, x \notin ToSet(s)
  PROVE  /\ <<x>> \o s \in Lists(T) /\ ToSet(<<x>> \o s) = ToSet(s) \cup {x}
         /\ Len(<<x>> \o s) = Len(s) + 1 /\ Head(<<x>> \o s) = x
<1>1. <<x>> \in Lists(T) /\ ToSet(<<x>>) = {x} /\ Len(<<x>>) = 1
  BY DEF Lists, IsInjective, ToSet
<1>2. ToSet(<<x>>) \cap ToSet(s) = {}
  BY <1>1
<1>3. Head(<<x>> \o s) = x
  BY OnList
<1> QED BY <1>1, <1>2, <1>3, ConcatLists, OnList

LEMMA TailList ==
  ASSUME NEW T, NEW s \in Lists(T), s # <<>>
  PROVE  /\ Tail(s) \in Lists(T) /\ ToSet(Tail(s)) = ToSet(s) \ {Head(s)}
         /\ Len(Tail(s)) = Len(s) - 1 /\ Head(s) \in ToSet(s) /\ Head(s) = s[1]
<1> DEFINE o == Tail(s)
<1>1. /\ o \in Seq(T) /\ Len(o) = Len(s) - 1 /\ DOMAIN o = 1 .. Len(s) - 1
      /\ \A i \in 1 .. Len(s) - 1 : o[i] = s[i + 1]
  BY OnList
<1>2. Head(s) = s[1] /\ Head(s) \in ToSet(s) /\ 1 \in 1 .. Len(s)
  BY OnList
<1> HIDE DEF o
<1>3. \A a, b \in DOMAIN o : o[a] = o[b] => a = b
  BY <1>1, OnList, SMTT(60)
<1>4. ASSUME NEW y PROVE y \in ToSet(o) <=> y \in ToSet(s) /\ y # Head(s)
  <2>1. ASSUME NEW i \in DOMAIN o PROVE o[i] \in ToSet(s) /\ o[i] # s[1]
    <3>1. i + 1 \in 1 .. Len(s) /\ o[i] = s[i + 1] /\ i + 1 # 1
      BY <1>1, OnList
    <3> QED BY <1>2, <3>1, OnList
  <2>2. ASSUME NEW i \in 1 .. Len(s), s[i] # s[1] PROVE s[i] \in ToSet(o)
    <3>1. i - 1 \in DOMAIN o /\ o[i - 1] = s[i]
      BY <1>1, <2>2, OnList
    <3> QED BY <3>1 DEF ToSet
  <2> QED BY <1>2, <2>1, <2>2, OnList DEF ToSet
<1> QED BY <1>1, <1>2, <1>3, <1>4 DEF Lists, IsInjective, o

LEMMA PrefixList ==
  ASSUME NEW T, NEW s \in Lists(T), NEW n \in 0 .. Len(s)
  PROVE  /\ SubSeq(s, 1, n) \in Lists(T) /\ ToSet(SubSeq(s, 1, n)) \subseteq ToSet(s)
         /\ Len(SubSeq(s, 1, n)) = n
<1> DEFINE o == SubSeq(s, 1, n)
<1>1. /\ o \in Seq(T) /\ Len(o) = n /\ DOMAIN o = 1 .. n /\ \A i \in 1 .. n : o[i] = s[i]
  BY OnList
<1> HIDE DEF o
<1>2. \A a, b \in DOMAIN o : o[a] = o[b] => a = b
  BY <1>1, OnList
<1>3. ToSet(o) \subseteq ToSet(s)
  BY <1>1, OnList DEF ToSet
<1> QED BY <1>1, <1>2, <1>3 DEF Lists, IsInjective, o

-----------------------------------------------------------------------------
(* Among.                                                                  *)

TakenNext(s, S, f, i) ==
  IF i = 0 THEN <<>> ELSE IF s[i] \in S THEN Append(f[i - 1], s[i]) ELSE f[i - 1]

\* The recursion has a solution, which is what Taken is.
LEMMA TakenIs ==
  ASSUME NEW T, NEW s \in Seq(T), NEW S
  PROVE  Taken(s, S) = [i \in 0 .. Len(s) |-> TakenNext(s, S, Taken(s, S), i)]
<1> DEFINE N == {n \in Nat : \E f : f = [i \in 0 .. n |-> TakenNext(s, S, f, i)]}
<1>1. 0 \in N
  <2> DEFINE f == [i \in 0 .. 0 |-> <<>>]
  <2>1. f = [i \in 0 .. 0 |-> TakenNext(s, S, f, i)]
    BY DEF TakenNext
  <2> QED BY <2>1
<1>2. ASSUME NEW n \in N PROVE n + 1 \in N
  <2>1. PICK f : f = [i \in 0 .. n |-> TakenNext(s, S, f, i)]
    OBVIOUS
  <2> DEFINE g == [i \in 0 .. n + 1 |-> IF i <= n THEN f[i] ELSE TakenNext(s, S, f, i)]
  <2>2. n \in Nat /\ n + 1 \in Nat
    OBVIOUS
  <2> HIDE DEF N
  <2>3. ASSUME NEW i \in 0 .. n + 1 PROVE g[i] = TakenNext(s, S, g, i)
    <3>1. CASE i = 0
      <4>1. g[i] = f[0] /\ f[0] = TakenNext(s, S, f, 0)
        BY <2>1, <2>2, <3>1
      <4> QED BY <3>1, <4>1 DEF TakenNext
    <3>2. CASE i # 0
      <4>1. i - 1 \in 0 .. n /\ g[i - 1] = f[i - 1]
        BY <2>2, <3>2
      <4>2. g[i] = TakenNext(s, S, f, i)
        <5>1. CASE i <= n
          <6>1. f[i] = TakenNext(s, S, f, i)
            BY <2>1, <2>2, <5>1
          <6> QED BY <5>1, <6>1
        <5>2. CASE ~(i <= n)
          BY <5>2
        <5> QED BY <5>1, <5>2
      <4> QED BY <3>2, <4>1, <4>2 DEF TakenNext
    <3> QED BY <3>1, <3>2
  <2>4. g = [i \in 0 .. n + 1 |-> TakenNext(s, S, g, i)]
    BY <2>3
  <2> HIDE DEF g
  <2>5. \E h : h = [i \in 0 .. n + 1 |-> TakenNext(s, S, h, i)]
    BY <2>4
  <2> QED BY <2>2, <2>5 DEF N
<1>3. N = Nat
  <2> HIDE DEF N
  <2>1. N \subseteq Nat
    BY DEF N
  <2> QED BY <1>1, <1>2, <2>1, Naturally
<1>4. Len(s) \in N
  BY <1>3
<1>5. \E f : f = [i \in 0 .. Len(s) |-> TakenNext(s, S, f, i)]
  BY <1>4
<1>6. Taken(s, S) = CHOOSE f : f = [i \in 0 .. Len(s) |-> TakenNext(s, S, f, i)]
  BY DEF Taken, TakenNext
<1> QED BY <1>5, <1>6

LEMMA AmongList ==
  ASSUME NEW T, NEW s \in Lists(T), NEW S
  PROVE  /\ Among(s, S) \in Lists(T) /\ ToSet(Among(s, S)) = ToSet(s) \cap S
         /\ Len(Among(s, S)) <= Len(s)
<1> DEFINE t == Taken(s, S)
           Good(n) == /\ t[n] \in Lists(T) /\ Len(t[n]) <= n
                      /\ ToSet(t[n]) = {s[k] : k \in 1 .. n} \cap S
           N == {n \in Nat : n <= Len(s) => Good(n)}
<1>1. t = [i \in 0 .. Len(s) |-> TakenNext(s, S, t, i)]
  BY TakenIs, OnList
<1> HIDE DEF t
<1>2. 0 \in N
  <2>1. t[0] = <<>>
    BY <1>1, OnList DEF TakenNext
  <2> QED BY <2>1, EmptyList
<1>3. ASSUME NEW n \in N PROVE n + 1 \in N
  <2> SUFFICES ASSUME n + 1 <= Len(s) PROVE Good(n + 1)
    OBVIOUS
  <2>1. n \in Nat /\ Good(n) /\ n + 1 \in 1 .. Len(s)
    BY OnList
  <2> DEFINE m == n + 1
             A == {s[k] : k \in 1 .. n}
  <2>2. t[m] = IF s[m] \in S THEN Append(t[n], s[m]) ELSE t[n]
    <3>1. m \in 0 .. Len(s) /\ m # 0 /\ m - 1 = n
      BY <2>1
    <3> HIDE DEF m
    <3>2. t[m] = TakenNext(s, S, t, m)
      BY <1>1, <3>1
    <3> QED BY <3>1, <3>2 DEF TakenNext
  <2>3. {s[k] : k \in 1 .. m} = A \cup {s[m]}
    <3>1. 1 .. m = 1 .. n \cup {m}
      BY <2>1
    <3> QED BY <3>1
  <2>4. s[m] \in T /\ s[m] \notin A
    BY <2>1, OnList
  <2> HIDE DEF m
  <2>5. CASE s[m] \in S
    <3>1. s[m] \notin ToSet(t[n])
      BY <2>1, <2>4
    <3>2. /\ t[m] \in Lists(T) /\ ToSet(t[m]) = ToSet(t[n]) \cup {s[m]}
          /\ Len(t[m]) = Len(t[n]) + 1
      BY <2>1, <2>2, <2>4, <2>5, <3>1, AppendTo
    <3>3. Len(t[m]) <= m
      BY <2>1, <3>2, OnList DEF m
    <3>4. ToSet(t[m]) = (A \cup {s[m]}) \cap S
      BY <2>1, <2>5, <3>2
    <3> HIDE DEF A
    <3> QED BY <2>3, <3>2, <3>3, <3>4 DEF m
  <2>6. CASE s[m] \notin S
    <3>1. Len(t[n]) <= m
      BY <2>1, OnList DEF m
    <3>2. ToSet(t[n]) = (A \cup {s[m]}) \cap S
      BY <2>1, <2>6
    <3> HIDE DEF A
    <3> QED BY <2>1, <2>2, <2>3, <2>6, <3>1, <3>2 DEF m
  <2> QED BY <2>5, <2>6
<1>4. N = Nat
  <2> HIDE DEF N
  <2>1. N \subseteq Nat
    BY DEF N
  <2> QED BY <1>2, <1>3, <2>1, Naturally
<1>5. Good(Len(s))
  <2>1. Len(s) \in Nat /\ Len(s) <= Len(s)
    BY OnList
  <2> HIDE DEF Good, N
  <2>2. Len(s) \in N
    BY <1>4, <2>1
  <2> QED BY <2>1, <2>2 DEF N
<1>6. {s[k] : k \in 1 .. Len(s)} = ToSet(s)
  BY OnList
<1> QED BY <1>5, <1>6 DEF Among, t

-----------------------------------------------------------------------------
(* Among, from the end of a sequence.                                      *)

\* What holds of the empty sequence, and of one with another member at its
\* end, holds of all.
LEMMA FromTheEnd ==
  ASSUME NEW T, NEW C, C \subseteq Seq(T), <<>> \in C, \A c \in C, x \in T : Append(c, x) \in C
  PROVE  C = Seq(T)
<1> DEFINE N == {n \in Nat : \A c \in Seq(T) : Len(c) = n => c \in C}
<1>1. 0 \in N
  <2>1. \A c \in Seq(T) : Len(c) = 0 => c = <<>>
    OBVIOUS
  <2> QED BY <2>1
<1>2. ASSUME NEW n \in N PROVE n + 1 \in N
  <2>1. ASSUME NEW c \in Seq(T), Len(c) = n + 1 PROVE c \in C
    <3> DEFINE b == SubSeq(c, 1, n)
    <3>1. n \in Nat /\ b \in Seq(T) /\ Len(b) = n /\ c[n + 1] \in T
      BY <2>1
    <3>2. b \in C
      BY <3>1
    <3>3. c = Append(b, c[n + 1])
      <4>1. Append(b, c[n + 1]) \in Seq(T) /\ Len(Append(b, c[n + 1])) = n + 1
        <5> HIDE DEF b
        <5> QED BY <3>1
      <4>2. \A k \in 1 .. n + 1 : c[k] = Append(b, c[n + 1])[k]
        BY <2>1, <3>1
      <4> QED BY <2>1, <3>1, <4>1, <4>2, SeqEqual
    <3> QED BY <3>1, <3>2, <3>3
  <2> QED BY <2>1
<1>3. N = Nat
  <2> HIDE DEF N
  <2>1. N \subseteq Nat
    BY DEF N
  <2> QED BY <1>1, <1>2, <2>1, Naturally
<1>4. C \subseteq Seq(T) /\ \A c \in Seq(T) : Len(c) \in N => c \in C
  OBVIOUS
<1> HIDE DEF N
<1>5. \A c \in Seq(T) : Len(c) \in Nat
  OBVIOUS
<1> QED BY <1>3, <1>4, <1>5

LEMMA AmongFromTheEnd ==
  ASSUME NEW T, NEW S
  PROVE  /\ Among(<<>>, S) = <<>>
         /\ \A s \in Seq(T) :
              /\ Among(s, S) \in Seq(T)
              /\ \A x \in T : Among(Append(s, x), S) = IF x \in S THEN Append(Among(s, S), x)
                                                       ELSE Among(s, S)
<1>1. Among(<<>>, S) = <<>>
  <2>1. ASSUME NEW e \in Seq(T), Len(e) = 0 PROVE Among(e, S) = <<>>
    <3> DEFINE f == Taken(e, S)
    <3>1. f = [i \in 0 .. Len(e) |-> TakenNext(e, S, f, i)]
      BY TakenIs
    <3> HIDE DEF f
    <3>2. f[0] = TakenNext(e, S, f, 0)
      BY <2>1, <3>1
    <3>3. Among(e, S) = f[0]
      BY <2>1 DEF Among, f
    <3> QED BY <3>2, <3>3 DEF TakenNext
  <2>2. <<>> \in Seq(T) /\ Len(<<>>) = 0
    OBVIOUS
  <2> QED BY <2>1, <2>2
<1>2. ASSUME NEW s \in Seq(T), NEW x \in T
      PROVE  Among(Append(s, x), S) = IF x \in S THEN Append(Among(s, S), x) ELSE Among(s, S)
  <2> DEFINE u == Append(s, x)
             f == Taken(s, S)
             g == Taken(u, S)
             n == Len(s)
             N == {k \in Nat : k <= n => g[k] = f[k]}
  <2>1. u \in Seq(T) /\ Len(u) = n + 1 /\ n \in Nat /\ u[n + 1] = x /\ \A k \in 1 .. n : u[k] = s[k]
    OBVIOUS
  <2> HIDE DEF u
  <2>2. /\ \A i \in 0 .. n : f[i] = TakenNext(s, S, f, i)
        /\ \A i \in 0 .. n + 1 : g[i] = TakenNext(u, S, g, i)
    <3>1. g = [i \in 0 .. Len(u) |-> TakenNext(u, S, g, i)]
      BY <2>1, TakenIs
    <3>2. f = [i \in 0 .. n |-> TakenNext(s, S, f, i)]
      BY TakenIs
    <3> HIDE DEF f, g, n
    <3> QED BY <2>1, <3>1, <3>2
  <2> HIDE DEF f, g, n
  <2>3. 0 \in N
    <3>1. g[0] = TakenNext(u, S, g, 0) /\ f[0] = TakenNext(s, S, f, 0)
      BY <2>1, <2>2
    <3> QED BY <3>1 DEF TakenNext
  <2>4. ASSUME NEW k \in N PROVE k + 1 \in N
    <3> SUFFICES ASSUME k + 1 <= n PROVE g[k + 1] = f[k + 1]
      OBVIOUS
    <3>1. k \in Nat /\ k + 1 \in 1 .. n /\ k + 1 \in 0 .. n + 1 /\ k + 1 \in 0 .. n /\ k + 1 # 0
          /\ k + 1 - 1 = k /\ g[k] = f[k] /\ u[k + 1] = s[k + 1]
      BY <2>1
    <3>2. g[k + 1] = TakenNext(u, S, g, k + 1) /\ f[k + 1] = TakenNext(s, S, f, k + 1)
      BY <2>2, <3>1
    <3> QED BY <3>1, <3>2 DEF TakenNext
  <2>5. N = Nat
    <3> HIDE DEF N
    <3>1. N \subseteq Nat
      BY DEF N
    <3> QED BY <2>3, <2>4, <3>1, Naturally
  <2>6. g[n] = f[n]
    BY <2>1, <2>5
  <2>7. g[n + 1] = TakenNext(u, S, g, n + 1) /\ n + 1 # 0 /\ n + 1 - 1 = n
    BY <2>1, <2>2
  <2>8. g[n + 1] = IF x \in S THEN Append(g[n], x) ELSE g[n]
    BY <2>1, <2>7 DEF TakenNext
  <2>9. Among(u, S) = g[n + 1] /\ Among(s, S) = f[n]
    BY <2>1 DEF Among, f, g, n
  <2> QED BY <2>6, <2>8, <2>9 DEF u
<1>3. \A s \in Seq(T) : Among(s, S) \in Seq(T)
  <2> DEFINE C == {s \in Seq(T) : Among(s, S) \in Seq(T)}
  <2>1. <<>> \in C
    <3>1. <<>> \in Seq(T)
      OBVIOUS
    <3>2. Among(<<>>, S) \in Seq(T)
      BY <1>1, <3>1, Zenon
    <3> QED BY <3>1, <3>2, Zenon
  <2>2. ASSUME NEW c \in C, NEW x \in T PROVE Append(c, x) \in C
    <3>1. c \in Seq(T) /\ Among(c, S) \in Seq(T)
      OBVIOUS
    <3>2. Append(c, x) \in Seq(T) /\ Append(Among(c, S), x) \in Seq(T)
      BY <3>1
    <3>3. Among(Append(c, x), S) \in {Append(Among(c, S), x), Among(c, S)}
      BY <1>2, <3>1
    <3> QED BY <3>1, <3>2, <3>3
  <2>3. C = Seq(T)
    <3> HIDE DEF C
    <3>1. C \subseteq Seq(T)
      BY DEF C
    <3> QED BY <2>1, <2>2, <3>1, FromTheEnd
  <2> QED BY <2>3
<1> QED BY <1>1, <1>2, <1>3
=============================================================================
