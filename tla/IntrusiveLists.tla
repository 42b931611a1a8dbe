--------------------------- MODULE IntrusiveLists ---------------------------
(***************************************************************************)
(* The lists of the code (src/src/list.h), whose nodes are members of what *)
(* they hold: sequences that hold nothing twice.  The operators are those  *)
(* that proofs need facts about.                                           *)
(***************************************************************************)
EXTENDS Naturals, Sequences, SequencesExt

\* list_del(): off the list that holds it, and no change to one that does not.
Off(s, x) ==
  IF x \in ToSet(s) THEN RemoveAt(s, CHOOSE i \in DOMAIN s : s[i] = x) ELSE s

\* list_foreach_safe() over s, whose body takes those in S: what it has taken
\* of the first i.
Taken(s, S) ==
  LET first[i \in 0 .. Len(s)] ==
        IF i = 0 THEN <<>>
        ELSE IF s[i] \in S THEN Append(first[i - 1], s[i]) ELSE first[i - 1]
  IN  first
Among(s, S) == Taken(s, S)[Len(s)]
=============================================================================
