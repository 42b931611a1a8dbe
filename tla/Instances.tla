----------------------------- MODULE Instances -----------------------------
(***************************************************************************)
(* A client loop's table of plugin instances (src/src/instance.c): one for *)
(* each user of a plugin, in buckets, that calls share and that is kept    *)
(* for the next; or one for a single call, of an anonymous client or of a  *)
(* request that began before the last flush.  One thread runs all of it,   *)
(* but flushes, reliefs and the table's step come between the calls.       *)
(*                                                                         *)
(* There is one plugin; an instance is destroyed only by the table's step, *)
(* a relief, or at the end.                                                *)
(***************************************************************************)
EXTENDS Naturals, Sequences, FiniteSets, SequencesExt

CONSTANTS Inst,          \* storage of instances
          User,          \* principals, 0 the anonymous one among them
          Call,          \* calls under way at most
          INSTANCE_MAX,
          MaxFlushes     \* bound

VARIABLES
  inst,        \* struct instance of each: its user, its calls; what is left
               \* of the struct is the lists
  listed,      \* the instances in the buckets
  busy, idle, gone,   \* the lists
  generation,  \* of the table
  call,        \* each call: of what user, begun in which generation, and its
               \* instance
  reap         \* the table's step is ready

ivars == <<inst, listed, busy, idle, gone, generation, call, reap>>

NoInst == [user |-> 0, calls |-> 0, live |-> FALSE]
NoCall == [at |-> "none", user |-> 0, gen |-> 0, inst |-> {}]

ITypeOK ==
  /\ inst \in [Inst -> [user : User, calls : 0 .. Cardinality(Call), live : BOOLEAN]]
  /\ listed \subseteq Inst /\ {busy, idle, gone} \subseteq Seq(Inst)
  /\ generation \in 0 .. MaxFlushes /\ reap \in BOOLEAN
  /\ \A c \in Call : /\ call[c].at \in {"none", "begun", "uses"} /\ call[c].user \in User
                     /\ call[c].gen \in 0 .. generation /\ call[c].inst \subseteq Inst

IInit ==
  /\ inst = [i \in Inst |-> NoInst] /\ listed = {} /\ busy = <<>> /\ idle = <<>> /\ gone = <<>>
  /\ generation = 0 /\ call = [c \in Call |-> NoCall] /\ reap = FALSE

\* instance_table_find()
FindInst(u) == {i \in listed : inst[i].user = u}

\* A request begins, and stores the table's generation.
BeginCall(c, u) ==
  /\ call[c].at = "none"
  /\ call' = [call EXCEPT ![c] = [at |-> "begun", user |-> u, gen |-> generation, inst |-> {}]]
  /\ UNCHANGED <<inst, listed, busy, idle, gone, generation, reap>>

\* The call uses the instance i, just made.
Make(c, i) ==
  /\ ~inst[i].live
  /\ inst' = [inst EXCEPT ![i] = [user |-> call[c].user, calls |-> 1, live |-> TRUE]]
  /\ busy' = Append(busy, i)
  /\ call' = [call EXCEPT ![c].at = "uses", ![c].inst = {i}]

Refuse(c) ==
  /\ call' = [call EXCEPT ![c] = NoCall]
  /\ UNCHANGED <<inst, listed, busy, idle, gone, reap>>

\* The call gets the instance of its user's calls.
Shares(c) == call[c].user # 0 /\ call[c].gen = generation

\* instance_table_get(): one found, or made, with room for it made among
\* those that are idle; or the plugin cannot make it, or the table is full.
GetInst(c) ==
  LET found == FindInst(call[c].user)
  IN  /\ call[c].at = "begun"
      /\ \/ /\ ~Shares(c)
            /\ \E i \in Inst : Make(c, i)
            /\ UNCHANGED <<listed, idle, gone, reap>>
         \/ /\ Shares(c) /\ found # {}
            /\ \E i \in found :
                 /\ inst' = [inst EXCEPT ![i].calls = @ + 1]
                 /\ busy' = Append(Remove(busy, i), i) /\ idle' = Remove(idle, i)
                 /\ call' = [call EXCEPT ![c].at = "uses", ![c].inst = {i}]
            /\ UNCHANGED <<listed, gone, reap>>
         \/ /\ Shares(c) /\ found = {} /\ Cardinality(listed) < INSTANCE_MAX
            /\ \E i \in Inst : Make(c, i) /\ listed' = listed \cup {i}
            /\ UNCHANGED <<idle, gone, reap>>
         \/ /\ Shares(c) /\ found = {} /\ Cardinality(listed) = INSTANCE_MAX /\ idle # <<>>
            /\ \E i \in Inst : Make(c, i) /\ listed' = (listed \ {idle[1]}) \cup {i}
            /\ idle' = Tail(idle) /\ gone' = Append(gone, idle[1]) /\ reap' = TRUE
         \/ /\ Shares(c) /\ found = {} /\ Cardinality(listed) = INSTANCE_MAX /\ idle = <<>>
            /\ Refuse(c)
      /\ UNCHANGED generation

\* The plugin's instance_init() fails, for room already made or not.
GetInstFails(c) ==
  /\ call[c].at = "begun"
  /\ \/ (~Shares(c) \/ (FindInst(call[c].user) = {} /\ Cardinality(listed) < INSTANCE_MAX))
        /\ Refuse(c)
     \/ /\ Shares(c) /\ FindInst(call[c].user) = {} /\ Cardinality(listed) = INSTANCE_MAX
        /\ idle # <<>>
        /\ listed' = listed \ {idle[1]}
        /\ idle' = Tail(idle) /\ gone' = Append(gone, idle[1]) /\ reap' = TRUE
        /\ call' = [call EXCEPT ![c] = NoCall] /\ UNCHANGED <<inst, busy>>
  /\ UNCHANGED generation

\* instance_table_put(): the last call's instance waits for the next of its
\* user, if it is in the buckets, or goes.
PutInst(c) ==
  /\ call[c].at = "uses" /\ call' = [call EXCEPT ![c] = NoCall]
  /\ \E i \in call[c].inst :
       /\ inst' = [inst EXCEPT ![i].calls = @ - 1]
       /\ IF inst[i].calls > 1 THEN UNCHANGED <<busy, idle, gone, reap>>
          ELSE /\ busy' = Remove(busy, i)
               /\ IF i \in FindInst(inst[i].user)
                  THEN idle' = Append(idle, i) /\ UNCHANGED <<gone, reap>>
                  ELSE gone' = Append(gone, i) /\ reap' = TRUE /\ UNCHANGED idle
  /\ UNCHANGED <<listed, generation>>

\* instance_table_flush(): the loop has a new policy.
Flush ==
  /\ generation < MaxFlushes /\ generation' = generation + 1
  /\ listed' = {} /\ idle' = <<>> /\ gone' = gone \o idle /\ reap' = TRUE
  /\ UNCHANGED <<inst, busy, call>>

\* instance_table_reap(): the first n of those gone.
Reaped(from, n) ==
  /\ inst' = [i \in Inst |-> IF i \in ToSet(SubSeq(from, 1, n)) THEN NoInst ELSE inst[i]]
  /\ gone' = SubSeq(from, n + 1, Len(from))

\* instance_table_step(): as many as the step may, and the rest in the next.
ReapStep ==
  /\ reap
  /\ \E n \in 1 .. Len(gone) : Reaped(gone, n) /\ reap' = (n < Len(gone))
  /\ UNCHANGED <<listed, busy, idle, generation, call>>

\* instance_table_relieve(): those unused for long, and those gone.
RelieveInst ==
  \E n \in 0 .. Len(idle) :
    /\ n > 0 \/ gone # <<>>
    /\ \E m \in 1 .. n + Len(gone) : Reaped(gone \o SubSeq(idle, 1, n), m)
    /\ idle' = SubSeq(idle, n + 1, Len(idle)) /\ listed' = listed \ ToSet(SubSeq(idle, 1, n))
    /\ reap' = (reap \/ n > 0)
    /\ UNCHANGED <<busy, generation, call>>

\* The table's step with nothing left: a relief destroyed it all.
ReapNothing ==
  /\ reap /\ gone = <<>> /\ reap' = FALSE
  /\ UNCHANGED <<inst, listed, busy, idle, gone, generation, call>>

INext ==
  \/ \E c \in Call : (\E u \in User : BeginCall(c, u)) \/ GetInst(c) \/ GetInstFails(c) \/ PutInst(c)
  \/ Flush \/ ReapStep \/ RelieveInst \/ ReapNothing

-----------------------------------------------------------------------------
UsesOf(i) == {c \in Call : i \in call[c].inst}

\* An instance is destroyed only with no call that uses it, counts them, and
\* is on one list: busy while they do; else idle if a later call gets it, and
\* gone if none does, with a step to come that destroys it.
UsedLives ==
  /\ \A i \in Inst : /\ inst[i].calls = Cardinality(UsesOf(i)) /\ (UsesOf(i) # {} => inst[i].live)
                     /\ inst[i].live <=> i \in ToSet(busy \o idle \o gone)
  /\ Len(busy \o idle \o gone) = Cardinality(ToSet(busy \o idle \o gone))
  /\ \A i \in ToSet(busy) : inst[i].calls > 0
  /\ \A i \in ToSet(idle \o gone) : inst[i].calls = 0
  /\ ToSet(idle) \subseteq listed /\ listed \subseteq ToSet(busy \o idle)
  /\ gone # <<>> => reap

\* Two calls share an instance only if they are of one user that is not
\* anonymous and both began since one flush; and a user has one at most that
\* a later call gets.
SharedByOne ==
  /\ \A c, d \in Call : c # d /\ call[c].inst \cap call[d].inst # {} =>
       /\ call[c].user = call[d].user /\ call[c].user # 0 /\ call[c].gen = call[d].gen
  /\ \A i, j \in listed : inst[i].user = inst[j].user => i = j
  /\ Cardinality(listed) <= INSTANCE_MAX

=============================================================================
