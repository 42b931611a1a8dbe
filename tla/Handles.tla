------------------------------ MODULE Handles ------------------------------
(***************************************************************************)
(* A loop's handles (src/src/loop.c): an object is named by a slot of a    *)
(* table and the slot's generation, which changes as the object is         *)
(* forgotten, so that a name that outlives its object finds nothing though *)
(* the slot is used again.  Generations wrap, past Gens (2^32 - 1 in the   *)
(* code), to 1.                                                            *)
(***************************************************************************)
EXTENDS Naturals, FiniteSets

CONSTANTS SlotMax,    \* SLOTS_MAX
          Gens, HKind,
          MaxMade     \* bound

VARIABLES
  slots,   \* struct loop_slot of those used
  used, vacant,
  made,    \* how many objects there have been
  given    \* history: the handle of each

handvars == <<slots, used, vacant, made, given>>

SlotNo == 1 .. SlotMax
Blank  == [obj |-> 0, kind |-> CHOOSE k \in HKind : TRUE, gen |-> 0, next |-> 0]

HandTypeOK ==
  /\ slots \in [SlotNo -> [obj : 0 .. MaxMade, kind : HKind, gen : 0 .. Gens, next : 0 .. SlotMax]]
  /\ used \in 0 .. SlotMax /\ vacant \in 0 .. SlotMax /\ made \in 0 .. MaxMade
  /\ \A h \in given : h.slot \in SlotNo /\ h.gen \in 1 .. Gens /\ h.obj \in 1 .. made

HandInit ==
  /\ slots = [i \in SlotNo |-> Blank] /\ used = 0 /\ vacant = 0 /\ made = 0 /\ given = {}

\* loop_slot_of(), then loop_lookup()
SlotOf(h)     == {i \in 1 .. used : i = h.slot /\ slots[i].gen = h.gen /\ slots[i].obj # 0}
Lookup(h, k)  == {slots[i].obj : i \in {j \in SlotOf(h) : slots[j].kind = k}}

\* loop_handle(): the slot vacated last, or one never used.
Handle(k) ==
  /\ made < MaxMade /\ (vacant # 0 \/ used < SlotMax)
  /\ made' = made + 1
  /\ LET i == IF vacant # 0 THEN vacant ELSE used + 1
         gen == IF vacant # 0 THEN slots[i].gen ELSE 1
     IN  /\ slots' = [slots EXCEPT ![i] = [@ EXCEPT !.obj = made + 1, !.kind = k, !.gen = gen]]
         /\ vacant' = IF vacant # 0 THEN slots[i].next ELSE 0
         /\ used' = IF vacant # 0 THEN used ELSE used + 1
         /\ given' = given \cup {[slot |-> i, gen |-> gen, obj |-> made + 1, kind |-> k]}

\* A mistake the checks would catch: the slot is vacant and its name stays.
ForgetName(h) ==
  \E i \in SlotOf(h) :
    /\ slots' = [slots EXCEPT ![i].obj = 0, ![i].next = vacant]
    /\ vacant' = i /\ UNCHANGED <<used, made, given>>

\* loop_forget()
Forget(h) ==
  \E i \in SlotOf(h) :
    /\ slots' = [slots EXCEPT ![i].obj = 0, ![i].next = vacant,
                              ![i].gen = IF @ = Gens THEN 1 ELSE @ + 1]
    /\ vacant' = i /\ UNCHANGED <<used, made, given>>

HandNext == (\E k \in HKind : Handle(k)) \/ (\E h \in given : Forget(h))

-----------------------------------------------------------------------------
\* Every name finds its own object or nothing, in any order of objects made
\* and forgotten, as the slots go round; and an object that was not forgotten
\* is found by its name.
OwnOnly ==
  /\ \A h \in given, k \in HKind : Lookup(h, k) \subseteq {h.obj}
  /\ \A i \in 1 .. used : slots[i].obj # 0 =>
       \E h \in given : Lookup(h, slots[i].kind) = {slots[i].obj}

\* The list of vacant slots is every slot used without an object, each once.
VacantTrue ==
  LET at[n \in 0 .. SlotMax] == IF n = 0 THEN vacant
                                ELSE IF at[n - 1] = 0 THEN 0 ELSE slots[at[n - 1]].next
      free == {i \in 1 .. used : slots[i].obj = 0}
  IN  /\ {at[n] : n \in 0 .. SlotMax} \ {0} = free /\ at[Cardinality(free)] = 0
=============================================================================
