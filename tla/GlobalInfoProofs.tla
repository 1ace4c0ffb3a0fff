-------------------------- MODULE GlobalInfoProofs ---------------------------
(***************************************************************************)
(* Theorems about GlobalInfo for any number of readers, modules, slots and *)
(* functors, as long as one thread at most sets callbacks.  Two setters    *)
(* break the registry, since the mutex is released too early               *)
(* (GlobalInfo.cpp:52).                                                    *)
(***************************************************************************)
EXTENDS GlobalInfo, TLAPS

OneSetter == \A t, u \in Setters : t = u

Empty(f) == \A s \in Slots : slot[s] # f

(* The types; what a slot holds is what was set there last.                *)
Types ==
  /\ allocated \in SUBSET Modules
  /\ slot \in [Slots -> Functors \cup {None}] /\ lastSet = slot
  /\ deleted \in [Functors -> {0, 1}]
  /\ pc \in [Setters \cup Readers ->
              {"idle", "lock", "alloc", "take", "put", "delete", "call"}]
  /\ functor \in [Setters \cup Readers -> Functors \cup {None}]
  /\ target \in [Setters \cup Readers -> Slots \cup {<<>>}]
  /\ old \in [Setters -> Functors \cup {None}]
  /\ owned \in SUBSET Functors
  /\ crashed \in BOOLEAN

(* A reader has a functor while it calls it.                               *)
ReaderHas(t) ==
  /\ pc[t] \in {"idle", "call"} /\ ((pc[t] = "call") <=> (functor[t] # None))
  /\ pc[t] = "call" => target[t] \in Slots

(* Where a functor is on its way into its slot, and what it replaces.      *)
SetterHas(t) ==
  /\ pc[t] # "call"
  /\ pc[t] # "idle" =>
       /\ target[t] \in Slots
       /\ functor[t] \in Functors \ owned /\ deleted[functor[t]] = 0
  /\ pc[t] \in {"lock", "alloc", "take", "put"} => Empty(functor[t])
  /\ pc[t] = "alloc" => target[t][1] \notin allocated
  /\ pc[t] \in {"take", "put", "delete"} => target[t][1] \in allocated
  /\ pc[t] \in {"idle", "lock", "alloc", "take"} => old[t] = None
  /\ pc[t] = "put" => old[t] = slot[target[t]]
  /\ pc[t] = "delete" => /\ slot[target[t]] = functor[t]
                         /\ old[t] # None =>
                              Empty(old[t]) /\ old[t] \in owned /\ deleted[old[t]] = 0

(* A slot holds a living functor, which no other slot holds.               *)
SlotHas(s) ==
  slot[s] # None =>
    /\ s[1] \in allocated
    /\ deleted[slot[s]] = 0
    /\ slot[s] \in owned \/ \E t \in Setters : functor[t] = slot[s] /\ pc[t] = "delete"
    /\ \A r \in Slots : slot[r] = slot[s] => r = s

(* A functor that nobody holds is deleted, or about to be.                 *)
FunctorHas(f) ==
  IF f \in owned
  THEN \/ deleted[f] = 1 /\ Empty(f)
       \/ deleted[f] = 0 /\ \E t \in Setters : pc[t] = "delete" /\ old[t] = f
       \/ deleted[f] = 0 /\ ~Empty(f)
  ELSE deleted[f] = 0

Inv ==
  /\ Types
  /\ \A t \in Readers : ReaderHas(t)
  /\ \A t \in Setters : SetterHas(t)
  /\ \A s \in Slots : SlotHas(s)
  /\ \A f \in Functors : FunctorHas(f)

-----------------------------------------------------------------------------
LEMMA SlotModule == \A s \in Slots : s[1] \in Modules
  BY DEF Slots

LEMMA InitInv == Init => Inv
  BY GlobalInfoAssumption
  DEF Init, Inv, Types, ReaderHas, SetterHas, SlotHas, FunctorHas, Empty

(* While one thread sets callbacks, the array is missing when it allocates *)
(* one, so that no functor is in the array it replaces.                    *)
LEMMA NothingReplaced ==
  ASSUME Inv, NEW t \in Setters, SetAllocate(t)
  PROVE  slot' = slot /\ deleted' = deleted
  <1>1. target[t] \in Slots /\ target[t][1] \notin allocated
    BY DEF Inv, SetterHas, SetAllocate
  <1>2. \A s \in Slots : s[1] = target[t][1] => slot[s] = None
    BY <1>1 DEF Inv, SlotHas
  <1>3. slot' = slot
    BY <1>2 DEF SetAllocate, Inv, Types
  <1>4. {slot[s] : s \in {s \in Slots : s[1] = target[t][1]}} \cap Functors = {}
    BY <1>2, GlobalInfoAssumption
  <1>5. deleted' = deleted
    BY <1>4 DEF SetAllocate, Delete, Inv, Types
  <1> QED BY <1>3, <1>5

LEMMA SetCallbackInv ==
  ASSUME OneSetter, Inv, NEW t \in Setters, NEW f \in Functors, NEW in \in Slots, SetCallback(t, f, in)
  PROVE  Inv'
  <1> USE GlobalInfoAssumption DEF Inv, Types, Goto
  <1>1. Types'
    BY SlotModule DEF SetCallback, SetterHas
  <1>2. (\A u \in Readers : ReaderHas(u))'
    BY SlotModule DEF SetCallback, ReaderHas
  <1>3. (\A u \in Setters : SetterHas(u))'
    BY SlotModule DEF SetCallback, OneSetter, SetterHas, SlotHas, FunctorHas, Empty
  <1>4. (\A s \in Slots : SlotHas(s))'
    BY SlotModule DEF SetCallback, OneSetter, SetterHas, SlotHas, FunctorHas, Empty
  <1>5. (\A g \in Functors : FunctorHas(g))'
    BY SlotModule DEF SetCallback, OneSetter, SetterHas, SlotHas, FunctorHas, Empty
  <1> QED BY <1>1, <1>2, <1>3, <1>4, <1>5

LEMMA SetCheckInv ==
  ASSUME OneSetter, Inv, NEW t \in Setters, SetCheck(t)
  PROVE  Inv'
  <1> USE GlobalInfoAssumption DEF Inv, Types, Goto
  <1>1. Types'
    BY SlotModule DEF SetCheck, SetterHas
  <1>2. (\A u \in Readers : ReaderHas(u))'
    BY SlotModule DEF SetCheck, ReaderHas
  <1>3. (\A u \in Setters : SetterHas(u))'
    BY SlotModule DEF SetCheck, OneSetter, SetterHas, SlotHas, FunctorHas, Empty
  <1>4. (\A s \in Slots : SlotHas(s))'
    BY SlotModule DEF SetCheck, OneSetter, SetterHas, SlotHas, FunctorHas, Empty
  <1>5. (\A g \in Functors : FunctorHas(g))'
    BY SlotModule DEF SetCheck, OneSetter, SetterHas, SlotHas, FunctorHas, Empty
  <1> QED BY <1>1, <1>2, <1>3, <1>4, <1>5

LEMMA SetAllocateInv ==
  ASSUME OneSetter, Inv, NEW t \in Setters, SetAllocate(t)
  PROVE  Inv'
  <1>0. slot' = slot /\ deleted' = deleted
    BY NothingReplaced
  <1> USE GlobalInfoAssumption DEF Inv, Types, Goto
  <1>1. Types'
    BY <1>0, SlotModule DEF SetAllocate, SetterHas
  <1>2. (\A u \in Readers : ReaderHas(u))'
    BY <1>0, SlotModule DEF SetAllocate, ReaderHas
  <1>3. (\A u \in Setters : SetterHas(u))'
    BY <1>0, SlotModule DEF SetAllocate, OneSetter, SetterHas, SlotHas, FunctorHas, Empty
  <1>4. (\A s \in Slots : SlotHas(s))'
    BY <1>0, SlotModule DEF SetAllocate, OneSetter, SetterHas, SlotHas, FunctorHas, Empty
  <1>5. (\A g \in Functors : FunctorHas(g))'
    BY <1>0, SlotModule DEF SetAllocate, OneSetter, SetterHas, SlotHas, FunctorHas, Empty
  <1> QED BY <1>1, <1>2, <1>3, <1>4, <1>5

LEMMA ResetTakeInv ==
  ASSUME OneSetter, Inv, NEW t \in Setters, ResetTake(t)
  PROVE  Inv'
  <1> USE GlobalInfoAssumption DEF Inv, Types, Goto
  <1>1. Types'
    BY SlotModule DEF ResetTake, SetterHas
  <1>2. (\A u \in Readers : ReaderHas(u))'
    BY SlotModule DEF ResetTake, ReaderHas
  <1>3. (\A u \in Setters : SetterHas(u))'
    BY SlotModule DEF ResetTake, OneSetter, SetterHas, SlotHas, FunctorHas, Empty
  <1>4. (\A s \in Slots : SlotHas(s))'
    BY SlotModule DEF ResetTake, OneSetter, SetterHas, SlotHas, FunctorHas, Empty
  <1>5. (\A g \in Functors : FunctorHas(g))'
    BY SlotModule DEF ResetTake, OneSetter, SetterHas, SlotHas, FunctorHas, Empty
  <1> QED BY <1>1, <1>2, <1>3, <1>4, <1>5

LEMMA ResetPutInv ==
  ASSUME OneSetter, Inv, NEW t \in Setters, ResetPut(t)
  PROVE  Inv'
  <1> USE GlobalInfoAssumption DEF Inv, Types, Goto
  <1>1. Types'
    BY SlotModule DEF ResetPut, SetterHas
  <1>2. (\A u \in Readers : ReaderHas(u))'
    BY SlotModule DEF ResetPut, ReaderHas
  <1>3. (\A u \in Setters : SetterHas(u))'
    BY SlotModule DEF ResetPut, OneSetter, SetterHas, SlotHas, FunctorHas, Empty
  <1>4. (\A s \in Slots : SlotHas(s))'
    BY SlotModule DEF ResetPut, OneSetter, SetterHas, SlotHas, FunctorHas, Empty
  <1>5. (\A g \in Functors : FunctorHas(g))'
    BY SlotModule DEF ResetPut, OneSetter, SetterHas, SlotHas, FunctorHas, Empty
  <1> QED BY <1>1, <1>2, <1>3, <1>4, <1>5

LEMMA ResetDeleteInv ==
  ASSUME OneSetter, Inv, NEW t \in Setters, ResetDelete(t)
  PROVE  Inv'
  <1> USE GlobalInfoAssumption DEF Inv, Types, Goto
  <1>1. Types'
    BY SlotModule DEF ResetDelete, Delete, SetterHas
  <1>2. (\A u \in Readers : ReaderHas(u))'
    BY SlotModule DEF ResetDelete, Delete, ReaderHas
  <1>3. (\A u \in Setters : SetterHas(u))'
    BY SlotModule DEF ResetDelete, Delete, OneSetter, SetterHas, SlotHas, FunctorHas, Empty
  <1>4. (\A s \in Slots : SlotHas(s))'
    BY SlotModule DEF ResetDelete, Delete, OneSetter, SetterHas, SlotHas, FunctorHas, Empty
  <1>5. (\A g \in Functors : FunctorHas(g))'
    BY SlotModule DEF ResetDelete, Delete, OneSetter, SetterHas, SlotHas, FunctorHas, Empty
  <1> QED BY <1>1, <1>2, <1>3, <1>4, <1>5

LEMMA SettingInv ==
  ASSUME OneSetter, Inv, NEW t \in Setters, Setting(t)
  PROVE  Inv'
  <1>1. CASE \E f \in Functors, in \in Slots : SetCallback(t, f, in)
    BY <1>1, SetCallbackInv
  <1>2. CASE SetCheck(t)
    BY <1>2, SetCheckInv
  <1>3. CASE SetAllocate(t)
    BY <1>3, SetAllocateInv
  <1>4. CASE SetAllocateFails(t)
    BY <1>4
    DEF SetAllocateFails, locals, Inv, Types, ReaderHas, SetterHas, SlotHas, FunctorHas, Empty
  <1>5. CASE ResetTake(t)
    BY <1>5, ResetTakeInv
  <1>6. CASE ResetPut(t)
    BY <1>6, ResetPutInv
  <1>7. CASE ResetDelete(t)
    BY <1>7, ResetDeleteInv
  <1> QED BY <1>1, <1>2, <1>3, <1>4, <1>5, <1>6, <1>7 DEF Setting

LEMMA GetCallbackInv ==
  ASSUME Inv, NEW t \in Readers, NEW in \in Slots, GetCallback(t, in)
  PROVE  Inv'
  <1> USE GlobalInfoAssumption DEF Inv, Types, Goto, GetCallback
  <1>1. Types'
    OBVIOUS
  <1>2. (\A u \in Readers : ReaderHas(u))'
    BY DEF ReaderHas
  <1>3. (\A u \in Setters : SetterHas(u))'
    BY DEF SetterHas, Empty
  <1>4. (\A s \in Slots : SlotHas(s))'
    BY DEF SlotHas
  <1>5. (\A g \in Functors : FunctorHas(g))'
    BY DEF FunctorHas, Empty
  <1> QED BY <1>1, <1>2, <1>3, <1>4, <1>5

LEMMA CallFunctorInv ==
  ASSUME Inv, NEW t \in Readers, CallFunctor(t)
  PROVE  Inv'
  <1> USE GlobalInfoAssumption DEF Inv, Types, Goto, CallFunctor
  <1>1. Types'
    OBVIOUS
  <1>2. (\A u \in Readers : ReaderHas(u))'
    BY DEF ReaderHas
  <1>3. (\A u \in Setters : SetterHas(u))'
    BY DEF SetterHas, Empty
  <1>4. (\A s \in Slots : SlotHas(s))'
    BY DEF SlotHas
  <1>5. (\A g \in Functors : FunctorHas(g))'
    BY DEF FunctorHas, Empty
  <1> QED BY <1>1, <1>2, <1>3, <1>4, <1>5

LEMMA StepInv == ASSUME OneSetter, Inv, [Next]_vars PROVE Inv'
  <1>1. CASE \E t \in Setters : Setting(t)
    BY <1>1, SettingInv
  <1>2. CASE \E t \in Readers : Reading(t)
    BY <1>2, GetCallbackInv, CallFunctorInv DEF Reading
  <1>3. CASE UNCHANGED vars
    BY <1>3
    DEF vars, locals, Inv, Types, ReaderHas, SetterHas, SlotHas, FunctorHas, Empty
  <1> QED BY <1>1, <1>2, <1>3 DEF Next

(* With one setting thread the registry is consistent between any two      *)
(* steps of SetCallback and of the readers (GlobalInfo.cpp:45-68).         *)
THEOREM Invariance == ASSUME OneSetter PROVE Spec => []Inv
  <1>1. Init => Inv
    BY InitInv
  <1>2. Inv /\ [Next]_vars => Inv'
    BY StepInv
  <1> QED BY <1>1, <1>2, PTL DEF Spec

-----------------------------------------------------------------------------
(* With one setting thread, a functor that has been handed to SetCallback   *)
(* is deleted at most once and lives exactly as long as one slot holds it   *)
(* (GlobalInfo.cpp:57-65).                                                  *)
THEOREM FunctorsHaveOneOwner == ASSUME OneSetter PROVE Spec => []OneOwner
  <1>1. Inv => OneOwner
    <2> SUFFICES ASSUME Inv, NEW f \in owned,
                        ~(deleted[f] = 1 /\ Empty(f)),
                        ~(deleted[f] = 0 /\ \E t \in Setters : old[t] = f)
                 PROVE  deleted[f] = 0 /\ \E s \in Slots : \A r \in Slots : (slot[r] = f) <=> (r = s)
      BY DEF OneOwner, Empty
    <2>1. f \in Functors /\ f # None
      BY GlobalInfoAssumption DEF Inv, Types
    <2>2. deleted[f] = 0 /\ ~Empty(f)
      BY <2>1 DEF Inv, FunctorHas
    <2>3. PICK s \in Slots : slot[s] = f
      BY <2>2 DEF Empty
    <2>4. \A r \in Slots : (slot[r] = f) <=> (r = s)
      BY <2>1, <2>3 DEF Inv, SlotHas
    <2> QED BY <2>2, <2>4
  <1> QED BY <1>1, Invariance, PTL

(* With one setting thread, every slot holds what was set there last as     *)
(* soon as no SetCallback is running (GlobalInfo.hpp:109).                  *)
THEOREM SettingTakesEffect == ASSUME OneSetter PROVE Spec => []SetTakesEffect
  <1>1. Inv => SetTakesEffect
    BY DEF Inv, Types, SetTakesEffect
  <1> QED BY <1>1, Invariance, PTL

(* With one setting thread, the functor that a reader calls through its raw *)
(* pointer is alive as long as its own slot is not set again, whatever is   *)
(* set in others (GlobalInfo.hpp:95).                                       *)
THEOREM ReadersAreSafe == ASSUME OneSetter PROVE Spec => []NoUseAfterDelete
  <1>1. Inv => NoUseAfterDelete
    BY DEF Inv, Types, ReaderHas, SlotHas, NoUseAfterDelete
  <1> QED BY <1>1, Invariance, PTL

(* With one setting thread, every variable keeps its type; in particular    *)
(* nothing is deleted twice.                                                *)
THEOREM TypesKept == ASSUME OneSetter PROVE Spec => [](TypeOK /\ \A f \in Functors : deleted[f] < 2)
  <1>1. Inv => TypeOK /\ \A f \in Functors : deleted[f] < 2
    BY DEF Inv, Types, ReaderHas, TypeOK
  <1> QED BY <1>1, Invariance, PTL
=============================================================================
