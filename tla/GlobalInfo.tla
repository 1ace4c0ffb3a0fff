----------------------------- MODULE GlobalInfo ------------------------------
(***************************************************************************)
(* storage::GlobalInfo (include/framework/GlobalInfo.hpp,                  *)
(* src/framework/GlobalInfo.cpp): the registry of callback functors.  It   *)
(* owns, for every module, an array of functors that is allocated when the *)
(* module's first functor is set.                                          *)
(*                                                                         *)
(* SetCallback declares its lock_guard inside the try block, so the mutex  *)
(* is released again before the registry is touched (GlobalInfo.cpp:52):   *)
(* everything after that line interleaves.  A functor that a reader has    *)
(* fetched is called through a raw pointer, as Socket::Send does           *)
(* (Socket.cpp:180-184).                                                   *)
(***************************************************************************)
EXTENDS Integers

CONSTANTS Setters,      \* the threads that call SetCallback
          Readers,      \* the threads that fetch and call functors
          Modules,      \* FRAMEWORK_MODULE_TYPES that exist
          ModuleSize,   \* GetModuleCallbacksSize
          Functors,     \* the functors the program allocates with new
          None          \* nullptr

ASSUME GlobalInfoAssumption ==
  /\ ModuleSize \in [Modules -> Nat]
  /\ None \notin Functors
  /\ Setters \cap Readers = {}

(* The <<module, callback>> pairs that pass the bounds checks.             *)
Slots == UNION {{m} \X (0 .. ModuleSize[m] - 1) : m \in Modules}

VARIABLES
  allocated,  \* the modules m with callbacks[m] # nullptr
  slot,       \* callbacks[module][callback], by <<module, callback>>
  deleted,    \* the functors on which delete has run, with how many times
  pc, functor, target, old,   \* each thread's place in its call, and its locals
  owned,      \* history: the functors that SetCallback has taken over
  lastSet,    \* history: the functor last set in each slot
  crashed     \* a null array was indexed

locals == <<pc, functor, target, old>>
vars == <<allocated, slot, deleted, locals, owned, lastSet, crashed>>

TypeOK ==
  /\ allocated \in SUBSET Modules
  /\ slot \in [Slots -> Functors \cup {None}]
  /\ deleted \in [Functors -> 0 .. 2]
  /\ pc \in [Setters \cup Readers ->
              {"idle", "lock", "alloc", "take", "put", "delete", "call"}]
  /\ functor \in [Setters \cup Readers -> Functors \cup {None}]
  /\ target \in [Setters \cup Readers -> Slots \cup {<<>>}]
  /\ old \in [Setters -> Functors \cup {None}]
  /\ owned \in SUBSET Functors
  /\ lastSet \in [Slots -> Functors \cup {None}]
  /\ crashed \in BOOLEAN
  /\ \A t \in Readers : (pc[t] = "call") <=> (functor[t] # None)

Init ==
  /\ allocated = {}
  /\ slot = [s \in Slots |-> None]
  /\ deleted = [f \in Functors |-> 0]
  /\ pc = [t \in Setters \cup Readers |-> "idle"]
  /\ functor = [t \in Setters \cup Readers |-> None]
  /\ target = [t \in Setters \cup Readers |-> <<>>]
  /\ old = [t \in Setters |-> None]
  /\ owned = {}
  /\ lastSet = [s \in Slots |-> None]
  /\ crashed = FALSE

Goto(t, label) == pc' = [pc EXCEPT ![t] = label]

-----------------------------------------------------------------------------
(* SetCallback, past its bounds checks: a module or callback type that     *)
(* does not exist is refused and changes nothing.  Every functor is new.   *)
SetCallback(t, f, in) ==
  /\ pc[t] = "idle"
  /\ f \notin owned /\ \A u \in Setters : functor[u] # f
  /\ functor' = [functor EXCEPT ![t] = f]
  /\ target' = [target EXCEPT ![t] = in]
  /\ Goto(t, "lock")
  /\ UNCHANGED <<allocated, slot, deleted, old, owned, lastSet, crashed>>

(* Mutant: the array is allocated every time.                              *)
SetCheckSkipped(t) ==
  /\ pc[t] = "lock"
  /\ Goto(t, "alloc")
  /\ UNCHANGED <<allocated, slot, deleted, functor, target, old, owned, lastSet, crashed>>

(* The mutex is locked and released; then the array is looked for.         *)
SetCheck(t) ==
  /\ pc[t] = "lock"
  /\ Goto(t, IF target[t][1] \in allocated THEN "take" ELSE "alloc")
  /\ UNCHANGED <<allocated, slot, deleted, functor, target, old, owned, lastSet, crashed>>

Delete(fs) == deleted' = [f \in Functors |-> IF f \in fs THEN deleted[f] + 1 ELSE deleted[f]]

(* A new array of null pointers replaces what callbacks[module] holds by   *)
(* now, and the functors in that array are deleted with it.                *)
SetAllocate(t) ==
  LET m == target[t][1]
  IN  /\ pc[t] = "alloc"
      /\ allocated' = allocated \cup {m}
      /\ Delete({slot[s] : s \in {s \in Slots : s[1] = m}})
      /\ slot' = [s \in Slots |-> IF s[1] = m THEN None ELSE slot[s]]
      /\ Goto(t, "take")
      /\ UNCHANGED <<functor, target, old, owned, lastSet, crashed>>

(* The allocation fails and is not checked: a null array is indexed.       *)
SetAllocateFails(t) ==
  /\ pc[t] = "alloc"
  /\ crashed' = TRUE
  /\ UNCHANGED <<allocated, slot, deleted, locals, owned, lastSet>>

(* unique_ptr::reset: fetch the old pointer, store the new one, delete the *)
(* old one.                                                                *)
ResetTake(t) ==
  /\ pc[t] = "take"
  /\ old' = [old EXCEPT ![t] = slot[target[t]]]
  /\ Goto(t, "put")
  /\ UNCHANGED <<allocated, slot, deleted, functor, target, owned, lastSet, crashed>>

(* Mutant: a functor that is set is not replaced.                          *)
ResetPutIfEmpty(t) ==
  /\ pc[t] = "put"
  /\ slot' = IF slot[target[t]] = None THEN [slot EXCEPT ![target[t]] = functor[t]] ELSE slot
  /\ lastSet' = [lastSet EXCEPT ![target[t]] = functor[t]]
  /\ Goto(t, "delete")
  /\ UNCHANGED <<allocated, deleted, functor, target, old, owned, crashed>>

ResetPut(t) ==
  /\ pc[t] = "put"
  /\ slot' = [slot EXCEPT ![target[t]] = functor[t]]
  /\ lastSet' = [lastSet EXCEPT ![target[t]] = functor[t]]
  /\ Goto(t, "delete")
  /\ UNCHANGED <<allocated, deleted, functor, target, old, owned, crashed>>

(* Mutant: the replaced functor leaks.                                     *)
ResetLeaks(t) ==
  /\ pc[t] = "delete"
  /\ owned' = owned \cup {functor[t]}
  /\ functor' = [functor EXCEPT ![t] = None]
  /\ target' = [target EXCEPT ![t] = <<>>]
  /\ old' = [old EXCEPT ![t] = None]
  /\ Goto(t, "idle")
  /\ UNCHANGED <<allocated, slot, deleted, lastSet, crashed>>

ResetDelete(t) ==
  /\ pc[t] = "delete"
  /\ Delete({old[t]})
  /\ owned' = owned \cup {functor[t]}
  /\ functor' = [functor EXCEPT ![t] = None]
  /\ target' = [target EXCEPT ![t] = <<>>]
  /\ old' = [old EXCEPT ![t] = None]
  /\ Goto(t, "idle")
  /\ UNCHANGED <<allocated, slot, lastSet, crashed>>

(* GetCallback, without any lock; nullptr means that nothing is called.    *)
GetCallback(t, in) ==
  /\ pc[t] = "idle"
  /\ in[1] \in allocated
  /\ slot[in] # None
  /\ functor' = [functor EXCEPT ![t] = slot[in]]
  /\ target' = [target EXCEPT ![t] = in]
  /\ Goto(t, "call")
  /\ UNCHANGED <<allocated, slot, deleted, old, owned, lastSet, crashed>>

CallFunctor(t) ==
  /\ pc[t] = "call"
  /\ functor' = [functor EXCEPT ![t] = None]
  /\ target' = [target EXCEPT ![t] = <<>>]
  /\ Goto(t, "idle")
  /\ UNCHANGED <<allocated, slot, deleted, old, owned, lastSet, crashed>>

-----------------------------------------------------------------------------
Setting(t) ==
  \/ \E f \in Functors, in \in Slots : SetCallback(t, f, in)
  \/ SetCheck(t) \/ SetAllocate(t) \/ SetAllocateFails(t)
  \/ ResetTake(t) \/ ResetPut(t) \/ ResetDelete(t)

Reading(t) == CallFunctor(t) \/ \E in \in Slots : GetCallback(t, in)

Next ==
  /\ ~crashed
  /\ (\E t \in Setters : Setting(t)) \/ (\E t \in Readers : Reading(t))

Spec == Init /\ [][Next]_vars

-----------------------------------------------------------------------------
(* Properties                                                              *)

(* A reader calls a functor through a raw pointer and without a lock       *)
(* (GlobalInfo.hpp:95): the functor is alive at least until its own slot   *)
(* is set again, whatever is set in other slots.                           *)
NoUseAfterDelete ==
  \A t \in Readers :
    pc[t] = "call" /\ lastSet[target[t]] = functor[t] => deleted[functor[t]] = 0

(* A functor that SetCallback has taken over is deleted at most once, and  *)
(* lives exactly as long as one slot holds it.                             *)
OneOwner ==
  \A f \in owned :
    \/ deleted[f] = 1 /\ \A s \in Slots : slot[s] # f
    \/ deleted[f] = 0 /\ \E t \in Setters : old[t] = f
    \/ deleted[f] = 0 /\ \E s \in Slots : \A r \in Slots : (slot[r] = f) <=> (r = s)

(* "This method is thread-safe" (GlobalInfo.hpp:109): when no SetCallback  *)
(* is running, every slot holds what was set there last.                   *)
SetTakesEffect ==
  (\A t \in Setters : pc[t] = "idle") => slot = lastSet
=============================================================================
