-------------------------------- MODULE Hooks --------------------------------
(***************************************************************************)
(* The hook arrays of libz80e/src/debugger/hooks.c: memory, register, port,*)
(* execution and LCD hooks, two arrays each but for the LCD. An array is a *)
(* sequence of slots; a slot holds the callback's data, or Free while its  *)
(* IN_USE flag is clear. Ranges and registers are part of the data.        *)
(***************************************************************************)
EXTENDS Integers, Sequences

CONSTANTS Kinds,           \* the arrays of struct hook_info
          ExecutionKinds,  \* those served by hook_add_to_execution_array
          Free,            \* IN_USE is clear
          Wild             \* whatever realloc returned, with IN_USE set

ASSUME KindsAssumption == ExecutionKinds \subseteq Kinds
ASSUME FreeAssumption == Free # Wild

VARIABLES callbacks,
          chunk            \* slots to begin with and to grow by: 10 in the code

hookVars == <<callbacks, chunk>>

Empty(n) == [i \in 1..n |-> Free]

(* create_hook_set, for one size out of several *)
InitHooks(sizes) ==
  /\ chunk \in sizes
  /\ callbacks = [kind \in Kinds |-> Empty(chunk)]

InUse(slot) == slot # Free

\* Mutant of Grown: every kind of array is cleared as hook_add_to_execution_array does it.
GrownAtTheFront(kind, s, n, fresh) ==
  [i \in 1..(Len(s) + n) |->
     IF i <= n THEN Free ELSE IF i <= Len(s) THEN s[i] ELSE fresh[i - Len(s)]]

(* The array with n more slots, after realloc and memset. Execution arrays    *)
(* are cleared at their first entries; of the new ones nothing is known but   *)
(* what is in `fresh'.                                                        *)
Grown(kind, s, n, fresh) ==
  IF kind \in ExecutionKinds
    THEN [i \in 1..(Len(s) + n) |->
            IF i <= n THEN Free ELSE IF i <= Len(s) THEN s[i] ELSE fresh[i - Len(s)]]
    ELSE s \o Empty(n)

IsFirstFree(s, from, i) ==
  /\ i \in from..Len(s) /\ ~InUse(s[i])
  /\ \A j \in from..(i - 1) : InUse(s[j])

(* hook_add_to_..._array: the first free slot, or the first free one of those *)
(* the array grew by. `i' is what it returns. At least one of the new entries *)
(* reads as free here; else the array would only grow once more.             *)
hook_add(kind, data, i) ==
  /\ \/ /\ IsFirstFree(callbacks[kind], 1, i)
        /\ callbacks' = [callbacks EXCEPT ![kind][i] = data]
     \/ /\ \A j \in DOMAIN callbacks[kind] : InUse(callbacks[kind][j])
        /\ \E fresh \in [1..chunk -> {Free, Wild}] :
             LET s == Grown(kind, callbacks[kind], chunk, fresh) IN
             /\ IsFirstFree(s, Len(callbacks[kind]) + 1, i)
             /\ callbacks' = [callbacks EXCEPT ![kind] = [s EXCEPT ![i] = data]]
  /\ UNCHANGED chunk

\* Mutant of Removed: the slot next to the one that is meant.
RemovedNext(s, slots) == [i \in DOMAIN s |-> IF i - 1 \in slots THEN Free ELSE s[i]]

(* hook_remove_...: the flags are cleared, whoever the slots belong to. *)
Removed(s, slots) == [i \in DOMAIN s |-> IF i \in slots THEN Free ELSE s[i]]

(* The slots hook_on_... calls, one after the other. *)
Called(kind) == {i \in DOMAIN callbacks[kind] : InUse(callbacks[kind][i])}
==============================================================================
