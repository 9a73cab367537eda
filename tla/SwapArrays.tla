---------------------------- MODULE SwapArrays ----------------------------
(***************************************************************************)
(* The growable arrays of the library.  EntityIdArray and ComponentArray   *)
(* (src/tc_entity_pool.c), ComponentList (src/tc_scene.c) and the instance *)
(* arrays of the extension registry are all a pointer, a count and a       *)
(* capacity; an element is removed by moving the last one over it, so that *)
(* removal reorders the array.  Here an array is the sequence of its items.*)
(***************************************************************************)
EXTENDS Integers, SequencesExt

FirstIndex(arr, x) ==
  CHOOSE k \in 1..Len(arr) : arr[k] = x /\ \A j \in 1..k-1 : arr[j] # x

\* arr without the item at position k: the last item takes its place.
SwapRemoveAt(arr, k) ==
  [j \in 1..Len(arr)-1 |-> IF j = k THEN Last(arr) ELSE arr[j]]

\* entity_id_array_remove, component_array_remove, list_remove: the first
\* occurrence goes; an array that does not hold x is left as it is.
SwapRemove(arr, x) ==
  IF Contains(arr, x) THEN SwapRemoveAt(arr, FirstIndex(arr, x)) ELSE arr

\* arr after each of the items was removed in turn.
RemovedInTurn(arr, items) ==
  LET after[k \in 0..Len(items)] ==
        IF k = 0 THEN arr ELSE SwapRemove(after[k-1], items[k])
  IN  after[Len(items)]
===========================================================================
