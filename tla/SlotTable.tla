----------------------------- MODULE SlotTable -----------------------------
(***************************************************************************)
(* A table of slots with generations and a stack of free ones, the shape   *)
(* that ScenePool (src/tc_scene.c) and EntityPoolRegistry                  *)
(* (src/tc_entity_pool_registry.c) share.  A table that does not exist yet *)
(* (g_registry = NULL) has capacity 0, which refuses every handle as the   *)
(* code does.  Generations do not wrap here; EntityPool is about that.     *)
(***************************************************************************)
EXTENDS Integers, SequencesExt

NewTable(cap) ==
  [capacity |-> cap,
   generations |-> [i \in 0..cap-1 |-> 0],
   alive |-> {},
   free_stack |-> [k \in 1..cap |-> cap - k],
   count |-> 0]

NoTable == NewTable(0)

FreshSlots(old, cap) == [k \in 1..cap - old |-> cap - k]

\* registry_grow, pool_grow: the capacity doubles up to a maximum.
Grown(t, max) ==
  LET cap == IF 2 * t.capacity > max THEN max ELSE 2 * t.capacity
  IN  IF cap <= t.capacity THEN t
      ELSE [t EXCEPT !.capacity = cap,
                     !.generations = [i \in 0..cap-1 |-> IF i < t.capacity THEN @[i] ELSE 0],
                     !.free_stack = @ \o FreshSlots(t.capacity, cap)]

\* Mutant: a full table is never grown.
ForAllocAsIs(t, initial, max) == IF t.capacity = 0 THEN NewTable(initial) ELSE t

\* The table an allocation takes its slot from: made on first use, grown
\* when no slot is free.
ForAlloc(t, initial, max) ==
  LET made == IF t.capacity = 0 THEN NewTable(initial) ELSE t
  IN  IF made.free_stack = <<>> THEN Grown(made, max) ELSE made

Full(t) == t.free_stack = <<>>

NextSlot(t) == Last(t.free_stack)

HandleAt(t, i) == [index |-> i, generation |-> t.generations[i]]

Taken(t) ==
  [t EXCEPT !.alive = @ \cup {NextSlot(t)}, !.free_stack = Front(@), !.count = @ + 1]

\* Mutant: the slot is reused under its old generation.
NextGenerationSame(g) == g

NextGeneration(g) == g + 1

Released(t, i) ==
  [t EXCEPT !.alive = @ \ {i}, !.generations[i] = NextGeneration(@),
            !.free_stack = Append(@, i), !.count = @ - 1]

\* Slots released one after another.
ReleasedInTurn(t, slots) ==
  [t EXCEPT !.alive = @ \ ToSet(slots),
            !.generations = [i \in 0..t.capacity-1 |->
                               IF i \in ToSet(slots) THEN NextGeneration(@[i]) ELSE @[i]],
            !.free_stack = @ \o slots, !.count = @ - Len(slots)]

\* handle_alive
HandleAlive(t, h) ==
  /\ h.index < t.capacity
  /\ h.index \in t.alive
  /\ t.generations[h.index] = h.generation

LiveHandles(t) == { HandleAt(t, i) : i \in t.alive }

\* Every slot is either alive or on the free stack, once, and count is exact.
Accounted(t) ==
  /\ IsInjective(t.free_stack)
  /\ t.alive \cap ToSet(t.free_stack) = {}
  /\ t.alive \cup ToSet(t.free_stack) = 0..t.capacity-1
  /\ t.count = Cardinality(t.alive)
============================================================================
