------------------------- MODULE EntityPool_proofs -------------------------
(***************************************************************************)
(* Theorems about EntityPool, for every capacity, every width of the       *)
(* generation counter and every set of uuids.                              *)
(***************************************************************************)
EXTENDS EntityPool, SwapArrays_proofs, FiniteSetTheorems

\* The bounds of the arrays, in the form the provers use.
LEMMA Bounds ==
  /\ MaxCapacity \in Nat \ {0}
  /\ InitialCapacity \in 1..MaxCapacity
  /\ GenerationMod \in Nat \ {0}
  /\ Slots = 0..MaxCapacity-1
  /\ Generations = 0..GenerationMod-1
  BY CapacityAssumption, GenerationAssumption DEF Slots, Generations

LEMMA BelowCapacity ==
  ASSUME NEW c \in Nat, c <= MaxCapacity
  PROVE  0..c-1 \subseteq Slots
  BY Bounds

LEMMA SlotsFinite == IsFiniteSet(Slots) /\ Cardinality(Slots) = MaxCapacity
<1>1. 0 \in Int /\ MaxCapacity-1 \in Int /\ MaxCapacity \in Nat \ {0}
  BY Bounds
<1>2. IsFiniteSet(0..MaxCapacity-1)
  BY <1>1, FS_Interval
<1>3. Cardinality(0..MaxCapacity-1) = IF 0 > MaxCapacity-1 THEN 0 ELSE MaxCapacity-1-0+1
  BY <1>1, FS_Interval
<1> QED
  BY <1>1, <1>2, <1>3 DEF Slots

LEMMA LiveSlotsFinite ==
  /\ IsFiniteSet(LiveSlots)
  /\ Cardinality(LiveSlots) \in 0..MaxCapacity
<1>1. LiveSlots \in SUBSET Slots
  BY DEF LiveSlots
<1>2. IsFiniteSet(LiveSlots) /\ Cardinality(LiveSlots) <= MaxCapacity
  BY <1>1, SlotsFinite, FS_Subset
<1>3. Cardinality(LiveSlots) \in Nat
  BY <1>2, FS_CardinalityType
<1> QED
  BY <1>2, <1>3, Bounds

\* The stack built by tc_entity_pool_create and pool_grow holds the new
\* slots, each once.
LEMMA FreshStackItems ==
  ASSUME NEW lo \in Nat, NEW hi \in Nat, lo <= hi
  PROVE  /\ FreshStack(lo, hi) \in Seq(lo..hi-1)
         /\ ToSet(FreshStack(lo, hi)) = lo..hi-1
         /\ IsInjective(FreshStack(lo, hi))
<1> DEFINE stack == FreshStack(lo, hi)
<1>1. stack \in [1..hi-lo -> lo..hi-1]
  BY DEF FreshStack
<1>2. \A k \in 1..hi-lo : stack[k] = hi-k
  BY DEF FreshStack
<1>3. ASSUME NEW i \in lo..hi-1 PROVE i \in ToSet(stack)
  <2>1. hi-i \in 1..hi-lo /\ stack[hi-i] = i
    BY <1>2
  <2> QED
    BY <1>1, <2>1 DEF ToSet
<1>4. ToSet(stack) = lo..hi-1
  BY <1>1, <1>3 DEF ToSet
<1>5. IsInjective(stack)
  BY <1>1, <1>2 DEF IsInjective
<1>6. stack \in Seq(lo..hi-1)
  BY <1>1
<1> QED
  BY <1>4, <1>5, <1>6

-----------------------------------------------------------------------------
\* What a growing or a non-growing allocation finds: a stack that holds, once
\* each, exactly the unoccupied slots below the capacity, and is not empty.
LEMMA StackBeforeAlloc ==
  ASSUME TypeOK, SlotAccounting, CapacityForAlloc <= MaxCapacity
  PROVE  /\ CapacityForAlloc \in capacity..MaxCapacity
         /\ StackForAlloc \in Seq(Slots)
         /\ StackForAlloc # <<>>
         /\ IsInjective(StackForAlloc)
         /\ ToSet(StackForAlloc) = { i \in 0..CapacityForAlloc-1 : ~alive[i] }
<1>1. capacity \in Nat \ {0} /\ capacity <= MaxCapacity
  BY Bounds DEF TypeOK
<1>2. CASE NeedsGrow
  <2>1. CapacityForAlloc = 2 * capacity /\ StackForAlloc = FreshStack(capacity, 2 * capacity)
    BY <1>2 DEF CapacityForAlloc, StackForAlloc
  <2>2. 2 * capacity \in Nat /\ capacity < 2 * capacity /\ 2 * capacity <= MaxCapacity
    BY <1>1, <2>1
  <2>3. /\ StackForAlloc \in Seq(capacity..2 * capacity - 1)
        /\ ToSet(StackForAlloc) = capacity..2 * capacity - 1
        /\ IsInjective(StackForAlloc)
    BY <1>1, <2>1, <2>2, FreshStackItems
  <2>4. \A i \in 0..capacity-1 : alive[i]
    <3>1. ToSet(free_stack) = {}
      BY <1>2 DEF NeedsGrow, ToSet
    <3> QED
      BY <3>1 DEF SlotAccounting
  <2>5. \A i \in capacity..2 * capacity - 1 : i \in Slots /\ ~alive[i]
    BY <1>1, <2>2, Bounds DEF SlotAccounting, LiveSlots
  <2>6. ToSet(StackForAlloc) = { i \in 0..2 * capacity - 1 : ~alive[i] }
    BY <1>1, <2>3, <2>4, <2>5
  <2>7. StackForAlloc \in Seq(Slots)
    <3>1. capacity..2 * capacity - 1 \subseteq Slots
      BY <2>5
    <3> QED
      BY <2>3, <3>1, SeqMonotonic
  <2>8. StackForAlloc # <<>>
    <3>1. capacity \in ToSet(StackForAlloc)
      BY <1>1, <2>2, <2>3
    <3> QED
      BY <3>1 DEF ToSet
  <2>9. CapacityForAlloc \in capacity..MaxCapacity
    BY <1>1, <2>1, <2>2, Bounds
  <2>10. ToSet(StackForAlloc) = { i \in 0..CapacityForAlloc-1 : ~alive[i] }
    BY <2>1, <2>6
  <2>11. IsInjective(StackForAlloc)
    BY <2>1, <2>3
  <2> QED
    BY <2>7, <2>8, <2>9, <2>10, <2>11
<1>3. CASE ~NeedsGrow
  <2>1. CapacityForAlloc = capacity /\ StackForAlloc = free_stack /\ free_stack # <<>>
    BY <1>3 DEF CapacityForAlloc, StackForAlloc, NeedsGrow
  <2>2. free_stack \in Seq(Slots)
    BY DEF TypeOK
  <2>3. IsInjective(free_stack) /\ ToSet(free_stack) = { i \in 0..capacity-1 : ~alive[i] }
    BY DEF SlotAccounting
  <2>4. capacity \in capacity..MaxCapacity
    BY <1>1, Bounds
  <2> QED
    BY <2>1, <2>2, <2>3, <2>4
<1> QED
  BY <1>2, <1>3

\* The slot an allocation takes is free, lies below the new capacity, and is
\* no longer on the stack afterwards.
LEMMA AllocatedSlot ==
  ASSUME TypeOK, SlotAccounting, NEW u \in Uuid, Alloc(u),
         NEW idx, idx = Last(StackForAlloc)
  PROVE  /\ idx \in Slots /\ idx < capacity' /\ ~alive[idx]
         /\ capacity' \in capacity..MaxCapacity
         /\ free_stack' \in Seq(Slots)
         /\ IsInjective(free_stack')
         /\ ToSet(free_stack') = { i \in 0..capacity'-1 : ~alive[i] } \ {idx}
<1>1. CapacityForAlloc <= MaxCapacity /\ capacity' = CapacityForAlloc
      /\ free_stack' = Front(StackForAlloc)
  BY DEF Alloc
<1>2. /\ CapacityForAlloc \in capacity..MaxCapacity
      /\ StackForAlloc \in Seq(Slots)
      /\ StackForAlloc # <<>>
      /\ IsInjective(StackForAlloc)
      /\ ToSet(StackForAlloc) = { i \in 0..CapacityForAlloc-1 : ~alive[i] }
  BY <1>1, StackBeforeAlloc
<1>3. /\ Last(StackForAlloc) \in ToSet(StackForAlloc)
      /\ Front(StackForAlloc) \in Seq(Slots)
      /\ ToSet(Front(StackForAlloc)) = ToSet(StackForAlloc) \ {Last(StackForAlloc)}
      /\ IsInjective(Front(StackForAlloc))
  BY <1>2, FrontItems
<1>4. capacity \in 1..MaxCapacity
  BY Bounds DEF TypeOK
<1>5. idx \in 0..CapacityForAlloc-1 /\ ~alive[idx]
  BY <1>2, <1>3
<1>6. idx \in Slots /\ idx < CapacityForAlloc
  BY <1>2, <1>4, <1>5, Bounds
<1> QED
  BY <1>1, <1>2, <1>3, <1>5, <1>6
-----------------------------------------------------------------------------
(* Types and the free stack.  TypeOK alone is not inductive: that count and *)
(* the slot popped stay in range rests on the accounting of slots.          *)

\* The pool starts typed, with every slot on the free stack.
LEMMA InitAccounting == Init => TypeOK /\ SlotAccounting
<1> SUFFICES ASSUME Init PROVE TypeOK /\ SlotAccounting
  OBVIOUS
<1>1. /\ free_stack \in Seq(0..InitialCapacity-1)
      /\ ToSet(free_stack) = 0..InitialCapacity-1
      /\ IsInjective(free_stack)
  BY Bounds, FreshStackItems DEF Init
<1>2. free_stack \in Seq(Slots)
  <2>1. 0..InitialCapacity-1 \subseteq Slots
    BY Bounds
  <2> QED
    BY <1>1, <2>1, SeqMonotonic
<1>3. LiveSlots = {} /\ Cardinality(LiveSlots) = 0
  BY FS_EmptySet DEF LiveSlots, Init
<1>4. TypeOK
  BY <1>2, Bounds, PickIdAssumption DEF Init, TypeOK
<1>5. SlotAccounting
  <2>1. { i \in 0..capacity-1 : ~alive[i] } = 0..InitialCapacity-1
    BY Bounds DEF Init
  <2> QED
    BY <1>1, <1>3, <2>1 DEF Init, SlotAccounting
<1> QED
  BY <1>4, <1>5

\* Leaving the parent's array leaves arrays of ids.
LEMMA WithoutChildType ==
  ASSUME TypeOK, NEW id
  PROVE  WithoutChild(id) \in [Slots -> Seq(EntityId)]
<1>1. \A i \in Slots : SwapRemove(children[i], id) \in Seq(EntityId)
  BY SwapRemoveType DEF TypeOK
<1> QED
  BY <1>1 DEF WithoutChild, TypeOK

LEMMA IdAtType ==
  ASSUME TypeOK, NEW i \in Slots
  PROVE  IdAt(i) \in EntityId /\ IdAt(i) # NoId
  BY NoIdAssumption DEF IdAt, TypeOK, EntityId

\* A living id is the id of the occupant of its slot.
LEMMA LiveIdFacts ==
  ASSUME TypeOK, NEW id \in LiveIds
  PROVE  id \in EntityId /\ id.index \in LiveSlots /\ id = IdAt(id.index)
<1>1. PICK i \in LiveSlots : id = IdAt(i)
  BY DEF LiveIds
<1>2. i \in Slots
  BY DEF LiveSlots
<1> QED
  BY <1>1, <1>2, IdAtType DEF IdAt

LEMMA AllocAccounting ==
  ASSUME TypeOK, SlotAccounting, NEW u \in Uuid, Alloc(u)
  PROVE  TypeOK' /\ SlotAccounting'
<1> DEFINE idx == Last(StackForAlloc)
<1>1. /\ idx \in Slots /\ idx < capacity' /\ ~alive[idx]
      /\ capacity' \in capacity..MaxCapacity
      /\ free_stack' \in Seq(Slots)
      /\ IsInjective(free_stack')
      /\ ToSet(free_stack') = { i \in 0..capacity'-1 : ~alive[i] } \ {idx}
  BY AllocatedSlot
<1>2. IdAt(idx) \in EntityId
  BY <1>1, IdAtType
<1>3. /\ alive' = [alive EXCEPT ![idx] = TRUE]
      /\ count' = count + 1
      /\ parent_ids' = [parent_ids EXCEPT ![idx] = NoId]
      /\ children' = [children EXCEPT ![idx] = <<>>]
      /\ uuids' = [uuids EXCEPT ![idx] = u]
      /\ pick_ids' = [pick_ids EXCEPT ![idx] = next_pick_id]
      /\ next_pick_id <= MaxPickId
      /\ next_pick_id' = next_pick_id + 1
      /\ by_uuid' = [by_uuid EXCEPT ![u] = IdAt(idx)]
      /\ by_pick_id' = [by_pick_id EXCEPT ![next_pick_id] = IdAt(idx)]
      /\ UNCHANGED <<generations, retired>>
  BY DEF Alloc
<1> HIDE DEF idx
<1>4. LiveSlots' = LiveSlots \cup {idx} /\ idx \notin LiveSlots
  BY <1>1, <1>3 DEF LiveSlots, TypeOK
<1>5. Cardinality(LiveSlots') = Cardinality(LiveSlots) + 1
  BY <1>4, LiveSlotsFinite, FS_AddElement
<1>6. Cardinality(LiveSlots') \in 0..MaxCapacity
  <2>1. LiveSlots' \in SUBSET Slots
    BY <1>1, <1>4 DEF LiveSlots
  <2>2. IsFiniteSet(LiveSlots') /\ Cardinality(LiveSlots') <= MaxCapacity
    BY <2>1, SlotsFinite, FS_Subset
  <2> QED
    BY <2>2, FS_CardinalityType, Bounds
<1>7. TypeOK'
  <2>1. capacity' \in InitialCapacity..MaxCapacity
    BY <1>1, Bounds DEF TypeOK
  <2>2. count' \in 0..MaxCapacity
    BY <1>3, <1>5, <1>6 DEF SlotAccounting
  <2>3. next_pick_id' \in 1..MaxPickId+1 /\ next_pick_id \in PickId
    BY <1>3, PickIdAssumption DEF TypeOK, PickId
  <2> QED
    BY <1>1, <1>2, <1>3, <2>1, <2>2, <2>3 DEF TypeOK, PickId
<1>8. SlotAccounting'
  <2>0. capacity \in Nat /\ capacity' \in Nat /\ capacity <= capacity' /\ capacity' <= MaxCapacity
    <3>1. capacity \in Nat
      BY Bounds DEF TypeOK
    <3> QED
      BY <1>1, <3>1, Bounds
  <2>1. { i \in 0..capacity'-1 : ~alive'[i] } = { i \in 0..capacity'-1 : ~alive[i] } \ {idx}
    <3>1. \A i \in 0..capacity'-1 : i \in Slots
      BY <2>0, BelowCapacity
    <3> QED
      BY <1>3, <3>1 DEF TypeOK
  <2>2. \A i \in LiveSlots' : i < capacity'
    <3>1. \A i \in LiveSlots : i \in Nat /\ i < capacity
      BY Bounds DEF SlotAccounting, LiveSlots
    <3> QED
      BY <1>1, <1>4, <2>0, <3>1
  <2> QED
    BY <1>1, <1>3, <1>5, <2>1, <2>2 DEF SlotAccounting
<1> QED
  BY <1>7, <1>8

LEMMA FreeAccounting ==
  ASSUME TypeOK, SlotAccounting, NEW id \in LiveIds, Free(id)
  PROVE  TypeOK' /\ SlotAccounting'
<1> DEFINE idx == id.index
<1>1. id \in EntityId /\ idx \in LiveSlots /\ idx \in Slots /\ alive[idx] /\ idx < capacity
  BY LiveIdFacts DEF SlotAccounting, LiveSlots
<1>2. /\ parent_ids' = Orphaned(idx, WithoutChild(id))
      /\ children' = [WithoutChild(id) EXCEPT ![idx] = <<>>]
      /\ by_uuid' = [u \in Uuid |-> IF u = uuids[idx] THEN NoId ELSE by_uuid[u]]
      /\ uuids' = [uuids EXCEPT ![idx] = NoUuid]
      /\ by_pick_id' = [by_pick_id EXCEPT ![pick_ids[idx]] = NoId]
      /\ alive' = [alive EXCEPT ![idx] = FALSE]
      /\ generations' = [generations EXCEPT ![idx] = NextGeneration(@)]
      /\ free_stack' = Append(free_stack, idx)
      /\ count' = count - 1
      /\ retired' = retired \cup {id}
      /\ UNCHANGED <<capacity, pick_ids, next_pick_id>>
  BY DEF Free
<1> HIDE DEF idx
<1>3. LiveSlots' = LiveSlots \ {idx}
  BY <1>1, <1>2 DEF LiveSlots, TypeOK
<1>4. /\ Cardinality(LiveSlots') = Cardinality(LiveSlots) - 1
      /\ IsFiniteSet(LiveSlots')
  BY <1>1, <1>3, LiveSlotsFinite, FS_RemoveElement
<1>5. idx \notin ToSet(free_stack)
  BY <1>1 DEF SlotAccounting
<1>6. /\ free_stack' \in Seq(Slots)
      /\ ToSet(free_stack') = ToSet(free_stack) \cup {idx}
      /\ IsInjective(free_stack')
  BY <1>1, <1>2, <1>5, AppendItems DEF TypeOK, SlotAccounting
<1>7. TypeOK'
  <2>1. count' \in 0..MaxCapacity
    <3>1. Cardinality(LiveSlots') \in Nat
      BY <1>4, FS_CardinalityType
    <3>2. count = Cardinality(LiveSlots) /\ count' = Cardinality(LiveSlots) - 1
      BY <1>2 DEF SlotAccounting
    <3>3. Cardinality(LiveSlots) \in 0..MaxCapacity
      BY LiveSlotsFinite
    <3> HIDE DEF LiveSlots
    <3> QED
      BY <1>4, <3>1, <3>2, <3>3, Bounds
  <2>2. generations' \in [Slots -> Generations]
    <3>1. \A g \in Generations : NextGeneration(g) \in Generations
      BY Bounds DEF NextGeneration
    <3> QED
      BY <1>1, <1>2, <3>1 DEF TypeOK
  <2>3. parent_ids' \in [Slots -> EntityId \cup {NoId}]
    BY <1>2 DEF Orphaned, TypeOK
  <2>4. children' \in [Slots -> Seq(EntityId)]
    <3>1. WithoutChild(id) \in [Slots -> Seq(EntityId)]
      BY WithoutChildType
    <3>2. <<>> \in Seq(EntityId)
      OBVIOUS
    <3> QED
      BY <1>2, <3>1, <3>2
  <2> QED
    BY <1>1, <1>2, <1>6, <2>1, <2>2, <2>3, <2>4 DEF TypeOK
<1>8. SlotAccounting'
  <2>1. { i \in 0..capacity-1 : ~alive'[i] } = { i \in 0..capacity-1 : ~alive[i] } \cup {idx}
    <3>1. \A i \in 0..capacity-1 : i \in Slots
      BY Bounds DEF TypeOK
    <3>2. idx \in 0..capacity-1
      BY <1>1, Bounds DEF TypeOK
    <3> QED
      BY <1>2, <3>1, <3>2 DEF TypeOK
  <2> QED
    BY <1>2, <1>3, <1>4, <1>6, <2>1 DEF SlotAccounting
<1> QED
  BY <1>7, <1>8

LEMMA SetUuidAccounting ==
  ASSUME TypeOK, SlotAccounting, NEW id \in LiveIds, NEW u \in Uuid, SetUuid(id, u)
  PROVE  TypeOK' /\ SlotAccounting'
<1>1. id \in EntityId /\ id.index \in Slots
  BY LiveIdFacts DEF LiveSlots
<1>2. Renamed(id, u) \in [Uuid -> EntityId \cup {NoId}]
  BY <1>1 DEF Renamed, TypeOK
<1>3. TypeOK'
  BY <1>1, <1>2 DEF SetUuid, TypeOK, slotVars, treeVars
<1> QED
  BY <1>3 DEF SetUuid, SlotAccounting, LiveSlots, slotVars

LEMMA SetParentAccounting ==
  ASSUME TypeOK, SlotAccounting, NEW id \in LiveIds,
         NEW parent \in LiveIds \cup retired \cup {NoId}, SetParent(id, parent)
  PROVE  TypeOK' /\ SlotAccounting'
<1>1. id \in EntityId /\ id.index \in Slots
  BY LiveIdFacts DEF LiveSlots
<1>2. WithoutChild(id) \in [Slots -> Seq(EntityId)]
  BY WithoutChildType
<1>3. Alive(parent) => parent \in EntityId /\ parent.index \in Slots
  <2>1. parent \in EntityId \cup {NoId}
    BY LiveIdFacts DEF TypeOK
  <2> QED
    BY <2>1 DEF Alive, EntityId
<1>4. /\ parent_ids' \in [Slots -> EntityId \cup {NoId}]
      /\ children' \in [Slots -> Seq(EntityId)]
  <2>1. CASE Alive(parent)
    <3>1. Append(WithoutChild(id)[parent.index], id) \in Seq(EntityId)
      <4>1. WithoutChild(id)[parent.index] \in Seq(EntityId)
        BY <1>2, <1>3, <2>1
      <4> QED
        BY <1>1, <4>1, AppendItems
    <3>2. /\ parent_ids' = [parent_ids EXCEPT ![id.index] = parent]
          /\ children' = [WithoutChild(id) EXCEPT
                           ![parent.index] = Append(WithoutChild(id)[parent.index], id)]
      BY <2>1 DEF SetParent
    <3>3. parent_ids' \in [Slots -> EntityId \cup {NoId}]
      BY <1>1, <1>3, <2>1, <3>2 DEF TypeOK
    <3>4. children' \in [Slots -> Seq(EntityId)]
      BY <1>2, <3>1, <3>2
    <3> QED
      BY <3>3, <3>4
  <2>2. CASE ~Alive(parent)
    BY <1>1, <1>2, <2>2 DEF SetParent, TypeOK
  <2> QED
    BY <2>1, <2>2
<1>5. UNCHANGED <<slotVars, nameVars>>
  BY DEF SetParent
<1>6. TypeOK'
  BY <1>4, <1>5 DEF TypeOK, slotVars, nameVars
<1> QED
  BY <1>5, <1>6 DEF SlotAccounting, LiveSlots, slotVars

LEMMA NextAccounting == TypeOK /\ SlotAccounting /\ [Next]_vars => TypeOK' /\ SlotAccounting'
<1> SUFFICES ASSUME TypeOK, SlotAccounting, [Next]_vars PROVE TypeOK' /\ SlotAccounting'
  OBVIOUS
<1>1. ASSUME NEW u \in Uuid, Alloc(u) PROVE TypeOK' /\ SlotAccounting'
  BY <1>1, AllocAccounting
<1>2. ASSUME NEW id \in LiveIds, Free(id) PROVE TypeOK' /\ SlotAccounting'
  BY <1>2, FreeAccounting
<1>3. ASSUME NEW id \in LiveIds, NEW u \in Uuid, SetUuid(id, u) PROVE TypeOK' /\ SlotAccounting'
  BY <1>3, SetUuidAccounting
<1>4. ASSUME NEW id \in LiveIds, NEW parent \in LiveIds \cup retired \cup {NoId},
             SetParent(id, parent)
      PROVE  TypeOK' /\ SlotAccounting'
  BY <1>4, SetParentAccounting
<1>5. CASE UNCHANGED vars
  BY <1>5 DEF vars, slotVars, treeVars, nameVars, TypeOK, SlotAccounting, LiveSlots
<1> QED
  BY <1>1, <1>2, <1>3, <1>4, <1>5 DEF Next

\* Every array of the pool keeps its type, for every capacity and however
\* often the pool grows: no slot index, generation or count goes out of range.
THEOREM TypeCorrect == Spec => []TypeOK
<1>1. Spec => [](TypeOK /\ SlotAccounting)
  BY InitAccounting, NextAccounting, PTL DEF Spec
<1> QED
  BY <1>1, PTL

\* Every slot is occupied or on the free stack, never both and never twice:
\* the pool cannot hand one slot to two entities (tc_entity_pool_alloc,
\* tc_entity_pool_free, pool_grow).
THEOREM SlotsAccountedFor == Spec => []SlotAccounting
<1>1. Spec => [](TypeOK /\ SlotAccounting)
  BY InitAccounting, NextAccounting, PTL DEF Spec
<1> QED
  BY <1>1, PTL
-----------------------------------------------------------------------------
(* Generations and retired ids.  StaleIdsStayDead is not inductive: it says *)
(* nothing of the ids a later allocation will hand out.                     *)

\* The retired ids of a slot are those of the generations below its present
\* one, until the counter has gone all the way round.
GenerationHistory ==
  \A i \in Slots :
    \/ Exhausted(i)
    \/ \A g \in Generations :
         [index |-> i, generation |-> g] \in retired <=> g < generations[i]

PoolInv == TypeOK /\ SlotAccounting /\ GenerationHistory

LEMMA InitHistory == Init => GenerationHistory
<1> SUFFICES ASSUME Init PROVE GenerationHistory
  OBVIOUS
<1>1. \A i \in Slots : generations[i] = 0
  BY DEF Init
<1>2. \A g \in Generations : ~(g < 0)
  BY Bounds
<1> QED
  BY <1>1, <1>2 DEF Init, GenerationHistory

\* A slot that no free touches keeps its history.
LEMMA SameHistory ==
  ASSUME GenerationHistory, UNCHANGED <<generations, retired>>
  PROVE  GenerationHistory'
  BY DEF GenerationHistory, Exhausted

LEMMA FreeHistory ==
  ASSUME TypeOK, GenerationHistory, NEW id \in LiveIds, Free(id)
  PROVE  GenerationHistory'
<1> DEFINE idx == id.index
<1>1. idx \in Slots /\ id = [index |-> idx, generation |-> generations[idx]]
  BY LiveIdFacts DEF LiveSlots, IdAt
<1>2. /\ generations' = [generations EXCEPT ![idx] = NextGeneration(@)]
      /\ retired' = retired \cup {id}
  BY DEF Free
<1> HIDE DEF idx
<1>3. generations \in [Slots -> Generations]
  BY DEF TypeOK
<1> SUFFICES ASSUME NEW i \in Slots
             PROVE  \/ Exhausted(i)'
                    \/ \A g \in Generations :
                         [index |-> i, generation |-> g] \in retired' <=> g < generations'[i]
  BY DEF GenerationHistory
<1>4. CASE Exhausted(i)
  BY <1>2, <1>4 DEF Exhausted
<1>5. CASE ~Exhausted(i) /\ i # idx
  <2>1. generations'[i] = generations[i]
    BY <1>2, <1>3, <1>5
  <2>2. \A g \in Generations :
          [index |-> i, generation |-> g] \in retired' <=> [index |-> i, generation |-> g] \in retired
    BY <1>1, <1>2, <1>5
  <2> QED
    BY <1>5, <2>1, <2>2 DEF GenerationHistory
<1>6. CASE ~Exhausted(i) /\ i = idx
  <2> DEFINE last == generations[idx]
  <2>1. last \in Generations /\ generations'[idx] = NextGeneration(last)
    BY <1>1, <1>2, <1>3
  <2>2. \A g \in Generations :
          [index |-> idx, generation |-> g] \in retired' <=> g < last \/ g = last
    <3>1. \A g \in Generations : [index |-> idx, generation |-> g] \in retired <=> g < last
      BY <1>1, <1>6 DEF GenerationHistory
    <3>2. \A g \in Generations : [index |-> idx, generation |-> g] = id <=> g = last
      BY <1>1
    <3> QED
      BY <1>2, <3>1, <3>2
  <2> HIDE DEF last
  <2>3. CASE last + 1 = GenerationMod
    <3>1. \A g \in Generations : g < last \/ g = last
      BY <2>1, <2>3, Bounds
    <3> QED
      BY <1>6, <2>2, <3>1 DEF Exhausted
  <2>4. CASE last + 1 # GenerationMod
    <3>1. NextGeneration(last) = last + 1
      BY <2>1, <2>4, Bounds DEF NextGeneration
    <3>2. \A g \in Generations : g < last + 1 <=> g < last \/ g = last
      BY <2>1, Bounds
    <3> QED
      BY <1>6, <2>1, <2>2, <3>1, <3>2
  <2> QED
    BY <2>3, <2>4
<1> QED
  BY <1>4, <1>5, <1>6

LEMMA NextHistory == PoolInv /\ [Next]_vars => GenerationHistory'
<1> SUFFICES ASSUME PoolInv, [Next]_vars PROVE GenerationHistory'
  OBVIOUS
<1> USE DEF PoolInv
<1>1. ASSUME NEW u \in Uuid, Alloc(u) PROVE GenerationHistory'
  BY <1>1, SameHistory DEF Alloc
<1>2. ASSUME NEW id \in LiveIds, Free(id) PROVE GenerationHistory'
  BY <1>2, FreeHistory
<1>3. ASSUME NEW id \in LiveIds, NEW u \in Uuid, SetUuid(id, u) PROVE GenerationHistory'
  BY <1>3, SameHistory DEF SetUuid, slotVars
<1>4. ASSUME NEW id \in LiveIds, NEW parent \in LiveIds \cup retired \cup {NoId},
             SetParent(id, parent)
      PROVE  GenerationHistory'
  BY <1>4, SameHistory DEF SetParent, slotVars
<1>5. CASE UNCHANGED vars
  BY <1>5, SameHistory DEF vars, slotVars
<1> QED
  BY <1>1, <1>2, <1>3, <1>4, <1>5 DEF Next

LEMMA PoolInvariant == Spec => []PoolInv
<1>1. Init => PoolInv
  BY InitAccounting, InitHistory DEF PoolInv
<1>2. PoolInv /\ [Next]_vars => PoolInv'
  BY NextAccounting, NextHistory DEF PoolInv
<1> QED
  BY <1>1, <1>2, PTL DEF Spec

\* The present generation of a slot is not among its retired ones.
LEMMA PresentIdIsFresh ==
  ASSUME PoolInv, NEW i \in Slots
  PROVE  IdAt(i) \notin retired \/ Exhausted(i)
<1>1. generations[i] \in Generations /\ ~(generations[i] < generations[i])
  BY Bounds DEF PoolInv, TypeOK
<1> QED
  BY <1>1 DEF PoolInv, GenerationHistory, IdAt

\* A freed id never denotes an entity again before the generation counter of
\* its slot has wrapped (docs/gotchas.md, "Generational handles";
\* tc_entity_pool_alive against tc_entity_pool_free and _alloc).
THEOREM StaleIdsNeverRevive == Spec => []StaleIdsStayDead
<1>1. PoolInv => StaleIdsStayDead
  <2> SUFFICES ASSUME PoolInv, NEW id \in retired, Alive(id) PROVE Exhausted(id.index)
    BY DEF StaleIdsStayDead
  <2>1. id \in EntityId /\ id.index \in Slots
    BY DEF PoolInv, TypeOK, EntityId
  <2>2. id = IdAt(id.index)
    BY <2>1 DEF Alive, IdAt, EntityId
  <2> QED
    BY <2>1, <2>2, PresentIdIsFresh
<1> QED
  BY <1>1, PoolInvariant, PTL
-----------------------------------------------------------------------------
(* The pool implements HandleStore.                                         *)

LEMMA AllocIssues ==
  ASSUME PoolInv, NEW u \in Uuid, Alloc(u)
  PROVE  \E h \in Store!Handle : Store!Issue(h)
<1> DEFINE idx == Last(StackForAlloc)
<1>1. idx \in Slots /\ ~alive[idx]
  BY AllocatedSlot DEF PoolInv
<1>2. alive' = [alive EXCEPT ![idx] = TRUE] /\ UNCHANGED <<generations, retired>>
  BY DEF Alloc
<1> HIDE DEF idx
<1>3. LiveSlots' = LiveSlots \cup {idx} /\ idx \notin LiveSlots
  BY <1>1, <1>2 DEF LiveSlots, PoolInv, TypeOK
<1>4. LiveIds' = LiveIds \cup {IdAt(idx)}
  BY <1>2, <1>3 DEF LiveIds, IdAt
<1>5. \A other \in LiveIds : other.index # IdAt(idx).index
  BY <1>3 DEF LiveIds, IdAt
<1>6. IdAt(idx) \in Store!Handle /\ IdAt(idx).index = idx
  BY <1>1, IdAtType DEF PoolInv, EntityId, Store!Handle, IdAt
<1>7. IdAt(idx) \notin retired \/ Store!Exhausted(idx)
  BY <1>1, PresentIdIsFresh DEF Exhausted, Store!Exhausted
<1> QED
  BY <1>2, <1>4, <1>5, <1>6, <1>7 DEF Store!Issue

LEMMA FreeReleases ==
  ASSUME PoolInv, NEW id \in LiveIds, Free(id)
  PROVE  id \in Store!Handle /\ Store!Release(id)
<1> DEFINE idx == id.index
<1>1. id \in EntityId /\ idx \in LiveSlots /\ id = IdAt(idx)
  BY LiveIdFacts DEF PoolInv
<1>2. /\ alive' = [alive EXCEPT ![idx] = FALSE]
      /\ generations' = [generations EXCEPT ![idx] = NextGeneration(@)]
      /\ retired' = retired \cup {id}
  BY DEF Free
<1> HIDE DEF idx
<1>3. LiveSlots' = LiveSlots \ {idx}
  BY <1>1, <1>2 DEF LiveSlots, PoolInv, TypeOK
<1>4. \A i \in LiveSlots \ {idx} : IdAt(i)' = IdAt(i) /\ IdAt(i) # id
  BY <1>1, <1>2 DEF IdAt, PoolInv, TypeOK, LiveSlots
<1>5. LiveIds' = LiveIds \ {id}
  BY <1>1, <1>3, <1>4 DEF LiveIds
<1> QED
  BY <1>1, <1>2, <1>5 DEF Store!Release, Store!Handle, EntityId

LEMMA StepImplementsStore == PoolInv /\ [Next]_vars => [Store!Next]_(Store!handles)
<1> SUFFICES ASSUME PoolInv, [Next]_vars PROVE [Store!Next]_(Store!handles)
  OBVIOUS
<1>1. ASSUME NEW u \in Uuid, Alloc(u) PROVE Store!Next
  BY <1>1, AllocIssues DEF Store!Next
<1>2. ASSUME NEW id \in LiveIds, Free(id) PROVE Store!Next
  BY <1>2, FreeReleases DEF Store!Next
<1>3. ASSUME UNCHANGED slotVars PROVE UNCHANGED Store!handles
  BY <1>3 DEF slotVars, Store!handles, LiveIds, LiveSlots, IdAt
<1>4. ASSUME NEW id \in LiveIds, NEW u \in Uuid, SetUuid(id, u) PROVE UNCHANGED slotVars
  BY <1>4 DEF SetUuid, slotVars
<1>5. ASSUME NEW id \in LiveIds, NEW parent \in LiveIds \cup retired \cup {NoId},
             SetParent(id, parent)
      PROVE  UNCHANGED slotVars
  BY <1>5 DEF SetParent, slotVars
<1>6. CASE UNCHANGED vars
  BY <1>3, <1>6 DEF vars
<1> QED
  BY <1>1, <1>2, <1>3, <1>4, <1>5, <1>6 DEF Next

\* The pool is an implementation of the abstract handle store: every
\* allocation issues a handle of a slot nothing lives in, every free releases
\* one, and no other operation touches which handles are valid.
THEOREM PoolImplementsStore == Spec => ImplementsHandleStore
<1>1. Init => Store!Init
  BY DEF Init, Store!Init, LiveIds, LiveSlots
<1>2. PoolInv /\ [Next]_vars => [Store!Next]_(Store!handles)
  BY StepImplementsStore
<1> QED
  BY <1>1, <1>2, PoolInvariant, PTL DEF Spec, ImplementsHandleStore, Store!Spec

-----------------------------------------------------------------------------
(* The hierarchy: parent_ids and children stay two views of one relation    *)
(* through every alloc, free and set_parent.                                *)
(*                                                                          *)
(* The argument is about slots: a living id is the id of the occupant of    *)
(* its slot, so two living ids with one index are one id.                   *)

\* A living id, said of its slot.
Occupant(id) == id.index \in LiveSlots /\ id = IdAt(id.index)

PointBack(i) ==
  /\ IsInjective(children[i])
  /\ \A c \in ToSet(children[i]) : Occupant(c) /\ parent_ids[c.index] = IdAt(i)

HeldByParent(i) ==
  parent_ids[i] # NoId =>
    Occupant(parent_ids[i]) /\ IdAt(i) \in ToSet(children[parent_ids[i].index])

\* HierarchyAgrees, said of slots.
Links == \A i \in LiveSlots : PointBack(i) /\ HeldByParent(i)

LEMMA OccupantIsAlive ==
  ASSUME TypeOK, SlotAccounting, NEW id \in EntityId
  PROVE  Alive(id) <=> Occupant(id)
<1>1. id # NoId /\ id.index \in Slots
  BY NoIdAssumption DEF EntityId
<1>2. id = IdAt(id.index) <=> generations[id.index] = id.generation
  BY DEF IdAt, EntityId
<1>3. id.index \in LiveSlots <=> alive[id.index] /\ id.index < capacity
  BY <1>1 DEF LiveSlots, SlotAccounting
<1> QED
  BY <1>1, <1>2, <1>3 DEF Alive, Occupant

LEMMA LinksMeaning == TypeOK /\ SlotAccounting => (Links <=> HierarchyAgrees)
<1> SUFFICES ASSUME TypeOK, SlotAccounting, NEW i \in LiveSlots
             PROVE  PointBack(i) /\ HeldByParent(i) <=>
                      /\ IsInjective(children[i])
                      /\ \A c \in ToSet(children[i]) : Alive(c) /\ parent_ids[c.index] = IdAt(i)
                      /\ parent_ids[i] # NoId =>
                           /\ Alive(parent_ids[i])
                           /\ Contains(children[parent_ids[i].index], IdAt(i))
  BY DEF Links, HierarchyAgrees
<1>1. i \in Slots /\ children[i] \in Seq(EntityId) /\ parent_ids[i] \in EntityId \cup {NoId}
  BY DEF LiveSlots, TypeOK
<1>2. \A c \in ToSet(children[i]) : c \in EntityId
  BY <1>1 DEF ToSet
<1>3. \A c \in ToSet(children[i]) : Alive(c) <=> Occupant(c)
  BY <1>2, OccupantIsAlive
<1>4. ASSUME parent_ids[i] # NoId
      PROVE  /\ Alive(parent_ids[i]) <=> Occupant(parent_ids[i])
             /\ Contains(children[parent_ids[i].index], IdAt(i)) <=>
                  IdAt(i) \in ToSet(children[parent_ids[i].index])
  <2>1. parent_ids[i] \in EntityId /\ parent_ids[i].index \in Slots
    BY <1>1, <1>4 DEF EntityId
  <2>2. children[parent_ids[i].index] \in Seq(EntityId)
    BY <2>1 DEF TypeOK
  <2> QED
    BY <2>1, <2>2, OccupantIsAlive, ContainsIsMembership
<1> QED
  BY <1>3, <1>4 DEF PointBack, HeldByParent
-----------------------------------------------------------------------------
\* Leaving the parent's array: whatever array `id` was in, it is in none now,
\* and nothing else moved in or out.
LEMMA WithoutChildItems ==
  ASSUME PoolInv, Links, NEW id \in LiveIds, NEW i \in LiveSlots
  PROVE  /\ WithoutChild(id)[i] \in Seq(EntityId)
         /\ IsInjective(WithoutChild(id)[i])
         /\ ToSet(WithoutChild(id)[i]) = ToSet(children[i]) \ {id}
<1> DEFINE p == parent_ids[id.index]
<1>1. id \in EntityId /\ id.index \in LiveSlots /\ id = IdAt(id.index)
  BY LiveIdFacts DEF PoolInv
<1>2. i \in Slots /\ children[i] \in Seq(EntityId) /\ IsInjective(children[i])
  BY DEF Links, PointBack, PoolInv, TypeOK, LiveSlots
<1>3. p \in EntityId \cup {NoId}
  BY <1>1 DEF PoolInv, TypeOK, LiveSlots
<1>4. CASE Alive(p) /\ p.index = i
  <2>1. WithoutChild(id)[i] = SwapRemove(children[i], id)
    BY <1>2, <1>4 DEF WithoutChild, PoolInv, TypeOK
  <2> QED
    BY <1>2, <2>1, SwapRemoveType, SwapRemoveItems
<1>5. CASE ~(Alive(p) /\ p.index = i)
  <2>1. WithoutChild(id)[i] = children[i]
    BY <1>2, <1>5 DEF WithoutChild, PoolInv, TypeOK
  <2>2. id \notin ToSet(children[i])
    <3> SUFFICES ASSUME id \in ToSet(children[i]) PROVE FALSE
      OBVIOUS
    <3>1. p = IdAt(i)
      BY DEF Links, PointBack
    <3>2. p \in EntityId /\ p.index = i
      BY <1>2, <3>1, IdAtType DEF PoolInv, IdAt
    <3>3. Alive(p)
      BY <3>1, <3>2, OccupantIsAlive DEF PoolInv, Occupant
    <3> QED
      BY <1>5, <3>2, <3>3
  <2> QED
    BY <1>2, <2>1, <2>2
<1> QED
  BY <1>4, <1>5

LEMMA AllocLinks ==
  ASSUME PoolInv, Links, NEW u \in Uuid, Alloc(u)
  PROVE  Links'
<1> DEFINE idx == Last(StackForAlloc)
<1>1. idx \in Slots /\ ~alive[idx]
  BY AllocatedSlot DEF PoolInv
<1>2. /\ alive' = [alive EXCEPT ![idx] = TRUE]
      /\ parent_ids' = [parent_ids EXCEPT ![idx] = NoId]
      /\ children' = [children EXCEPT ![idx] = <<>>]
      /\ generations' = generations
  BY DEF Alloc
<1> HIDE DEF idx
<1>3. LiveSlots' = LiveSlots \cup {idx} /\ idx \notin LiveSlots
  BY <1>1, <1>2 DEF LiveSlots, PoolInv, TypeOK
<1>4. \A j : IdAt(j)' = IdAt(j)
  BY <1>2 DEF IdAt
<1>5. \A id : Occupant(id) => Occupant(id)' /\ id.index # idx
  BY <1>3, <1>4 DEF Occupant
<1>6. \A j \in LiveSlots : children'[j] = children[j] /\ parent_ids'[j] = parent_ids[j]
  BY <1>1, <1>2, <1>3 DEF PoolInv, TypeOK, LiveSlots
<1>7. children'[idx] = <<>> /\ parent_ids'[idx] = NoId
  BY <1>1, <1>2 DEF PoolInv, TypeOK
<1> SUFFICES ASSUME NEW i \in LiveSlots' PROVE PointBack(i)' /\ HeldByParent(i)'
  BY DEF Links
<1>8. CASE i = idx
  <2>1. IsInjective(<<>>) /\ ToSet(<<>>) = {}
    BY DEF IsInjective, ToSet
  <2> QED
    BY <1>7, <1>8, <2>1 DEF PointBack, HeldByParent
<1>9. CASE i \in LiveSlots
  <2>1. PointBack(i) /\ HeldByParent(i)
    BY <1>9 DEF Links
  <2>2. PointBack(i)'
    <3>1. \A c \in ToSet(children[i]) : Occupant(c)' /\ parent_ids'[c.index] = IdAt(i)'
      BY <1>4, <1>5, <1>6, <2>1 DEF PointBack, Occupant
    <3> QED
      BY <1>6, <1>9, <2>1, <3>1 DEF PointBack
  <2>3. HeldByParent(i)'
    <3> SUFFICES ASSUME NEW p, p = parent_ids'[i], p # NoId
                 PROVE  Occupant(p)' /\ IdAt(i)' \in ToSet(children'[p.index])
      BY DEF HeldByParent, Occupant, IdAt
    <3>1. p = parent_ids[i]
      BY <1>6, <1>9
    <3>2. Occupant(p) /\ IdAt(i) \in ToSet(children[p.index])
      BY <2>1, <3>1 DEF HeldByParent
    <3>3. children'[p.index] = children[p.index]
      BY <1>6, <3>2 DEF Occupant
    <3> QED
      BY <1>4, <1>5, <3>2, <3>3
  <2> QED
    BY <2>2, <2>3
<1> QED
  BY <1>3, <1>8, <1>9

LEMMA FreeLinks ==
  ASSUME PoolInv, Links, NEW id \in LiveIds, Free(id)
  PROVE  Links'
<1> DEFINE idx == id.index
           arrays == WithoutChild(id)
<1>1. id \in EntityId /\ idx \in LiveSlots /\ idx \in Slots /\ id = IdAt(idx)
  BY LiveIdFacts DEF PoolInv, LiveSlots
<1>2. /\ parent_ids' = Orphaned(idx, arrays)
      /\ children' = [arrays EXCEPT ![idx] = <<>>]
      /\ alive' = [alive EXCEPT ![idx] = FALSE]
      /\ generations' = [generations EXCEPT ![idx] = NextGeneration(@)]
  BY DEF Free
<1>3. arrays \in [Slots -> Seq(EntityId)]
  BY WithoutChildType DEF PoolInv
<1>4. \A j \in LiveSlots : IsInjective(arrays[j]) /\ ToSet(arrays[j]) = ToSet(children[j]) \ {id}
  BY WithoutChildItems
<1> HIDE DEF idx, arrays
<1>5. LiveSlots' = LiveSlots \ {idx}
  BY <1>1, <1>2 DEF LiveSlots, PoolInv, TypeOK
<1>6. \A j \in Slots \ {idx} : IdAt(j)' = IdAt(j) /\ children'[j] = arrays[j]
  BY <1>1, <1>2, <1>3 DEF IdAt, PoolInv, TypeOK
<1>7. \A c : Occupant(c) /\ c # id => Occupant(c)' /\ c.index \in LiveSlots'
  <2>1. \A c : Occupant(c) /\ c # id => c.index \in LiveSlots \ {idx}
    BY <1>1 DEF Occupant
  <2> QED
    BY <1>5, <1>6, <2>1 DEF Occupant, LiveSlots
\* An entity of another parent, or of none, keeps its link.
<1>8. \A j \in LiveSlots' : parent_ids[j] # id => parent_ids'[j] = parent_ids[j]
  <2> SUFFICES ASSUME NEW j \in LiveSlots', parent_ids[j] # id PROVE parent_ids'[j] = parent_ids[j]
    OBVIOUS
  <2>1. j \in Slots
    BY <1>5 DEF LiveSlots
  <2>2. ~\E c \in ToSet(arrays[idx]) : Alive(c) /\ c.index = j
    BY <1>1, <1>4 DEF Links, PointBack
  <2> QED
    BY <1>2, <2>1, <2>2 DEF Orphaned
\* The children of id lose theirs.
<1>9. \A j \in LiveSlots' : parent_ids[j] = id => parent_ids'[j] = NoId
  <2> SUFFICES ASSUME NEW j \in LiveSlots', parent_ids[j] = id PROVE parent_ids'[j] = NoId
    OBVIOUS
  <2>1. j \in Slots /\ j \in LiveSlots /\ j # idx
    BY <1>5 DEF LiveSlots
  <2>2. IdAt(j) \in ToSet(children[idx])
    <3>1. id # NoId
      BY <1>1, NoIdAssumption
    <3> QED
      BY <1>1, <2>1, <3>1 DEF Links, HeldByParent, idx
  <2>3. IdAt(j) # id /\ IdAt(j).index = j
    BY <1>1, <2>1 DEF IdAt
  <2>4. IdAt(j) \in EntityId
    BY <2>1, IdAtType DEF PoolInv
  <2>5. Alive(IdAt(j))
    BY <2>1, <2>3, <2>4, OccupantIsAlive DEF Occupant, PoolInv
  <2>6. \E c \in ToSet(arrays[idx]) : Alive(c) /\ c.index = j
    BY <1>1, <1>4, <2>2, <2>3, <2>5
  <2> QED
    BY <1>2, <2>1, <2>6 DEF Orphaned
<1> SUFFICES ASSUME NEW i \in LiveSlots' PROVE PointBack(i)' /\ HeldByParent(i)'
  BY DEF Links
<1>10. i \in LiveSlots /\ i \in Slots \ {idx} /\ PointBack(i) /\ HeldByParent(i)
  BY <1>5 DEF LiveSlots, Links
<1>11. IdAt(i)' = IdAt(i) /\ IdAt(i) # id /\ children'[i] = arrays[i]
  BY <1>1, <1>6, <1>10 DEF IdAt
<1>12. PointBack(i)'
  <2>1. ASSUME NEW c \in ToSet(arrays[i])
        PROVE  Occupant(c)' /\ parent_ids'[c.index] = IdAt(i)'
    <3>1. c # id /\ Occupant(c) /\ parent_ids[c.index] = IdAt(i)
      BY <1>4, <1>10 DEF PointBack
    <3> QED
      BY <1>7, <1>8, <1>11, <3>1
  <2> QED
    BY <1>4, <1>10, <1>11, <2>1 DEF PointBack
<1>13. HeldByParent(i)'
  <2> SUFFICES ASSUME NEW p, p = parent_ids'[i], p # NoId
               PROVE  Occupant(p)' /\ IdAt(i)' \in ToSet(children'[p.index])
    BY DEF HeldByParent, Occupant, IdAt
  <2>1. p = parent_ids[i] /\ p # id /\ p # NoId
    BY <1>8, <1>9
  <2>2. Occupant(p) /\ IdAt(i) \in ToSet(children[p.index])
    BY <1>10, <2>1 DEF HeldByParent
  <2>3. Occupant(p)' /\ p.index \in LiveSlots' /\ p.index \in LiveSlots
    BY <1>7, <2>1, <2>2 DEF Occupant
  <2>4. p.index \in Slots \ {idx}
    BY <1>5, <2>3 DEF LiveSlots
  <2>5. IdAt(i) \in ToSet(children'[p.index])
    BY <1>4, <1>6, <1>11, <2>2, <2>3, <2>4
  <2> QED
    BY <1>11, <2>3, <2>5
<1> QED
  BY <1>12, <1>13

LEMMA SetParentLinks ==
  ASSUME PoolInv, Links, NEW id \in LiveIds,
         NEW parent \in LiveIds \cup retired \cup {NoId}, SetParent(id, parent)
  PROVE  Links'
<1> DEFINE idx == id.index
           arrays == WithoutChild(id)
<1>1. id \in EntityId /\ idx \in LiveSlots /\ idx \in Slots /\ id = IdAt(idx)
  BY LiveIdFacts DEF PoolInv, LiveSlots
<1>2. /\ Alive(parent) =>
           /\ parent_ids' = [parent_ids EXCEPT ![idx] = parent]
           /\ children' = [arrays EXCEPT ![parent.index] = Append(arrays[parent.index], id)]
      /\ ~Alive(parent) =>
           /\ parent_ids' = [parent_ids EXCEPT ![idx] = NoId]
           /\ children' = arrays
      /\ UNCHANGED <<alive, generations>>
  BY DEF SetParent, slotVars
<1>3. arrays \in [Slots -> Seq(EntityId)]
  BY WithoutChildType DEF PoolInv
<1>4. \A j \in LiveSlots : IsInjective(arrays[j]) /\ ToSet(arrays[j]) = ToSet(children[j]) \ {id}
  BY WithoutChildItems
<1>5. Alive(parent) => parent \in EntityId /\ parent # NoId /\ Occupant(parent)
  <2>1. parent \in EntityId \cup {NoId}
    BY LiveIdFacts DEF PoolInv, TypeOK
  <2> QED
    BY <2>1, OccupantIsAlive DEF Alive, PoolInv
<1> HIDE DEF idx, arrays
<1>6. LiveSlots' = LiveSlots /\ \A j : IdAt(j)' = IdAt(j)
  BY <1>2 DEF LiveSlots, IdAt
<1>7. \A c : Occupant(c)' <=> Occupant(c)
  BY <1>6 DEF Occupant
<1>8. \A j \in Slots \ {idx} : parent_ids'[j] = parent_ids[j]
  BY <1>1, <1>2 DEF PoolInv, TypeOK
<1>9. parent_ids'[idx] = IF Alive(parent) THEN parent ELSE NoId
  BY <1>1, <1>2 DEF PoolInv, TypeOK
\* The arrays after the call: id is in that of its new parent, if any.
<1>10. ASSUME NEW j \in LiveSlots
       PROVE  /\ IsInjective(children'[j])
              /\ ToSet(children'[j]) =
                   (ToSet(children[j]) \ {id}) \cup IF Alive(parent) /\ parent.index = j THEN {id} ELSE {}
  <2>1. j \in Slots /\ arrays[j] \in Seq(EntityId) /\ id \notin ToSet(arrays[j])
    BY <1>3, <1>4 DEF LiveSlots
  <2>2. CASE Alive(parent) /\ parent.index = j
    <3>1. children'[j] = Append(arrays[j], id)
      BY <1>2, <1>3, <2>1, <2>2
    <3>2. /\ ToSet(Append(arrays[j], id)) = ToSet(arrays[j]) \cup {id}
          /\ IsInjective(Append(arrays[j], id))
      BY <1>1, <1>4, <2>1, AppendItems
    <3> QED
      BY <1>4, <2>2, <3>1, <3>2
  <2>3. CASE ~(Alive(parent) /\ parent.index = j)
    <3>1. children'[j] = arrays[j]
      BY <1>2, <1>3, <2>1, <2>3
    <3> QED
      BY <1>4, <2>3, <3>1
  <2> QED
    BY <2>2, <2>3
<1> SUFFICES ASSUME NEW i \in LiveSlots PROVE PointBack(i)' /\ HeldByParent(i)'
  BY <1>6 DEF Links
<1>11. i \in Slots /\ PointBack(i) /\ HeldByParent(i)
  BY DEF LiveSlots, Links
<1>12. PointBack(i)'
  <2>1. ASSUME NEW c \in ToSet(children'[i])
        PROVE  Occupant(c)' /\ parent_ids'[c.index] = IdAt(i)'
    <3>1. CASE c = id
      <4>1. Alive(parent) /\ parent.index = i
        BY <1>10, <2>1, <3>1
      <4>2. parent = IdAt(i)
        BY <1>5, <4>1 DEF Occupant
      <4>3. Occupant(id)
        BY <1>1 DEF Occupant, idx
      <4> QED
        BY <1>6, <1>7, <1>9, <3>1, <4>1, <4>2, <4>3 DEF idx
    <3>2. CASE c # id
      <4>1. Occupant(c) /\ parent_ids[c.index] = IdAt(i)
        BY <1>10, <1>11, <2>1, <3>2 DEF PointBack
      <4>2. c.index \in Slots \ {idx}
        BY <1>1, <3>2, <4>1 DEF Occupant, LiveSlots
      <4> QED
        BY <1>6, <1>7, <1>8, <4>1, <4>2
    <3> QED
      BY <3>1, <3>2
  <2> QED
    BY <1>10, <2>1 DEF PointBack
<1>13. HeldByParent(i)'
  <2> SUFFICES ASSUME NEW p, p = parent_ids'[i], p # NoId
               PROVE  Occupant(p)' /\ IdAt(i)' \in ToSet(children'[p.index])
    BY DEF HeldByParent, Occupant, IdAt
  <2>1. CASE i = idx
    <3>1. Alive(parent) /\ p = parent
      BY <1>9, <2>1
    <3>2. Occupant(parent) /\ parent.index \in LiveSlots /\ IdAt(i) = id
      BY <1>1, <1>5, <2>1, <3>1 DEF Occupant
    <3>3. id \in ToSet(children'[parent.index])
      BY <1>10, <3>1, <3>2
    <3> QED
      BY <1>6, <1>7, <3>1, <3>2, <3>3
  <2>2. CASE i # idx
    <3>1. p = parent_ids[i] /\ IdAt(i) # id
      BY <1>1, <1>8, <1>11, <2>2 DEF IdAt
    <3>2. Occupant(p) /\ IdAt(i) \in ToSet(children[p.index])
      BY <1>11, <3>1 DEF HeldByParent
    <3>3. IdAt(i) \in ToSet(children'[p.index])
      BY <1>10, <3>1, <3>2 DEF Occupant
    <3> QED
      BY <1>6, <1>7, <3>1, <3>2, <3>3
  <2> QED
    BY <2>1, <2>2
<1> QED
  BY <1>12, <1>13

LEMMA SameLinks ==
  ASSUME Links, UNCHANGED <<alive, generations, parent_ids, children>>
  PROVE  Links'
  BY DEF Links, PointBack, HeldByParent, Occupant, LiveSlots, IdAt

LEMMA NextLinks == PoolInv /\ Links /\ [Next]_vars => Links'
<1> SUFFICES ASSUME PoolInv, Links, [Next]_vars PROVE Links'
  OBVIOUS
<1>1. ASSUME NEW u \in Uuid, Alloc(u) PROVE Links'
  BY <1>1, AllocLinks
<1>2. ASSUME NEW id \in LiveIds, Free(id) PROVE Links'
  BY <1>2, FreeLinks
<1>3. ASSUME NEW id \in LiveIds, NEW u \in Uuid, SetUuid(id, u) PROVE Links'
  BY <1>3, SameLinks DEF SetUuid, slotVars, treeVars
<1>4. ASSUME NEW id \in LiveIds, NEW parent \in LiveIds \cup retired \cup {NoId},
             SetParent(id, parent)
      PROVE  Links'
  BY <1>4, SetParentLinks
<1>5. CASE UNCHANGED vars
  BY <1>5, SameLinks DEF vars, slotVars, treeVars
<1> QED
  BY <1>1, <1>2, <1>3, <1>4, <1>5 DEF Next

\* parent_ids and children agree for ever: whatever is freed, reused and
\* reparented, a living entity is once in the array of its living parent, and
\* in no other (tc_entity_pool_free, tc_entity_pool_set_parent).
THEOREM HierarchyConsistent == Spec => []HierarchyAgrees
<1>1. Init => Links
  BY DEF Init, Links, LiveSlots
<1>2. PoolInv /\ Links /\ [Next]_vars => Links'
  BY NextLinks
<1>3. PoolInv /\ Links => HierarchyAgrees
  BY LinksMeaning DEF PoolInv
<1> QED
  BY <1>1, <1>2, <1>3, PoolInvariant, PTL DEF Spec

-----------------------------------------------------------------------------
(* The uuid and pick-id lookups.  What is proved holds of callers that give *)
(* no entity a uuid a living one has (DistinctUuids); nothing is assumed of *)
(* pick ids, which the pool hands out itself.                               *)

\* What the lookups rest on besides LookupsAgree: a living entity has a uuid,
\* and its pick id is one the counter has already passed.
Named(i) ==
  /\ uuids[i] \in Uuid /\ by_uuid[uuids[i]] = IdAt(i)
  /\ pick_ids[i] \in PickId /\ pick_ids[i] < next_pick_id
  /\ by_pick_id[pick_ids[i]] = IdAt(i)

UuidEntry(u) == by_uuid[u] # NoId => Occupant(by_uuid[u]) /\ uuids[by_uuid[u].index] = u
PickEntry(p) == by_pick_id[p] # NoId => Occupant(by_pick_id[p]) /\ pick_ids[by_pick_id[p].index] = p

Names ==
  /\ \A i \in LiveSlots : Named(i)
  /\ \A u \in Uuid : UuidEntry(u)
  /\ \A p \in PickId : PickEntry(p)

LEMMA NamesGiveLookups == PoolInv /\ Names => LookupsAgree
<1> SUFFICES ASSUME PoolInv, Names PROVE LookupsAgree
  OBVIOUS
<1>1. \A i \in LiveSlots : IdAt(i) \in EntityId /\ Alive(IdAt(i))
  <2> SUFFICES ASSUME NEW i \in LiveSlots PROVE IdAt(i) \in EntityId /\ Alive(IdAt(i))
    OBVIOUS
  <2>1. i \in Slots
    BY DEF LiveSlots
  <2>2. IdAt(i) \in EntityId /\ Occupant(IdAt(i))
    BY <2>1, IdAtType DEF PoolInv, Occupant, IdAt
  <2> QED
    BY <2>2, OccupantIsAlive DEF PoolInv
<1>2. \A i \in LiveSlots : FindByUuid(uuids[i]) = IdAt(i) /\ FindByPickId(pick_ids[i]) = IdAt(i)
  BY <1>1 DEF Names, Named, FindByUuid, FindByPickId
<1>3. \A id \in EntityId : Occupant(id) => Alive(id)
  BY OccupantIsAlive DEF PoolInv
<1>4. \A u \in Uuid : by_uuid[u] # NoId => Alive(by_uuid[u]) /\ uuids[by_uuid[u].index] = u
  <2>1. \A u \in Uuid : by_uuid[u] \in EntityId \cup {NoId}
    BY DEF PoolInv, TypeOK
  <2> QED
    BY <1>3, <2>1 DEF Names, UuidEntry
<1>5. \A p \in PickId :
        by_pick_id[p] # NoId => Alive(by_pick_id[p]) /\ pick_ids[by_pick_id[p].index] = p
  <2>1. \A p \in PickId : by_pick_id[p] \in EntityId \cup {NoId}
    BY DEF PoolInv, TypeOK
  <2> QED
    BY <1>3, <2>1 DEF Names, PickEntry
<1> QED
  BY <1>2, <1>4, <1>5 DEF LookupsAgree
-----------------------------------------------------------------------------
LEMMA AllocNames ==
  ASSUME PoolInv, Names, DistinctUuids, NEW u \in Uuid, Alloc(u)
  PROVE  Names'
<1> DEFINE idx == Last(StackForAlloc)
           pick == next_pick_id
<1>1. idx \in Slots /\ ~alive[idx]
  BY AllocatedSlot DEF PoolInv
<1>2. /\ alive' = [alive EXCEPT ![idx] = TRUE]
      /\ uuids' = [uuids EXCEPT ![idx] = u]
      /\ pick_ids' = [pick_ids EXCEPT ![idx] = pick]
      /\ next_pick_id' = pick + 1
      /\ pick <= MaxPickId
      /\ by_uuid' = [by_uuid EXCEPT ![u] = IdAt(idx)]
      /\ by_pick_id' = [by_pick_id EXCEPT ![pick] = IdAt(idx)]
      /\ generations' = generations
      /\ \A j \in LiveSlots \ {idx} : uuids[j] # u
  BY DEF Alloc, UuidAllowed
<1>3. pick \in PickId /\ pick \in Nat
  BY <1>2, PickIdAssumption DEF PickId, PoolInv, TypeOK
<1> HIDE DEF idx, pick
<1>4. LiveSlots' = LiveSlots \cup {idx} /\ idx \notin LiveSlots
  BY <1>1, <1>2 DEF LiveSlots, PoolInv, TypeOK
<1>5. \A j : IdAt(j)' = IdAt(j)
  BY <1>2 DEF IdAt
<1>6. \A id : Occupant(id) => Occupant(id)' /\ id.index \in LiveSlots
  BY <1>4, <1>5 DEF Occupant
<1>7. \A j \in LiveSlots : uuids'[j] = uuids[j] /\ pick_ids'[j] = pick_ids[j]
  BY <1>1, <1>2, <1>4 DEF PoolInv, TypeOK, LiveSlots
<1>8. /\ uuids'[idx] = u /\ pick_ids'[idx] = pick
      /\ by_uuid'[u] = IdAt(idx) /\ by_pick_id'[pick] = IdAt(idx)
  BY <1>1, <1>2, <1>3 DEF PoolInv, TypeOK
<1>9. /\ \A v \in Uuid \ {u} : by_uuid'[v] = by_uuid[v]
      /\ \A p \in PickId \ {pick} : by_pick_id'[p] = by_pick_id[p]
  BY <1>2 DEF PoolInv, TypeOK
<1>10. \A id : id = IdAt(idx) => Occupant(id)' /\ id.index = idx
  BY <1>2, <1>4 DEF Occupant, IdAt
<1>11. ASSUME NEW i \in LiveSlots' PROVE Named(i)'
  <2>1. CASE i = idx
    BY <1>2, <1>3, <1>5, <1>8, <2>1 DEF Named
  <2>2. CASE i \in LiveSlots
    <3>1. Named(i) /\ uuids[i] # u
      BY <1>2, <1>4, <2>2 DEF Names
    <3>2. pick_ids[i] \in PickId \ {pick} /\ pick_ids[i] < pick + 1
      BY <1>3, <3>1 DEF Named, PickId, pick
    <3> QED
      BY <1>2, <1>5, <1>7, <1>9, <2>2, <3>1, <3>2 DEF Named
  <2> QED
    BY <1>4, <2>1, <2>2
<1>12. ASSUME NEW v \in Uuid PROVE UuidEntry(v)'
  <2> SUFFICES ASSUME NEW id, id = by_uuid'[v], id # NoId
               PROVE  Occupant(id)' /\ uuids'[id.index] = v
    BY DEF UuidEntry, Occupant, IdAt
  <2>1. CASE v = u
    BY <1>8, <1>10, <2>1
  <2>2. CASE v # u
    <3>1. id = by_uuid[v] /\ UuidEntry(v)
      BY <1>9, <2>2 DEF Names
    <3>2. Occupant(id) /\ uuids[id.index] = v
      BY <3>1 DEF UuidEntry
    <3> QED
      BY <1>6, <1>7, <3>2
  <2> QED
    BY <2>1, <2>2
<1>13. ASSUME NEW p \in PickId PROVE PickEntry(p)'
  <2> SUFFICES ASSUME NEW id, id = by_pick_id'[p], id # NoId
               PROVE  Occupant(id)' /\ pick_ids'[id.index] = p
    BY DEF PickEntry, Occupant, IdAt
  <2>1. CASE p = pick
    BY <1>8, <1>10, <2>1
  <2>2. CASE p # pick
    <3>1. id = by_pick_id[p] /\ PickEntry(p)
      BY <1>9, <2>2 DEF Names
    <3>2. Occupant(id) /\ pick_ids[id.index] = p
      BY <3>1 DEF PickEntry
    <3> QED
      BY <1>6, <1>7, <3>2
  <2> QED
    BY <2>1, <2>2
<1> QED
  BY <1>11, <1>12, <1>13 DEF Names

LEMMA FreeNames ==
  ASSUME PoolInv, Names, NEW id \in LiveIds, Free(id)
  PROVE  Names'
<1> DEFINE idx == id.index
<1>1. id \in EntityId /\ idx \in LiveSlots /\ idx \in Slots /\ id = IdAt(idx)
  BY LiveIdFacts DEF PoolInv, LiveSlots
<1>2. /\ by_uuid' = [u \in Uuid |-> IF u = uuids[idx] THEN NoId ELSE by_uuid[u]]
      /\ uuids' = [uuids EXCEPT ![idx] = NoUuid]
      /\ by_pick_id' = [by_pick_id EXCEPT ![pick_ids[idx]] = NoId]
      /\ alive' = [alive EXCEPT ![idx] = FALSE]
      /\ generations' = [generations EXCEPT ![idx] = NextGeneration(@)]
      /\ UNCHANGED <<pick_ids, next_pick_id>>
  BY DEF Free
<1> HIDE DEF idx
<1>3. LiveSlots' = LiveSlots \ {idx}
  BY <1>1, <1>2 DEF LiveSlots, PoolInv, TypeOK
<1>4. \A j \in Slots \ {idx} : IdAt(j)' = IdAt(j) /\ uuids'[j] = uuids[j]
  BY <1>1, <1>2 DEF IdAt, PoolInv, TypeOK
<1>5. \A c : Occupant(c) /\ c.index # idx => Occupant(c)' /\ c.index \in Slots \ {idx}
  BY <1>3, <1>4 DEF Occupant, LiveSlots
<1>6. Named(idx)
  BY <1>1 DEF Names
<1>7. /\ \A u \in Uuid : u # uuids[idx] => by_uuid'[u] = by_uuid[u]
      /\ \A p \in PickId : p # pick_ids[idx] => by_pick_id'[p] = by_pick_id[p]
      /\ by_uuid'[uuids[idx]] = NoId /\ by_pick_id'[pick_ids[idx]] = NoId
  BY <1>2, <1>6 DEF Named, PoolInv, TypeOK
<1>8. ASSUME NEW i \in LiveSlots' PROVE Named(i)'
  <2>1. i \in LiveSlots /\ i \in Slots \ {idx} /\ Named(i)
    BY <1>3 DEF LiveSlots, Names
  <2>2. IdAt(i) # IdAt(idx)
    BY <2>1 DEF IdAt
  <2>3. uuids[i] # uuids[idx] /\ pick_ids[i] # pick_ids[idx]
    BY <1>6, <2>1, <2>2 DEF Named
  <2> QED
    BY <1>2, <1>4, <1>7, <2>1, <2>3 DEF Named
<1>9. ASSUME NEW u \in Uuid PROVE UuidEntry(u)'
  <2> SUFFICES ASSUME NEW c, c = by_uuid'[u], c # NoId
               PROVE  Occupant(c)' /\ uuids'[c.index] = u
    BY DEF UuidEntry, Occupant, IdAt
  <2>1. c = by_uuid[u] /\ u # uuids[idx]
    BY <1>7
  <2>2. Occupant(c) /\ uuids[c.index] = u
    BY <2>1 DEF Names, UuidEntry
  <2> QED
    BY <1>4, <1>5, <2>1, <2>2
<1>10. ASSUME NEW p \in PickId PROVE PickEntry(p)'
  <2> SUFFICES ASSUME NEW c, c = by_pick_id'[p], c # NoId
               PROVE  Occupant(c)' /\ pick_ids'[c.index] = p
    BY DEF PickEntry, Occupant, IdAt
  <2>1. c = by_pick_id[p] /\ p # pick_ids[idx]
    BY <1>7
  <2>2. Occupant(c) /\ pick_ids[c.index] = p
    BY <2>1 DEF Names, PickEntry
  <2> QED
    BY <1>2, <1>5, <2>1, <2>2
<1> QED
  BY <1>8, <1>9, <1>10 DEF Names

LEMMA SetUuidNames ==
  ASSUME PoolInv, Names, DistinctUuids, NEW id \in LiveIds, NEW u \in Uuid, SetUuid(id, u)
  PROVE  Names'
<1> DEFINE idx == id.index
<1>1. id \in EntityId /\ idx \in LiveSlots /\ idx \in Slots /\ id = IdAt(idx)
  BY LiveIdFacts DEF PoolInv, LiveSlots
<1>2. /\ by_uuid' = [v \in Uuid |-> IF v = u THEN id ELSE IF v = uuids[idx] THEN NoId ELSE by_uuid[v]]
      /\ uuids' = [uuids EXCEPT ![idx] = u]
      /\ \A j \in LiveSlots \ {idx} : uuids[j] # u
      /\ UNCHANGED <<alive, generations, pick_ids, next_pick_id, by_pick_id>>
  BY DEF SetUuid, Renamed, UuidAllowed, slotVars
<1> HIDE DEF idx
<1>3. LiveSlots' = LiveSlots /\ \A j : IdAt(j)' = IdAt(j)
  BY <1>2 DEF LiveSlots, IdAt
<1>4. \A c : Occupant(c)' <=> Occupant(c)
  BY <1>3 DEF Occupant
<1>5. uuids'[idx] = u /\ \A j \in Slots \ {idx} : uuids'[j] = uuids[j]
  BY <1>1, <1>2 DEF PoolInv, TypeOK
<1>6. ASSUME NEW i \in LiveSlots' PROVE Named(i)'
  <2>1. i \in LiveSlots /\ i \in Slots /\ Named(i) /\ Named(idx)
    BY <1>1, <1>3 DEF LiveSlots, Names
  <2>2. CASE i = idx
    BY <1>1, <1>2, <1>3, <1>5, <2>1, <2>2 DEF Named
  <2>3. CASE i # idx
    <3>1. IdAt(i) # IdAt(idx)
      BY <2>3 DEF IdAt
    <3>2. uuids[i] # uuids[idx] /\ uuids[i] # u
      BY <1>2, <2>1, <2>3, <3>1 DEF Named
    <3>3. uuids'[i] = uuids[i] /\ by_uuid'[uuids[i]] = by_uuid[uuids[i]]
      BY <1>2, <1>5, <2>1, <2>3, <3>2 DEF Named
    <3> QED
      BY <1>2, <1>3, <2>1, <3>3 DEF Named
  <2> QED
    BY <2>2, <2>3
<1>7. ASSUME NEW v \in Uuid PROVE UuidEntry(v)'
  <2> SUFFICES ASSUME NEW c, c = by_uuid'[v], c # NoId
               PROVE  Occupant(c)' /\ uuids'[c.index] = v
    BY DEF UuidEntry, Occupant, IdAt
  <2>1. CASE v = u
    <3>1. c = id /\ Occupant(id) /\ id.index = idx
      BY <1>1, <1>2, <2>1 DEF Occupant, IdAt
    <3> QED
      BY <1>4, <1>5, <2>1, <3>1
  <2>2. CASE v # u
    <3>1. c = by_uuid[v] /\ v # uuids[idx]
      BY <1>2, <2>2
    <3>2. Occupant(c) /\ uuids[c.index] = v
      BY <3>1 DEF Names, UuidEntry
    <3>3. c.index \in Slots \ {idx}
      BY <3>1, <3>2 DEF Occupant, LiveSlots
    <3> QED
      BY <1>4, <1>5, <3>2, <3>3
  <2> QED
    BY <2>1, <2>2
<1>8. ASSUME NEW p \in PickId PROVE PickEntry(p)'
  <2>1. PickEntry(p)
    BY DEF Names
  <2> QED
    BY <1>2, <2>1 DEF PickEntry, Occupant, LiveSlots, IdAt
<1> QED
  BY <1>6, <1>7, <1>8 DEF Names

LEMMA SameNames ==
  ASSUME Names, UNCHANGED <<alive, generations, nameVars>>
  PROVE  Names'
  BY DEF Names, Named, UuidEntry, PickEntry, Occupant, LiveSlots, IdAt, nameVars

LEMMA NextNames == PoolInv /\ DistinctUuids /\ Names /\ [Next]_vars => Names'
<1> SUFFICES ASSUME PoolInv, DistinctUuids, Names, [Next]_vars PROVE Names'
  OBVIOUS
<1>1. ASSUME NEW u \in Uuid, Alloc(u) PROVE Names'
  BY <1>1, AllocNames
<1>2. ASSUME NEW id \in LiveIds, Free(id) PROVE Names'
  BY <1>2, FreeNames
<1>3. ASSUME NEW id \in LiveIds, NEW u \in Uuid, SetUuid(id, u) PROVE Names'
  BY <1>3, SetUuidNames
<1>4. ASSUME NEW id \in LiveIds, NEW parent \in LiveIds \cup retired \cup {NoId},
             SetParent(id, parent)
      PROVE  Names'
  BY <1>4, SameNames DEF SetParent, slotVars
<1>5. CASE UNCHANGED vars
  BY <1>5, SameNames DEF vars, slotVars
<1> QED
  BY <1>1, <1>2, <1>3, <1>4, <1>5 DEF Next

\* A lookup by uuid or pick id gives the living entity that has it, or
\* nothing, through every rename, free and reuse of a slot, provided that no
\* two living entities are given one uuid (tc_entity_pool_find_by_uuid,
\* tc_entity_pool_find_by_pick_id, tc_entity_pool_set_uuid).
THEOREM LookupsCorrect == Spec => [](DistinctUuids => LookupsAgree)
<1> DEFINE NamesInv == DistinctUuids => Names
<1>1. Init => NamesInv
  BY DEF Init, Names, LiveSlots, UuidEntry, PickEntry
<1>2. PoolInv /\ NamesInv /\ [Next]_vars => NamesInv'
  BY NextNames
<1>3. PoolInv /\ NamesInv => (DistinctUuids => LookupsAgree)
  BY NamesGiveLookups
<1> QED
  BY <1>1, <1>2, <1>3, PoolInvariant, PTL DEF Spec
============================================================================
