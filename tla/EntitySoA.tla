----------------------------- MODULE EntitySoA -----------------------------
(***************************************************************************)
(* The data-only (SoA) components of an entity pool: src/tc_archetype.c    *)
(* and the SoA part of src/tc_entity_pool.c.  Entities with the same set   *)
(* of data types share an archetype, a dense table with a row per entity;  *)
(* adding or removing a type moves the entity's row to another archetype,  *)
(* and the last row fills the gap.                                         *)
(*                                                                         *)
(* Which slot an allocation takes is EntityPool's business: here any dead  *)
(* slot may be taken.  An archetype's arrays keep what was written in rows *)
(* that have since been vacated, so data[t] is as long as the highest row  *)
(* ever used and only its first Len(entities) items are in use.            *)
(***************************************************************************)
EXTENDS Integers, FiniteSets, SequencesExt

CONSTANTS
  Slots,         \* slots of the pool
  MaxGeneration, \* bound: a slot is not freed once its generation is this
  Types,         \* registered SoA types (at most TC_SOA_MAX_TYPES = 64)
  InitTypes,     \* those registered with an init function
  DestroyTypes,  \* those registered with a destroy function
  MaxBirths,     \* bound: the number of rows ever filled
  NoArchetype    \* UINT32_MAX in soa_archetype_ids

ASSUME TypesAssumption == InitTypes \subseteq Types /\ DestroyTypes \subseteq Types
ASSUME BoundsAssumption == MaxGeneration \in Nat /\ MaxBirths \in Nat
\* No archetype has the index that stands for none.
ASSUME NoArchetypeAssumption == NoArchetype \notin Nat

Masks == (SUBSET Types) \ {{}}

\* What an element can hold: zeroed memory, the value its owner wrote, or
\* what the n-th filling of a row produced with init.
Zero == 0
Written == MaxBirths + 1
Values == 0..MaxBirths+1

VARIABLES
  generations,
  alive,
  archetypes,          \* the archetypes array, in order of creation: for each its
                       \* type_mask, the entities of its rows and the data arrays
  soa_archetype_ids,
  soa_archetype_rows,
  soa_type_masks,
  births,              \* rows filled so far; names the values init makes
  destroyed            \* history: <<type, value>> pairs passed to destroy

entityVars == <<generations, alive>>
soaVars == <<archetypes, soa_archetype_ids, soa_archetype_rows, soa_type_masks>>
vars == <<entityVars, soaVars, births, destroyed>>
----------------------------------------------------------------------------
(* One archetype                                                           *)

\* tc_archetype_create
NewArchetype(mask) ==
  [type_mask |-> mask, entities |-> <<>>, data |-> [t \in Types |-> <<>>]]

RowCount(arch) == Len(arch.entities)
Rows(arch) == 1..RowCount(arch)

\* The element of type t in a row about to be filled: what init makes, or
\* else what the memory holds, which is zero only in a row never used.
FreshElement(arch, t) ==
  IF t \in InitTypes THEN births + 1
  ELSE IF RowCount(arch) < Len(arch.data[t]) THEN arch.data[t][RowCount(arch) + 1]
  ELSE Zero

\* arr with x in position k, which is at most one past its end.
Put(arr, k, x) == IF k <= Len(arr) THEN [arr EXCEPT ![k] = x] ELSE Append(arr, x)

\* tc_archetype_alloc_row
AllocRow(arch, id) ==
  [arch EXCEPT
     !.entities = Append(@, id),
     !.data = [t \in Types |->
                 IF t \in arch.type_mask
                   THEN Put(arch.data[t], RowCount(arch) + 1, FreshElement(arch, t))
                   ELSE arch.data[t]]]

\* Mutant: the entity of the last row moves, its data does not.
DetachRowLeavingData(arch, row) ==
  [arch EXCEPT !.entities =
     [r \in 1..RowCount(arch)-1 |-> IF r = row THEN @[RowCount(arch)] ELSE @[r]]]

\* archetype_swap_remove, which is all that tc_archetype_detach_row does.
DetachRow(arch, row) ==
  LET last == RowCount(arch)
  IN  [arch EXCEPT
         !.entities = [r \in 1..last-1 |-> IF r = row THEN @[last] ELSE @[r]],
         !.data = [t \in Types |->
                     IF t \in arch.type_mask
                       THEN [arch.data[t] EXCEPT ![row] = arch.data[t][last]]
                       ELSE arch.data[t]]]

\* What tc_archetype_free_row passes to the destroy functions.
DestroyedBy(arch, row) == { <<t, arch.data[t][row]>> : t \in arch.type_mask \cap DestroyTypes }

\* The element copies of pool_move_entity_archetype: types in both archetypes.
CopyRow(from, row, to) ==
  [to EXCEPT !.data = [t \in Types |->
     IF t \in from.type_mask \cap to.type_mask
       THEN [to.data[t] EXCEPT ![RowCount(to)] = from.data[t][row]]
       ELSE to.data[t]]]

\* Mutant: the entity that fills the gap is not told its new row.
RowsNotFixed(arch, row) == soa_archetype_rows

\* soa_archetype_rows once `row` of arch is vacated: the entity of the last
\* row, if it is another one, is now found in `row`.
RowsAfterVacating(arch, row) ==
  LET last == RowCount(arch)
  IN  IF row = last THEN soa_archetype_rows
      ELSE [soa_archetype_rows EXCEPT ![arch.entities[last].index] = row]
----------------------------------------------------------------------------
(* The pool's archetypes                                                   *)

Alive(id) == alive[id.index] /\ generations[id.index] = id.generation
IdAt(i) == [index |-> i, generation |-> generations[i]]
LiveSlots == { i \in Slots : alive[i] }
HasArchetype(i) == soa_archetype_ids[i] # NoArchetype
ArchetypeOf(i) == archetypes[soa_archetype_ids[i]]

\* archetype_by_mask
ArchetypeIndices(mask) == { k \in 1..Len(archetypes) : archetypes[k].type_mask = mask }

\* pool_get_or_create_archetype: the array with an archetype for mask in it.
WithArchetype(mask) ==
  IF ArchetypeIndices(mask) # {} THEN archetypes ELSE Append(archetypes, NewArchetype(mask))

IndexFor(mask) ==
  IF ArchetypeIndices(mask) # {} THEN CHOOSE k \in ArchetypeIndices(mask) : TRUE
  ELSE Len(archetypes) + 1

\* tc_entity_pool_get_soa
GetSoa(i, t) ==
  LET arch == ArchetypeOf(i)
      row == soa_archetype_rows[i]
  IN  IF t \in soa_type_masks[i] /\ HasArchetype(i) /\ row \in Rows(arch)
        THEN arch.data[t][row] ELSE NoArchetype

\* The test tc_soa_query_next makes of an archetype, and a mutant of it that
\* is content with one of the required types.
MatchesAny(mask, required, excluded) == mask \cap required # {} /\ mask \cap excluded = {}
Matches(mask, required, excluded) == required \subseteq mask /\ mask \cap excluded = {}

\* The entities a tc_soa_query visits, archetype after archetype.
QueryResult(required, excluded) ==
  UNION { ToSet(archetypes[k].entities) :
          k \in { k \in 1..Len(archetypes) :
                    Matches(archetypes[k].type_mask, required, excluded) } }
----------------------------------------------------------------------------
Init ==
  /\ generations = [i \in Slots |-> 0]
  /\ alive = [i \in Slots |-> FALSE]
  /\ archetypes = <<>>
  /\ soa_archetype_ids = [i \in Slots |-> NoArchetype]
  /\ soa_archetype_rows = [i \in Slots |-> 0]
  /\ soa_type_masks = [i \in Slots |-> {}]
  /\ births = 0
  /\ destroyed = {}

\* tc_entity_pool_alloc, as far as SoA state goes.
Alloc(i) ==
  /\ ~alive[i]
  /\ alive' = [alive EXCEPT ![i] = TRUE]
  /\ soa_archetype_ids' = [soa_archetype_ids EXCEPT ![i] = NoArchetype]
  /\ soa_archetype_rows' = [soa_archetype_rows EXCEPT ![i] = 0]
  /\ soa_type_masks' = [soa_type_masks EXCEPT ![i] = {}]
  /\ UNCHANGED <<generations, archetypes, births, destroyed>>

\* pool_move_entity_archetype to the archetype of `mask`; the entity may
\* come from no archetype at all.
MoveTo(i, mask) ==
  LET k == IndexFor(mask)
      filled == AllocRow(WithArchetype(mask)[k], IdAt(i))
      old == ArchetypeOf(i)
      row == soa_archetype_rows[i]
  IN
  /\ births < MaxBirths
  /\ births' = births + 1
  /\ IF HasArchetype(i)
       THEN /\ archetypes' = [WithArchetype(mask) EXCEPT
                                ![k] = CopyRow(old, row, filled),
                                ![soa_archetype_ids[i]] = DetachRow(old, row)]
            /\ soa_archetype_rows' =
                 [RowsAfterVacating(old, row) EXCEPT ![i] = RowCount(filled)]
       ELSE /\ archetypes' = [WithArchetype(mask) EXCEPT ![k] = filled]
            /\ soa_archetype_rows' = [soa_archetype_rows EXCEPT ![i] = RowCount(filled)]
  /\ soa_archetype_ids' = [soa_archetype_ids EXCEPT ![i] = k]
  /\ soa_type_masks' = [soa_type_masks EXCEPT ![i] = mask]

\* Removal from the archetype with destroy, shared by remove_soa of the last
\* type and by tc_entity_pool_free.
LeaveArchetype(i) ==
  LET arch == ArchetypeOf(i)
      row == soa_archetype_rows[i]
  IN
  /\ archetypes' = [archetypes EXCEPT ![soa_archetype_ids[i]] = DetachRow(arch, row)]
  /\ destroyed' = destroyed \cup DestroyedBy(arch, row)
  /\ soa_archetype_rows' = [RowsAfterVacating(arch, row) EXCEPT ![i] = 0]
  /\ soa_archetype_ids' = [soa_archetype_ids EXCEPT ![i] = NoArchetype]
  /\ soa_type_masks' = [soa_type_masks EXCEPT ![i] = {}]

\* Mutant: the row left behind is freed with destroy, not detached.
AddSoaFreeingRow(i, t) ==
  /\ alive[i]
  /\ t \notin soa_type_masks[i]
  /\ MoveTo(i, soa_type_masks[i] \cup {t})
  /\ destroyed' = destroyed \cup
       IF HasArchetype(i) THEN DestroyedBy(ArchetypeOf(i), soa_archetype_rows[i]) ELSE {}
  /\ UNCHANGED entityVars

\* tc_entity_pool_add_soa
AddSoa(i, t) ==
  /\ alive[i]
  /\ t \notin soa_type_masks[i]
  /\ MoveTo(i, soa_type_masks[i] \cup {t})
  /\ UNCHANGED <<entityVars, destroyed>>

\* tc_entity_pool_remove_soa
RemoveSoa(i, t) ==
  /\ alive[i]
  /\ t \in soa_type_masks[i]
  /\ IF soa_type_masks[i] = {t}
       THEN LeaveArchetype(i) /\ UNCHANGED births
       ELSE MoveTo(i, soa_type_masks[i] \ {t}) /\ UNCHANGED destroyed
  /\ UNCHANGED entityVars

\* The owner of plain data writes through the pointer get_soa returned.
WriteSoa(i, t) ==
  /\ alive[i]
  /\ t \in soa_type_masks[i] \ DestroyTypes
  /\ archetypes' =
       [archetypes EXCEPT ![soa_archetype_ids[i]].data[t][soa_archetype_rows[i]] = Written]
  /\ UNCHANGED <<entityVars, soa_archetype_ids, soa_archetype_rows, soa_type_masks,
                 births, destroyed>>

\* tc_entity_pool_free, as far as SoA state goes.
Free(i) ==
  /\ alive[i]
  /\ generations[i] < MaxGeneration
  /\ alive' = [alive EXCEPT ![i] = FALSE]
  /\ generations' = [generations EXCEPT ![i] = @ + 1]
  /\ IF HasArchetype(i) THEN LeaveArchetype(i) ELSE UNCHANGED <<soaVars, destroyed>>
  /\ UNCHANGED births

Next ==
  \E i \in Slots :
    \/ Alloc(i)
    \/ Free(i)
    \/ \E t \in Types : AddSoa(i, t) \/ RemoveSoa(i, t) \/ WriteSoa(i, t)

Spec == Init /\ [][Next]_vars
----------------------------------------------------------------------------
\* Rows and entities point at each other: a living entity with SoA data is
\* in the row it records, in the archetype of exactly its type mask, and
\* every row in use belongs to a living entity that records that row.
RowsAgree ==
  /\ \A i \in LiveSlots :
       IF soa_type_masks[i] = {} THEN ~HasArchetype(i)
       ELSE /\ HasArchetype(i)
            /\ ArchetypeOf(i).type_mask = soa_type_masks[i]
            /\ soa_archetype_rows[i] \in Rows(ArchetypeOf(i))
            /\ ArchetypeOf(i).entities[soa_archetype_rows[i]] = IdAt(i)
  /\ \A k \in 1..Len(archetypes) : \A r \in Rows(archetypes[k]) :
       LET id == archetypes[k].entities[r]
       IN  Alive(id) /\ soa_archetype_ids[id.index] = k /\ soa_archetype_rows[id.index] = r

\* The elements a destroy function is still owed for.
OwnedElements ==
  { e \in (1..Len(archetypes)) \X (1..MaxBirths) \X DestroyTypes :
      e[2] \in Rows(archetypes[e[1]]) /\ e[3] \in archetypes[e[1]].type_mask }

ElementAt(e) == archetypes[e[1]].data[e[3]][e[2]]

\* destroy is never run twice on one value: no row in use holds a value that
\* was destroyed or that another row also holds, however often rows were
\* copied between archetypes and swapped within them.
NoDoubleDestroy ==
  \A e \in OwnedElements :
    /\ <<e[3], ElementAt(e)>> \notin destroyed
    /\ \A f \in OwnedElements : e[3] = f[3] /\ ElementAt(e) = ElementAt(f) => e = f

\* A query visits exactly the living entities that have all the required
\* types and none of the excluded ones.
QueryIsExact ==
  \A required \in Masks, excluded \in SUBSET Types :
    QueryResult(required, excluded) =
      { IdAt(i) : i \in { i \in LiveSlots : /\ required \subseteq soa_type_masks[i]
                                             /\ soa_type_masks[i] \cap excluded = {} } }

\* The storage is a ComponentTable: moving rows disturbs no other entity.
SoaTable ==
  [i \in Slots |-> [t \in Types |-> IF alive[i] THEN GetSoa(i, t) ELSE NoArchetype]]
Table == INSTANCE ComponentTable WITH Absent <- NoArchetype, table <- SoaTable
ImplementsComponentTable == Table!Spec
============================================================================
