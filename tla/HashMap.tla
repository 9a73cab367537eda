------------------------------- MODULE HashMap -------------------------------
(***************************************************************************)
(* The open-addressing hash maps of src/tc_hash_map.c: linear probing,     *)
(* tombstones, growth at a load of 0.7.  tc_str_map, tc_u32_map and        *)
(* tc_u64_map are one algorithm; the integer maps write "empty" and        *)
(* "deleted" as two reserved keys, which they refuse to store.             *)
(*                                                                         *)
(* A hash is any number for any key.  Memory does not run out.             *)
(***************************************************************************)
EXTENDS Integers, Sequences, FiniteSets

CONSTANTS
  Key,              \* the keys callers use
  ReservedKey,      \* those of Key that the integer maps keep for themselves
  Value,
  Hash,             \* hash_string, hash_u32, hash_u64
  InitialCapacity,  \* what new rounded the requested capacity up to: 8 or more
  MaxCapacity,      \* bound: no set is made that would grow the table past it
  Empty,
  Deleted

ASSUME MapAssumption ==
  /\ InitialCapacity \in Nat /\ InitialCapacity >= 8
  /\ MaxCapacity \in Nat
  /\ Hash \in [Key -> Nat]
  /\ ReservedKey \subseteq Key
  /\ {Empty, Deleted} \cap (Key \X Value) = {}
  /\ Empty # Deleted
  /\ Empty \notin Value

VARIABLES
  entries,     \* entry i of the C array is entries[i+1]: a key with its value,
               \* Empty or Deleted; the capacity is Len(entries)
  count,
  deleted,     \* tombstones
  stored       \* history: the value last set under each key and not removed,
               \* or Empty

mapVars == <<entries, count, deleted, stored>>

Holding(k) == {k} \X Value
Occupied(es) == { p \in DOMAIN es : es[p] \in Key \X Value }
------------------------------------------------------------------------------
(* Probing, in entries es                                                  *)

\* The place that step n of a search for k looks at.  The capacity is a power
\* of two, so the mask is a remainder.
Probe(es, k, n) == 1 + ((Hash[k] + n) % Len(es))

\* The first place at which a search for k meets one of the `wanted` entries, or
\* 0.  A search ends at the first empty entry.
FirstMet(es, k, wanted) ==
  LET Met == { n \in 0..Len(es)-1 :
                 /\ es[Probe(es, k, n)] \in wanted
                 /\ \A m \in 0..n-1 : es[Probe(es, k, m)] \notin wanted \cup {Empty} }
  IN  IF Met = {} THEN 0 ELSE Probe(es, k, CHOOSE n \in Met : TRUE)

\* Where k is.
Find(es, k) == FirstMet(es, k, Holding(k))

\* Mutant: a new key takes the first tombstone before the search is over.
PlaceAtTombstone(es, k) == FirstMet(es, k, Holding(k) \cup {Empty, Deleted})

\* Where set writes k: over k itself; or, once an empty entry shows that k is
\* not there, over the first tombstone met or else that empty entry; nowhere
\* in a table that has neither.
Place(es, k) ==
  IF Find(es, k) # 0 THEN Find(es, k)
  ELSE IF FirstMet(es, k, {Empty}) = 0 THEN 0
  ELSE FirstMet(es, k, {Empty, Deleted})

Written(es, p, e) == IF p = 0 THEN es ELSE [es EXCEPT ![p] = e]

\* The values that get returns for k: one or none.
Get(k) ==
  IF k \in ReservedKey \/ Find(entries, k) = 0 THEN {} ELSE {entries[Find(entries, k)][2]}
------------------------------------------------------------------------------
(* Growth                                                                  *)

NoEntries(capacity) == [p \in 1..capacity |-> Empty]

\* Mutant: tombstones do not count towards the load.
OverloadedByCount == count * 10 > Len(entries) * 7

Overloaded == (count + deleted) * 10 > Len(entries) * 7

\* Table es after entry e of the old table is dealt with.
Reinserted(es, e) == IF e \in Key \X Value THEN Written(es, Place(es, e[1]), e) ELSE es

\* What the table holds is set, in the order of the table, in an empty one of
\* twice the capacity: after[p] is the new table when entry p is dealt with.
Resized ==
  LET after[p \in 0..Len(entries)] ==
        IF p = 0 THEN NoEntries(2 * Len(entries))
        ELSE Reinserted(after[p-1], entries[p])
  IN  after[Len(entries)]

\* The entries set works on: those of the table, which it may have to resize.
EntriesForSet == IF Overloaded THEN Resized ELSE entries
------------------------------------------------------------------------------
\* new
MapInit ==
  /\ entries = NoEntries(InitialCapacity)
  /\ count = 0
  /\ deleted = 0
  /\ stored = [k \in Key |-> Empty]

\* Mutant: a tombstone that is used again stays counted.
DeletedAfterSetKept(es, p) == IF Overloaded THEN 0 ELSE deleted

\* A resized table has no tombstones; one that is written over is gone.
DeletedAfterSet(es, p) ==
  (IF Overloaded THEN 0 ELSE deleted) - (IF p # 0 /\ es[p] = Deleted THEN 1 ELSE 0)

\* set(k, v), with es the entries it works on and p the place it finds.
SetIn(es, k, v) ==
  /\ Overloaded => 2 * Len(entries) <= MaxCapacity
  /\ k \notin ReservedKey
  /\ \E p \in {Place(es, k)} :
       /\ entries' = Written(es, p, <<k, v>>)
       /\ count' = (IF Overloaded THEN Cardinality(Occupied(es)) ELSE count)
                     + (IF p # 0 /\ es[p] \in {Empty, Deleted} THEN 1 ELSE 0)
       /\ deleted' = DeletedAfterSet(es, p)
       /\ stored' = [stored EXCEPT ![k] = v]

Removed(k) == Written(entries, Find(entries, k), Deleted)

Remove(k) ==
  /\ k \notin ReservedKey
  /\ Find(entries, k) # 0
  /\ entries' = Removed(k)
  /\ count' = count - 1
  /\ deleted' = deleted + 1
  /\ stored' = [stored EXCEPT ![k] = Empty]

Clear ==
  /\ entries' = NoEntries(Len(entries))
  /\ count' = 0
  /\ deleted' = 0
  /\ stored' = [k \in Key |-> Empty]

MapNext ==
  \/ \E es \in {EntriesForSet} : \E k \in Key, v \in Value : SetIn(es, k, v)
  \/ \E k \in Key : Remove(k)
  \/ Clear

MapSpec == MapInit /\ [][MapNext]_mapVars
------------------------------------------------------------------------------
\* The counters the load is computed from are those of the entries, however
\* tombstones were left, used again and dropped by a resize.
CountsExact ==
  /\ count = Cardinality(Occupied(entries))
  /\ deleted = Cardinality({ p \in DOMAIN entries : entries[p] = Deleted })

\* An empty entry always remains: set never fails to find a place, and a search
\* for a missing key need not visit the whole table.
SearchesEnd == \E p \in DOMAIN entries : entries[p] = Empty

\* Whatever collisions, tombstones and resizes do to the table, get finds what
\* was set last under a key, and nothing under a key that was removed.
GetsWhatWasSet ==
  \A k \in Key : Get(k) = IF stored[k] = Empty THEN {} ELSE {stored[k]}
==============================================================================
