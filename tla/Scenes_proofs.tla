---------------------------- MODULE Scenes_proofs ----------------------------
(***************************************************************************)
(* Theorems about ScenePool, for every capacity of the two tables and any  *)
(* number of scenes, pools and uuids; and about SceneFile, for every       *)
(* forest that is saved, every capacity of the scene it is loaded into,    *)
(* and any number of component types and of things hooks do.               *)
(***************************************************************************)
EXTENDS ScenePool, SceneFile, SwapArrays_proofs, FiniteSetTheorems

-----------------------------------------------------------------------------
(* Tables of slots                                                          *)

SlotsOf(t) == 0..t.capacity-1

\* A table as NewTable makes it and every operation keeps it.
IsTable(t, max) ==
  /\ t \in [capacity : Nat, generations : [SlotsOf(t) -> Nat], alive : SUBSET SlotsOf(t),
            free_stack : Seq(SlotsOf(t)), count : Nat]
  /\ t.capacity <= max
  /\ Accounted(t)

\* Table u is table t with room for more: nothing that was there changes.
Extends(u, t) ==
  /\ t.capacity <= u.capacity /\ u.capacity > 0
  /\ u.alive = t.alive
  /\ \A i \in SlotsOf(t) : u.generations[i] = t.generations[i]

\* Table u is table t with slot i taken.
Takes(u, t, i) ==
  /\ i \in SlotsOf(t) \ t.alive
  /\ u.capacity = t.capacity
  /\ u.alive = t.alive \cup {i}
  /\ u.generations = t.generations

\* Table u is table t without the slots S.
Releases(u, t, S) ==
  /\ u.capacity = t.capacity
  /\ u.alive = t.alive \ S
  /\ \A i \in SlotsOf(t) :
       u.generations[i] = IF i \in S THEN t.generations[i] + 1 ELSE t.generations[i]

\* The changes of several fields at once that the operations make, one field
\* after another: the provers see through a record one field at a time.
Fields(c, g, a, f, n) ==
  [capacity |-> c, generations |-> g, alive |-> a, free_stack |-> f, count |-> n]

SetCapacity(t, x) == [t EXCEPT !.capacity = x]
SetGenerations(t, x) == [t EXCEPT !.generations = x]
SetAlive(t, x) == [t EXCEPT !.alive = x]
SetStack(t, x) == [t EXCEPT !.free_stack = x]
SetCount(t, x) == [t EXCEPT !.count = x]

LEMMA OneField ==
  ASSUME NEW c, NEW g, NEW a, NEW f, NEW n, NEW x
  PROVE  /\ SetCapacity(Fields(c, g, a, f, n), x) = Fields(x, g, a, f, n)
         /\ SetGenerations(Fields(c, g, a, f, n), x) = Fields(c, x, a, f, n)
         /\ SetAlive(Fields(c, g, a, f, n), x) = Fields(c, g, x, f, n)
         /\ SetStack(Fields(c, g, a, f, n), x) = Fields(c, g, a, x, n)
         /\ SetCount(Fields(c, g, a, f, n), x) = Fields(c, g, a, f, x)
  BY DEF Fields, SetCapacity, SetGenerations, SetAlive, SetStack, SetCount

Enlarged(t, c, g, f) == [t EXCEPT !.capacity = c, !.generations = g, !.free_stack = f]
Occupied(t, a, f, n) == [t EXCEPT !.alive = a, !.free_stack = f, !.count = n]
Vacated(t, a, g, f, n) ==
  [t EXCEPT !.alive = a, !.generations = g, !.free_stack = f, !.count = n]

LEMMA EnlargedFields ==
  ASSUME NEW c, NEW g, NEW a, NEW f, NEW n, NEW c2, NEW g2, NEW f2
  PROVE  Enlarged(Fields(c, g, a, f, n), c2, g2, f2) = Fields(c2, g2, a, f2, n)
<1> DEFINE t == Fields(c, g, a, f, n)
<1>1. Enlarged(t, c2, g2, f2) = SetStack(SetGenerations(SetCapacity(t, c2), g2), f2)
  BY DEF Enlarged, SetCapacity, SetGenerations, SetStack
<1> QED
  BY <1>1, OneField

LEMMA OccupiedFields ==
  ASSUME NEW c, NEW g, NEW a, NEW f, NEW n, NEW a2, NEW f2, NEW n2
  PROVE  Occupied(Fields(c, g, a, f, n), a2, f2, n2) = Fields(c, g, a2, f2, n2)
<1> DEFINE t == Fields(c, g, a, f, n)
<1>1. Occupied(t, a2, f2, n2) = SetCount(SetStack(SetAlive(t, a2), f2), n2)
  BY DEF Occupied, SetAlive, SetStack, SetCount
<1> QED
  BY <1>1, OneField

LEMMA VacatedFields ==
  ASSUME NEW c, NEW g, NEW a, NEW f, NEW n, NEW a2, NEW g2, NEW f2, NEW n2
  PROVE  Vacated(Fields(c, g, a, f, n), a2, g2, f2, n2) = Fields(c, g2, a2, f2, n2)
<1> DEFINE t == Fields(c, g, a, f, n)
<1>1. Vacated(t, a2, g2, f2, n2)
        = SetCount(SetStack(SetGenerations(SetAlive(t, a2), g2), f2), n2)
  BY DEF Vacated, SetAlive, SetGenerations, SetStack, SetCount
<1> QED
  BY <1>1, OneField

LEMMA SlotsOfFinite ==
  ASSUME NEW c \in Nat
  PROVE  IsFiniteSet(0..c-1) /\ Cardinality(0..c-1) = c
<1>1. 0 \in Int /\ c-1 \in Int
  OBVIOUS
<1>2. IsFiniteSet(0..c-1) /\ Cardinality(0..c-1) = IF 0 > c-1 THEN 0 ELSE (c-1)-0+1
  BY <1>1, FS_Interval
<1> QED
  BY <1>2

\* The stack of a table's new slots holds each of them once.
LEMMA FreshSlotsItems ==
  ASSUME NEW old \in Nat, NEW cap \in Nat, old <= cap
  PROVE  /\ FreshSlots(old, cap) \in Seq(0..cap-1)
         /\ ToSet(FreshSlots(old, cap)) = old..cap-1
         /\ IsInjective(FreshSlots(old, cap))
         /\ Len(FreshSlots(old, cap)) = cap - old
<1> DEFINE stack == FreshSlots(old, cap)
<1>1. stack \in [1..cap-old -> 0..cap-1]
  BY DEF FreshSlots
<1>2. \A k \in 1..cap-old : stack[k] = cap-k
  BY DEF FreshSlots
<1>3. ASSUME NEW i \in old..cap-1 PROVE i \in ToSet(stack)
  <2>1. cap-i \in 1..cap-old /\ stack[cap-i] = i
    BY <1>2
  <2> QED
    BY <1>1, <2>1 DEF ToSet
<1>4. ToSet(stack) = old..cap-1
  BY <1>1, <1>2, <1>3 DEF ToSet
<1>5. IsInjective(stack)
  BY <1>1, <1>2 DEF IsInjective
<1>6. stack \in Seq(0..cap-1) /\ Len(stack) = cap-old
  BY <1>1
<1> QED
  BY <1>4, <1>5, <1>6

LEMMA NewTableIsTable ==
  ASSUME NEW max \in Nat, NEW cap \in 0..max
  PROVE  /\ IsTable(NewTable(cap), max)
         /\ NewTable(cap).capacity = cap
         /\ NewTable(cap).alive = {}
<1> DEFINE t == NewTable(cap)
           stack == [k \in 1..cap |-> cap - k]
           gens == [i \in 0..cap-1 |-> 0]
<1>1. t = [capacity |-> cap, generations |-> gens, alive |-> {},
           free_stack |-> stack, count |-> 0]
  BY DEF NewTable
<1>2. /\ stack \in Seq(0..cap-1) /\ ToSet(stack) = 0..cap-1 /\ IsInjective(stack)
  <2>1. stack = FreshSlots(0, cap)
    BY DEF FreshSlots
  <2>2. cap \in Nat /\ 0 \in Nat /\ 0 <= cap
    OBVIOUS
  <2> QED
    BY <2>1, <2>2, FreshSlotsItems
<1>3. gens \in [0..cap-1 -> Nat]
  OBVIOUS
<1> HIDE DEF t, stack, gens
<1>4. /\ t.capacity = cap /\ t.generations = gens /\ t.alive = {}
      /\ t.free_stack = stack /\ t.count = 0
  BY <1>1
<1>5. Accounted(t)
  BY <1>2, <1>4, FS_EmptySet DEF Accounted
<1>6. t \in [capacity : Nat, generations : [SlotsOf(t) -> Nat], alive : SUBSET SlotsOf(t),
             free_stack : Seq(SlotsOf(t)), count : Nat]
  BY <1>1, <1>2, <1>3, <1>4 DEF SlotsOf
<1> QED
  BY <1>4, <1>5, <1>6 DEF IsTable, t

\* The fields of a table.
LEMMA TableFields ==
  ASSUME NEW max \in Nat, NEW t, IsTable(t, max)
  PROVE  /\ t = Fields(t.capacity, t.generations, t.alive, t.free_stack, t.count)
         /\ t.capacity \in 0..max
         /\ SlotsOf(t) = 0..t.capacity-1
         /\ t.generations \in [0..t.capacity-1 -> Nat]
         /\ t.alive \subseteq 0..t.capacity-1
         /\ t.free_stack \in Seq(0..t.capacity-1)
         /\ t.count \in Nat
         /\ IsInjective(t.free_stack)
         /\ t.alive \cap ToSet(t.free_stack) = {}
         /\ t.alive \cup ToSet(t.free_stack) = 0..t.capacity-1
         /\ IsFiniteSet(t.alive) /\ t.count = Cardinality(t.alive)
<1>1. t.capacity \in Nat /\ t.capacity <= max
  BY DEF IsTable
<1>2. IsFiniteSet(SlotsOf(t))
  BY <1>1, SlotsOfFinite DEF SlotsOf
<1>3. t.alive \in SUBSET SlotsOf(t)
  BY DEF IsTable
<1>4. IsFiniteSet(t.alive)
  BY <1>2, <1>3, FS_Subset
<1> QED
  BY <1>1, <1>4 DEF IsTable, Accounted, SlotsOf, Fields

\* A table that consists of these fields.
LEMMA TableOfFields ==
  ASSUME NEW max \in Nat, NEW cap \in 0..max,
         NEW gens \in [0..cap-1 -> Nat], NEW live \in SUBSET (0..cap-1),
         NEW stack \in Seq(0..cap-1), IsInjective(stack),
         live \cap ToSet(stack) = {}, live \cup ToSet(stack) = 0..cap-1,
         NEW n, n = Cardinality(live)
  PROVE  IsTable(Fields(cap, gens, live, stack, n), max)
<1> DEFINE t == Fields(cap, gens, live, stack, n)
<1>1. /\ t.capacity = cap /\ t.generations = gens /\ t.alive = live
      /\ t.free_stack = stack /\ t.count = n
  BY DEF Fields
<1>2. n \in Nat
  <2>1. cap \in Nat
    OBVIOUS
  <2>2. IsFiniteSet(0..cap-1)
    BY <2>1, SlotsOfFinite
  <2> QED
    BY <2>2, FS_Subset, FS_CardinalityType
<1>3. t \in [capacity : Nat, generations : [SlotsOf(t) -> Nat], alive : SUBSET SlotsOf(t),
             free_stack : Seq(SlotsOf(t)), count : Nat]
  BY <1>1, <1>2 DEF SlotsOf, Fields
<1>4. Accounted(t)
  BY <1>1 DEF Accounted
<1> QED
  BY <1>1, <1>3, <1>4 DEF IsTable

\* What the fields of a table are.
AreFields(c, g, a, f, n, max) ==
  /\ c \in Nat /\ c <= max
  /\ g \in [0..c-1 -> Nat]
  /\ a \subseteq 0..c-1
  /\ f \in Seq(0..c-1)
  /\ n \in Nat
  /\ IsInjective(f) /\ a \cap ToSet(f) = {} /\ a \cup ToSet(f) = 0..c-1
  /\ IsFiniteSet(a) /\ n = Cardinality(a)

LEMMA TableParts ==
  ASSUME NEW max \in Nat, NEW t, IsTable(t, max)
  PROVE  /\ t = Fields(t.capacity, t.generations, t.alive, t.free_stack, t.count)
         /\ AreFields(t.capacity, t.generations, t.alive, t.free_stack, t.count, max)
  BY TableFields DEF AreFields

\* registry_grow, pool_grow: the slots there were stay as they were; a table
\* that cannot grow has its maximum capacity.
LEMMA GrownIsTable ==
  ASSUME NEW max \in Nat, NEW t, IsTable(t, max), t.capacity > 0
  PROVE  /\ IsTable(Grown(t, max), max)
         /\ Extends(Grown(t, max), t)
         /\ Full(Grown(t, max)) => t.capacity = max
<1> DEFINE c == t.capacity
           g == t.generations
           a == t.alive
           f == t.free_stack
           n == t.count
<1>1. t = Fields(c, g, a, f, n) /\ AreFields(c, g, a, f, n, max)
  BY TableParts
<1>2. /\ c \in Nat /\ c <= max /\ g \in [0..c-1 -> Nat] /\ a \subseteq 0..c-1
      /\ f \in Seq(0..c-1) /\ n \in Nat
      /\ IsInjective(f) /\ a \cap ToSet(f) = {} /\ a \cup ToSet(f) = 0..c-1
      /\ IsFiniteSet(a) /\ n = Cardinality(a)
  BY <1>1 DEF AreFields
<1>3. /\ t.capacity = c /\ t.generations = g /\ t.alive = a
      /\ t.free_stack = f /\ t.count = n /\ SlotsOf(t) = 0..c-1
  BY DEF SlotsOf
<1> HIDE DEF c, g, a, f, n
<1> DEFINE cap == IF 2 * c > max THEN max ELSE 2 * c
           gens == [i \in 0..cap-1 |-> IF i < c THEN g[i] ELSE 0]
           fresh == FreshSlots(c, cap)
           u == Grown(t, max)
<1>4. c > 0 /\ c \in Nat /\ cap \in Nat /\ cap <= max /\ c <= max
  BY <1>2, <1>3
<1>5. u = IF cap <= c THEN t ELSE Enlarged(t, cap, gens, f \o fresh)
  BY <1>3 DEF Grown, Enlarged
<1> HIDE DEF u
<1>6. CASE cap <= c
  <2>1. u = t /\ c = max
    BY <1>4, <1>5, <1>6
  <2>2. IsTable(u, max) /\ Extends(u, t) /\ t.capacity = max
    BY <1>3, <1>4, <2>1 DEF Extends
  <2> QED
    BY <2>2 DEF u
<1>7. CASE cap > c
  <2>1. gens \in [0..cap-1 -> Nat] /\ \A i \in 0..c-1 : gens[i] = g[i]
    BY <1>2, <1>4, <1>7
  <2> HIDE DEF cap, gens
  <2>2. u = Enlarged(t, cap, gens, f \o fresh)
    BY <1>4, <1>5, <1>7
  <2>3. fresh \in Seq(0..cap-1) /\ ToSet(fresh) = c..cap-1 /\ IsInjective(fresh)
    <3>1. c <= cap
      BY <1>4, <1>7
    <3> QED
      BY <1>4, <3>1, FreshSlotsItems
  <2>4. f \in Seq(0..cap-1)
    <3>1. 0..c-1 \subseteq 0..cap-1
      BY <1>4, <1>7
    <3> QED
      BY <1>2, <3>1, SeqMonotonic
  <2>5. ToSet(f) \cap ToSet(fresh) = {}
    BY <1>2, <1>4, <2>3
  <2> HIDE DEF fresh
  <2>6. /\ f \o fresh \in Seq(0..cap-1)
        /\ ToSet(f \o fresh) = ToSet(f) \cup ToSet(fresh)
        /\ IsInjective(f \o fresh)
    <3>1. f \in Seq(0..cap-1) /\ fresh \in Seq(0..cap-1)
          /\ IsInjective(f) /\ IsInjective(fresh) /\ ToSet(f) \cap ToSet(fresh) = {}
      BY <1>2, <2>3, <2>4, <2>5
    <3> QED
      BY <3>1, ConcatItems
  <2>7. /\ a \cap ToSet(f \o fresh) = {} /\ a \cup ToSet(f \o fresh) = 0..cap-1
        /\ a \in SUBSET (0..cap-1)
    BY <1>2, <1>4, <1>7, <2>3, <2>6
  <2>8. u = Fields(cap, gens, a, f \o fresh, n)
    BY <1>1, <2>2, EnlargedFields
  <2>9. /\ u.capacity = cap /\ u.generations = gens /\ u.alive = a
        /\ u.free_stack = f \o fresh
    BY <2>8 DEF Fields
  <2>10. IsTable(u, max)
    <3>1. cap \in 0..max
      BY <1>4
    <3> QED
      BY <1>2, <2>1, <2>6, <2>7, <2>8, <3>1, TableOfFields
  <2>11. Extends(u, t)
    BY <1>3, <1>4, <1>7, <2>1, <2>9 DEF Extends
  <2>12. ~Full(u)
    <3>1. c \in ToSet(f \o fresh)
      BY <1>4, <1>7, <2>3, <2>6
    <3>2. f \o fresh # <<>>
      BY <3>1 DEF ToSet
    <3> QED
      BY <2>9, <3>2 DEF Full
  <2> QED
    BY <2>10, <2>11, <2>12 DEF u
<1> QED
  BY <1>4, <1>6, <1>7

\* What an allocation takes its slot from: only a table at its maximum, all
\* of whose slots are alive, has none.
LEMMA ForAllocIsTable ==
  ASSUME NEW max \in Nat, NEW initial \in 1..max, NEW t, IsTable(t, max)
  PROVE  /\ IsTable(ForAlloc(t, initial, max), max)
         /\ Extends(ForAlloc(t, initial, max), t)
         /\ Full(ForAlloc(t, initial, max)) => t.alive = 0..max-1
<1> DEFINE made == IF t.capacity = 0 THEN NewTable(initial) ELSE t
           u == ForAlloc(t, initial, max)
<1>1. t.capacity \in 0..max /\ t.alive \subseteq 0..t.capacity-1 /\ SlotsOf(t) = 0..t.capacity-1
  BY TableFields
<1>2. IsTable(made, max) /\ Extends(made, t) /\ made.capacity > 0
  <2>1. CASE t.capacity = 0
    <3>1. /\ IsTable(NewTable(initial), max)
          /\ NewTable(initial).capacity = initial /\ NewTable(initial).alive = {}
      BY NewTableIsTable
    <3> QED
      BY <1>1, <2>1, <3>1 DEF Extends
  <2>2. CASE t.capacity # 0
    BY <1>1, <2>2 DEF Extends
  <2> QED
    BY <2>1, <2>2
<1> HIDE DEF made
<1>3. u = IF made.free_stack = <<>> THEN Grown(made, max) ELSE made
  BY DEF ForAlloc, made
<1> HIDE DEF u
<1>4. CASE made.free_stack = <<>>
  <2>1. /\ IsTable(u, max) /\ Extends(u, made) /\ (Full(u) => made.capacity = max)
    BY <1>2, <1>3, <1>4, GrownIsTable
  <2>2. Extends(u, t)
    <3>1. /\ made.capacity <= u.capacity /\ u.capacity > 0 /\ u.alive = made.alive
          /\ \A i \in 0..made.capacity-1 : u.generations[i] = made.generations[i]
      BY <2>1 DEF Extends, SlotsOf
    <3>2. /\ t.capacity <= made.capacity /\ made.alive = t.alive
          /\ \A i \in 0..t.capacity-1 : made.generations[i] = t.generations[i]
      BY <1>2 DEF Extends, SlotsOf
    <3>3. made.capacity \in Nat /\ u.capacity \in Nat /\ t.capacity \in Nat
      BY <1>1, <1>2, <2>1 DEF IsTable
    <3>4. \A i \in 0..t.capacity-1 : u.generations[i] = t.generations[i]
      BY <3>1, <3>2, <3>3
    <3> QED
      BY <3>1, <3>2, <3>3, <3>4 DEF Extends, SlotsOf
  <2>3. made.alive \cup ToSet(made.free_stack) = 0..made.capacity-1
    BY <1>2, TableFields
  <2>4. ToSet(made.free_stack) = {}
    BY <1>4 DEF ToSet
  <2>5. made.alive = t.alive
    BY <1>2 DEF Extends
  <2> QED
    BY <2>1, <2>2, <2>3, <2>4, <2>5 DEF u
<1>5. CASE made.free_stack # <<>>
  BY <1>2, <1>3, <1>5 DEF Full, u
<1> QED
  BY <1>4, <1>5

LEMMA TakenIsTable ==
  ASSUME NEW max \in Nat, NEW t, IsTable(t, max), ~Full(t)
  PROVE  IsTable(Taken(t), max) /\ Takes(Taken(t), t, NextSlot(t))
<1> DEFINE c == t.capacity
           g == t.generations
           a == t.alive
           f == t.free_stack
           n == t.count
<1>1. t = Fields(c, g, a, f, n) /\ AreFields(c, g, a, f, n, max)
  BY TableParts
<1>2. /\ c \in Nat /\ c <= max /\ g \in [0..c-1 -> Nat] /\ a \subseteq 0..c-1
      /\ f \in Seq(0..c-1) /\ n \in Nat
      /\ IsInjective(f) /\ a \cap ToSet(f) = {} /\ a \cup ToSet(f) = 0..c-1
      /\ IsFiniteSet(a) /\ n = Cardinality(a)
  BY <1>1 DEF AreFields
<1>3. /\ t.capacity = c /\ t.generations = g /\ t.alive = a
      /\ t.free_stack = f /\ t.count = n /\ SlotsOf(t) = 0..c-1
  BY DEF SlotsOf
<1> HIDE DEF c, g, a, f, n
<1> DEFINE i == Last(f)
           live == a \cup {i}
           stack == Front(f)
           u == Taken(t)
<1>4. i = NextSlot(t) /\ f # <<>>
  BY <1>3 DEF NextSlot, Full
<1>5. /\ i \in ToSet(f)
      /\ stack \in Seq(0..c-1)
      /\ ToSet(stack) = ToSet(f) \ {i}
      /\ IsInjective(stack)
  BY <1>2, <1>4, FrontItems
<1>6. u = Occupied(t, live, stack, n + 1)
  BY <1>3, <1>4 DEF Taken, Occupied
<1> HIDE DEF i, stack, u
<1>7. i \in 0..c-1 /\ i \notin a
  BY <1>2, <1>5
<1>8. live \in SUBSET (0..c-1) /\ live \cap ToSet(stack) = {}
      /\ live \cup ToSet(stack) = 0..c-1
  BY <1>2, <1>5, <1>7
<1>9. n + 1 = Cardinality(live)
  BY <1>2, <1>7, FS_AddElement
<1>10. u = Fields(c, g, live, stack, n + 1)
  BY <1>1, <1>6, OccupiedFields
<1>11. u.capacity = c /\ u.generations = g /\ u.alive = live
  BY <1>10 DEF Fields
<1> HIDE DEF live
<1>12. IsTable(u, max)
  <2>1. c \in 0..max
    BY <1>2
  <2> QED
    BY <1>2, <1>5, <1>8, <1>9, <1>10, <2>1, TableOfFields
<1>13. Takes(u, t, i)
  BY <1>3, <1>7, <1>11 DEF Takes, live
<1> QED
  BY <1>4, <1>12, <1>13 DEF u

LEMMA ReleasedInTurnIsTable ==
  ASSUME NEW max \in Nat, NEW t, IsTable(t, max), NEW slots \in Seq(SlotsOf(t)),
         IsInjective(slots), ToSet(slots) \subseteq t.alive
  PROVE  /\ IsTable(ReleasedInTurn(t, slots), max)
         /\ Releases(ReleasedInTurn(t, slots), t, ToSet(slots))
<1> DEFINE c == t.capacity
           g == t.generations
           a == t.alive
           f == t.free_stack
           n == t.count
<1>1. t = Fields(c, g, a, f, n) /\ AreFields(c, g, a, f, n, max)
  BY TableParts
<1>2. /\ c \in Nat /\ c <= max /\ g \in [0..c-1 -> Nat] /\ a \subseteq 0..c-1
      /\ f \in Seq(0..c-1) /\ n \in Nat
      /\ IsInjective(f) /\ a \cap ToSet(f) = {} /\ a \cup ToSet(f) = 0..c-1
      /\ IsFiniteSet(a) /\ n = Cardinality(a)
  BY <1>1 DEF AreFields
<1>3. /\ t.capacity = c /\ t.generations = g /\ t.alive = a
      /\ t.free_stack = f /\ t.count = n /\ SlotsOf(t) = 0..c-1
  BY DEF SlotsOf
<1> HIDE DEF c, g, a, f, n
<1> DEFINE S == ToSet(slots)
           live == a \ S
           gens == [i \in 0..c-1 |-> IF i \in S THEN NextGeneration(g[i]) ELSE g[i]]
           stack == f \o slots
           u == ReleasedInTurn(t, slots)
<1>4. u = Vacated(t, live, gens, stack, n - Len(slots))
  BY <1>3 DEF ReleasedInTurn, Vacated
<1> HIDE DEF u
<1>5. gens \in [0..c-1 -> Nat]
      /\ \A i \in 0..c-1 : gens[i] = IF i \in S THEN g[i] + 1 ELSE g[i]
  BY <1>2 DEF NextGeneration
<1>6. slots \in Seq(0..c-1) /\ S \subseteq a
  BY <1>3
<1>7. stack \in Seq(0..c-1) /\ ToSet(stack) = ToSet(f) \cup S /\ IsInjective(stack)
  <2>1. ToSet(f) \cap ToSet(slots) = {}
    BY <1>2, <1>6
  <2> QED
    BY <1>2, <1>6, <2>1, ConcatItems
<1>8. IsFiniteSet(S) /\ Cardinality(S) = Len(slots)
  <2>1. Len(slots) \in Nat
    BY <1>6
  <2>2. IsFiniteSet(1..Len(slots)) /\ Cardinality(1..Len(slots)) = Len(slots)
    <3>1. 1 \in Int /\ Len(slots) \in Int
      BY <2>1
    <3>2. IsFiniteSet(1..Len(slots))
          /\ Cardinality(1..Len(slots)) = IF 1 > Len(slots) THEN 0 ELSE Len(slots)-1+1
      BY <3>1, FS_Interval
    <3> QED
      BY <2>1, <3>2
  <2>3. slots \in Bijection(1..Len(slots), S)
    <3>1. slots \in [1..Len(slots) -> S]
      BY <1>6 DEF ToSet
    <3>2. \A j, k \in 1..Len(slots) : slots[j] = slots[k] => j = k
      BY <1>6 DEF IsInjective
    <3>3. \A x \in S : \E k \in 1..Len(slots) : slots[k] = x
      BY <1>6 DEF ToSet
    <3> HIDE DEF S
    <3> QED
      BY <3>1, <3>2, <3>3 DEF Bijection, Injection, Surjection, IsInjective
  <2> HIDE DEF S
  <2> QED
    BY <2>1, <2>2, <2>3, FS_Bijection DEF ExistsBijection
<1> HIDE DEF S, gens, stack
<1>9. n - Len(slots) = Cardinality(live)
  <2>1. a \cap S = S
    BY <1>6
  <2>2. Cardinality(live) = Cardinality(a) - Cardinality(a \cap S)
    BY <1>2, FS_Difference
  <2> QED
    BY <1>2, <1>8, <2>1, <2>2
<1>10. live \in SUBSET (0..c-1) /\ live \cap ToSet(stack) = {}
       /\ live \cup ToSet(stack) = 0..c-1
  BY <1>2, <1>6, <1>7
<1>11. u = Fields(c, gens, live, stack, n - Len(slots))
  BY <1>1, <1>4, VacatedFields
<1>12. u.capacity = c /\ u.generations = gens /\ u.alive = live
  BY <1>11 DEF Fields
<1> HIDE DEF live
<1>13. IsTable(u, max)
  <2>1. c \in 0..max
    BY <1>2
  <2> QED
    BY <1>5, <1>7, <1>9, <1>10, <1>11, <2>1, TableOfFields
<1>14. Releases(u, t, S)
  BY <1>3, <1>5, <1>12 DEF Releases, live
<1> QED
  BY <1>13, <1>14 DEF u, S

LEMMA ReleasedIsTable ==
  ASSUME NEW max \in Nat, NEW t, IsTable(t, max), NEW i \in t.alive
  PROVE  /\ IsTable(Released(t, i), max)
         /\ Releases(Released(t, i), t, {i})
<1>1. /\ t.capacity \in 0..max /\ SlotsOf(t) = 0..t.capacity-1
      /\ t.generations \in [0..t.capacity-1 -> Nat]
      /\ t.free_stack \in Seq(0..t.capacity-1)
      /\ i \in 0..t.capacity-1
      /\ t.count \in Nat
  BY TableFields
<1>2. <<i>> \in Seq(SlotsOf(t)) /\ ToSet(<<i>>) = {i} /\ IsInjective(<<i>>) /\ Len(<<i>>) = 1
  BY <1>1 DEF ToSet, IsInjective
<1>3. [t.generations EXCEPT ![i] = NextGeneration(t.generations[i])]
        = [j \in 0..t.capacity-1 |->
             IF j \in ToSet(<<i>>) THEN NextGeneration(t.generations[j]) ELSE t.generations[j]]
  BY <1>1, <1>2
<1>4. Append(t.free_stack, i) = t.free_stack \o <<i>>
  BY <1>1, AppendIsConcat
<1>5. Released(t, i) = ReleasedInTurn(t, <<i>>)
  <2>1. Released(t, i)
          = Vacated(t, t.alive \ {i},
                    [t.generations EXCEPT ![i] = NextGeneration(t.generations[i])],
                    Append(t.free_stack, i), t.count - 1)
    BY DEF Released, Vacated
  <2>2. ReleasedInTurn(t, <<i>>)
          = Vacated(t, t.alive \ ToSet(<<i>>),
                    [j \in 0..t.capacity-1 |->
                       IF j \in ToSet(<<i>>) THEN NextGeneration(t.generations[j])
                       ELSE t.generations[j]],
                    t.free_stack \o <<i>>, t.count - Len(<<i>>))
    BY DEF ReleasedInTurn, Vacated
  <2> QED
    BY <1>2, <1>3, <1>4, <2>1, <2>2
<1> QED
  BY <1>2, <1>5, ReleasedInTurnIsTable

\* Table u is table t with slot i taken, after it has grown if it had to.
Adds(u, t, i) ==
  /\ t.capacity <= u.capacity
  /\ i \in SlotsOf(u) /\ i \notin t.alive
  /\ u.alive = t.alive \cup {i}
  /\ \A j \in SlotsOf(t) : u.generations[j] = t.generations[j]

LEMMA AllocatedIsTable ==
  ASSUME NEW max \in Nat, NEW initial \in 1..max, NEW t, IsTable(t, max),
         ~Full(ForAlloc(t, initial, max))
  PROVE  /\ IsTable(Taken(ForAlloc(t, initial, max)), max)
         /\ Adds(Taken(ForAlloc(t, initial, max)), t, NextSlot(ForAlloc(t, initial, max)))
         /\ HandleAt(Taken(ForAlloc(t, initial, max)), NextSlot(ForAlloc(t, initial, max)))
              = HandleAt(ForAlloc(t, initial, max), NextSlot(ForAlloc(t, initial, max)))
<1> DEFINE v == ForAlloc(t, initial, max)
           i == NextSlot(v)
           u == Taken(v)
<1>1. IsTable(v, max) /\ Extends(v, t)
  BY ForAllocIsTable
<1> HIDE DEF v
<1>2. IsTable(u, max) /\ Takes(u, v, i)
  BY <1>1, TakenIsTable DEF v
<1> HIDE DEF i, u
<1>3. /\ t.capacity <= v.capacity /\ v.alive = t.alive
      /\ \A j \in 0..t.capacity-1 : v.generations[j] = t.generations[j]
  BY <1>1 DEF Extends, SlotsOf
<1>4. /\ i \in 0..v.capacity-1 /\ i \notin v.alive /\ u.capacity = v.capacity
      /\ u.alive = v.alive \cup {i} /\ u.generations = v.generations
  BY <1>2 DEF Takes, SlotsOf
<1>5. Adds(u, t, i) /\ HandleAt(u, i) = HandleAt(v, i)
  BY <1>3, <1>4 DEF Adds, SlotsOf, HandleAt
<1> QED
  BY <1>2, <1>5 DEF v, i, u

\* The handles of S died in table t: their slots have newer generations.
Spent(S, t) ==
  \A h \in S : /\ h \in Handle /\ h.index \in SlotsOf(t)
               /\ h.generation < t.generations[h.index]

\* What is alive in a table, and what its handles are.
LEMMA TableSlots ==
  ASSUME NEW max \in Nat, NEW t, IsTable(t, max)
  PROVE  /\ t.alive \subseteq SlotsOf(t) /\ SlotsOf(t) \subseteq 0..max-1
         /\ \A i \in SlotsOf(t) : HandleAt(t, i) \in Handle
<1>1. /\ t.capacity \in 0..max /\ t.alive \subseteq 0..t.capacity-1
      /\ t.generations \in [0..t.capacity-1 -> Nat]
  BY TableFields
<1> QED
  BY <1>1 DEF SlotsOf, HandleAt, Handle

LEMMA HandleFields ==
  ASSUME NEW t, NEW i
  PROVE  HandleAt(t, i).index = i /\ HandleAt(t, i).generation = t.generations[i]
  BY DEF HandleAt

\* A handle that died denotes nothing.
LEMMA SpentIsDead ==
  ASSUME NEW max \in Nat, NEW t, IsTable(t, max), NEW S, Spent(S, t), NEW h \in S
  PROVE  ~HandleAlive(t, h)
<1>1. /\ h.index \in SlotsOf(t) /\ h.generation < t.generations[h.index]
      /\ h.generation \in Nat
  BY DEF Spent, Handle
<1>2. t.generations[h.index] \in Nat
  BY <1>1, TableFields DEF SlotsOf
<1> QED
  BY <1>1, <1>2 DEF HandleAlive

\* A dead handle stays dead when slots are taken, and handles die when their
\* slots are released.
LEMMA SpentAfterAdd ==
  ASSUME NEW max \in Nat, NEW t, NEW u, NEW i, IsTable(t, max), IsTable(u, max),
         Adds(u, t, i), NEW S, Spent(S, t)
  PROVE  Spent(S, u)
<1>1. t.capacity \in Nat /\ u.capacity \in Nat
  BY DEF IsTable
<1> QED
  BY <1>1 DEF Spent, Adds, SlotsOf

LEMMA SpentAfterExtension ==
  ASSUME NEW max \in Nat, NEW t, NEW u, IsTable(t, max), IsTable(u, max),
         Extends(u, t), NEW S, Spent(S, t)
  PROVE  Spent(S, u)
<1>1. t.capacity \in Nat /\ u.capacity \in Nat
  BY DEF IsTable
<1> QED
  BY <1>1 DEF Spent, Extends, SlotsOf

LEMMA SpentAfterRelease ==
  ASSUME NEW max \in Nat, NEW t, NEW u, NEW R, IsTable(t, max),
         Releases(u, t, R), R \subseteq t.alive, NEW S, Spent(S, t)
  PROVE  Spent(S \cup { HandleAt(t, i) : i \in R }, u)
<1>1. /\ t.alive \subseteq SlotsOf(t)
      /\ \A i \in SlotsOf(t) : HandleAt(t, i) \in Handle
  BY TableSlots
<1>2. \A i \in SlotsOf(t) : t.generations[i] \in Nat
  <2>1. t.generations \in [SlotsOf(t) -> Nat]
    BY DEF IsTable
  <2> QED
    BY <2>1
<1>3. /\ SlotsOf(u) = SlotsOf(t)
      /\ \A i \in SlotsOf(t) :
           u.generations[i] = IF i \in R THEN t.generations[i] + 1 ELSE t.generations[i]
  BY DEF Releases, SlotsOf
<1>4. ASSUME NEW h \in S
      PROVE  h \in Handle /\ h.index \in SlotsOf(u) /\ h.generation < u.generations[h.index]
  <2>1. h \in Handle /\ h.index \in SlotsOf(t) /\ h.generation < t.generations[h.index]
    BY DEF Spent
  <2>2. h.generation \in Nat
    BY <2>1 DEF Handle
  <2> QED
    BY <1>2, <1>3, <2>1, <2>2
<1>5. ASSUME NEW i \in R
      PROVE  /\ HandleAt(t, i) \in Handle /\ HandleAt(t, i).index \in SlotsOf(u)
             /\ HandleAt(t, i).generation < u.generations[HandleAt(t, i).index]
  <2>1. i \in SlotsOf(t) /\ HandleAt(t, i) \in Handle
    BY <1>1
  <2> QED
    BY <1>2, <1>3, <2>1, HandleFields
<1> QED
  BY <1>4, <1>5 DEF Spent

\* The order in which a shutdown returns slots to the registry: each of them
\* once.  Its k-th slot is the one whose scene has k-1 others before it.
LEMMA InSceneOrderItems ==
  ASSUME scenes.alive \subseteq Nat, NEW slots, IsFiniteSet(slots),
         \A r \in slots : \E i \in scenes.alive : pools[i] = registered[r],
         \A q, r \in slots : registered[q] = registered[r] => q = r
  PROVE  /\ InSceneOrder(slots) \in Seq(slots)
         /\ IsInjective(InSceneOrder(slots))
         /\ ToSet(InSceneOrder(slots)) = slots
<1> DEFINE Scene(r) == CHOOSE i \in scenes.alive : pools[i] = registered[r]
           Earlier(r) == { q \in slots : Scene(q) < Scene(r) }
           n == Cardinality(slots)
           rank == [r \in slots |-> Cardinality(Earlier(r)) + 1]
           order == [k \in 1..n |-> CHOOSE r \in slots : Cardinality(Earlier(r)) = k - 1]
<1>1. InSceneOrder(slots) = order
  BY DEF InSceneOrder
<1>2. \A r \in slots : Scene(r) \in Nat /\ pools[Scene(r)] = registered[r]
  OBVIOUS
<1>3. \A q, r \in slots : Scene(q) = Scene(r) => q = r
  BY <1>2
<1> HIDE DEF Scene
<1>4. n \in Nat
  BY FS_CardinalityType
<1>5. \A r \in slots : Earlier(r) \in SUBSET slots /\ r \notin Earlier(r)
  BY <1>2
<1>6. ASSUME NEW r \in slots
      PROVE  IsFiniteSet(Earlier(r)) /\ Cardinality(Earlier(r)) \in 0..n-1
  <2> HIDE DEF Earlier
  <2>1. IsFiniteSet(Earlier(r)) /\ Cardinality(Earlier(r)) \in Nat
        /\ Cardinality(Earlier(r)) <= n /\ (n = Cardinality(Earlier(r)) => slots = Earlier(r))
    BY <1>5, FS_Subset, FS_CardinalityType
  <2>2. slots # Earlier(r)
    BY <1>5
  <2> QED
    BY <1>4, <2>1, <2>2
<1>7. ASSUME NEW q \in slots, NEW r \in slots, Scene(q) < Scene(r)
      PROVE  Cardinality(Earlier(q)) # Cardinality(Earlier(r))
  <2>1. Earlier(q) \in SUBSET Earlier(r) /\ q \in Earlier(r) /\ q \notin Earlier(q)
    BY <1>2, <1>7
  <2> HIDE DEF Earlier
  <2>2. IsFiniteSet(Earlier(r))
    BY <1>6
  <2>3. Cardinality(Earlier(r)) = Cardinality(Earlier(q)) => Earlier(r) = Earlier(q)
    BY <2>1, <2>2, FS_Subset
  <2> QED
    BY <2>1, <2>3
<1>8. ASSUME NEW q \in slots, NEW r \in slots,
             Cardinality(Earlier(q)) = Cardinality(Earlier(r))
      PROVE  q = r
  <2>1. Scene(q) = Scene(r)
    BY <1>2, <1>7, <1>8
  <2> QED
    BY <1>3, <2>1
<1> HIDE DEF Earlier
<1>9. rank \in Injection(slots, 1..n)
  <2>1. \A r \in slots : rank[r] \in 1..n /\ rank[r] = Cardinality(Earlier(r)) + 1
                         /\ Cardinality(Earlier(r)) \in Nat
    BY <1>4, <1>6
  <2>2. rank \in [slots -> 1..n]
    BY <2>1
  <2> HIDE DEF rank
  <2>3. \A q, r \in slots : rank[q] = rank[r] => q = r
    BY <1>8, <2>1
  <2> QED
    BY <2>2, <2>3 DEF Injection, IsInjective
<1>10. \A k \in 1..n : \E r \in slots : Cardinality(Earlier(r)) = k - 1
  <2>1. IsFiniteSet(1..n) /\ Cardinality(1..n) = n
    <3>1. 1 \in Int /\ n \in Int
      BY <1>4
    <3>2. IsFiniteSet(1..n) /\ Cardinality(1..n) = IF 1 > n THEN 0 ELSE n-1+1
      BY <3>1, FS_Interval
    <3> QED
      BY <1>4, <3>2
  <2>2. rank \in Surjection(slots, 1..n)
    <3> HIDE DEF rank, n
    <3>1. Cardinality(slots) = Cardinality(1..n)
      BY <2>1 DEF n
    <3> QED
      BY <1>9, <2>1, <3>1, FS_Injection
  <2>3. \A k \in 1..n : \E r \in slots : rank[r] = k
    <3> HIDE DEF rank, n
    <3> QED
      BY <2>2 DEF Surjection
  <2>4. \A r \in slots : rank[r] = Cardinality(Earlier(r)) + 1 /\ Cardinality(Earlier(r)) \in Nat
    BY <1>6
  <2> HIDE DEF rank
  <2> QED
    BY <1>4, <2>3, <2>4
<1>11. \A k \in 1..n : order[k] \in slots /\ Cardinality(Earlier(order[k])) = k - 1
  BY <1>10
<1>12. order \in [1..n -> slots]
  BY <1>11
<1> HIDE DEF order, n
<1>13. order \in Seq(slots) /\ DOMAIN order = 1..n
  BY <1>4, <1>12
<1>14. IsInjective(order)
  <2>1. \A j, k \in 1..n : order[j] = order[k] => j = k
    BY <1>4, <1>11
  <2> QED
    BY <1>13, <2>1 DEF IsInjective
<1>15. ASSUME NEW r \in slots PROVE r \in ToSet(order)
  <2>1. Cardinality(Earlier(r)) + 1 \in 1..n
    BY <1>4, <1>6
  <2>2. order[Cardinality(Earlier(r)) + 1] = r
    BY <1>6, <1>8, <1>11, <2>1
  <2> QED
    BY <1>13, <2>1, <2>2 DEF ToSet
<1>16. ToSet(order) = slots
  BY <1>11, <1>13, <1>15 DEF ToSet
<1> QED
  BY <1>1, <1>13, <1>14, <1>16

-----------------------------------------------------------------------------
(* The inductive invariant                                                  *)

TypeInv ==
  /\ pools \in [SlotsForScenes -> Pool \cup {NoPool}]
  /\ uuids \in [SlotsForScenes -> Uuid \cup {NoUuid}]
  /\ registered \in [SlotsForPools -> Pool \cup {NoPool}]
  /\ scene_of \in [Pool -> Handle \cup {NoHandle}]
  /\ existing \subseteq Pool
  /\ freed_twice \in BOOLEAN

TablesInv == IsTable(scenes, MaxScenes) /\ IsTable(registry, MaxPools)

\* Every pool that exists is the pool of a living scene or registered, and
\* what scenes and the registry hold exists.  That a pool knows its scene
\* also says that no two scenes share one.
OwnedInv ==
  /\ ~freed_twice
  /\ \A i \in scenes.alive : pools[i] \in existing /\ scene_of[pools[i]] = HandleAt(scenes, i)
  /\ \A r \in registry.alive : registered[r] \in existing
  /\ \A q, r \in registry.alive : registered[q] = registered[r] => q = r
  /\ \A p \in existing : \/ \E i \in scenes.alive : pools[i] = p
                         \/ \E r \in registry.alive : registered[r] = p

\* The standalone handle was never made, has died, or leads to a pool that
\* is no scene's.
StandaloneInv ==
  \/ standalone = NoHandle
  \/ standalone \in spent_pools
  \/ \E r \in registry.alive : /\ standalone = HandleAt(registry, r)
                               /\ \A i \in scenes.alive : pools[i] # registered[r]

HandlesInv ==
  /\ Spent(spent_scenes, scenes)
  /\ Spent(spent_pools, registry)
  /\ DOMAIN written \subseteq LiveHandles(scenes)
  /\ \A h \in DOMAIN written : uuids[h.index] = written[h]
  /\ StandaloneInv

PoolInv == TypeInv /\ TablesInv /\ OwnedInv /\ HandlesInv

LEMMA InitInv == Init => PoolInv
<1> SUFFICES ASSUME Init PROVE PoolInv
  OBVIOUS
<1>1. MaxScenes \in Nat /\ MaxPools \in Nat
  BY ScenePoolAssumption
<1>2. \A max \in Nat : IsTable(NoTable, max) /\ NoTable.alive = {}
  BY NewTableIsTable DEF NoTable
<1>3. TypeInv
  BY DEF Init, TypeInv
<1>4. TablesInv
  BY <1>1, <1>2 DEF Init, TablesInv
<1>5. OwnedInv
  BY <1>1, <1>2 DEF Init, OwnedInv
<1>6. HandlesInv
  BY DEF Init, HandlesInv, StandaloneInv, Spent
<1> QED
  BY <1>3, <1>4, <1>5, <1>6 DEF PoolInv

\* What the slots of the two tables are.
LEMMA SlotsKnown ==
  ASSUME TablesInv
  PROVE  /\ scenes.alive \subseteq SlotsForScenes
         /\ registry.alive \subseteq SlotsForPools
         /\ \A i \in scenes.alive : HandleAt(scenes, i) \in Handle
         /\ \A r \in registry.alive : HandleAt(registry, r) \in Handle
<1>1. MaxScenes \in Nat /\ MaxPools \in Nat
  BY ScenePoolAssumption
<1>2. IsTable(scenes, MaxScenes) /\ IsTable(registry, MaxPools)
  BY DEF TablesInv
<1>3. /\ scenes.alive \subseteq SlotsOf(scenes) /\ SlotsOf(scenes) \subseteq 0..MaxScenes-1
      /\ \A i \in SlotsOf(scenes) : HandleAt(scenes, i) \in Handle
  BY <1>1, <1>2, TableSlots
<1>4. /\ registry.alive \subseteq SlotsOf(registry) /\ SlotsOf(registry) \subseteq 0..MaxPools-1
      /\ \A i \in SlotsOf(registry) : HandleAt(registry, i) \in Handle
  BY <1>1, <1>2, TableSlots
<1> QED
  BY <1>3, <1>4 DEF SlotsForScenes, SlotsForPools

\* A handle that is alive is the handle of its slot, and no other.
LEMMA AliveHandle ==
  ASSUME NEW max \in Nat, NEW t, IsTable(t, max)
  PROVE  /\ \A h \in Handle : HandleAlive(t, h) => h.index \in t.alive /\ h = HandleAt(t, h.index)
         /\ \A i \in t.alive : HandleAlive(t, HandleAt(t, i))
<1>1. t.capacity \in Nat /\ t.alive \subseteq 0..t.capacity-1
  BY TableFields
<1>2. ASSUME NEW h \in Handle, HandleAlive(t, h)
      PROVE  h.index \in t.alive /\ h = HandleAt(t, h.index)
  BY <1>2 DEF HandleAlive, Handle, HandleAt
<1>3. ASSUME NEW i \in t.alive PROVE HandleAlive(t, HandleAt(t, i))
  <2>1. i < t.capacity
    BY <1>1
  <2> QED
    BY <2>1, HandleFields DEF HandleAlive
<1> QED
  BY <1>2, <1>3

\* tc_entity_pool_registry_find: the handle of the slot that holds the pool.
LEMMA FindPoolFinds ==
  TablesInv /\ OwnedInv =>
    /\ \A r \in registry.alive : FindPool(registered[r]) = HandleAt(registry, r)
    /\ \A p : (\A r \in registry.alive : registered[r] # p) => FindPool(p) = NoHandle
<1> SUFFICES ASSUME TablesInv, OwnedInv
             PROVE  /\ \A r \in registry.alive : FindPool(registered[r]) = HandleAt(registry, r)
                    /\ \A p : (\A r \in registry.alive : registered[r] # p)
                                => FindPool(p) = NoHandle
  OBVIOUS
<1>1. ASSUME NEW r \in registry.alive
      PROVE  FindPool(registered[r]) = HandleAt(registry, r)
  <2>1. { i \in registry.alive : registered[i] = registered[r] } = {r}
    BY DEF OwnedInv
  <2>2. r \in Nat
    BY SlotsKnown DEF SlotsForPools
  <2>3. Min({r}) = r
    BY <2>2 DEF Min
  <2> QED
    BY <2>1, <2>3 DEF FindPool
<1>2. ASSUME NEW p, \A r \in registry.alive : registered[r] # p
      PROVE  FindPool(p) = NoHandle
  BY <1>2 DEF FindPool
<1> QED
  BY <1>1, <1>2

-----------------------------------------------------------------------------
(* What the parts of the actions do to the registry                         *)

\* Slot r is new in the registry and holds pool p; everything else is kept.
Registers(p, r) ==
  /\ r \in SlotsForPools \ registry.alive
  /\ registry'.alive = registry.alive \cup {r}
  /\ registered'[r] = p
  /\ \A j \in registry.alive : /\ registered'[j] = registered[j]
                               /\ HandleAt(registry', j) = HandleAt(registry, j)

\* The registry is full: nothing is registered, and nothing changes.
Refuses ==
  /\ registry.alive = SlotsForPools
  /\ registry'.alive = registry.alive
  /\ \A j \in registry.alive : /\ registered'[j] = registered[j]
                               /\ HandleAt(registry', j) = HandleAt(registry, j)

LEMMA PutInRegistryEffect ==
  ASSUME TypeInv, TablesInv, HandlesInv, NEW p \in Pool, PutInRegistry(p)
  PROVE  LET t == ForAlloc(registry, InitialPools, MaxPools) IN
         /\ registered' \in [SlotsForPools -> Pool \cup {NoPool}]
         /\ IsTable(registry', MaxPools)
         /\ Spent(spent_pools, registry')
         /\ Full(t) => Refuses
         /\ ~Full(t) => /\ Registers(p, NextSlot(t))
                        /\ HandleAt(registry', NextSlot(t)) = HandleAt(t, NextSlot(t))
<1> DEFINE t == ForAlloc(registry, InitialPools, MaxPools)
           r == NextSlot(t)
<1>1. MaxPools \in Nat /\ InitialPools \in 1..MaxPools
  BY ScenePoolAssumption
<1>2. IsTable(registry, MaxPools) /\ Spent(spent_pools, registry)
  BY DEF TablesInv, HandlesInv
<1>3. registry.alive \subseteq SlotsOf(registry) /\ registry.alive \subseteq SlotsForPools
  BY <1>1, <1>2, TableSlots DEF SlotsForPools
<1>4. IsTable(t, MaxPools) /\ Extends(t, registry) /\ (Full(t) => registry.alive = 0..MaxPools-1)
  BY <1>1, <1>2, ForAllocIsTable
<1>5. IF Full(t) THEN registry' = t /\ registered' = registered
      ELSE registry' = Taken(t) /\ registered' = [registered EXCEPT ![r] = p]
  BY DEF PutInRegistry
<1>6. registered \in [SlotsForPools -> Pool \cup {NoPool}]
  BY DEF TypeInv
<1>7. CASE Full(t)
  <2>1. registry' = t /\ registered' = registered
    BY <1>5, <1>7
  <2> HIDE DEF t
  <2>2. Spent(spent_pools, registry')
    BY <1>1, <1>2, <1>4, <2>1, SpentAfterExtension
  <2>3. Refuses
    BY <1>3, <1>4, <1>7, <2>1 DEF Refuses, Extends, HandleAt, SlotsForPools
  <2> QED
    BY <1>4, <1>6, <1>7, <2>1, <2>2, <2>3 DEF t
<1>8. CASE ~Full(t)
  <2>1. registry' = Taken(t) /\ registered' = [registered EXCEPT ![r] = p]
    BY <1>5, <1>8
  <2>2. /\ IsTable(Taken(t), MaxPools) /\ Adds(Taken(t), registry, r)
        /\ HandleAt(Taken(t), r) = HandleAt(t, r)
    BY <1>1, <1>2, <1>8, AllocatedIsTable
  <2> HIDE DEF t, r
  <2>3. IsTable(registry', MaxPools) /\ Adds(registry', registry, r)
        /\ HandleAt(registry', r) = HandleAt(t, r)
    BY <2>1, <2>2
  <2>4. Spent(spent_pools, registry')
    BY <1>1, <1>2, <2>3, SpentAfterAdd
  <2>5. r \in SlotsOf(registry') /\ SlotsOf(registry') \subseteq SlotsForPools
    BY <1>1, <2>3, TableSlots DEF Adds, SlotsForPools
  <2>6. Registers(p, r)
    BY <1>3, <1>6, <2>1, <2>3, <2>5 DEF Registers, Adds, HandleAt
  <2>7. registered' \in [SlotsForPools -> Pool \cup {NoPool}]
    BY <1>6, <2>1
  <2> QED
    BY <1>8, <2>3, <2>4, <2>6, <2>7 DEF t, r
<1> QED
  BY <1>7, <1>8

\* The slots S of the registry are freed and lead nowhere; others are kept.
Unregisters(S) ==
  /\ registry'.alive = registry.alive \ S
  /\ \A j \in registry.alive \ S : /\ registered'[j] = registered[j]
                                   /\ HandleAt(registry', j) = HandleAt(registry, j)
  /\ spent_pools' = spent_pools \cup { HandleAt(registry, i) : i \in S }

LEMMA UnregisterPoolEffect ==
  ASSUME TypeInv, TablesInv, HandlesInv, NEW r \in registry.alive, UnregisterPool(r)
  PROVE  /\ registered' \in [SlotsForPools -> Pool \cup {NoPool}]
         /\ IsTable(registry', MaxPools)
         /\ Spent(spent_pools', registry')
         /\ Unregisters({r})
<1>1. MaxPools \in Nat
  BY ScenePoolAssumption
<1>2. IsTable(registry, MaxPools) /\ Spent(spent_pools, registry)
  BY DEF TablesInv, HandlesInv
<1>3. /\ registry' = Released(registry, r)
      /\ registered' = [registered EXCEPT ![r] = NoPool]
      /\ spent_pools' = spent_pools \cup { HandleAt(registry, i) : i \in {r} }
  BY DEF UnregisterPool
<1>4. IsTable(registry', MaxPools) /\ Releases(registry', registry, {r})
  BY <1>1, <1>2, <1>3, ReleasedIsTable
<1>5. Spent(spent_pools', registry')
  BY <1>1, <1>2, <1>3, <1>4, SpentAfterRelease
<1>6. registry.alive \subseteq SlotsOf(registry)
  BY <1>1, <1>2, TableSlots
<1>7. registered \in [SlotsForPools -> Pool \cup {NoPool}]
  BY DEF TypeInv
<1>8. registered' \in [SlotsForPools -> Pool \cup {NoPool}]
      /\ \A j \in registry.alive \ {r} : registered'[j] = registered[j]
  BY <1>3, <1>7, SlotsKnown
<1>9. \A j \in registry.alive \ {r} : HandleAt(registry', j) = HandleAt(registry, j)
  BY <1>4, <1>6 DEF Releases, HandleAt
<1>10. registry'.alive = registry.alive \ {r}
  BY <1>4 DEF Releases
<1>11. Unregisters({r})
  BY <1>3, <1>8, <1>9, <1>10 DEF Unregisters
<1> QED
  BY <1>4, <1>5, <1>8, <1>11

\* Every slot of the scenes stays as it is.
ScenesKept ==
  /\ scenes'.alive = scenes.alive
  /\ \A i \in scenes.alive : pools'[i] = pools[i] /\ HandleAt(scenes', i) = HandleAt(scenes, i)

-----------------------------------------------------------------------------
(* Every action keeps the invariant                                         *)

\* tc_entity_pool_create
LEMMA CreatePoolEffect ==
  ASSUME TypeInv, NEW p \in Pool, NEW h \in Handle \cup {NoHandle}, CreatePool(p, h)
  PROVE  /\ p \notin existing /\ existing' = existing \cup {p} /\ existing' \subseteq Pool
         /\ scene_of' \in [Pool -> Handle \cup {NoHandle}]
         /\ scene_of'[p] = h
         /\ \A q \in Pool : q # p => scene_of'[q] = scene_of[q]
         /\ freed_twice' = freed_twice
  BY DEF CreatePool, TypeInv

\* A pool that did not exist belonged to no scene and to no registry slot.
LEMMA NewPoolIsNew ==
  ASSUME OwnedInv, NEW p, p \notin existing
  PROVE  /\ \A i \in scenes.alive : pools[i] # p
         /\ \A r \in registry.alive : registered[r] # p
  BY DEF OwnedInv

\* So the registry does not find it, and registers it.
LEMMA NewIsPutInRegistry ==
  ASSUME TablesInv, OwnedInv, NEW p, p \notin existing, RegisterPool(p)
  PROVE  PutInRegistry(p)
<1>1. FindPool(p) = NoHandle
  BY NewPoolIsNew, FindPoolFinds
<1> QED
  BY <1>1 DEF RegisterPool

LEMMA NewSceneKeepsInv ==
  ASSUME PoolInv, NEW p \in Pool, NewScene(p)
  PROVE  PoolInv'
<1> DEFINE t == ForAlloc(scenes, InitialScenes, MaxScenes)
           i == NextSlot(t)
<1>1. MaxScenes \in Nat /\ InitialScenes \in 1..MaxScenes
  BY ScenePoolAssumption
<1>2. /\ ~Full(t)
      /\ scenes' = Taken(t)
      /\ CreatePool(p, HandleAt(t, i))
      /\ RegisterPool(p)
      /\ pools' = [pools EXCEPT ![i] = p]
      /\ uuids' = uuids /\ standalone' = standalone
      /\ spent_scenes' = spent_scenes /\ spent_pools' = spent_pools /\ written' = written
  BY DEF NewScene, historyVars
<1>3. /\ IsTable(scenes', MaxScenes) /\ Adds(scenes', scenes, i)
      /\ HandleAt(scenes', i) = HandleAt(t, i)
  BY <1>1, <1>2, AllocatedIsTable DEF PoolInv, TablesInv
<1> HIDE DEF t, i
<1>4. /\ scenes.alive \subseteq SlotsOf(scenes) /\ SlotsOf(scenes') \subseteq SlotsForScenes
      /\ i \in SlotsForScenes \ scenes.alive
      /\ HandleAt(scenes', i) \in Handle
  BY <1>1, <1>3, TableSlots DEF PoolInv, TablesInv, Adds, SlotsForScenes
<1>5. /\ scenes'.alive = scenes.alive \cup {i} /\ i \notin scenes.alive
      /\ \A j \in scenes.alive : HandleAt(scenes', j) = HandleAt(scenes, j)
  BY <1>3, <1>4 DEF Adds, HandleAt
<1>6. /\ pools' \in [SlotsForScenes -> Pool \cup {NoPool}]
      /\ pools'[i] = p
      /\ \A j \in SlotsForScenes : j # i => pools'[j] = pools[j]
  BY <1>2, <1>4 DEF PoolInv, TypeInv
<1>7. /\ p \notin existing /\ existing' = existing \cup {p} /\ existing' \subseteq Pool
      /\ scene_of' \in [Pool -> Handle \cup {NoHandle}]
      /\ scene_of'[p] = HandleAt(scenes', i)
      /\ \A q \in Pool : q # p => scene_of'[q] = scene_of[q]
      /\ freed_twice' = freed_twice
  BY <1>2, <1>3, <1>4, CreatePoolEffect DEF PoolInv
<1>8. /\ registered' \in [SlotsForPools -> Pool \cup {NoPool}]
      /\ IsTable(registry', MaxPools)
      /\ Spent(spent_pools, registry')
      /\ Refuses \/ \E r \in SlotsForPools : Registers(p, r)
  BY <1>2, NewIsPutInRegistry, PutInRegistryEffect DEF PoolInv, CreatePool, Registers
<1>9. /\ \A j \in scenes.alive : pools[j] # p
      /\ \A r \in registry.alive : registered[r] # p
  BY <1>7, NewPoolIsNew DEF PoolInv
<1>10. TypeInv'
  BY <1>2, <1>6, <1>7, <1>8 DEF PoolInv, TypeInv
<1>11. TablesInv'
  BY <1>3, <1>8 DEF TablesInv
<1>12. OwnedInv'
  <2>1. ~freed_twice'
    BY <1>7 DEF PoolInv, OwnedInv
  <2>2. ASSUME NEW j \in scenes'.alive
        PROVE  pools'[j] \in existing' /\ scene_of'[pools'[j]] = HandleAt(scenes', j)
    <3>1. CASE j = i
      BY <1>6, <1>7, <3>1
    <3>2. CASE j \in scenes.alive
      <4>1. pools'[j] = pools[j] /\ pools[j] # p /\ pools[j] \in existing
            /\ scene_of[pools[j]] = HandleAt(scenes, j)
        BY <1>5, <1>6, <1>9, <3>2, SlotsKnown DEF PoolInv, OwnedInv
      <4>2. pools[j] \in Pool
        BY <1>7, <4>1
      <4> QED
        BY <1>5, <1>7, <3>2, <4>1, <4>2
    <3> QED
      BY <1>5, <3>1, <3>2
  <2>3. ASSUME NEW q \in existing'
        PROVE  \/ \E j \in scenes'.alive : pools'[j] = q
               \/ \E r \in registry'.alive : registered'[r] = q
    <3>1. CASE q = p
      BY <1>5, <1>6, <3>1
    <3>2. CASE \E j \in scenes.alive : pools[j] = q
      BY <1>5, <1>6, <3>2, SlotsKnown DEF PoolInv
    <3>3. CASE \E r \in registry.alive : registered[r] = q
      BY <1>8, <3>3 DEF Refuses, Registers
    <3> QED
      BY <1>7, <3>1, <3>2, <3>3 DEF PoolInv, OwnedInv
  <2>4. \A r \in registry'.alive : registered'[r] \in existing'
    BY <1>7, <1>8 DEF Refuses, Registers, PoolInv, OwnedInv
  <2>5. \A q, r \in registry'.alive : registered'[q] = registered'[r] => q = r
    BY <1>8, <1>9 DEF Refuses, Registers, PoolInv, OwnedInv
  <2> QED
    BY <2>1, <2>2, <2>3, <2>4, <2>5 DEF OwnedInv
<1>13. HandlesInv'
  <2>1. Spent(spent_scenes', scenes')
    BY <1>1, <1>2, <1>3, SpentAfterAdd DEF PoolInv, TablesInv, HandlesInv
  <2>2. LiveHandles(scenes) \subseteq LiveHandles(scenes')
    BY <1>5 DEF LiveHandles
  <2>3. DOMAIN written \subseteq LiveHandles(scenes)
        /\ \A h \in DOMAIN written : uuids[h.index] = written[h]
    BY DEF PoolInv, HandlesInv
  <2>4. StandaloneInv'
    <3>1. ASSUME NEW r \in registry.alive, standalone = HandleAt(registry, r),
                 \A j \in scenes.alive : pools[j] # registered[r]
          PROVE  /\ r \in registry'.alive /\ standalone' = HandleAt(registry', r)
                 /\ \A j \in scenes'.alive : pools'[j] # registered'[r]
      <4>1. r \in registry'.alive /\ registered'[r] = registered[r]
            /\ HandleAt(registry', r) = HandleAt(registry, r)
        BY <1>8 DEF Refuses, Registers
      <4>2. \A j \in scenes'.alive : pools'[j] # registered[r]
        BY <1>5, <1>6, <1>9, <3>1, SlotsKnown DEF PoolInv
      <4> QED
        BY <1>2, <3>1, <4>1, <4>2
    <3>2. StandaloneInv
      BY DEF PoolInv, HandlesInv
    <3> QED
      BY <1>2, <3>1, <3>2 DEF StandaloneInv
  <2>5. Spent(spent_pools', registry')
    BY <1>2, <1>8
  <2> QED
    BY <1>2, <2>1, <2>2, <2>3, <2>4, <2>5 DEF HandlesInv
<1> QED
  BY <1>10, <1>11, <1>12, <1>13 DEF PoolInv

\* tc_entity_pool_destroy
LEMMA DestroyPoolsEffect ==
  ASSUME TypeInv, OwnedInv, NEW ps \in SUBSET existing, DestroyPools(ps)
  PROVE  /\ existing' = existing \ ps /\ existing' \subseteq Pool
         /\ scene_of' \in [Pool -> Handle \cup {NoHandle}]
         /\ \A q \in Pool \ ps : scene_of'[q] = scene_of[q]
         /\ freed_twice' = FALSE
<1>1. /\ existing' = existing \ ps
      /\ freed_twice' = (freed_twice \/ ~ ps \subseteq existing)
      /\ scene_of' = [p \in Pool |-> IF p \in ps THEN NoHandle ELSE scene_of[p]]
  BY DEF DestroyPools
<1>2. ps \subseteq existing /\ ~freed_twice /\ freed_twice \in BOOLEAN
  BY DEF OwnedInv, TypeInv
<1>3. scene_of \in [Pool -> Handle \cup {NoHandle}] /\ existing \subseteq Pool
  BY DEF TypeInv
<1>4. freed_twice' = FALSE
  BY <1>1, <1>2
<1>5. scene_of' \in [Pool -> Handle \cup {NoHandle}]
      /\ \A q \in Pool \ ps : scene_of'[q] = scene_of[q]
  BY <1>1, <1>3
<1> QED
  BY <1>1, <1>3, <1>4, <1>5

\* No two living scenes have one pool.
LEMMA PoolsDiffer ==
  ASSUME OwnedInv, NEW i \in scenes.alive, NEW j \in scenes.alive, pools[i] = pools[j]
  PROVE  i = j
<1>1. HandleAt(scenes, i) = HandleAt(scenes, j)
  BY DEF OwnedInv
<1> QED
  BY <1>1, HandleFields

\* The part of tc_scene_free that takes the scene's pool p out of the registry,
\* where it may be in no slot.
LEMMA UnregisterFoundEffect ==
  ASSUME PoolInv, NEW p,
         LET found == FindPool(p) IN
         IF found # NoHandle THEN UnregisterPool(found.index)
         ELSE UNCHANGED <<registry, registered, spent_pools>>
  PROVE  \E S \in SUBSET registry.alive :
           /\ Unregisters(S)
           /\ \A r \in registry.alive : r \in S <=> registered[r] = p
           /\ registered' \in [SlotsForPools -> Pool \cup {NoPool}]
           /\ IsTable(registry', MaxPools)
           /\ Spent(spent_pools', registry')
<1> DEFINE found == FindPool(p)
<1>1. CASE \E r \in registry.alive : registered[r] = p
  <2>1. PICK r \in registry.alive : registered[r] = p
    BY <1>1
  <2>2. found = HandleAt(registry, r) /\ found # NoHandle /\ found.index = r
    BY <2>1, ScenePoolAssumption, FindPoolFinds, SlotsKnown, HandleFields DEF PoolInv
  <2>3. UnregisterPool(r)
    BY <2>2
  <2>4. /\ registered' \in [SlotsForPools -> Pool \cup {NoPool}]
        /\ IsTable(registry', MaxPools)
        /\ Spent(spent_pools', registry')
        /\ Unregisters({r})
    BY <2>3, UnregisterPoolEffect DEF PoolInv
  <2>5. \A q \in registry.alive : q \in {r} <=> registered[q] = p
    BY <2>1 DEF PoolInv, OwnedInv
  <2> QED
    BY <2>4, <2>5
<1>2. CASE ~\E r \in registry.alive : registered[r] = p
  <2>1. found = NoHandle
    BY <1>2, FindPoolFinds DEF PoolInv
  <2>2. registry' = registry /\ registered' = registered /\ spent_pools' = spent_pools
    BY <2>1
  <2>3. Unregisters({})
    BY <2>2 DEF Unregisters, HandleAt
  <2> QED
    BY <1>2, <2>2, <2>3 DEF PoolInv, TypeInv, TablesInv, HandlesInv
<1> QED
  BY <1>1, <1>2

LEMMA FreeSceneKeepsInv ==
  ASSUME PoolInv, NEW h \in LiveHandles(scenes) \cup spent_scenes, FreeScene(h)
  PROVE  PoolInv'
<1> DEFINE i == h.index
           p == pools[h.index]
<1>1. MaxScenes \in Nat /\ NoHandle \notin Handle
  BY ScenePoolAssumption
<1>2. /\ HandleAlive(scenes, h)
      /\ LET found == FindPool(p) IN
         IF found # NoHandle THEN UnregisterPool(found.index)
         ELSE UNCHANGED <<registry, registered, spent_pools>>
      /\ DestroyPools({p})
      /\ pools' = [pools EXCEPT ![i] = NoPool]
      /\ scenes' = Released(scenes, i)
      /\ spent_scenes' = spent_scenes \cup {h}
      /\ written' = Restrict(written, DOMAIN written \ {h})
      /\ uuids' = uuids /\ standalone' = standalone
  BY DEF FreeScene
<1>3. h \in Handle
  BY SlotsKnown DEF PoolInv, HandlesInv, Spent, LiveHandles
<1>4. i \in scenes.alive /\ h = HandleAt(scenes, i) /\ i \in SlotsForScenes
  BY <1>1, <1>2, <1>3, AliveHandle, SlotsKnown DEF PoolInv, TablesInv
<1>5. p \in existing /\ \A j \in scenes.alive : j # i => pools[j] # p
  BY <1>4, PoolsDiffer DEF PoolInv, OwnedInv
<1>6. IsTable(scenes', MaxScenes) /\ Releases(scenes', scenes, {i})
  BY <1>1, <1>2, <1>4, ReleasedIsTable DEF PoolInv, TablesInv
<1>7. /\ existing' = existing \ {p} /\ existing' \subseteq Pool
      /\ scene_of' \in [Pool -> Handle \cup {NoHandle}]
      /\ \A q \in Pool \ {p} : scene_of'[q] = scene_of[q]
      /\ freed_twice' = FALSE
  BY <1>2, <1>5, DestroyPoolsEffect DEF PoolInv
<1>9. PICK S \in SUBSET registry.alive :
        /\ Unregisters(S)
        /\ \A r \in registry.alive : r \in S <=> registered[r] = p
        /\ registered' \in [SlotsForPools -> Pool \cup {NoPool}]
        /\ IsTable(registry', MaxPools)
        /\ Spent(spent_pools', registry')
  BY <1>2, UnregisterFoundEffect
<1>10. /\ scenes'.alive = scenes.alive \ {i}
       /\ \A j \in scenes.alive \ {i} : HandleAt(scenes', j) = HandleAt(scenes, j)
  BY <1>1, <1>6, TableSlots DEF PoolInv, TablesInv, Releases, HandleAt
<1>11. /\ pools' \in [SlotsForScenes -> Pool \cup {NoPool}]
       /\ \A j \in scenes.alive \ {i} : pools'[j] = pools[j]
  BY <1>2, SlotsKnown DEF PoolInv, TypeInv
<1>12. TypeInv'
  BY <1>2, <1>7, <1>9, <1>11 DEF PoolInv, TypeInv
<1>13. TablesInv'
  BY <1>6, <1>9 DEF TablesInv
<1>14. OwnedInv'
  <2>1. ASSUME NEW j \in scenes'.alive
        PROVE  pools'[j] \in existing' /\ scene_of'[pools'[j]] = HandleAt(scenes', j)
    <3>1. /\ j \in scenes.alive \ {i} /\ pools'[j] = pools[j]
          /\ HandleAt(scenes', j) = HandleAt(scenes, j)
      BY <1>10, <1>11
    <3>2. pools[j] \in existing /\ pools[j] # p /\ scene_of[pools[j]] = HandleAt(scenes, j)
      BY <1>5, <3>1 DEF PoolInv, OwnedInv
    <3>3. pools[j] \in Pool \ {p}
      BY <3>2 DEF PoolInv, TypeInv
    <3> QED
      BY <1>7, <3>1, <3>2, <3>3
  <2>2. \A r \in registry'.alive : /\ r \in registry.alive /\ registered[r] # p
                                   /\ registered'[r] = registered[r]
    BY <1>9 DEF Unregisters
  <2>3. \A r \in registry'.alive : registered'[r] \in existing'
    BY <1>7, <2>2 DEF PoolInv, OwnedInv
  <2>4. \A q, r \in registry'.alive : registered'[q] = registered'[r] => q = r
    BY <2>2 DEF PoolInv, OwnedInv
  <2>5. ASSUME NEW q \in existing'
        PROVE  \/ \E j \in scenes'.alive : pools'[j] = q
               \/ \E r \in registry'.alive : registered'[r] = q
    <3>1. q \in existing /\ q # p
      BY <1>7
    <3>2. CASE \E j \in scenes.alive : pools[j] = q
      BY <1>10, <1>11, <3>1, <3>2
    <3>3. CASE \E r \in registry.alive : registered[r] = q
      BY <1>9, <3>1, <3>3 DEF Unregisters
    <3> QED
      BY <3>1, <3>2, <3>3 DEF PoolInv, OwnedInv
  <2> QED
    BY <1>7, <2>1, <2>3, <2>4, <2>5 DEF OwnedInv
<1>15. HandlesInv'
  <2>1. Spent(spent_scenes', scenes')
    <3>1. {i} \subseteq scenes.alive /\ { HandleAt(scenes, j) : j \in {i} } = {h}
      BY <1>4
    <3>2. Spent(spent_scenes, scenes) /\ IsTable(scenes, MaxScenes)
      BY DEF PoolInv, HandlesInv, TablesInv
    <3> HIDE DEF i
    <3>3. Spent(spent_scenes \cup { HandleAt(scenes, j) : j \in {i} }, scenes')
      BY <1>1, <1>6, <3>1, <3>2, SpentAfterRelease
    <3> QED
      BY <1>2, <3>1, <3>3
  <2>2. DOMAIN written' = DOMAIN written \ {h}
        /\ \A g \in DOMAIN written' : written'[g] = written[g]
    BY <1>2 DEF Restrict
  <2>3. DOMAIN written' \subseteq LiveHandles(scenes')
    <3>1. ASSUME NEW g \in DOMAIN written' PROVE g \in LiveHandles(scenes')
      <4>1. g \in LiveHandles(scenes) /\ g # h
        BY <2>2 DEF PoolInv, HandlesInv
      <4>2. PICK j \in scenes.alive : g = HandleAt(scenes, j)
        BY <4>1 DEF LiveHandles
      <4>3. j \in scenes.alive \ {i}
        BY <1>4, <4>1, <4>2
      <4> QED
        BY <1>10, <4>2, <4>3 DEF LiveHandles
    <3> QED
      BY <3>1
  <2>4. \A g \in DOMAIN written' : uuids'[g.index] = written'[g]
    BY <1>2, <2>2 DEF PoolInv, HandlesInv
  <2>5. StandaloneInv'
    <3>1. spent_pools \subseteq spent_pools'
      BY <1>9 DEF Unregisters
    <3>2. ASSUME NEW r \in registry.alive, standalone = HandleAt(registry, r),
                 \A j \in scenes.alive : pools[j] # registered[r]
          PROVE  /\ r \in registry'.alive /\ standalone' = HandleAt(registry', r)
                 /\ \A j \in scenes'.alive : pools'[j] # registered'[r]
      <4>1. r \notin S
        BY <1>4, <1>9, <3>2
      <4>2. r \in registry'.alive /\ registered'[r] = registered[r]
            /\ HandleAt(registry', r) = HandleAt(registry, r)
        BY <1>9, <4>1 DEF Unregisters
      <4> QED
        BY <1>2, <1>10, <1>11, <3>2, <4>2
    <3>3. StandaloneInv
      BY DEF PoolInv, HandlesInv
    <3> QED
      BY <1>2, <3>1, <3>2, <3>3 DEF StandaloneInv
  <2> QED
    BY <1>9, <2>1, <2>3, <2>4, <2>5 DEF HandlesInv
<1> QED
  BY <1>12, <1>13, <1>14, <1>15 DEF PoolInv

LEMMA SetUuidKeepsInv ==
  ASSUME PoolInv, NEW h \in LiveHandles(scenes) \cup spent_scenes,
         NEW u \in Uuid \cup {NoUuid}, SetUuid(h, u)
  PROVE  PoolInv'
<1>1. MaxScenes \in Nat
  BY ScenePoolAssumption
<1>2. /\ HandleAlive(scenes, h)
      /\ uuids' = [uuids EXCEPT ![h.index] = u]
      /\ written' = [g \in DOMAIN written \cup {h} |-> IF g = h THEN u ELSE written[g]]
      /\ scenes' = scenes /\ pools' = pools
      /\ registry' = registry /\ registered' = registered /\ standalone' = standalone
      /\ scene_of' = scene_of /\ existing' = existing /\ freed_twice' = freed_twice
      /\ spent_scenes' = spent_scenes /\ spent_pools' = spent_pools
  BY DEF SetUuid, registryVars, poolVars
<1>3. h \in Handle
  BY SlotsKnown DEF PoolInv, HandlesInv, Spent, LiveHandles
<1>4. h.index \in scenes.alive /\ h = HandleAt(scenes, h.index) /\ h.index \in SlotsForScenes
  BY <1>1, <1>2, <1>3, AliveHandle, SlotsKnown DEF PoolInv, TablesInv
<1>5. /\ uuids' \in [SlotsForScenes -> Uuid \cup {NoUuid}]
      /\ uuids'[h.index] = u
      /\ \A i \in SlotsForScenes : i # h.index => uuids'[i] = uuids[i]
  BY <1>2, <1>4 DEF PoolInv, TypeInv
<1>6. TypeInv' /\ TablesInv'
  BY <1>2, <1>5 DEF PoolInv, TypeInv, TablesInv
<1>7. OwnedInv'
  BY <1>2 DEF PoolInv, OwnedInv, HandleAt
<1>8. HandlesInv'
  <2>1. DOMAIN written' = {h} \cup DOMAIN written
        /\ \A g \in DOMAIN written' : written'[g] = IF g = h THEN u ELSE written[g]
    BY <1>2
  <2>2. DOMAIN written \subseteq LiveHandles(scenes) /\ h \in LiveHandles(scenes)
    BY <1>4 DEF PoolInv, HandlesInv, LiveHandles
  <2>3. ASSUME NEW g \in DOMAIN written' PROVE uuids'[g.index] = written'[g]
    <3>1. PICK i \in scenes.alive : g = HandleAt(scenes, i)
      BY <2>1, <2>2 DEF LiveHandles
    <3>2. g.index = i /\ i \in SlotsForScenes
      BY <3>1, HandleFields, SlotsKnown DEF PoolInv
    <3>3. CASE g = h
      BY <1>5, <2>1, <3>3
    <3>4. CASE g # h
      <4>1. i # h.index
        BY <1>4, <3>1, <3>4
      <4>2. uuids[g.index] = written[g]
        BY <2>1, <3>4 DEF PoolInv, HandlesInv
      <4> QED
        BY <1>5, <2>1, <3>2, <3>4, <4>1, <4>2
    <3> QED
      BY <3>3, <3>4
  <2>4. DOMAIN written' \subseteq LiveHandles(scenes')
    BY <1>2, <2>1, <2>2
  <2>5. Spent(spent_scenes', scenes') /\ Spent(spent_pools', registry')
    BY <1>2 DEF PoolInv, HandlesInv
  <2>6. StandaloneInv'
    BY <1>2 DEF PoolInv, HandlesInv, StandaloneInv, HandleAt
  <2> QED
    BY <2>3, <2>4, <2>5, <2>6 DEF HandlesInv
<1> QED
  BY <1>6, <1>7, <1>8 DEF PoolInv

\* tc_entity_pool_registry_create
LEMMA CreateInRegistryEffect ==
  ASSUME PoolInv, NEW p \in Pool, CreateInRegistry(p),
         scenes' = scenes, pools' = pools, uuids' = uuids
  PROVE  LET t == ForAlloc(registry, InitialPools, MaxPools) IN
         /\ TypeInv' /\ TablesInv' /\ OwnedInv'
         /\ Spent(spent_pools, registry')
         /\ \A i \in scenes.alive : pools[i] # p
         /\ Registers(p, NextSlot(t))
         /\ HandleAt(registry', NextSlot(t)) = HandleAt(t, NextSlot(t))
<1> DEFINE t == ForAlloc(registry, InitialPools, MaxPools)
           r == NextSlot(t)
<1>1. ~Full(t) /\ CreatePool(p, NoHandle) /\ PutInRegistry(p)
  BY DEF CreateInRegistry
<1>2. /\ p \notin existing /\ existing' = existing \cup {p} /\ existing' \subseteq Pool
      /\ scene_of' \in [Pool -> Handle \cup {NoHandle}]
      /\ \A q \in Pool : q # p => scene_of'[q] = scene_of[q]
      /\ freed_twice' = freed_twice
  BY <1>1, CreatePoolEffect DEF PoolInv
<1>3. /\ registered' \in [SlotsForPools -> Pool \cup {NoPool}]
      /\ IsTable(registry', MaxPools)
      /\ Spent(spent_pools, registry')
      /\ Registers(p, r)
      /\ HandleAt(registry', r) = HandleAt(t, r)
  BY <1>1, PutInRegistryEffect DEF PoolInv
<1> HIDE DEF t, r
<1>4. /\ \A i \in scenes.alive : pools[i] # p
      /\ \A q \in registry.alive : registered[q] # p
  BY <1>2, NewPoolIsNew DEF PoolInv
<1>5. TypeInv' /\ TablesInv'
  BY <1>2, <1>3 DEF PoolInv, TypeInv, TablesInv
<1>6. OwnedInv'
  <2>1. ASSUME NEW i \in scenes.alive
        PROVE  pools[i] \in existing' /\ scene_of'[pools[i]] = HandleAt(scenes, i)
    <3>1. pools[i] \in existing /\ pools[i] # p /\ scene_of[pools[i]] = HandleAt(scenes, i)
      BY <1>4 DEF PoolInv, OwnedInv
    <3> QED
      BY <1>2, <3>1
  <2>2. ASSUME NEW i \in scenes'.alive
        PROVE  pools'[i] \in existing' /\ scene_of'[pools'[i]] = HandleAt(scenes', i)
    BY <2>1 DEF HandleAt
  <2>3. /\ \A q \in registry'.alive : registered'[q] \in existing'
        /\ \A q, s \in registry'.alive : registered'[q] = registered'[s] => q = s
    BY <1>2, <1>3, <1>4 DEF Registers, PoolInv, OwnedInv
  <2>4. ASSUME NEW q \in existing'
        PROVE  \/ \E i \in scenes'.alive : pools'[i] = q
               \/ \E s \in registry'.alive : registered'[s] = q
    BY <1>2, <1>3 DEF Registers, PoolInv, OwnedInv
  <2> QED
    BY <1>2, <2>2, <2>3, <2>4 DEF PoolInv, OwnedInv
<1> QED
  BY <1>3, <1>4, <1>5, <1>6 DEF t, r

LEMMA CreateByHandleKeepsInv ==
  ASSUME PoolInv, NEW p \in Pool, CreateByHandle(p)
  PROVE  PoolInv'
<1>1. /\ CreateInRegistry(p) /\ scenes' = scenes /\ pools' = pools /\ uuids' = uuids
      /\ standalone' = standalone
      /\ spent_scenes' = spent_scenes /\ spent_pools' = spent_pools /\ written' = written
  BY DEF CreateByHandle, sceneVars, historyVars
<1>2. /\ TypeInv' /\ TablesInv' /\ OwnedInv'
      /\ Spent(spent_pools, registry')
      /\ \E r \in SlotsForPools : Registers(p, r)
  BY <1>1, CreateInRegistryEffect DEF Registers
<1>3. StandaloneInv'
  BY <1>1, <1>2 DEF StandaloneInv, Registers, PoolInv, HandlesInv
<1> QED
  BY <1>1, <1>2, <1>3 DEF PoolInv, HandlesInv

LEMMA UseStandaloneKeepsInv ==
  ASSUME PoolInv, NEW p \in Pool, UseStandalone(p)
  PROVE  PoolInv'
<1> DEFINE t == ForAlloc(registry, InitialPools, MaxPools)
           r == NextSlot(t)
<1>1. /\ CreateInRegistry(p) /\ scenes' = scenes /\ pools' = pools /\ uuids' = uuids
      /\ standalone' = HandleAt(t, r)
      /\ spent_scenes' = spent_scenes /\ spent_pools' = spent_pools /\ written' = written
  BY DEF UseStandalone, sceneVars, historyVars
<1>2. /\ TypeInv' /\ TablesInv' /\ OwnedInv'
      /\ Spent(spent_pools, registry')
      /\ \A i \in scenes.alive : pools[i] # p
      /\ Registers(p, r)
      /\ HandleAt(registry', r) = HandleAt(t, r)
  BY <1>1, CreateInRegistryEffect
<1> HIDE DEF t, r
<1>3. StandaloneInv'
  BY <1>1, <1>2 DEF StandaloneInv, Registers
<1> QED
  BY <1>1, <1>2, <1>3 DEF PoolInv, HandlesInv

LEMMA DestroyByHandleKeepsInv ==
  ASSUME PoolInv, NEW h \in LiveHandles(registry) \cup spent_pools, DestroyByHandle(h)
  PROVE  PoolInv'
<1> DEFINE r == h.index
           p == registered[h.index]
<1>1. MaxPools \in Nat
  BY ScenePoolAssumption
<1>2. /\ HandleAlive(registry, h)
      /\ \A i \in scenes.alive : pools[i] # p
      /\ UnregisterPool(r)
      /\ DestroyPools({p})
      /\ scenes' = scenes /\ pools' = pools /\ uuids' = uuids
      /\ standalone' = standalone /\ spent_scenes' = spent_scenes /\ written' = written
  BY DEF DestroyByHandle, sceneVars
<1>3. h \in Handle
  BY SlotsKnown DEF PoolInv, HandlesInv, Spent, LiveHandles
<1>4. r \in registry.alive
  BY <1>1, <1>2, <1>3, AliveHandle DEF PoolInv, TablesInv
<1>5. /\ registered' \in [SlotsForPools -> Pool \cup {NoPool}]
      /\ IsTable(registry', MaxPools)
      /\ Spent(spent_pools', registry')
      /\ Unregisters({r})
  BY <1>2, <1>4, UnregisterPoolEffect DEF PoolInv
<1>6. p \in existing
  BY <1>4 DEF PoolInv, OwnedInv
<1>7. /\ existing' = existing \ {p} /\ existing' \subseteq Pool
      /\ scene_of' \in [Pool -> Handle \cup {NoHandle}]
      /\ \A q \in Pool \ {p} : scene_of'[q] = scene_of[q]
      /\ freed_twice' = FALSE
  BY <1>2, <1>6, DestroyPoolsEffect DEF PoolInv
<1>8. \A s \in registry.alive : s # r => registered[s] # p
  BY <1>4 DEF PoolInv, OwnedInv
<1>9. TypeInv' /\ TablesInv'
  BY <1>2, <1>5, <1>7 DEF PoolInv, TypeInv, TablesInv
<1> HIDE DEF p, r
<1>10. OwnedInv'
  <2>1. ASSUME NEW i \in scenes.alive
        PROVE  pools[i] \in existing' /\ scene_of'[pools[i]] = HandleAt(scenes, i)
    <3>1. pools[i] \in existing /\ scene_of[pools[i]] = HandleAt(scenes, i)
      BY DEF PoolInv, OwnedInv
    <3>2. pools[i] \in Pool \ {p} /\ pools[i] \in existing \ {p}
      BY <1>2, <3>1 DEF PoolInv, TypeInv
    <3> QED
      BY <1>7, <3>1, <3>2
  <2>2. ASSUME NEW i \in scenes'.alive
        PROVE  pools'[i] \in existing' /\ scene_of'[pools'[i]] = HandleAt(scenes', i)
    BY <1>2, <2>1 DEF HandleAt
  <2>3. /\ \A q \in registry'.alive : registered'[q] \in existing'
        /\ \A q, s \in registry'.alive : registered'[q] = registered'[s] => q = s
    BY <1>5, <1>7, <1>8 DEF Unregisters, PoolInv, OwnedInv
  <2>4. ASSUME NEW q \in existing'
        PROVE  \/ \E i \in scenes'.alive : pools'[i] = q
               \/ \E s \in registry'.alive : registered'[s] = q
    <3>1. q \in existing /\ q # p
      BY <1>7
    <3>2. CASE \E i \in scenes.alive : pools[i] = q
      BY <1>2, <3>2
    <3>3. CASE \E s \in registry.alive : registered[s] = q
      <4>1. PICK s \in registry.alive : registered[s] = q
        BY <3>3
      <4>2. s # r
        BY <3>1, <4>1 DEF p, r
      <4> QED
        BY <1>5, <4>1, <4>2 DEF Unregisters
    <3> QED
      BY <3>1, <3>2, <3>3 DEF PoolInv, OwnedInv
  <2> QED
    BY <1>7, <2>2, <2>3, <2>4 DEF OwnedInv
<1>11. StandaloneInv'
  <2>1. ASSUME NEW s \in registry.alive, standalone = HandleAt(registry, s),
               \A i \in scenes.alive : pools[i] # registered[s]
        PROVE  StandaloneInv'
    <3>1. CASE s = r
      <4>1. standalone' \in spent_pools'
        BY <1>2, <1>5, <2>1, <3>1 DEF Unregisters
      <4> QED
        BY <4>1 DEF StandaloneInv
    <3>2. CASE s # r
      <4>1. s \in registry'.alive /\ registered'[s] = registered[s]
            /\ HandleAt(registry', s) = HandleAt(registry, s)
        BY <1>5, <3>2 DEF Unregisters
      <4> QED
        BY <1>2, <2>1, <4>1 DEF StandaloneInv
    <3> QED
      BY <3>1, <3>2
  <2>2. spent_pools \subseteq spent_pools'
    BY <1>5 DEF Unregisters
  <2> QED
    BY <1>2, <2>1, <2>2 DEF StandaloneInv, PoolInv, HandlesInv
<1>12. HandlesInv'
  BY <1>2, <1>5, <1>11 DEF PoolInv, HandlesInv
<1> QED
  BY <1>9, <1>10, <1>12 DEF PoolInv

\* Slots returned one after another, the pools in them in no slot afterwards.
LEMMA ShutdownEffect ==
  ASSUME PoolInv, NEW S \in SUBSET registry.alive,
         \A r \in S : \E i \in scenes.alive : pools[i] = registered[r],
         registry' = ReleasedInTurn(registry, InSceneOrder(S)),
         registered' = [r \in SlotsForPools |-> IF r \in S THEN NoPool ELSE registered[r]],
         spent_pools' = spent_pools \cup { HandleAt(registry, r) : r \in S }
  PROVE  /\ registered' \in [SlotsForPools -> Pool \cup {NoPool}]
         /\ IsTable(registry', MaxPools)
         /\ Spent(spent_pools', registry')
         /\ Unregisters(S)
<1>1. MaxPools \in Nat
  BY ScenePoolAssumption
<1>2. IsTable(registry, MaxPools) /\ Spent(spent_pools, registry)
  BY DEF PoolInv, TablesInv, HandlesInv
<1>3. registry.alive \subseteq SlotsOf(registry) /\ registry.alive \subseteq SlotsForPools
      /\ scenes.alive \subseteq Nat
  BY <1>1, <1>2, TableSlots, SlotsKnown DEF PoolInv, SlotsForScenes
<1>4. IsFiniteSet(S)
  BY <1>1, <1>2, TableFields, FS_Subset
<1>5. \A q, r \in S : registered[q] = registered[r] => q = r
  BY DEF PoolInv, OwnedInv
<1>6. /\ InSceneOrder(S) \in Seq(S)
      /\ IsInjective(InSceneOrder(S))
      /\ ToSet(InSceneOrder(S)) = S
  BY <1>3, <1>4, <1>5, InSceneOrderItems
<1>7. InSceneOrder(S) \in Seq(SlotsOf(registry))
  <2>1. S \subseteq SlotsOf(registry)
    BY <1>3
  <2> QED
    BY <1>6, <2>1, SeqMonotonic
<1>8. IsTable(registry', MaxPools) /\ Releases(registry', registry, S)
  BY <1>1, <1>2, <1>6, <1>7, ReleasedInTurnIsTable
<1>9. Spent(spent_pools', registry')
  BY <1>1, <1>2, <1>8, SpentAfterRelease
<1>10. /\ registered' \in [SlotsForPools -> Pool \cup {NoPool}]
       /\ \A j \in registry.alive \ S : registered'[j] = registered[j]
  BY <1>3 DEF PoolInv, TypeInv
<1>11. /\ registry'.alive = registry.alive \ S
       /\ \A j \in registry.alive \ S : HandleAt(registry', j) = HandleAt(registry, j)
  BY <1>3, <1>8 DEF Releases, HandleAt
<1>12. Unregisters(S)
  BY <1>10, <1>11 DEF Unregisters
<1> QED
  BY <1>8, <1>9, <1>10, <1>12

LEMMA SceneShutdownKeepsInv ==
  ASSUME PoolInv, SceneShutdown
  PROVE  PoolInv'
<1> DEFINE gone == { pools[i] : i \in scenes.alive }
           S == { r \in registry.alive : registered[r] \in gone }
<1>1. MaxScenes \in Nat
  BY ScenePoolAssumption
<1>2. /\ DestroyPools(gone)
      /\ registry' = ReleasedInTurn(registry, InSceneOrder(S))
      /\ registered' = [r \in SlotsForPools |-> IF r \in S THEN NoPool ELSE registered[r]]
      /\ spent_pools' = spent_pools \cup { HandleAt(registry, r) : r \in S }
      /\ scenes' = NoTable
      /\ pools' = [i \in SlotsForScenes |-> NoPool]
      /\ uuids' = [i \in SlotsForScenes |-> NoUuid]
      /\ spent_scenes' = {} /\ written' = <<>> /\ standalone' = standalone
  BY DEF SceneShutdown
<1>3. /\ S \in SUBSET registry.alive
      /\ \A r \in S : \E i \in scenes.alive : pools[i] = registered[r]
      /\ \A r \in registry.alive : r \in S <=> registered[r] \in gone
  OBVIOUS
<1>4. gone \subseteq existing /\ \A i \in scenes.alive : pools[i] \in gone
  BY DEF PoolInv, OwnedInv
<1> HIDE DEF gone, S
<1>5. /\ existing' = existing \ gone /\ existing' \subseteq Pool
      /\ scene_of' \in [Pool -> Handle \cup {NoHandle}]
      /\ freed_twice' = FALSE
  BY <1>2, <1>4, DestroyPoolsEffect DEF PoolInv
<1>6. /\ registered' \in [SlotsForPools -> Pool \cup {NoPool}]
      /\ IsTable(registry', MaxPools)
      /\ Spent(spent_pools', registry')
      /\ Unregisters(S)
  BY <1>2, <1>3, ShutdownEffect
<1>7. IsTable(scenes', MaxScenes) /\ scenes'.alive = {}
  BY <1>1, <1>2, NewTableIsTable DEF NoTable
<1>8. TypeInv' /\ TablesInv'
  BY <1>2, <1>5, <1>6, <1>7 DEF TypeInv, TablesInv
<1>9. OwnedInv'
  <2>1. \A r \in registry'.alive : /\ r \in registry.alive /\ registered[r] \notin gone
                                   /\ registered'[r] = registered[r]
    BY <1>3, <1>6 DEF Unregisters
  <2>2. \A r \in registry'.alive : registered'[r] \in existing'
    BY <1>5, <2>1 DEF PoolInv, OwnedInv
  <2>3. \A q, r \in registry'.alive : registered'[q] = registered'[r] => q = r
    BY <2>1 DEF PoolInv, OwnedInv
  <2>4. ASSUME NEW q \in existing' PROVE \E r \in registry'.alive : registered'[r] = q
    <3>1. q \in existing /\ q \notin gone
      BY <1>5
    <3>2. PICK r \in registry.alive : registered[r] = q
      BY <1>4, <3>1 DEF PoolInv, OwnedInv
    <3> QED
      BY <1>3, <1>6, <3>1, <3>2 DEF Unregisters
  <2> QED
    BY <1>5, <1>7, <2>2, <2>3, <2>4 DEF OwnedInv
<1>10. StandaloneInv'
  <2>1. ASSUME NEW r \in registry.alive, standalone = HandleAt(registry, r)
        PROVE  StandaloneInv'
    <3>1. CASE r \in S
      <4>1. standalone' \in spent_pools'
        BY <1>2, <2>1, <3>1
      <4> QED
        BY <4>1 DEF StandaloneInv
    <3>2. CASE r \notin S
      <4>1. r \in registry'.alive /\ HandleAt(registry', r) = HandleAt(registry, r)
        BY <1>6, <3>2 DEF Unregisters
      <4> QED
        BY <1>2, <1>7, <2>1, <4>1 DEF StandaloneInv
    <3> QED
      BY <3>1, <3>2
  <2>2. spent_pools \subseteq spent_pools'
    BY <1>2
  <2> QED
    BY <1>2, <2>1, <2>2 DEF StandaloneInv, PoolInv, HandlesInv
<1>11. HandlesInv'
  BY <1>2, <1>6, <1>10 DEF HandlesInv, Spent
<1> QED
  BY <1>8, <1>9, <1>11 DEF PoolInv

LEMMA RegistryShutdownKeepsInv ==
  ASSUME PoolInv, RegistryShutdown
  PROVE  PoolInv'
<1> DEFINE gone == { registered[r] : r \in registry.alive }
<1>1. MaxPools \in Nat
  BY ScenePoolAssumption
<1>2. /\ scenes.alive = {}
      /\ DestroyPools(gone)
      /\ registry' = NoTable
      /\ registered' = [i \in SlotsForPools |-> NoPool]
      /\ standalone' = NoHandle
      /\ spent_pools' = {}
      /\ scenes' = scenes /\ pools' = pools /\ uuids' = uuids
      /\ spent_scenes' = spent_scenes /\ written' = written
  BY DEF RegistryShutdown, StandaloneAfterShutdown, sceneVars
<1>3. gone = existing
  BY <1>2 DEF PoolInv, OwnedInv
<1> HIDE DEF gone
<1>4. /\ existing' = {}
      /\ scene_of' \in [Pool -> Handle \cup {NoHandle}]
      /\ freed_twice' = FALSE
  BY <1>2, <1>3, DestroyPoolsEffect DEF PoolInv
<1>5. IsTable(registry', MaxPools) /\ registry'.alive = {}
  BY <1>1, <1>2, NewTableIsTable DEF NoTable
<1>6. TypeInv' /\ TablesInv'
  BY <1>2, <1>4, <1>5 DEF PoolInv, TypeInv, TablesInv
<1>7. OwnedInv'
  BY <1>2, <1>4, <1>5 DEF OwnedInv
<1>8. HandlesInv'
  BY <1>2 DEF PoolInv, HandlesInv, StandaloneInv, Spent
<1> QED
  BY <1>6, <1>7, <1>8 DEF PoolInv

LEMMA StepKeepsInv == PoolInv /\ [Next]_vars => PoolInv'
<1> SUFFICES ASSUME PoolInv, [Next]_vars PROVE PoolInv'
  OBVIOUS
<1>1. ASSUME NEW p \in Pool, NewScene(p) \/ UseStandalone(p) \/ CreateByHandle(p)
      PROVE  PoolInv'
  BY <1>1, NewSceneKeepsInv, UseStandaloneKeepsInv, CreateByHandleKeepsInv
<1>2. ASSUME NEW h \in LiveHandles(scenes) \cup spent_scenes,
             FreeScene(h) \/ \E u \in Uuid \cup {NoUuid} : SetUuid(h, u)
      PROVE  PoolInv'
  BY <1>2, FreeSceneKeepsInv, SetUuidKeepsInv
<1>3. ASSUME NEW h \in LiveHandles(registry) \cup spent_pools, DestroyByHandle(h)
      PROVE  PoolInv'
  BY <1>3, DestroyByHandleKeepsInv
<1>4. CASE SceneShutdown
  BY <1>4, SceneShutdownKeepsInv
<1>5. CASE RegistryShutdown
  BY <1>5, RegistryShutdownKeepsInv
<1>6. CASE UNCHANGED vars
  BY <1>6 DEF vars, sceneVars, registryVars, poolVars, historyVars, PoolInv, TypeInv,
     TablesInv, OwnedInv, HandlesInv, StandaloneInv, HandleAt, LiveHandles
<1> QED
  BY <1>1, <1>2, <1>3, <1>4, <1>5, <1>6 DEF Next

LEMMA AlwaysPoolInv == Spec => []PoolInv
  BY InitInv, StepKeepsInv, PTL DEF Spec

-----------------------------------------------------------------------------
(* The theorems                                                             *)

LEMMA InvGivesPoolsAgree == PoolInv => PoolsAgree
<1> SUFFICES ASSUME PoolInv PROVE PoolsAgree
  OBVIOUS
<1> DEFINE ofScenes == { pools[i] : i \in scenes.alive }
           inRegistry == { registered[r] : r \in registry.alive }
           poolOf == [i \in scenes.alive |-> pools[i]]
<1>1. existing = ofScenes \cup inRegistry
  BY DEF PoolInv, OwnedInv
<1>2. poolOf \in Bijection(scenes.alive, ofScenes)
  <2>1. poolOf \in [scenes.alive -> ofScenes]
    OBVIOUS
  <2>2. \A i, j \in scenes.alive : poolOf[i] = poolOf[j] => i = j
    BY PoolsDiffer DEF PoolInv
  <2>3. \A p \in ofScenes : \E i \in scenes.alive : poolOf[i] = p
    OBVIOUS
  <2> HIDE DEF poolOf, ofScenes
  <2> QED
    BY <2>1, <2>2, <2>3 DEF Bijection, Injection, Surjection, IsInjective
<1>3. IsFiniteSet(scenes.alive)
  BY ScenePoolAssumption, TableFields DEF PoolInv, TablesInv
<1>4. Cardinality(ofScenes) = Cardinality(scenes.alive)
  <2> HIDE DEF poolOf, ofScenes
  <2> QED
    BY <1>2, <1>3, FS_Bijection DEF ExistsBijection
<1> QED
  BY <1>1, <1>4 DEF PoolsAgree, PoolInv, OwnedInv

LEMMA InvGivesHandlesSound == PoolInv => HandlesSound
<1> SUFFICES ASSUME PoolInv PROVE HandlesSound
  OBVIOUS
<1>1. MaxScenes \in Nat /\ MaxPools \in Nat /\ NoPool \notin Pool
  BY ScenePoolAssumption
<1>2. IsTable(scenes, MaxScenes) /\ IsTable(registry, MaxPools)
  BY DEF PoolInv, TablesInv
<1>3. Accounted(scenes) /\ Accounted(registry)
  BY <1>2 DEF IsTable
<1>4. \A h \in spent_scenes : ~HandleAlive(scenes, h)
  BY <1>1, <1>2, SpentIsDead DEF PoolInv, HandlesInv
<1>5. \A h \in spent_pools : ~HandleAlive(registry, h)
  BY <1>1, <1>2, SpentIsDead DEF PoolInv, HandlesInv
<1>6. ASSUME NEW i \in scenes.alive PROVE GetPool(standalone) # pools[i]
  <2>1. pools[i] \in Pool
    BY DEF PoolInv, OwnedInv, TypeInv
  <2>2. CASE standalone = NoHandle \/ standalone \in spent_pools
    BY <1>1, <1>5, <2>1, <2>2 DEF GetPool
  <2>3. CASE \E r \in registry.alive : /\ standalone = HandleAt(registry, r)
                                       /\ \A j \in scenes.alive : pools[j] # registered[r]
    BY <1>1, <2>1, <2>3, HandleFields DEF GetPool
  <2> QED
    BY <2>2, <2>3 DEF PoolInv, HandlesInv, StandaloneInv
<1>7. \A h \in DOMAIN written : uuids[h.index] = written[h]
  BY DEF PoolInv, HandlesInv
<1> QED
  BY <1>3, <1>4, <1>5, <1>6, <1>7 DEF HandlesSound

\* Every living scene has an entity pool of its own that exists and knows its
\* scene, every registry slot leads to a pool that exists, no pool is leaked
\* and none is freed twice (tc_scene_pool_alloc, tc_scene_free, both shutdowns).
THEOREM PoolsAreAgreed == Spec => []PoolsAgree
  BY AlwaysPoolInv, InvGivesPoolsAgree, PTL

\* No slot of the two tables is lost or handed out twice, however they grow
\* (pool_grow, registry_grow); no handle that died leads anywhere; a scene
\* keeps the uuid written through its handle; the standalone handle never
\* leads to the pool of a scene (tc_entity_pool_standalone_handle).
THEOREM HandlesAreSound == Spec => []HandlesSound
  BY AlwaysPoolInv, InvGivesHandlesSound, PTL

\* Scene slot i and its pool are as before, and so is the pool's registration.
SceneKept(i) ==
  /\ pools'[i] = pools[i] /\ HandleAt(scenes', i) = HandleAt(scenes, i)
  /\ \A r : r \in registry.alive /\ registered[r] = pools[i]
              <=> r \in registry'.alive /\ registered'[r] = pools[i]
  /\ \A r \in registry.alive : registered[r] = pools[i]
                                 => HandleAt(registry', r) = HandleAt(registry, r)

LEMMA KeptRegistration ==
  ASSUME PoolInv, NEW i \in scenes.alive, SceneKept(i)
  PROVE  FindPool(pools[i])' = FindPool(pools[i])
<1> DEFINE found == { r \in registry.alive : registered[r] = pools[i] }
           after == { r \in registry'.alive : registered'[r] = pools'[i] }
<1>1. after = found
  BY DEF SceneKept
<1>2. FindPool(pools[i]) = IF found = {} THEN NoHandle ELSE HandleAt(registry, Min(found))
  BY DEF FindPool
<1>3. FindPool(pools[i])' = IF after = {} THEN NoHandle ELSE HandleAt(registry', Min(after))
  BY DEF FindPool
<1>4. CASE found = {}
  BY <1>1, <1>2, <1>3, <1>4
<1>5. ASSUME NEW r \in found PROVE FindPool(pools[i])' = FindPool(pools[i])
  <2>1. found = {r}
    BY <1>5 DEF PoolInv, OwnedInv
  <2>2. Min(found) = r
    <3>1. r \in Nat
      BY <1>5, SlotsKnown DEF SlotsForPools, PoolInv
    <3> QED
      BY <2>1, <3>1 DEF Min
  <2>3. HandleAt(registry', r) = HandleAt(registry, r)
    BY <1>5 DEF SceneKept
  <2> HIDE DEF found, after
  <2> QED
    BY <1>1, <1>2, <1>3, <1>5, <2>2, <2>3
<1> QED
  BY <1>4, <1>5

\* What RegistrationIsStable says of one step.
RegistrationKept ==
  \A h \in LiveHandles(scenes)' :
    LET handle == FindPool(pools[h.index]) IN
    IF HandleAlive(scenes, h) THEN handle' = handle
    ELSE handle' # NoHandle \/ Cardinality(registry.alive) = MaxPools

\* The same, slot by slot.
LEMMA KeptSlotBySlot ==
  ASSUME PoolInv, PoolInv',
         \A i \in scenes'.alive :
           IF i \in scenes.alive THEN SceneKept(i)
           ELSE FindPool(pools[i])' # NoHandle \/ Cardinality(registry.alive) = MaxPools
  PROVE  RegistrationKept
<1> SUFFICES ASSUME NEW h \in LiveHandles(scenes)'
             PROVE  IF HandleAlive(scenes, h)
                    THEN FindPool(pools[h.index])' = FindPool(pools[h.index])
                    ELSE \/ FindPool(pools[h.index])' # NoHandle
                         \/ Cardinality(registry.alive) = MaxPools
  BY DEF RegistrationKept
<1>1. MaxScenes \in Nat
  BY ScenePoolAssumption
<1>2. h.index \in scenes'.alive /\ h = HandleAt(scenes', h.index)
  BY HandleFields DEF LiveHandles
<1>3. h.index \in scenes.alive => HandleAt(scenes', h.index) = HandleAt(scenes, h.index)
  BY <1>2 DEF SceneKept
<1>4. HandleAlive(scenes, h) <=> h.index \in scenes.alive
  BY <1>1, <1>2, <1>3, AliveHandle DEF PoolInv, TablesInv, HandleAlive
<1>5. CASE h.index \in scenes.alive
  BY <1>2, <1>4, <1>5, KeptRegistration
<1>6. CASE h.index \notin scenes.alive
  BY <1>2, <1>4, <1>6
<1> QED
  BY <1>5, <1>6

\* What a slot of the registry holds is found.
LEMMA FoundOnceRegistered ==
  ASSUME PoolInv', NEW r \in registry'.alive, NEW i, registered'[r] = pools'[i]
  PROVE  FindPool(pools[i])' # NoHandle
<1> DEFINE after == { s \in registry'.alive : registered'[s] = pools'[i] }
<1>1. FindPool(pools[i])' = IF after = {} THEN NoHandle ELSE HandleAt(registry', Min(after))
  BY DEF FindPool
<1>2. after = {r}
  BY DEF PoolInv, OwnedInv
<1>3. MaxPools \in Nat /\ NoHandle \notin Handle
  BY ScenePoolAssumption
<1>4. HandleAt(registry', r) \in Handle /\ r \in Nat
  <2>1. IsTable(registry', MaxPools)
    BY DEF PoolInv, TablesInv
  <2>2. /\ registry'.alive \subseteq SlotsOf(registry') /\ SlotsOf(registry') \subseteq 0..MaxPools-1
        /\ \A s \in SlotsOf(registry') : HandleAt(registry', s) \in Handle
    BY <1>3, <2>1, TableSlots
  <2> QED
    BY <2>2
<1>5. Min(after) = r
  BY <1>2, <1>4 DEF Min
<1> HIDE DEF after
<1> QED
  BY <1>1, <1>2, <1>3, <1>4, <1>5

\* The registry may gain slots for other pools and lose the slots S, none of
\* which holds the pool of scene slot i.
LEMMA KeptByRegistry ==
  ASSUME PoolInv, NEW i \in scenes.alive,
         pools'[i] = pools[i], HandleAt(scenes', i) = HandleAt(scenes, i),
         \/ Refuses
         \/ \E p \in Pool, r \in SlotsForPools : Registers(p, r) /\ pools[i] # p
         \/ \E S \in SUBSET registry.alive :
              Unregisters(S) /\ \A r \in S : registered[r] # pools[i]
         \/ registry' = registry /\ registered' = registered
  PROVE  SceneKept(i)
<1>1. CASE Refuses
  BY <1>1 DEF SceneKept, Refuses
<1>2. CASE \E p \in Pool, r \in SlotsForPools : Registers(p, r) /\ pools[i] # p
  BY <1>2 DEF SceneKept, Registers
<1>3. CASE \E S \in SUBSET registry.alive :
             Unregisters(S) /\ \A r \in S : registered[r] # pools[i]
  BY <1>3 DEF SceneKept, Unregisters
<1>4. CASE registry' = registry /\ registered' = registered
  BY <1>4 DEF SceneKept, HandleAt
<1> QED
  BY <1>1, <1>2, <1>3, <1>4

LEMMA NewSceneKeepsRegistration ==
  ASSUME PoolInv, PoolInv', NEW p \in Pool, NewScene(p)
  PROVE  RegistrationKept
<1> DEFINE t == ForAlloc(scenes, InitialScenes, MaxScenes)
           s == NextSlot(t)
           room == ForAlloc(registry, InitialPools, MaxPools)
<1>1. /\ MaxScenes \in Nat /\ InitialScenes \in 1..MaxScenes /\ MaxPools \in Nat
  BY ScenePoolAssumption
<1>2. /\ ~Full(t)
      /\ scenes' = Taken(t)
      /\ CreatePool(p, HandleAt(t, s))
      /\ RegisterPool(p)
      /\ pools' = [pools EXCEPT ![s] = p]
  BY DEF NewScene
<1>3. IsTable(scenes', MaxScenes) /\ Adds(scenes', scenes, s)
  BY <1>1, <1>2, AllocatedIsTable DEF PoolInv, TablesInv
<1> HIDE DEF t, s
<1>4. /\ scenes.alive \subseteq SlotsOf(scenes) /\ scenes.alive \subseteq SlotsForScenes
      /\ SlotsOf(scenes') \subseteq SlotsForScenes
  BY <1>1, <1>3, TableSlots DEF PoolInv, TablesInv, SlotsForScenes
<1>5. /\ scenes'.alive = scenes.alive \cup {s} /\ s \notin scenes.alive
      /\ \A i \in scenes.alive : HandleAt(scenes', i) = HandleAt(scenes, i)
      /\ s \in SlotsForScenes
  BY <1>3, <1>4 DEF Adds, HandleAt
<1>6. pools'[s] = p /\ \A i \in scenes.alive : pools'[i] = pools[i]
  BY <1>2, <1>4, <1>5 DEF PoolInv, TypeInv
<1>7. p \notin existing
  BY <1>2 DEF CreatePool
<1>8. \A i \in scenes.alive : pools[i] # p
  BY <1>7, NewPoolIsNew DEF PoolInv
<1>9. (Full(room) => Refuses) /\ (~Full(room) => Registers(p, NextSlot(room)))
  BY <1>2, NewIsPutInRegistry, PutInRegistryEffect DEF PoolInv, CreatePool
<1> HIDE DEF room
<1>10. ASSUME NEW i \in scenes.alive PROVE SceneKept(i)
  <2>1. pools'[i] = pools[i] /\ HandleAt(scenes', i) = HandleAt(scenes, i) /\ pools[i] # p
    BY <1>5, <1>6, <1>8
  <2>2. Refuses \/ \E q \in Pool, r \in SlotsForPools : Registers(q, r) /\ pools[i] # q
    BY <1>9, <2>1 DEF Registers
  <2> QED
    BY <2>1, <2>2, KeptByRegistry
<1>11. ASSUME NEW i, i = s
       PROVE  FindPool(pools[i])' # NoHandle \/ Cardinality(registry.alive) = MaxPools
  <2>1. CASE Full(room)
    <3>1. registry.alive = 0..MaxPools-1
      BY <1>9, <2>1 DEF Refuses, SlotsForPools
    <3> QED
      BY <1>1, <3>1, SlotsOfFinite
  <2>2. CASE ~Full(room)
    <3>1. Registers(p, NextSlot(room))
      BY <1>9, <2>2
    <3>2. NextSlot(room) \in registry'.alive /\ registered'[NextSlot(room)] = pools'[i]
      BY <1>6, <1>11, <3>1 DEF Registers
    <3> QED
      BY <3>2, FoundOnceRegistered
  <2> QED
    BY <2>1, <2>2
<1>12. \A i \in scenes'.alive :
         IF i \in scenes.alive THEN SceneKept(i)
         ELSE FindPool(pools[i])' # NoHandle \/ Cardinality(registry.alive) = MaxPools
  BY <1>5, <1>10, <1>11
<1> QED
  BY <1>12, KeptSlotBySlot

LEMMA FreeSceneKeepsRegistration ==
  ASSUME PoolInv, PoolInv', NEW h \in LiveHandles(scenes) \cup spent_scenes, FreeScene(h)
  PROVE  RegistrationKept
<1> DEFINE s == h.index
           p == pools[h.index]
<1>1. MaxScenes \in Nat
  BY ScenePoolAssumption
<1>2. /\ HandleAlive(scenes, h)
      /\ LET found == FindPool(p) IN
         IF found # NoHandle THEN UnregisterPool(found.index)
         ELSE UNCHANGED <<registry, registered, spent_pools>>
      /\ pools' = [pools EXCEPT ![s] = NoPool]
      /\ scenes' = Released(scenes, s)
  BY DEF FreeScene
<1>3. h \in Handle
  BY SlotsKnown DEF PoolInv, HandlesInv, Spent, LiveHandles
<1>4. s \in scenes.alive
  BY <1>1, <1>2, <1>3, AliveHandle DEF PoolInv, TablesInv
<1>5. PICK S \in SUBSET registry.alive :
        Unregisters(S) /\ \A r \in registry.alive : r \in S <=> registered[r] = p
  BY <1>2, UnregisterFoundEffect
<1>6. \A i \in scenes.alive : i # s => pools[i] # p
  BY <1>4, PoolsDiffer DEF PoolInv
<1>7. Releases(scenes', scenes, {s})
  BY <1>1, <1>2, <1>4, ReleasedIsTable DEF PoolInv, TablesInv
<1>8. /\ scenes'.alive = scenes.alive \ {s}
      /\ \A i \in scenes.alive \ {s} : HandleAt(scenes', i) = HandleAt(scenes, i)
  BY <1>1, <1>7, TableSlots DEF PoolInv, TablesInv, Releases, HandleAt
<1>9. \A i \in scenes.alive \ {s} : pools'[i] = pools[i]
  BY <1>2, SlotsKnown DEF PoolInv, TypeInv
<1> HIDE DEF s, p
<1>10. ASSUME NEW i \in scenes.alive \ {s} PROVE SceneKept(i)
  <2>1. \A r \in S : registered[r] # pools[i]
    BY <1>5, <1>6
  <2> QED
    BY <1>5, <1>8, <1>9, <2>1, KeptByRegistry
<1>11. \A i \in scenes'.alive : i \in scenes.alive /\ SceneKept(i)
  BY <1>8, <1>10
<1> QED
  BY <1>11, KeptSlotBySlot

\* Steps that change no slot of the scenes.
LEMMA OtherStepKeepsRegistration ==
  ASSUME PoolInv, PoolInv', scenes' = scenes, pools' = pools,
         \/ \E p \in Pool : CreateInRegistry(p)
         \/ \E h \in LiveHandles(registry) \cup spent_pools : DestroyByHandle(h)
         \/ registry' = registry /\ registered' = registered
  PROVE  RegistrationKept
<1>1. ASSUME NEW i \in scenes.alive PROVE SceneKept(i)
  <2>1. pools'[i] = pools[i] /\ HandleAt(scenes', i) = HandleAt(scenes, i)
    BY DEF HandleAt
  <2>2. ASSUME NEW p \in Pool, CreateInRegistry(p)
        PROVE  \E r \in SlotsForPools : Registers(p, r) /\ pools[i] # p
    <3>1. ~Full(ForAlloc(registry, InitialPools, MaxPools)) /\ PutInRegistry(p)
          /\ p \notin existing
      BY <2>2 DEF CreateInRegistry, CreatePool
    <3>2. Registers(p, NextSlot(ForAlloc(registry, InitialPools, MaxPools)))
      BY <3>1, PutInRegistryEffect DEF PoolInv
    <3>3. pools[i] # p
      BY <3>1, NewPoolIsNew DEF PoolInv
    <3> QED
      BY <3>2, <3>3 DEF Registers
  <2>3. ASSUME NEW h \in LiveHandles(registry) \cup spent_pools, DestroyByHandle(h)
        PROVE  \E S \in SUBSET registry.alive :
                 Unregisters(S) /\ \A r \in S : registered[r] # pools[i]
    <3>1. /\ HandleAlive(registry, h) /\ UnregisterPool(h.index)
          /\ pools[i] # registered[h.index]
      BY <2>3 DEF DestroyByHandle
    <3>2. h \in Handle
      BY SlotsKnown DEF PoolInv, HandlesInv, Spent, LiveHandles
    <3>3. h.index \in registry.alive
      BY <3>1, <3>2, ScenePoolAssumption, AliveHandle DEF PoolInv, TablesInv
    <3>4. Unregisters({h.index})
      BY <3>1, <3>3, UnregisterPoolEffect DEF PoolInv
    <3> QED
      BY <3>1, <3>3, <3>4
  <2> QED
    BY <2>1, <2>2, <2>3, KeptByRegistry
<1> QED
  BY <1>1, KeptSlotBySlot

LEMMA StepKeepsRegistration ==
  PoolInv /\ PoolInv' /\ [Next]_vars => [RegistrationKept]_vars
<1> SUFFICES ASSUME PoolInv, PoolInv', Next PROVE RegistrationKept
  OBVIOUS
<1>1. ASSUME NEW p \in Pool, NewScene(p) PROVE RegistrationKept
  BY <1>1, NewSceneKeepsRegistration
<1>2. ASSUME NEW p \in Pool, UseStandalone(p) \/ CreateByHandle(p) PROVE RegistrationKept
  <2>1. CreateInRegistry(p) /\ scenes' = scenes /\ pools' = pools
    BY <1>2 DEF UseStandalone, CreateByHandle, sceneVars
  <2> QED
    BY <2>1, OtherStepKeepsRegistration
<1>3. ASSUME NEW h \in LiveHandles(scenes) \cup spent_scenes, FreeScene(h)
      PROVE  RegistrationKept
  BY <1>3, FreeSceneKeepsRegistration
<1>4. ASSUME NEW h \in LiveHandles(scenes) \cup spent_scenes,
             NEW u \in Uuid \cup {NoUuid}, SetUuid(h, u)
      PROVE  RegistrationKept
  <2>1. /\ scenes' = scenes /\ pools' = pools
        /\ registry' = registry /\ registered' = registered
    BY <1>4 DEF SetUuid, registryVars
  <2> QED
    BY <2>1, OtherStepKeepsRegistration
<1>5. ASSUME NEW h \in LiveHandles(registry) \cup spent_pools, DestroyByHandle(h)
      PROVE  RegistrationKept
  <2>1. scenes' = scenes /\ pools' = pools
    BY <1>5 DEF DestroyByHandle, sceneVars
  <2> QED
    BY <1>5, <2>1, OtherStepKeepsRegistration
<1>6. CASE SceneShutdown
  <2>1. scenes'.alive = {}
    BY <1>6 DEF SceneShutdown, NoTable, NewTable
  <2> QED
    BY <2>1, KeptSlotBySlot
<1>7. CASE RegistryShutdown
  <2>1. scenes'.alive = {}
    BY <1>7 DEF RegistryShutdown, sceneVars
  <2> QED
    BY <2>1, KeptSlotBySlot
<1> QED
  BY <1>1, <1>2, <1>3, <1>4, <1>5, <1>6, <1>7 DEF Next

\* A step neither changes nor takes away the handle of a living scene's pool,
\* and a new scene gets one unless the registry is full: entity handles of its
\* entities stay good (tc_scene_pool_alloc, tc_entity_pool_registry_find).
THEOREM RegistrationStaysStable == Spec => RegistrationIsStable
<1>1. Spec => [][RegistrationKept]_vars
  BY AlwaysPoolInv, StepKeepsRegistration, PTL DEF Spec
<1> QED
  BY <1>1, PTL DEF RegistrationKept, RegistrationIsStable
-----------------------------------------------------------------------------
(* SceneFile: forests, and the order in which they are written             *)

\* A forest on A: up[j] is the parent of j, or None; ranks grow downwards.
Ranked(A, up, rank) ==
  /\ A \subseteq Slots
  /\ rank \in [Slots -> 0..Capacity]
  /\ \A j \in A : up[j] = None \/ (up[j] \in A /\ rank[up[j]] < rank[j])

LEMMA LeastRank ==
  ASSUME NEW rank \in [Slots -> 0..Capacity], NEW S, S \subseteq Slots, S # {}
  PROVE  \E y \in S : \A z \in S : rank[y] <= rank[z]
<1> SUFFICES ASSUME \A y \in S : \E z \in S : rank[z] < rank[y] PROVE FALSE
  <2>1. \A y, z \in S : rank[y] \in Int /\ rank[z] \in Int
    OBVIOUS
  <2> QED
    BY <2>1
<1> DEFINE Above == { n \in Nat : \A y \in S : rank[y] >= n }
<1>1. 0 \in Above
  OBVIOUS
<1>2. ASSUME NEW n \in 0..Capacity, n \in Above PROVE n+1 \in Above
  <2>1. ASSUME NEW y \in S PROVE rank[y] >= n+1
    <3>1. PICK z \in S : rank[z] < rank[y]
      OBVIOUS
    <3>2. rank[z] >= n /\ rank[z] \in Nat /\ rank[y] \in Nat /\ n \in Nat
      BY <1>2
    <3> QED
      BY <3>1, <3>2
  <2> QED
    BY <2>1
<1>3. Capacity+1 \in Above
  <2> HIDE DEF Above
  <2>1. Capacity+1 \in Nat /\ 0..(Capacity+1)-1 = 0..Capacity
    BY FileAssumption
  <2>2. 0..Capacity+1 \subseteq Above
    BY <1>1, <1>2, <2>1, CountingUp
  <2> QED
    BY <2>1, <2>2
<1> QED
  <2>1. PICK y \in S : TRUE
    OBVIOUS
  <2>2. rank[y] >= Capacity+1 /\ rank[y] \in 0..Capacity
    BY <1>3
  <2> QED
    BY <2>2, FileAssumption

\* No set of entities holds the parents of all its members, nor has each of
\* them a child in it.
LEMMA Highest ==
  ASSUME NEW A, NEW up, NEW rank, Ranked(A, up, rank), NEW S, S \subseteq A, S # {}
  PROVE  \E y \in S : up[y] \notin S
<1>1. PICK y \in S : \A z \in S : rank[y] <= rank[z]
  BY LeastRank DEF Ranked
<1>2. ASSUME up[y] \in S PROVE FALSE
  <2>1. up[y] \in Slots /\ y \in A
    BY <1>2 DEF Ranked
  <2>2. up[y] # None
    BY <2>1, FileAssumption DEF Slots
  <2>3. rank[up[y]] < rank[y] /\ rank[up[y]] \in 0..Capacity /\ rank[y] \in 0..Capacity
    BY <2>1, <2>2 DEF Ranked
  <2> QED
    BY <1>1, <1>2, <2>3
<1> QED
  BY <1>2

LEMMA Lowest ==
  ASSUME NEW A, NEW up, NEW rank, Ranked(A, up, rank), NEW S, S \subseteq A, S # {}
  PROVE  \E y \in S : \A z \in S : up[z] # y
<1> DEFINE back == [i \in Slots |-> Capacity - rank[i]]
<1>1. back \in [Slots -> 0..Capacity]
  BY FileAssumption DEF Ranked
<1>2. PICK y \in S : \A z \in S : back[y] <= back[z]
  <2>1. S \subseteq Slots
    BY DEF Ranked
  <2> HIDE DEF back
  <2> QED
    BY <1>1, <2>1, LeastRank
<1>3. ASSUME NEW z \in S, up[z] = y PROVE FALSE
  <2>1. y \in Slots /\ z \in Slots /\ z \in A
    BY DEF Ranked
  <2>2. up[z] # None
    BY <1>3, <2>1, FileAssumption DEF Slots
  <2>3. rank[y] < rank[z] /\ rank[y] \in 0..Capacity /\ rank[z] \in 0..Capacity
    BY <1>3, <2>1, <2>2 DEF Ranked
  <2>4. Capacity - rank[y] <= Capacity - rank[z]
    BY <1>2, <2>1
  <2> QED
    BY <2>3, <2>4, FileAssumption
<1> QED
  BY <1>3

Ascending(ch) == \A i \in Slots : \A j, k \in 1..Len(ch[i]) : j < k => ch[i][j] < ch[i][k]

\* w writes the trees of T: each from its root down, with everything below it
\* and nothing after the tree that is below what is before it.  Where the
\* arrays of children ascend, those of one parent come in that order.
Wood(up, V, ch, w, T) ==
  /\ w \in Seq(V) /\ IsInjective(w)
  /\ \A b \in 1..Len(w) : w[b] \in T \/ \E d \in 1..b-1 : up[w[b]] = w[d]
  /\ \A a, b, c \in 1..Len(w) : a < b /\ b < c /\ up[w[c]] = w[a] =>
       \E d \in 1..b-1 : a <= d /\ up[w[b]] = w[d]
  /\ \A c \in V : up[c] \in ToSet(w) => c \in ToSet(w)
  /\ T \subseteq ToSet(w)
  /\ Ascending(ch) => \A b, c \in 1..Len(w) : b < c /\ up[w[b]] = up[w[c]] => w[b] < w[c]

\* The parent of what is in w is in w, unless it is a root of w.
LEMMA WoodParents ==
  ASSUME NEW up, NEW V, NEW ch, NEW w, NEW T, Wood(up, V, ch, w, T)
  PROVE  /\ ToSet(w) \subseteq V
         /\ \A y \in ToSet(w) : y \in T \/ up[y] \in ToSet(w)
<1>1. w \in Seq(V) /\ DOMAIN w = 1..Len(w) /\ Len(w) \in Nat
  BY DEF Wood
<1>2. ToSet(w) \subseteq V
  BY <1>1 DEF ToSet
<1>3. ASSUME NEW y \in ToSet(w) PROVE y \in T \/ up[y] \in ToSet(w)
  <2>1. PICK b \in 1..Len(w) : w[b] = y
    BY <1>1 DEF ToSet
  <2>2. y \in T \/ \E d \in 1..b-1 : up[y] = w[d]
    BY <2>1 DEF Wood
  <2>3. \A d \in 1..b-1 : d \in 1..Len(w)
    BY <1>1
  <2> QED
    BY <1>1, <2>2, <2>3 DEF ToSet
<1> QED
  BY <1>2, <1>3

LEMMA NoWood == ASSUME NEW up, NEW V, NEW ch PROVE Wood(up, V, ch, <<>>, {})
BY DEF Wood, IsInjective, ToSet

RootsBelow(up, T, i) == \A t \in T : up[t] = i

\* What is above the roots of w is not in w.
LEMMA NothingAbove ==
  ASSUME NEW A, NEW up, NEW rank, Ranked(A, up, rank), NEW V, V \subseteq A,
         NEW ch, NEW w, NEW T, Wood(up, V, ch, w, T), NEW i \in Slots,
         RootsBelow(up, T, i)
  PROVE  i \notin ToSet(w)
<1> SUFFICES ASSUME i \in ToSet(w) PROVE FALSE
  OBVIOUS
<1>1. ToSet(w) \subseteq A /\ \A y \in ToSet(w) : y \in T \/ up[y] \in ToSet(w)
  BY WoodParents
<1> DEFINE S == { y \in ToSet(w) : rank[y] <= rank[i] }
<1>2. S \subseteq A /\ i \in S
  BY <1>1 DEF Ranked
<1>3. PICK y \in S : up[y] \notin S
  <2> HIDE DEF S
  <2> QED
    BY <1>2, Highest
<1>4. y \in A /\ y \in Slots /\ rank[y] \in 0..Capacity /\ rank[i] \in 0..Capacity
  BY <1>1 DEF Ranked
<1>5. ASSUME up[y] \in Slots PROVE rank[up[y]] < rank[y] /\ rank[up[y]] \in 0..Capacity
  <2>1. up[y] # None
    BY <1>5, FileAssumption DEF Slots
  <2> QED
    BY <1>4, <1>5, <2>1 DEF Ranked
<1>6. CASE y \in T
  <2>1. rank[i] < rank[y]
    BY <1>5, <1>6 DEF RootsBelow
  <2> QED
    BY <1>3, <1>4, <2>1
<1>7. CASE y \notin T
  <2>1. up[y] \in ToSet(w)
    BY <1>1, <1>3, <1>7
  <2>2. up[y] \in Slots
    BY <1>1, <2>1 DEF Ranked
  <2>3. rank[up[y]] < rank[y] /\ rank[up[y]] \in 0..Capacity
    BY <1>5, <2>2
  <2>4. rank[up[y]] <= rank[i]
    BY <1>3, <1>4, <2>3
  <2> QED
    BY <1>3, <2>1, <2>4
<1> QED
  BY <1>6, <1>7

\* Woods whose roots are not below each other have nothing in common.
LEMMA WoodsApart ==
  ASSUME NEW A, NEW up, NEW rank, Ranked(A, up, rank), NEW V, V \subseteq A, NEW ch,
         NEW w, NEW T, Wood(up, V, ch, w, T), NEW x, NEW U, Wood(up, V, ch, x, U),
         T \cap U = {},
         \A t \in T \cup U : up[t] \notin ToSet(w) \cup ToSet(x)
  PROVE  ToSet(w) \cap ToSet(x) = {}
<1> SUFFICES ASSUME ToSet(w) \cap ToSet(x) # {} PROVE FALSE
  OBVIOUS
<1>1. /\ ToSet(w) \subseteq V /\ \A y \in ToSet(w) : y \in T \/ up[y] \in ToSet(w)
      /\ \A y \in ToSet(x) : y \in U \/ up[y] \in ToSet(x)
  BY WoodParents
<1>2. PICK y \in ToSet(w) \cap ToSet(x) : up[y] \notin ToSet(w) \cap ToSet(x)
  BY <1>1, Highest
<1> QED
  BY <1>1, <1>2

\* One after the other they are a wood.
LEMMA WoodsJoin ==
  ASSUME NEW A, NEW up, NEW rank, Ranked(A, up, rank), NEW V, V \subseteq A, NEW ch,
         NEW w, NEW T, Wood(up, V, ch, w, T), NEW x, NEW U, Wood(up, V, ch, x, U),
         T \cap U = {},
         \A t \in T \cup U : up[t] \notin ToSet(w) \cup ToSet(x),
         Ascending(ch) => \A t \in T, u \in U : up[t] = up[u] => t < u
  PROVE  Wood(up, V, ch, w \o x, T \cup U)
<1> DEFINE s == w \o x
           m == Len(w)
           n == Len(x)
<1>1. /\ w \in Seq(V) /\ x \in Seq(V) /\ m \in Nat /\ n \in Nat
      /\ DOMAIN w = 1..m /\ DOMAIN x = 1..n
  BY DEF Wood
<1>2. ToSet(w) \cap ToSet(x) = {}
  BY WoodsApart
<1>3. /\ s \in Seq(V) /\ Len(s) = m + n /\ ToSet(s) = ToSet(w) \cup ToSet(x) /\ IsInjective(s)
  BY <1>1, <1>2, ConcatItems DEF Wood
<1>4. \A p \in 1..m+n : s[p] = IF p <= m THEN w[p] ELSE x[p-m]
  BY <1>1, ConcatProperties
<1>5. /\ \A y \in ToSet(w) : y \in T \/ up[y] \in ToSet(w)
      /\ \A y \in ToSet(x) : y \in U \/ up[y] \in ToSet(x)
  BY WoodParents
<1> HIDE DEF s, m, n
<1>6. ASSUME NEW p \in 1..m+n
      PROVE  \/ p \in 1..m /\ s[p] = w[p] /\ s[p] \in ToSet(w)
             \/ p-m \in 1..n /\ s[p] = x[p-m] /\ s[p] \in ToSet(x)
  <2>1. CASE p <= m
    <3>1. p \in 1..m /\ s[p] = w[p]
      BY <1>1, <1>4, <2>1
    <3> QED
      BY <1>1, <3>1 DEF ToSet
  <2>2. CASE ~(p <= m)
    <3>1. p-m \in 1..n /\ s[p] = x[p-m]
      BY <1>1, <1>4, <2>2
    <3> QED
      BY <1>1, <3>1 DEF ToSet
  <2> QED
    BY <2>1, <2>2
<1>7. /\ \A d \in 1..m : d \in 1..m+n /\ s[d] = w[d]
      /\ \A d \in 1..n : d+m \in 1..m+n /\ s[d+m] = x[d]
  <2>1. \A d \in 1..m : d \in 1..m+n /\ d <= m
    BY <1>1
  <2>2. \A d \in 1..n : d+m \in 1..m+n /\ ~(d+m <= m) /\ (d+m)-m = d
    BY <1>1
  <2> QED
    BY <1>4, <2>1, <2>2
<1>8. /\ \A b \in 1..m : w[b] \in T \/ \E d \in 1..b-1 : up[w[b]] = w[d]
      /\ \A b \in 1..n : x[b] \in U \/ \E d \in 1..b-1 : up[x[b]] = x[d]
  BY DEF Wood, m, n
<1>9. ASSUME NEW b \in 1..m+n
      PROVE  s[b] \in T \cup U \/ \E d \in 1..b-1 : up[s[b]] = s[d]
  <2>1. CASE b \in 1..m /\ s[b] = w[b]
    <3>1. CASE s[b] \notin T
      <4>1. PICK d \in 1..b-1 : up[w[b]] = w[d]
        BY <1>8, <2>1, <3>1
      <4>2. s[d] = w[d]
        BY <1>1, <1>7, <2>1
      <4> QED
        BY <2>1, <4>1, <4>2
    <3> QED
      BY <3>1
  <2>2. CASE b-m \in 1..n /\ s[b] = x[b-m]
    <3>1. CASE s[b] \notin U
      <4>1. PICK d \in 1..b-m-1 : up[x[b-m]] = x[d]
        BY <1>8, <2>2, <3>1
      <4>2. s[d+m] = x[d] /\ d+m \in 1..b-1
        BY <1>1, <1>7, <2>2
      <4> QED
        BY <2>2, <4>1, <4>2
    <3> QED
      BY <3>1
  <2> QED
    BY <1>6, <2>1, <2>2
<1>10. /\ \A a, b, c \in 1..m : a < b /\ b < c /\ up[w[c]] = w[a] =>
            \E d \in 1..b-1 : a <= d /\ up[w[b]] = w[d]
       /\ \A a, b, c \in 1..n : a < b /\ b < c /\ up[x[c]] = x[a] =>
            \E d \in 1..b-1 : a <= d /\ up[x[b]] = x[d]
  BY DEF Wood, m, n
<1>11. ASSUME NEW a \in 1..m+n, NEW b \in 1..m+n, NEW c \in 1..m+n,
              a < b, b < c, up[s[c]] = s[a]
       PROVE  \E d \in 1..b-1 : a <= d /\ up[s[b]] = s[d]
  <2>1. CASE c \in 1..m /\ s[c] = w[c]
    <3>1. a \in 1..m /\ b \in 1..m
      BY <1>1, <1>11, <2>1
    <3>2. s[a] = w[a] /\ s[b] = w[b]
      BY <1>7, <3>1
    <3>3. PICK d \in 1..b-1 : a <= d /\ up[w[b]] = w[d]
      BY <1>10, <1>11, <2>1, <3>1, <3>2
    <3>4. s[d] = w[d]
      BY <1>1, <1>7, <3>1
    <3> QED
      BY <3>2, <3>3, <3>4
  <2>2. CASE c-m \in 1..n /\ s[c] = x[c-m] /\ s[c] \in ToSet(x)
    <3>1. s[a] \in ToSet(w) \cup ToSet(x)
      BY <1>6
    <3>2. s[c] \notin U
      BY <1>11, <3>1
    <3>3. s[a] \in ToSet(x)
      BY <1>5, <1>11, <2>2, <3>2
    <3>4. a-m \in 1..n /\ s[a] = x[a-m]
      BY <1>2, <1>6, <3>3
    <3>5. b-m \in 1..n
      BY <1>1, <1>11, <2>2, <3>4
    <3>6. b \in 1..m+n /\ ~(b <= m)
      BY <1>1, <3>5
    <3>7. s[b] = x[b-m]
      BY <1>4, <3>6
    <3>8. a-m < b-m /\ b-m < c-m
      BY <1>1, <1>11
    <3>9. PICK d \in 1..b-m-1 : a-m <= d /\ up[x[b-m]] = x[d]
      BY <1>10, <1>11, <2>2, <3>4, <3>5, <3>8
    <3>10. d \in 1..n /\ d+m \in 1..b-1 /\ a <= d+m
      BY <1>1, <3>5, <3>9
    <3>11. s[d+m] = x[d]
      BY <1>7, <3>10
    <3> QED
      BY <3>7, <3>9, <3>10, <3>11
  <2> QED
    BY <1>6, <2>1, <2>2
<1>12. \A c \in V : up[c] \in ToSet(s) => c \in ToSet(s)
  BY <1>3 DEF Wood
<1>13. T \cup U \subseteq ToSet(s)
  BY <1>3 DEF Wood
<1>14. ASSUME Ascending(ch), NEW b \in 1..m+n, NEW c \in 1..m+n, b < c, up[s[b]] = up[s[c]]
       PROVE  s[b] < s[c]
  <2>0. /\ \A d, e \in 1..m : d < e /\ up[w[d]] = up[w[e]] => w[d] < w[e]
        /\ \A d, e \in 1..n : d < e /\ up[x[d]] = up[x[e]] => x[d] < x[e]
    BY <1>14 DEF Wood, m, n
  <2>1. CASE c \in 1..m /\ s[c] = w[c]
    <3>1. b \in 1..m
      BY <1>1, <1>14, <2>1
    <3>2. s[b] = w[b]
      BY <1>7, <3>1
    <3> QED
      BY <1>14, <2>0, <2>1, <3>1, <3>2
  <2>2. CASE b-m \in 1..n /\ s[b] = x[b-m]
    <3>1. c-m \in 1..n /\ b-m < c-m /\ ~(c <= m)
      BY <1>1, <1>14, <2>2
    <3>2. s[c] = x[c-m]
      BY <1>4, <3>1
    <3> QED
      BY <1>14, <2>0, <2>2, <3>1, <3>2
  <2>3. CASE s[b] \in ToSet(w) /\ s[c] \in ToSet(x)
    <3>1. s[b] \in T /\ s[c] \in U
      <4>1. s[b] \in T \/ up[s[b]] \in ToSet(w)
        BY <1>5, <2>3
      <4>2. s[c] \in U \/ up[s[c]] \in ToSet(x)
        BY <1>5, <2>3
      <4> QED
        BY <1>2, <1>14, <4>1, <4>2
    <3> QED
      BY <1>14, <3>1
  <2> QED
    BY <1>6, <2>1, <2>2, <2>3
<1>15. Wood(up, V, ch, s, T \cup U)
  BY <1>3, <1>9, <1>11, <1>12, <1>13, <1>14 DEF Wood
<1> QED
  BY <1>15 DEF s

\* i and then all that is below it.
LEMMA WoodPlanted ==
  ASSUME NEW A, NEW up, NEW rank, Ranked(A, up, rank), NEW V, V \subseteq A, NEW ch,
         NEW i \in V, NEW w, Wood(up, V, ch, w, { c \in V : up[c] = i })
  PROVE  Wood(up, V, ch, <<i>> \o w, {i})
<1> DEFINE T == { c \in V : up[c] = i }
           s == <<i>> \o w
           n == Len(w)
<1>1. w \in Seq(V) /\ n \in Nat /\ DOMAIN w = 1..n /\ <<i>> \in Seq(V) /\ Len(<<i>>) = 1
  BY DEF Wood
<1>2. i \notin ToSet(w) /\ up[i] \notin ToSet(w) /\ up[i] # i
  <2>1. ToSet(w) \subseteq V /\ \A y \in ToSet(w) : up[y] = i \/ up[y] \in ToSet(w)
    BY WoodParents
  <2>2. i \in Slots
    BY DEF Ranked
  <2>3. i \notin ToSet(w)
    <3>1. RootsBelow(up, { c \in V : up[c] = i }, i)
      BY DEF RootsBelow
    <3> QED
      BY <2>2, <3>1, NothingAbove
  <2>4. PICK y \in ToSet(w) \cup {i} : up[y] \notin ToSet(w) \cup {i}
    <3>1. ToSet(w) \cup {i} \subseteq A /\ ToSet(w) \cup {i} # {}
      BY <2>1
    <3> QED
      BY <3>1, Highest
  <2>5. y = i
    BY <2>1, <2>4
  <2> QED
    BY <2>3, <2>4, <2>5
<1>3. /\ s \in Seq(V) /\ Len(s) = n + 1 /\ ToSet(s) = {i} \cup ToSet(w) /\ IsInjective(s)
  <2>1. ToSet(<<i>>) = {i} /\ IsInjective(<<i>>)
    BY DEF ToSet, IsInjective
  <2>2. ToSet(<<i>>) \cap ToSet(w) = {}
    BY <1>2, <2>1
  <2>3. IsInjective(w)
    BY DEF Wood
  <2> DEFINE one == <<i>>
  <2>4. one \in Seq(V) /\ Len(one) = 1 /\ s = one \o w
        /\ ToSet(one) = {i} /\ IsInjective(one) /\ ToSet(one) \cap ToSet(w) = {}
    BY <1>1, <2>1, <2>2
  <2> HIDE DEF one, s, n
  <2>5. /\ one \o w \in Seq(V) /\ Len(one \o w) = Len(one) + Len(w)
        /\ ToSet(one \o w) = ToSet(one) \cup ToSet(w) /\ IsInjective(one \o w)
    <3>1. w \in Seq(V)
      BY <1>1
    <3>2. one \in Seq(V) /\ IsInjective(one) /\ ToSet(one) \cap ToSet(w) = {}
      BY <2>4
    <3> QED
      BY <2>3, <3>1, <3>2, ConcatItems
  <2> QED
    BY <1>1, <2>4, <2>5 DEF n
<1>4. s[1] = i /\ \A p \in 2..n+1 : s[p] = w[p-1] /\ p-1 \in 1..n
  BY <1>1, ConcatProperties
<1>5. /\ \A b \in 1..n : w[b] \in T \/ \E d \in 1..b-1 : up[w[b]] = w[d]
      /\ \A a, b, c \in 1..n : a < b /\ b < c /\ up[w[c]] = w[a] =>
           \E d \in 1..b-1 : a <= d /\ up[w[b]] = w[d]
      /\ \A c \in V : up[c] \in ToSet(w) => c \in ToSet(w)
      /\ T \subseteq ToSet(w)
      /\ Ascending(ch) => \A b, c \in 1..n : b < c /\ up[w[b]] = up[w[c]] => w[b] < w[c]
  BY DEF Wood
<1>6. \A d \in 1..n : d+1 \in 2..n+1 /\ s[d+1] = w[d]
  BY <1>1, <1>4
<1>7. \A y \in ToSet(w) : up[y] = i \/ up[y] \in ToSet(w)
  BY WoodParents
<1>8. \A d \in 1..n : w[d] \in ToSet(w)
  BY <1>1 DEF ToSet
<1> HIDE DEF s, n
<1>9. ASSUME NEW b \in 2..n+1 PROVE \E d \in 1..b-1 : up[s[b]] = s[d]
  <2>1. s[b] = w[b-1] /\ b-1 \in 1..n
    BY <1>4
  <2>2. CASE w[b-1] \in T
    <3>1. 1 \in 1..b-1
      BY <1>1, <2>1
    <3> QED
      BY <1>4, <2>1, <2>2, <3>1
  <2>3. CASE w[b-1] \notin T
    <3>1. PICK d \in 1..b-1-1 : up[w[b-1]] = w[d]
      BY <1>5, <2>1, <2>3
    <3>2. d \in 1..n /\ d+1 \in 1..b-1
      BY <1>1, <2>1
    <3> QED
      BY <1>6, <2>1, <3>1, <3>2
  <2> QED
    BY <2>2, <2>3
<1>10. ASSUME NEW a \in 1..n+1, NEW b \in 1..n+1, NEW c \in 1..n+1,
              a < b, b < c, up[s[c]] = s[a]
       PROVE  \E d \in 1..b-1 : a <= d /\ up[s[b]] = s[d]
  <2>1. b \in 2..n+1 /\ c \in 2..n+1
    BY <1>1, <1>10
  <2>2. CASE a = 1
    <3>1. PICK d \in 1..b-1 : up[s[b]] = s[d]
      BY <1>9, <2>1
    <3>2. a <= d
      BY <2>2, <3>1
    <3> QED
      BY <3>1, <3>2
  <2>3. CASE a # 1
    <3>1. a \in 2..n+1
      BY <1>1, <2>3
    <3>2. /\ a-1 \in 1..n /\ b-1 \in 1..n /\ c-1 \in 1..n
          /\ s[a] = w[a-1] /\ s[b] = w[b-1] /\ s[c] = w[c-1]
      BY <1>4, <2>1, <3>1
    <3>3. a-1 < b-1 /\ b-1 < c-1
      BY <1>1, <1>10
    <3>4. PICK d \in 1..b-1-1 : a-1 <= d /\ up[w[b-1]] = w[d]
      BY <1>5, <1>10, <3>2, <3>3
    <3>5. d \in 1..n /\ d+1 \in 1..b-1 /\ a <= d+1
      BY <1>1, <3>2, <3>4
    <3> QED
      BY <1>6, <3>2, <3>4, <3>5
  <2> QED
    BY <2>2, <2>3
<1>11. ASSUME Ascending(ch), NEW b \in 1..n+1, NEW c \in 1..n+1, b < c, up[s[b]] = up[s[c]]
       PROVE  s[b] < s[c]
  <2>1. c \in 2..n+1
    BY <1>1, <1>11
  <2>2. s[c] = w[c-1] /\ c-1 \in 1..n /\ w[c-1] \in ToSet(w)
    BY <1>4, <1>8, <2>1
  <2>3. b # 1
    BY <1>2, <1>4, <1>7, <1>11, <2>2
  <2>4. b \in 2..n+1 /\ b-1 < c-1
    BY <1>1, <1>11, <2>3
  <2>5. s[b] = w[b-1] /\ b-1 \in 1..n
    BY <1>4, <2>4
  <2> QED
    BY <1>5, <1>11, <2>2, <2>4, <2>5
<1>12. \A c \in V : up[c] \in ToSet(s) => c \in ToSet(s)
  BY <1>3, <1>5
<1>13. \A b \in 1..n+1 : s[b] \in {i} \/ \E d \in 1..b-1 : up[s[b]] = s[d]
  <2> TAKE b \in 1..n+1
  <2>1. CASE b = 1
    BY <1>4, <2>1
  <2>2. CASE b # 1
    <3>1. b \in 2..n+1
      BY <1>1, <2>2
    <3> QED
      BY <1>9, <3>1
  <2> QED
    BY <2>1, <2>2
<1>14. Wood(up, V, ch, s, {i})
  BY <1>3, <1>10, <1>11, <1>12, <1>13 DEF Wood
<1> QED
  BY <1>14 DEF s

\* Several woods in a row: blocks[k] writes the tree of roots[k], or nothing if
\* that is not visible.
RootsOf(roots, N) == { roots[k] : k \in 1..N }

Row(up, V, ch, N, roots, blocks, above) ==
  /\ \A k \in 1..N : \/ roots[k] \in V /\ up[roots[k]] = above
                        /\ Wood(up, V, ch, blocks[k], {roots[k]})
                     \/ roots[k] \notin V /\ blocks[k] = <<>>
  /\ \A j, k \in 1..N : j < k /\ roots[j] \in V => roots[j] # roots[k]
  /\ Ascending(ch) => \A j, k \in 1..N : j < k /\ roots[j] \in V /\ roots[k] \in V =>
                                  roots[j] < roots[k]

LEMMA WoodsInARow ==
  ASSUME NEW A, NEW up, NEW rank, Ranked(A, up, rank), NEW V, V \subseteq A, NEW ch,
         NEW N \in Nat, NEW roots, NEW blocks \in Seq(Seq(Slots)), Len(blocks) = N,
         NEW above, above = None \/ above \in Slots,
         Row(up, V, ch, N, roots, blocks, above)
  PROVE  Wood(up, V, ch, FlattenSeq(blocks), RootsOf(roots, N) \cap V)
<1>1. PICK f \in [0..N -> Seq(Slots)] :
        /\ f[0] = <<>>
        /\ \A k \in 1..N : f[k] = f[k-1] \o blocks[k]
        /\ FlattenSeq(blocks) = f[N]
  BY FlattenStates
<1> DEFINE T(n) == { roots[k] : k \in 1..n } \cap V
           Good == { n \in 0..N : Wood(up, V, ch, f[n], T(n)) }
<1>2. 0 \in Good
  <2>1. T(0) = {}
    OBVIOUS
  <2> HIDE DEF T
  <2>2. Wood(up, V, ch, f[0], T(0))
    BY <1>1, <2>1, NoWood
  <2> QED
    BY <2>2
<1>3. ASSUME NEW n \in 0..N-1, n \in Good PROVE n+1 \in Good
  <2>1. n+1 \in 1..N /\ n+1 \in 0..N /\ (n+1)-1 = n
    OBVIOUS
  <2>2. f[n+1] = f[n] \o blocks[n+1]
    BY <1>1, <2>1
  <2>3. Wood(up, V, ch, f[n], T(n))
    BY <1>3
  <2>4. T(n+1) = T(n) \cup ({roots[n+1]} \cap V)
    <3>1. n \in Nat
      OBVIOUS
    <3>2. \A k \in 1..n+1 : k \in 1..n \/ k = n+1
      BY <3>1
    <3>3. \A k \in 1..n : k \in 1..n+1
      BY <3>1
    <3>4. n+1 \in 1..n+1
      BY <3>1
    <3> QED
      BY <3>2, <3>3, <3>4
  <2>5. CASE roots[n+1] \in V
    <3> DEFINE r == roots[n+1]
               x == blocks[n+1]
    <3>1. up[r] = above /\ Wood(up, V, ch, x, {r})
      BY <2>1, <2>5 DEF Row
    <3>2. \A t \in T(n) : \E k \in 1..n : t = roots[k] /\ k \in 1..N /\ t \in V /\ k < n+1
      <4>1. \A k \in 1..n : k \in 1..N /\ k < n+1
        BY <2>1
      <4> QED
        BY <4>1
    <3>3. ASSUME NEW t \in T(n) PROVE up[t] = above /\ t # r /\ (Ascending(ch) => t < r)
      <4>1. PICK k \in 1..n : t = roots[k] /\ k \in 1..N /\ t \in V /\ k < n+1
        BY <3>2
      <4>2. up[t] = above
        BY <4>1 DEF Row
      <4>3. t # r
        BY <2>1, <4>1 DEF Row
      <4>4. Ascending(ch) => t < r
        BY <2>1, <2>5, <4>1 DEF Row
      <4> QED
        BY <4>2, <4>3, <4>4
    <3> HIDE DEF T, r, x
    <3>4. above \notin ToSet(f[n]) /\ above \notin ToSet(x)
      <4>1. CASE above \in Slots
        <5>1. RootsBelow(up, T(n), above)
          BY <3>3 DEF RootsBelow
        <5>2. RootsBelow(up, {r}, above)
          BY <3>1 DEF RootsBelow
        <5>3. above \notin ToSet(f[n])
          BY <2>3, <4>1, <5>1, NothingAbove
        <5>4. above \notin ToSet(x)
          BY <3>1, <4>1, <5>2, NothingAbove
        <5> QED
          BY <5>3, <5>4
      <4>2. CASE above = None
        <5>1. ToSet(f[n]) \subseteq V /\ ToSet(x) \subseteq V
          BY <2>3, <3>1, WoodParents
        <5>2. above \notin V
          BY <4>2, FileAssumption DEF Ranked, Slots
        <5> QED
          BY <5>1, <5>2
      <4> QED
        BY <4>1, <4>2
    <3>5. T(n) \cap {r} = {} /\ \A t \in T(n) \cup {r} : up[t] \notin ToSet(f[n]) \cup ToSet(x)
      BY <3>1, <3>3, <3>4
    <3>6. Ascending(ch) => \A t \in T(n), u \in {r} : up[t] = up[u] => t < u
      BY <3>3
    <3>7. Wood(up, V, ch, f[n] \o x, T(n) \cup {r})
      BY <2>3, <3>1, <3>5, <3>6, WoodsJoin
    <3>8. T(n+1) = T(n) \cup {r}
      BY <2>4, <2>5 DEF r
    <3> QED
      BY <2>1, <2>2, <3>7, <3>8 DEF x
  <2>6. CASE roots[n+1] \notin V
    <3>1. blocks[n+1] = <<>>
      BY <2>1, <2>6 DEF Row
    <3>2. f[n] \in Seq(Slots)
      BY <1>1
    <3>3. f[n+1] = f[n]
      BY <2>2, <3>1, <3>2
    <3>4. T(n+1) = T(n)
      BY <2>4, <2>6
    <3> HIDE DEF T
    <3> QED
      BY <2>1, <2>3, <3>3, <3>4
  <2> QED
    BY <2>5, <2>6
<1>4. N \in Good
  <2> HIDE DEF Good
  <2>1. 0..N \subseteq Good
    BY <1>2, <1>3, CountingUp
  <2> QED
    BY <2>1
<1> QED
  BY <1>1, <1>4 DEF RootsOf
-----------------------------------------------------------------------------
(* What is written for each entity                                         *)

\* The arrays of children say what the parents say.
Mirrored(A, up, ch) ==
  /\ ch \in [Slots -> Seq(Slots)]
  /\ \A i \in A : IsInjective(ch[i]) /\ ToSet(ch[i]) = { j \in A : up[j] = i }

\* What serialize_entity_recursive makes of entity i, given what it makes of
\* each child.
Tree(ch, V, f, i) ==
  IF i \notin V THEN <<>>
  ELSE <<i>> \o FlattenSeq([k \in 1..Len(ch[i]) |-> f[ch[i][k]]])

Grows(ch, V, f) == f \in [Slots -> Seq(Slots)] /\ \A i \in Slots : f[i] = Tree(ch, V, f, i)

LEMMA ChildLists ==
  ASSUME NEW ch \in [Slots -> Seq(Slots)], NEW f \in [Slots -> Seq(Slots)], NEW i \in Slots
  PROVE  /\ [k \in 1..Len(ch[i]) |-> f[ch[i][k]]] \in Seq(Seq(Slots))
         /\ Len([k \in 1..Len(ch[i]) |-> f[ch[i][k]]]) = Len(ch[i])
<1>1. ch[i] \in Seq(Slots) /\ Len(ch[i]) \in Nat /\ \A k \in 1..Len(ch[i]) : ch[i][k] \in Slots
  OBVIOUS
<1>2. \A k \in 1..Len(ch[i]) : f[ch[i][k]] \in Seq(Slots)
  BY <1>1
<1> QED
  BY <1>1, <1>2

LEMMA TreeType ==
  ASSUME NEW ch \in [Slots -> Seq(Slots)], NEW V, NEW f \in [Slots -> Seq(Slots)],
         NEW i \in Slots
  PROVE  Tree(ch, V, f, i) \in Seq(Slots)
<1> DEFINE w == FlattenSeq([k \in 1..Len(ch[i]) |-> f[ch[i][k]]])
<1>1. w \in Seq(Slots)
  BY ChildLists, FlattenItems
<1>2. <<i>> \o w \in Seq(Slots)
  <2> HIDE DEF w
  <2> QED
    BY <1>1
<1> QED
  BY <1>2 DEF Tree

\* What is written for an entity is the wood below it.
LEMMA TreesAreWoods ==
  ASSUME NEW A, NEW up, NEW rank, Ranked(A, up, rank), NEW ch, Mirrored(A, up, ch),
         NEW V, V \subseteq A, NEW f, Grows(ch, V, f), NEW i \in V
  PROVE  Wood(up, V, ch, f[i], {i})
<1> DEFINE S == { y \in V : ~Wood(up, V, ch, f[y], {y}) }
<1> SUFFICES ASSUME i \in S PROVE FALSE
  OBVIOUS
<1>1. PICK y \in S : \A z \in S : up[z] # y
  <2>1. S \subseteq A /\ S # {}
    OBVIOUS
  <2> HIDE DEF S
  <2> QED
    BY <2>1, Lowest
<1>2. y \in V /\ y \in A /\ y \in Slots /\ ch \in [Slots -> Seq(Slots)] /\ f \in [Slots -> Seq(Slots)]
  BY DEF Ranked, Mirrored, Grows
<1> DEFINE roots == ch[y]
           N == Len(ch[y])
           blocks == [k \in 1..N |-> f[ch[y][k]]]
<1>3. /\ roots \in Seq(Slots) /\ N \in Nat /\ DOMAIN roots = 1..N
      /\ IsInjective(roots) /\ ToSet(roots) = { j \in A : up[j] = y }
  BY <1>2 DEF Mirrored
<1>4. blocks \in Seq(Seq(Slots)) /\ Len(blocks) = N
  BY <1>2, ChildLists
<1>5. \A k \in 1..N : roots[k] \in A /\ roots[k] \in Slots /\ up[roots[k]] = y /\ blocks[k] = f[roots[k]]
  <2>1. \A k \in 1..N : roots[k] \in ToSet(roots)
    BY <1>3 DEF ToSet
  <2>2. \A k \in 1..N : blocks[k] = f[roots[k]]
    OBVIOUS
  <2> HIDE DEF roots, N, blocks
  <2> QED
    BY <1>3, <2>1, <2>2
<1> HIDE DEF roots, N, blocks
<1>6. ASSUME NEW k \in 1..N
      PROVE  \/ roots[k] \in V /\ up[roots[k]] = y /\ Wood(up, V, ch, blocks[k], {roots[k]})
             \/ roots[k] \notin V /\ blocks[k] = <<>>
  <2>1. CASE roots[k] \in V
    <3>1. roots[k] \notin S
      BY <1>1, <1>5
    <3> QED
      BY <1>5, <2>1, <3>1
  <2>2. CASE roots[k] \notin V
    <3>1. f[roots[k]] = Tree(ch, V, f, roots[k])
      BY <1>5 DEF Grows
    <3> QED
      BY <1>5, <2>2, <3>1 DEF Tree
  <2> QED
    BY <2>1, <2>2
<1>7. \A j, k \in 1..N : j < k => roots[j] # roots[k]
  BY <1>3 DEF IsInjective
<1>8. Ascending(ch) => \A j, k \in 1..N : j < k => roots[j] < roots[k]
  BY <1>2 DEF Ascending, roots, N
<1>9. Wood(up, V, ch, FlattenSeq(blocks), { roots[k] : k \in 1..N } \cap V)
  <2> HIDE DEF S
  <2>1. \A j, k \in 1..N : j < k /\ roots[j] \in V => roots[j] # roots[k]
    BY <1>7
  <2>2. Ascending(ch) => \A j, k \in 1..N : j < k /\ roots[j] \in V /\ roots[k] \in V =>
                                             roots[j] < roots[k]
    BY <1>8
  <2>3. Row(up, V, ch, N, roots, blocks, y)
    <3>1. \A k \in 1..N : \/ roots[k] \in V /\ up[roots[k]] = y
                             /\ Wood(up, V, ch, blocks[k], {roots[k]})
                          \/ roots[k] \notin V /\ blocks[k] = <<>>
      BY <1>6
    <3> QED
      BY <2>1, <2>2, <3>1 DEF Row
  <2>4. y = None \/ y \in Slots
    BY <1>2
  <2>5. Wood(up, V, ch, FlattenSeq(blocks), RootsOf(roots, N) \cap V)
    BY <1>3, <1>4, <2>3, <2>4, WoodsInARow
  <2> QED
    BY <2>5 DEF RootsOf
<1>10. { roots[k] : k \in 1..N } \cap V = { c \in V : up[c] = y }
  <2>1. { roots[k] : k \in 1..N } = ToSet(roots)
    BY <1>3 DEF ToSet
  <2> QED
    BY <1>3, <2>1
<1>11. Wood(up, V, ch, <<y>> \o FlattenSeq(blocks), {y})
  <2> HIDE DEF S
  <2> QED
    BY <1>2, <1>9, <1>10, WoodPlanted
<1>12. f[y] = <<y>> \o FlattenSeq(blocks)
  <2>1. f[y] = Tree(ch, V, f, y)
    BY <1>2 DEF Grows
  <2> QED
    BY <1>2, <2>1 DEF Tree, blocks, N
<1> QED
  BY <1>11, <1>12

\* What is written for an entity depends on what is for its children.
LEMMA TreesAgree ==
  ASSUME NEW ch, NEW V, NEW f, NEW g, NEW i,
         \A k \in 1..Len(ch[i]) : f[ch[i][k]] = g[ch[i][k]]
  PROVE  Tree(ch, V, f, i) = Tree(ch, V, g, i)
<1>1. [k \in 1..Len(ch[i]) |-> f[ch[i][k]]] = [k \in 1..Len(ch[i]) |-> g[ch[i][k]]]
  OBVIOUS
<1> QED
  BY <1>1 DEF Tree

\* The recursion down the trees is well defined: going round often enough, nothing
\* changes any more.
LEMMA GrowsDefined ==
  ASSUME NEW A, NEW up, NEW rank, Ranked(A, up, rank), NEW ch, Mirrored(A, up, ch),
         NEW V, V \subseteq A
  PROVE  \E f : Grows(ch, V, f)
<1> DEFINE N == Capacity + 2
           Lists == [Slots -> Seq(Slots)]
           base == [i \in Slots |-> <<>>]
           Round(g) == [i \in Slots |-> Tree(ch, V, g, i)]
           F == [kv \in (1..N) \X Lists |-> Round(kv[2])]
<1>1. N \in Nat /\ Capacity \in Nat /\ ch \in Lists
  BY FileAssumption DEF Mirrored
<1>2. base \in Lists
  OBVIOUS
<1>3. \A g \in Lists : Round(g) \in Lists
  <2> TAKE g \in Lists
  <2>1. \A i \in Slots : Tree(ch, V, g, i) \in Seq(Slots)
    BY <1>1, TreeType
  <2> QED
    BY <2>1
<1>4. F \in [(1..N) \X Lists -> Lists]
  <2> HIDE DEF Round, Lists
  <2> QED
    BY <1>3
<1>5. PICK f : Loops(f, N, Lists, base, F)
  <2> HIDE DEF F, Lists, base, N
  <2> QED
    BY <1>1, <1>2, <1>4, LoopDefined
<1>6. /\ f[0] = base
      /\ \A n \in 0..N : f[n] \in Lists
      /\ \A n \in 1..N : f[n] = Round(f[n-1])
  <2> HIDE DEF Round, Lists, base
  <2>1. f[0] = base /\ \A n \in 0..N : f[n] \in Lists
    BY <1>1, <1>5 DEF Loops
  <2>2. ASSUME NEW n \in 1..N PROVE f[n] = Round(f[n-1])
    <3>1. n-1 \in 0..N
      BY <1>1
    <3>2. <<n, f[n-1]>> \in (1..N) \X Lists
      BY <2>1, <3>1
    <3>3. f[n] = F[<<n, f[n-1]>>]
      BY <1>5 DEF Loops
    <3> QED
      BY <3>2, <3>3
  <2> QED
    BY <2>1, <2>2
<1>7. \A n \in 1..N : \A i \in Slots : f[n][i] = Tree(ch, V, f[n-1], i)
  <2> HIDE DEF Lists, base, N, F
  <2> QED
    BY <1>6
<1> DEFINE Settled(n) == \A i \in Slots : i \notin V \/ rank[i] > Capacity - n => f[n+1][i] = f[n][i]
           Good == { n \in 0..Capacity+1 : Settled(n) }
<1>8. \A i \in Slots : rank[i] \in 0..Capacity
  BY DEF Ranked
<1> HIDE DEF Lists, F, Round
<1>9. 0 \in Good
  <2>1. ASSUME NEW i \in Slots, i \notin V \/ rank[i] > Capacity - 0 PROVE f[0+1][i] = f[0][i]
    <3>1. i \notin V
      BY <1>1, <1>8, <2>1
    <3>2. 1 \in 1..N /\ 1-1 = 0 /\ 0+1 = 1
      BY <1>1
    <3>3. f[1][i] = Tree(ch, V, f[0], i)
      BY <1>7, <3>2
    <3>4. Tree(ch, V, f[0], i) = <<>>
      BY <3>1 DEF Tree
    <3> QED
      BY <1>6, <3>2, <3>3, <3>4
  <2> QED
    BY <1>1, <2>1
<1>10. ASSUME NEW n \in 0..Capacity, n \in Good PROVE n+1 \in Good
  <2>1. ASSUME NEW i \in Slots, i \notin V \/ rank[i] > Capacity - (n+1)
        PROVE  f[n+1+1][i] = f[n+1][i]
    <3>1. n+1 \in 1..N /\ n+1+1 \in 1..N /\ (n+1)-1 = n /\ (n+1+1)-1 = n+1
      BY <1>1
    <3>2. f[n+1][i] = Tree(ch, V, f[n], i) /\ f[n+1+1][i] = Tree(ch, V, f[n+1], i)
      BY <1>7, <3>1
    <3>3. CASE i \notin V
      BY <3>2, <3>3 DEF Tree
    <3>4. CASE i \in V
      <4>1. ASSUME NEW k \in 1..Len(ch[i]) PROVE f[n+1][ch[i][k]] = f[n][ch[i][k]]
        <5>1. ch[i] \in Seq(Slots) /\ ch[i][k] \in ToSet(ch[i])
          BY <1>1 DEF Lists, ToSet
        <5>2. ch[i][k] \in A /\ up[ch[i][k]] = i
          BY <3>4, <5>1 DEF Mirrored
        <5>3. ch[i][k] \in Slots /\ rank[i] < rank[ch[i][k]]
          BY <5>2, FileAssumption DEF Ranked, Slots
        <5>4. rank[ch[i][k]] > Capacity - n
          BY <1>1, <1>8, <2>1, <3>4, <5>3
        <5> QED
          BY <1>10, <5>3, <5>4
      <4> QED
        BY <3>2, <4>1, TreesAgree
    <3> QED
      BY <3>3, <3>4
  <2>2. n+1 \in 0..Capacity+1
    BY <1>1
  <2> QED
    BY <2>1, <2>2
<1>11. Capacity+1 \in Good
  <2> HIDE DEF Good
  <2>1. Capacity+1 \in Nat /\ 0..(Capacity+1)-1 = 0..Capacity
    BY <1>1
  <2>2. 0..Capacity+1 \subseteq Good
    BY <1>9, <1>10, <2>1, CountingUp
  <2> QED
    BY <2>1, <2>2
<1> DEFINE g == f[Capacity+1]
<1>12. g \in [Slots -> Seq(Slots)]
  BY <1>1, <1>6 DEF Lists
<1>13. ASSUME NEW i \in Slots PROVE g[i] = Tree(ch, V, g, i)
  <2>1. Capacity+1+1 \in 1..N /\ (Capacity+1+1)-1 = Capacity+1
    BY <1>1
  <2>2. f[Capacity+1+1][i] = Tree(ch, V, f[Capacity+1], i)
    BY <1>7, <2>1
  <2>3. rank[i] > Capacity - (Capacity+1)
    BY <1>1, <1>8
  <2>4. f[Capacity+1+1][i] = f[Capacity+1][i]
    BY <1>11, <2>3
  <2> QED
    BY <2>2, <2>4
<1> QED
  BY <1>12, <1>13 DEF Grows

\* A scene whose entities form a forest.
Whole(s, rank) ==
  /\ Ranked(s.alive, s.parent, rank)
  /\ Mirrored(s.alive, s.parent, s.children)
  /\ s.serializable \subseteq s.alive

\* serialize_entity_recursive writes the trees.
LEMMA WrittenGrows ==
  ASSUME NEW s, NEW rank, Whole(s, rank)
  PROVE  Grows(s.children, s.serializable, Written(s))
<1> DEFINE Steps(f) ==
             f = [i \in Slots |->
                   IF i \notin s.serializable THEN <<>>
                   ELSE <<i>> \o FlattenSeq([k \in 1..Len(s.children[i]) |-> f[s.children[i][k]]])]
           part == CHOOSE f : Steps(f)
<1>1. Written(s) = part
  BY Zenon DEF Written
<1>2. \A f : Steps(f) <=> f = [i \in Slots |-> Tree(s.children, s.serializable, f, i)]
  BY Zenon DEF Tree
<1>3. PICK g : Grows(s.children, s.serializable, g)
  BY GrowsDefined DEF Whole
<1>4. g = [i \in Slots |-> Tree(s.children, s.serializable, g, i)]
  BY <1>3 DEF Grows
<1>5. Steps(part)
  <2>1. Steps(g)
    BY <1>2, <1>4
  <2> HIDE DEF Steps
  <2> QED
    BY <2>1
<1>6. part = [i \in Slots |-> Tree(s.children, s.serializable, part, i)]
  BY <1>2, <1>5
<1> HIDE DEF part
<1>7. \A i \in Slots : part[i] = Tree(s.children, s.serializable, part, i)
  BY <1>6
<1> DEFINE ch == s.children
           V == s.serializable
           Bad == { i \in V : part[i] \notin Seq(Slots) }
<1>8. /\ V \subseteq s.alive /\ V \subseteq Slots /\ ch \in [Slots -> Seq(Slots)]
      /\ Ranked(s.alive, s.parent, rank) /\ Mirrored(s.alive, s.parent, ch)
  BY DEF Whole, Ranked, Mirrored
<1> HIDE DEF ch, V
<1>9. \A i \in Slots : part[i] = Tree(ch, V, part, i)
  BY <1>7 DEF ch, V
<1>10. \A i \in Slots \ V : part[i] = <<>>
  BY <1>9 DEF Tree
<1>11. Bad = {}
  <2> SUFFICES ASSUME Bad # {} PROVE FALSE
    OBVIOUS
  <2>1. PICK y \in Bad : \A z \in Bad : s.parent[z] # y
    <3>1. Bad \subseteq s.alive
      BY <1>8
    <3> HIDE DEF Bad
    <3> QED
      BY <1>8, <3>1, Lowest
  <2>2. y \in V /\ y \in Slots /\ y \in s.alive
    BY <1>8
  <2> DEFINE known == [i \in Slots |-> IF part[i] \in Seq(Slots) THEN part[i] ELSE <<>>]
  <2>3. known \in [Slots -> Seq(Slots)]
    OBVIOUS
  <2>4. ASSUME NEW k \in 1..Len(ch[y]) PROVE part[ch[y][k]] = known[ch[y][k]]
    <3>1. ch[y][k] \in Slots /\ ch[y][k] \in ToSet(ch[y])
      BY <1>8, <2>2 DEF ToSet
    <3>2. s.parent[ch[y][k]] = y
      BY <1>8, <2>2, <3>1 DEF Mirrored
    <3>3. ch[y][k] \notin Bad
      BY <2>1, <3>2
    <3> QED
      BY <1>10, <3>1, <3>3
  <2>5. Tree(ch, V, part, y) = Tree(ch, V, known, y)
    <3> HIDE DEF known
    <3> QED
      BY <2>4, TreesAgree
  <2>6. Tree(ch, V, known, y) \in Seq(Slots)
    <3> HIDE DEF known
    <3> QED
      BY <1>8, <2>2, <2>3, TreeType
  <2> QED
    BY <1>9, <2>1, <2>2, <2>5, <2>6
<1>12. part \in [Slots -> Seq(Slots)]
  <2>1. \A i \in Slots : part[i] \in Seq(Slots)
    <3> TAKE i \in Slots
    <3>1. CASE i \in V
      BY <1>11, <3>1
    <3>2. CASE i \notin V
      <4>1. part[i] = <<>>
        BY <1>10, <3>2
      <4> QED
        BY <4>1
    <3> QED
      BY <3>1, <3>2
  <2> QED
    BY <1>6, <2>1
<1> QED
  BY <1>1, <1>9, <1>12 DEF Grows, ch, V

\* What is saved is a wood of the entities without a parent that are visible.
LEMMA SaveOrderIsWood ==
  ASSUME NEW s, NEW rank, Whole(s, rank)
  PROVE  Wood(s.parent, s.serializable, s.children, SaveOrder(s), Roots(s) \cap s.serializable)
<1> DEFINE V == s.serializable
           f == Written(s)
           N == Capacity
           R == Roots(s) \cap V
           roots == [k \in 1..N |-> IF k-1 \in R THEN k-1 ELSE None]
           blocks == [k \in 1..N |-> IF k-1 \in Roots(s) THEN f[k-1] ELSE <<>>]
<1>1. /\ Ranked(s.alive, s.parent, rank) /\ Mirrored(s.alive, s.parent, s.children)
      /\ V \subseteq s.alive /\ s.alive \subseteq Slots
  BY DEF Whole, Ranked
<1>2. Grows(s.children, V, f)
  BY WrittenGrows
<1>3. N \in Nat /\ \A k \in 1..N : k-1 \in Slots /\ roots[k] = IF k-1 \in R THEN k-1 ELSE None
  BY FileAssumption DEF Slots
<1>4. f \in [Slots -> Seq(Slots)] /\ \A i \in Slots : i \notin V => f[i] = <<>>
  BY <1>2 DEF Grows, Tree
<1>5. blocks \in Seq(Seq(Slots)) /\ Len(blocks) = N
      /\ \A k \in 1..N : blocks[k] = IF k-1 \in Roots(s) THEN f[k-1] ELSE <<>>
  <2> HIDE DEF f
  <2>1. \A k \in 1..N : (IF k-1 \in Roots(s) THEN f[k-1] ELSE <<>>) \in Seq(Slots)
    BY <1>3, <1>4
  <2> QED
    BY <1>3, <2>1
<1>6. SaveOrder(s) = FlattenSeq(blocks)
  BY DEF SaveOrder
<1> HIDE DEF f, roots, blocks
<1>7. None \notin V
  BY <1>1, FileAssumption DEF Slots
<1>8. ASSUME NEW k \in 1..N, roots[k] \in V
      PROVE  roots[k] = k-1 /\ s.parent[roots[k]] = None
             /\ Wood(s.parent, V, s.children, blocks[k], {roots[k]})
  <2>1. k-1 \in R /\ roots[k] = k-1
    BY <1>3, <1>7, <1>8
  <2>2. s.parent[k-1] = None /\ blocks[k] = f[k-1]
    BY <1>5, <2>1 DEF Roots
  <2>3. Wood(s.parent, V, s.children, f[k-1], {k-1})
    <3>1. k-1 \in V
      BY <2>1
    <3> HIDE DEF V
    <3> QED
      BY <1>1, <1>2, <3>1, TreesAreWoods
  <2> QED
    BY <2>1, <2>2, <2>3
<1>9. ASSUME NEW k \in 1..N, roots[k] \notin V PROVE blocks[k] = <<>>
  <2>1. k-1 \notin R
    BY <1>3, <1>9
  <2> QED
    BY <1>3, <1>4, <1>5, <2>1
<1>10. Row(s.parent, V, s.children, N, roots, blocks, None)
  <2>1. \A j, k \in 1..N : j < k /\ roots[j] \in V => roots[j] # roots[k]
    <3> SUFFICES ASSUME NEW j \in 1..N, NEW k \in 1..N, j < k, roots[j] \in V, roots[j] = roots[k]
                 PROVE  FALSE
      OBVIOUS
    <3>1. j-1 = k-1
      BY <1>8
    <3>2. j \in Int /\ k \in Int
      OBVIOUS
    <3> QED
      BY <3>1, <3>2
  <2>2. \A j, k \in 1..N : j < k /\ roots[j] \in V /\ roots[k] \in V => roots[j] < roots[k]
    <3> SUFFICES ASSUME NEW j \in 1..N, NEW k \in 1..N, j < k, roots[j] \in V, roots[k] \in V
                 PROVE  roots[j] < roots[k]
      OBVIOUS
    <3>1. roots[j] = j-1 /\ roots[k] = k-1
      BY <1>8
    <3> QED
      BY <1>3, <3>1
  <2>3. ASSUME NEW k \in 1..N
        PROVE  \/ roots[k] \in V /\ s.parent[roots[k]] = None
                  /\ Wood(s.parent, V, s.children, blocks[k], {roots[k]})
               \/ roots[k] \notin V /\ blocks[k] = <<>>
    BY <1>8, <1>9
  <2> QED
    BY <2>1, <2>2, <2>3 DEF Row
<1>11. Wood(s.parent, V, s.children, FlattenSeq(blocks), RootsOf(roots, N) \cap V)
  BY <1>1, <1>3, <1>5, <1>10, WoodsInARow
<1>12. RootsOf(roots, N) \cap V = R
  <2>1. ASSUME NEW i \in R PROVE i \in RootsOf(roots, N) \cap V
    <3>1. i \in Slots
      BY <1>1
    <3>2. i+1 \in 1..N /\ (i+1)-1 = i
      BY <3>1, FileAssumption DEF Slots
    <3>3. roots[i+1] = i
      BY <1>3, <3>2
    <3> QED
      BY <3>2, <3>3 DEF RootsOf
  <2>2. ASSUME NEW i \in RootsOf(roots, N) \cap V PROVE i \in R
    BY <1>3, <1>7 DEF RootsOf
  <2> QED
    BY <2>1, <2>2
<1> QED
  BY <1>6, <1>11, <1>12
-----------------------------------------------------------------------------
(* Documents                                                               *)

\* The place in the document of the parent of the k-th entity, or 0.
Above(s, k) == EntityData(s, SaveOrder(s), SaveOrder(s)[k]).above

\* Parents come first, and what comes between an entity and its parent is below
\* that too.
Nests(N, above) ==
  /\ above \in [1..N -> 0..N]
  /\ \A k \in 1..N : above[k] < k
  /\ \A b, c \in 1..N : b < c /\ above[c] < b => above[c] <= above[b]

Aboves(s) == [k \in 1..Len(SaveOrder(s)) |-> Above(s, k)]

LEMMA OrderIsInjective ==
  ASSUME NEW s, NEW rank, Whole(s, rank)
  PROVE  /\ SaveOrder(s) \in Seq(s.serializable) /\ IsInjective(SaveOrder(s))
         /\ Len(SaveOrder(s)) \in Nat
         /\ \A k \in 1..Len(SaveOrder(s)) : SaveOrder(s)[k] \in s.serializable
BY SaveOrderIsWood DEF Wood

\* The parent that is written is the place of the parent, which comes before.
LEMMA AboveIs ==
  ASSUME NEW s, NEW rank, Whole(s, rank), NEW k \in 1..Len(SaveOrder(s))
  PROVE  \/ s.parent[SaveOrder(s)[k]] = None /\ Above(s, k) = 0
         \/ /\ s.parent[SaveOrder(s)[k]] # None
            /\ Above(s, k) \in 1..k-1
            /\ SaveOrder(s)[Above(s, k)] = s.parent[SaveOrder(s)[k]]
<1> DEFINE q == SaveOrder(s)
           N == Len(SaveOrder(s))
           V == s.serializable
           u == s.parent[q[k]]
<1>1. /\ q \in Seq(V) /\ IsInjective(q) /\ DOMAIN q = 1..N /\ N \in Nat
      /\ V \subseteq Slots /\ \A e \in 1..N : q[e] \in V
  BY OrderIsInjective DEF Whole, Ranked
<1>2. q[k] \in Roots(s) \cap V \/ \E d \in 1..k-1 : u = q[d]
  BY SaveOrderIsWood DEF Wood
<1>3. Above(s, k) = IF u = None THEN 0 ELSE CHOOSE d \in 1..N : q[d] = u
  BY DEF Above, EntityData
<1>4. CASE q[k] \in Roots(s)
  BY <1>3, <1>4 DEF Roots
<1>5. CASE \E d \in 1..k-1 : u = q[d]
  <2> HIDE DEF u, q, N, V
  <2>1. PICK d \in 1..k-1 : u = q[d]
    BY <1>5
  <2>2. d \in 1..N /\ k \in 1..N
    BY <1>1 DEF N
  <2>3. u # None
    BY <1>1, <2>1, <2>2, FileAssumption DEF Slots
  <2>4. \A e \in 1..N : q[e] = u => e = d
    BY <1>1, <2>1, <2>2 DEF IsInjective
  <2>5. (CHOOSE e \in 1..N : q[e] = u) = d
    BY <2>1, <2>2, <2>4
  <2>6. Above(s, k) = d
    BY <1>3, <2>3, <2>5
  <2> QED
    BY <2>1, <2>3, <2>6 DEF u, q
<1> QED
  BY <1>2, <1>4, <1>5

\* A document lists each entity before what is below it.
LEMMA DocNests ==
  ASSUME NEW s, NEW rank, Whole(s, rank)
  PROVE  Nests(Len(SaveOrder(s)), Aboves(s))
<1> DEFINE q == SaveOrder(s)
           N == Len(SaveOrder(s))
           up == s.parent
<1>1. N \in Nat /\ IsInjective(q) /\ DOMAIN q = 1..N
  BY OrderIsInjective
<1>2. \A k \in 1..N : Aboves(s)[k] = Above(s, k)
  BY DEF Aboves
<1>3. \A k \in 1..N : \/ up[q[k]] = None /\ Above(s, k) = 0
                      \/ up[q[k]] # None /\ Above(s, k) \in 1..k-1 /\ q[Above(s, k)] = up[q[k]]
  BY AboveIs
<1>4. \A a, b, c \in 1..N : a < b /\ b < c /\ up[q[c]] = q[a] =>
        \E d \in 1..b-1 : a <= d /\ up[q[b]] = q[d]
  BY SaveOrderIsWood DEF Wood
<1>5. \A k \in 1..N : q[k] # None
  BY OrderIsInjective, FileAssumption DEF Whole, Ranked, Slots
<1> HIDE DEF q, N, up
<1>6. \A k \in 1..N : Above(s, k) \in 0..N /\ Above(s, k) < k
  BY <1>1, <1>3
<1>7. ASSUME NEW b \in 1..N, NEW c \in 1..N, b < c, Above(s, c) < b
      PROVE  Above(s, c) <= Above(s, b)
  <2>1. CASE Above(s, c) = 0
    BY <1>1, <1>6, <2>1
  <2>2. CASE Above(s, c) # 0
    <3>1. Above(s, c) \in 1..c-1 /\ q[Above(s, c)] = up[q[c]] /\ Above(s, c) \in 1..N
      BY <1>1, <1>3, <2>2
    <3>2. PICK d \in 1..b-1 : Above(s, c) <= d /\ up[q[b]] = q[d]
      BY <1>4, <1>7, <3>1
    <3>3. d \in 1..N
      BY <1>1
    <3>4. up[q[b]] # None
      BY <1>5, <3>2, <3>3
    <3>5. q[Above(s, b)] = q[d] /\ Above(s, b) \in 1..b-1
      BY <1>3, <3>2, <3>4
    <3>6. Above(s, b) \in 1..N
      BY <1>1, <3>5
    <3>7. Above(s, b) = d
      BY <1>1, <3>3, <3>5, <3>6 DEF IsInjective
    <3> QED
      BY <3>2, <3>7
  <2> QED
    BY <2>1, <2>2
<1> QED
  <2>1. Aboves(s) \in [1..N -> 0..N]
    BY <1>6 DEF Aboves, N
  <2>2. \A k \in 1..N : Aboves(s)[k] < k
    BY <1>2, <1>6
  <2>3. \A b, c \in 1..N : b < c /\ Aboves(s)[c] < b => Aboves(s)[c] <= Aboves(s)[b]
    BY <1>2, <1>7
  <2> QED
    BY <2>1, <2>2, <2>3 DEF Nests, N

\* w is a wood whose children ascend; the entities are 0, 1, 2... and in this
\* order they nest.
Numbered(up, N, above) ==
  \A i \in 0..N-1 : up[i] = IF above[i+1] = 0 THEN None ELSE above[i+1] - 1

LEMMA WoodIsInOrder ==
  ASSUME NEW up, NEW N \in 0..Capacity, NEW ch, Ascending(ch), NEW w, NEW T,
         Wood(up, 0..N-1, ch, w, T), \A t \in T : up[t] = None,
         NEW above, Nests(N, above), Numbered(up, N, above), ToSet(w) = 0..N-1
  PROVE  Len(w) = N /\ \A k \in 1..N : w[k] = k-1
<1> DEFINE M == Len(w)
           Done == { n \in 0..M : \A j \in 1..n : w[j] = j-1 }
<1>1. /\ M \in Nat /\ DOMAIN w = 1..M /\ IsInjective(w) /\ N \in Nat
      /\ \A b \in 1..M : w[b] \in 0..N-1
  BY FileAssumption DEF Wood
<1>2. 0 \in Done
  BY <1>1
<1>3. ASSUME NEW n \in 0..M-1, n \in Done PROVE n+1 \in Done
  <2>1. n \in Nat /\ n+1 \in 1..M /\ \A j \in 1..n : w[j] = j-1 /\ j \in 1..M
    BY <1>1, <1>3
  <2>2. w[n+1] \in 0..N-1 /\ w[n+1] >= n
    <3>1. \A j \in 1..n : w[j] # w[n+1]
      BY <1>1, <2>1 DEF IsInjective
    <3>2. w[n+1] \in 0..N-1
      BY <1>1, <2>1
    <3>3. ASSUME w[n+1] < n PROVE FALSE
      <4>1. w[n+1] + 1 \in 1..n
        BY <2>1, <3>2, <3>3, <1>1
      <4>2. w[w[n+1] + 1] = w[n+1]
        BY <2>1, <3>2, <4>1
      <4> QED
        BY <3>1, <4>1, <4>2
    <3> QED
      BY <1>1, <2>1, <3>2, <3>3
  <2>3. w[n+1] = n
    <3> SUFFICES ASSUME w[n+1] # n PROVE FALSE
      OBVIOUS
    <3> DEFINE v == w[n+1]
    <3>1. v > n /\ v \in 0..N-1 /\ n \in 0..N-1 /\ v+1 \in 1..N /\ n+1 \in 1..N
      BY <1>1, <2>1, <2>2
    <3>2. PICK c \in 1..M : w[c] = n
      BY <1>1, <3>1 DEF ToSet
    <3>3. c > n+1
      <4>1. c # n+1
        BY <3>2
      <4>2. c \notin 1..n
        BY <2>1, <3>2
      <4> QED
        BY <1>1, <2>1, <4>1, <4>2
    <3>4. /\ above[n+1] \in 0..N /\ above[n+1] < n+1
          /\ above[v+1] \in 0..N /\ above[v+1] < v+1
      BY <3>1 DEF Nests
    <3>5. /\ up[n] = IF above[n+1] = 0 THEN None ELSE above[n+1] - 1
          /\ up[v] = IF above[v+1] = 0 THEN None ELSE above[v+1] - 1
      BY <3>1 DEF Numbered
    <3>6. above[v+1] < n+1 => above[v+1] <= above[n+1]
      <4>1. n+1 < v+1
        BY <3>1, <2>1
      <4> QED
        BY <3>1, <4>1 DEF Nests
    <3>7. up[v] # up[n]
      <4>1. up[w[n+1]] = up[w[c]] => w[n+1] < w[c]
        BY <1>1, <2>1, <3>3 DEF Wood
      <4> QED
        BY <4>1, <3>1, <3>2, <2>1
    <3>8. None \notin 0..N-1
      BY FileAssumption, <1>1
    <3>9. w[n+1] \in T \/ \E d \in 1..n : up[v] = w[d]
      <4>1. w[n+1] \in T \/ \E d \in 1..(n+1)-1 : up[w[n+1]] = w[d]
        BY <2>1 DEF Wood
      <4> QED
        BY <4>1, <2>1
    <3>10. up[v] = None \/ above[v+1] <= n
      <4>1. ASSUME NEW d \in 1..n, up[v] = w[d], up[v] # None PROVE above[v+1] <= n
        <5>1. w[d] = d-1
          BY <2>1
        <5> QED
          BY <5>1, <4>1, <3>5, <3>4, <2>1
      <4> QED
        BY <4>1, <3>9
    <3>11. above[v+1] <= above[n+1]
      <4>1. CASE up[v] = None
        <5>1. above[v+1] = 0
          <6>1. above[v+1] # 0 => above[v+1] - 1 \in 0..N-1
            BY <3>4, <1>1
          <6> QED
            BY <6>1, <4>1, <3>5, <3>8
        <5> QED
          BY <5>1, <3>4
      <4>2. CASE up[v] # None
        BY <4>2, <3>10, <3>6, <3>4, <2>1
      <4> QED
        BY <4>1, <4>2
    <3>12. above[n+1] # 0
      BY <3>11, <3>7, <3>5, <3>4
    <3>13. above[n+1] \in 1..n /\ w[above[n+1]] = up[n] /\ above[n+1] \in 1..M
      BY <3>12, <3>4, <3>5, <2>1
    <3>14. PICK d \in 1..n : above[n+1] <= d /\ up[v] = w[d]
      <4>1. above[n+1] < n+1 /\ n+1 < c /\ up[w[c]] = w[above[n+1]]
        BY <3>13, <3>3, <3>2, <3>4
      <4>2. \E d \in 1..(n+1)-1 : above[n+1] <= d /\ up[w[n+1]] = w[d]
        BY <4>1, <3>13, <2>1 DEF Wood
      <4> QED
        BY <4>2, <2>1
    <3>15. w[d] = d-1 /\ d-1 \in 0..N-1
      BY <2>1, <3>1
    <3>16. above[v+1] = d
      BY <3>14, <3>15, <3>5, <3>4, <3>8
    <3> QED
      BY <3>16, <3>14, <3>11, <3>7, <3>5, <3>12, <3>4
  <2> QED
    BY <2>1, <2>3
<1>4. M \in Done
  <2> HIDE DEF Done
  <2>1. 0..M \subseteq Done
    BY <1>1, <1>2, <1>3, CountingUp
  <2> QED
    BY <1>1, <2>1
<1>5. \A k \in 1..M : w[k] = k-1
  BY <1>4
<1>6. M = N
  <2>1. \A k \in 1..M : k-1 \in 0..N-1
    BY <1>1, <1>5
  <2>2. M <= N
    <3>1. M > N => M \in 1..M
      BY <1>1
    <3> QED
      BY <1>1, <2>1, <3>1
  <2>3. ASSUME M < N PROVE FALSE
    <3>1. N-1 \in ToSet(w)
      BY <2>3, <1>1
    <3>2. PICK k \in 1..M : w[k] = N-1
      BY <3>1, <1>1 DEF ToSet
    <3> QED
      BY <3>2, <1>5, <1>1, <2>3
  <2>4. M \in Nat /\ N \in Nat
    BY <1>1
  <2> HIDE DEF M
  <2> QED
    BY <2>2, <2>3, <2>4
<1> QED
  BY <1>5, <1>6

\* Everything that can be written is, where nothing is left out.
LEMMA AllWritten ==
  ASSUME NEW s, NEW rank, Whole(s, rank), s.serializable = s.alive
  PROVE  ToSet(SaveOrder(s)) = s.alive
<1> DEFINE w == SaveOrder(s)
           S == s.alive \ ToSet(w)
<1>1. Wood(s.parent, s.alive, s.children, w, Roots(s))
  <2>1. Roots(s) \cap s.alive = Roots(s)
    BY DEF Roots
  <2> QED
    BY <2>1, SaveOrderIsWood
<1>2. ToSet(w) \subseteq s.alive
  BY <1>1, WoodParents
<1>3. Ranked(s.alive, s.parent, rank)
  BY DEF Whole
<1>4. ASSUME S # {} PROVE FALSE
  <2>1. PICK y \in S : s.parent[y] \notin S
    <3>1. S \subseteq s.alive
      OBVIOUS
    <3> HIDE DEF S
    <3> QED
      BY <1>3, <1>4, <3>1, Highest
  <2>2. s.parent[y] = None \/ s.parent[y] \in s.alive
    BY <1>3, <2>1 DEF Ranked
  <2>3. CASE s.parent[y] = None
    <3>1. y \in Roots(s)
      BY <2>1, <2>3 DEF Roots
    <3> QED
      BY <1>1, <2>1, <3>1 DEF Wood
  <2>4. CASE s.parent[y] \in s.alive
    <3>1. s.parent[y] \in ToSet(w)
      BY <2>1, <2>4
    <3> QED
      BY <1>1, <2>1, <3>1 DEF Wood
  <2> QED
    BY <2>2, <2>3, <2>4
<1> QED
  BY <1>2, <1>4

-----------------------------------------------------------------------------
(* What is saved                                                           *)

\* A component with its data, as it is or in a placeholder, of a document and
\* of the entity in slot i.
Plain == [type : Type, origin : Slots]

Kept == Plain \cup [type : {Placeholder}, original : Plain]

KeptIn(i) == { c \in Kept : Unwrapped(c).origin = i }

\* The scene that was saved: its entities form trees, which its arrays of
\* children agree with, and its components know where they are.
SavedIsWhole ==
  /\ \E rank : Whole(saved, rank)
  /\ \A i \in saved.alive : /\ saved.uuid[i] = i
                            /\ saved.components[i] \in Seq(KeptIn(i))
  /\ saved.layer_name \in {None, Name}
  /\ from_python => Roots(saved) \cap saved.serializable # {}

\* What a document has of an entity, and the place of the parent of each.
EntityDatum == [uuid : Slots, above : Nat, components : Seq(Kept)]

Links == [k \in 1..Len(doc.entities) |-> doc.entities[k].above]

\* The document that is loaded.
DocumentNests ==
  /\ doc.entities \in Seq(EntityDatum)
  /\ \A k \in 1..Len(doc.entities) : \A j \in 1..Len(doc.entities[k].components) :
       Unwrapped(doc.entities[k].components[j]).origin = doc.entities[k].uuid
  /\ Nests(Len(doc.entities), Links)
  /\ from_python => Len(doc.entities) > 0

\* A component in a placeholder or not is what it was.
LEMMA WrappedIs ==
  ASSUME NEW c \in Plain, NEW lost
  PROVE  Wrapped(c, lost) \in Kept /\ Unwrapped(Wrapped(c, lost)) = c
<1>1. c.type # Placeholder
  BY FileAssumption DEF Plain
<1>2. CASE c.type \in lost
  <2>1. Wrapped(c, lost) = [type |-> Placeholder, original |-> c]
    BY <1>2 DEF Wrapped
  <2> QED
    BY <2>1 DEF Kept, Unwrapped
<1>3. CASE c.type \notin lost
  BY <1>1, <1>3 DEF Wrapped, Kept, Unwrapped
<1> QED
  BY <1>2, <1>3

\* The scenes there are to save are whole.
LEMMA SavedAtFirst == ASSUME FileInit PROVE SavedIsWhole
<1>1. PICK up \in Forests :
        \E below \in ChildArrays(up), visible \in SUBSET Nodes,
           named \in {None, Name}, types \in [Nodes -> Contents], lost \in SUBSET Type :
          saved = SavedScene(up, below, visible,
            [i \in Nodes |->
               [j \in 1..Len(types[i]) |-> Wrapped([type |-> types[i][j], origin |-> i], lost)]],
            named)
  BY DEF FileInit
<1>0. PICK below \in ChildArrays(up), visible \in SUBSET Nodes,
           named \in {None, Name}, types \in [Nodes -> Contents], lost \in SUBSET Type :
          saved = SavedScene(up, below, visible,
            [i \in Nodes |->
               [j \in 1..Len(types[i]) |-> Wrapped([type |-> types[i][j], origin |-> i], lost)]],
            named)
  BY <1>1
<1> DEFINE held == [i \in Nodes |->
             [j \in 1..Len(types[i]) |-> Wrapped([type |-> types[i][j], origin |-> i], lost)]]
<1>2. /\ saved.alive = Nodes /\ saved.serializable = visible
      /\ saved.uuid = [i \in Slots |-> i] /\ saved.layer_name \in {None, Name}
      /\ saved.parent = [i \in Slots |-> IF i \in Nodes THEN up[i] ELSE None]
      /\ saved.children = [i \in Slots |-> IF i \in Nodes THEN below[i] ELSE <<>>]
      /\ saved.components = [i \in Slots |-> IF i \in Nodes THEN held[i] ELSE <<>>]
  BY <1>0 DEF SavedScene
<1>3. Nodes \subseteq Slots /\ None \notin Slots
  BY FileAssumption DEF Slots
<1>4. Cardinality(Nodes) \in Nat
  <2>1. IsFiniteSet(Slots)
    BY FileAssumption, FS_Interval DEF Slots
  <2>2. IsFiniteSet(Nodes)
    BY <1>3, <2>1, FS_Subset
  <2> QED
    BY <2>2, FS_CardinalityType
<1>5. PICK depth \in [Nodes -> Nodes] : \A i \in Nodes : up[i] # None => depth[up[i]] < depth[i]
  BY DEF Forests
<1>6. up \in [Nodes -> Nodes \cup {None}]
  BY DEF Forests
<1> DEFINE rank == [i \in Slots |-> IF i \in Nodes THEN depth[i] ELSE 0]
<1>7. Ranked(saved.alive, saved.parent, rank)
  <2>1. rank \in [Slots -> 0..Capacity]
    <3>1. Nodes \subseteq 0..Capacity /\ 0 \in 0..Capacity
      BY FileAssumption
    <3>2. \A i \in Nodes : depth[i] \in Nodes
      BY <1>5
    <3>3. \A i \in Slots : (IF i \in Nodes THEN depth[i] ELSE 0) \in 0..Capacity
      BY <3>1, <3>2
    <3> QED
      BY <3>3
  <2>2. ASSUME NEW j \in Nodes, saved.parent[j] # None
        PROVE  saved.parent[j] \in Nodes /\ rank[saved.parent[j]] < rank[j]
    <3>1. saved.parent[j] = up[j] /\ up[j] \in Nodes
      BY <1>2, <1>3, <1>6, <2>2
    <3>2. depth[up[j]] < depth[j]
      BY <1>5, <2>2, <3>1
    <3> QED
      BY <1>3, <3>1, <3>2
  <2> HIDE DEF rank
  <2>3. saved.alive = Nodes /\ Nodes \subseteq Slots
    BY <1>2, <1>3
  <2>4. \A j \in Nodes : \/ saved.parent[j] = None
                         \/ saved.parent[j] \in Nodes /\ rank[saved.parent[j]] < rank[j]
    BY <2>2
  <2> QED
    BY <2>1, <2>3, <2>4 DEF Ranked
<1>8. ASSUME NEW i \in Nodes
      PROVE  /\ below[i] \in Seq(Slots) /\ IsInjective(below[i])
             /\ ToSet(below[i]) = { j \in Nodes : up[j] = i }
  <2>1. below[i] \in SeqOf(Nodes, Cardinality(Nodes)) /\ IsInjective(below[i])
        /\ ToSet(below[i]) = { j \in Nodes : up[j] = i }
    BY DEF ChildArrays
  <2>2. PICK m \in 0..Cardinality(Nodes) : below[i] \in [1..m -> Nodes]
    BY <2>1 DEF SeqOf
  <2>3. m \in Nat /\ below[i] \in [1..m -> Slots]
    BY <1>3, <1>4, <2>2
  <2> QED
    BY <2>1, <2>3
<1>9. Mirrored(saved.alive, saved.parent, saved.children)
  <2>1. saved.children \in [Slots -> Seq(Slots)]
    <3>1. \A i \in Slots : (IF i \in Nodes THEN below[i] ELSE <<>>) \in Seq(Slots)
      BY <1>8
    <3> QED
      BY <1>2, <3>1
  <2>2. ASSUME NEW i \in Nodes
        PROVE  /\ IsInjective(saved.children[i])
               /\ ToSet(saved.children[i]) = { j \in Nodes : saved.parent[j] = i }
    <3>1. saved.children[i] = below[i]
      BY <1>2, <1>3
    <3>2. \A j \in Nodes : saved.parent[j] = up[j]
      BY <1>2, <1>3
    <3>3. { j \in Nodes : up[j] = i } = { j \in Nodes : saved.parent[j] = i }
      BY <3>2
    <3> QED
      BY <1>8, <3>1, <3>3
  <2> QED
    BY <1>2, <2>1, <2>2 DEF Mirrored
<1>10. Whole(saved, rank)
  BY <1>2, <1>7, <1>9 DEF Whole
<1>11. ASSUME NEW i \in Nodes
       PROVE  saved.uuid[i] = i /\ saved.components[i] \in Seq(KeptIn(i))
  <2>1. types[i] \in Seq(Type)
    BY FileAssumption
  <2>2. Len(types[i]) \in Nat /\ \A j \in 1..Len(types[i]) : types[i][j] \in Type
    BY <2>1
  <2>3. \A j \in 1..Len(types[i]) : Wrapped([type |-> types[i][j], origin |-> i], lost) \in KeptIn(i)
    <3>1. TAKE j \in 1..Len(types[i])
    <3>2. [type |-> types[i][j], origin |-> i] \in Plain
      BY <1>3, <2>2 DEF Plain
    <3> QED
      BY <3>2, WrappedIs DEF KeptIn
  <2>4. held[i] \in Seq(KeptIn(i))
    BY <2>2, <2>3
  <2>5. saved.components[i] = held[i]
    <3> HIDE DEF held
    <3> QED
      BY <1>2, <1>3
  <2>6. saved.uuid[i] = i
    BY <1>2, <1>3
  <2> QED
    BY <2>4, <2>5, <2>6
<1>12. from_python => Roots(saved) \cap saved.serializable # {}
  BY DEF FileInit
<1> QED
  BY <1>2, <1>10, <1>11, <1>12 DEF SavedIsWhole

\* The document of a whole scene nests.
LEMMA DocumentIs == ASSUME SavedIsWhole PROVE DocumentNests
<1> DEFINE q == SaveOrder(saved)
           N == Len(SaveOrder(saved))
<1>1. PICK rank : Whole(saved, rank)
  BY DEF SavedIsWhole
<1>2. N \in Nat /\ \A k \in 1..N : q[k] \in saved.serializable
  BY <1>1, OrderIsInjective
<1>3. saved.serializable \subseteq saved.alive /\ saved.alive \subseteq Slots
  BY <1>1 DEF Whole, Ranked
<1>4. doc.entities = [k \in 1..N |-> EntityData(saved, q, q[k])]
  BY Zenon DEF doc, Save
<1>5. ASSUME NEW k \in 1..N
      PROVE  /\ EntityData(saved, q, q[k]) \in EntityDatum
             /\ \A j \in 1..Len(EntityData(saved, q, q[k]).components) :
                  Unwrapped(EntityData(saved, q, q[k]).components[j]).origin
                    = EntityData(saved, q, q[k]).uuid
  <2> DEFINE d == EntityData(saved, q, q[k])
  <2>1. q[k] \in saved.alive /\ q[k] \in Slots
    BY <1>2, <1>3
  <2>2. /\ saved.uuid[q[k]] = q[k]
        /\ saved.components[q[k]] \in Seq(KeptIn(q[k]))
    BY <2>1 DEF SavedIsWhole
  <2>3. Above(saved, k) = d.above /\ d.uuid = q[k] /\ d.components = saved.components[q[k]]
    BY <2>2 DEF EntityData, Above
  <2>4. Above(saved, k) \in Nat
    BY <1>1, <1>2, AboveIs
  <2>5. /\ DOMAIN d = {"uuid", "above", "components"}
        /\ d = [uuid |-> d.uuid, above |-> d.above, components |-> d.components]
    BY DEF EntityData
  <2> DEFINE Here == KeptIn(q[k])
             held == saved.components[q[k]]
  <2>6. held \in Seq(Here) /\ Here \subseteq Kept /\ \A c \in Here : Unwrapped(c).origin = q[k]
    BY <2>2 DEF KeptIn
  <2>7. held \in Seq(Kept) /\ \A j \in 1..Len(held) : Unwrapped(held[j]).origin = q[k]
    <3> HIDE DEF held, Here
    <3> QED
      BY <2>6
  <2> HIDE DEF d
  <2>8. d \in EntityDatum
    BY <2>3, <2>4, <2>5, <2>7, <2>1 DEF EntityDatum
  <2> QED
    BY <2>3, <2>7, <2>8 DEF d
<1>6. doc.entities \in Seq(EntityDatum) /\ Len(doc.entities) = N
  <2>1. \A k \in 1..N : EntityData(saved, q, q[k]) \in EntityDatum
    BY <1>5
  <2> QED
    BY <2>1, <1>2, <1>4
<1>7. \A k \in 1..N : doc.entities[k] = EntityData(saved, q, q[k])
  BY <1>4
<1>8. Links = Aboves(saved)
  <2>1. \A k \in 1..N : doc.entities[k].above = Above(saved, k)
    BY <1>7 DEF Above
  <2> QED
    BY <1>6, <2>1 DEF Links, Aboves
<1>9. Nests(N, Links)
  BY <1>1, <1>8, DocNests
<1>10. from_python => N > 0
  <2>1. Wood(saved.parent, saved.serializable, saved.children, q, Roots(saved) \cap saved.serializable)
    BY <1>1, SaveOrderIsWood
  <2>2. ASSUME from_python PROVE ToSet(q) # {}
    BY <2>1, <2>2 DEF Wood, SavedIsWhole
  <2>3. q \in Seq(saved.serializable)
    BY <2>1 DEF Wood
  <2>4. ToSet(q) # {} => N > 0
    BY <1>2, <2>3 DEF ToSet
  <2> QED
    BY <2>2, <2>4
<1> QED
  BY <1>5, <1>6, <1>7, <1>9, <1>10 DEF DocumentNests

-----------------------------------------------------------------------------
(* The scene that is loaded                                                *)

\* The uuids that entities of the loaded scene can have.
SceneUuid == Slots \cup {None, Fresh}

\* What a component of the loaded scene is: one of a known type, which has no
\* data before it is filled, or a placeholder.
Component ==
  [type : Type, origin : Slots \cup {None}]
    \cup [type : {Placeholder}, original : [type : Type, origin : Slots]]

Scenes ==
  [alive : SUBSET Slots, generations : [Slots -> Nat], free_stack : Seq(Slots),
   uuid : [Slots -> SceneUuid], parent : [Slots -> Slots \cup {None}],
   children : [Slots -> Seq(Slots)], components : [Slots -> Seq(Component)],
   serializable : SUBSET Slots, layer_name : {None, Name}]

\* No slot is twice on the free stack, and none that is taken.
FreeSlots(s) == IsInjective(s.free_stack) /\ ToSet(s.free_stack) \cap s.alive = {}

LEMMA EmptySceneIs == EmptyScene \in Scenes /\ FreeSlots(EmptyScene)
<1> DEFINE free == [k \in 1..Capacity |-> Capacity - k]
<1>1. free \in Seq(Slots) /\ IsInjective(free)
  <2>1. \A k \in 1..Capacity : Capacity - k \in Slots
    BY FileAssumption DEF Slots
  <2>2. free \in [1..Capacity -> Slots]
    BY <2>1
  <2>3. free \in Seq(Slots)
    BY <2>2, FileAssumption
  <2>4. \A j, k \in 1..Capacity : free[j] = free[k] => j = k
    BY FileAssumption
  <2> QED
    BY <2>2, <2>3, <2>4 DEF IsInjective
<1>2. ToSet(free) \cap {} = {}
  OBVIOUS
<1>3. /\ [i \in Slots |-> <<>>] \in [Slots -> Seq(Slots)]
      /\ [i \in Slots |-> <<>>] \in [Slots -> Seq(Component)]
      /\ [i \in Slots |-> 0] \in [Slots -> Nat]
      /\ [i \in Slots |-> None] \in [Slots -> SceneUuid]
      /\ [i \in Slots |-> None] \in [Slots -> Slots \cup {None}]
  BY DEF SceneUuid
<1> HIDE DEF free
<1>4. EmptyScene = [alive |-> {}, generations |-> [i \in Slots |-> 0], free_stack |-> free,
         uuid |-> [i \in Slots |-> None], parent |-> [i \in Slots |-> None],
         children |-> [i \in Slots |-> <<>>], components |-> [i \in Slots |-> <<>>],
         serializable |-> {}, layer_name |-> None]
  BY Zenon DEF EmptyScene, free
<1> QED
  BY <1>1, <1>2, <1>3, <1>4 DEF Scenes, FreeSlots

\* A new entity comes into a slot of its own, with nothing in it.
EntityMade(s, u, i, t) ==
  /\ i \in Slots /\ i \notin s.alive
  /\ t \in Scenes /\ FreeSlots(t)
  /\ t.alive = s.alive \cup {i} /\ t.generations = s.generations
  /\ t.uuid = [s.uuid EXCEPT ![i] = u]
  /\ t.parent = [s.parent EXCEPT ![i] = None]
  /\ t.children = [s.children EXCEPT ![i] = <<>>]
  /\ t.components = [s.components EXCEPT ![i] = <<>>]
  /\ t.serializable = s.serializable \cup {i} /\ t.layer_name = s.layer_name
  /\ t.free_stack = Front(s.free_stack)

LEMMA NewEntity ==
  ASSUME NEW s \in Scenes, FreeSlots(s), s.free_stack # <<>>, NEW u \in SceneUuid,
         NEW i, i = Last(s.free_stack), NEW t, t = WithEntity(s, u)
  PROVE  EntityMade(s, u, i, t)
<1>1. /\ s.alive \subseteq Slots /\ s.free_stack \in Seq(Slots)
      /\ s.generations \in [Slots -> Nat] /\ s.uuid \in [Slots -> SceneUuid]
      /\ s.parent \in [Slots -> Slots \cup {None}] /\ s.children \in [Slots -> Seq(Slots)]
      /\ s.components \in [Slots -> Seq(Component)] /\ s.serializable \subseteq Slots
      /\ s.layer_name \in {None, Name}
  BY DEF Scenes
<1>2. /\ i \in ToSet(s.free_stack) /\ Front(s.free_stack) \in Seq(Slots)
      /\ ToSet(Front(s.free_stack)) = ToSet(s.free_stack) \ {i}
      /\ IsInjective(Front(s.free_stack))
  BY <1>1, FrontItems DEF FreeSlots
<1>3. i \in Slots /\ i \notin s.alive
  <2>1. ToSet(s.free_stack) \subseteq Slots
    BY <1>1 DEF ToSet
  <2> QED
    BY <2>1, <1>2 DEF FreeSlots
<1>4. t = [alive |-> s.alive \cup {i}, generations |-> s.generations,
           free_stack |-> Front(s.free_stack),
           uuid |-> [s.uuid EXCEPT ![i] = u], parent |-> [s.parent EXCEPT ![i] = None],
           children |-> [s.children EXCEPT ![i] = <<>>],
           components |-> [s.components EXCEPT ![i] = <<>>],
           serializable |-> s.serializable \cup {i}, layer_name |-> s.layer_name]
  BY DEF WithEntity, Scenes
<1>5. /\ [s.uuid EXCEPT ![i] = u] \in [Slots -> SceneUuid]
      /\ [s.parent EXCEPT ![i] = None] \in [Slots -> Slots \cup {None}]
      /\ [s.children EXCEPT ![i] = <<>>] \in [Slots -> Seq(Slots)]
      /\ [s.components EXCEPT ![i] = <<>>] \in [Slots -> Seq(Component)]
  <2>1. None \in Slots \cup {None} /\ <<>> \in Seq(Slots) /\ <<>> \in Seq(Component)
    OBVIOUS
  <2> DEFINE Lists == Seq(Component)
  <2> HIDE DEF Lists
  <2> QED
    BY <1>1, <2>1 DEF Lists
<1>6. t \in Scenes
  BY <1>1, <1>2, <1>3, <1>4, <1>5 DEF Scenes
<1>7. FreeSlots(t)
  BY <1>2, <1>4 DEF FreeSlots
<1> QED
  BY <1>3, <1>4, <1>6, <1>7 DEF EntityMade

\* t is s but for its links.
Relinked(s, t) ==
  /\ t \in Scenes
  /\ t.alive = s.alive /\ t.generations = s.generations
  /\ t.free_stack = s.free_stack /\ t.uuid = s.uuid /\ t.components = s.components
  /\ t.serializable = s.serializable /\ t.layer_name = s.layer_name

\* t has i as the last child of up.
LinkAdded(s, i, up, t) ==
  /\ t.parent = [s.parent EXCEPT ![i] = up]
  /\ t.children = [s.children EXCEPT ![up] = Append(s.children[up], i)]

\* set_parent only links.
LEMMA Linked ==
  ASSUME NEW s \in Scenes, NEW i \in Slots, NEW up \in Slots
  PROVE  Relinked(s, WithParent(s, i, up)) /\ LinkAdded(s, i, up, WithParent(s, i, up))
<1> DEFINE t == WithParent(s, i, up)
<1>1. s.children \in [Slots -> Seq(Slots)] /\ s.parent \in [Slots -> Slots \cup {None}]
  BY DEF Scenes
<1>2. t = [s EXCEPT !.parent = [s.parent EXCEPT ![i] = up],
                    !.children = [s.children EXCEPT ![up] = Append(s.children[up], i)]]
  BY DEF WithParent, Scenes
<1>3. /\ [s.parent EXCEPT ![i] = up] \in [Slots -> Slots \cup {None}]
      /\ [s.children EXCEPT ![up] = Append(s.children[up], i)] \in [Slots -> Seq(Slots)]
  BY <1>1
<1> HIDE DEF t
<1>4. Relinked(s, t)
  BY <1>2, <1>3 DEF Scenes, Relinked
<1>5. LinkAdded(s, i, up, t)
  BY <1>2 DEF Scenes, LinkAdded
<1> QED
  BY <1>4, <1>5 DEF t

\* Freeing empties the slot, whose generation moves on, and lets go of what is
\* below the entity.
EntityFreed(s, i, t) ==
  /\ i \in Slots
  /\ t \in Scenes /\ FreeSlots(t)
  /\ t.alive = s.alive \ {i} /\ t.uuid = s.uuid
  /\ t.generations = [s.generations EXCEPT ![i] = s.generations[i] + 1]
  /\ t.components = [s.components EXCEPT ![i] = <<>>]
  /\ t.parent = [j \in Slots |-> IF j \in ToSet(s.children[i]) THEN None ELSE s.parent[j]]
  /\ t.children = [j \in Slots |-> IF j = i THEN <<>> ELSE SwapRemove(s.children[j], i)]

LEMMA FreedEntity ==
  ASSUME NEW s \in Scenes, FreeSlots(s), NEW i \in s.alive, NEW t, t = WithoutEntity(s, i)
  PROVE  EntityFreed(s, i, t)
<1>1. /\ s.alive \subseteq Slots /\ s.free_stack \in Seq(Slots)
      /\ s.generations \in [Slots -> Nat] /\ s.uuid \in [Slots -> SceneUuid]
      /\ s.parent \in [Slots -> Slots \cup {None}] /\ s.children \in [Slots -> Seq(Slots)]
      /\ s.components \in [Slots -> Seq(Component)] /\ s.serializable \subseteq Slots
      /\ s.layer_name \in {None, Name}
  BY DEF Scenes
<1>2. i \in Slots /\ i \notin ToSet(s.free_stack)
  BY <1>1 DEF FreeSlots
<1>3. /\ Append(s.free_stack, i) \in Seq(Slots) /\ IsInjective(Append(s.free_stack, i))
      /\ ToSet(Append(s.free_stack, i)) = ToSet(s.free_stack) \cup {i}
  BY <1>1, <1>2, AppendItems DEF FreeSlots
<1> DEFINE parent == [j \in Slots |-> IF j \in ToSet(s.children[i]) THEN None ELSE s.parent[j]]
           children == [j \in Slots |-> IF j = i THEN <<>> ELSE SwapRemove(s.children[j], i)]
<1>4. parent = [j \in Slots |-> IF Contains(s.children[i], j) THEN None ELSE s.parent[j]]
  <2>1. \A j \in Slots : Contains(s.children[i], j) <=> j \in ToSet(s.children[i])
    BY <1>1, <1>2, ContainsIsMembership
  <2> QED
    BY <2>1
<1>5. parent \in [Slots -> Slots \cup {None}] /\ children \in [Slots -> Seq(Slots)]
  <2>1. \A j \in Slots : SwapRemove(s.children[j], i) \in Seq(Slots)
    BY <1>1, SwapRemoveType
  <2> QED
    BY <1>1, <2>1
<1> HIDE DEF parent, children
<1>6. t = [alive |-> s.alive \ {i},
           generations |-> [s.generations EXCEPT ![i] = s.generations[i] + 1],
           free_stack |-> Append(s.free_stack, i), uuid |-> s.uuid, parent |-> parent,
           children |-> children, components |-> [s.components EXCEPT ![i] = <<>>],
           serializable |-> s.serializable \ {i}, layer_name |-> s.layer_name]
  BY <1>4 DEF WithoutEntity, Scenes, children
<1>7. /\ [s.generations EXCEPT ![i] = s.generations[i] + 1] \in [Slots -> Nat]
      /\ [s.components EXCEPT ![i] = <<>>] \in [Slots -> Seq(Component)]
  BY <1>1
<1>8. t \in Scenes
  BY <1>1, <1>3, <1>5, <1>6, <1>7 DEF Scenes
<1>9. FreeSlots(t)
  BY <1>3, <1>6 DEF FreeSlots
<1> QED
  BY <1>2, <1>6, <1>8, <1>9 DEF parent, children, EntityFreed

-----------------------------------------------------------------------------
(* The steps of a load, and what returns                                   *)

Handles == [index : Slots, generation : Nat]

\* No more handles than entities in the document.
Loading ==
  /\ entities \in Seq(Handles)
  /\ Len(entities) <= Len(doc.entities)

\* A document that nests, entity by entity.
LEMMA LinksAre ==
  ASSUME DocumentNests
  PROVE  /\ Len(doc.entities) \in Nat
         /\ \A k \in 1..Len(doc.entities) : /\ doc.entities[k] \in EntityDatum
                                            /\ doc.entities[k].above = Links[k]
                                            /\ Links[k] \in 0..k-1
<1>1. Len(doc.entities) \in Nat
  BY DEF DocumentNests
<1>2. ASSUME NEW k \in 1..Len(doc.entities)
      PROVE  doc.entities[k] \in EntityDatum /\ doc.entities[k].above = Links[k]
  BY DEF DocumentNests, Links
<1>3. ASSUME NEW k \in 1..Len(doc.entities) PROVE Links[k] \in 0..k-1
  <2>1. Links[k] \in 0..Len(doc.entities) /\ Links[k] < k
    BY DEF DocumentNests, Nests
  <2> QED
    BY <1>1, <2>1
<1> QED
  BY <1>1, <1>2, <1>3

\* Hanging an entity changes only links.
LEMMA HungIs ==
  ASSUME DocumentNests, Loading, NEW s \in Scenes, NEW j \in 1..Len(entities)
  PROVE  Relinked(s, Hung(s, j))
<1>1. /\ Len(entities) \in Nat /\ Len(doc.entities) \in Nat
      /\ j \in 1..Len(doc.entities) /\ entities[j] \in Handles
  BY LinksAre DEF Loading
<1>2. doc.entities[j].above \in 0..j-1
  BY <1>1, LinksAre
<1>3. CASE \/ doc.entities[j].above = 0
           \/ ~Valid(s, entities[j]) \/ ~Valid(s, entities[doc.entities[j].above])
  BY <1>3, Zenon DEF Hung, Relinked
<1>4. CASE ~(\/ doc.entities[j].above = 0
             \/ ~Valid(s, entities[j]) \/ ~Valid(s, entities[doc.entities[j].above]))
  <2> DEFINE up == doc.entities[j].above
             x == entities[j].index
             y == entities[up].index
  <2>1. Hung(s, j) = WithParent(s, x, y)
    BY <1>4, Zenon DEF Hung
  <2>2. up \in 1..Len(entities)
    BY <1>1, <1>2, <1>4
  <2>3. x \in Slots /\ y \in Slots
    <3> HIDE DEF up
    <3>1. entities[up] \in Handles
      BY <2>2 DEF Loading
    <3> QED
      BY <1>1, <3>1 DEF Handles
  <2> HIDE DEF x, y
  <2>4. Relinked(s, WithParent(s, x, y))
    BY <2>3, Linked
  <2> QED
    BY <2>1, <2>4
<1> QED
  BY <1>3, <1>4

\* What the calls that return make of the scene, one by one.
LEMMA Returned ==
  ASSUME DocumentNests, Loading, scene \in Scenes, NEW k \in 0..Len(entities)
  PROVE  \E after \in [0..k -> Scenes] :
           /\ after[0] = scene
           /\ \A m \in 1..k :
                /\ k+1-m \in Returning(k) => after[m] = Hung(after[m-1], k+1-m)
                /\ k+1-m \notin Returning(k) => after[m] = after[m-1]
                /\ Relinked(after[m-1], after[m])
           /\ AfterReturns(k) = after[k]
<1> DEFINE Step(m, s) == IF k+1-m \in Returning(k) THEN Hung(s, k+1-m) ELSE s
           F == [kv \in (1..k) \X Scenes |-> Step(kv[1], kv[2])]
           Steps(g) == g = [m \in 0..k |->
                              IF m = 0 THEN scene
                              ELSE IF k+1-m \in Returning(k) THEN Hung(g[m-1], k+1-m) ELSE g[m-1]]
           after == CHOOSE g : Steps(g)
<1>1. k \in Nat /\ Len(entities) \in Nat
  BY DEF Loading
<1>2. ASSUME NEW m \in 1..k, NEW s \in Scenes PROVE Relinked(s, Step(m, s))
  <2>1. k+1-m \in 1..Len(entities)
    BY <1>1
  <2>2. Relinked(s, Hung(s, k+1-m)) /\ Relinked(s, s)
    BY <2>1, HungIs DEF Relinked
  <2> QED
    BY <2>2
<1>3. F \in [(1..k) \X Scenes -> Scenes]
  <2>1. \A m \in 1..k, s \in Scenes : Step(m, s) \in Scenes
    BY <1>2 DEF Relinked
  <2> HIDE DEF Step
  <2> QED
    BY <2>1
<1>4. \A m \in 1..k, s \in Scenes : F[<<m, s>>] = Step(m, s)
  <2> HIDE DEF Step
  <2> QED
    OBVIOUS
<1> HIDE DEF F
<1>5. PICK f : Loops(f, k, Scenes, scene, F)
  BY <1>1, <1>3, LoopDefined
<1>6. f \in [0..k -> Scenes] /\ f[0] = scene /\ \A m \in 1..k : f[m] = F[<<m, f[m-1]>>]
  BY <1>5 DEF Loops
<1>7. \A m \in 1..k : m-1 \in 0..k /\ f[m-1] \in Scenes
  BY <1>1, <1>6
<1>8. \A m \in 1..k : f[m] = Step(m, f[m-1])
  <2> HIDE DEF Step
  <2> QED
    BY <1>4, <1>6, <1>7
<1>9. Steps(f)
  <2>1. \A m \in 0..k : f[m] = IF m = 0 THEN scene ELSE Step(m, f[m-1])
    <3> HIDE DEF Step
    <3>1. \A m \in 0..k : m = 0 \/ m \in 1..k
      BY <1>1
    <3> QED
      BY <1>6, <1>8, <3>1
  <2> QED
    BY <1>6, <2>1
<1>10. Steps(after)
  <2> HIDE DEF Steps
  <2> QED
    BY <1>9
<1>11. AfterReturns(k) = after[k]
  BY Zenon DEF AfterReturns
<1> HIDE DEF after
<1>12. after[0] = scene /\ \A m \in 1..k : after[m] = Step(m, after[m-1])
  <2>1. 0 \in 0..k /\ \A m \in 1..k : m \in 0..k /\ m # 0
    BY <1>1
  <2> QED
    BY <1>10, <2>1
<1> HIDE DEF Step
<1> DEFINE Same == { m \in 0..k : after[m] \in Scenes }
<1>13. 0..k \subseteq Same
  <2>1. 0 \in Same
    BY <1>1, <1>12
  <2>2. ASSUME NEW m \in 0..k-1, m \in Same PROVE m+1 \in Same
    <3>1. m+1 \in 1..k /\ (m+1)-1 = m /\ after[m] \in Scenes
      BY <1>1, <2>2
    <3>2. Relinked(after[m], Step(m+1, after[m]))
      BY <1>2, <3>1
    <3>3. after[m+1] = Step(m+1, after[m])
      BY <1>12, <3>1
    <3> QED
      BY <3>1, <3>2, <3>3, <1>1 DEF Relinked
  <2> HIDE DEF Same
  <2> QED
    BY <1>1, <2>1, <2>2, CountingUp
<1>14. \A m \in 1..k : m-1 \in 0..k
  BY <1>1
<1>15. \A m \in 1..k : Relinked(after[m-1], after[m])
  BY <1>2, <1>12, <1>13, <1>14
<1>16. after \in [0..k -> Scenes]
  <2>1. after = [m \in 0..k |-> after[m]]
    BY <1>10
  <2> QED
    BY <2>1, <1>13
<1> QED
  <2>1. \A m \in 1..k : /\ k+1-m \in Returning(k) => after[m] = Hung(after[m-1], k+1-m)
                        /\ k+1-m \notin Returning(k) => after[m] = after[m-1]
    BY <1>12, Zenon DEF Step
  <2> QED
    BY <1>11, <1>12, <1>15, <1>16, <2>1

-----------------------------------------------------------------------------
(* The invariant of a load                                                 *)

\* The types of the variables.
FileTypes ==
  /\ scene \in Scenes /\ FreeSlots(scene)
  /\ Loading
  /\ phase \in {"settings", "entities", "components", "done"}
  /\ item \in Nat \ {0} /\ node \in Nat \ {0} /\ hooks \in Nat
  /\ in_hook \in BOOLEAN /\ from_python \in BOOLEAN
  /\ freed \subseteq Handles

\* How far the load is: from Python it is one entity's turn at a time, otherwise
\* the components come when all entities are there.
Progress ==
  /\ phase = "settings" => ~from_python /\ Len(entities) = 0
  /\ phase = "entities" => Len(entities) < Len(doc.entities)
  /\ phase = "done" => Len(entities) = Len(doc.entities)
  /\ phase # "components" => ~in_hook
  /\ from_python /\ phase = "components" => node = Len(entities)
  /\ ~from_python => IF phase = "components" THEN Len(entities) = Len(doc.entities)
                     ELSE phase # "done" => freed = {}

\* A handle that was made is valid until the entity is freed, and never again.
HandlesTrue ==
  /\ \A k \in 1..Len(entities) : Valid(scene, entities[k]) \/ entities[k] \in freed
  /\ \A h \in freed : h.generation < scene.generations[h.index]

\* The component at place j of what is in slot i, which the document has for
\* the entity in it, or whose hook runs before it is filled.
AtHome(i, j) ==
  \E k \in 1..Len(entities) :
    /\ entities[k] = HandleTo(scene, i)
    /\ \/ Unwrapped(scene.components[i][j]).origin = doc.entities[k].uuid
       \/ /\ Unwrapped(scene.components[i][j]).origin = None
          /\ from_python /\ in_hook /\ k = node /\ j = item

ComponentsTrue ==
  /\ \A i \in Slots : \A j \in 1..Len(scene.components[i]) : i \in scene.alive /\ AtHome(i, j)
  /\ from_python /\ phase = "components" =>
       /\ in_hook => Valid(scene, entities[node]) /\ item <= Len(doc.entities[node].components)
       /\ Valid(scene, entities[node]) =>
            Len(scene.components[entities[node].index]) = IF in_hook THEN item ELSE item - 1

\* Who is a child of i lives and has i for a parent.
ChildrenTrue ==
  \A i \in Slots : /\ IsInjective(scene.children[i])
                   /\ \A j \in ToSet(scene.children[i]) : j \in scene.alive /\ scene.parent[j] = i

\* What load_from_data has made of the document, but for what hooks freed.
LoadedTrue ==
  \A k \in 1..Len(entities) : entities[k] \notin freed =>
    /\ scene.uuid[entities[k].index] = doc.entities[k].uuid
    /\ Links[k] > 0 /\ entities[Links[k]] \notin freed =>
         scene.parent[entities[k].index] = entities[Links[k]].index

FileInv ==
  /\ SavedIsWhole /\ FileTypes /\ Progress /\ HandlesTrue /\ ComponentsTrue
  /\ ~from_python => ChildrenTrue /\ LoadedTrue

\* What no step of a load touches.
DocumentKept == /\ saved' = saved /\ from_python' = from_python
                /\ SavedIsWhole' /\ doc' = doc /\ Links' = Links

\* Nothing that happens to the loaded scene changes the document.
LEMMA DocumentStays ==
  ASSUME SavedIsWhole, saved' = saved, from_python' = from_python
  PROVE  DocumentKept /\ DocumentNests
<1>1. doc' = doc
  BY DEF doc
<1>2. Links' = Links
  BY <1>1 DEF Links
<1>3. SavedIsWhole'
  BY DEF SavedIsWhole
<1> QED
  BY <1>1, <1>2, <1>3, DocumentIs DEF DocumentKept

\* The invariant at first, and then what each step does to it.
LEMMA AtFirst == ASSUME FileInit PROVE FileInv
<1>1. SavedIsWhole
  BY SavedAtFirst
<1>2. DocumentNests
  BY <1>1, DocumentIs
<1>3. /\ scene = EmptyScene /\ entities = <<>> /\ node = 1 /\ item = 1
      /\ in_hook = FALSE /\ hooks = 0 /\ freed = {}
      /\ \/ phase = "settings" /\ from_python = FALSE
         \/ phase = "entities" /\ from_python = TRUE
  BY DEF FileInit
<1>4. FileTypes
  <2>1. Len(doc.entities) \in Nat /\ <<>> \in Seq(Handles) /\ Len(<<>>) = 0
    BY <1>2 DEF DocumentNests
  <2>2. Loading
    BY <1>3, <2>1 DEF Loading
  <2>3. in_hook \in BOOLEAN /\ from_python \in BOOLEAN
    BY <1>3, Zenon
  <2>4. scene \in Scenes /\ FreeSlots(scene) /\ freed \subseteq Handles
    BY <1>3, EmptySceneIs
  <2>5. /\ phase \in {"settings", "entities", "components", "done"}
        /\ item \in Nat \ {0} /\ node \in Nat \ {0} /\ hooks \in Nat
    BY <1>3
  <2> QED
    BY <2>2, <2>3, <2>4, <2>5, Zenon DEF FileTypes
<1>5. Progress
  BY <1>2, <1>3 DEF Progress, DocumentNests
<1>6. HandlesTrue /\ LoadedTrue
  BY <1>3 DEF HandlesTrue, LoadedTrue
<1>7. \A i \in Slots : scene.components[i] = <<>> /\ scene.children[i] = <<>>
  BY <1>3 DEF EmptyScene
<1>8. ComponentsTrue
  BY <1>3, <1>7 DEF ComponentsTrue
<1>9. ChildrenTrue
  BY <1>7 DEF ChildrenTrue, IsInjective, ToSet
<1> QED
  BY <1>1, <1>4, <1>5, <1>6, <1>8, <1>9 DEF FileInv

\* A step that leaves handles, components and what they depend on alone.
LEMMA HandlesKept ==
  ASSUME HandlesTrue, entities' = entities, freed' = freed,
         scene'.alive = scene.alive, scene'.generations = scene.generations
  PROVE  HandlesTrue'
BY DEF HandlesTrue, Valid

LEMMA ChildrenKept ==
  ASSUME ChildrenTrue, scene'.alive = scene.alive, scene'.parent = scene.parent,
         scene'.children = scene.children
  PROVE  ChildrenTrue'
BY DEF ChildrenTrue

LEMMA LoadedKept ==
  ASSUME LoadedTrue, doc' = doc, Links' = Links, entities' = entities, freed' = freed,
         scene'.uuid = scene.uuid, scene'.parent = scene.parent
  PROVE  LoadedTrue'
BY DEF LoadedTrue

LEMMA SettingsKeeps == ASSUME FileInv, Settings PROVE FileInv'
<1>1. DocumentKept /\ DocumentNests
  BY DocumentStays DEF FileInv, Settings
<1>2. /\ phase = "settings" /\ ~from_python /\ Len(entities) = 0 /\ ~in_hook
      /\ UNCHANGED <<entities, item, node, in_hook, hooks, freed>>
      /\ freed = {}
  BY DEF FileInv, Settings, Progress
<1>3. /\ scene' \in Scenes /\ FreeSlots(scene')
      /\ scene'.alive = scene.alive /\ scene'.generations = scene.generations
      /\ scene'.uuid = scene.uuid /\ scene'.parent = scene.parent
      /\ scene'.children = scene.children /\ scene'.components = scene.components
  <2>1. scene \in Scenes /\ FreeSlots(scene)
    BY DEF FileInv, FileTypes
  <2>2. doc.layer_name \in {None, Name}
    BY DEF doc, Save, FileInv, SavedIsWhole
  <2>3. CASE scene' = scene
    BY <2>1, <2>3
  <2>4. CASE scene' = [scene EXCEPT !.layer_name = doc.layer_name]
    BY <2>1, <2>2, <2>4 DEF Scenes, FreeSlots
  <2> QED
    BY <2>3, <2>4 DEF Settings
<1>4. FileTypes'
  BY <1>1, <1>2, <1>3 DEF FileInv, FileTypes, Loading, DocumentKept, Settings
<1>5. Progress'
  <2>1. Len(doc.entities) \in Nat /\ (doc.entities # <<>> => Len(doc.entities) > 0)
        /\ (doc.entities = <<>> => Len(doc.entities) = 0)
    BY <1>1 DEF DocumentNests
  <2>2. phase' = IF doc.entities = <<>> THEN "done" ELSE "entities"
    BY DEF Settings
  <2> QED
    BY <1>1, <1>2, <2>1, <2>2 DEF Progress, DocumentKept
<1>6. HandlesTrue' /\ ChildrenTrue' /\ LoadedTrue'
  BY <1>1, <1>2, <1>3, HandlesKept, ChildrenKept, LoadedKept DEF FileInv, DocumentKept
<1>7. ComponentsTrue'
  <2>1. ASSUME NEW i \in Slots, NEW j \in 1..Len(scene.components[i]) PROVE FALSE
    BY <1>2, <2>1 DEF FileInv, ComponentsTrue, AtHome
  <2> QED
    BY <1>1, <1>2, <1>3, <2>1 DEF ComponentsTrue, DocumentKept
<1> QED
  BY <1>1, <1>2, <1>4, <1>5, <1>6, <1>7 DEF FileInv, DocumentKept

LEMMA LoadEntityKeeps == ASSUME FileInv, LoadEntity PROVE FileInv'
<1> DEFINE K == Len(entities)
           d == doc.entities[K+1]
           i == Last(scene.free_stack)
           made == WithEntity(scene, d.uuid)
<1>1. DocumentKept /\ DocumentNests
  BY DocumentStays DEF FileInv, LoadEntity
<1>2. /\ phase = "entities" /\ ~from_python /\ ~in_hook /\ freed = {}
      /\ UNCHANGED <<item, node, in_hook, hooks, freed>>
      /\ K \in Nat /\ K < Len(doc.entities) /\ entities \in Seq(Handles)
  BY DEF FileInv, LoadEntity, Progress, FileTypes, Loading
<1>3. K+1 \in 1..Len(doc.entities) /\ Len(doc.entities) \in Nat
  BY <1>1, <1>2, LinksAre
<1>4. d.uuid \in Slots /\ d.above = Links[K+1] /\ Links[K+1] \in 0..K
  <2>1. d \in EntityDatum /\ d.above = Links[K+1] /\ Links[K+1] \in 0..(K+1)-1
    BY <1>1, <1>3, LinksAre
  <2> QED
    BY <2>1, <1>2 DEF EntityDatum
<1>5. EntityMade(scene, d.uuid, i, made)
  <2>1. scene \in Scenes /\ FreeSlots(scene) /\ scene.free_stack # <<>> /\ d.uuid \in SceneUuid
    BY <1>4 DEF FileInv, FileTypes, LoadEntity, SceneUuid
  <2> HIDE DEF d
  <2> QED
    BY <2>1, NewEntity
<1>6. /\ entities' = Append(entities, HandleTo(scene, i))
      /\ phase' = IF K+1 < Len(doc.entities) THEN "entities" ELSE "components"
      /\ scene' = IF d.above > 0 THEN WithParent(made, i, entities[d.above].index) ELSE made
  BY DEF LoadEntity, PhaseAfterEntity
<1> DEFINE up == entities[d.above].index
<1>7. d.above > 0 => /\ up \in Slots /\ up \in scene.alive
                     /\ Relinked(made, scene') /\ LinkAdded(made, i, up, scene')
  <2> SUFFICES ASSUME d.above > 0
               PROVE  /\ up \in Slots /\ up \in scene.alive
                      /\ Relinked(made, scene') /\ LinkAdded(made, i, up, scene')
    OBVIOUS
  <2>1. d.above \in 1..K
    BY <1>2, <1>4
  <2>2. up \in Slots /\ up \in scene.alive
    <3>1. Valid(scene, entities[d.above]) /\ entities[d.above] \in Handles
      <4> HIDE DEF d
      <4> QED
        BY <1>2, <2>1 DEF FileInv, HandlesTrue
    <3> QED
      BY <3>1 DEF Valid, Handles
  <2>3. made \in Scenes /\ i \in Slots
    BY <1>5 DEF EntityMade
  <2> HIDE DEF d, i, made, up
  <2> QED
    BY <1>6, <2>2, <2>3, Linked DEF up
<1>8. /\ i \in Slots /\ i \notin scene.alive
      /\ scene' \in Scenes /\ FreeSlots(scene')
      /\ scene'.alive = scene.alive \cup {i} /\ scene'.generations = scene.generations
      /\ scene'.uuid = [scene.uuid EXCEPT ![i] = d.uuid]
      /\ scene'.components = [scene.components EXCEPT ![i] = <<>>]
  <2> HIDE DEF d, i, made, up
  <2>1. CASE d.above > 0
    BY <1>5, <1>7, <2>1 DEF EntityMade, Relinked, FreeSlots
  <2>2. CASE ~(d.above > 0)
    <3>1. scene' = made
      BY <1>6, <2>2
    <3> QED
      BY <1>5, <3>1 DEF EntityMade
  <2> QED
    BY <2>1, <2>2
<1>9. /\ scene'.parent[i] = IF d.above > 0 THEN up ELSE None
      /\ \A x \in Slots \ {i} : scene'.parent[x] = scene.parent[x]
      /\ \A x \in Slots \ {i} :
           scene'.children[x] = IF d.above > 0 /\ x = up THEN Append(scene.children[x], i)
                                ELSE scene.children[x]
      /\ scene'.children[i] = <<>>
  <2>1. /\ scene.parent \in [Slots -> Slots \cup {None}] /\ scene.children \in [Slots -> Seq(Slots)]
    BY DEF FileInv, FileTypes, Scenes
  <2> HIDE DEF d, i, made, up
  <2>2. /\ made.parent = [scene.parent EXCEPT ![i] = None]
        /\ made.children = [scene.children EXCEPT ![i] = <<>>]
    BY <1>5 DEF EntityMade
  <2>3. CASE d.above > 0
    <3>1. /\ scene'.parent = [made.parent EXCEPT ![i] = up]
          /\ scene'.children = [made.children EXCEPT ![up] = Append(made.children[up], i)]
          /\ up # i /\ up \in Slots
      BY <1>5, <1>7, <2>3 DEF LinkAdded, EntityMade
    <3> QED
      BY <1>8, <2>1, <2>2, <2>3, <3>1
  <2>4. CASE ~(d.above > 0)
    <3>1. scene' = made
      BY <1>6, <2>4
    <3> QED
      BY <1>8, <2>1, <2>2, <2>4, <3>1
  <2> QED
    BY <2>3, <2>4
<1> DEFINE h == HandleTo(scene, i)
<1>10. h \in Handles /\ h.index = i /\ h.generation = scene.generations[i]
  <2>1. scene.generations \in [Slots -> Nat]
    BY DEF FileInv, FileTypes, Scenes
  <2> QED
    BY <1>8, <2>1 DEF HandleTo, Handles
<1>11. /\ entities' \in Seq(Handles) /\ Len(entities') = K+1 /\ entities'[K+1] = h
       /\ \A k \in 1..K : entities'[k] = entities[k] /\ k \in 1..K+1
       /\ \A k \in 1..K+1 : k # K+1 => k \in 1..K
  <2>1. entities' = Append(entities, h) /\ entities \in Seq(Handles) /\ h \in Handles
    BY <1>2, <1>6, <1>10
  <2>2. K \in Nat
    BY <1>2
  <2> HIDE DEF h
  <2> QED
    BY <2>1, <2>2
<1> HIDE DEF d, i, made, up, h
<1>12. FileTypes'
  <2>1. Loading'
    BY <1>1, <1>2, <1>3, <1>11 DEF Loading, DocumentKept
  <2>2. phase' \in {"settings", "entities", "components", "done"}
    BY <1>6
  <2> QED
    BY <1>1, <1>2, <1>8, <2>1, <2>2 DEF FileInv, FileTypes, DocumentKept
<1>13. Progress'
  <2>1. CASE K+1 < Len(doc.entities)
    BY <1>1, <1>2, <1>6, <1>11, <2>1 DEF Progress, DocumentKept
  <2>2. CASE ~(K+1 < Len(doc.entities))
    <3>1. K+1 = Len(doc.entities)
      BY <1>2, <1>3, <2>2
    <3> QED
      BY <1>1, <1>2, <1>6, <1>11, <2>2, <3>1 DEF Progress, DocumentKept
  <2> QED
    BY <2>1, <2>2
<1>14. \A k \in 1..K : /\ Valid(scene, entities[k]) /\ entities[k] \in Handles
                       /\ entities[k].index \in scene.alive /\ entities[k].index # i
                       /\ entities[k].index \in Slots
  <2>1. \A k \in 1..K : Valid(scene, entities[k]) /\ entities[k] \in Handles
    BY <1>2 DEF FileInv, HandlesTrue
  <2> QED
    BY <2>1, <1>8 DEF Valid, Handles
<1>15. HandlesTrue'
  <2>1. ASSUME NEW k \in 1..K+1 PROVE Valid(scene', entities'[k])
    <3>1. CASE k = K+1
      BY <1>8, <1>10, <1>11, <3>1 DEF Valid
    <3>2. CASE k # K+1
      BY <1>8, <1>11, <1>14, <3>2 DEF Valid
    <3> QED
      BY <3>1, <3>2
  <2> QED
    BY <1>2, <1>11, <2>1 DEF HandlesTrue
<1>16. ComponentsTrue'
  <2>1. ASSUME NEW x \in Slots, NEW j \in 1..Len(scene'.components[x])
        PROVE  x \in scene'.alive /\ AtHome(x, j)'
    <3>1. x # i /\ scene'.components[x] = scene.components[x]
      <4>1. scene.components \in [Slots -> Seq(Component)]
        BY DEF FileInv, FileTypes, Scenes
      <4> QED
        BY <4>1, <1>8
    <3>2. x \in scene.alive /\ AtHome(x, j)
      BY <3>1 DEF FileInv, ComponentsTrue
    <3>3. PICK k \in 1..K :
            /\ entities[k] = HandleTo(scene, x)
            /\ Unwrapped(scene.components[x][j]).origin = doc.entities[k].uuid
      BY <1>2, <3>2 DEF AtHome
    <3>4. entities'[k] = HandleTo(scene', x)
      BY <1>8, <1>11, <3>3 DEF HandleTo
    <3>5. Unwrapped(scene'.components[x][j]).origin = doc'.entities[k].uuid
      BY <1>1, <3>1, <3>3 DEF DocumentKept
    <3> QED
      BY <1>8, <1>11, <3>2, <3>4, <3>5 DEF AtHome
  <2> QED
    BY <1>1, <1>2, <2>1 DEF ComponentsTrue, DocumentKept
<1>17. ChildrenTrue'
  <2>1. ChildrenTrue /\ scene.children \in [Slots -> Seq(Slots)]
    BY <1>2 DEF FileInv, FileTypes, Scenes
  <2>2. ASSUME NEW x \in Slots
        PROVE  /\ IsInjective(scene'.children[x])
               /\ \A j \in ToSet(scene'.children[x]) : j \in scene'.alive /\ scene'.parent[j] = x
    <3>1. /\ IsInjective(scene.children[x])
          /\ \A j \in ToSet(scene.children[x]) : j \in scene.alive /\ scene.parent[j] = x
      BY <2>1 DEF ChildrenTrue
    <3>2. CASE x = i
      BY <1>9, <3>2 DEF IsInjective, ToSet
    <3>3. ASSUME x # i, NEW j \in ToSet(scene.children[x])
          PROVE  j \in scene'.alive /\ scene'.parent[j] = x /\ j # i
      <4>1. j \in scene.alive /\ scene.parent[j] = x /\ j \in Slots
        BY <3>1, <2>1 DEF ToSet
      <4> QED
        BY <4>1, <1>8, <1>9
    <3>4. CASE x # i /\ ~(d.above > 0 /\ x = up)
      <4>1. scene'.children[x] = scene.children[x]
        BY <1>9, <3>4
      <4> QED
        BY <3>1, <3>3, <3>4, <4>1
    <3>5. CASE x # i /\ d.above > 0 /\ x = up
      <4>1. scene'.children[x] = Append(scene.children[x], i)
        BY <1>9, <3>5
      <4>2. /\ ToSet(Append(scene.children[x], i)) = ToSet(scene.children[x]) \cup {i}
            /\ IsInjective(Append(scene.children[x], i))
        <5>1. i \notin ToSet(scene.children[x]) /\ scene.children[x] \in Seq(Slots)
          BY <2>1, <3>3, <3>5
        <5> QED
          BY <1>8, <3>1, <5>1, AppendItems
      <4>3. i \in scene'.alive /\ scene'.parent[i] = x
        BY <1>8, <1>9, <3>5
      <4> QED
        BY <3>3, <3>5, <4>1, <4>2, <4>3
    <3> QED
      BY <3>2, <3>4, <3>5
  <2> QED
    BY <2>2 DEF ChildrenTrue
<1>18. LoadedTrue'
  <2> SUFFICES ASSUME NEW k \in 1..K+1
               PROVE  /\ scene'.uuid[entities'[k].index] = doc.entities[k].uuid
                      /\ Links[k] > 0 =>
                           scene'.parent[entities'[k].index] = entities'[Links[k]].index
    BY <1>1, <1>11 DEF LoadedTrue, DocumentKept
  <2>1. scene.uuid \in [Slots -> SceneUuid] /\ Links[k] \in 0..k-1
    <3>1. k \in 1..Len(doc.entities)
      BY <1>2, <1>3
    <3> QED
      BY <1>1, <3>1, LinksAre DEF FileInv, FileTypes, Scenes
  <2>2. Links[k] > 0 => Links[k] \in 1..K /\ entities'[Links[k]] = entities[Links[k]]
    BY <2>1, <1>2, <1>11
  <2>3. CASE k = K+1
    <3>1. entities'[k].index = i
      BY <1>10, <1>11, <2>3
    <3>2. scene'.uuid[i] = d.uuid /\ d.above = Links[k]
      BY <1>4, <1>8, <2>1, <2>3
    <3>3. d.above > 0 => scene'.parent[i] = entities[Links[k]].index
      BY <1>9, <3>2 DEF up
    <3> QED
      BY <2>2, <2>3, <3>1, <3>2, <3>3 DEF d
  <2>4. CASE k # K+1
    <3>1. k \in 1..K /\ entities'[k] = entities[k]
      BY <1>11, <2>4
    <3>2. /\ scene.uuid[entities[k].index] = doc.entities[k].uuid
          /\ Links[k] > 0 => scene.parent[entities[k].index] = entities[Links[k]].index
      BY <1>2, <3>1 DEF FileInv, LoadedTrue
    <3>3. entities[k].index # i /\ entities[k].index \in Slots
      BY <1>14, <3>1
    <3>4. /\ scene'.uuid[entities[k].index] = scene.uuid[entities[k].index]
          /\ scene'.parent[entities[k].index] = scene.parent[entities[k].index]
      BY <1>8, <1>9, <2>1, <3>3
    <3> QED
      BY <2>2, <3>1, <3>2, <3>4
  <2> QED
    BY <2>3, <2>4
<1> QED
  BY <1>1, <1>12, <1>13, <1>15, <1>16, <1>17, <1>18 DEF FileInv, DocumentKept

\* A component of an unknown type keeps all it was saved with, and one that was
\* in a placeholder stays there.
LEMMA MadeIs ==
  ASSUME NEW c \in Kept
  PROVE  /\ c \in Component /\ Unwrapped(c) \in Plain
         /\ Made(c) \in Component /\ Unwrapped(Made(c)) = Unwrapped(c)
         /\ c.type \in Known => c \in Plain /\ Made(c) = c
<1>1. Placeholder \notin Type \ Known /\ Placeholder \notin Known
  BY FileAssumption
<1>2. Kept \subseteq Component
  BY DEF Kept, Plain, Component
<1>3. CASE c \in Plain
  <2>1. c.type \in Type /\ c.type # Placeholder
    BY <1>3, FileAssumption DEF Plain
  <2>2. Made(c) \in Kept /\ Unwrapped(Made(c)) = c
    BY <1>3, WrappedIs DEF Made
  <2>3. Unwrapped(c) = c
    BY <2>1 DEF Unwrapped
  <2>4. c.type \in Known => Made(c) = c
    BY DEF Made, Wrapped
  <2> QED
    BY <1>2, <1>3, <2>2, <2>3, <2>4
<1>4. CASE c \in [type : {Placeholder}, original : Plain]
  <2>1. c.type = Placeholder /\ c.original \in Plain
    BY <1>4
  <2>2. Made(c) = c
    BY <1>1, <2>1 DEF Made, Wrapped
  <2> QED
    BY <1>1, <1>2, <2>1, <2>2 DEF Unwrapped
<1> QED
  BY <1>3, <1>4 DEF Kept

\* t is s but for the components in slot i.
ComponentsSet(s, i, q, t) ==
  /\ t \in Scenes /\ FreeSlots(t)
  /\ t.alive = s.alive /\ t.generations = s.generations
  /\ t.uuid = s.uuid /\ t.parent = s.parent /\ t.children = s.children
  /\ t.serializable = s.serializable /\ t.layer_name = s.layer_name
  /\ t.free_stack = s.free_stack
  /\ t.components = [s.components EXCEPT ![i] = q]

LEMMA ComponentAdded ==
  ASSUME NEW s \in Scenes, FreeSlots(s), NEW i \in Slots, NEW c \in Component,
         NEW t, t = [s EXCEPT !.components[i] = Append(@, c)]
  PROVE  ComponentsSet(s, i, Append(s.components[i], c), t)
<1> DEFINE q == Append(s.components[i], c)
<1>1. s.components \in [Slots -> Seq(Component)]
  BY DEF Scenes
<1>2. q \in Seq(Component)
  BY <1>1
<1>3. t = [s EXCEPT !.components = [s.components EXCEPT ![i] = q]]
  BY DEF Scenes
<1> HIDE DEF q
<1>4. [s.components EXCEPT ![i] = q] \in [Slots -> Seq(Component)]
  BY <1>1, <1>2
<1>5. ComponentsSet(s, i, q, t)
  BY <1>3, <1>4 DEF Scenes, FreeSlots, ComponentsSet
<1> QED
  BY <1>5 DEF q

LEMMA LoadComponentKeeps == ASSUME FileInv, LoadComponent PROVE FileInv'
<1> DEFINE K == Len(entities)
           h == entities[node]
           held == doc.entities[node].components
<1>1. DocumentKept /\ DocumentNests
  BY DocumentStays DEF FileInv, LoadComponent
<1>2. /\ phase = "components" /\ ~from_python /\ node <= K
      /\ UNCHANGED <<phase, entities, hooks, freed>>
      /\ K \in Nat /\ K = Len(doc.entities) /\ entities \in Seq(Handles)
      /\ node \in Nat \ {0} /\ item \in Nat \ {0} /\ node \in 1..K
  BY DEF FileInv, LoadComponent, Progress, FileTypes, Loading
<1>3. h \in Handles /\ held \in Seq(Kept)
      /\ \A j \in 1..Len(held) : Unwrapped(held[j]).origin = doc.entities[node].uuid
  <2>1. doc.entities[node] \in EntityDatum
    BY <1>1, <1>2, LinksAre
  <2> QED
    BY <1>1, <1>2, <2>1 DEF EntityDatum, DocumentNests
<1>4. /\ HandlesTrue /\ ChildrenTrue /\ LoadedTrue /\ scene \in Scenes /\ FreeSlots(scene)
  BY <1>2 DEF FileInv, FileTypes
<1>5. CASE Valid(scene, h) /\ item <= Len(held)
  <2> DEFINE c == Made(held[item])
             i == h.index
  <2>1. /\ scene' = [scene EXCEPT !.components[i] = Append(@, c)]
        /\ item' = item + 1 /\ in_hook' = (held[item].type \in Known) /\ UNCHANGED node
    BY <1>5 DEF LoadComponent
  <2>2. c \in Component /\ Unwrapped(c).origin = doc.entities[node].uuid
    <3>1. item \in 1..Len(held)
      BY <1>2, <1>3, <1>5
    <3>2. held[item] \in Kept
      BY <1>3, <3>1
    <3> QED
      BY <1>3, <3>1, <3>2, MadeIs
  <2>3. i \in Slots /\ i \in scene.alive /\ h = HandleTo(scene, i)
    BY <1>3, <1>5 DEF Valid, Handles, HandleTo
  <2> HIDE DEF c, i, held, h
  <2>4. ComponentsSet(scene, i, Append(scene.components[i], c), scene')
    BY <1>4, <2>1, <2>2, <2>3, ComponentAdded
  <2>5. FileTypes'
    <3>1. in_hook' \in BOOLEAN
      BY <2>1
    <3>2. item' \in Nat \ {0} /\ node' \in Nat \ {0}
      BY <1>2, <2>1
    <3> QED
      BY <1>1, <1>2, <2>4, <3>1, <3>2 DEF FileInv, FileTypes, Loading, DocumentKept, ComponentsSet
  <2>6. Progress'
    BY <1>1, <1>2 DEF Progress, DocumentKept
  <2>7. HandlesTrue' /\ ChildrenTrue' /\ LoadedTrue'
    BY <1>1, <1>2, <1>4, <2>4, HandlesKept, ChildrenKept, LoadedKept DEF ComponentsSet, DocumentKept
  <2>8. ComponentsTrue'
    <3>1. ASSUME NEW x \in Slots, NEW j \in 1..Len(scene'.components[x])
          PROVE  x \in scene'.alive /\ AtHome(x, j)'
      <4>1. scene.components \in [Slots -> Seq(Component)]
        BY <1>4 DEF Scenes
      <4>2. \A k \in 1..K : entities'[k] = entities[k] /\ HandleTo(scene', x) = HandleTo(scene, x)
        BY <1>2, <2>4 DEF HandleTo, ComponentsSet
      <4>3. CASE j \in 1..Len(scene.components[x]) /\ scene'.components[x][j] = scene.components[x][j]
        <5>1. x \in scene.alive /\ AtHome(x, j)
          BY <4>3 DEF FileInv, ComponentsTrue
        <5>2. PICK k \in 1..K :
                /\ entities[k] = HandleTo(scene, x)
                /\ Unwrapped(scene.components[x][j]).origin = doc.entities[k].uuid
          BY <1>2, <5>1 DEF AtHome
        <5>3. Unwrapped(scene'.components[x][j]).origin = doc'.entities[k].uuid
          BY <1>1, <4>3, <5>2 DEF DocumentKept
        <5> QED
          BY <1>2, <2>4, <4>2, <5>1, <5>2, <5>3 DEF AtHome, ComponentsSet
      <4>4. CASE x = i /\ j = Len(scene.components[i]) + 1
        <5>1. scene'.components[x][j] = c
          <6>1. scene'.components[i] = Append(scene.components[i], c) /\ scene.components[i] \in Seq(Component)
            BY <2>3, <2>4, <4>1 DEF ComponentsSet
          <6> QED
            BY <4>4, <6>1
        <5>2. Unwrapped(scene'.components[x][j]).origin = doc'.entities[node].uuid
          BY <1>1, <2>2, <5>1 DEF DocumentKept
        <5>3. entities'[node] = HandleTo(scene', x)
          BY <1>2, <2>3, <4>2, <4>4 DEF h
        <5> QED
          BY <1>2, <2>3, <2>4, <4>4, <5>2, <5>3 DEF AtHome, ComponentsSet
      <4>5. CASE x # i
        BY <2>4, <4>1, <4>3, <4>5 DEF ComponentsSet
      <4>6. CASE x = i /\ j # Len(scene.components[i]) + 1
        <5>1. /\ scene'.components[i] = Append(scene.components[i], c)
              /\ scene.components[i] \in Seq(Component)
          BY <2>3, <2>4, <4>1 DEF ComponentsSet
        <5>2. j \in 1..Len(scene.components[x]) /\ scene'.components[x][j] = scene.components[x][j]
          BY <4>6, <5>1
        <5> QED
          BY <4>3, <5>2
      <4> QED
        BY <4>4, <4>5, <4>6
    <3> QED
      BY <1>1, <1>2, <3>1 DEF ComponentsTrue, DocumentKept
  <2> QED
    BY <1>1, <2>5, <2>6, <2>7, <2>8 DEF FileInv, DocumentKept
<1>6. CASE ~(Valid(scene, h) /\ item <= Len(held))
  <2>1. /\ UNCHANGED scene /\ item' = 1 /\ in_hook' = FALSE /\ node' = node + 1
    BY <1>6 DEF LoadComponent
  <2>2. FileTypes'
    <3>1. in_hook' \in BOOLEAN
      BY <2>1, Zenon
    <3>2. item' \in Nat \ {0} /\ node' \in Nat \ {0}
      BY <1>2, <2>1
    <3>3. Loading' /\ scene' \in Scenes /\ FreeSlots(scene')
      BY <1>1, <1>2, <1>4, <2>1, Zenon DEF FileInv, FileTypes, Loading, DocumentKept
    <3> QED
      BY <1>1, <1>2, <3>1, <3>2, <3>3, Zenon DEF FileInv, FileTypes, DocumentKept
  <2>3. Progress'
    BY <1>1, <1>2, <2>1 DEF Progress, DocumentKept
  <2>4. HandlesTrue' /\ ChildrenTrue' /\ LoadedTrue'
    BY <1>1, <1>2, <1>4, <2>1, HandlesKept, ChildrenKept, LoadedKept DEF DocumentKept
  <2>5. ComponentsTrue'
    <3>1. ASSUME NEW x \in Slots, NEW j \in 1..Len(scene.components[x])
          PROVE  x \in scene'.alive /\ AtHome(x, j)'
      <4>1. x \in scene.alive /\ AtHome(x, j)
        BY DEF FileInv, ComponentsTrue
      <4> QED
        BY <1>1, <1>2, <2>1, <4>1 DEF AtHome, DocumentKept
    <3> QED
      BY <1>1, <1>2, <2>1, <3>1 DEF ComponentsTrue, DocumentKept
  <2> QED
    BY <1>1, <2>2, <2>3, <2>4, <2>5 DEF FileInv, DocumentKept
<1> QED
  BY <1>5, <1>6

LEMMA FinishKeeps == ASSUME FileInv, Finish PROVE FileInv'
<1>1. DocumentKept /\ DocumentNests
  BY DocumentStays DEF FileInv, Finish
<1>2. /\ phase = "components" /\ ~from_python /\ phase' = "done" /\ in_hook' = FALSE
      /\ UNCHANGED <<scene, entities, item, node, hooks, freed>>
      /\ Len(entities) = Len(doc.entities)
  BY DEF FileInv, Finish, Progress
<1>3. HandlesTrue' /\ ChildrenTrue' /\ LoadedTrue'
  BY <1>1, <1>2, HandlesKept, ChildrenKept, LoadedKept DEF FileInv, DocumentKept
<1>4. FileTypes'
  <2>1. in_hook' \in BOOLEAN /\ phase' \in {"settings", "entities", "components", "done"}
    BY <1>2, Zenon
  <2>2. Loading' /\ scene' \in Scenes /\ FreeSlots(scene')
    BY <1>1, <1>2, Zenon DEF FileInv, FileTypes, Loading, DocumentKept
  <2> QED
    BY <1>1, <1>2, <2>1, <2>2, Zenon DEF FileInv, FileTypes, DocumentKept
<1>5. Progress'
  BY <1>1, <1>2 DEF Progress, DocumentKept
<1>6. ComponentsTrue'
  <2>1. ASSUME NEW x \in Slots, NEW j \in 1..Len(scene.components[x])
        PROVE  x \in scene'.alive /\ AtHome(x, j)'
    <3>1. x \in scene.alive /\ AtHome(x, j)
      BY DEF FileInv, ComponentsTrue
    <3> QED
      BY <1>1, <1>2, <3>1 DEF AtHome, DocumentKept
  <2> QED
    BY <1>1, <1>2, <2>1 DEF ComponentsTrue, DocumentKept
<1> QED
  BY <1>1, <1>3, <1>4, <1>5, <1>6 DEF FileInv, DocumentKept

LEMMA DeserializeReturnsKeeps == ASSUME FileInv, DeserializeReturns PROVE FileInv'
<1>1. DocumentKept /\ DocumentNests
  BY DocumentStays DEF FileInv, DeserializeReturns
<1>2. /\ phase = "components" /\ from_python /\ ~in_hook
      /\ phase' = IF node = Len(doc.entities) THEN "done" ELSE "entities"
      /\ UNCHANGED <<entities, item, node, in_hook, hooks, freed>>
      /\ scene' = AfterReturns(node) /\ node = Len(entities)
  BY DEF FileInv, DeserializeReturns, Progress
<1>3. scene \in Scenes /\ FreeSlots(scene) /\ Loading
  BY DEF FileInv, FileTypes
<1>4. Len(entities) \in Nat /\ Len(doc.entities) \in Nat /\ Len(entities) <= Len(doc.entities)
      /\ node \in 0..Len(entities)
  BY <1>1, <1>2, <1>3, LinksAre DEF Loading
<1>5. PICK after \in [0..node -> Scenes] :
        /\ after[0] = scene
        /\ \A m \in 1..node : Relinked(after[m-1], after[m])
        /\ AfterReturns(node) = after[node]
  BY <1>1, <1>3, <1>4, Returned
<1> DEFINE Same == { m \in 0..node : Relinked(scene, after[m]) }
<1>6. node \in Same
  <2>1. 0 \in Same
    BY <1>3, <1>4, <1>5 DEF Relinked
  <2>2. ASSUME NEW m \in 0..node-1, m \in Same PROVE m+1 \in Same
    <3>1. m+1 \in 1..node /\ (m+1)-1 = m /\ m+1 \in 0..node
      BY <1>4
    <3>2. Relinked(after[m], after[m+1]) /\ Relinked(scene, after[m])
      BY <1>5, <2>2, <3>1
    <3>3. Relinked(scene, after[m+1])
      BY <3>2, Zenon DEF Relinked
    <3> QED
      BY <3>1, <3>3
  <2>3. node \in Nat
    BY <1>4
  <2> HIDE DEF Same
  <2>4. 0..node \subseteq Same
    BY <2>1, <2>2, <2>3, CountingUp
  <2> QED
    BY <2>3, <2>4
<1>7. Relinked(scene, scene')
  BY <1>2, <1>5, <1>6
<1>8. FileTypes'
  <2>1. phase' \in {"settings", "entities", "components", "done"}
    BY <1>2
  <2>2. Loading' /\ scene' \in Scenes /\ FreeSlots(scene')
    BY <1>1, <1>2, <1>3, <1>7, Zenon DEF Loading, DocumentKept, Relinked, FreeSlots
  <2> QED
    BY <1>1, <1>2, <2>1, <2>2, Zenon DEF FileInv, FileTypes, DocumentKept
<1>9. Progress'
  BY <1>1, <1>2, <1>4 DEF Progress, DocumentKept
<1>10. HandlesTrue'
  BY <1>2, <1>7, HandlesKept DEF FileInv, Relinked
<1>11. ComponentsTrue'
  <2>1. ASSUME NEW x \in Slots, NEW j \in 1..Len(scene'.components[x])
        PROVE  x \in scene'.alive /\ AtHome(x, j)'
    <3>1. x \in scene.alive /\ AtHome(x, j)
      BY <1>7 DEF FileInv, ComponentsTrue, Relinked
    <3>2. HandleTo(scene', x) = HandleTo(scene, x) /\ scene'.components = scene.components
          /\ scene'.alive = scene.alive
      BY <1>7 DEF HandleTo, Relinked
    <3> QED
      BY <1>1, <1>2, <3>1, <3>2 DEF AtHome, DocumentKept
  <2>2. phase' # "components"
    BY <1>2
  <2> QED
    BY <2>1, <2>2 DEF ComponentsTrue
<1> QED
  BY <1>1, <1>2, <1>8, <1>9, <1>10, <1>11 DEF FileInv, DocumentKept

LEMMA DeserializeEntityKeeps == ASSUME FileInv, DeserializeEntity PROVE FileInv'
<1> DEFINE K == Len(entities)
           i == Last(scene.free_stack)
           h == HandleTo(scene, i)
<1>1. DocumentKept /\ DocumentNests
  BY DocumentStays DEF FileInv, DeserializeEntity
<1>2. /\ phase = "entities" /\ from_python /\ ~in_hook
      /\ phase' = "components" /\ node' = K+1 /\ item' = 1
      /\ UNCHANGED <<in_hook, hooks, freed>>
      /\ K \in Nat /\ K < Len(doc.entities) /\ entities \in Seq(Handles)
      /\ scene \in Scenes /\ FreeSlots(scene)
  BY DEF FileInv, DeserializeEntity, Progress, FileTypes, Loading
<1>3. Len(doc.entities) \in Nat
  BY <1>1, LinksAre
<1>4. EntityMade(scene, Fresh, i, scene')
  <2>1. scene.free_stack # <<>> /\ Fresh \in SceneUuid /\ scene' = WithEntity(scene, Fresh)
    BY DEF DeserializeEntity, SceneUuid
  <2> QED
    BY <1>2, <2>1, NewEntity
<1>5. h \in Handles /\ h.index = i /\ h.generation = scene.generations[i] /\ i \in Slots
  <2>1. scene.generations \in [Slots -> Nat]
    BY <1>2 DEF Scenes
  <2> QED
    BY <1>4, <2>1 DEF HandleTo, Handles, EntityMade
<1>6. entities' = Append(entities, h)
  BY DEF DeserializeEntity
<1> HIDE DEF h, i
<1>7. /\ entities' \in Seq(Handles) /\ Len(entities') = K+1 /\ entities'[K+1] = h
      /\ \A k \in 1..K : entities'[k] = entities[k] /\ k \in 1..K+1
      /\ \A k \in 1..K+1 : k # K+1 => k \in 1..K
  BY <1>2, <1>5, <1>6
<1>8. FileTypes'
  <2>1. Loading'
    BY <1>1, <1>2, <1>3, <1>7 DEF Loading, DocumentKept
  <2>2. item' \in Nat \ {0} /\ node' \in Nat \ {0}
    BY <1>2
  <2> QED
    BY <1>1, <1>2, <1>4, <2>1, <2>2 DEF FileInv, FileTypes, DocumentKept, EntityMade
<1>9. Progress'
  BY <1>1, <1>2, <1>7 DEF Progress, DocumentKept
<1>10. HandlesTrue'
  <2>1. ASSUME NEW k \in 1..K+1 PROVE Valid(scene', entities'[k]) \/ entities'[k] \in freed'
    <3>1. CASE k = K+1
      BY <1>4, <1>5, <1>7, <3>1 DEF Valid, EntityMade
    <3>2. CASE k # K+1
      <4>1. k \in 1..K /\ (Valid(scene, entities[k]) \/ entities[k] \in freed)
        BY <1>7, <3>2 DEF FileInv, HandlesTrue
      <4> QED
        BY <1>2, <1>4, <1>7, <4>1 DEF Valid, EntityMade
    <3> QED
      BY <3>1, <3>2
  <2> QED
    BY <1>2, <1>4, <1>7, <2>1 DEF HandlesTrue, EntityMade, FileInv
<1>11. scene.components \in [Slots -> Seq(Component)]
       /\ scene'.components = [scene.components EXCEPT ![i] = <<>>]
       /\ scene'.alive = scene.alive \cup {i} /\ scene'.generations = scene.generations
  BY <1>2, <1>4 DEF Scenes, EntityMade
<1>12. ComponentsTrue'
  <2>1. ASSUME NEW x \in Slots, NEW j \in 1..Len(scene'.components[x])
        PROVE  x \in scene'.alive /\ AtHome(x, j)'
    <3>1. x # i /\ scene'.components[x] = scene.components[x]
      BY <1>11
    <3>2. x \in scene.alive /\ AtHome(x, j)
      BY <3>1 DEF FileInv, ComponentsTrue
    <3>3. PICK k \in 1..K :
            /\ entities[k] = HandleTo(scene, x)
            /\ Unwrapped(scene.components[x][j]).origin = doc.entities[k].uuid
      BY <1>2, <3>2 DEF AtHome
    <3>4. entities'[k] = HandleTo(scene', x)
      BY <1>7, <1>11, <3>3 DEF HandleTo
    <3>5. Unwrapped(scene'.components[x][j]).origin = doc'.entities[k].uuid
      BY <1>1, <3>1, <3>3 DEF DocumentKept
    <3> QED
      BY <1>7, <1>11, <3>2, <3>4, <3>5 DEF AtHome
  <2>2. Len(scene'.components[entities'[node'].index]) = item' - 1
    <3>1. entities'[node'].index = i
      BY <1>2, <1>5, <1>7
    <3>2. scene'.components[i] = <<>>
      BY <1>5, <1>11
    <3> QED
      BY <1>2, <3>1, <3>2
  <2> QED
    BY <1>1, <1>2, <2>1, <2>2 DEF ComponentsTrue, DocumentKept
<1> QED
  BY <1>1, <1>2, <1>8, <1>9, <1>10, <1>12 DEF FileInv, DocumentKept

LEMMA DeserializeComponentKeeps == ASSUME FileInv, DeserializeComponent PROVE FileInv'
<1> DEFINE K == Len(entities)
           h == entities[node]
           held == doc.entities[node].components
           c == held[item]
           added == IF c.type \in Known THEN [c EXCEPT !.origin = None] ELSE Made(c)
           i == h.index
<1>1. DocumentKept /\ DocumentNests
  BY DocumentStays DEF FileInv, DeserializeComponent
<1>2. /\ phase = "components" /\ from_python /\ ~in_hook /\ node = K
      /\ UNCHANGED <<phase, entities, node, hooks, freed>>
      /\ K \in Nat /\ K <= Len(doc.entities) /\ entities \in Seq(Handles)
      /\ node \in Nat \ {0} /\ item \in Nat \ {0}
      /\ item <= Len(held) /\ Valid(scene, h)
      /\ scene \in Scenes /\ FreeSlots(scene)
  BY DEF FileInv, DeserializeComponent, Progress, FileTypes, Loading
<1>3. Len(doc.entities) \in Nat /\ node \in 1..K /\ node \in 1..Len(doc.entities)
  <2>1. Len(doc.entities) \in Nat
    BY <1>1, LinksAre
  <2> QED
    BY <1>2, <2>1
<1>4. h \in Handles /\ held \in Seq(Kept)
      /\ \A j \in 1..Len(held) : Unwrapped(held[j]).origin = doc.entities[node].uuid
  <2>1. doc.entities[node] \in EntityDatum
    BY <1>1, <1>3, LinksAre
  <2> QED
    BY <1>1, <1>2, <1>3, <2>1 DEF EntityDatum, DocumentNests
<1>5. c \in Kept /\ Unwrapped(c).origin = doc.entities[node].uuid
  <2>1. item \in 1..Len(held)
    BY <1>2, <1>4
  <2> QED
    BY <1>4, <2>1
<1>6. i \in Slots /\ i \in scene.alive /\ h = HandleTo(scene, i)
  BY <1>2, <1>4 DEF Valid, Handles, HandleTo
<1>7. /\ added \in Component
      /\ \/ c.type \in Known /\ Unwrapped(added).origin = None
         \/ c.type \notin Known /\ Unwrapped(added).origin = doc.entities[node].uuid
  <2> HIDE DEF c
  <2>2. CASE c.type \in Known
    <3>0. c.type \in Type /\ c.type # Placeholder /\ c = [type |-> c.type, origin |-> c.origin]
      BY <1>5, <2>2, MadeIs, FileAssumption DEF Plain
    <3>1. added = [type |-> c.type, origin |-> None]
      BY <2>2, <3>0
    <3> HIDE DEF added
    <3> QED
      BY <2>2, <3>0, <3>1 DEF Component, Unwrapped
  <2>3. CASE c.type \notin Known
    BY <1>5, <2>3, MadeIs
  <2> QED
    BY <2>2, <2>3
<1>8. /\ scene' = [scene EXCEPT !.components[i] = Append(@, added)]
      /\ in_hook' = (c.type \in Known)
      /\ item' = IF c.type \in Known THEN item ELSE item + 1
  BY DEF DeserializeComponent
<1> HIDE DEF added, i, h, held, c
<1>9. ComponentsSet(scene, i, Append(scene.components[i], added), scene')
  BY <1>2, <1>6, <1>7, <1>8, ComponentAdded
<1>10. /\ scene.components \in [Slots -> Seq(Component)]
       /\ scene'.components = [scene.components EXCEPT ![i] = Append(scene.components[i], added)]
       /\ scene'.alive = scene.alive /\ scene'.generations = scene.generations
  BY <1>2, <1>9 DEF Scenes, ComponentsSet
<1>11. Len(scene.components[i]) = item - 1 /\ scene.components[i] \in Seq(Component)
  BY <1>2, <1>6, <1>10 DEF FileInv, ComponentsTrue, h, i
<1>12. /\ Len(scene'.components[i]) = item /\ scene'.components[i][item] = added
       /\ \A j \in 1..item : j # item => /\ j \in 1..Len(scene.components[i])
                                        /\ scene'.components[i][j] = scene.components[i][j]
  <2>1. scene'.components[i] = Append(scene.components[i], added)
    BY <1>6, <1>10
  <2> QED
    BY <1>2, <1>11, <2>1
<1>13. FileTypes'
  <2>1. Loading'
    BY <1>1, <1>2, Zenon DEF FileInv, FileTypes, Loading, DocumentKept
  <2>2. item' \in Nat \ {0} /\ in_hook' \in BOOLEAN
    BY <1>2, <1>8
  <2> QED
    BY <1>1, <1>2, <1>9, <2>1, <2>2 DEF FileInv, FileTypes, DocumentKept, ComponentsSet
<1>14. Progress'
  BY <1>1, <1>2, <1>3 DEF Progress, DocumentKept, FileInv
<1>15. HandlesTrue'
  BY <1>2, <1>10, HandlesKept DEF FileInv
<1>16. ComponentsTrue'
  <2>1. ASSUME NEW x \in Slots, NEW j \in 1..Len(scene'.components[x])
        PROVE  x \in scene'.alive /\ AtHome(x, j)'
    <3>1. \A k \in 1..K : entities'[k] = entities[k] /\ HandleTo(scene', x) = HandleTo(scene, x)
      BY <1>2, <1>10 DEF HandleTo
    <3>2. CASE j \in 1..Len(scene.components[x]) /\ scene'.components[x][j] = scene.components[x][j]
      <4>1. x \in scene.alive /\ AtHome(x, j)
        BY <3>2 DEF FileInv, ComponentsTrue
      <4>2. PICK k \in 1..K :
              /\ entities[k] = HandleTo(scene, x)
              /\ Unwrapped(scene.components[x][j]).origin = doc.entities[k].uuid
        BY <1>2, <4>1 DEF AtHome
      <4>3. Unwrapped(scene'.components[x][j]).origin = doc'.entities[k].uuid
        BY <1>1, <3>2, <4>2 DEF DocumentKept
      <4> QED
        BY <1>2, <1>10, <3>1, <4>1, <4>2, <4>3 DEF AtHome
    <3>3. CASE x = i /\ j = item
      <4>1. scene'.components[x][j] = added /\ x \in scene'.alive /\ node \in 1..Len(entities')
        BY <1>2, <1>3, <1>6, <1>10, <1>12, <3>3
      <4>2. entities'[node] = HandleTo(scene', x)
        BY <1>2, <1>3, <1>6, <3>1, <3>3 DEF h
      <4>3. CASE c.type \in Known
        <5>1. /\ Unwrapped(scene'.components[x][j]).origin = None
              /\ from_python' /\ in_hook' /\ node = node' /\ j = item'
          BY <1>1, <1>2, <1>7, <1>8, <3>3, <4>1, <4>3 DEF DocumentKept
        <5> QED
          BY <4>1, <4>2, <5>1 DEF AtHome
      <4>4. CASE c.type \notin Known
        <5>1. Unwrapped(scene'.components[x][j]).origin = doc'.entities[node].uuid
          BY <1>1, <1>7, <4>1, <4>4 DEF DocumentKept
        <5> QED
          BY <4>1, <4>2, <5>1 DEF AtHome
      <4> QED
        BY <4>3, <4>4
    <3>4. CASE x # i
      BY <1>10, <3>2, <3>4
    <3>5. CASE x = i /\ j # item
      BY <1>12, <3>2, <3>5
    <3> QED
      BY <3>3, <3>4, <3>5
  <2>2. in_hook' => Valid(scene', entities'[node']) /\ item' <= Len(doc'.entities[node'].components)
    BY <1>1, <1>2, <1>8, <1>10 DEF Valid, DocumentKept, h, held
  <2>3. Len(scene'.components[entities'[node'].index]) = IF in_hook' THEN item' ELSE item' - 1
    <3>1. Len(scene'.components[entities'[node'].index]) = item
      BY <1>2, <1>12 DEF h, i
    <3>2. CASE c.type \in Known
      <4>1. in_hook' /\ item' = item
        BY <1>8, <3>2, Zenon
      <4> QED
        BY <3>1, <4>1, Zenon
    <3>3. CASE c.type \notin Known
      <4>1. item' - 1 = item
        BY <1>2, <1>8, <3>3
      <4>2. ~in_hook'
        BY <1>8, <3>3, Zenon
      <4> QED
        BY <3>1, <4>1, <4>2, Zenon
    <3> QED
      BY <3>2, <3>3
  <2> QED
    BY <2>1, <2>2, <2>3 DEF ComponentsTrue
<1> QED
  BY <1>1, <1>2, <1>13, <1>14, <1>15, <1>16 DEF FileInv, DocumentKept

LEMMA FillComponentKeeps == ASSUME FileInv, FillComponent PROVE FileInv'
<1> DEFINE K == Len(entities)
           h == entities[node]
           held == doc.entities[node].components
           i == h.index
           q == [scene.components[i] EXCEPT ![item] = held[item]]
<1>1. DocumentKept /\ DocumentNests
  BY DocumentStays DEF FileInv, FillComponent
<1>2. /\ from_python /\ in_hook /\ in_hook' = FALSE /\ item' = item + 1
      /\ scene' = [scene EXCEPT !.components[i][item] = held[item]]
      /\ UNCHANGED <<phase, entities, node, hooks, freed>>
      /\ scene \in Scenes /\ FreeSlots(scene) /\ item \in Nat \ {0}
      /\ K \in Nat /\ entities \in Seq(Handles) /\ K <= Len(doc.entities)
      /\ node \in Nat \ {0}
  BY DEF FileInv, FillComponent, FileTypes, Loading
<1>3. phase = "components" /\ node = K
  BY <1>2 DEF FileInv, Progress
<1>4. Len(doc.entities) \in Nat /\ node \in 1..K /\ node \in 1..Len(doc.entities)
  <2>1. Len(doc.entities) \in Nat
    BY <1>1, LinksAre
  <2> QED
    BY <1>2, <1>3, <2>1
<1>5. h \in Handles /\ held \in Seq(Kept)
      /\ \A j \in 1..Len(held) : Unwrapped(held[j]).origin = doc.entities[node].uuid
  <2>1. doc.entities[node] \in EntityDatum
    BY <1>1, <1>4, LinksAre
  <2>2. held \in Seq(Kept)
    BY <2>1 DEF EntityDatum
  <2>3. h \in Handles
    BY <1>2, <1>4
  <2>4. \A j \in 1..Len(held) : Unwrapped(held[j]).origin = doc.entities[node].uuid
    BY <1>1, <1>4 DEF DocumentNests
  <2> QED
    BY <2>2, <2>3, <2>4
<1>6. Valid(scene, h) /\ item <= Len(held) /\ Len(scene.components[i]) = item
  BY <1>2, <1>3 DEF FileInv, ComponentsTrue
<1>7. i \in Slots /\ i \in scene.alive /\ h = HandleTo(scene, i)
  BY <1>5, <1>6 DEF Valid, Handles, HandleTo
<1>8. held[item] \in Component /\ Unwrapped(held[item]).origin = doc.entities[node].uuid
  <2>1. item \in 1..Len(held)
    BY <1>2, <1>5, <1>6
  <2>2. held[item] \in Kept
    BY <1>5, <2>1
  <2> QED
    BY <1>5, <2>1, <2>2, MadeIs
<1>9. scene.components \in [Slots -> Seq(Component)] /\ scene.components[i] \in Seq(Component)
  BY <1>2, <1>7 DEF Scenes
<1>10. /\ q \in Seq(Component) /\ Len(q) = item /\ q[item] = held[item]
       /\ \A j \in 1..item : j # item => q[j] = scene.components[i][j]
  <2> DEFINE c == held[item]
             old == scene.components[i]
  <2>1. old \in Seq(Component) /\ c \in Component /\ item \in 1..Len(old) /\ Len(old) = item
    BY <1>2, <1>6, <1>8, <1>9
  <2> HIDE DEF c, old
  <2>2. /\ [old EXCEPT ![item] = c] \in Seq(Component) /\ Len([old EXCEPT ![item] = c]) = item
        /\ [old EXCEPT ![item] = c][item] = c
        /\ \A j \in 1..item : j # item => [old EXCEPT ![item] = c][j] = old[j]
    BY <2>1
  <2> QED
    BY <2>2 DEF c, old
<1>11. ComponentsSet(scene, i, q, scene')
  <2>1. scene' = [scene EXCEPT !.components = [scene.components EXCEPT ![i] = q]]
    <3> HIDE DEF held, i
    <3> QED
      BY <1>2 DEF Scenes
  <2> HIDE DEF q, i
  <2>2. [scene.components EXCEPT ![i] = q] \in [Slots -> Seq(Component)]
    BY <1>9, <1>10
  <2> QED
    BY <1>2, <2>1, <2>2 DEF Scenes, FreeSlots, ComponentsSet
<1> HIDE DEF q, i, h, held
<1>12. /\ scene'.components = [scene.components EXCEPT ![i] = q]
       /\ scene'.alive = scene.alive /\ scene'.generations = scene.generations
       /\ scene'.components[i] = q
  BY <1>7, <1>9, <1>11 DEF ComponentsSet
<1>13. FileTypes'
  <2>1. Loading'
    BY <1>1, <1>2, Zenon DEF FileInv, FileTypes, Loading, DocumentKept
  <2>2. item' \in Nat \ {0}
    BY <1>2
  <2>3. in_hook' \in BOOLEAN
    BY <1>2, Zenon
  <2> QED
    BY <1>1, <1>2, <1>11, <2>1, <2>2, <2>3 DEF FileInv, FileTypes, DocumentKept, ComponentsSet
<1>14. Progress'
  BY <1>1, <1>2, <1>3 DEF Progress, DocumentKept, FileInv
<1>15. HandlesTrue'
  BY <1>2, <1>12, HandlesKept DEF FileInv
<1>16. ComponentsTrue'
  <2>1. ASSUME NEW x \in Slots, NEW j \in 1..Len(scene'.components[x])
        PROVE  x \in scene'.alive /\ AtHome(x, j)'
    <3>1. \A k \in 1..K : entities'[k] = entities[k] /\ HandleTo(scene', x) = HandleTo(scene, x)
      BY <1>2, <1>12 DEF HandleTo
    <3>2. CASE /\ j \in 1..Len(scene.components[x]) /\ scene'.components[x][j] = scene.components[x][j]
               /\ ~(x = i /\ j = item)
      <4>1. x \in scene.alive /\ AtHome(x, j)
        BY <3>2 DEF FileInv, ComponentsTrue
      <4>2. PICK k \in 1..K :
              /\ entities[k] = HandleTo(scene, x)
              /\ \/ Unwrapped(scene.components[x][j]).origin = doc.entities[k].uuid
                 \/ k = node /\ j = item
        BY <4>1 DEF AtHome
      <4>3. ~(k = node /\ j = item)
        <5>1. k = node => x = i
          BY <4>2 DEF HandleTo, h, i
        <5> QED
          BY <3>2, <5>1
      <4>4. Unwrapped(scene'.components[x][j]).origin = doc'.entities[k].uuid
        BY <1>1, <3>2, <4>2, <4>3 DEF DocumentKept
      <4> QED
        BY <1>2, <1>12, <3>1, <4>1, <4>2, <4>4 DEF AtHome
    <3>3. CASE x = i /\ j = item
      <4>1. scene'.components[x][j] = held[item] /\ x \in scene'.alive /\ node \in 1..Len(entities')
        BY <1>2, <1>4, <1>7, <1>10, <1>12, <3>3
      <4>2. entities'[node] = HandleTo(scene', x)
        BY <1>2, <1>4, <1>7, <3>1, <3>3 DEF h
      <4>3. Unwrapped(scene'.components[x][j]).origin = doc'.entities[node].uuid
        BY <1>1, <1>8, <4>1 DEF DocumentKept
      <4> QED
        BY <4>1, <4>2, <4>3 DEF AtHome
    <3>4. CASE x # i
      <4>1. scene'.components[x] = scene.components[x]
        BY <1>9, <1>12, <3>4
      <4> QED
        BY <3>2, <3>4, <4>1
    <3>5. CASE x = i /\ j # item
      <4>1. j \in 1..item /\ j \in 1..Len(scene.components[x])
        BY <1>6, <1>10, <1>12, <3>5 DEF i
      <4> QED
        BY <1>10, <1>12, <3>2, <3>5, <4>1
    <3> QED
      BY <3>3, <3>4, <3>5
  <2>2. Len(scene'.components[entities'[node'].index]) = item' - 1
    <3>1. Len(scene'.components[entities'[node'].index]) = item
      BY <1>2, <1>10, <1>12 DEF h, i
    <3> QED
      BY <1>2, <3>1
  <2> QED
    BY <1>2, <2>1, <2>2 DEF ComponentsTrue
<1> QED
  BY <1>1, <1>2, <1>13, <1>14, <1>15, <1>16 DEF FileInv, DocumentKept

\* The hooks of a load run while its components come.
LEMMA HookFacts ==
  ASSUME FileInv, in_hook
  PROVE  /\ phase = "components" /\ scene \in Scenes /\ FreeSlots(scene)
         /\ Len(entities) \in Nat /\ entities \in Seq(Handles)
         /\ \A k \in 1..Len(entities) : entities[k] \in Handles
         /\ from_python => /\ node \in 1..Len(entities) /\ Valid(scene, entities[node])
                           /\ Len(scene.components[entities[node].index]) = item
                           /\ item <= Len(doc.entities[node].components)
<1>1. phase = "components"
  BY DEF FileInv, Progress
<1>2. scene \in Scenes /\ FreeSlots(scene) /\ Len(entities) \in Nat /\ entities \in Seq(Handles)
  BY DEF FileInv, FileTypes, Loading
<1>3. ASSUME from_python PROVE node \in 1..Len(entities)
  <2>1. node \in Nat \ {0} /\ node = Len(entities)
    BY <1>1, <1>3 DEF FileInv, FileTypes, Progress
  <2> QED
    BY <2>1
<1> QED
  BY <1>1, <1>2, <1>3 DEF FileInv, ComponentsTrue

\* A slot whose generation stands holds the component that a hook could not
\* touch.
LEMMA HookKeepsHome ==
  ASSUME FileInv, in_hook, in_hook' = in_hook, doc' = doc, entities' = entities,
         node' = node, item' = item, from_python' = from_python,
         NEW x \in Slots, scene'.components[x] = scene.components[x],
         scene'.generations[x] = scene.generations[x],
         NEW j \in 1..Len(scene'.components[x])
  PROVE  x \in scene.alive /\ AtHome(x, j)'
<1>1. x \in scene.alive /\ AtHome(x, j)
  BY DEF FileInv, ComponentsTrue
<1> QED
  BY <1>1 DEF AtHome, HandleTo

LEMMA HookMakesKeeps == ASSUME FileInv, HookMakes PROVE FileInv'
<1> DEFINE i == Last(scene.free_stack)
<1>1. DocumentKept /\ DocumentNests
  BY DocumentStays DEF FileInv, HookMakes
<1>2. /\ in_hook /\ hooks' = hooks + 1
      /\ UNCHANGED <<phase, entities, item, node, in_hook, freed>>
      /\ in_hook' = in_hook
  BY DEF HookMakes
<1>3. EntityMade(scene, Fresh, i, scene')
  <2>1. scene.free_stack # <<>> /\ Fresh \in SceneUuid /\ scene' = WithEntity(scene, Fresh)
    BY DEF HookMakes, SceneUuid
  <2>2. scene \in Scenes /\ FreeSlots(scene)
    BY <1>2, HookFacts
  <2> QED
    BY <2>1, <2>2, NewEntity
<1> HIDE DEF i
<1>4. /\ scene.components \in [Slots -> Seq(Component)] /\ scene.uuid \in [Slots -> SceneUuid]
      /\ scene.parent \in [Slots -> Slots \cup {None}] /\ scene.children \in [Slots -> Seq(Slots)]
  BY <1>2, HookFacts DEF Scenes
<1>5. /\ i \in Slots /\ i \notin scene.alive /\ scene'.alive = scene.alive \cup {i}
      /\ scene'.generations = scene.generations
      /\ scene'.components[i] = <<>> /\ scene'.children[i] = <<>>
      /\ \A x \in Slots : x # i => /\ scene'.components[x] = scene.components[x]
                                   /\ scene'.uuid[x] = scene.uuid[x]
                                   /\ scene'.parent[x] = scene.parent[x]
                                   /\ scene'.children[x] = scene.children[x]
  BY <1>3, <1>4 DEF EntityMade
<1>6. FileTypes'
  <2>1. Loading' /\ hooks' \in Nat
    BY <1>1, <1>2 DEF FileInv, FileTypes, Loading, DocumentKept
  <2>2. scene' \in Scenes /\ FreeSlots(scene')
    BY <1>3 DEF EntityMade
  <2> QED
    BY <1>1, <1>2, <2>1, <2>2, Zenon DEF FileInv, FileTypes, DocumentKept
<1>7. Progress'
  BY <1>1, <1>2, Zenon DEF FileInv, Progress, DocumentKept
<1>8. \A h \in Handles : Valid(scene, h) => Valid(scene', h) /\ h.index # i
  BY <1>5 DEF Valid
<1>9. HandlesTrue'
  BY <1>2, <1>5, <1>8, HookFacts DEF FileInv, HandlesTrue
<1>10. ComponentsTrue'
  <2>1. ASSUME NEW x \in Slots, NEW j \in 1..Len(scene'.components[x])
        PROVE  x \in scene'.alive /\ AtHome(x, j)'
    <3>1. x # i
      BY <1>5
    <3>2. scene'.components[x] = scene.components[x] /\ scene'.generations[x] = scene.generations[x]
      BY <1>5, <3>1
    <3>3. x \in scene.alive /\ AtHome(x, j)'
      BY <1>1, <1>2, <3>2, HookKeepsHome DEF DocumentKept
    <3> QED
      BY <1>5, <3>3
  <2>2. ASSUME from_python
        PROVE  /\ Valid(scene', entities[node]) /\ item <= Len(doc.entities[node].components)
               /\ Len(scene'.components[entities[node].index]) = item
    <3>1. /\ Valid(scene, entities[node]) /\ entities[node] \in Handles
          /\ Len(scene.components[entities[node].index]) = item
          /\ item <= Len(doc.entities[node].components)
      BY <1>2, <2>2, HookFacts
    <3>2. entities[node].index # i /\ Valid(scene', entities[node]) /\ entities[node].index \in Slots
      BY <1>8, <3>1 DEF Handles
    <3> QED
      BY <1>5, <3>1, <3>2
  <2>3. in_hook' /\ node' = node /\ item' = item /\ entities' = entities
    BY <1>2
  <2> QED
    BY <1>1, <2>1, <2>2, <2>3, Zenon DEF ComponentsTrue, DocumentKept
<1>11. ASSUME ~from_python PROVE ChildrenTrue' /\ LoadedTrue'
  <2>1. ChildrenTrue /\ LoadedTrue
    BY <1>11 DEF FileInv
  <2>2. ASSUME NEW x \in Slots
        PROVE  /\ IsInjective(scene'.children[x])
               /\ \A j \in ToSet(scene'.children[x]) : j \in scene'.alive /\ scene'.parent[j] = x
    <3>1. CASE x = i
      BY <1>5, <3>1 DEF IsInjective, ToSet
    <3>2. CASE x # i
      <4>1. /\ scene'.children[x] = scene.children[x] /\ IsInjective(scene.children[x])
            /\ \A j \in ToSet(scene.children[x]) : j \in scene.alive /\ scene.parent[j] = x
        BY <1>5, <2>1, <3>2 DEF ChildrenTrue
      <4>2. ToSet(scene.children[x]) \subseteq Slots
        BY <1>4 DEF ToSet
      <4> QED
        BY <1>5, <4>1, <4>2
    <3> QED
      BY <3>1, <3>2
  <2>3. ChildrenTrue'
    BY <2>2 DEF ChildrenTrue
  <2>4. ASSUME NEW k \in 1..Len(entities), entities[k] \notin freed
        PROVE  /\ scene'.uuid[entities[k].index] = doc.entities[k].uuid
               /\ Links[k] > 0 /\ entities[Links[k]] \notin freed =>
                    scene'.parent[entities[k].index] = entities[Links[k]].index
    <3>1. Valid(scene, entities[k]) /\ entities[k] \in Handles
      BY <1>2, <2>4, HookFacts DEF FileInv, HandlesTrue
    <3>2. entities[k].index # i /\ entities[k].index \in Slots
      BY <1>8, <3>1 DEF Handles
    <3>3. /\ scene.uuid[entities[k].index] = doc.entities[k].uuid
          /\ Links[k] > 0 /\ entities[Links[k]] \notin freed =>
               scene.parent[entities[k].index] = entities[Links[k]].index
      BY <2>1, <2>4 DEF LoadedTrue
    <3> QED
      BY <1>5, <3>2, <3>3
  <2>5. LoadedTrue'
    BY <1>1, <1>2, <2>4 DEF LoadedTrue, DocumentKept
  <2> QED
    BY <2>3, <2>5
<1> QED
  BY <1>1, <1>6, <1>7, <1>9, <1>10, <1>11 DEF FileInv, DocumentKept

LEMMA HookFreesKeeps == ASSUME FileInv, NEW i \in Slots, HookFrees(i) PROVE FileInv'
<1>1. DocumentKept /\ DocumentNests
  BY DocumentStays DEF FileInv, HookFrees
<1>2. /\ in_hook /\ hooks' = hooks + 1 /\ freed' = freed \cup {HandleTo(scene, i)}
      /\ UNCHANGED <<phase, entities, item, node, in_hook>>
      /\ in_hook' = in_hook
      /\ from_python => i # entities[node].index
  BY DEF HookFrees
<1>3. EntityFreed(scene, i, scene')
  <2>1. scene \in Scenes /\ FreeSlots(scene) /\ i \in scene.alive /\ scene' = WithoutEntity(scene, i)
    BY <1>2, HookFacts DEF HookFrees
  <2> QED
    BY <2>1, FreedEntity
<1>4. /\ scene.components \in [Slots -> Seq(Component)] /\ scene.generations \in [Slots -> Nat]
      /\ scene.parent \in [Slots -> Slots \cup {None}] /\ scene.children \in [Slots -> Seq(Slots)]
  BY <1>2, HookFacts DEF Scenes
<1>5. /\ scene'.alive = scene.alive \ {i} /\ scene'.uuid = scene.uuid
      /\ scene'.generations[i] = scene.generations[i] + 1
      /\ scene'.components[i] = <<>> /\ scene'.children[i] = <<>>
      /\ \A x \in Slots : x # i => /\ scene'.components[x] = scene.components[x]
                                   /\ scene'.generations[x] = scene.generations[x]
                                   /\ scene'.children[x] = SwapRemove(scene.children[x], i)
      /\ \A x \in Slots : scene'.parent[x] = IF x \in ToSet(scene.children[i]) THEN None
                                             ELSE scene.parent[x]
  BY <1>3, <1>4 DEF EntityFreed
<1> DEFINE h0 == HandleTo(scene, i)
<1>6. h0 \in Handles /\ h0.index = i /\ h0.generation = scene.generations[i]
  BY <1>4 DEF HandleTo, Handles
<1> HIDE DEF h0
<1>7. freed' = freed \cup {h0}
  BY <1>2 DEF h0
<1>8. \A h \in Handles : Valid(scene, h) => \/ h = h0
                                            \/ h.index # i /\ Valid(scene', h)
  <2>1. ASSUME NEW h \in Handles, Valid(scene, h), h.index = i PROVE h = h0
    BY <1>6, <2>1 DEF Valid, Handles
  <2>2. ASSUME NEW h \in Handles, Valid(scene, h), h.index # i PROVE Valid(scene', h)
    BY <1>5, <2>2 DEF Valid, Handles
  <2> QED
    BY <2>1, <2>2
<1>9. FileTypes'
  <2>1. Loading' /\ hooks' \in Nat
    BY <1>1, <1>2 DEF FileInv, FileTypes, Loading, DocumentKept
  <2>2. scene' \in Scenes /\ FreeSlots(scene')
    BY <1>3 DEF EntityFreed
  <2>3. freed' \subseteq Handles
    BY <1>6, <1>7 DEF FileInv, FileTypes
  <2> QED
    BY <1>1, <1>2, <2>1, <2>2, <2>3, Zenon DEF FileInv, FileTypes, DocumentKept
<1>10. Progress'
  <2>1. phase = "components" /\ phase # "done"
    BY <1>2, HookFacts
  <2> QED
    BY <1>1, <1>2, <2>1 DEF FileInv, Progress, DocumentKept
<1>11. HandlesTrue'
  <2>1. ASSUME NEW k \in 1..Len(entities) PROVE Valid(scene', entities[k]) \/ entities[k] \in freed'
    <3>1. entities[k] \in Handles /\ (Valid(scene, entities[k]) \/ entities[k] \in freed)
      BY <1>2, HookFacts DEF FileInv, HandlesTrue
    <3> QED
      BY <1>7, <1>8, <3>1
  <2>2. ASSUME NEW h \in freed' PROVE h.generation < scene'.generations[h.index]
    <3>1. CASE h = h0
      BY <1>4, <1>5, <1>6, <3>1
    <3>2. CASE h # h0
      <4>1. h \in freed /\ h.generation < scene.generations[h.index] /\ h \in Handles
        BY <1>7, <2>2, <3>2 DEF FileInv, HandlesTrue, FileTypes
      <4>2. h.generation \in Nat /\ h.index \in Slots /\ scene.generations[h.index] \in Nat
        BY <1>4, <4>1 DEF Handles
      <4> QED
        BY <1>5, <4>1, <4>2
    <3> QED
      BY <3>1, <3>2
  <2>3. entities' = entities
    BY <1>2
  <2> QED
    BY <2>1, <2>2, <2>3 DEF HandlesTrue
<1>12. ComponentsTrue'
  <2>1. ASSUME NEW x \in Slots, NEW j \in 1..Len(scene'.components[x])
        PROVE  x \in scene'.alive /\ AtHome(x, j)'
    <3>1. x # i
      BY <1>5
    <3>2. scene'.components[x] = scene.components[x] /\ scene'.generations[x] = scene.generations[x]
      BY <1>5, <3>1
    <3>3. x \in scene.alive /\ AtHome(x, j)'
      BY <1>1, <1>2, <3>2, HookKeepsHome DEF DocumentKept
    <3> QED
      BY <1>5, <3>1, <3>3
  <2>2. ASSUME from_python
        PROVE  /\ Valid(scene', entities[node]) /\ item <= Len(doc.entities[node].components)
               /\ Len(scene'.components[entities[node].index]) = item
    <3>1. /\ Valid(scene, entities[node]) /\ entities[node] \in Handles
          /\ Len(scene.components[entities[node].index]) = item
          /\ item <= Len(doc.entities[node].components)
      BY <1>2, <2>2, HookFacts
    <3>2. entities[node].index # i /\ entities[node].index \in Slots
      BY <1>2, <2>2, <3>1 DEF Handles
    <3> QED
      BY <1>5, <1>6, <1>8, <3>1, <3>2
  <2>3. in_hook' /\ node' = node /\ item' = item /\ entities' = entities
    BY <1>2
  <2> QED
    BY <1>1, <2>1, <2>2, <2>3, Zenon DEF ComponentsTrue, DocumentKept
<1>13. ASSUME ~from_python PROVE ChildrenTrue' /\ LoadedTrue'
  <2>1. ChildrenTrue /\ LoadedTrue
    BY <1>13 DEF FileInv
  <2>2. ASSUME NEW x \in Slots
        PROVE  /\ IsInjective(scene'.children[x])
               /\ \A j \in ToSet(scene'.children[x]) : j \in scene'.alive /\ scene'.parent[j] = x
    <3>1. CASE x = i
      BY <1>5, <3>1 DEF IsInjective, ToSet
    <3>2. CASE x # i
      <4>1. /\ scene.children[x] \in Seq(Slots) /\ IsInjective(scene.children[x])
            /\ \A j \in ToSet(scene.children[x]) : j \in scene.alive /\ scene.parent[j] = x
            /\ \A j \in ToSet(scene.children[i]) : scene.parent[j] = i
        BY <1>4, <2>1 DEF ChildrenTrue
      <4>2. /\ ToSet(scene'.children[x]) = ToSet(scene.children[x]) \ {i}
            /\ IsInjective(scene'.children[x])
        BY <1>5, <3>2, <4>1, SwapRemoveItems
      <4>3. ToSet(scene.children[x]) \subseteq Slots
        BY <4>1 DEF ToSet
      <4> QED
        BY <1>5, <3>2, <4>1, <4>2, <4>3
    <3> QED
      BY <3>1, <3>2
  <2>3. ChildrenTrue'
    BY <2>2 DEF ChildrenTrue
  <2>4. ASSUME NEW k \in 1..Len(entities), entities[k] \notin freed'
        PROVE  /\ scene'.uuid[entities[k].index] = doc.entities[k].uuid
               /\ Links[k] > 0 /\ entities[Links[k]] \notin freed' =>
                    scene'.parent[entities[k].index] = entities[Links[k]].index
    <3>1. entities[k] \notin freed /\ entities[k] # h0
      BY <1>7, <2>4
    <3>2. Valid(scene, entities[k]) /\ entities[k] \in Handles
      BY <1>2, <3>1, HookFacts DEF FileInv, HandlesTrue
    <3>3. entities[k].index # i /\ entities[k].index \in Slots
      BY <1>8, <3>1, <3>2 DEF Handles
    <3>4. /\ scene.uuid[entities[k].index] = doc.entities[k].uuid
          /\ Links[k] > 0 /\ entities[Links[k]] \notin freed =>
               scene.parent[entities[k].index] = entities[Links[k]].index
      BY <2>1, <3>1 DEF LoadedTrue
    <3>5. ASSUME Links[k] > 0, entities[Links[k]] \notin freed'
          PROVE  scene'.parent[entities[k].index] = entities[Links[k]].index
      <4>1. entities[Links[k]] \notin freed /\ entities[Links[k]] # h0
        BY <1>7, <3>5
      <4>2. scene.parent[entities[k].index] = entities[Links[k]].index
        BY <3>4, <3>5, <4>1
      <4>3. Links[k] \in 1..Len(entities)
        <5>1. k \in 1..Len(doc.entities) /\ k \in Nat /\ Len(entities) \in Nat /\ k <= Len(entities)
          BY <1>2, HookFacts, LinksAre, <1>1 DEF FileInv, FileTypes, Loading
        <5>2. Links[k] \in 0..k-1
          BY <1>1, <5>1, LinksAre
        <5> QED
          BY <3>5, <5>1, <5>2
      <4>4. Valid(scene, entities[Links[k]]) /\ entities[Links[k]] \in Handles
        BY <1>2, <4>1, <4>3, HookFacts DEF FileInv, HandlesTrue
      <4>5. entities[Links[k]].index # i
        BY <1>8, <4>1, <4>4
      <4>6. entities[k].index \notin ToSet(scene.children[i])
        BY <2>1, <4>2, <4>5 DEF ChildrenTrue
      <4> QED
        BY <1>5, <3>3, <4>2, <4>6
    <3> QED
      BY <1>5, <3>4, <3>5
  <2>5. LoadedTrue'
    BY <1>1, <1>2, <2>4 DEF LoadedTrue, DocumentKept
  <2> QED
    BY <2>3, <2>5
<1> QED
  BY <1>1, <1>9, <1>10, <1>11, <1>12, <1>13 DEF FileInv, DocumentKept

\* FileInv: where a load stands, whatever hooks have done so far.
THEOREM FileInvariant == FileSpec => []FileInv
<1>1. FileInit => FileInv
  BY AtFirst
<1>2. ASSUME FileInv, [FileNext]_fileVars PROVE FileInv'
  <2>1. CASE Settings
    BY <1>2, <2>1, SettingsKeeps
  <2>2. CASE LoadEntity
    BY <1>2, <2>2, LoadEntityKeeps
  <2>3. CASE LoadComponent
    BY <1>2, <2>3, LoadComponentKeeps
  <2>4. CASE Finish
    BY <1>2, <2>4, FinishKeeps
  <2>5. CASE DeserializeEntity
    BY <1>2, <2>5, DeserializeEntityKeeps
  <2>6. CASE DeserializeComponent
    BY <1>2, <2>6, DeserializeComponentKeeps
  <2>7. CASE FillComponent
    BY <1>2, <2>7, FillComponentKeeps
  <2>8. CASE DeserializeReturns
    BY <1>2, <2>8, DeserializeReturnsKeeps
  <2>9. CASE \E i \in Slots : HookFrees(i)
    BY <1>2, <2>9, HookFreesKeeps
  <2>10. CASE HookMakes
    BY <1>2, <2>10, HookMakesKeeps
  <2>11. CASE UNCHANGED fileVars
    <3>1. UNCHANGED <<saved, scene, phase, entities, item, node, in_hook, hooks, from_python, freed>>
      BY <2>11 DEF fileVars, loadVars
    <3>2. DocumentKept
      BY <1>2, <3>1, DocumentStays DEF FileInv
    <3>3. FileTypes' /\ Progress' /\ HandlesTrue' /\ ChildrenTrue' = ChildrenTrue
          /\ LoadedTrue' = LoadedTrue
      BY <1>2, <3>1, <3>2 DEF FileInv, FileTypes, Loading, Progress, HandlesTrue, Valid,
         ChildrenTrue, LoadedTrue, DocumentKept
    <3>4. ComponentsTrue'
      BY <1>2, <3>1, <3>2 DEF FileInv, ComponentsTrue, AtHome, HandleTo, Valid, DocumentKept
    <3> QED
      BY <1>2, <3>1, <3>2, <3>3, <3>4 DEF FileInv, DocumentKept
  <2> QED
    BY <1>2, <2>1, <2>2, <2>3, <2>4, <2>5, <2>6, <2>7, <2>8, <2>9, <2>10, <2>11, Zenon DEF FileNext
<1> QED
  BY <1>1, <1>2, PTL DEF FileSpec

\* HooksSeeWholeScene: the hooks that run while load_from_data loads components
\* see every entity of the document, where no hook freed it.
THEOREM HooksAlwaysSeeWholeScene == FileSpec => []HooksSeeWholeScene
<1>1. ASSUME FileInv PROVE HooksSeeWholeScene
  <2> SUFFICES ASSUME in_hook, ~from_python
               PROVE  /\ Len(entities) = Len(doc.entities)
                      /\ \A k \in 1..Len(entities) : entities[k] \notin freed =>
                           /\ Valid(scene, entities[k])
                           /\ scene.uuid[entities[k].index] = doc.entities[k].uuid
                           /\ doc.entities[k].above > 0
                                /\ entities[doc.entities[k].above] \notin freed =>
                                scene.parent[entities[k].index]
                                  = entities[doc.entities[k].above].index
    BY DEF HooksSeeWholeScene
  <2>1. Len(entities) = Len(doc.entities)
    BY <1>1, HookFacts DEF FileInv, Progress
  <2>2. DocumentNests /\ HandlesTrue /\ LoadedTrue
    BY <1>1, DocumentIs DEF FileInv
  <2>3. \A k \in 1..Len(entities) : doc.entities[k].above = Links[k]
    BY <2>1, <2>2, LinksAre
  <2> QED
    BY <2>1, <2>2, <2>3 DEF HandlesTrue, LoadedTrue
<1> QED
  BY <1>1, FileInvariant, PTL

\* NoStrayComponent: whatever hooks free and make, a component comes into the
\* entity it was saved in.
THEOREM NoComponentStrays == FileSpec => []NoStrayComponent
<1>1. ASSUME FileInv PROVE NoStrayComponent
  <2> SUFFICES ASSUME NEW i \in scene.alive, NEW c \in ToSet(scene.components[i])
               PROVE  \E k \in 1..Len(entities) :
                        /\ entities[k] = HandleTo(scene, i)
                        /\ \/ Unwrapped(c).origin = doc.entities[k].uuid
                           \/ Unwrapped(c).origin = None /\ from_python /\ in_hook /\ k = node
    BY DEF NoStrayComponent
  <2>1. scene \in Scenes
    BY <1>1 DEF FileInv, FileTypes
  <2>2. i \in Slots /\ scene.components[i] \in Seq(Component)
    BY <2>1 DEF Scenes
  <2>3. PICK j \in 1..Len(scene.components[i]) : scene.components[i][j] = c
    BY <2>2 DEF ToSet
  <2>4. AtHome(i, j)
    BY <1>1, <2>2 DEF FileInv, ComponentsTrue
  <2> QED
    BY <2>3, <2>4 DEF AtHome
<1> QED
  BY <1>1, FileInvariant, PTL

-----------------------------------------------------------------------------
(* A load during which no hook does anything                               *)

\* The places whose entities have been hung below their parents.
HungPlaces ==
  { k \in 1..Len(entities) :
      ~from_python \/ \E m \in k..Len(entities) : /\ k \in Returning(m)
                                                  /\ phase = "components" => m < Len(entities) }

\* How many of the components of the entity at place k are in it.
Filled(k) ==
  IF k < node \/ (from_python /\ phase # "components") THEN Len(doc.entities[k].components)
  ELSE IF k = node THEN item - 1
  ELSE 0

\* What has come from the document into the entity at place k.
Loaded(k) ==
  /\ entities[k] = [index |-> k-1, generation |-> 0]
  /\ ~from_python => scene.uuid[k-1] = doc.entities[k].uuid
  /\ Filled(k) <= Len(doc.entities[k].components)
  /\ Len(scene.components[k-1]) = IF from_python /\ in_hook /\ k = node THEN item ELSE Filled(k)
  /\ \A j \in 1..Filled(k) : scene.components[k-1][j] = Made(doc.entities[k].components[j])

\* Each of n entities has taken the next slot.
InOrder(s, n) ==
  /\ n <= Capacity
  /\ s.alive = 0..n-1 /\ s.serializable = 0..n-1
  /\ \A i \in Slots : s.generations[i] = 0
  /\ Len(s.free_stack) = Capacity - n
  /\ \A m \in 1..Capacity-n : s.free_stack[m] = Capacity - m

\* Of n entities, those at the places in H hang below their parents, in order.
Hanging(s, n, H) ==
  /\ \A k \in 1..n : s.parent[k-1] = IF k \in H /\ Links[k] > 0 THEN Links[k] - 1 ELSE None
  /\ Ascending(s.children)
  /\ \A i \in Slots : ToSet(s.children[i]) = { j \in 0..n-1 : s.parent[j] = i }

\* A scene that no hook has touched has the entities in their order in its first
\* slots.
Untouched ==
  /\ freed = {}
  /\ InOrder(scene, Len(entities))
  /\ \A k \in 1..Len(entities) : Loaded(k)
  /\ Hanging(scene, Len(entities), HungPlaces)
  /\ scene.layer_name = IF update_settings /\ phase # "settings" THEN doc.layer_name ELSE None
  /\ phase = "done" => from_python \/ node > Len(entities)
  /\ phase \in {"settings", "entities"} /\ ~from_python => node = 1 /\ item = 1
  /\ from_python /\ in_hook => doc.entities[node].components[item].type \in Known

UntouchedInv == hooks = 0 => Untouched

\* The free stack hands out the slots in their order.
LEMMA TopSlot ==
  ASSUME NEW s \in Scenes, NEW n \in Nat, InOrder(s, n), s.free_stack # <<>>
  PROVE  /\ Last(s.free_stack) = n /\ n < Capacity /\ n \in Slots
         /\ HandleTo(s, n) = [index |-> n, generation |-> 0]
<1>1. s.free_stack \in Seq(Slots) /\ Len(s.free_stack) = Capacity - n /\ Capacity \in Nat
  BY FileAssumption DEF InOrder, Scenes
<1>2. Len(s.free_stack) > 0
  BY <1>1
<1>3. n < Capacity /\ n \in Slots /\ Capacity - n \in 1..Capacity - n
  BY <1>1, <1>2 DEF Slots
<1>4. Last(s.free_stack) = n
  <2>1. s.free_stack[Capacity - n] = Capacity - (Capacity - n)
    BY <1>3 DEF InOrder
  <2> QED
    BY <1>1, <2>1 DEF Last
<1>5. s.generations[n] = 0
  BY <1>3 DEF InOrder
<1> QED
  BY <1>3, <1>4, <1>5 DEF HandleTo

\* The next entity takes the next slot.
LEMMA OneMoreInOrder ==
  ASSUME NEW s \in Scenes, NEW n \in Nat, InOrder(s, n), s.free_stack # <<>>,
         NEW u, NEW t, EntityMade(s, u, n, t)
  PROVE  InOrder(t, n+1)
<1>1. s.free_stack \in Seq(Slots) /\ Len(s.free_stack) = Capacity - n /\ Capacity \in Nat
  BY FileAssumption DEF InOrder, Scenes
<1>2. n < Capacity
  BY TopSlot
<1>3. /\ t.alive = s.alive \cup {n} /\ t.serializable = s.serializable \cup {n}
      /\ t.generations = s.generations /\ t.free_stack = Front(s.free_stack)
  BY DEF EntityMade
<1>4. 0..(n+1)-1 = (0..n-1) \cup {n}
  OBVIOUS
<1>5. t.alive = 0..(n+1)-1 /\ t.serializable = 0..(n+1)-1
  BY <1>3, <1>4 DEF InOrder
<1>6. /\ Len(Front(s.free_stack)) = Capacity - (n+1)
      /\ \A m \in 1..Capacity-(n+1) : Front(s.free_stack)[m] = s.free_stack[m]
  BY <1>1, <1>2 DEF Front
<1>7. \A m \in 1..Capacity-(n+1) : m \in 1..Capacity-n
  BY <1>1, <1>2
<1>8. \A m \in 1..Capacity-(n+1) : t.free_stack[m] = Capacity - m
  BY <1>3, <1>6, <1>7 DEF InOrder
<1> QED
  BY <1>1, <1>2, <1>3, <1>5, <1>6, <1>8 DEF InOrder

\* A new entity hangs nowhere yet.
LEMMA OneMoreHanging ==
  ASSUME DocumentNests, NEW s \in Scenes, NEW n \in Nat, n < Len(doc.entities),
         NEW H, H \subseteq 1..n, n < Capacity,
         Hanging(s, n, H), NEW u, NEW t, EntityMade(s, u, n, t)
  PROVE  Hanging(t, n+1, H)
<1>1. /\ s.parent \in [Slots -> Slots \cup {None}] /\ s.children \in [Slots -> Seq(Slots)]
      /\ Capacity \in Nat
  BY FileAssumption DEF Scenes
<1>2. /\ t.parent = [s.parent EXCEPT ![n] = None] /\ t.children = [s.children EXCEPT ![n] = <<>>]
      /\ n \in Slots
  BY DEF EntityMade
<1>3. \A j \in 0..n-1 : j \in Slots /\ j # n
  BY <1>1 DEF Slots
<1>4. ASSUME NEW k \in 1..n+1
      PROVE  t.parent[k-1] = IF k \in H /\ Links[k] > 0 THEN Links[k] - 1 ELSE None
  <2>1. CASE k = n+1
    BY <1>1, <1>2, <2>1
  <2>2. CASE k # n+1
    <3>1. k \in 1..n /\ k-1 \in 0..n-1
      BY <2>2
    <3>2. t.parent[k-1] = s.parent[k-1]
      BY <1>1, <1>2, <1>3, <3>1
    <3> QED
      BY <3>1, <3>2 DEF Hanging
  <2> QED
    BY <2>1, <2>2
<1>5. Ascending(t.children)
  <2>1. ASSUME NEW i \in Slots, NEW j \in 1..Len(t.children[i]), NEW k \in 1..Len(t.children[i]), j < k
        PROVE  t.children[i][j] < t.children[i][k]
    <3>1. i # n /\ t.children[i] = s.children[i]
      BY <1>1, <1>2
    <3> QED
      BY <2>1, <3>1 DEF Hanging, Ascending
  <2> QED
    BY <2>1 DEF Ascending
<1>6. ASSUME NEW i \in Slots PROVE ToSet(t.children[i]) = { j \in 0..(n+1)-1 : t.parent[j] = i }
  <2>1. t.parent[n] = None /\ None \notin Slots
    BY <1>1, <1>2, FileAssumption DEF Slots
  <2>2. \A j \in 0..(n+1)-1 : t.parent[j] = i <=> j \in 0..n-1 /\ s.parent[j] = i
    <3>1. \A j \in 0..n-1 : t.parent[j] = s.parent[j] /\ j \in 0..(n+1)-1
      BY <1>1, <1>2, <1>3
    <3>2. \A j \in 0..(n+1)-1 : j = n \/ j \in 0..n-1
      OBVIOUS
    <3> QED
      BY <2>1, <3>1, <3>2
  <2>3. { j \in 0..(n+1)-1 : t.parent[j] = i } = { j \in 0..n-1 : s.parent[j] = i }
    <3>1. \A j \in 0..n-1 : j \in 0..(n+1)-1
      OBVIOUS
    <3> QED
      BY <2>2, <3>1
  <2>4. CASE i # n
    BY <1>1, <1>2, <2>3, <2>4 DEF Hanging
  <2>5. CASE i = n
    <3>1. ToSet(t.children[i]) = {}
      BY <1>1, <1>2, <2>5 DEF ToSet
    <3>2. ASSUME NEW j \in 0..n-1, s.parent[j] = n PROVE FALSE
      <4>1. j+1 \in 1..n /\ j+1 \in 1..Len(doc.entities) /\ (j+1)-1 = j
        BY LinksAre
      <4>2. s.parent[j] = IF j+1 \in H /\ Links[j+1] > 0 THEN Links[j+1] - 1 ELSE None
        BY <4>1 DEF Hanging
      <4>3. Links[j+1] \in 0..j
        <5>1. Links[j+1] \in 0..(j+1)-1
          BY <4>1, LinksAre
        <5> QED
          BY <4>1, <5>1
      <4> QED
        BY <1>2, <2>1, <3>2, <4>2, <4>3
    <3> QED
      BY <2>3, <2>5, <3>1, <3>2
  <2> QED
    BY <2>4, <2>5
<1> QED
  BY <1>4, <1>5, <1>6 DEF Hanging

\* Hanging one more entity below its parent, which has no later one yet.
LEMMA OneMoreHung ==
  ASSUME DocumentNests, NEW s \in Scenes, NEW n \in Nat, n <= Len(doc.entities), n <= Capacity,
         NEW H, H \subseteq 1..n, Hanging(s, n, H), NEW j \in 1..n, j \notin H, Links[j] > 0,
         \A x \in H : Links[x] = Links[j] => x < j
  PROVE  Hanging(WithParent(s, j-1, Links[j]-1), n, H \cup {j})
<1> DEFINE t == WithParent(s, j-1, Links[j]-1)
           i == j-1
           up == Links[j]-1
<1>1. /\ s.parent \in [Slots -> Slots \cup {None}] /\ s.children \in [Slots -> Seq(Slots)]
      /\ Capacity \in Nat /\ None \notin Slots
  BY FileAssumption DEF Scenes, Slots
<1>2. Links[j] \in 1..j-1 /\ i \in Slots /\ up \in Slots /\ up # i
  <2>1. j \in 1..Len(doc.entities) /\ Len(doc.entities) \in Nat
    BY LinksAre
  <2>2. Links[j] \in 0..j-1
    BY <2>1, LinksAre
  <2> QED
    BY <1>1, <2>2 DEF Slots
<1>3. LinkAdded(s, i, up, t)
  <2>1. \A a, b \in Slots : LinkAdded(s, a, b, WithParent(s, a, b))
    BY Linked
  <2> QED
    BY <1>2, <2>1
<1>4. /\ t.parent = [s.parent EXCEPT ![i] = up]
      /\ t.children = [s.children EXCEPT ![up] = Append(s.children[up], i)]
  BY <1>3 DEF LinkAdded
<1> HIDE DEF t
<1>5. \A k \in 1..n : k-1 \in Slots
  BY <1>1 DEF Slots
<1>6. ASSUME NEW k \in 1..n
      PROVE  t.parent[k-1] = IF k \in H \cup {j} /\ Links[k] > 0 THEN Links[k] - 1 ELSE None
  <2>1. CASE k = j
    BY <1>1, <1>2, <1>4, <2>1
  <2>2. CASE k # j
    <3>1. k-1 # i
      BY <2>2
    <3>2. t.parent[k-1] = s.parent[k-1]
      BY <1>1, <1>4, <1>5, <3>1
    <3> QED
      BY <2>2, <3>2 DEF Hanging
  <2> QED
    BY <2>1, <2>2
<1>7. s.parent[i] = None
  BY <1>2 DEF Hanging
<1>8. ASSUME NEW y \in ToSet(s.children[up]) PROVE y < i
  <2>1. y \in 0..n-1 /\ s.parent[y] = up
    BY <1>2 DEF Hanging
  <2>2. y+1 \in 1..n /\ (y+1)-1 = y
    BY <2>1
  <2>3. s.parent[y] = IF y+1 \in H /\ Links[y+1] > 0 THEN Links[y+1] - 1 ELSE None
    BY <2>2 DEF Hanging
  <2>4. y+1 \in H /\ Links[y+1] - 1 = up
    BY <1>1, <1>2, <2>1, <2>3
  <2>5. Links[y+1] \in 0..y
    <3>1. y+1 \in 1..Len(doc.entities)
      BY <2>2, LinksAre
    <3>2. Links[y+1] \in 0..(y+1)-1
      BY <3>1, LinksAre
    <3> QED
      BY <2>1, <3>2
  <2>6. Links[y+1] = Links[j]
    BY <1>2, <2>4, <2>5
  <2>7. y+1 < j
    BY <2>4, <2>6
  <2> QED
    BY <2>1, <2>7
<1>9. Ascending(t.children)
  <2>1. ASSUME NEW x \in Slots, NEW a \in 1..Len(t.children[x]), NEW b \in 1..Len(t.children[x]), a < b
        PROVE  t.children[x][a] < t.children[x][b]
    <3>1. CASE x # up
      <4>1. t.children[x] = s.children[x]
        BY <1>1, <1>4, <3>1
      <4> QED
        BY <2>1, <4>1 DEF Hanging, Ascending
    <3>2. CASE x = up
      <4> DEFINE q == s.children[up]
      <4>1. t.children[x] = Append(q, i) /\ q \in Seq(Slots) /\ Len(q) \in Nat
        <5> HIDE DEF i, up
        <5> QED
          BY <1>1, <1>2, <1>4, <3>2
      <4>2. \A c, d \in 1..Len(q) : c < d => q[c] < q[d]
        BY <1>2 DEF Hanging, Ascending
      <4>3. \A c \in 1..Len(q) : q[c] < i
        BY <1>8, <4>1 DEF ToSet
      <4> HIDE DEF q, i
      <4>4. /\ Len(Append(q, i)) = Len(q) + 1 /\ Append(q, i)[Len(q)+1] = i
            /\ \A c \in 1..Len(q) : Append(q, i)[c] = q[c]
        BY <4>1
      <4>5. a \in 1..Len(q)+1 /\ b \in 1..Len(q)+1 /\ a \in 1..Len(q)
        BY <2>1, <4>1, <4>4
      <4>6. CASE b = Len(q) + 1
        BY <4>1, <4>3, <4>4, <4>5, <4>6
      <4>7. CASE b # Len(q) + 1
        <5>1. b \in 1..Len(q)
          BY <4>1, <4>5, <4>7
        <5> QED
          BY <2>1, <4>1, <4>2, <4>4, <4>5, <5>1
      <4> QED
        BY <4>6, <4>7
    <3> QED
      BY <3>1, <3>2
  <2> QED
    BY <2>1 DEF Ascending
<1>10. ASSUME NEW x \in Slots PROVE ToSet(t.children[x]) = { y \in 0..n-1 : t.parent[y] = x }
  <2>1. ToSet(s.children[x]) = { y \in 0..n-1 : s.parent[y] = x }
    BY DEF Hanging
  <2>2. \A y \in 0..n-1 : y \in Slots
    BY <1>1 DEF Slots
  <2>3. \A y \in 0..n-1 : y # i => t.parent[y] = s.parent[y]
    BY <1>1, <1>4, <2>2
  <2>4. t.parent[i] = up /\ i \in 0..n-1
    BY <1>1, <1>2, <1>4
  <2> HIDE DEF i, up
  <2>5. CASE x # up
    <3>1. t.children[x] = s.children[x]
      BY <1>1, <1>4, <2>5
    <3>2. i \notin { y \in 0..n-1 : s.parent[y] = x }
      BY <1>1, <1>7
    <3>3. i \notin { y \in 0..n-1 : t.parent[y] = x }
      BY <2>4, <2>5
    <3> QED
      BY <2>1, <2>3, <3>1, <3>2, <3>3
  <2>6. CASE x = up
    <3>1. t.children[x] = Append(s.children[x], i) /\ s.children[x] \in Seq(Slots)
      BY <1>1, <1>4, <2>6
    <3>2. ToSet(t.children[x]) = ToSet(s.children[x]) \cup {i}
      BY <1>2, <3>1, AppendItems
    <3> QED
      BY <2>1, <2>3, <2>4, <2>6, <3>2
  <2> QED
    BY <2>5, <2>6
<1>11. Hanging(t, n, H \cup {j})
  BY <1>6, <1>9, <1>10 DEF Hanging
<1> QED
  BY <1>11 DEF t
-----------------------------------------------------------------------------
(* Who is hung when                                                        *)

\* The calls that return when the entity at place k is done are those of it and
\* of the entities it is the last one below.
LEMMA ReturningIs ==
  ASSUME DocumentNests, NEW k \in 1..Len(doc.entities)
  PROVE  \A j \in 1..k : j \in Returning(k) <=>
           /\ \A x \in j+1..k : Links[x] >= j
           /\ k < Len(doc.entities) => Links[k+1] < j
<1>1. \A x \in 1..Len(doc.entities) : doc.entities[x].above = Links[x]
  BY LinksAre
<1>2. Len(doc.entities) \in Nat
  BY LinksAre
<1>3. ASSUME NEW j \in 1..k, NEW x \in j+1..k PROVE x \in 1..Len(doc.entities)
  BY <1>2
<1>4. k < Len(doc.entities) => k+1 \in 1..Len(doc.entities)
  BY <1>2
<1> QED
  BY <1>1, <1>3, <1>4 DEF Returning

\* A call returns once.
LEMMA ReturnsOnce ==
  ASSUME DocumentNests, NEW k \in 1..Len(doc.entities), NEW j \in Returning(k),
         NEW m \in 1..k-1, j \in Returning(m)
  PROVE  FALSE
<1>1. j \in 1..k /\ j \in 1..m /\ Len(doc.entities) \in Nat /\ m \in 1..Len(doc.entities)
  BY LinksAre DEF Returning
<1>2. m < Len(doc.entities) /\ m+1 \in j+1..k /\ m+1 \in 1..Len(doc.entities)
  BY <1>1
<1>3. Links[m+1] < j
  BY <1>1, <1>2, ReturningIs
<1>4. Links[m+1] >= j
  BY <1>1, <1>2, ReturningIs
<1>5. Links[m+1] \in Int
  <2>1. Links[m+1] \in 0..(m+1)-1
    BY <1>2, LinksAre
  <2> QED
    BY <2>1
<1> QED
  BY <1>1, <1>3, <1>4, <1>5

\* Every call returns.
LEMMA AllReturn ==
  ASSUME DocumentNests, NEW j \in 1..Len(doc.entities)
  PROVE  \E m \in j..Len(doc.entities) : j \in Returning(m)
<1> SUFFICES ASSUME \A m \in j..Len(doc.entities) : j \notin Returning(m) PROVE FALSE
  OBVIOUS
<1> DEFINE N == Len(doc.entities)
           Below == { n \in 0..N-j : \A x \in j+1..j+n : Links[x] >= j }
<1>1. N \in Nat
  BY LinksAre
<1>2. 0 \in Below
  BY <1>1
<1>3. ASSUME NEW n \in 0..(N-j)-1, n \in Below PROVE n+1 \in Below
  <2>1. j+n \in 1..N /\ j+n \in j..N /\ j \in 1..j+n /\ j+n < N
    BY <1>1
  <2>2. \A x \in j+1..j+n : Links[x] >= j
    BY <1>3
  <2>3. ~(Links[(j+n)+1] < j)
    BY <2>1, <2>2, ReturningIs
  <2>4. Links[(j+n)+1] >= j
    <3>1. (j+n)+1 \in 1..N
      BY <1>1, <2>1
    <3>2. Links[(j+n)+1] \in 0..((j+n)+1)-1
      BY <3>1, LinksAre
    <3> QED
      BY <2>3, <3>2, <2>1
  <2>5. \A x \in j+1..j+(n+1) : x = (j+n)+1 \/ x \in j+1..j+n
    BY <2>1
  <2> QED
    BY <1>1, <2>2, <2>4, <2>5
<1>4. N-j \in Below
  <2>1. N-j \in Nat
    BY <1>1
  <2> HIDE DEF Below
  <2>2. 0..N-j \subseteq Below
    BY <1>2, <1>3, <2>1, CountingUp
  <2> QED
    BY <2>1, <2>2
<1>5. \A x \in j+1..N : Links[x] >= j
  BY <1>1, <1>4
<1>6. N \in 1..N /\ j \in 1..N /\ N \in j..N /\ ~(N < N)
  BY <1>1
<1>7. j \in Returning(N)
  BY <1>5, <1>6, ReturningIs
<1> QED
  BY <1>6, <1>7

\* A scene no hook has touched, entity by entity.
LEMMA UntouchedFacts ==
  ASSUME FileInv, Untouched
  PROVE  /\ DocumentNests /\ Len(entities) \in Nat /\ Len(doc.entities) \in Nat
         /\ Len(entities) <= Len(doc.entities) /\ Len(entities) <= Capacity /\ Capacity \in Nat
         /\ scene \in Scenes /\ FreeSlots(scene) /\ entities \in Seq(Handles)
         /\ node \in Nat \ {0} /\ item \in Nat \ {0}
         /\ \A k \in 1..Len(entities) :
              /\ entities[k] = [index |-> k-1, generation |-> 0]
              /\ Valid(scene, entities[k]) /\ k-1 \in Slots
              /\ k \in 1..Len(doc.entities)
              /\ doc.entities[k].components \in Seq(Kept)
<1>1. DocumentNests
  BY DocumentIs DEF FileInv
<1>2. /\ Len(entities) \in Nat /\ Len(doc.entities) \in Nat
      /\ Len(entities) <= Len(doc.entities) /\ Len(entities) <= Capacity /\ Capacity \in Nat
      /\ scene \in Scenes /\ FreeSlots(scene) /\ entities \in Seq(Handles)
      /\ node \in Nat \ {0} /\ item \in Nat \ {0}
  BY <1>1, FileAssumption, LinksAre DEF FileInv, FileTypes, Loading, Untouched, InOrder
<1>3. ASSUME NEW k \in 1..Len(entities)
      PROVE  /\ entities[k] = [index |-> k-1, generation |-> 0]
             /\ Valid(scene, entities[k]) /\ k-1 \in Slots
             /\ k \in 1..Len(doc.entities)
             /\ doc.entities[k].components \in Seq(Kept)
  <2>1. entities[k] = [index |-> k-1, generation |-> 0]
    BY DEF Untouched, Loaded
  <2>2. Valid(scene, entities[k])
    BY DEF FileInv, HandlesTrue, Untouched
  <2>3. k-1 \in Slots /\ k \in 1..Len(doc.entities)
    BY <1>2 DEF Slots
  <2>4. doc.entities[k] \in EntityDatum
    BY <1>1, <2>3, LinksAre
  <2>5. doc.entities[k].components \in Seq(Kept)
    BY <2>4 DEF EntityDatum
  <2> QED
    BY <2>1, <2>2, <2>3, <2>5
<1> QED
  BY <1>1, <1>2, <1>3

\* The loaded scene before the first entity.
LEMMA UntouchedAtFirst == ASSUME FileInit PROVE Untouched
<1>1. /\ scene = EmptyScene /\ entities = <<>> /\ Len(entities) = 0 /\ node = 1 /\ item = 1
      /\ in_hook = FALSE /\ freed = {}
      /\ \/ phase = "settings" /\ from_python = FALSE
         \/ phase = "entities" /\ from_python = TRUE /\ update_settings = FALSE
  BY DEF FileInit
<1>2. Capacity \in Nat /\ None \notin Slots
  BY FileAssumption DEF Slots
<1>3. InOrder(scene, 0)
  <2>1. /\ scene.alive = {} /\ scene.serializable = {}
        /\ scene.generations = [i \in Slots |-> 0]
        /\ scene.free_stack = [k \in 1..Capacity |-> Capacity - k]
    BY <1>1 DEF EmptyScene
  <2>2. Len(scene.free_stack) = Capacity
    <3>1. scene.free_stack \in Seq(Slots)
      BY <1>1, EmptySceneIs DEF Scenes
    <3> QED
      BY <1>2, <2>1, <3>1
  <2>3. 0..0-1 = {} /\ Capacity - 0 = Capacity
    BY <1>2
  <2> QED
    BY <1>2, <2>1, <2>2, <2>3 DEF InOrder
<1>4. Hanging(scene, 0, HungPlaces)
  <2>1. \A i \in Slots : scene.children[i] = <<>>
    BY <1>1 DEF EmptyScene
  <2>2. \A i \in Slots : ToSet(scene.children[i]) = { j \in 0..0-1 : scene.parent[j] = i }
    BY <2>1 DEF ToSet
  <2> QED
    BY <2>1, <2>2 DEF Hanging, Ascending
<1>5. scene.layer_name = None
  BY <1>1 DEF EmptyScene
<1> QED
  BY <1>1, <1>3, <1>4, <1>5 DEF Untouched

\* What each step does to a scene no hook has touched.
LEMMA SettingsUntouched == ASSUME FileInv, Untouched, Settings PROVE Untouched'
<1>1. DocumentKept
  BY DocumentStays DEF FileInv, Settings
<1>2. /\ phase = "settings" /\ ~from_python /\ Len(entities) = 0 /\ node = 1 /\ item = 1 /\ ~in_hook
      /\ UNCHANGED <<entities, item, node, in_hook, freed, update_settings>>
      /\ phase' # "settings"
      /\ scene.layer_name = None
  BY DEF FileInv, Settings, Progress, Untouched
<1>3. /\ scene'.alive = scene.alive /\ scene'.generations = scene.generations
      /\ scene'.parent = scene.parent /\ scene'.children = scene.children
      /\ scene'.serializable = scene.serializable /\ scene'.free_stack = scene.free_stack
      /\ scene'.layer_name = IF update_settings /\ doc.layer_name # None THEN doc.layer_name
                             ELSE None
  <2>1. scene \in Scenes
    BY DEF FileInv, FileTypes
  <2>2. CASE update_settings /\ doc.layer_name # None
    BY <2>1, <2>2 DEF Settings, Scenes
  <2>3. CASE ~(update_settings /\ doc.layer_name # None)
    <3>1. scene' = scene
      BY <2>3 DEF Settings
    <3> QED
      BY <1>2, <2>3, <3>1
  <2> QED
    BY <2>2, <2>3
<1>4. InOrder(scene, Len(entities))'
  BY <1>2, <1>3 DEF Untouched, InOrder
<1>5. Hanging(scene, Len(entities), HungPlaces)'
  <2>1. /\ Ascending(scene.children)
        /\ \A i \in Slots : ToSet(scene.children[i]) = { j \in 0..0-1 : scene.parent[j] = i }
    BY <1>2 DEF Untouched, Hanging
  <2>2. /\ Ascending(scene'.children)
        /\ \A i \in Slots : ToSet(scene'.children[i]) = { j \in 0..0-1 : scene'.parent[j] = i }
    BY <1>3, <2>1
  <2>3. Len(entities') = 0 /\ 1..0 = {}
    BY <1>2
  <2> QED
    BY <2>2, <2>3 DEF Hanging
<1>6. scene'.layer_name = IF update_settings' /\ phase' # "settings" THEN doc'.layer_name ELSE None
  BY <1>1, <1>2, <1>3 DEF DocumentKept
<1>7. \A k \in 1..Len(entities') : Loaded(k)'
  BY <1>2
<1> QED
  BY <1>1, <1>2, <1>4, <1>5, <1>6, <1>7 DEF Untouched, DocumentKept

LEMMA LoadEntityUntouched == ASSUME FileInv, Untouched, LoadEntity PROVE Untouched'
<1> DEFINE K == Len(entities)
           d == doc.entities[K+1]
           made == WithEntity(scene, d.uuid)
<1>1. DocumentKept /\ DocumentNests
  BY DocumentStays DEF FileInv, LoadEntity
<1>2. /\ phase = "entities" /\ ~from_python /\ ~in_hook /\ freed = {}
      /\ UNCHANGED <<item, node, in_hook, freed, update_settings>>
      /\ K \in Nat /\ K < Len(doc.entities) /\ entities \in Seq(Handles)
      /\ node = 1 /\ item = 1 /\ scene \in Scenes /\ FreeSlots(scene)
      /\ scene.free_stack # <<>> /\ Capacity \in Nat
      /\ InOrder(scene, K) /\ Hanging(scene, K, HungPlaces)
  BY UntouchedFacts DEF FileInv, LoadEntity, Progress, FileTypes, Untouched
<1>3. K+1 \in 1..Len(doc.entities) /\ Len(doc.entities) \in Nat
  BY <1>1, <1>2, LinksAre
<1>4. d.uuid \in Slots /\ d.above = Links[K+1] /\ Links[K+1] \in 0..K
  <2>1. d \in EntityDatum /\ d.above = Links[K+1] /\ Links[K+1] \in 0..(K+1)-1
    BY <1>1, <1>3, LinksAre
  <2> QED
    BY <2>1, <1>2 DEF EntityDatum
<1>5. Last(scene.free_stack) = K /\ K < Capacity /\ K \in Slots
      /\ HandleTo(scene, K) = [index |-> K, generation |-> 0]
  BY <1>2, TopSlot
<1>6. EntityMade(scene, d.uuid, K, made)
  <2>1. d.uuid \in SceneUuid
    BY <1>4 DEF SceneUuid
  <2> HIDE DEF d
  <2> QED
    BY <1>2, <1>5, <2>1, NewEntity
<1>7. /\ entities' = Append(entities, [index |-> K, generation |-> 0])
      /\ phase' \in {"entities", "components"}
      /\ scene' = IF d.above > 0 THEN WithParent(made, K, entities[d.above].index) ELSE made
  BY <1>5 DEF LoadEntity, PhaseAfterEntity
<1>8. d.above > 0 => entities[d.above].index = Links[K+1] - 1
  <2>1. ASSUME d.above > 0 PROVE d.above \in 1..K
    BY <1>2, <1>4, <2>1
  <2>2. \A k \in 1..K : entities[k].index = k-1
    <3> SUFFICES ASSUME NEW k \in 1..K PROVE entities[k].index = k-1
      OBVIOUS
    <3>1. entities[k] = [index |-> k-1, generation |-> 0]
      BY UntouchedFacts
    <3> QED
      BY <3>1
  <2> HIDE DEF d
  <2> QED
    BY <1>4, <2>1, <2>2
<1> HIDE DEF made
<1>9. HungPlaces = 1..K /\ HungPlaces' = 1..Len(entities')
  BY <1>1, <1>2 DEF HungPlaces, DocumentKept
<1>10. Hanging(made, K+1, 1..K) /\ InOrder(made, K+1) /\ made \in Scenes
  <2>1. Hanging(scene, K, 1..K)
    BY <1>2, <1>9
  <2>2. made \in Scenes
    BY <1>6 DEF EntityMade
  <2> HIDE DEF d
  <2> QED
    BY <1>1, <1>2, <1>5, <1>6, <2>1, <2>2, OneMoreHanging, OneMoreInOrder
<1>11. /\ scene' \in Scenes /\ InOrder(scene', K+1) /\ Hanging(scene', K+1, 1..K+1)
       /\ scene'.components = made.components /\ scene'.uuid = made.uuid
       /\ scene'.layer_name = made.layer_name
  <2>1. CASE Links[K+1] = 0
    <3>1. scene' = made
      BY <1>4, <1>7, <2>1
    <3>2. Hanging(made, K+1, 1..K+1)
      BY <1>10, <2>1 DEF Hanging
    <3> QED
      BY <1>10, <3>1, <3>2
  <2>2. CASE Links[K+1] # 0
    <3> DEFINE up == Links[K+1] - 1
    <3>1. Links[K+1] > 0 /\ up \in Slots
      BY <1>2, <1>4, <1>5, <2>2 DEF Slots
    <3>2. scene' = WithParent(made, K, up)
      BY <1>4, <1>7, <1>8, <3>1
    <3>3. (K+1)-1 = K /\ K+1 \in 1..K+1 /\ K+1 \notin 1..K /\ 1..K \subseteq 1..K+1
          /\ (1..K) \cup {K+1} = 1..K+1 /\ K+1 <= Capacity /\ K+1 <= Len(doc.entities)
          /\ \A x \in 1..K : x < K+1
      BY <1>2, <1>5
    <3>4. Hanging(WithParent(made, (K+1)-1, Links[K+1]-1), K+1, (1..K) \cup {K+1})
      <4>1. K+1 \in Nat
        BY <1>2
      <4> DEFINE n == K+1
      <4>2. n \in Nat /\ n \in 1..n /\ n \notin 1..K /\ 1..K \subseteq 1..n /\ n <= Capacity
            /\ n <= Len(doc.entities) /\ (\A x \in 1..K : x < n) /\ Links[n] > 0
            /\ Hanging(made, n, 1..K)
        BY <3>1, <3>3, <4>1, <1>10
      <4> HIDE DEF n
      <4>3. Hanging(WithParent(made, n-1, Links[n]-1), n, (1..K) \cup {n})
        BY <1>1, <1>10, <4>2, OneMoreHung
      <4> QED
        BY <4>3 DEF n
    <3>5. Hanging(scene', K+1, 1..K+1)
      BY <3>2, <3>3, <3>4
    <3>6. Relinked(made, scene')
      <4>1. \A a, b \in Slots : Relinked(made, WithParent(made, a, b))
        BY <1>10, Linked
      <4> QED
        BY <1>5, <3>1, <3>2, <4>1
    <3> QED
      BY <1>10, <3>5, <3>6 DEF Relinked, InOrder
  <2> QED
    BY <2>1, <2>2
<1>12. /\ scene.components \in [Slots -> Seq(Component)] /\ scene.uuid \in [Slots -> SceneUuid]
       /\ scene'.components = [scene.components EXCEPT ![K] = <<>>]
       /\ scene'.uuid = [scene.uuid EXCEPT ![K] = d.uuid]
       /\ scene'.layer_name = scene.layer_name
  BY <1>2, <1>6, <1>11 DEF Scenes, EntityMade
<1>13. Len(entities') = K+1
       /\ entities'[K+1] = [index |-> K, generation |-> 0]
       /\ \A k \in 1..K : entities'[k] = entities[k]
  <2> DEFINE h == [index |-> K, generation |-> 0]
  <2>1. h \in Handles
    BY <1>5 DEF Handles
  <2> HIDE DEF h
  <2>2. entities' = Append(entities, h)
    BY <1>7 DEF h
  <2>3. Len(entities') = K+1 /\ entities'[K+1] = h /\ \A k \in 1..K : entities'[k] = entities[k]
    BY <1>2, <2>1, <2>2
  <2> QED
    BY <2>3 DEF h
<1>14. Hanging(scene, Len(entities), HungPlaces)'
  BY <1>1, <1>9, <1>11, <1>13 DEF Hanging, DocumentKept
<1>15. InOrder(scene, Len(entities))'
  BY <1>11, <1>13 DEF InOrder
<1>16. ASSUME NEW k \in 1..K+1 PROVE Loaded(k)'
  <2>1. Filled(k)' = Filled(k) /\ (k = K+1 => Filled(k) = 0)
    BY <1>1, <1>2 DEF Filled, DocumentKept
  <2>2. CASE k = K+1
    <3>1. k-1 = K /\ scene'.components[K] = <<>> /\ scene'.uuid[K] = d.uuid
      BY <1>2, <1>5, <1>12, <2>2
    <3>2. Len(doc.entities[k].components) >= 0
      <4>1. d \in EntityDatum
        BY <1>1, <1>3, LinksAre
      <4> QED
        BY <2>2, <4>1 DEF EntityDatum
    <3> QED
      BY <1>1, <1>2, <1>13, <2>1, <2>2, <3>1, <3>2 DEF Loaded, DocumentKept
  <2>3. CASE k # K+1
    <3>1. k \in 1..K /\ k-1 \in Slots /\ k-1 # K
      BY <1>2, <1>5, <2>3 DEF Slots
    <3>2. scene'.components[k-1] = scene.components[k-1] /\ scene'.uuid[k-1] = scene.uuid[k-1]
      BY <1>12, <3>1
    <3>3. Loaded(k)
      BY <3>1 DEF Untouched
    <3> QED
      BY <1>1, <1>2, <1>13, <2>1, <3>1, <3>2, <3>3 DEF Loaded, DocumentKept
  <2> QED
    BY <2>2, <2>3
<1>17. scene'.layer_name = IF update_settings' /\ phase' # "settings" THEN doc'.layer_name ELSE None
  BY <1>1, <1>2, <1>7, <1>12 DEF DocumentKept, Untouched
<1> QED
  BY <1>1, <1>2, <1>7, <1>13, <1>14, <1>15, <1>16, <1>17 DEF Untouched, DocumentKept

\* A step that leaves the slots and the links alone.
LEMMA ComponentsOnly ==
  ASSUME Untouched, DocumentKept, entities' = entities, freed' = freed, phase' = phase,
         update_settings' = update_settings,
         scene'.alive = scene.alive, scene'.generations = scene.generations,
         scene'.parent = scene.parent, scene'.children = scene.children,
         scene'.serializable = scene.serializable, scene'.free_stack = scene.free_stack,
         scene'.layer_name = scene.layer_name
  PROVE  /\ InOrder(scene, Len(entities))' /\ Hanging(scene, Len(entities), HungPlaces)'
         /\ freed' = {}
         /\ scene'.layer_name = IF update_settings' /\ phase' # "settings" THEN doc'.layer_name ELSE None
<1>1. InOrder(scene, Len(entities))'
  BY DEF Untouched, InOrder
<1>2. \A k : Returning(k)' = Returning(k)
  BY DEF Returning, DocumentKept
<1>3. HungPlaces' = HungPlaces
  BY <1>2 DEF HungPlaces, DocumentKept
<1>4. Hanging(scene, Len(entities), HungPlaces)'
  BY <1>3 DEF Untouched, Hanging, DocumentKept
<1> QED
  BY <1>1, <1>4 DEF Untouched, DocumentKept

LEMMA LoadComponentUntouched == ASSUME FileInv, Untouched, LoadComponent PROVE Untouched'
<1> DEFINE K == Len(entities)
           h == entities[node]
           held == doc.entities[node].components
           i == node-1
<1>1. DocumentKept /\ DocumentNests
  BY DocumentStays DEF FileInv, LoadComponent
<1>2. /\ phase = "components" /\ ~from_python /\ node <= K
      /\ UNCHANGED <<phase, entities, hooks, freed, update_settings>>
      /\ K \in Nat /\ node \in Nat \ {0} /\ item \in Nat \ {0} /\ node \in 1..K
      /\ scene \in Scenes /\ FreeSlots(scene)
  BY UntouchedFacts DEF LoadComponent
<1>3. h = [index |-> i, generation |-> 0] /\ Valid(scene, h) /\ i \in Slots /\ held \in Seq(Kept)
  BY <1>2, UntouchedFacts
<1>4. /\ Filled(node) = item - 1 /\ item - 1 <= Len(held) /\ Len(scene.components[i]) = item - 1
      /\ \A j \in 1..item-1 : scene.components[i][j] = Made(held[j])
      /\ Len(held) \in Nat
  <2>1. Filled(node) = item - 1
    BY <1>2 DEF Filled
  <2>2. Loaded(node)
    BY <1>2 DEF Untouched
  <2>3. /\ Filled(node) <= Len(held)
        /\ Len(scene.components[i]) = Filled(node)
        /\ \A j \in 1..Filled(node) : scene.components[i][j] = Made(held[j])
    BY <1>2, <2>2 DEF Loaded
  <2>4. Len(held) \in Nat
    BY <1>3
  <2> QED
    BY <2>1, <2>3, <2>4
<1>5. CASE item <= Len(held)
  <2> DEFINE c == Made(held[item])
  <2>1. /\ scene' = [scene EXCEPT !.components[i] = Append(@, c)]
        /\ item' = item + 1 /\ UNCHANGED node
    BY <1>3, <1>5 DEF LoadComponent
  <2>2. c \in Component
    <3>1. item \in 1..Len(held)
      BY <1>2, <1>4, <1>5
    <3>2. held[item] \in Kept
      BY <1>3, <3>1
    <3> QED
      BY <3>2, MadeIs
  <2> HIDE DEF i, h, held, c
  <2>3. ComponentsSet(scene, i, Append(scene.components[i], c), scene')
    BY <1>2, <1>3, <2>1, <2>2, ComponentAdded
  <2>4. /\ scene.components \in [Slots -> Seq(Component)]
        /\ scene'.components = [scene.components EXCEPT ![i] = Append(scene.components[i], c)]
        /\ scene'.uuid = scene.uuid
    BY <1>2, <2>3 DEF Scenes, ComponentsSet
  <2>5. Len(scene'.components[i]) = item /\ scene'.components[i][item] = c
        /\ \A j \in 1..item : j # item => /\ scene'.components[i][j] = scene.components[i][j]
                                          /\ j \in 1..item-1
    <3>1. scene'.components[i] = Append(scene.components[i], c) /\ scene.components[i] \in Seq(Component)
      BY <1>3, <2>4
    <3> QED
      BY <1>2, <1>4, <3>1
  <2>6. ASSUME NEW k \in 1..K PROVE Loaded(k)'
    <3>1. k-1 \in Slots /\ Loaded(k)
      BY UntouchedFacts DEF Untouched
    <3>2. CASE k = node
      <4>1. Filled(k)' = item
        BY <1>1, <1>2, <2>1, <3>2 DEF Filled, DocumentKept
      <4>2. \A j \in 1..item : scene'.components[i][j] = Made(held[j])
        BY <1>2, <1>4, <2>5 DEF c
      <4> QED
        BY <1>1, <1>2, <1>5, <2>4, <2>5, <3>1, <3>2, <4>1, <4>2 DEF Loaded, DocumentKept, i, held
    <3>3. CASE k # node
      <4>1. Filled(k)' = Filled(k) /\ k-1 # i
        BY <1>1, <1>2, <2>1, <3>3 DEF Filled, DocumentKept, i
      <4>2. scene'.components[k-1] = scene.components[k-1]
        BY <2>4, <3>1, <4>1
      <4> QED
        BY <1>1, <1>2, <2>4, <3>1, <4>1, <4>2 DEF Loaded, DocumentKept
    <3> QED
      BY <3>2, <3>3
  <2>7. /\ InOrder(scene, Len(entities))' /\ Hanging(scene, Len(entities), HungPlaces)'
        /\ freed' = {}
        /\ scene'.layer_name = IF update_settings' /\ phase' # "settings" THEN doc'.layer_name ELSE None
    BY <1>1, <1>2, <2>3, ComponentsOnly DEF ComponentsSet
  <2> QED
    BY <1>1, <1>2, <2>6, <2>7 DEF Untouched, DocumentKept
<1>6. CASE ~(item <= Len(held))
  <2>1. UNCHANGED scene /\ item' = 1 /\ node' = node + 1
    BY <1>6 DEF LoadComponent
  <2>2. item - 1 = Len(held)
    BY <1>2, <1>4, <1>6
  <2>3. ASSUME NEW k \in 1..K PROVE Loaded(k)'
    <3>1. Loaded(k)
      BY DEF Untouched
    <3>2. Filled(k)' = Filled(k)
      <4>1. CASE k = node
        BY <1>1, <1>2, <1>4, <2>1, <2>2, <4>1 DEF Filled, DocumentKept
      <4>2. CASE k # node
        BY <1>1, <1>2, <2>1, <4>2 DEF Filled, DocumentKept
      <4> QED
        BY <4>1, <4>2
    <3> QED
      BY <1>1, <1>2, <2>1, <3>1, <3>2 DEF Loaded, DocumentKept
  <2>4. /\ InOrder(scene, Len(entities))' /\ Hanging(scene, Len(entities), HungPlaces)'
        /\ freed' = {}
        /\ scene'.layer_name = IF update_settings' /\ phase' # "settings" THEN doc'.layer_name ELSE None
    BY <1>1, <1>2, <2>1, ComponentsOnly
  <2> QED
    BY <1>1, <1>2, <2>3, <2>4 DEF Untouched, DocumentKept
<1> QED
  BY <1>5, <1>6

LEMMA FinishUntouched == ASSUME FileInv, Untouched, Finish PROVE Untouched'
<1>1. DocumentKept
  BY DocumentStays DEF FileInv, Finish
<1>2. /\ phase = "components" /\ ~from_python /\ phase' = "done" /\ node > Len(entities)
      /\ UNCHANGED <<scene, entities, item, node, freed, update_settings>>
  BY DEF Finish
<1>3. HungPlaces = 1..Len(entities) /\ HungPlaces' = HungPlaces
  BY <1>1, <1>2 DEF HungPlaces, DocumentKept
<1>4. Hanging(scene, Len(entities), HungPlaces)'
  BY <1>1, <1>2, <1>3 DEF Untouched, Hanging, DocumentKept
<1>5. InOrder(scene, Len(entities))'
  BY <1>2 DEF Untouched, InOrder
<1>6. \A k \in 1..Len(entities) : Loaded(k)'
  BY <1>1, <1>2 DEF Untouched, Loaded, Filled, DocumentKept
<1> QED
  BY <1>1, <1>2, <1>4, <1>5, <1>6 DEF Untouched, DocumentKept

LEMMA DeserializeEntityUntouched == ASSUME FileInv, Untouched, DeserializeEntity PROVE Untouched'
<1> DEFINE K == Len(entities)
           h == [index |-> K, generation |-> 0]
<1>1. DocumentKept /\ DocumentNests
  BY DocumentStays DEF FileInv, DeserializeEntity
<1>2. /\ phase = "entities" /\ phase' = "components" /\ from_python /\ ~in_hook /\ freed = {}
      /\ UNCHANGED <<in_hook, freed, update_settings>> /\ in_hook' = in_hook
      /\ K \in Nat /\ K < Len(doc.entities) /\ entities \in Seq(Handles)
      /\ node' = K+1 /\ item' = 1 /\ scene \in Scenes /\ FreeSlots(scene)
      /\ scene.free_stack # <<>> /\ Capacity \in Nat
      /\ InOrder(scene, K) /\ Hanging(scene, K, HungPlaces)
  BY UntouchedFacts DEF FileInv, DeserializeEntity, Progress, FileTypes, Untouched
<1>3. K+1 \in 1..Len(doc.entities) /\ Len(doc.entities) \in Nat
  BY <1>1, <1>2, LinksAre
<1>4. Last(scene.free_stack) = K /\ K < Capacity /\ K \in Slots /\ HandleTo(scene, K) = h
  BY <1>2, TopSlot
<1>5. EntityMade(scene, Fresh, K, scene')
  <2>1. Fresh \in SceneUuid /\ scene' = WithEntity(scene, Fresh)
    BY DEF SceneUuid, DeserializeEntity
  <2> QED
    BY <1>2, <1>4, <2>1, NewEntity
<1>6. h \in Handles /\ entities' = Append(entities, h)
  BY <1>4 DEF DeserializeEntity, Handles
<1> HIDE DEF h
<1>7. Len(entities') = K+1 /\ entities'[K+1] = h /\ \A k \in 1..K : entities'[k] = entities[k]
  BY <1>2, <1>6
<1>8. InOrder(scene, Len(entities))'
  <2>1. InOrder(scene', K+1)
    BY <1>2, <1>5, OneMoreInOrder
  <2> QED
    BY <1>7, <2>1 DEF InOrder
<1>9. HungPlaces' = HungPlaces /\ HungPlaces \subseteq 1..K
  <2>1. \A k : Returning(k)' = Returning(k)
    BY <1>1 DEF Returning, DocumentKept
  <2>2. HungPlaces = { k \in 1..K : \E m \in k..K : k \in Returning(m) }
    BY <1>2 DEF HungPlaces
  <2>3. HungPlaces' = { k \in 1..K+1 : \E m \in k..K+1 : k \in Returning(m) /\ m < K+1 }
    BY <1>1, <1>2, <1>7, <2>1 DEF HungPlaces, DocumentKept
  <2>4. \A k \in 1..K+1 : \A m \in k..K+1 : m < K+1 => k \in 1..K /\ m \in k..K
    BY <1>2
  <2>5. \A k \in 1..K : k \in 1..K+1 /\ \A m \in k..K : m \in k..K+1 /\ m < K+1
    BY <1>2
  <2> QED
    BY <2>2, <2>3, <2>4, <2>5
<1>10. Hanging(scene, Len(entities), HungPlaces)'
  <2>1. Hanging(scene', K+1, HungPlaces)
    BY <1>1, <1>2, <1>4, <1>5, <1>9, OneMoreHanging
  <2> QED
    BY <1>1, <1>7, <1>9, <2>1 DEF Hanging, DocumentKept
<1>11. /\ scene.components \in [Slots -> Seq(Component)]
       /\ scene'.components = [scene.components EXCEPT ![K] = <<>>]
       /\ scene'.layer_name = scene.layer_name
  BY <1>2, <1>5 DEF Scenes, EntityMade
<1>12. ASSUME NEW k \in 1..K+1 PROVE Loaded(k)'
  <2>1. Len(doc.entities[k].components) \in Nat
    <3>1. k \in 1..Len(doc.entities)
      BY <1>2, <1>3
    <3>2. doc.entities[k] \in EntityDatum
      BY <1>1, <3>1, LinksAre
    <3> QED
      BY <3>2 DEF EntityDatum
  <2>2. CASE k = K+1
    <3>1. k-1 = K /\ scene'.components[K] = <<>>
      BY <1>2, <1>4, <1>11, <2>2
    <3>2. Filled(k)' = 0
      BY <1>1, <1>2, <2>2 DEF Filled, DocumentKept
    <3> QED
      BY <1>1, <1>2, <1>7, <2>1, <2>2, <3>1, <3>2 DEF Loaded, DocumentKept, h
  <2>3. CASE k # K+1
    <3>1. k \in 1..K /\ k-1 \in Slots /\ k-1 # K
      BY <1>2, <1>4, <2>3 DEF Slots
    <3>2. scene'.components[k-1] = scene.components[k-1]
      BY <1>11, <3>1
    <3>3. Loaded(k)
      BY <3>1 DEF Untouched
    <3>4. Filled(k) = Len(doc.entities[k].components) /\ Filled(k)' = Filled(k)
      BY <1>1, <1>2, <3>1 DEF Filled, DocumentKept
    <3> QED
      BY <1>1, <1>2, <1>7, <3>1, <3>2, <3>3, <3>4 DEF Loaded, DocumentKept
  <2> QED
    BY <2>2, <2>3
<1>13. scene'.layer_name = IF update_settings' /\ phase' # "settings" THEN doc'.layer_name ELSE None
  BY <1>1, <1>2, <1>11 DEF DocumentKept, Untouched
<1> QED
  BY <1>1, <1>2, <1>7, <1>8, <1>10, <1>12, <1>13 DEF Untouched, DocumentKept

LEMMA DeserializeComponentUntouched ==
  ASSUME FileInv, Untouched, DeserializeComponent PROVE Untouched'
<1> DEFINE K == Len(entities)
           held == doc.entities[node].components
           c == held[item]
           i == node-1
           added == IF c.type \in Known THEN [c EXCEPT !.origin = None] ELSE Made(c)
<1>1. DocumentKept /\ DocumentNests
  BY DocumentStays DEF FileInv, DeserializeComponent
<1>2. /\ phase = "components" /\ from_python /\ ~in_hook
      /\ UNCHANGED <<phase, entities, node, hooks, freed, update_settings>>
      /\ K \in Nat /\ node = K /\ item \in Nat \ {0} /\ node \in 1..K
      /\ scene \in Scenes /\ FreeSlots(scene) /\ item <= Len(held)
  BY UntouchedFacts DEF DeserializeComponent, FileInv, Progress
<1>3. /\ entities[node] = [index |-> i, generation |-> 0] /\ Valid(scene, entities[node])
      /\ i \in Slots /\ held \in Seq(Kept)
  BY <1>2, UntouchedFacts
<1>4. /\ Filled(node) = item - 1 /\ Len(scene.components[i]) = item - 1
      /\ \A j \in 1..item-1 : scene.components[i][j] = Made(held[j])
      /\ Len(held) \in Nat
  <2>1. Filled(node) = item - 1
    BY <1>2 DEF Filled
  <2>2. Loaded(node)
    BY <1>2 DEF Untouched
  <2> QED
    BY <1>2, <1>3, <2>1, <2>2 DEF Loaded
<1>5. c \in Kept
  <2>1. item \in 1..Len(held)
    BY <1>2, <1>4
  <2> QED
    BY <1>3, <2>1
<1>6. added \in Component /\ (c.type \notin Known => added = Made(c))
  <2> HIDE DEF c
  <2>2. CASE c.type \in Known
    <3>0. c.type \in Type /\ c = [type |-> c.type, origin |-> c.origin]
      BY <1>5, <2>2, MadeIs DEF Plain
    <3>1. added = [type |-> c.type, origin |-> None]
      BY <2>2, <3>0
    <3> HIDE DEF added
    <3> QED
      BY <2>2, <3>0, <3>1 DEF Component
  <2>3. CASE c.type \notin Known
    BY <1>5, <2>3, MadeIs
  <2> QED
    BY <2>2, <2>3
<1>7. /\ scene' = [scene EXCEPT !.components[i] = Append(@, added)]
      /\ in_hook' = (c.type \in Known)
      /\ item' = IF c.type \in Known THEN item ELSE item + 1
  BY <1>3 DEF DeserializeComponent
<1>8. in_hook' <=> c.type \in Known
  BY <1>7, Zenon
<1> HIDE DEF added, i
<1>9. ComponentsSet(scene, i, Append(scene.components[i], added), scene')
  BY <1>2, <1>3, <1>6, <1>7, ComponentAdded
<1>10. /\ scene.components \in [Slots -> Seq(Component)]
       /\ scene'.components = [scene.components EXCEPT ![i] = Append(scene.components[i], added)]
  BY <1>2, <1>9 DEF Scenes, ComponentsSet
<1>11. Len(scene'.components[i]) = item /\ scene'.components[i][item] = added
       /\ \A j \in 1..item-1 : scene'.components[i][j] = scene.components[i][j]
  <2>1. scene'.components[i] = Append(scene.components[i], added) /\ scene.components[i] \in Seq(Component)
    BY <1>3, <1>10
  <2> HIDE DEF held, c
  <2> QED
    BY <1>2, <1>4, <1>6, <2>1
<1> HIDE DEF c
<1>12. ASSUME NEW k \in 1..K PROVE Loaded(k)'
  <2>1. k-1 \in Slots /\ Loaded(k)
    BY UntouchedFacts DEF Untouched
  <2>2. CASE k = node
    <3>1. CASE c.type \in Known
      <4>1. Filled(k)' = item - 1 /\ item' = item /\ in_hook'
        BY <1>1, <1>2, <1>7, <1>8, <2>2, <3>1 DEF Filled, DocumentKept
      <4>2. \A j \in 1..item-1 : scene'.components[i][j] = Made(held[j])
        BY <1>4, <1>11
      <4>3. Len(scene'.components[k-1]) = item /\ k-1 = i
        BY <1>11, <2>2 DEF i
      <4> QED
        BY <1>1, <1>2, <1>4, <2>1, <2>2, <4>1, <4>2, <4>3 DEF Loaded, DocumentKept
    <3>2. CASE c.type \notin Known
      <4>1. Filled(k)' = item /\ item' = item + 1 /\ ~in_hook'
        BY <1>1, <1>2, <1>7, <1>8, <2>2, <3>2 DEF Filled, DocumentKept
      <4>2. ASSUME NEW j \in 1..item PROVE scene'.components[i][j] = Made(held[j])
        <5>1. j = item \/ j \in 1..item-1
          BY <1>2
        <5>2. scene'.components[i][item] = Made(held[item])
          BY <1>6, <1>11, <3>2 DEF c
        <5> QED
          BY <1>4, <1>11, <5>1, <5>2
      <4>3. Len(scene'.components[k-1]) = item /\ k-1 = i
        BY <1>11, <2>2 DEF i
      <4> QED
        BY <1>1, <1>2, <1>4, <2>1, <2>2, <4>1, <4>2, <4>3 DEF Loaded, DocumentKept
    <3> QED
      BY <3>1, <3>2
  <2>3. CASE k # node
    <3>1. Filled(k)' = Filled(k) /\ k-1 # i
      BY <1>1, <1>2, <2>3 DEF Filled, DocumentKept, i
    <3>2. scene'.components[k-1] = scene.components[k-1]
      BY <1>10, <2>1, <3>1
    <3> QED
      BY <1>1, <1>2, <2>1, <2>3, <3>1, <3>2 DEF Loaded, DocumentKept
  <2> QED
    BY <2>2, <2>3
<1>13. /\ InOrder(scene, Len(entities))' /\ Hanging(scene, Len(entities), HungPlaces)'
       /\ freed' = {}
       /\ scene'.layer_name = IF update_settings' /\ phase' # "settings" THEN doc'.layer_name ELSE None
  BY <1>1, <1>2, <1>9, ComponentsOnly DEF ComponentsSet
<1>14. in_hook' => doc'.entities[node'].components[item'].type \in Known
  BY <1>1, <1>2, <1>7, <1>8 DEF DocumentKept, c
<1> QED
  BY <1>1, <1>2, <1>12, <1>13, <1>14 DEF Untouched, DocumentKept

LEMMA FillComponentUntouched == ASSUME FileInv, Untouched, FillComponent PROVE Untouched'
<1> DEFINE K == Len(entities)
           held == doc.entities[node].components
           c == held[item]
           i == node-1
           old == scene.components[i]
           q == [old EXCEPT ![item] = c]
<1>1. DocumentKept /\ DocumentNests
  BY DocumentStays DEF FileInv, FillComponent
<1>2. /\ phase = "components" /\ from_python /\ in_hook /\ in_hook' = FALSE /\ item' = item + 1
      /\ UNCHANGED <<phase, entities, node, hooks, freed, update_settings>>
      /\ K \in Nat /\ node = K /\ item \in Nat \ {0} /\ node \in 1..K
      /\ scene \in Scenes /\ FreeSlots(scene) /\ item <= Len(held)
  BY UntouchedFacts, HookFacts DEF FillComponent, FileInv, Progress
<1>3. /\ entities[node] = [index |-> i, generation |-> 0] /\ i \in Slots /\ held \in Seq(Kept)
  BY <1>2, UntouchedFacts
<1>4. /\ Filled(node) = item - 1 /\ Len(old) = item
      /\ \A j \in 1..item-1 : old[j] = Made(held[j])
      /\ Len(held) \in Nat
  <2>1. Filled(node) = item - 1
    BY <1>2 DEF Filled
  <2>2. Loaded(node)
    BY <1>2 DEF Untouched
  <2> QED
    BY <1>2, <1>3, <2>1, <2>2 DEF Loaded
<1>5. c \in Kept /\ c.type \in Known
  <2>1. item \in 1..Len(held)
    BY <1>2, <1>4
  <2> QED
    BY <1>2, <1>3, <2>1 DEF Untouched
<1>6. c \in Component /\ Made(c) = c
  BY <1>5, MadeIs
<1>7. scene' = [scene EXCEPT !.components = [scene.components EXCEPT ![i] = q]]
  <2> HIDE DEF held, i
  <2> QED
    BY <1>2, <1>3 DEF Scenes, FillComponent, held
<1>8. scene.components \in [Slots -> Seq(Component)] /\ old \in Seq(Component)
  BY <1>2, <1>3 DEF Scenes
<1> HIDE DEF c, i, old
<1>9. /\ q \in Seq(Component) /\ Len(q) = item /\ q[item] = c
      /\ \A j \in 1..item-1 : q[j] = old[j]
  <2> HIDE DEF held
  <2>1. item \in 1..Len(old)
    BY <1>2, <1>4
  <2> QED
    BY <1>2, <1>4, <1>6, <1>8, <2>1
<1> HIDE DEF q
<1>10. ComponentsSet(scene, i, q, scene')
  <2>1. [scene.components EXCEPT ![i] = q] \in [Slots -> Seq(Component)]
    BY <1>8, <1>9
  <2> QED
    BY <1>2, <1>7, <2>1 DEF Scenes, FreeSlots, ComponentsSet
<1>11. scene'.components = [scene.components EXCEPT ![i] = q] /\ scene'.components[i] = q
  BY <1>3, <1>8, <1>10 DEF ComponentsSet
<1>12. ASSUME NEW k \in 1..K PROVE Loaded(k)'
  <2>1. k-1 \in Slots /\ Loaded(k)
    BY UntouchedFacts DEF Untouched
  <2>2. CASE k = node
    <3>1. Filled(k)' = item
      BY <1>1, <1>2, <2>2 DEF Filled, DocumentKept
    <3>2. ASSUME NEW j \in 1..item PROVE scene'.components[i][j] = Made(held[j])
      <4>1. j = item \/ j \in 1..item-1
        BY <1>2
      <4>2. q[item] = Made(held[item])
        BY <1>6, <1>9 DEF c
      <4> QED
        BY <1>4, <1>9, <1>11, <4>1, <4>2
    <3>3. Len(scene'.components[k-1]) = item /\ k-1 = i
      BY <1>9, <1>11, <2>2 DEF i
    <3> QED
      BY <1>1, <1>2, <1>4, <2>1, <2>2, <3>1, <3>2, <3>3 DEF Loaded, DocumentKept
  <2>3. CASE k # node
    <3>1. Filled(k)' = Filled(k) /\ k-1 # i
      BY <1>1, <1>2, <2>3 DEF Filled, DocumentKept, i
    <3>2. scene'.components[k-1] = scene.components[k-1]
      BY <1>8, <1>11, <2>1, <3>1
    <3> QED
      BY <1>1, <1>2, <2>1, <2>3, <3>1, <3>2 DEF Loaded, DocumentKept
  <2> QED
    BY <2>2, <2>3
<1>13. /\ InOrder(scene, Len(entities))' /\ Hanging(scene, Len(entities), HungPlaces)'
       /\ freed' = {}
       /\ scene'.layer_name = IF update_settings' /\ phase' # "settings" THEN doc'.layer_name ELSE None
  BY <1>1, <1>2, <1>10, ComponentsOnly DEF ComponentsSet
<1> QED
  BY <1>1, <1>2, <1>12, <1>13 DEF Untouched, DocumentKept

\* A call that returns when the last entity is done hangs an entity behind those
\* that hang already.
LEMMA HungInTurn ==
  ASSUME FileInv, Untouched, NEW s \in Scenes, Relinked(scene, s),
         NEW K, K = Len(entities), K \in 1..Len(doc.entities),
         NEW H, H \subseteq 1..K, Hanging(s, K, H), NEW j \in Returning(K), j \notin H
  PROVE  Hanging(Hung(s, j), K, H \cup {j})
<1>1. /\ DocumentNests /\ j \in 1..K /\ K \in Nat /\ K <= Capacity /\ K <= Len(doc.entities)
      /\ \A k \in 1..K : k \in 1..Len(doc.entities)
  BY UntouchedFacts DEF Returning
<1>2. Links[j] \in 0..j-1 /\ doc.entities[j].above = Links[j]
  BY <1>1, LinksAre
<1>3. ASSUME NEW k \in 1..K PROVE Valid(s, entities[k]) /\ entities[k].index = k-1
  <2>1. Valid(scene, entities[k]) /\ entities[k] = [index |-> k-1, generation |-> 0]
    BY UntouchedFacts
  <2> QED
    BY <2>1 DEF Valid, Relinked
<1>4. CASE Links[j] = 0
  <2>1. Hung(s, j) = s
    BY <1>2, <1>4 DEF Hung
  <2> QED
    BY <1>4, <2>1 DEF Hanging
<1>5. CASE Links[j] # 0
  <2>1. Links[j] > 0 /\ Links[j] \in 1..K
    BY <1>1, <1>2, <1>5
  <2>2. Hung(s, j) = WithParent(s, j-1, Links[j]-1)
    <3> DEFINE up == Links[j]
    <3>1. up # 0 /\ up \in 1..K /\ doc.entities[j].above = up
      BY <1>2, <1>5, <2>1
    <3> HIDE DEF up
    <3>2. Valid(s, entities[up]) /\ entities[up].index = up-1 /\ Valid(s, entities[j])
          /\ entities[j].index = j-1
      BY <1>1, <1>3, <3>1
    <3>3. Hung(s, j) = WithParent(s, j-1, up-1)
      BY <3>1, <3>2 DEF Hung
    <3> QED
      BY <3>3 DEF up
  <2>3. ASSUME NEW x \in H, Links[x] = Links[j] PROVE x < j
    <3>1. x \in 1..K /\ x # j
      BY <1>1
    <3>2. ASSUME x > j PROVE FALSE
      <4>1. x \in j+1..K
        BY <1>1, <3>1, <3>2
      <4>2. \A y \in j+1..K : Links[y] >= j
        BY <1>1, ReturningIs
      <4>3. Links[x] >= j
        BY <4>1, <4>2
      <4> QED
        BY <1>1, <1>2, <2>3, <4>3
    <3> QED
      BY <1>1, <3>1, <3>2
  <2>4. \A x \in H : Links[x] = Links[j] => x < j
    BY <2>3
  <2>5. Hanging(WithParent(s, j-1, Links[j]-1), K, H \cup {j})
    BY <1>1, <2>1, <2>4, OneMoreHung
  <2> QED
    BY <2>2, <2>5
<1> QED
  BY <1>4, <1>5

LEMMA DeserializeReturnsUntouched ==
  ASSUME FileInv, Untouched, DeserializeReturns PROVE Untouched'
<1> DEFINE K == Len(entities)
           held == doc.entities[node].components
<1>1. DocumentKept /\ DocumentNests
  BY DocumentStays DEF FileInv, DeserializeReturns
<1>2. /\ phase = "components" /\ from_python /\ ~in_hook /\ phase' \in {"entities", "done"}
      /\ UNCHANGED <<entities, node, item, hooks, freed, update_settings>>
      /\ in_hook' = in_hook /\ freed = {}
      /\ K \in Nat /\ node = K /\ node \in Nat \ {0} /\ item \in Nat \ {0}
      /\ scene \in Scenes /\ scene' = AfterReturns(K) /\ Loading
      /\ item > Len(held) \/ ~Valid(scene, entities[node])
      /\ K <= Len(doc.entities) /\ Len(doc.entities) \in Nat
      /\ \A k \in 1..K : k \in 1..Len(doc.entities)
  BY UntouchedFacts DEF DeserializeReturns, FileInv, FileTypes, Progress, Untouched
<1>3. K \in 1..K /\ K \in 0..K /\ K \in 1..Len(doc.entities)
  BY <1>2
<1>4. PICK after \in [0..K -> Scenes] :
        /\ after[0] = scene
        /\ \A m \in 1..K :
             /\ K+1-m \in Returning(K) => after[m] = Hung(after[m-1], K+1-m)
             /\ K+1-m \notin Returning(K) => after[m] = after[m-1]
             /\ Relinked(after[m-1], after[m])
        /\ AfterReturns(K) = after[K]
  BY <1>1, <1>2, <1>3, Returned
<1> DEFINE H(m) == HungPlaces \cup { k \in Returning(K) : k > K-m }
           Done == { m \in 0..K : Relinked(scene, after[m]) /\ Hanging(after[m], K, H(m)) }
<1>5. HungPlaces = { k \in 1..K : \E m \in k..K : k \in Returning(m) /\ m < K }
  BY <1>2 DEF HungPlaces
<1>6. Returning(K) \subseteq 1..K /\ HungPlaces \subseteq 1..K
  BY <1>5 DEF Returning
<1>7. \A j \in Returning(K) : j \notin HungPlaces
  <2> SUFFICES ASSUME NEW j \in Returning(K), NEW m \in j..K, j \in Returning(m), m < K PROVE FALSE
    BY <1>5
  <2>1. m \in 1..K-1
    BY <1>2, <1>6
  <2> QED
    BY <1>1, <1>3, <2>1, ReturnsOnce
<1>8. 0 \in Done
  <2>1. Relinked(scene, scene)
    BY <1>2 DEF Relinked
  <2>2. \A k \in Returning(K) : ~(k > K-0)
    BY <1>2, <1>6
  <2>3. H(0) = HungPlaces
    BY <2>2
  <2>4. Hanging(scene, K, HungPlaces) /\ 0 \in 0..K
    BY <1>2 DEF Untouched
  <2> QED
    BY <1>4, <2>1, <2>3, <2>4
<1>9. ASSUME NEW m \in 0..K-1, m \in Done PROVE m+1 \in Done
  <2> DEFINE j == K-m
  <2>1. m+1 \in 1..K /\ (m+1)-1 = m /\ K+1-(m+1) = j /\ m \in 0..K /\ m+1 \in 0..K
    BY <1>2
  <2>2. after[m] \in Scenes /\ Relinked(scene, after[m]) /\ Hanging(after[m], K, H(m))
        /\ H(m) \subseteq 1..K
    BY <1>6, <1>9, <2>1
  <2>3. /\ j \in Returning(K) => after[m+1] = Hung(after[m], j)
        /\ j \notin Returning(K) => after[m+1] = after[m]
        /\ Relinked(after[m], after[m+1])
    <3>1. /\ K+1-(m+1) \in Returning(K) => after[m+1] = Hung(after[(m+1)-1], K+1-(m+1))
          /\ K+1-(m+1) \notin Returning(K) => after[m+1] = after[(m+1)-1]
          /\ Relinked(after[(m+1)-1], after[m+1])
      BY <1>4, <2>1
    <3> HIDE DEF j
    <3> QED
      BY <2>1, <3>1
  <2>4. Relinked(scene, after[m+1])
    BY <2>2, <2>3 DEF Relinked
  <2>5. \A k \in 1..K : k > K-(m+1) <=> k > K-m \/ k = j
    BY <1>2, <2>1
  <2>6. CASE j \in Returning(K)
    <3>1. H(m+1) = H(m) \cup {j}
      <4> HIDE DEF j
      <4> QED
        BY <1>6, <2>5, <2>6
    <3>2. j \notin H(m)
      BY <1>2, <1>7, <2>6
    <3> HIDE DEF H
    <3>3. Hanging(Hung(after[m], j), K, H(m) \cup {j})
      <4> HIDE DEF j
      <4> QED
        BY <1>3, <2>2, <2>6, <3>2, HungInTurn
    <3> QED
      BY <2>1, <2>3, <2>4, <2>6, <3>1, <3>3
  <2>7. CASE j \notin Returning(K)
    <3>1. H(m+1) = H(m)
      <4> HIDE DEF j
      <4> QED
        BY <1>6, <2>5, <2>7
    <3> HIDE DEF H
    <3> QED
      BY <2>1, <2>2, <2>3, <2>4, <2>7, <3>1
  <2> QED
    BY <2>6, <2>7
<1>10. 0..K \subseteq Done
  <2> HIDE DEF Done
  <2> QED
    BY <1>2, <1>8, <1>9, CountingUp
<1>11. Relinked(scene, scene') /\ Hanging(scene', K, H(K))
  BY <1>2, <1>3, <1>4, <1>10
<1>12. HungPlaces' = H(K)
  <2>1. \A k : Returning(k)' = Returning(k)
    BY <1>1 DEF Returning, DocumentKept
  <2>2. HungPlaces' = { k \in 1..K : \E m \in k..K : k \in Returning(m) }
    BY <1>1, <1>2, <2>1 DEF HungPlaces, DocumentKept
  <2>3. H(K) = HungPlaces \cup Returning(K)
    <3>1. \A k \in 1..K : k > K-K
      BY <1>2
    <3> QED
      BY <1>6, <3>1
  <2> HIDE DEF H
  <2>4. \A k \in 1..K : K \in k..K
    BY <1>2
  <2>5. \A k \in 1..K : \A m \in k..K : m < K \/ m = K
    BY <1>2
  <2> QED
    BY <1>5, <1>6, <2>2, <2>3, <2>4, <2>5
<1>13. Hanging(scene, Len(entities), HungPlaces)'
  BY <1>1, <1>2, <1>11, <1>12 DEF Hanging, DocumentKept
<1>14. InOrder(scene, Len(entities))'
  BY <1>2, <1>11 DEF Untouched, InOrder, Relinked
<1>15. ASSUME NEW k \in 1..K PROVE Loaded(k)'
  <2>1. Loaded(k)
    BY DEF Untouched
  <2>2. Filled(k) = Len(doc.entities[k].components)
    <3>1. CASE k = K
      <4>1. Filled(k) = item - 1
        BY <1>2, <3>1 DEF Filled
      <4>2. Valid(scene, entities[node]) /\ Len(held) \in Nat
        <5>1. Valid(scene, entities[k]) /\ doc.entities[k].components \in Seq(Kept)
          BY UntouchedFacts
        <5> QED
          BY <1>2, <3>1, <5>1
      <4>3. Filled(k) <= Len(held)
        BY <1>2, <2>1, <3>1 DEF Loaded
      <4> QED
        BY <1>2, <3>1, <4>1, <4>2, <4>3
    <3>2. CASE k # K
      BY <1>2, <3>2 DEF Filled
    <3> QED
      BY <3>1, <3>2
  <2>3. Filled(k)' = Len(doc.entities[k].components)
    BY <1>1, <1>2 DEF Filled, DocumentKept
  <2>4. scene'.components = scene.components
    BY <1>11 DEF Relinked
  <2> QED
    BY <1>1, <1>2, <2>1, <2>2, <2>3, <2>4 DEF Loaded, DocumentKept
<1>16. scene'.layer_name = IF update_settings' /\ phase' # "settings" THEN doc'.layer_name ELSE None
  <2>1. scene'.layer_name = scene.layer_name
    BY <1>11 DEF Relinked
  <2> QED
    BY <1>1, <1>2, <2>1 DEF DocumentKept, Untouched
<1> QED
  BY <1>1, <1>2, <1>13, <1>14, <1>15, <1>16 DEF Untouched, DocumentKept

\* While no hook has done anything, the scene is what the document says so far.
THEOREM UntouchedUntilHooks == FileSpec => []UntouchedInv
<1>1. FileInit => UntouchedInv
  BY UntouchedAtFirst DEF UntouchedInv
<1>2. ASSUME FileInv, UntouchedInv, [FileNext]_fileVars PROVE UntouchedInv'
  <2> SUFFICES ASSUME hooks' = 0 PROVE Untouched'
    BY DEF UntouchedInv
  <2>1. ASSUME hooks' = hooks PROVE Untouched
    BY <1>2, <2>1 DEF UntouchedInv
  <2>2. CASE Settings
    BY <1>2, <2>1, <2>2, SettingsUntouched DEF Settings
  <2>3. CASE LoadEntity
    BY <1>2, <2>1, <2>3, LoadEntityUntouched DEF LoadEntity
  <2>4. CASE LoadComponent
    BY <1>2, <2>1, <2>4, LoadComponentUntouched DEF LoadComponent
  <2>5. CASE Finish
    BY <1>2, <2>1, <2>5, FinishUntouched DEF Finish
  <2>6. CASE DeserializeEntity
    BY <1>2, <2>1, <2>6, DeserializeEntityUntouched DEF DeserializeEntity
  <2>7. CASE DeserializeComponent
    BY <1>2, <2>1, <2>7, DeserializeComponentUntouched DEF DeserializeComponent
  <2>8. CASE FillComponent
    BY <1>2, <2>1, <2>8, FillComponentUntouched DEF FillComponent
  <2>9. CASE DeserializeReturns
    BY <1>2, <2>1, <2>9, DeserializeReturnsUntouched DEF DeserializeReturns
  <2>10. CASE \/ \E i \in Slots : HookFrees(i)
              \/ HookMakes
    <3>1. hooks' = hooks + 1 /\ hooks \in Nat
      BY <1>2, <2>10 DEF HookFrees, HookMakes, FileInv, FileTypes
    <3> QED
      BY <3>1
  <2>11. CASE UNCHANGED fileVars
    <3>1. /\ UNCHANGED <<saved, scene, phase, entities, item, node, in_hook, hooks, from_python,
                         freed, update_settings>>
          /\ hooks' = hooks
      BY <2>11 DEF fileVars, loadVars
    <3>2. DocumentKept /\ Untouched
      BY <1>2, <2>1, <3>1, DocumentStays DEF FileInv
    <3>3. \A k : Loaded(k)' = Loaded(k) /\ Returning(k)' = Returning(k)
      BY <3>1, <3>2 DEF Loaded, Filled, Returning, DocumentKept
    <3>4. HungPlaces' = HungPlaces
      BY <3>1, <3>2, <3>3 DEF HungPlaces, DocumentKept
    <3>5. Hanging(scene, Len(entities), HungPlaces)' /\ InOrder(scene, Len(entities))'
      BY <3>1, <3>2, <3>4 DEF Untouched, Hanging, InOrder, DocumentKept
    <3> QED
      BY <3>1, <3>2, <3>3, <3>5 DEF Untouched, DocumentKept
  <2> QED
    BY <1>2, <2>2, <2>3, <2>4, <2>5, <2>6, <2>7, <2>8, <2>9, <2>10, <2>11, Zenon DEF FileNext
<1> QED
  BY <1>1, <1>2, FileInvariant, PTL DEF FileSpec

\* At the end every entity of the document hangs where the document has it.
LEMMA AllHang ==
  ASSUME FileInv, Untouched, phase = "done"
  PROVE  /\ Len(entities) = Len(doc.entities) /\ ~in_hook
         /\ Hanging(scene, Len(entities), 1..Len(entities))
<1>1. Len(entities) = Len(doc.entities) /\ ~in_hook /\ DocumentNests
  BY UntouchedFacts DEF FileInv, Progress
<1>2. HungPlaces = 1..Len(entities)
  <2>1. CASE ~from_python
    BY <2>1 DEF HungPlaces
  <2>2. CASE from_python
    <3>1. \A k \in 1..Len(entities) : \E m \in k..Len(entities) : k \in Returning(m)
      BY <1>1, AllReturn
    <3> QED
      BY <3>1 DEF HungPlaces
  <2> QED
    BY <2>1, <2>2
<1> QED
  BY <1>1, <1>2 DEF Untouched

\* Saving what was loaded writes the entities in the order they were read in,
\* each below the same one.
LEMMA SameOrder ==
  ASSUME FileInv, Untouched, phase = "done"
  PROVE  /\ Len(SaveOrder(scene)) = Len(doc.entities)
         /\ \A k \in 1..Len(doc.entities) : /\ SaveOrder(scene)[k] = k-1
                                            /\ Above(scene, k) = doc.entities[k].above
<1> DEFINE N == Len(doc.entities)
           rank == [i \in Slots |-> i]
<1>1. /\ DocumentNests /\ N \in Nat /\ N <= Capacity /\ Capacity \in Nat /\ N \in 0..Capacity
      /\ scene \in Scenes /\ Hanging(scene, N, 1..N) /\ InOrder(scene, N)
      /\ None \notin Slots
  BY AllHang, UntouchedFacts, FileAssumption DEF Untouched, Slots
<1>2. /\ scene.alive = 0..N-1 /\ scene.serializable = 0..N-1
      /\ scene.parent \in [Slots -> Slots \cup {None}] /\ scene.children \in [Slots -> Seq(Slots)]
      /\ Ascending(scene.children)
  BY <1>1 DEF InOrder, Hanging, Scenes
<1>3. \A k \in 1..N : Links[k] \in 0..k-1
  BY <1>1, LinksAre
<1>4. Numbered(scene.parent, N, Links)
  <2>1. ASSUME NEW i \in 0..N-1
        PROVE  scene.parent[i] = IF Links[i+1] = 0 THEN None ELSE Links[i+1] - 1
    <3>1. i+1 \in 1..N /\ (i+1)-1 = i
      BY <1>1
    <3>2. Links[i+1] \in 0..(i+1)-1
      BY <1>3, <3>1
    <3>3. scene.parent[(i+1)-1] = IF i+1 \in 1..N /\ Links[i+1] > 0 THEN Links[i+1] - 1 ELSE None
      BY <1>1, <3>1 DEF Hanging
    <3> QED
      BY <3>1, <3>2, <3>3
  <2> QED
    BY <2>1 DEF Numbered
<1>5. Ranked(0..N-1, scene.parent, rank)
  <2>1. 0..N-1 \subseteq Slots /\ rank \in [Slots -> 0..Capacity]
    BY <1>1 DEF Slots
  <2>2. ASSUME NEW j \in 0..N-1, scene.parent[j] # None
        PROVE  scene.parent[j] \in 0..N-1 /\ rank[scene.parent[j]] < rank[j]
    <3>1. j+1 \in 1..N
      BY <1>1
    <3>2. Links[j+1] \in 0..(j+1)-1
      BY <1>3, <3>1
    <3>3. Links[j+1] # 0 /\ scene.parent[j] = Links[j+1] - 1
      BY <1>4, <2>2 DEF Numbered
    <3>4. scene.parent[j] \in 0..N-1 /\ scene.parent[j] < j
      BY <1>1, <3>2, <3>3
    <3>5. rank[scene.parent[j]] = scene.parent[j] /\ rank[j] = j
      BY <2>1, <3>4
    <3> QED
      BY <3>4, <3>5
  <2> HIDE DEF rank
  <2> QED
    BY <2>1, <2>2 DEF Ranked
<1>6. Mirrored(0..N-1, scene.parent, scene.children)
  <2>1. ASSUME NEW i \in 0..N-1
        PROVE  /\ IsInjective(scene.children[i])
               /\ ToSet(scene.children[i]) = { j \in 0..N-1 : scene.parent[j] = i }
    <3>1. i \in Slots
      BY <1>1 DEF Slots
    <3>2. ToSet(scene.children[i]) = { j \in 0..N-1 : scene.parent[j] = i }
      BY <1>1, <3>1 DEF Hanging
    <3>3. scene.children[i] \in Seq(Slots)
      BY <1>2, <3>1
    <3>4. \A a, b \in 1..Len(scene.children[i]) :
            a < b => scene.children[i][a] < scene.children[i][b]
      BY <1>2, <3>1 DEF Ascending
    <3>5. IsInjective(scene.children[i])
      <4> DEFINE q == scene.children[i]
      <4>1. q \in Seq(Slots) /\ \A a, b \in 1..Len(q) : a < b => q[a] < q[b]
        BY <3>3, <3>4
      <4> HIDE DEF q
      <4>2. DOMAIN q = 1..Len(q) /\ Len(q) \in Nat /\ \A a \in 1..Len(q) : q[a] \in Int
        BY <4>1, <1>1 DEF Slots
      <4>3. ASSUME NEW a \in 1..Len(q), NEW b \in 1..Len(q), q[a] = q[b] PROVE a = b
        <5>1. ~(a < b) /\ ~(b < a)
          BY <4>1, <4>2, <4>3
        <5> QED
          BY <5>1
      <4>4. IsInjective(q)
        BY <4>2, <4>3 DEF IsInjective
      <4> QED
        BY <4>4 DEF q
    <3> QED
      BY <3>2, <3>5
  <2> QED
    BY <1>2, <2>1 DEF Mirrored
<1> HIDE DEF rank
<1>7. Whole(scene, rank)
  BY <1>2, <1>5, <1>6 DEF Whole
<1> DEFINE w == SaveOrder(scene)
           T == Roots(scene) \cap scene.serializable
<1>8. Len(w) = N /\ \A k \in 1..N : w[k] = k-1
  <2>1. Wood(scene.parent, 0..N-1, scene.children, w, T)
    BY <1>2, <1>7, SaveOrderIsWood
  <2>2. ToSet(w) = 0..N-1
    BY <1>2, <1>7, AllWritten
  <2>3. \A t \in T : scene.parent[t] = None
    BY DEF Roots
  <2>4. Nests(N, Links)
    BY <1>1 DEF DocumentNests
  <2> HIDE DEF w, T, N
  <2> QED
    BY <1>1, <1>2, <1>4, <2>1, <2>2, <2>3, <2>4, WoodIsInOrder
<1>9. ASSUME NEW k \in 1..N PROVE Above(scene, k) = doc.entities[k].above
  <2>1. doc.entities[k].above = Links[k] /\ Links[k] \in 0..k-1
    BY <1>1, LinksAre
  <2>2. \/ scene.parent[w[k]] = None /\ Above(scene, k) = 0
        \/ /\ scene.parent[w[k]] # None
           /\ Above(scene, k) \in 1..k-1
           /\ w[Above(scene, k)] = scene.parent[w[k]]
    BY <1>7, <1>8, AboveIs
  <2> HIDE DEF w
  <2>3. w[k] = k-1 /\ k-1 \in 0..N-1
    BY <1>1, <1>8
  <2>4. scene.parent[k-1] = IF Links[k] = 0 THEN None ELSE Links[k] - 1
    <3>1. (k-1)+1 = k
      OBVIOUS
    <3> QED
      BY <1>4, <2>3, <3>1 DEF Numbered
  <2>5. CASE Links[k] = 0
    BY <2>1, <2>2, <2>3, <2>4, <2>5
  <2>6. CASE Links[k] # 0
    <3>1. Links[k] - 1 \in Slots
      BY <1>1, <2>1, <2>6 DEF Slots
    <3>2. /\ Above(scene, k) \in 1..k-1
          /\ w[Above(scene, k)] = Links[k] - 1
      BY <1>1, <2>2, <2>3, <2>4, <2>6, <3>1
    <3>3. w[Above(scene, k)] = Above(scene, k) - 1
      <4>1. Above(scene, k) \in 1..N
        BY <1>1, <3>2
      <4> QED
        BY <1>8, <4>1
    <3> QED
      BY <2>1, <3>2, <3>3
  <2> QED
    BY <2>5, <2>6
<1> QED
  BY <1>8, <1>9

\* What is written for the entity in slot k-1 is what was read into it, by
\* either of the two.
LEMMA SameData ==
  ASSUME FileInv, Untouched, phase = "done", NEW k \in 1..Len(doc.entities),
         NEW order, EntityData(scene, order, k-1).above = doc.entities[k].above
  PROVE  LET data == doc.entities[k]
             held == data.components
         IN  /\ WrittenAgain(data, EntityData(scene, order, k-1),
                             [j \in 1..Len(held) |-> Wrapped(held[j], Type \ Known)])
             /\ WrittenAgain(data, PythonData(scene, order, k-1),
                             [j \in 1..Len(held) |-> Unwrapped(held[j])])
<1> DEFINE d == doc.entities[k]
           held == d.components
           q == scene.components[k-1]
           u == scene.uuid[k-1]
           e == EntityData(scene, order, k-1)
           wrapped == [j \in 1..Len(held) |-> Wrapped(held[j], Type \ Known)]
           plain == [j \in 1..Len(held) |-> Unwrapped(held[j])]
<1>1. k \in 1..Len(entities) /\ ~in_hook /\ Len(entities) \in Nat /\ k \in Nat
  BY AllHang, UntouchedFacts
<1>2. d = [uuid |-> d.uuid, above |-> d.above, components |-> held] /\ held \in Seq(Kept)
  <2>1. d \in EntityDatum
    BY UntouchedFacts, LinksAre
  <2> QED
    BY <2>1 DEF EntityDatum
<1>3. Loaded(k)
  BY <1>1 DEF Untouched
<1>4. Filled(k) = Len(held)
  <2>1. CASE from_python
    BY <2>1 DEF Filled
  <2>2. CASE ~from_python
    <3>1. node > Len(entities) /\ node \in Nat
      BY <2>2, UntouchedFacts DEF Untouched
    <3>2. k < node
      BY <1>1, <3>1
    <3> QED
      BY <3>2 DEF Filled
  <2> QED
    BY <2>1, <2>2
<1>5. Len(q) = Len(held) /\ \A j \in 1..Len(held) : q[j] = Made(held[j])
  BY <1>1, <1>3, <1>4 DEF Loaded
<1>6. q = wrapped /\ [j \in 1..Len(q) |-> Unwrapped(q[j])] = plain
  <2>1. ASSUME NEW j \in 1..Len(held)
        PROVE  q[j] = Wrapped(held[j], Type \ Known) /\ Unwrapped(q[j]) = Unwrapped(held[j])
    <3>1. held[j] \in Kept
      BY <1>2
    <3> QED
      BY <1>5, <3>1, MadeIs DEF Made
  <2>2. q = [j \in 1..Len(q) |-> q[j]]
    <3>1. k-1 \in Slots /\ scene \in Scenes
      BY <1>1, UntouchedFacts
    <3>2. q \in Seq(Component)
      BY <3>1 DEF Scenes
    <3> HIDE DEF q
    <3> QED
      BY <3>2
  <2>3. 1..Len(q) = 1..Len(held)
    BY <1>5
  <2> HIDE DEF held, q
  <2> QED
    BY <2>1, <2>2, <2>3, Zenon
<1>7. e = [uuid |-> u, above |-> d.above, components |-> q]
  BY DEF EntityData
<1>8. PythonData(scene, order, k-1) = [uuid |-> u, above |-> d.above, components |-> plain]
  <2>1. PythonData(scene, order, k-1) =
          [e EXCEPT !.components = [j \in 1..Len(e.components) |-> Unwrapped(e.components[j])]]
    BY DEF PythonData
  <2> HIDE DEF q, d, e, u, plain
  <2>2. e.components = q
    BY <1>7
  <2>3. PythonData(scene, order, k-1) = [e EXCEPT !.components = plain]
    BY <1>6, <2>1, <2>2, Zenon
  <2> QED
    BY <1>7, <2>3
<1>9. e = [uuid |-> u, above |-> d.above, components |-> wrapped]
  <2> HIDE DEF q, d, e, u, wrapped, plain
  <2> QED
    BY <1>6, <1>7
<1>10. ~from_python => u = d.uuid
  BY <1>3 DEF Loaded
<1> HIDE DEF d, held, e, u, wrapped, plain
<1>11. ASSUME NEW again, NEW list, again = [uuid |-> u, above |-> d.above, components |-> list]
       PROVE  WrittenAgain(d, again, list)
  <2>1. again.uuid = u
    BY <1>11
  <2>2. u = IF from_python THEN again.uuid ELSE d.uuid
    BY <1>10, <2>1
  <2> QED
    BY <1>11, <2>2, Zenon DEF WrittenAgain
<1>12. WrittenAgain(d, e, wrapped) /\ WrittenAgain(d, PythonData(scene, order, k-1), plain)
  BY <1>8, <1>9, <1>11
<1> QED
  BY <1>12 DEF d, held, e, wrapped, plain

\* ReloadIsFaithful: where no hook did anything, saving what was loaded, by
\* load_from_data or from Python, gives the document again, from
\* TcSceneRef::serialize with what is not registered in placeholders, from
\* Entity.serialize with nothing in one.
THEOREM ReloadsAreFaithful == FileSpec => []ReloadIsFaithful
<1>1. ASSUME FileInv, UntouchedInv PROVE ReloadIsFaithful
  <2> DEFINE order == SaveOrder(scene)
             Again(k) ==
               LET data == doc.entities[k]
                   held == data.components
               IN  /\ WrittenAgain(data, EntityData(scene, order, order[k]),
                                   [j \in 1..Len(held) |-> Wrapped(held[j], Type \ Known)])
                   /\ WrittenAgain(data, PythonData(scene, order, order[k]),
                                   [j \in 1..Len(held) |-> Unwrapped(held[j])])
  <2> SUFFICES ASSUME phase = "done", hooks = 0 PROVE ReloadIsFaithful
    BY DEF ReloadIsFaithful
  <2>1. Untouched
    BY <1>1 DEF UntouchedInv
  <2>2. update_settings => Save(scene).layer_name = doc.layer_name
    BY <2>1 DEF Untouched, Save
  <2>3. /\ Len(order) = Len(doc.entities)
        /\ \A k \in 1..Len(doc.entities) : /\ order[k] = k-1
                                           /\ Above(scene, k) = doc.entities[k].above
    BY <1>1, <2>1, SameOrder
  <2>4. ASSUME NEW k \in 1..Len(doc.entities) PROVE Again(k)
    <3>1. order[k] = k-1
      BY <2>3
    <3>2. EntityData(scene, order, k-1).above = doc.entities[k].above
      BY <2>3, <3>1, Zenon DEF Above
    <3> QED
      BY <1>1, <2>1, <3>1, <3>2, SameData
  <2>5. \A k \in 1..Len(order) : Save(scene).entities[k] = EntityData(scene, order, order[k])
    BY DEF Save
  <2> HIDE DEF order
  <2> QED
    BY <2>2, <2>3, <2>4, <2>5 DEF ReloadIsFaithful, order
<1> QED
  BY <1>1, FileInvariant, UntouchedUntilHooks, PTL
=============================================================================
