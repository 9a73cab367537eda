-------------------------- MODULE EntitySoA_proofs --------------------------
(***************************************************************************)
(* Theorems about EntitySoA, for every number of slots, every set of data  *)
(* types and any number of rows filled.                                    *)
(*                                                                         *)
(* An operation that moves an entity vacates a row of one archetype and    *)
(* fills a row of another.  The two halves are reasoned about apart, as    *)
(* operations on a layout: the archetypes, and for each slot of a set S    *)
(* the archetype and the row it is said to be in.                          *)
(***************************************************************************)
EXTENDS EntitySoA, SequenceTheorems, TLAPS

Id == [index : Slots, generation : Nat]

\* An archetype as tc_archetype_create makes it and every row operation
\* keeps it: the arrays of its own types are as long as its rows need.
Archetype ==
  { a \in [type_mask : Masks, entities : Seq(Id), data : [Types -> Seq(Values)]] :
      \A t \in a.type_mask : RowCount(a) <= Len(a.data[t]) }

TypeOK ==
  /\ generations \in [Slots -> Nat]
  /\ alive \in [Slots -> BOOLEAN]
  /\ archetypes \in Seq(Archetype)
  /\ soa_archetype_ids \in [Slots -> Nat \cup {NoArchetype}]
  /\ soa_archetype_rows \in [Slots -> Nat]
  /\ soa_type_masks \in [Slots -> SUBSET Types]
  /\ births \in 0..MaxBirths
  /\ destroyed \in SUBSET (Types \X Values)

\* pool_get_or_create_archetype makes one archetype for a mask.
OnePerMask(archs) ==
  \A k, l \in 1..Len(archs) : archs[k].type_mask = archs[l].type_mask => k = l

\* The slots that have a row.
Placed == { i \in Slots : alive[i] /\ soa_type_masks[i] # {} }

\* The slots of S and the rows in use point at each other.
Layout(archs, ids, rows, masks, S) ==
  /\ archs \in Seq(Archetype) /\ OnePerMask(archs)
  /\ ids \in [Slots -> Nat \cup {NoArchetype}]
  /\ rows \in [Slots -> Nat]
  /\ masks \in [Slots -> SUBSET Types]
  /\ S \subseteq Slots
  /\ \A i \in S :
       /\ ids[i] \in 1..Len(archs)
       /\ archs[ids[i]].type_mask = masks[i]
       /\ rows[i] \in Rows(archs[ids[i]])
       /\ archs[ids[i]].entities[rows[i]] = IdAt(i)
  /\ \A k \in 1..Len(archs) : \A r \in Rows(archs[k]) :
       \E i \in S : archs[k].entities[r] = IdAt(i) /\ ids[i] = k /\ rows[i] = r

\* A row in use is that of a slot of S.
LEMMA RowHasSlot ==
  ASSUME NEW archs, NEW ids, NEW rows, NEW masks, NEW S,
         Layout(archs, ids, rows, masks, S)
  PROVE  \A k \in 1..Len(archs) : \A r \in Rows(archs[k]) :
           \E i \in S : archs[k].entities[r] = IdAt(i) /\ ids[i] = k /\ rows[i] = r
  BY ZenonT(30) DEF Layout

\* The inductive strengthening of RowsAgree.
LayoutInv ==
  /\ TypeOK
  /\ Layout(archetypes, soa_archetype_ids, soa_archetype_rows, soa_type_masks, Placed)
  /\ \A i \in LiveSlots : soa_type_masks[i] = {} => ~HasArchetype(i)

\* The element of type t in the row of a slot.
Element(archs, ids, rows, i, t) == archs[ids[i]].data[t][rows[i]]

\* The slots of S find the same elements after as before.
SameElements(S, masks, archs, ids, rows, archs2, ids2, rows2) ==
  \A h \in S, t \in Types :
    t \in masks[h] => Element(archs2, ids2, rows2, h, t) = Element(archs, ids, rows, h, t)
-----------------------------------------------------------------------------
(* Rows of one archetype                                                    *)

LEMMA MaskFacts ==
  ASSUME NEW mask \in Masks
  PROVE  mask # {} /\ mask \in SUBSET Types
  BY DEF Masks

LEMMA ArchetypeFields ==
  ASSUME NEW a \in Archetype
  PROVE  /\ a.type_mask \in Masks /\ a.type_mask \subseteq Types
         /\ a.entities \in Seq(Id)
         /\ RowCount(a) \in Nat
         /\ a.data \in [Types -> Seq(Values)]
         /\ \A t \in a.type_mask : RowCount(a) <= Len(a.data[t])
  BY DEF Archetype, Masks, RowCount

LEMMA ValuesFacts == 0 \in Values /\ Zero \in Values /\ Written \in Values /\ 1..MaxBirths \subseteq Values
                     /\ Values \subseteq Nat
  BY BoundsAssumption DEF Values, Zero, Written

\* What vacating a row does to an archetype.
LEMMA DetachRowEffect ==
  ASSUME NEW a \in Archetype, NEW row \in Rows(a), NEW b, b = DetachRow(a, row)
  PROVE  /\ b \in Archetype
         /\ b.type_mask = a.type_mask
         /\ RowCount(b) = RowCount(a) - 1
         /\ \A r \in Rows(b) : b.entities[r] = a.entities[IF r = row THEN RowCount(a) ELSE r]
         /\ \A t \in a.type_mask, r \in Rows(b) :
              b.data[t][r] = a.data[t][IF r = row THEN RowCount(a) ELSE r]
<1> DEFINE last == RowCount(a)
<1>1. /\ a = [type_mask |-> a.type_mask, entities |-> a.entities, data |-> a.data]
      /\ a.type_mask \in Masks /\ a.type_mask \subseteq Types
      /\ a.entities \in Seq(Id) /\ last = Len(a.entities)
      /\ a.data \in [Types -> Seq(Values)]
      /\ \A t \in a.type_mask : last <= Len(a.data[t])
  BY DEF Archetype, Masks, RowCount
<1>2. last \in Nat /\ row \in 1..last /\ last >= 1
  BY <1>1 DEF Rows
<1> DEFINE ents == [r \in 1..last-1 |-> IF r = row THEN a.entities[last] ELSE a.entities[r]]
           dat == [t \in Types |-> IF t \in a.type_mask
                                     THEN [a.data[t] EXCEPT ![row] = a.data[t][last]]
                                     ELSE a.data[t]]
<1>3. b = [type_mask |-> a.type_mask, entities |-> ents, data |-> dat]
  BY <1>1 DEF DetachRow
<1>4. ents \in Seq(Id) /\ Len(ents) = last - 1
  BY <1>1, <1>2
<1>5. ASSUME NEW t \in a.type_mask
      PROVE  /\ dat[t] \in Seq(Values) /\ Len(dat[t]) = Len(a.data[t])
             /\ \A r \in 1..last-1 : dat[t][r] = a.data[t][IF r = row THEN last ELSE r]
  <2>1. t \in Types /\ a.data[t] \in Seq(Values) /\ last <= Len(a.data[t])
    BY <1>1
  <2>2. dat[t] = [a.data[t] EXCEPT ![row] = a.data[t][last]]
    BY <2>1
  <2> QED
    BY <1>2, <2>1, <2>2
<1>6. dat \in [Types -> Seq(Values)]
  BY <1>1, <1>5
<1> HIDE DEF ents, dat
<1>7. b \in Archetype
  BY <1>1, <1>2, <1>3, <1>4, <1>5, <1>6 DEF Archetype, RowCount
<1>8. RowCount(b) = last - 1 /\ Rows(b) = 1..last-1
  BY <1>3, <1>4 DEF RowCount, Rows
<1>9. \A r \in 1..last-1 : ents[r] = a.entities[IF r = row THEN last ELSE r]
  BY <1>2 DEF ents
<1>10. b.type_mask = a.type_mask /\ b.entities = ents /\ b.data = dat
  BY <1>3
<1>11. \A r \in Rows(b) : b.entities[r] = a.entities[IF r = row THEN RowCount(a) ELSE r]
  BY <1>8, <1>9, <1>10
<1>12. \A t \in a.type_mask, r \in Rows(b) :
         b.data[t][r] = a.data[t][IF r = row THEN RowCount(a) ELSE r]
  BY <1>5, <1>8, <1>10
<1> QED
  BY <1>7, <1>8, <1>10, <1>11, <1>12

\* What filling a row does to an archetype: the other rows stay as they are.
LEMMA AllocRowEffect ==
  ASSUME NEW a \in Archetype, NEW id \in Id, births \in Nat, births < MaxBirths,
         NEW b, b = AllocRow(a, id)
  PROVE  /\ b \in Archetype
         /\ b.type_mask = a.type_mask
         /\ RowCount(b) = RowCount(a) + 1
         /\ b.entities = Append(a.entities, id)
         /\ \A t \in a.type_mask, r \in Rows(a) : b.data[t][r] = a.data[t][r]
         /\ \A t \in a.type_mask : b.data[t][RowCount(b)] = FreshElement(a, t)
         /\ \A t \in a.type_mask : FreshElement(a, t) \in Values
<1> DEFINE n == RowCount(a)
           dat == [t \in Types |-> IF t \in a.type_mask
                                     THEN Put(a.data[t], n + 1, FreshElement(a, t))
                                     ELSE a.data[t]]
<1>1. /\ a = [type_mask |-> a.type_mask, entities |-> a.entities, data |-> a.data]
      /\ a.type_mask \in Masks /\ a.type_mask \subseteq Types
      /\ a.entities \in Seq(Id) /\ n = Len(a.entities) /\ n \in Nat
      /\ a.data \in [Types -> Seq(Values)]
      /\ \A t \in a.type_mask : n <= Len(a.data[t])
  BY DEF Archetype, Masks, RowCount
<1>2. b = [type_mask |-> a.type_mask, entities |-> Append(a.entities, id), data |-> dat]
  BY <1>1 DEF AllocRow
<1>3. ASSUME NEW t \in a.type_mask
      PROVE  /\ FreshElement(a, t) \in Values
             /\ dat[t] \in Seq(Values) /\ n + 1 <= Len(dat[t])
             /\ \A r \in 1..n : dat[t][r] = a.data[t][r]
             /\ dat[t][n + 1] = FreshElement(a, t)
  <2>1. t \in Types /\ a.data[t] \in Seq(Values) /\ n <= Len(a.data[t])
    BY <1>1
  <2>2. dat[t] = Put(a.data[t], n + 1, FreshElement(a, t))
    BY <2>1
  <2>3. FreshElement(a, t) \in Values
    <3>1. births + 1 \in Values
      BY BoundsAssumption DEF Values
    <3>2. n < Len(a.data[t]) => a.data[t][n + 1] \in Values
      BY <1>1, <2>1
    <3> QED
      BY <3>1, <3>2, ValuesFacts DEF FreshElement
  <2> HIDE DEF dat
  <2>4. CASE n + 1 <= Len(a.data[t])
    <3>1. dat[t] = [a.data[t] EXCEPT ![n + 1] = FreshElement(a, t)]
      BY <2>2, <2>4 DEF Put
    <3> QED
      BY <1>1, <2>1, <2>3, <2>4, <3>1
  <2>5. CASE ~(n + 1 <= Len(a.data[t]))
    <3>1. dat[t] = Append(a.data[t], FreshElement(a, t)) /\ Len(a.data[t]) = n
      BY <1>1, <2>1, <2>2, <2>5 DEF Put
    <3> QED
      BY <1>1, <2>1, <2>3, <3>1
  <2> QED
    BY <2>3, <2>4, <2>5
<1>4. dat \in [Types -> Seq(Values)]
  BY <1>1, <1>3
<1> HIDE DEF dat
<1>5. b.type_mask = a.type_mask /\ b.entities = Append(a.entities, id) /\ b.data = dat
  BY <1>2
<1>6. RowCount(b) = n + 1
  BY <1>1, <1>5 DEF RowCount
<1>7. Append(a.entities, id) \in Seq(Id)
  BY <1>1
<1>8. b \in Archetype
  BY <1>1, <1>2, <1>3, <1>4, <1>6, <1>7 DEF Archetype
<1>9. Rows(a) = 1..n
  BY DEF Rows
<1> QED
  BY <1>3, <1>5, <1>6, <1>8, <1>9

\* What carrying over the shared elements does to the row filled last.
LEMMA CopyRowEffect ==
  ASSUME NEW from \in Archetype, NEW row \in Rows(from),
         NEW to \in Archetype, RowCount(to) > 0, NEW b, b = CopyRow(from, row, to)
  PROVE  /\ b \in Archetype
         /\ b.type_mask = to.type_mask
         /\ b.entities = to.entities
         /\ \A t \in to.type_mask, r \in Rows(to) :
              b.data[t][r] = IF r = RowCount(to) /\ t \in from.type_mask
                               THEN from.data[t][row] ELSE to.data[t][r]
<1> DEFINE n == RowCount(to)
           dat == [t \in Types |-> IF t \in from.type_mask \cap to.type_mask
                                     THEN [to.data[t] EXCEPT ![n] = from.data[t][row]]
                                     ELSE to.data[t]]
<1>1. /\ to = [type_mask |-> to.type_mask, entities |-> to.entities, data |-> to.data]
      /\ to.type_mask \in Masks /\ to.type_mask \subseteq Types
      /\ to.entities \in Seq(Id) /\ n = Len(to.entities) /\ n \in Nat /\ n > 0
      /\ to.data \in [Types -> Seq(Values)]
      /\ \A t \in to.type_mask : n <= Len(to.data[t])
  BY DEF Archetype, Masks, RowCount
<1>2. b = [type_mask |-> to.type_mask, entities |-> to.entities, data |-> dat]
  BY <1>1 DEF CopyRow
<1>3. ASSUME NEW t \in to.type_mask
      PROVE  /\ dat[t] \in Seq(Values) /\ Len(dat[t]) = Len(to.data[t])
             /\ \A r \in 1..n : dat[t][r] = IF r = n /\ t \in from.type_mask
                                              THEN from.data[t][row] ELSE to.data[t][r]
  <2>1. t \in Types /\ to.data[t] \in Seq(Values) /\ n <= Len(to.data[t])
    BY <1>1
  <2>2. CASE t \in from.type_mask
    <3>1. from.data[t] \in Seq(Values) /\ row \in 1..Len(from.data[t])
      BY <2>1, <2>2, ArchetypeFields DEF Rows
    <3>2. dat[t] = [to.data[t] EXCEPT ![n] = from.data[t][row]]
      BY <2>1, <2>2
    <3>3. from.data[t][row] \in Values
      BY <3>1
    <3> HIDE DEF dat
    <3> QED
      BY <1>1, <2>1, <2>2, <3>2, <3>3
  <2>3. CASE t \notin from.type_mask
    BY <2>1, <2>3
  <2> QED
    BY <2>2, <2>3
<1>4. dat \in [Types -> Seq(Values)]
  BY <1>1, <1>3
<1> HIDE DEF dat
<1>5. b.type_mask = to.type_mask /\ b.entities = to.entities /\ b.data = dat
  BY <1>2
<1>6. RowCount(b) = n /\ Rows(to) = 1..n
  BY <1>5 DEF RowCount, Rows
<1>7. b \in Archetype
  BY <1>1, <1>2, <1>3, <1>4, <1>6 DEF Archetype
<1> QED
  BY <1>3, <1>5, <1>6, <1>7
-----------------------------------------------------------------------------
(* Layouts                                                                  *)

LEMMA IdAtFacts ==
  ASSUME generations \in [Slots -> Nat], NEW i \in Slots
  PROVE  IdAt(i) \in Id /\ IdAt(i).index = i
         /\ \A j \in Slots : IdAt(i) = IdAt(j) => i = j
  BY DEF IdAt, Id

\* The archetypes, and the rows of the slots, once slot i has left its row.
Vacated(archs, ids, rows, i) ==
  [archs EXCEPT ![ids[i]] = DetachRow(archs[ids[i]], rows[i])]

RowsVacated(archs, ids, rows, i) ==
  LET a == archs[ids[i]]
  IN  IF rows[i] = RowCount(a) THEN rows
      ELSE [rows EXCEPT ![a.entities[RowCount(a)].index] = rows[i]]

\* f with y in place x.
With(f, x, y) == [f EXCEPT ![x] = y]

\* Archetype b is archetype a, of the types in mask, with one more row, for
\* the entity id.
OneMoreRow(a, b, id, mask) ==
  /\ b \in Archetype
  /\ b.type_mask = mask
  /\ a.type_mask = mask
  /\ RowCount(b) = RowCount(a) + 1
  /\ b.entities = Append(a.entities, id)
  /\ \A t \in mask, r \in Rows(a) : b.data[t][r] = a.data[t][r]

\* Slot i finds the elements of the last row of b.
FindsLastRow(b, archs, ids, rows, i) ==
  \A t \in Types : Element(archs, ids, rows, i, t) = b.data[t][RowCount(b)]

\* Vacating the row of slot i leaves a layout of the other slots, and each of
\* them finds the elements it had.
LEMMA Vacate ==
  ASSUME generations \in [Slots -> Nat],
         NEW S, NEW archs, NEW ids, NEW rows, NEW masks,
         Layout(archs, ids, rows, masks, S),
         NEW i \in S
  PROVE  LET archs2 == Vacated(archs, ids, rows, i)
             rows2 == RowsVacated(archs, ids, rows, i)
         IN
         /\ Layout(archs2, ids, rows2, masks, S \ {i})
         /\ SameElements(S \ {i}, masks, archs, ids, rows, archs2, ids, rows2)
<1> DEFINE archs2 == Vacated(archs, ids, rows, i)
           rows2 == RowsVacated(archs, ids, rows, i)
           j == ids[i]
           a == archs[j]
           b == DetachRow(a, rows[i])
           last == RowCount(a)
<1>15. /\ archs \in Seq(Archetype) /\ OnePerMask(archs)
       /\ ids \in [Slots -> Nat \cup {NoArchetype}]
       /\ rows \in [Slots -> Nat]
       /\ masks \in [Slots -> SUBSET Types]
       /\ S \subseteq Slots
  BY DEF Layout
<1>1. /\ j \in 1..Len(archs) /\ a \in Archetype /\ rows[i] \in Rows(a)
      /\ a.entities[rows[i]] = IdAt(i)
  BY <1>15 DEF Layout
<1>2. /\ b \in Archetype
      /\ b.type_mask = a.type_mask
      /\ RowCount(b) = last - 1
      /\ \A r \in Rows(b) : b.entities[r] = a.entities[IF r = rows[i] THEN last ELSE r]
      /\ \A t \in a.type_mask, r \in Rows(b) :
           b.data[t][r] = a.data[t][IF r = rows[i] THEN last ELSE r]
  BY <1>1, DetachRowEffect
<1>3. last \in Nat /\ Rows(a) = 1..last /\ Rows(b) = 1..last-1 /\ last \in Rows(a)
  BY <1>1, <1>2, ArchetypeFields DEF Rows
<1>4. /\ archs2 \in Seq(Archetype) /\ Len(archs2) = Len(archs) /\ archs2[j] = b
      /\ \A k \in 1..Len(archs) \ {j} : archs2[k] = archs[k]
  BY <1>1, <1>2, <1>15 DEF Vacated
<1> HIDE DEF b, archs2
<1>5. \A k \in 1..Len(archs) : archs2[k].type_mask = archs[k].type_mask
  BY <1>2, <1>4
<1>6. PICK e \in S : a.entities[last] = IdAt(e) /\ ids[e] = j /\ rows[e] = last
  BY <1>1, <1>3 DEF Layout
<1>7. a.entities[last].index = e /\ (rows[i] = last <=> e = i)
  BY <1>1, <1>6, <1>15, IdAtFacts
<1>8. rows2 = IF e = i THEN rows ELSE [rows EXCEPT ![e] = rows[i]]
  BY <1>7, <1>15 DEF RowsVacated
<1> HIDE DEF rows2
<1>9. \A h, g \in S : ids[h] = ids[g] /\ rows[h] = rows[g] => h = g
  BY <1>15, IdAtFacts DEF Layout
<1>10. rows2 \in [Slots -> Nat] /\ \A h \in Slots \ S : rows2[h] = rows[h]
  BY <1>1, <1>3, <1>6, <1>8, <1>15
<1>11. ASSUME NEW h \in S \ {i}
       PROVE  /\ ids[h] \in 1..Len(archs2)
              /\ archs2[ids[h]].type_mask = masks[h]
              /\ rows2[h] \in Rows(archs2[ids[h]])
              /\ archs2[ids[h]].entities[rows2[h]] = IdAt(h)
              /\ \A t \in masks[h] :
                   archs2[ids[h]].data[t][rows2[h]] = archs[ids[h]].data[t][rows[h]]
  <2>1. /\ ids[h] \in 1..Len(archs) /\ archs[ids[h]].type_mask = masks[h]
        /\ rows[h] \in Rows(archs[ids[h]])
        /\ archs[ids[h]].entities[rows[h]] = IdAt(h)
    BY DEF Layout
  <2>2. CASE ids[h] # j
    BY <1>4, <1>6, <1>8, <2>1, <2>2, <1>15
  <2>3. CASE ids[h] = j /\ h = e
    <3>1. rows2[h] = rows[i] /\ rows[h] = last /\ rows[i] \in Rows(b)
      BY <1>1, <1>3, <1>6, <1>7, <1>8, <2>3, <1>15
    <3> QED
      BY <1>2, <1>4, <2>1, <2>3, <3>1
  <2>4. CASE ids[h] = j /\ h # e
    <3>1. rows2[h] = rows[h] /\ rows[h] # rows[i] /\ rows[h] # last
      BY <1>6, <1>8, <1>9, <2>4, <1>15
    <3>2. rows[h] \in Rows(b)
      BY <1>3, <2>1, <2>4, <3>1
    <3> QED
      BY <1>2, <1>4, <2>1, <2>4, <3>1, <3>2
  <2> QED
    BY <2>2, <2>3, <2>4
<1>12. ASSUME NEW k \in 1..Len(archs2), NEW r \in Rows(archs2[k])
       PROVE  \E h \in S \ {i} : archs2[k].entities[r] = IdAt(h) /\ ids[h] = k /\ rows2[h] = r
  <2>1. CASE k # j
    <3>9. k \in 1..Len(archs) /\ r \in Rows(archs[k]) /\ archs2[k] = archs[k]
      BY <1>4, <2>1
    <3>1. PICK h \in S : archs[k].entities[r] = IdAt(h) /\ ids[h] = k /\ rows[h] = r
      BY <3>9 DEF Layout
    <3>2. h # i /\ h # e
      BY <1>6, <2>1, <3>1
    <3> QED
      BY <1>4, <1>8, <2>1, <3>1, <3>2, <1>15
  <2>2. CASE k = j
    <3>1. r \in 1..last-1 /\ r \in Rows(b)
      BY <1>3, <1>4, <2>2
    <3>9. j \in 1..Len(archs) /\ r \in Rows(archs[j])
      BY <1>1, <1>3, <3>1
    <3>2. PICK h \in S : a.entities[r] = IdAt(h) /\ ids[h] = j /\ rows[h] = r
      BY <3>9 DEF Layout
    <3>3. CASE r = rows[i]
      <4>1. rows[i] # last
        BY <1>3, <3>1, <3>3
      <4>2. e # i /\ rows2[e] = r /\ archs2[k].entities[r] = IdAt(e)
        BY <1>2, <1>4, <1>6, <1>7, <1>8, <1>10, <2>2, <3>1, <3>3, <4>1
      <4> QED
        BY <1>6, <2>2, <4>2
    <3>4. CASE r # rows[i]
      <4>1. h # i /\ h # e
        BY <1>3, <1>6, <3>1, <3>2, <3>4
      <4>2. rows2[h] = r /\ archs2[k].entities[r] = IdAt(h)
        BY <1>2, <1>4, <1>8, <2>2, <3>1, <3>2, <3>4, <4>1, <1>15
      <4> QED
        BY <2>2, <3>2, <4>1, <4>2
    <3> QED
      BY <3>3, <3>4
  <2> QED
    BY <2>1, <2>2
<1>16. OnePerMask(archs2)
  BY <1>4, <1>5, <1>15 DEF OnePerMask
<1>13. Layout(archs2, ids, rows2, masks, S \ {i})
  BY <1>4, <1>10, <1>11, <1>12, <1>15, <1>16 DEF Layout
<1>14. SameElements(S \ {i}, masks, archs, ids, rows, archs2, ids, rows2)
  BY <1>11 DEF Element, SameElements
<1> QED
  BY <1>4, <1>10, <1>13, <1>14 DEF archs2, rows2

\* Filling the next row of archetype k for slot i yields a layout with that
\* slot in it, and every other slot finds the elements it had.
LEMMA Fill ==
  ASSUME generations \in [Slots -> Nat],
         NEW S, NEW archs, NEW ids, NEW rows, NEW masks,
         Layout(archs, ids, rows, masks, S),
         NEW i \in Slots \ S, NEW k \in 1..Len(archs),
         NEW b, NEW mask, OneMoreRow(archs[k], b, IdAt(i), mask)
  PROVE  LET archs2 == With(archs, k, b)
             ids2 == With(ids, i, k)
             rows2 == With(rows, i, RowCount(b))
             masks2 == With(masks, i, mask)
         IN
         /\ Layout(archs2, ids2, rows2, masks2, S \cup {i})
         /\ SameElements(S, masks, archs, ids, rows, archs2, ids2, rows2)
         /\ FindsLastRow(b, archs2, ids2, rows2, i)
<1> DEFINE archs2 == With(archs, k, b)
           ids2 == With(ids, i, k)
           rows2 == With(rows, i, RowCount(b))
           masks2 == With(masks, i, mask)
           a == archs[k]
<1>14. /\ archs \in Seq(Archetype) /\ OnePerMask(archs)
       /\ ids \in [Slots -> Nat \cup {NoArchetype}]
       /\ rows \in [Slots -> Nat]
       /\ masks \in [Slots -> SUBSET Types]
       /\ S \subseteq Slots
  BY DEF Layout
<1>13. /\ b \in Archetype /\ b.type_mask = a.type_mask /\ b.type_mask = mask
       /\ RowCount(b) = RowCount(a) + 1
       /\ b.entities = Append(a.entities, IdAt(i))
       /\ \A t \in b.type_mask, r \in Rows(a) : b.data[t][r] = a.data[t][r]
  BY DEF OneMoreRow
<1>1. a \in Archetype /\ RowCount(a) \in Nat /\ Rows(a) = 1..RowCount(a)
      /\ Rows(b) = 1..RowCount(a)+1 /\ a.entities \in Seq(Id) /\ Len(a.entities) = RowCount(a)
  BY <1>13, <1>14, ArchetypeFields DEF Rows, RowCount
<1>2. /\ archs2 \in Seq(Archetype) /\ Len(archs2) = Len(archs) /\ archs2[k] = b
      /\ \A l \in 1..Len(archs) \ {k} : archs2[l] = archs[l]
  BY <1>13, <1>14 DEF With
<1>3. \A l \in 1..Len(archs) : archs2[l].type_mask = archs[l].type_mask
  BY <1>2, <1>13
<1>4. /\ ids2 \in [Slots -> Nat \cup {NoArchetype}] /\ rows2 \in [Slots -> Nat]
      /\ masks2 \in [Slots -> SUBSET Types]
      /\ ids2[i] = k /\ rows2[i] = RowCount(b) /\ masks2[i] = b.type_mask
      /\ \A h \in Slots \ {i} : ids2[h] = ids[h] /\ rows2[h] = rows[h] /\ masks2[h] = masks[h]
  BY <1>1, <1>13, <1>14, ArchetypeFields DEF With
<1> HIDE DEF archs2, ids2, rows2, masks2
<1>5. IdAt(i) \in Id
  BY IdAtFacts
<1>6. b.entities[RowCount(b)] = IdAt(i) /\ \A r \in Rows(a) : b.entities[r] = a.entities[r]
  BY <1>1, <1>5, <1>13
<1>7. ASSUME NEW h \in S
      PROVE  /\ ids2[h] \in 1..Len(archs2)
             /\ archs2[ids2[h]].type_mask = masks2[h]
             /\ rows2[h] \in Rows(archs2[ids2[h]])
             /\ archs2[ids2[h]].entities[rows2[h]] = IdAt(h)
             /\ \A t \in masks[h] :
                  archs2[ids2[h]].data[t][rows2[h]] = archs[ids[h]].data[t][rows[h]]
  <2>1. /\ ids[h] \in 1..Len(archs) /\ archs[ids[h]].type_mask = masks[h]
        /\ rows[h] \in Rows(archs[ids[h]])
        /\ archs[ids[h]].entities[rows[h]] = IdAt(h)
    BY DEF Layout
  <2>2. ids2[h] = ids[h] /\ rows2[h] = rows[h] /\ masks2[h] = masks[h]
    BY <1>4, <1>14
  <2>3. CASE ids[h] # k
    BY <1>2, <2>1, <2>2, <2>3
  <2>4. CASE ids[h] = k
    <3>1. archs2[ids2[h]] = b /\ rows2[h] \in Rows(a) /\ rows2[h] \in Rows(b)
      BY <1>1, <1>2, <2>1, <2>2, <2>4
    <3>2. b.type_mask = masks[h] /\ b.entities[rows2[h]] = a.entities[rows[h]]
      BY <1>6, <1>13, <2>1, <2>2, <2>4, <3>1
    <3>3. \A t \in masks[h] : b.data[t][rows2[h]] = a.data[t][rows[h]]
      BY <1>13, <2>2, <3>1, <3>2
    <3> QED
      BY <1>2, <2>1, <2>2, <2>4, <3>1, <3>2, <3>3
  <2> QED
    BY <2>3, <2>4
<1>8. /\ ids2[i] \in 1..Len(archs2)
      /\ archs2[ids2[i]].type_mask = masks2[i]
      /\ rows2[i] \in Rows(archs2[ids2[i]])
      /\ archs2[ids2[i]].entities[rows2[i]] = IdAt(i)
  BY <1>1, <1>2, <1>4, <1>6, <1>13
<1>9. ASSUME NEW l \in 1..Len(archs2), NEW r \in Rows(archs2[l])
      PROVE  \E h \in S \cup {i} :
               archs2[l].entities[r] = IdAt(h) /\ ids2[h] = l /\ rows2[h] = r
  <2>1. CASE l # k
    <3>9. l \in 1..Len(archs) /\ r \in Rows(archs[l]) /\ archs2[l] = archs[l]
      BY <1>2, <2>1
    <3>1. PICK h \in S : archs[l].entities[r] = IdAt(h) /\ ids[h] = l /\ rows[h] = r
      BY <3>9, ZenonT(60) DEF Layout
    <3>2. ids2[h] = l /\ rows2[h] = r /\ h \in S \cup {i}
      BY <1>4, <1>14, <3>1
    <3> QED
      BY <3>9, <3>1, <3>2
  <2>2. CASE l = k /\ r = RowCount(b)
    <3>1. archs2[l].entities[r] = IdAt(i) /\ ids2[i] = l /\ rows2[i] = r
      BY <1>2, <1>4, <1>6, <2>2
    <3> QED
      BY <3>1
  <2>3. CASE l = k /\ r # RowCount(b)
    <3>1. r \in Rows(a)
      BY <1>1, <1>2, <1>13, <2>3
    <3>2. PICK h \in S : a.entities[r] = IdAt(h) /\ ids[h] = k /\ rows[h] = r
      BY <3>1 DEF Layout
    <3>3. ids2[h] = l /\ rows2[h] = r /\ h \in S \cup {i}
      BY <1>4, <1>14, <2>3, <3>2
    <3>4. b.entities[r] = IdAt(h)
      BY <1>6, <3>1, <3>2
    <3>5. archs2[l] = b
      BY <1>2, <2>3
    <3> QED
      BY <3>3, <3>4, <3>5
  <2> QED
    BY <2>1, <2>2, <2>3
<1>15. OnePerMask(archs2)
  BY <1>2, <1>3, <1>14 DEF OnePerMask
<1>10. Layout(archs2, ids2, rows2, masks2, S \cup {i})
  BY <1>2, <1>4, <1>7, <1>8, <1>9, <1>14, <1>15 DEF Layout
<1>11. SameElements(S, masks, archs, ids, rows, archs2, ids2, rows2)
  BY <1>7 DEF Element, SameElements
<1>12. FindsLastRow(b, archs2, ids2, rows2, i)
  BY <1>2, <1>4 DEF Element, FindsLastRow
<1> QED
  BY <1>10, <1>11, <1>12 DEF archs2, ids2, rows2, masks2
-----------------------------------------------------------------------------
(* The two ways a slot's place changes                                      *)

LEMMA NewArchetypeType ==
  ASSUME NEW mask \in Masks
  PROVE  /\ NewArchetype(mask) \in Archetype
         /\ NewArchetype(mask).type_mask = mask
         /\ Rows(NewArchetype(mask)) = {}
<1>1. NewArchetype(mask) = [type_mask |-> mask, entities |-> <<>>, data |-> [t \in Types |-> <<>>]]
  BY DEF NewArchetype
<1>2. RowCount(NewArchetype(mask)) = 0
  BY <1>1 DEF RowCount
<1>3. <<>> \in Seq(Id) /\ [t \in Types |-> <<>>] \in [Types -> Seq(Values)]
  OBVIOUS
<1>4. mask \subseteq Types
  BY DEF Masks
<1> QED
  BY <1>1, <1>2, <1>3, <1>4 DEF Archetype, Rows

\* Looking an archetype up, or making it, leaves every row where it is.
LEMMA WithArchetypeLayout ==
  ASSUME LayoutInv, NEW mask \in Masks,
         NEW archs, archs = WithArchetype(mask), NEW k, k = IndexFor(mask)
  PROVE  /\ archs \in Seq(Archetype)
         /\ k \in 1..Len(archs) /\ archs[k].type_mask = mask
         /\ Len(archetypes) <= Len(archs)
         /\ \A j \in 1..Len(archetypes) : archs[j] = archetypes[j]
         /\ Layout(archs, soa_archetype_ids, soa_archetype_rows, soa_type_masks, Placed)
<1>1. archetypes \in Seq(Archetype) /\ OnePerMask(archetypes)
      /\ Layout(archetypes, soa_archetype_ids, soa_archetype_rows, soa_type_masks, Placed)
  BY DEF LayoutInv, Layout
<1>2. CASE ArchetypeIndices(mask) # {}
  <2>1. archs = archetypes /\ k \in ArchetypeIndices(mask)
    BY <1>2 DEF WithArchetype, IndexFor
  <2> QED
    BY <1>1, <2>1 DEF ArchetypeIndices
<1>3. CASE ArchetypeIndices(mask) = {}
  <2> DEFINE new == NewArchetype(mask)
  <2>1. archs = Append(archetypes, new) /\ k = Len(archetypes) + 1
    BY <1>3 DEF WithArchetype, IndexFor
  <2>2. new \in Archetype /\ new.type_mask = mask /\ Rows(new) = {}
    BY NewArchetypeType
  <2> HIDE DEF new
  <2>3. /\ archs \in Seq(Archetype) /\ Len(archs) = Len(archetypes) + 1
        /\ archs[k] = new /\ k \in 1..Len(archs)
        /\ \A j \in 1..Len(archetypes) : archs[j] = archetypes[j]
    BY <1>1, <2>1, <2>2
  <2>4. \A j \in 1..Len(archetypes) : archetypes[j].type_mask # mask
    BY <1>3 DEF ArchetypeIndices
  <2>5. \A j \in 1..Len(archs) : j \in 1..Len(archetypes) \/ j = k
    BY <1>1, <2>1, <2>3
  <2>6. OnePerMask(archs)
    BY <1>1, <2>2, <2>3, <2>4, <2>5 DEF OnePerMask
  <2>7. Layout(archs, soa_archetype_ids, soa_archetype_rows, soa_type_masks, Placed)
    <3>1. ASSUME NEW j \in 1..Len(archs), NEW r \in Rows(archs[j])
          PROVE  \E i \in Placed : /\ archs[j].entities[r] = IdAt(i)
                                   /\ soa_archetype_ids[i] = j /\ soa_archetype_rows[i] = r
      <4>1. j \in 1..Len(archetypes) /\ r \in Rows(archetypes[j]) /\ archs[j] = archetypes[j]
        BY <2>2, <2>3, <2>5
      <4>2. \E i \in Placed : /\ archetypes[j].entities[r] = IdAt(i)
                              /\ soa_archetype_ids[i] = j /\ soa_archetype_rows[i] = r
        BY <1>1, <4>1, RowHasSlot
      <4> QED
        BY <4>1, <4>2
    <3>2. \A i \in Placed :
            /\ soa_archetype_ids[i] \in 1..Len(archetypes)
            /\ archetypes[soa_archetype_ids[i]].type_mask = soa_type_masks[i]
            /\ soa_archetype_rows[i] \in Rows(archetypes[soa_archetype_ids[i]])
            /\ archetypes[soa_archetype_ids[i]].entities[soa_archetype_rows[i]] = IdAt(i)
      BY <1>1 DEF Layout
    <3>3. 1..Len(archetypes) \subseteq 1..Len(archs)
      BY <1>1, <2>3
    <3>4. \A i \in Placed :
            /\ soa_archetype_ids[i] \in 1..Len(archs)
            /\ archs[soa_archetype_ids[i]] = archetypes[soa_archetype_ids[i]]
      BY <2>3, <3>2, <3>3
    <3> QED
      BY <1>1, <2>3, <2>6, <3>1, <3>2, <3>4 DEF Layout
  <2> QED
    BY <1>1, <2>2, <2>3, <2>6, <2>7
<1> QED
  BY <1>2, <1>3

ElementOf(i, t) == Element(archetypes, soa_archetype_ids, soa_archetype_rows, i, t)

LEMMA PlacedFacts ==
  ASSUME LayoutInv
  PROVE  /\ Placed \in SUBSET Slots
         /\ \A i \in LiveSlots : HasArchetype(i) <=> i \in Placed
         /\ \A i \in LiveSlots : HasArchetype(i) <=> soa_type_masks[i] # {}
<1>1. \A i \in Placed : soa_archetype_ids[i] \in Nat
  <2>1. archetypes \in Seq(Archetype)
    BY DEF LayoutInv, TypeOK
  <2>2. \A i \in Placed : soa_archetype_ids[i] \in 1..Len(archetypes)
    BY DEF LayoutInv, Layout
  <2> QED
    BY <2>1, <2>2
<1> QED
  BY <1>1, NoArchetypeAssumption DEF LayoutInv, Placed, LiveSlots, HasArchetype

\* pool_move_entity_archetype: the entity is in the archetype of the new mask
\* with the elements it had, and every other entity keeps all of its own.
LEMMA MoveEffect ==
  ASSUME LayoutInv, NEW i \in LiveSlots, NEW mask \in Masks, mask # soa_type_masks[i],
         MoveTo(i, mask)
  PROVE  /\ births' = births + 1 /\ births' \in 1..MaxBirths
         /\ soa_type_masks' = [soa_type_masks EXCEPT ![i] = mask]
         /\ soa_archetype_ids'[i] # NoArchetype
         /\ \A h \in Slots \ {i} : soa_archetype_ids'[h] = soa_archetype_ids[h]
         /\ Layout(archetypes', soa_archetype_ids', soa_archetype_rows', soa_type_masks',
                   Placed \cup {i})
         /\ SameElements(Placed \ {i}, soa_type_masks,
                         archetypes, soa_archetype_ids, soa_archetype_rows,
                         archetypes', soa_archetype_ids', soa_archetype_rows')
         /\ \A t \in mask :
              /\ ElementOf(i, t)' \in Values
              /\ t \in soa_type_masks[i] => ElementOf(i, t)' = ElementOf(i, t)
              /\ t \in InitTypes \ soa_type_masks[i] => ElementOf(i, t)' = births + 1
<1> DEFINE archs == WithArchetype(mask)
           k == IndexFor(mask)
           filled == AllocRow(archs[k], IdAt(i))
           S == Placed \ {i}
<1>1. TypeOK /\ i \in Slots /\ Placed \in SUBSET Slots
  BY PlacedFacts DEF LayoutInv, LiveSlots
<1>2. /\ generations \in [Slots -> Nat]
      /\ soa_archetype_ids \in [Slots -> Nat \cup {NoArchetype}]
      /\ soa_archetype_rows \in [Slots -> Nat]
      /\ soa_type_masks \in [Slots -> SUBSET Types]
      /\ births \in 0..MaxBirths
  BY <1>1 DEF TypeOK
<1>3. births \in Nat /\ births < MaxBirths /\ births' = births + 1 /\ births' \in 1..MaxBirths
  BY <1>2, BoundsAssumption DEF MoveTo
<1>4. /\ archs \in Seq(Archetype)
      /\ k \in 1..Len(archs) /\ archs[k].type_mask = mask
      /\ Len(archetypes) <= Len(archs)
      /\ \A j \in 1..Len(archetypes) : archs[j] = archetypes[j]
      /\ Layout(archs, soa_archetype_ids, soa_archetype_rows, soa_type_masks, Placed)
  BY WithArchetypeLayout
<1>5. IdAt(i) \in Id
  BY <1>1, <1>2, IdAtFacts
<1>6. /\ filled \in Archetype
      /\ filled.type_mask = mask
      /\ RowCount(filled) = RowCount(archs[k]) + 1
      /\ filled.entities = Append(archs[k].entities, IdAt(i))
      /\ \A t \in mask, r \in Rows(archs[k]) : filled.data[t][r] = archs[k].data[t][r]
      /\ \A t \in mask : filled.data[t][RowCount(filled)] = FreshElement(archs[k], t)
      /\ \A t \in mask : FreshElement(archs[k], t) \in Values
  BY <1>3, <1>4, <1>5, AllocRowEffect
<1>7. /\ soa_archetype_ids' = [soa_archetype_ids EXCEPT ![i] = k]
      /\ soa_type_masks' = [soa_type_masks EXCEPT ![i] = mask]
  BY DEF MoveTo
<1>8. k \in Nat /\ k # NoArchetype
  BY <1>4, NoArchetypeAssumption
<1>9. \A t \in mask \cap InitTypes : FreshElement(archs[k], t) = births + 1
  BY DEF FreshElement
<1>11. /\ \A h \in Placed : soa_archetype_ids[h] \in 1..Len(archetypes)
       /\ \A h \in Placed, t \in Types :
            Element(archs, soa_archetype_ids, soa_archetype_rows, h, t)
              = Element(archetypes, soa_archetype_ids, soa_archetype_rows, h, t)
  <2>1. \A h \in Placed : soa_archetype_ids[h] \in 1..Len(archetypes)
    BY DEF LayoutInv, Layout
  <2> QED
    BY <1>4, <2>1 DEF Element
<1>12. /\ soa_archetype_ids'[i] # NoArchetype
       /\ \A h \in Slots \ {i} : soa_archetype_ids'[h] = soa_archetype_ids[h]
  BY <1>1, <1>2, <1>7, <1>8
<1>10. CASE ~HasArchetype(i)
  <2>1. /\ archetypes' = [archs EXCEPT ![k] = filled]
        /\ soa_archetype_rows' = [soa_archetype_rows EXCEPT ![i] = RowCount(filled)]
    BY <1>10 DEF MoveTo
  <2>2. i \notin Placed /\ S = Placed /\ soa_type_masks[i] = {}
    BY <1>10, PlacedFacts
  <2> HIDE DEF archs, k, filled, S
  <2>3. /\ Layout(archetypes', soa_archetype_ids', soa_archetype_rows', soa_type_masks',
                  Placed \cup {i})
        /\ SameElements(Placed, soa_type_masks, archs, soa_archetype_ids, soa_archetype_rows,
                        archetypes', soa_archetype_ids', soa_archetype_rows')
        /\ FindsLastRow(filled, archetypes', soa_archetype_ids', soa_archetype_rows', i)
    <3>1. OneMoreRow(archs[k], filled, IdAt(i), mask)
      BY <1>4, <1>6 DEF OneMoreRow
    <3>2. i \in Slots \ Placed
      BY <1>1, <2>2
    <3>3. /\ archetypes' = With(archs, k, filled)
          /\ soa_archetype_ids' = With(soa_archetype_ids, i, k)
          /\ soa_archetype_rows' = With(soa_archetype_rows, i, RowCount(filled))
          /\ soa_type_masks' = With(soa_type_masks, i, mask)
      BY <1>7, <2>1 DEF With
    <3> QED
      BY <1>2, <1>4, <3>1, <3>2, <3>3, Fill
  <2>4. ASSUME NEW t \in mask
        PROVE  /\ ElementOf(i, t)' = FreshElement(archs[k], t)
               /\ t \notin soa_type_masks[i]
    <3>1. t \in Types
      BY DEF Masks
    <3> QED
      BY <1>6, <2>2, <2>3, <3>1 DEF ElementOf, FindsLastRow
  <2>5. Placed \ {i} = Placed
    BY <2>2
  <2>6. SameElements(Placed \ {i}, soa_type_masks,
                     archetypes, soa_archetype_ids, soa_archetype_rows,
                     archetypes', soa_archetype_ids', soa_archetype_rows')
    BY <1>11, <2>3, <2>5 DEF SameElements
  <2> QED
    BY <1>3, <1>6, <1>7, <1>9, <1>12, <2>3, <2>4, <2>6
<1>13. CASE HasArchetype(i)
  <2> DEFINE j == soa_archetype_ids[i]
             row == soa_archetype_rows[i]
             old == archs[j]
             archs1 == Vacated(archs, soa_archetype_ids, soa_archetype_rows, i)
             rows1 == RowsVacated(archs, soa_archetype_ids, soa_archetype_rows, i)
             b == CopyRow(old, row, filled)
  <2>1. i \in Placed /\ S \cup {i} = Placed \cup {i} /\ i \in Slots \ S
    BY <1>1, <1>13, PlacedFacts
  <2>2. /\ j \in 1..Len(archs) /\ old \in Archetype /\ old = archetypes[j]
        /\ old.type_mask = soa_type_masks[i] /\ row \in Rows(old) /\ j # k
    BY <1>4, <1>11, <2>1 DEF Layout
  <2>3. /\ archetypes' = [archs EXCEPT ![k] = b, ![j] = DetachRow(old, row)]
        /\ soa_archetype_rows' = [RowsAfterVacating(old, row) EXCEPT ![i] = RowCount(filled)]
    BY <1>13, <2>2 DEF MoveTo, ArchetypeOf
  <2>4. archs1 = [archs EXCEPT ![j] = DetachRow(old, row)]
    BY DEF Vacated
  <2>5. archs1[k] = archs[k] /\ Len(archs1) = Len(archs) /\ archetypes' = With(archs1, k, b)
    <3> DEFINE d == DetachRow(old, row)
    <3>1. /\ k \in 1..Len(archs) /\ j \in 1..Len(archs) /\ j # k
          /\ archs \in [1..Len(archs) -> Archetype] /\ Len(archs) \in Nat
      BY <1>4, <2>2
    <3>2. archetypes' = [archs EXCEPT ![k] = b, ![j] = d] /\ archs1 = [archs EXCEPT ![j] = d]
      BY <2>3, <2>4
    <3> HIDE DEF archs, k, j, b, d, archs1
    <3>3. archs1[k] = archs[k] /\ Len(archs1) = Len(archs)
      BY <3>1, <3>2
    <3>4. archetypes' = [archs1 EXCEPT ![k] = b]
      BY <3>1, <3>2
    <3> QED
      BY <3>3, <3>4 DEF With
  <2>6. rows1 = RowsAfterVacating(old, row)
    BY DEF RowsVacated, RowsAfterVacating
  <2>7. RowCount(filled) \in Nat /\ RowCount(filled) > 0
    BY <1>4, <1>6, ArchetypeFields
  <2>8. /\ b \in Archetype /\ b.type_mask = mask /\ b.entities = filled.entities
        /\ \A t \in mask, r \in Rows(filled) :
             b.data[t][r] = IF r = RowCount(filled) /\ t \in old.type_mask
                              THEN old.data[t][row] ELSE filled.data[t][r]
    BY <1>6, <2>2, <2>7, CopyRowEffect
  <2>9. RowCount(b) = RowCount(filled)
    BY <2>8 DEF RowCount
  <2> HIDE DEF b, archs1, rows1, archs, k, filled, S
  <2>10. Layout(archs1, soa_archetype_ids, rows1, soa_type_masks, S)
         /\ SameElements(S, soa_type_masks, archs, soa_archetype_ids, soa_archetype_rows,
                         archs1, soa_archetype_ids, rows1)
    BY <1>2, <1>4, <2>1, Vacate DEF archs1, rows1, S
  <2>11. OneMoreRow(archs1[k], b, IdAt(i), mask)
    <3>1. \A t \in mask, r \in Rows(archs[k]) : b.data[t][r] = archs[k].data[t][r]
      <4>1. \A r \in Rows(archs[k]) : r \in Rows(filled) /\ r # RowCount(filled)
        BY <1>4, <1>6, ArchetypeFields DEF Rows
      <4> QED
        BY <1>6, <2>8, <4>1
    <3> QED
      BY <1>4, <1>6, <2>5, <2>8, <2>9, <3>1 DEF OneMoreRow
  <2>12. /\ soa_archetype_ids' = With(soa_archetype_ids, i, k)
         /\ soa_archetype_rows' = With(rows1, i, RowCount(b))
         /\ soa_type_masks' = With(soa_type_masks, i, mask)
    BY <1>7, <2>3, <2>6, <2>9 DEF With
  <2>13. k \in 1..Len(archs1)
    BY <1>4, <2>5
  <2>14. /\ Layout(archetypes', soa_archetype_ids', soa_archetype_rows', soa_type_masks',
                   S \cup {i})
         /\ SameElements(S, soa_type_masks, archs1, soa_archetype_ids, rows1,
                         archetypes', soa_archetype_ids', soa_archetype_rows')
         /\ FindsLastRow(b, archetypes', soa_archetype_ids', soa_archetype_rows', i)
    BY <1>2, <2>1, <2>5, <2>10, <2>11, <2>12, <2>13, Fill
  <2>15. SameElements(S, soa_type_masks,
                      archetypes, soa_archetype_ids, soa_archetype_rows,
                      archetypes', soa_archetype_ids', soa_archetype_rows')
    BY <1>11, <2>10, <2>14 DEF SameElements, S
  <2>16. ASSUME NEW t \in mask
         PROVE  ElementOf(i, t)' = IF t \in soa_type_masks[i] THEN ElementOf(i, t)
                                   ELSE FreshElement(archs[k], t)
    <3>1. t \in Types
      BY DEF Masks
    <3>2. ElementOf(i, t)' = b.data[t][RowCount(b)]
      BY <2>14, <3>1 DEF ElementOf, FindsLastRow
    <3>3. ElementOf(i, t) = old.data[t][row]
      BY <2>2 DEF ElementOf, Element
    <3>4. RowCount(filled) \in Rows(filled)
      BY <2>7 DEF Rows
    <3> QED
      BY <1>6, <2>2, <2>8, <2>9, <3>2, <3>3, <3>4
  <2>17. \A t \in soa_type_masks[i] : ElementOf(i, t) \in Values
    <3>1. \A t \in old.type_mask : old.data[t] \in Seq(Values) /\ row \in 1..Len(old.data[t])
      BY <2>2, ArchetypeFields DEF Rows
    <3> QED
      BY <2>2, <3>1 DEF ElementOf, Element
  <2>18. /\ Layout(archetypes', soa_archetype_ids', soa_archetype_rows', soa_type_masks',
                    Placed \cup {i})
         /\ SameElements(Placed \ {i}, soa_type_masks,
                         archetypes, soa_archetype_ids, soa_archetype_rows,
                         archetypes', soa_archetype_ids', soa_archetype_rows')
    BY <2>1, <2>14, <2>15 DEF S
  <2>19. \A t \in mask :
           /\ t \in soa_type_masks[i] => ElementOf(i, t)' = ElementOf(i, t)
           /\ t \in InitTypes \ soa_type_masks[i] => ElementOf(i, t)' = births + 1
    BY <1>9, <2>16
  <2>20. \A t \in mask : ElementOf(i, t)' \in Values
    BY <1>6, <2>16, <2>17
  <2> QED
    BY <1>3, <1>7, <1>12, <2>18, <2>19, <2>20
<1> QED
  BY <1>10, <1>13

\* What is recorded of a slot that has no row does not matter.
LEMMA Elsewhere ==
  ASSUME NEW S, NEW archs, NEW ids, NEW rows, NEW masks,
         Layout(archs, ids, rows, masks, S),
         NEW i \in Slots \ S, NEW row \in Nat
  PROVE  LET ids2 == With(ids, i, NoArchetype)
             rows2 == With(rows, i, row)
             masks2 == With(masks, i, {})
         IN  /\ Layout(archs, ids2, rows2, masks2, S)
             /\ SameElements(S, masks, archs, ids, rows, archs, ids2, rows2)
<1> DEFINE ids2 == With(ids, i, NoArchetype)
           rows2 == With(rows, i, row)
           masks2 == With(masks, i, {})
<1>1. /\ ids \in [Slots -> Nat \cup {NoArchetype}]
      /\ rows \in [Slots -> Nat]
      /\ masks \in [Slots -> SUBSET Types]
      /\ S \subseteq Slots
  BY DEF Layout
<1>2. /\ ids2 \in [Slots -> Nat \cup {NoArchetype}]
      /\ rows2 \in [Slots -> Nat]
      /\ masks2 \in [Slots -> SUBSET Types]
  BY <1>1 DEF With
<1>3. \A h \in S : ids2[h] = ids[h] /\ rows2[h] = rows[h] /\ masks2[h] = masks[h]
  BY <1>1 DEF With
<1> HIDE DEF ids2, rows2, masks2
<1>4. Layout(archs, ids2, rows2, masks2, S)
  <2>1. archs \in Seq(Archetype) /\ OnePerMask(archs)
    BY DEF Layout
  <2>2. \A h \in S :
          /\ ids2[h] \in 1..Len(archs)
          /\ archs[ids2[h]].type_mask = masks2[h]
          /\ rows2[h] \in Rows(archs[ids2[h]])
          /\ archs[ids2[h]].entities[rows2[h]] = IdAt(h)
    BY <1>3 DEF Layout
  <2>3. ASSUME NEW k \in 1..Len(archs), NEW r \in Rows(archs[k])
        PROVE  \E h \in S : archs[k].entities[r] = IdAt(h) /\ ids2[h] = k /\ rows2[h] = r
    <3>1. PICK h \in S : archs[k].entities[r] = IdAt(h) /\ ids[h] = k /\ rows[h] = r
      BY DEF Layout
    <3> QED
      BY <1>3, <3>1
  <2> QED
    BY <1>1, <1>2, <2>1, <2>2, <2>3 DEF Layout
<1>5. SameElements(S, masks, archs, ids, rows, archs, ids2, rows2)
  BY <1>3 DEF SameElements, Element
<1> QED
  BY <1>4, <1>5 DEF ids2, rows2, masks2

\* tc_archetype_free_row: the slot has no row any more, its elements are
\* destroyed, and every other slot keeps its own.
LEMMA LeaveEffect ==
  ASSUME LayoutInv, NEW i \in Placed, LeaveArchetype(i)
  PROVE  /\ soa_type_masks' = [soa_type_masks EXCEPT ![i] = {}]
         /\ soa_archetype_ids' = [soa_archetype_ids EXCEPT ![i] = NoArchetype]
         /\ Layout(archetypes', soa_archetype_ids', soa_archetype_rows', soa_type_masks',
                   Placed \ {i})
         /\ SameElements(Placed \ {i}, soa_type_masks,
                         archetypes, soa_archetype_ids, soa_archetype_rows,
                         archetypes', soa_archetype_ids', soa_archetype_rows')
         /\ destroyed' = destroyed \cup
              { <<t, ElementOf(i, t)>> : t \in soa_type_masks[i] \cap DestroyTypes }
<1> DEFINE S == Placed \ {i}
           archs1 == Vacated(archetypes, soa_archetype_ids, soa_archetype_rows, i)
           rows1 == RowsVacated(archetypes, soa_archetype_ids, soa_archetype_rows, i)
<1>1. /\ generations \in [Slots -> Nat] /\ i \in Slots \ S
      /\ Layout(archetypes, soa_archetype_ids, soa_archetype_rows, soa_type_masks, Placed)
  BY PlacedFacts DEF LayoutInv, TypeOK
<1>2. ArchetypeOf(i).type_mask = soa_type_masks[i]
  BY <1>1 DEF Layout, ArchetypeOf
<1>3. /\ archetypes' = archs1
      /\ soa_archetype_rows' = With(rows1, i, 0)
      /\ soa_archetype_ids' = With(soa_archetype_ids, i, NoArchetype)
      /\ soa_type_masks' = With(soa_type_masks, i, {})
  BY DEF LeaveArchetype, Vacated, RowsVacated, RowsAfterVacating, ArchetypeOf, With
<1>4. destroyed' = destroyed \cup
              { <<t, ElementOf(i, t)>> : t \in soa_type_masks[i] \cap DestroyTypes }
  BY <1>2 DEF LeaveArchetype, DestroyedBy, ElementOf, Element, ArchetypeOf
<1> HIDE DEF S, archs1, rows1
<1>5. /\ Layout(archs1, soa_archetype_ids, rows1, soa_type_masks, S)
      /\ SameElements(S, soa_type_masks, archetypes, soa_archetype_ids, soa_archetype_rows,
                      archs1, soa_archetype_ids, rows1)
  BY <1>1, Vacate DEF archs1, rows1, S
<1>6. /\ Layout(archetypes', soa_archetype_ids', soa_archetype_rows', soa_type_masks', S)
      /\ SameElements(S, soa_type_masks, archs1, soa_archetype_ids, rows1,
                      archetypes', soa_archetype_ids', soa_archetype_rows')
  BY <1>1, <1>3, <1>5, Elsewhere
<1>7. SameElements(S, soa_type_masks, archetypes, soa_archetype_ids, soa_archetype_rows,
                   archetypes', soa_archetype_ids', soa_archetype_rows')
  BY <1>5, <1>6 DEF SameElements
<1> QED
  BY <1>3, <1>4, <1>6, <1>7 DEF S, With

\* A write through the pointer of get_soa reaches one element of one slot.
LEMMA WriteEffect ==
  ASSUME LayoutInv, NEW i \in Slots, NEW t \in Types, WriteSoa(i, t)
  PROVE  /\ i \in Placed
         /\ Layout(archetypes', soa_archetype_ids', soa_archetype_rows', soa_type_masks', Placed)
         /\ \A h \in Placed, u \in Types : u \in soa_type_masks[h] =>
              ElementOf(h, u)' = IF h = i /\ u = t THEN Written ELSE ElementOf(h, u)
<1> DEFINE k == soa_archetype_ids[i]
           a == archetypes[k]
           row == soa_archetype_rows[i]
           b == [a EXCEPT !.data[t][row] = Written]
<1>1. /\ alive[i] /\ t \in soa_type_masks[i]
      /\ archetypes' = [archetypes EXCEPT ![k].data[t][row] = Written]
      /\ UNCHANGED <<generations, soa_archetype_ids, soa_archetype_rows, soa_type_masks>>
  BY DEF WriteSoa, entityVars
<1>2. i \in Placed
  BY <1>1 DEF Placed
<1>3. Layout(archetypes, soa_archetype_ids, soa_archetype_rows, soa_type_masks, Placed)
      /\ archetypes \in Seq(Archetype)
  BY DEF LayoutInv, Layout
<1>4. /\ k \in 1..Len(archetypes) /\ a \in Archetype /\ row \in Rows(a)
      /\ a.type_mask = soa_type_masks[i]
  BY <1>2, <1>3 DEF Layout
<1>5. /\ a = [type_mask |-> a.type_mask, entities |-> a.entities, data |-> a.data]
      /\ a.type_mask \in Masks /\ a.entities \in Seq(Id)
      /\ a.data \in [Types -> Seq(Values)]
      /\ \A u \in a.type_mask : RowCount(a) <= Len(a.data[u])
      /\ a.data[t] \in Seq(Values) /\ row \in 1..Len(a.data[t])
  <2>1. a.data \in [Types -> Seq(Values)] /\ RowCount(a) <= Len(a.data[t]) /\ RowCount(a) \in Nat
    BY <1>1, <1>4, ArchetypeFields
  <2> QED
    BY <1>4, <2>1 DEF Archetype, Rows
<1> DEFINE dat == [a.data EXCEPT ![t] = [@ EXCEPT ![row] = Written]]
<1>6. b = [type_mask |-> a.type_mask, entities |-> a.entities, data |-> dat]
  <2>1. b = [a EXCEPT !.data = dat]
    OBVIOUS
  <2> HIDE DEF b, dat
  <2> QED
    BY <1>5, <2>1
<1>7. /\ dat \in [Types -> Seq(Values)]
      /\ \A u \in Types : Len(dat[u]) = Len(a.data[u])
      /\ \A u \in Types : \A r \in 1..Len(a.data[u]) :
           dat[u][r] = IF u = t /\ r = row THEN Written ELSE a.data[u][r]
  BY <1>5, ValuesFacts
<1>8. archetypes' = [archetypes EXCEPT ![k] = b]
  BY <1>1
<1> HIDE DEF dat
<1>9. b.type_mask = a.type_mask /\ b.entities = a.entities /\ b.data = dat
  BY <1>6
<1>10. RowCount(b) = RowCount(a) /\ Rows(b) = Rows(a)
  BY <1>9 DEF RowCount, Rows
<1>11. b \in Archetype
  <2>1. \A u \in a.type_mask : u \in Types
    BY <1>4, ArchetypeFields
  <2> QED
    BY <1>5, <1>6, <1>7, <1>9, <1>10, <2>1 DEF Archetype
<1> HIDE DEF b
<1>12. /\ archetypes' \in Seq(Archetype) /\ Len(archetypes') = Len(archetypes)
       /\ archetypes'[k] = b
       /\ \A l \in 1..Len(archetypes) \ {k} : archetypes'[l] = archetypes[l]
  BY <1>3, <1>4, <1>8, <1>11
<1>13. \A l \in 1..Len(archetypes) :
         /\ archetypes'[l].type_mask = archetypes[l].type_mask
         /\ archetypes'[l].entities = archetypes[l].entities
         /\ Rows(archetypes'[l]) = Rows(archetypes[l])
  BY <1>9, <1>10, <1>12
<1>14. OnePerMask(archetypes')
  BY <1>3, <1>12, <1>13 DEF OnePerMask, Layout
<1>15. Layout(archetypes', soa_archetype_ids', soa_archetype_rows', soa_type_masks', Placed)
  <2>1. \A h \in Placed :
          /\ soa_archetype_ids[h] \in 1..Len(archetypes')
          /\ archetypes'[soa_archetype_ids[h]].type_mask = soa_type_masks[h]
          /\ soa_archetype_rows[h] \in Rows(archetypes'[soa_archetype_ids[h]])
          /\ archetypes'[soa_archetype_ids[h]].entities[soa_archetype_rows[h]] = IdAt(h)
    BY <1>3, <1>12, <1>13 DEF Layout
  <2>2. ASSUME NEW l \in 1..Len(archetypes'), NEW r \in Rows(archetypes'[l])
        PROVE  \E h \in Placed : /\ archetypes'[l].entities[r] = IdAt(h)
                                 /\ soa_archetype_ids[h] = l /\ soa_archetype_rows[h] = r
    <3>1. l \in 1..Len(archetypes) /\ r \in Rows(archetypes[l])
          /\ archetypes'[l].entities = archetypes[l].entities
      BY <1>12, <1>13
    <3> QED
      BY <1>3, <3>1 DEF Layout
  <2>3. /\ soa_archetype_ids \in [Slots -> Nat \cup {NoArchetype}]
        /\ soa_archetype_rows \in [Slots -> Nat]
        /\ soa_type_masks \in [Slots -> SUBSET Types]
        /\ Placed \subseteq Slots
    BY <1>3 DEF Layout
  <2>4. Layout(archetypes', soa_archetype_ids, soa_archetype_rows, soa_type_masks, Placed)
    BY <1>12, <1>14, <2>1, <2>2, <2>3 DEF Layout
  <2> QED
    BY <1>1, <2>4
<1>16. ASSUME NEW h \in Placed, NEW u \in Types, u \in soa_type_masks[h]
       PROVE  ElementOf(h, u)' = IF h = i /\ u = t THEN Written ELSE ElementOf(h, u)
  <2>1. /\ soa_archetype_ids[h] \in 1..Len(archetypes)
        /\ soa_archetype_rows[h] \in Rows(archetypes[soa_archetype_ids[h]])
        /\ archetypes[soa_archetype_ids[h]].entities[soa_archetype_rows[h]] = IdAt(h)
        /\ archetypes[soa_archetype_ids[h]].type_mask = soa_type_masks[h]
    BY <1>3 DEF Layout
  <2>2. CASE soa_archetype_ids[h] # k
    BY <1>1, <1>12, <2>1, <2>2 DEF ElementOf, Element
  <2>3. CASE soa_archetype_ids[h] = k
    <3>1. soa_archetype_rows[h] \in 1..Len(a.data[u])
      BY <1>4, <1>16, <2>1, <2>3, ArchetypeFields DEF Rows
    <3>2. soa_archetype_rows[h] = row <=> h = i
      <4>1. a.entities[row] = IdAt(i)
        BY <1>2, <1>3 DEF Layout
      <4>2. generations \in [Slots -> Nat] /\ h \in Slots
        BY DEF LayoutInv, TypeOK, Placed
      <4> QED
        BY <2>1, <2>3, <4>1, <4>2, IdAtFacts
    <3>3. dat[u][soa_archetype_rows[h]] =
            IF u = t /\ h = i THEN Written ELSE a.data[u][soa_archetype_rows[h]]
      BY <1>7, <3>1, <3>2
    <3> QED
      BY <1>1, <1>9, <1>12, <2>3, <3>3 DEF ElementOf, Element
  <2> QED
    BY <2>2, <2>3
<1> QED
  BY <1>2, <1>15, <1>16
-----------------------------------------------------------------------------
(* The inductive invariant                                                  *)

\* The destroy functions a slot's elements are still owed.
Owed(i) == soa_type_masks[i] \cap DestroyTypes

\* The inductive strengthening of NoDoubleDestroy, slot by slot: values are
\* named by the filling that made them, so that one made later is new.
OwnershipInv ==
  /\ \A i \in Placed : \A t \in Owed(i) :
       ElementOf(i, t) \in 1..births /\ <<t, ElementOf(i, t)>> \notin destroyed
  /\ \A i, h \in Placed : \A t \in Owed(i) \cap Owed(h) :
       ElementOf(i, t) = ElementOf(h, t) => i = h
  /\ \A d \in destroyed : d[2] \in 1..births

\* SoaRegistrar: a type C++ must destruct is one it must construct.
OwnersConstruct == DestroyTypes \subseteq InitTypes

LEMMA PlacedElements ==
  ASSUME LayoutInv, NEW i \in Placed, NEW t \in soa_type_masks[i]
  PROVE  ElementOf(i, t) \in Values
<1>1. /\ soa_archetype_ids[i] \in 1..Len(archetypes)
      /\ soa_archetype_rows[i] \in Rows(ArchetypeOf(i))
      /\ ArchetypeOf(i) \in Archetype
      /\ t \in ArchetypeOf(i).type_mask
  BY DEF LayoutInv, Layout, ArchetypeOf
<1>2. /\ ArchetypeOf(i).data[t] \in Seq(Values)
      /\ soa_archetype_rows[i] \in 1..Len(ArchetypeOf(i).data[t])
  BY <1>1, ArchetypeFields DEF Rows
<1> QED
  BY <1>2 DEF ElementOf, Element, ArchetypeOf

\* The layout of the state a step leads to, spelled out.
LEMMA LayoutAfter ==
  ASSUME
         /\ (archetypes \in Seq(Archetype) /\ OnePerMask(archetypes))'
        /\ (soa_archetype_ids \in [Slots -> Nat \cup {NoArchetype}])'
        /\ (soa_archetype_rows \in [Slots -> Nat])'
        /\ (soa_type_masks \in [Slots -> SUBSET Types])'
        /\ (Placed \subseteq Slots)',
         (\A h \in Placed :
          /\ soa_archetype_ids[h] \in 1..Len(archetypes)
          /\ archetypes[soa_archetype_ids[h]].type_mask = soa_type_masks[h]
          /\ soa_archetype_rows[h] \in Rows(archetypes[soa_archetype_ids[h]])
          /\ archetypes[soa_archetype_ids[h]].entities[soa_archetype_rows[h]] = IdAt(h))',
         (\A k \in 1..Len(archetypes) : \A r \in Rows(archetypes[k]) :
           \E h \in Placed : /\ archetypes[k].entities[r] = IdAt(h)
                             /\ soa_archetype_ids[h] = k /\ soa_archetype_rows[h] = r)'
  PROVE Layout(archetypes, soa_archetype_ids, soa_archetype_rows, soa_type_masks, Placed)'
  BY ZenonT(60) DEF Layout

\* The invariant over a step follows from the layout the step leaves, if no
\* placed slot changes its generation.
LEMMA LayoutInvNext ==
  ASSUME LayoutInv,
         generations' \in [Slots -> Nat], alive' \in [Slots -> BOOLEAN],
         births' \in 0..MaxBirths, destroyed' \in SUBSET (Types \X Values),
         Layout(archetypes', soa_archetype_ids', soa_archetype_rows', soa_type_masks', Placed'),
         \A h \in Placed' : generations'[h] = generations[h],
         \A h \in LiveSlots' : soa_type_masks'[h] = {} => soa_archetype_ids'[h] = NoArchetype
  PROVE  LayoutInv'
<1>1. \A h \in Placed' : IdAt(h)' = IdAt(h)
  BY DEF IdAt
<1>2. Layout(archetypes, soa_archetype_ids, soa_archetype_rows, soa_type_masks, Placed)'
  <2>1. \A h \in Placed' :
          /\ soa_archetype_ids'[h] \in 1..Len(archetypes')
          /\ archetypes'[soa_archetype_ids'[h]].type_mask = soa_type_masks'[h]
          /\ soa_archetype_rows'[h] \in Rows(archetypes'[soa_archetype_ids'[h]])
          /\ archetypes'[soa_archetype_ids'[h]].entities[soa_archetype_rows'[h]] = IdAt(h)'
    BY <1>1 DEF Layout
  <2>2. ASSUME NEW k \in 1..Len(archetypes'), NEW r \in Rows(archetypes'[k])
        PROVE  \E h \in Placed' : /\ archetypes'[k].entities[r] = IdAt(h)'
                                  /\ soa_archetype_ids'[h] = k /\ soa_archetype_rows'[h] = r
    <3>1. PICK h \in Placed' : /\ archetypes'[k].entities[r] = IdAt(h)
                               /\ soa_archetype_ids'[h] = k /\ soa_archetype_rows'[h] = r
      BY DEF Layout
    <3> QED
      BY <1>1, <3>1
  <2>3. /\ archetypes' \in Seq(Archetype) /\ OnePerMask(archetypes')
        /\ soa_archetype_ids' \in [Slots -> Nat \cup {NoArchetype}]
        /\ soa_archetype_rows' \in [Slots -> Nat]
        /\ soa_type_masks' \in [Slots -> SUBSET Types]
        /\ Placed' \subseteq Slots
    BY DEF Layout
  <2>4. /\ (archetypes \in Seq(Archetype) /\ OnePerMask(archetypes))'
        /\ (soa_archetype_ids \in [Slots -> Nat \cup {NoArchetype}])'
        /\ (soa_archetype_rows \in [Slots -> Nat])'
        /\ (soa_type_masks \in [Slots -> SUBSET Types])'
        /\ (Placed \subseteq Slots)'
    BY <2>3
  <2>5. (\A h \in Placed :
          /\ soa_archetype_ids[h] \in 1..Len(archetypes)
          /\ archetypes[soa_archetype_ids[h]].type_mask = soa_type_masks[h]
          /\ soa_archetype_rows[h] \in Rows(archetypes[soa_archetype_ids[h]])
          /\ archetypes[soa_archetype_ids[h]].entities[soa_archetype_rows[h]] = IdAt(h))'
    BY <2>1
  <2>6. (\A k \in 1..Len(archetypes) : \A r \in Rows(archetypes[k]) :
           \E h \in Placed : /\ archetypes[k].entities[r] = IdAt(h)
                             /\ soa_archetype_ids[h] = k /\ soa_archetype_rows[h] = r)'
    BY <2>2
  <2> QED
    BY <2>4, <2>5, <2>6, LayoutAfter
<1>3. TypeOK'
  BY <1>2 DEF TypeOK, Layout
<1> QED
  BY <1>2, <1>3 DEF LayoutInv, HasArchetype

LEMMA InitLayout == Init => LayoutInv /\ OwnershipInv
<1> SUFFICES ASSUME Init PROVE LayoutInv /\ OwnershipInv
  OBVIOUS
<1>1. Placed = {} /\ Len(archetypes) = 0 /\ archetypes = <<>>
  BY DEF Init, Placed
<1>2. TypeOK
  BY BoundsAssumption DEF Init, TypeOK
<1>3. Layout(archetypes, soa_archetype_ids, soa_archetype_rows, soa_type_masks, Placed)
  BY <1>1, <1>2 DEF Layout, OnePerMask, TypeOK
<1>4. OwnershipInv
  BY <1>1 DEF OwnershipInv, Init
<1>5. \A i \in LiveSlots : ~HasArchetype(i)
  BY DEF Init, LiveSlots, HasArchetype
<1> QED
  BY <1>2, <1>3, <1>4, <1>5 DEF LayoutInv

LEMMA AllocKeepsLayout ==
  ASSUME LayoutInv, NEW i \in Slots, Alloc(i)
  PROVE  /\ LayoutInv'
         /\ Placed' = Placed
         /\ \A h \in Placed : soa_type_masks'[h] = soa_type_masks[h]
         /\ \A h \in Placed, t \in Types :
              t \in soa_type_masks[h] => ElementOf(h, t)' = ElementOf(h, t)
<1>1. /\ ~alive[i] /\ alive' = [alive EXCEPT ![i] = TRUE]
      /\ soa_archetype_ids' = With(soa_archetype_ids, i, NoArchetype)
      /\ soa_archetype_rows' = With(soa_archetype_rows, i, 0)
      /\ soa_type_masks' = With(soa_type_masks, i, {})
      /\ UNCHANGED <<generations, archetypes, births, destroyed>>
  BY DEF Alloc, With
<1>2. TypeOK /\ i \in Slots \ Placed
      /\ Layout(archetypes, soa_archetype_ids, soa_archetype_rows, soa_type_masks, Placed)
  BY <1>1 DEF LayoutInv, Placed
<1>3. /\ alive \in [Slots -> BOOLEAN] /\ soa_type_masks \in [Slots -> SUBSET Types]
      /\ soa_archetype_ids \in [Slots -> Nat \cup {NoArchetype}]
  BY <1>2 DEF TypeOK
<1>4. /\ Layout(archetypes', soa_archetype_ids', soa_archetype_rows', soa_type_masks', Placed)
      /\ SameElements(Placed, soa_type_masks, archetypes, soa_archetype_ids, soa_archetype_rows,
                      archetypes', soa_archetype_ids', soa_archetype_rows')
  BY <1>1, <1>2, Elsewhere
<1>5. soa_type_masks'[i] = {} /\ \A h \in Slots \ {i} : soa_type_masks'[h] = soa_type_masks[h]
                                                       /\ alive'[h] = alive[h]
  BY <1>1, <1>3 DEF With
<1>6. Placed' = Placed
  BY <1>2, <1>5 DEF Placed
<1>7. \A h \in LiveSlots' : soa_type_masks'[h] = {} => soa_archetype_ids'[h] = NoArchetype
  BY <1>1, <1>3, <1>5 DEF With, LiveSlots, LayoutInv, HasArchetype
<1>8. LayoutInv'
  <2>1. /\ generations' \in [Slots -> Nat] /\ alive' \in [Slots -> BOOLEAN]
        /\ births' \in 0..MaxBirths /\ destroyed' \in SUBSET (Types \X Values)
    BY <1>1, <1>2 DEF TypeOK
  <2>2. \A h \in Placed' : generations'[h] = generations[h]
    BY <1>1
  <2> QED
    BY <1>4, <1>6, <1>7, <2>1, <2>2, LayoutInvNext
<1>9. \A h \in Placed : soa_type_masks'[h] = soa_type_masks[h]
  <2>1. Placed \subseteq Slots
    BY DEF Placed
  <2> QED
    BY <1>2, <1>5, <2>1
<1> QED
  BY <1>4, <1>6, <1>8, <1>9 DEF SameElements, ElementOf, Placed

LEMMA MoveKeepsLayout ==
  ASSUME LayoutInv, NEW i \in LiveSlots, NEW mask \in Masks, mask # soa_type_masks[i],
         MoveTo(i, mask), UNCHANGED entityVars, UNCHANGED destroyed
  PROVE  /\ LayoutInv'
         /\ Placed' = Placed \cup {i}
         /\ \A h \in Placed \ {i} : soa_type_masks'[h] = soa_type_masks[h]
         /\ \A h \in Placed \ {i}, t \in Types :
              t \in soa_type_masks[h] => ElementOf(h, t)' = ElementOf(h, t)
<1>1. /\ births' \in 1..MaxBirths
      /\ soa_type_masks' = [soa_type_masks EXCEPT ![i] = mask]
      /\ soa_archetype_ids'[i] # NoArchetype
      /\ \A h \in Slots \ {i} : soa_archetype_ids'[h] = soa_archetype_ids[h]
      /\ Layout(archetypes', soa_archetype_ids', soa_archetype_rows', soa_type_masks',
                Placed \cup {i})
      /\ SameElements(Placed \ {i}, soa_type_masks,
                      archetypes, soa_archetype_ids, soa_archetype_rows,
                      archetypes', soa_archetype_ids', soa_archetype_rows')
  BY MoveEffect
<1>2. TypeOK /\ i \in Slots /\ alive[i] /\ UNCHANGED <<generations, alive>>
  BY DEF LayoutInv, LiveSlots, entityVars
<1>3. mask # {} /\ mask \in SUBSET Types /\ soa_type_masks \in [Slots -> SUBSET Types]
  <2>1. mask # {} /\ mask \in SUBSET Types
    BY MaskFacts
  <2> QED
    BY <1>2, <2>1 DEF TypeOK
<1>4. soa_type_masks'[i] = mask /\ \A h \in Slots \ {i} : soa_type_masks'[h] = soa_type_masks[h]
  BY <1>1, <1>2, <1>3
<1>5. Placed' = Placed \cup {i}
  BY <1>2, <1>3, <1>4 DEF Placed
<1>6. \A h \in LiveSlots' : soa_type_masks'[h] = {} => soa_archetype_ids'[h] = NoArchetype
  BY <1>1, <1>2, <1>3, <1>4 DEF LiveSlots, LayoutInv, HasArchetype
<1>7. LayoutInv'
  <2>1. /\ generations' \in [Slots -> Nat] /\ alive' \in [Slots -> BOOLEAN]
        /\ births' \in 0..MaxBirths /\ destroyed' \in SUBSET (Types \X Values)
    BY <1>1, <1>2 DEF TypeOK
  <2>2. \A h \in Placed' : generations'[h] = generations[h]
    BY <1>2
  <2> QED
    BY <1>1, <1>5, <1>6, <2>1, <2>2, LayoutInvNext
<1>8. \A h \in Placed \ {i} : soa_type_masks'[h] = soa_type_masks[h]
  BY <1>4 DEF Placed
<1> QED
  BY <1>1, <1>5, <1>7, <1>8 DEF SameElements, ElementOf, Placed

LEMMA LeaveKeepsLayout ==
  ASSUME LayoutInv, NEW i \in Placed, LeaveArchetype(i), births' = births,
         generations' \in [Slots -> Nat], alive' \in [Slots -> BOOLEAN],
         \A h \in Slots \ {i} : generations'[h] = generations[h] /\ alive'[h] = alive[h]
  PROVE  /\ LayoutInv'
         /\ Placed' = Placed \ {i}
         /\ soa_type_masks'[i] = {}
         /\ \A h \in Placed \ {i} : soa_type_masks'[h] = soa_type_masks[h]
         /\ \A h \in Placed \ {i}, t \in Types :
              t \in soa_type_masks[h] => ElementOf(h, t)' = ElementOf(h, t)
<1>1. /\ soa_type_masks' = [soa_type_masks EXCEPT ![i] = {}]
      /\ soa_archetype_ids' = [soa_archetype_ids EXCEPT ![i] = NoArchetype]
      /\ Layout(archetypes', soa_archetype_ids', soa_archetype_rows', soa_type_masks',
                Placed \ {i})
      /\ SameElements(Placed \ {i}, soa_type_masks,
                      archetypes, soa_archetype_ids, soa_archetype_rows,
                      archetypes', soa_archetype_ids', soa_archetype_rows')
      /\ destroyed' = destroyed \cup
           { <<t, ElementOf(i, t)>> : t \in soa_type_masks[i] \cap DestroyTypes }
  BY LeaveEffect
<1>2. TypeOK /\ i \in Slots
  BY DEF LayoutInv, Placed
<1>3. /\ soa_type_masks \in [Slots -> SUBSET Types]
      /\ soa_archetype_ids \in [Slots -> Nat \cup {NoArchetype}]
      /\ births \in 0..MaxBirths /\ destroyed \in SUBSET (Types \X Values)
  BY <1>2 DEF TypeOK
<1>4. /\ soa_type_masks'[i] = {} /\ soa_archetype_ids'[i] = NoArchetype
      /\ \A h \in Slots \ {i} : soa_type_masks'[h] = soa_type_masks[h]
                                /\ soa_archetype_ids'[h] = soa_archetype_ids[h]
  BY <1>1, <1>2, <1>3
<1>5. Placed' = Placed \ {i}
  BY <1>2, <1>4 DEF Placed
<1>6. \A h \in LiveSlots' : soa_type_masks'[h] = {} => soa_archetype_ids'[h] = NoArchetype
  BY <1>2, <1>4 DEF LiveSlots, LayoutInv, HasArchetype
<1>7. destroyed' \in SUBSET (Types \X Values)
  <2>1. \A t \in soa_type_masks[i] : t \in Types /\ ElementOf(i, t) \in Values
    BY <1>2, <1>3, PlacedElements
  <2> QED
    BY <1>1, <1>3, <2>1
<1>8. LayoutInv'
  <2>1. \A h \in Placed' : generations'[h] = generations[h]
    BY <1>5 DEF Placed
  <2> QED
    BY <1>1, <1>3, <1>5, <1>6, <1>7, <2>1, LayoutInvNext
<1>9. \A h \in Placed \ {i} : soa_type_masks'[h] = soa_type_masks[h]
  BY <1>4 DEF Placed
<1> QED
  BY <1>1, <1>4, <1>5, <1>8, <1>9 DEF SameElements, ElementOf, Placed

LEMMA WriteKeepsLayout ==
  ASSUME LayoutInv, NEW i \in Slots, NEW t \in Types, WriteSoa(i, t)
  PROVE  /\ LayoutInv'
         /\ Placed' = Placed
<1>1. /\ UNCHANGED <<generations, alive, soa_archetype_ids, soa_archetype_rows, soa_type_masks,
                     births, destroyed>>
      /\ Layout(archetypes', soa_archetype_ids', soa_archetype_rows', soa_type_masks', Placed)
  BY WriteEffect DEF WriteSoa, entityVars
<1>2. Placed' = Placed
  BY <1>1 DEF Placed
<1>3. /\ generations' \in [Slots -> Nat] /\ alive' \in [Slots -> BOOLEAN]
      /\ births' \in 0..MaxBirths /\ destroyed' \in SUBSET (Types \X Values)
  BY <1>1 DEF LayoutInv, TypeOK
<1>4. \A h \in LiveSlots' : soa_type_masks'[h] = {} => soa_archetype_ids'[h] = NoArchetype
  BY <1>1 DEF LayoutInv, LiveSlots, HasArchetype
<1>5. \A h \in Placed' : generations'[h] = generations[h]
  BY <1>1
<1> QED
  BY <1>1, <1>2, <1>3, <1>4, <1>5, LayoutInvNext

\* Which of the moves and removals an add or a remove is.
LEMMA AddIsMove ==
  ASSUME LayoutInv, NEW i \in Slots, NEW t \in Types, AddSoa(i, t)
  PROVE  /\ i \in LiveSlots /\ t \notin soa_type_masks[i]
         /\ soa_type_masks[i] \cup {t} \in Masks
         /\ soa_type_masks[i] \cup {t} # soa_type_masks[i]
         /\ MoveTo(i, soa_type_masks[i] \cup {t})
         /\ UNCHANGED entityVars /\ UNCHANGED destroyed
<1>1. soa_type_masks[i] \in SUBSET Types
  BY DEF LayoutInv, TypeOK
<1> QED
  BY <1>1 DEF AddSoa, LiveSlots, Masks

LEMMA RemoveIsMove ==
  ASSUME LayoutInv, NEW i \in Slots, NEW t \in Types, RemoveSoa(i, t), soa_type_masks[i] # {t}
  PROVE  /\ i \in LiveSlots /\ t \in soa_type_masks[i]
         /\ soa_type_masks[i] \ {t} \in Masks
         /\ soa_type_masks[i] \ {t} # soa_type_masks[i]
         /\ MoveTo(i, soa_type_masks[i] \ {t})
         /\ UNCHANGED entityVars /\ UNCHANGED destroyed
<1>1. soa_type_masks[i] \in SUBSET Types
  BY DEF LayoutInv, TypeOK
<1> QED
  BY <1>1 DEF RemoveSoa, LiveSlots, Masks

LEMMA RemoveLastIsLeave ==
  ASSUME LayoutInv, NEW i \in Slots, NEW t \in Types, RemoveSoa(i, t), soa_type_masks[i] = {t}
  PROVE  /\ i \in Placed /\ LeaveArchetype(i) /\ births' = births
         /\ generations' = generations /\ alive' = alive
         /\ generations' \in [Slots -> Nat] /\ alive' \in [Slots -> BOOLEAN]
<1>1. alive[i] /\ LeaveArchetype(i) /\ UNCHANGED <<births, generations, alive>>
  BY DEF RemoveSoa, entityVars
<1>2. i \in Placed
  BY <1>1 DEF Placed
<1> QED
  BY <1>1, <1>2 DEF LayoutInv, TypeOK

LEMMA FreePlacedIsLeave ==
  ASSUME LayoutInv, NEW i \in Slots, Free(i), HasArchetype(i)
  PROVE  /\ i \in Placed /\ LeaveArchetype(i) /\ births' = births
         /\ alive'[i] = FALSE
         /\ generations' \in [Slots -> Nat] /\ alive' \in [Slots -> BOOLEAN]
         /\ \A h \in Slots \ {i} : generations'[h] = generations[h] /\ alive'[h] = alive[h]
<1>1. /\ alive[i] /\ LeaveArchetype(i) /\ births' = births
      /\ alive' = [alive EXCEPT ![i] = FALSE]
      /\ generations' = [generations EXCEPT ![i] = @ + 1]
  BY DEF Free
<1>2. generations \in [Slots -> Nat] /\ alive \in [Slots -> BOOLEAN]
  BY DEF LayoutInv, TypeOK
<1>3. i \in Placed
  BY <1>1, PlacedFacts DEF LiveSlots
<1> QED
  BY <1>1, <1>2, <1>3

LEMMA FreeUnplaced ==
  ASSUME LayoutInv, NEW i \in Slots, Free(i), ~HasArchetype(i)
  PROVE  /\ LayoutInv'
         /\ Placed' = Placed
         /\ i \notin Placed /\ alive'[i] = FALSE
         /\ \A h \in Slots \ {i} : alive'[h] = alive[h]
         /\ UNCHANGED <<soaVars, births, destroyed>>
<1>1. /\ alive[i] /\ UNCHANGED <<soaVars, births, destroyed>>
      /\ alive' = [alive EXCEPT ![i] = FALSE]
      /\ generations' = [generations EXCEPT ![i] = @ + 1]
  BY DEF Free
<1>2. /\ generations \in [Slots -> Nat] /\ alive \in [Slots -> BOOLEAN]
      /\ births \in 0..MaxBirths /\ destroyed \in SUBSET (Types \X Values)
      /\ Layout(archetypes, soa_archetype_ids, soa_archetype_rows, soa_type_masks, Placed)
  BY DEF LayoutInv, TypeOK
<1>3. i \notin Placed
  BY <1>1, PlacedFacts DEF LiveSlots
<1>4. /\ UNCHANGED <<archetypes, soa_archetype_ids, soa_archetype_rows, soa_type_masks,
                     births, destroyed>>
      /\ generations' \in [Slots -> Nat] /\ alive' \in [Slots -> BOOLEAN]
      /\ alive'[i] = FALSE
      /\ \A h \in Slots \ {i} : generations'[h] = generations[h] /\ alive'[h] = alive[h]
  BY <1>1, <1>2 DEF soaVars
<1>5. Placed' = Placed
  BY <1>3, <1>4 DEF Placed
<1>6. \A h \in LiveSlots' : soa_type_masks'[h] = {} => soa_archetype_ids'[h] = NoArchetype
  <2>1. \A h \in LiveSlots' : h \in LiveSlots
    BY <1>4 DEF LiveSlots
  <2> QED
    BY <1>4, <2>1 DEF LayoutInv, HasArchetype
<1>7. \A h \in Placed' : generations'[h] = generations[h]
  BY <1>3, <1>4, <1>5 DEF Placed
<1>8. LayoutInv'
  BY <1>2, <1>4, <1>5, <1>6, <1>7, LayoutInvNext
<1> QED
  BY <1>1, <1>3, <1>4, <1>5, <1>8

LEMMA StepKeepsLayout == LayoutInv /\ [Next]_vars => LayoutInv'
<1> SUFFICES ASSUME LayoutInv, [Next]_vars PROVE LayoutInv'
  OBVIOUS
<1>1. ASSUME NEW i \in Slots, Alloc(i) PROVE LayoutInv'
  BY <1>1, AllocKeepsLayout
<1>2. ASSUME NEW i \in Slots, Free(i) PROVE LayoutInv'
  <2>1. CASE HasArchetype(i)
    BY <1>2, <2>1, FreePlacedIsLeave, LeaveKeepsLayout
  <2>2. CASE ~HasArchetype(i)
    BY <1>2, <2>2, FreeUnplaced
  <2> QED
    BY <2>1, <2>2
<1>3. ASSUME NEW i \in Slots, NEW t \in Types, AddSoa(i, t) PROVE LayoutInv'
  BY <1>3, AddIsMove, MoveKeepsLayout
<1>4. ASSUME NEW i \in Slots, NEW t \in Types, RemoveSoa(i, t) PROVE LayoutInv'
  <2>1. CASE soa_type_masks[i] = {t}
    BY <1>4, <2>1, RemoveLastIsLeave, LeaveKeepsLayout
  <2>2. CASE soa_type_masks[i] # {t}
    BY <1>4, <2>2, RemoveIsMove, MoveKeepsLayout
  <2> QED
    BY <2>1, <2>2
<1>5. ASSUME NEW i \in Slots, NEW t \in Types, WriteSoa(i, t) PROVE LayoutInv'
  BY <1>5, WriteKeepsLayout
<1>6. CASE UNCHANGED vars
  <2>1. UNCHANGED <<generations, alive, archetypes, soa_archetype_ids, soa_archetype_rows,
                    soa_type_masks, births, destroyed>>
    BY <1>6 DEF vars, entityVars, soaVars
  <2>2. Placed' = Placed
    BY <2>1 DEF Placed
  <2>3. Layout(archetypes', soa_archetype_ids', soa_archetype_rows', soa_type_masks', Placed')
    BY <2>1, <2>2 DEF LayoutInv
  <2>4. \A h \in LiveSlots' : soa_type_masks'[h] = {} => soa_archetype_ids'[h] = NoArchetype
    BY <2>1 DEF LayoutInv, LiveSlots, HasArchetype
  <2>5. /\ generations' \in [Slots -> Nat] /\ alive' \in [Slots -> BOOLEAN]
        /\ births' \in 0..MaxBirths /\ destroyed' \in SUBSET (Types \X Values)
        /\ \A h \in Placed' : generations'[h] = generations[h]
    BY <2>1 DEF LayoutInv, TypeOK
  <2> QED
    BY <2>3, <2>4, <2>5, LayoutInvNext
<1> QED
  BY <1>1, <1>2, <1>3, <1>4, <1>5, <1>6 DEF Next
-----------------------------------------------------------------------------
(* Rows and queries                                                         *)

LEMMA LayoutInvariant == Spec => []LayoutInv
<1>1. Init => LayoutInv
  BY InitLayout
<1>2. LayoutInv /\ [Next]_vars => LayoutInv'
  BY StepKeepsLayout
<1> QED
  BY <1>1, <1>2, PTL DEF Spec

LEMMA LayoutImpliesRowsAgree == LayoutInv => RowsAgree
<1> SUFFICES ASSUME LayoutInv PROVE RowsAgree
  OBVIOUS
<1>1. Layout(archetypes, soa_archetype_ids, soa_archetype_rows, soa_type_masks, Placed)
      /\ generations \in [Slots -> Nat]
  BY DEF LayoutInv, TypeOK
<1>2. ASSUME NEW i \in LiveSlots
      PROVE  IF soa_type_masks[i] = {} THEN ~HasArchetype(i)
             ELSE /\ HasArchetype(i)
                  /\ ArchetypeOf(i).type_mask = soa_type_masks[i]
                  /\ soa_archetype_rows[i] \in Rows(ArchetypeOf(i))
                  /\ ArchetypeOf(i).entities[soa_archetype_rows[i]] = IdAt(i)
  <2>1. HasArchetype(i) <=> soa_type_masks[i] # {}
    BY PlacedFacts
  <2>2. HasArchetype(i) => i \in Placed
    BY PlacedFacts
  <2> QED
    BY <1>1, <2>1, <2>2 DEF Layout, ArchetypeOf
<1>3. ASSUME NEW k \in 1..Len(archetypes), NEW r \in Rows(archetypes[k])
      PROVE  LET id == archetypes[k].entities[r]
             IN  Alive(id) /\ soa_archetype_ids[id.index] = k /\ soa_archetype_rows[id.index] = r
  <2>1. PICK i \in Placed : /\ archetypes[k].entities[r] = IdAt(i)
                            /\ soa_archetype_ids[i] = k /\ soa_archetype_rows[i] = r
    BY <1>1, RowHasSlot
  <2>2. IdAt(i).index = i /\ IdAt(i).generation = generations[i] /\ alive[i]
    BY DEF IdAt, Placed
  <2> QED
    BY <2>1, <2>2 DEF Alive
<1> QED
  BY <1>2, <1>3 DEF RowsAgree

\* Rows and entities point at each other in every reachable state: the row a
\* living entity records is its own, and every row in use has its entity,
\* whatever rows were filled, vacated and moved before.
THEOREM RowsAndEntitiesAgree == Spec => []RowsAgree
<1>1. LayoutInv => RowsAgree
  BY LayoutImpliesRowsAgree
<1> QED
  BY <1>1, LayoutInvariant, PTL

\* A query over archetypes visits exactly the living entities with all the
\* required types and none of the excluded ones (tc_soa_query_next).
THEOREM QueriesAreExact == Spec => []QueryIsExact
<1>1. LayoutInv => QueryIsExact
  <2> SUFFICES ASSUME LayoutInv, NEW required \in Masks, NEW excluded \in SUBSET Types
               PROVE  QueryResult(required, excluded) =
                        { IdAt(i) : i \in { i \in LiveSlots :
                            /\ required \subseteq soa_type_masks[i]
                            /\ soa_type_masks[i] \cap excluded = {} } }
    BY DEF QueryIsExact
  <2>1. Layout(archetypes, soa_archetype_ids, soa_archetype_rows, soa_type_masks, Placed)
    BY DEF LayoutInv
  <2>2. archetypes \in Seq(Archetype)
    BY <2>1 DEF Layout
  <2>3. ASSUME NEW id \in QueryResult(required, excluded)
        PROVE  \E i \in LiveSlots : /\ id = IdAt(i)
                                    /\ required \subseteq soa_type_masks[i]
                                    /\ soa_type_masks[i] \cap excluded = {}
    <3>1. PICK k \in 1..Len(archetypes) :
            /\ Matches(archetypes[k].type_mask, required, excluded)
            /\ id \in ToSet(archetypes[k].entities)
      BY DEF QueryResult
    <3>2. archetypes[k].entities \in Seq(Id)
      BY <2>2, ArchetypeFields
    <3>3. PICK r \in Rows(archetypes[k]) : id = archetypes[k].entities[r]
      BY <3>1, <3>2 DEF ToSet, Rows, RowCount
    <3>4. PICK i \in Placed : /\ archetypes[k].entities[r] = IdAt(i)
                              /\ soa_archetype_ids[i] = k
      BY <2>1 DEF Layout
    <3>5. archetypes[k].type_mask = soa_type_masks[i] /\ i \in LiveSlots
      BY <2>1, <3>4 DEF Layout, Placed, LiveSlots
    <3> QED
      BY <3>1, <3>3, <3>4, <3>5 DEF Matches
  <2>4. ASSUME NEW i \in LiveSlots, required \subseteq soa_type_masks[i],
               soa_type_masks[i] \cap excluded = {}
        PROVE  IdAt(i) \in QueryResult(required, excluded)
    <3>1. i \in Placed
      BY <2>4, MaskFacts DEF Placed, LiveSlots
    <3> DEFINE k == soa_archetype_ids[i]
    <3>2. /\ k \in 1..Len(archetypes) /\ archetypes[k].type_mask = soa_type_masks[i]
          /\ soa_archetype_rows[i] \in Rows(archetypes[k])
          /\ archetypes[k].entities[soa_archetype_rows[i]] = IdAt(i)
      BY <2>1, <3>1 DEF Layout
    <3>3. archetypes[k].entities \in Seq(Id)
      BY <2>2, <3>2, ArchetypeFields
    <3>4. IdAt(i) \in ToSet(archetypes[k].entities)
      BY <3>2, <3>3 DEF ToSet, Rows, RowCount
    <3>5. Matches(archetypes[k].type_mask, required, excluded)
      BY <2>4, <3>2 DEF Matches
    <3> QED
      BY <3>2, <3>4, <3>5 DEF QueryResult
  <2> QED
    BY <2>3, <2>4
<1> QED
  BY <1>1, LayoutInvariant, PTL
-----------------------------------------------------------------------------
(* Ownership                                                                *)

\* Nothing is owed less, or owned twice, after a step in which the placed
\* slots only shrink in number or keep their elements.
LEMMA SameOwnership ==
  ASSUME LayoutInv, OwnershipInv, Placed' = Placed, births' = births, destroyed' = destroyed,
         \A h \in Placed : soa_type_masks'[h] = soa_type_masks[h],
         \A h \in Placed : \A t \in Owed(h) : ElementOf(h, t)' = ElementOf(h, t)
  PROVE  OwnershipInv'
<1>1. \A h \in Placed : Owed(h)' = Owed(h)
  BY DEF Owed
<1> QED
  BY <1>1 DEF OwnershipInv

LEMMA MoveKeepsOwnership ==
  ASSUME OwnersConstruct, LayoutInv, OwnershipInv, NEW i \in LiveSlots, NEW mask \in Masks,
         mask # soa_type_masks[i], MoveTo(i, mask), UNCHANGED entityVars, UNCHANGED destroyed
  PROVE  OwnershipInv'
<1>1. /\ Placed' = Placed \cup {i}
      /\ \A h \in Placed \ {i} : soa_type_masks'[h] = soa_type_masks[h]
      /\ \A h \in Placed \ {i}, t \in Types :
           t \in soa_type_masks[h] => ElementOf(h, t)' = ElementOf(h, t)
  BY MoveKeepsLayout
<1>2. /\ births' = births + 1 /\ destroyed' = destroyed
      /\ soa_type_masks' = [soa_type_masks EXCEPT ![i] = mask]
      /\ \A t \in mask :
           /\ t \in soa_type_masks[i] => ElementOf(i, t)' = ElementOf(i, t)
           /\ t \in InitTypes \ soa_type_masks[i] => ElementOf(i, t)' = births + 1
  BY MoveEffect
<1>3. i \in Slots /\ births \in Nat /\ soa_type_masks \in [Slots -> SUBSET Types]
  BY DEF LayoutInv, TypeOK, LiveSlots
<1>4. soa_type_masks'[i] = mask /\ Owed(i)' = mask \cap DestroyTypes
  BY <1>2, <1>3 DEF Owed
<1>5. \A h \in Placed \ {i} : Owed(h)' = Owed(h)
  BY <1>1 DEF Owed
<1>6. \A h \in Placed \ {i} : \A t \in Owed(h) : ElementOf(h, t)' = ElementOf(h, t)
  BY <1>1, TypesAssumption DEF Owed
<1>7. soa_type_masks[i] # {} => i \in Placed
  BY DEF Placed, LiveSlots
<1>8. ASSUME NEW t \in mask \cap DestroyTypes
      PROVE  \/ i \in Placed /\ t \in Owed(i) /\ ElementOf(i, t)' = ElementOf(i, t)
             \/ ElementOf(i, t)' = births + 1
  BY <1>2, <1>7 DEF Owed, OwnersConstruct
<1>9. \A h \in Placed : \A t \in Owed(h) :
        ElementOf(h, t) \in 1..births /\ <<t, ElementOf(h, t)>> \notin destroyed
  BY DEF OwnershipInv
<1>10. \A d \in destroyed : d[2] \in 1..births
  BY DEF OwnershipInv
<1>11. ASSUME NEW h \in Placed', NEW t \in Owed(h)'
       PROVE  ElementOf(h, t)' \in 1..births' /\ <<t, ElementOf(h, t)'>> \notin destroyed'
  <2>1. CASE h # i
    BY <1>1, <1>2, <1>3, <1>5, <1>6, <1>9, <2>1
  <2>2. CASE h = i /\ ElementOf(i, t)' = births + 1
    BY <1>2, <1>3, <1>10, <2>2
  <2>3. CASE h = i /\ ElementOf(i, t)' # births + 1
    BY <1>2, <1>3, <1>4, <1>8, <1>9, <2>3
  <2> QED
    BY <2>1, <2>2, <2>3
<1>12. ASSUME NEW h \in Placed \ {i}, NEW t \in Owed(h)' \cap Owed(i)'
       PROVE  ElementOf(h, t)' # ElementOf(i, t)'
  <2>1. t \in Owed(h) /\ ElementOf(h, t)' = ElementOf(h, t) /\ ElementOf(h, t) \in 1..births
    BY <1>5, <1>6, <1>9
  <2>2. CASE ElementOf(i, t)' = births + 1
    BY <1>3, <2>1, <2>2
  <2>3. CASE i \in Placed /\ t \in Owed(i) /\ ElementOf(i, t)' = ElementOf(i, t)
    BY <2>1, <2>3 DEF OwnershipInv
  <2> QED
    BY <1>4, <1>8, <2>2, <2>3
<1>13. ASSUME NEW h \in Placed', NEW g \in Placed', NEW t \in Owed(h)' \cap Owed(g)',
              ElementOf(h, t)' = ElementOf(g, t)'
       PROVE  h = g
  <2>1. CASE h # i /\ g # i
    <3>1. h \in Placed /\ g \in Placed /\ t \in Owed(h) \cap Owed(g)
      BY <1>1, <1>5, <2>1
    <3>2. ElementOf(h, t) = ElementOf(g, t)
      BY <1>1, <1>6, <1>13, <2>1, <3>1
    <3> QED
      BY <3>1, <3>2 DEF OwnershipInv
  <2>2. CASE h = i \/ g = i
    BY <1>1, <1>12, <1>13, <2>2
  <2> QED
    BY <2>1, <2>2
<1>14. \A d \in destroyed' : d[2] \in 1..births'
  BY <1>2, <1>3, <1>10
<1> QED
  BY <1>11, <1>13, <1>14 DEF OwnershipInv

LEMMA LeaveKeepsOwnership ==
  ASSUME LayoutInv, OwnershipInv, NEW i \in Placed, LeaveArchetype(i), births' = births,
         Placed' = Placed \ {i},
         \A h \in Placed \ {i} : soa_type_masks'[h] = soa_type_masks[h],
         \A h \in Placed \ {i}, t \in Types :
           t \in soa_type_masks[h] => ElementOf(h, t)' = ElementOf(h, t)
  PROVE  OwnershipInv'
<1>1. destroyed' = destroyed \cup { <<t, ElementOf(i, t)>> : t \in Owed(i) }
  BY LeaveEffect DEF Owed
<1>2. \A h \in Placed' : Owed(h)' = Owed(h)
  BY DEF Owed
<1>3. \A h \in Placed' : \A t \in Owed(h) : ElementOf(h, t)' = ElementOf(h, t)
  BY TypesAssumption DEF Owed
<1>4. ASSUME NEW h \in Placed', NEW t \in Owed(h)'
      PROVE  ElementOf(h, t)' \in 1..births' /\ <<t, ElementOf(h, t)'>> \notin destroyed'
  <2>1. h \in Placed /\ h # i /\ t \in Owed(h) /\ ElementOf(h, t)' = ElementOf(h, t)
    BY <1>2, <1>3
  <2>2. <<t, ElementOf(h, t)>> \notin destroyed /\ ElementOf(h, t) \in 1..births
    BY <2>1 DEF OwnershipInv
  <2>3. \A u \in Owed(i) : <<t, ElementOf(h, t)>> # <<u, ElementOf(i, u)>>
    BY <2>1 DEF OwnershipInv
  <2> QED
    BY <1>1, <2>1, <2>2, <2>3
<1>5. ASSUME NEW h \in Placed', NEW g \in Placed', NEW t \in Owed(h)' \cap Owed(g)',
             ElementOf(h, t)' = ElementOf(g, t)'
      PROVE  h = g
  BY <1>2, <1>3, <1>5 DEF OwnershipInv
<1>6. \A d \in destroyed' : d[2] \in 1..births'
  BY <1>1 DEF OwnershipInv
<1> QED
  BY <1>4, <1>5, <1>6 DEF OwnershipInv

LEMMA StepKeepsOwnership ==
  ASSUME OwnersConstruct, LayoutInv, OwnershipInv, [Next]_vars
  PROVE  OwnershipInv'
<1>1. ASSUME NEW i \in Slots, Alloc(i) PROVE OwnershipInv'
  <2>1. births' = births /\ destroyed' = destroyed
    BY <1>1 DEF Alloc
  <2>2. /\ Placed' = Placed
        /\ \A h \in Placed : soa_type_masks'[h] = soa_type_masks[h]
        /\ \A h \in Placed : \A t \in Owed(h) : ElementOf(h, t)' = ElementOf(h, t)
    BY <1>1, AllocKeepsLayout, TypesAssumption DEF Owed
  <2> QED
    BY <2>1, <2>2, SameOwnership
<1>2. ASSUME NEW i \in Slots, Free(i) PROVE OwnershipInv'
  <2>1. CASE HasArchetype(i)
    <3>1. /\ i \in Placed /\ LeaveArchetype(i) /\ births' = births
          /\ generations' \in [Slots -> Nat] /\ alive' \in [Slots -> BOOLEAN]
          /\ \A h \in Slots \ {i} : generations'[h] = generations[h] /\ alive'[h] = alive[h]
      BY <1>2, <2>1, FreePlacedIsLeave
    <3> QED
      BY <3>1, LeaveKeepsLayout, LeaveKeepsOwnership
  <2>2. CASE ~HasArchetype(i)
    <3>1. Placed' = Placed /\ UNCHANGED <<soaVars, births, destroyed>>
      BY <1>2, <2>2, FreeUnplaced
    <3> QED
      BY <3>1, SameOwnership DEF soaVars, ElementOf
  <2> QED
    BY <2>1, <2>2
<1>3. ASSUME NEW i \in Slots, NEW t \in Types, AddSoa(i, t) PROVE OwnershipInv'
  BY <1>3, AddIsMove, MoveKeepsOwnership
<1>4. ASSUME NEW i \in Slots, NEW t \in Types, RemoveSoa(i, t) PROVE OwnershipInv'
  <2>1. CASE soa_type_masks[i] = {t}
    <3>1. /\ i \in Placed /\ LeaveArchetype(i) /\ births' = births
          /\ generations' \in [Slots -> Nat] /\ alive' \in [Slots -> BOOLEAN]
          /\ \A h \in Slots \ {i} : generations'[h] = generations[h] /\ alive'[h] = alive[h]
      BY <1>4, <2>1, RemoveLastIsLeave
    <3> QED
      BY <3>1, LeaveKeepsLayout, LeaveKeepsOwnership
  <2>2. CASE soa_type_masks[i] # {t}
    BY <1>4, <2>2, RemoveIsMove, MoveKeepsOwnership
  <2> QED
    BY <2>1, <2>2
<1>5. ASSUME NEW i \in Slots, NEW t \in Types, WriteSoa(i, t) PROVE OwnershipInv'
  <2>1. /\ t \notin DestroyTypes
        /\ UNCHANGED <<births, destroyed, soa_type_masks>>
    BY <1>5 DEF WriteSoa
  <2>2. Placed' = Placed
    BY <1>5, WriteKeepsLayout
  <2>3. \A h \in Placed : \A u \in Owed(h) : ElementOf(h, u)' = ElementOf(h, u)
    BY <1>5, <2>1, WriteEffect, TypesAssumption DEF Owed
  <2> QED
    BY <2>1, <2>2, <2>3, SameOwnership
<1>6. CASE UNCHANGED vars
  <2>1. UNCHANGED <<alive, archetypes, soa_archetype_ids, soa_archetype_rows, soa_type_masks,
                    births, destroyed>>
    BY <1>6 DEF vars, entityVars, soaVars
  <2>2. Placed' = Placed
    BY <2>1 DEF Placed
  <2> QED
    BY <2>1, <2>2, SameOwnership DEF ElementOf
<1> QED
  BY <1>1, <1>2, <1>3, <1>4, <1>5, <1>6 DEF Next

LEMMA OwnershipImpliesNoDoubleDestroy == LayoutInv /\ OwnershipInv => NoDoubleDestroy
<1> SUFFICES ASSUME LayoutInv, OwnershipInv PROVE NoDoubleDestroy
  OBVIOUS
<1>1. Layout(archetypes, soa_archetype_ids, soa_archetype_rows, soa_type_masks, Placed)
  BY DEF LayoutInv
<1>2. ASSUME NEW e \in OwnedElements
      PROVE  \E i \in Placed : /\ soa_archetype_ids[i] = e[1] /\ soa_archetype_rows[i] = e[2]
                               /\ e[3] \in Owed(i) /\ ElementAt(e) = ElementOf(i, e[3])
  <2>1. /\ e[1] \in 1..Len(archetypes) /\ e[3] \in DestroyTypes
        /\ e[2] \in Rows(archetypes[e[1]]) /\ e[3] \in archetypes[e[1]].type_mask
    BY DEF OwnedElements
  <2>2. PICK i \in Placed : soa_archetype_ids[i] = e[1] /\ soa_archetype_rows[i] = e[2]
    <3>1. \A k \in 1..Len(archetypes) : \A r \in Rows(archetypes[k]) :
            \E i \in Placed : soa_archetype_ids[i] = k /\ soa_archetype_rows[i] = r
      BY <1>1, RowHasSlot
    <3> QED
      BY <2>1, <3>1
  <2>3. archetypes[e[1]].type_mask = soa_type_masks[i]
    BY <1>1, <2>2 DEF Layout
  <2> QED
    BY <2>1, <2>2, <2>3 DEF Owed, ElementAt, ElementOf, Element
<1>3. ASSUME NEW e \in OwnedElements, NEW f \in OwnedElements,
             e[3] = f[3], ElementAt(e) = ElementAt(f)
      PROVE  e = f
  <2>1. PICK i \in Placed : /\ soa_archetype_ids[i] = e[1] /\ soa_archetype_rows[i] = e[2]
                            /\ e[3] \in Owed(i) /\ ElementAt(e) = ElementOf(i, e[3])
    BY <1>2
  <2>2. PICK h \in Placed : /\ soa_archetype_ids[h] = f[1] /\ soa_archetype_rows[h] = f[2]
                            /\ f[3] \in Owed(h) /\ ElementAt(f) = ElementOf(h, f[3])
    BY <1>2
  <2>3. i = h
    BY <1>3, <2>1, <2>2 DEF OwnershipInv
  <2>4. e[1] = f[1] /\ e[2] = f[2] /\ e[3] = f[3]
    BY <1>3, <2>1, <2>2, <2>3
  <2>5. e = <<e[1], e[2], e[3]>> /\ f = <<f[1], f[2], f[3]>>
    BY DEF OwnedElements
  <2> QED
    BY <2>4, <2>5
<1>4. \A e \in OwnedElements : <<e[3], ElementAt(e)>> \notin destroyed
  BY <1>2 DEF OwnershipInv
<1> QED
  BY <1>3, <1>4 DEF NoDoubleDestroy

\* destroy runs at most once on every value an init made, in every reachable
\* state: no row in use holds a value that was destroyed or that another row
\* holds too, however rows were copied between archetypes.
THEOREM NothingDestroyedTwice == OwnersConstruct /\ Spec => []NoDoubleDestroy
<1> SUFFICES ASSUME OwnersConstruct PROVE Spec => []NoDoubleDestroy
  OBVIOUS
<1>1. Init => LayoutInv /\ OwnershipInv
  BY InitLayout
<1>2. (LayoutInv /\ OwnershipInv) /\ [Next]_vars => (LayoutInv /\ OwnershipInv)'
  BY StepKeepsLayout, StepKeepsOwnership
<1>3. LayoutInv /\ OwnershipInv => NoDoubleDestroy
  BY OwnershipImpliesNoDoubleDestroy
<1> QED
  BY <1>1, <1>2, <1>3, PTL DEF Spec
-----------------------------------------------------------------------------
(* The table the storage implements                                         *)

\* What the table says of a slot: the elements of a placed one, no others.
LEMMA CellsOfSlot ==
  LayoutInv => \A i \in Slots, t \in Types :
    SoaTable[i][t] = IF i \in Placed /\ t \in soa_type_masks[i] THEN ElementOf(i, t)
                     ELSE NoArchetype
<1> SUFFICES ASSUME LayoutInv, NEW i \in Slots, NEW t \in Types
             PROVE  SoaTable[i][t] = IF i \in Placed /\ t \in soa_type_masks[i]
                                       THEN ElementOf(i, t) ELSE NoArchetype
  OBVIOUS
<1>1. SoaTable[i][t] = IF alive[i] THEN GetSoa(i, t) ELSE NoArchetype
  BY DEF SoaTable
<1>2. CASE i \in Placed
  <2>1. alive[i] /\ HasArchetype(i)
    BY <1>2, PlacedFacts DEF Placed, LiveSlots
  <2>2. soa_archetype_rows[i] \in Rows(ArchetypeOf(i))
    BY <1>2 DEF LayoutInv, Layout, ArchetypeOf
  <2> QED
    BY <1>1, <1>2, <2>1, <2>2 DEF GetSoa, ElementOf, Element, ArchetypeOf
<1>3. CASE i \notin Placed
  BY <1>1, <1>3 DEF GetSoa, Placed
<1> QED
  BY <1>2, <1>3

LEMMA CellsOfSlotNext ==
  (LayoutInv => \A i \in Slots, t \in Types :
    SoaTable[i][t] = IF i \in Placed /\ t \in soa_type_masks[i] THEN ElementOf(i, t)
                     ELSE NoArchetype)'
  BY CellsOfSlot, PTL

\* The table is a function of two arguments, so it is known cell by cell.
LEMMA TableShape ==
  /\ SoaTable = [i \in Slots |-> [t \in Types |-> SoaTable[i][t]]]
  /\ \A i \in Slots : SoaTable[i] = [t \in Types |-> SoaTable[i][t]]
  BY DEF SoaTable

\* A cell is empty exactly for the types the entity does not have.
LEMMA EmptyCells ==
  ASSUME LayoutInv, NEW i \in LiveSlots, NEW t \in Types
  PROVE  SoaTable[i][t] = NoArchetype <=> t \notin soa_type_masks[i]
<1>1. i \in Slots /\ (i \in Placed <=> soa_type_masks[i] # {})
  BY DEF LiveSlots, Placed
<1>2. i \in Placed /\ t \in soa_type_masks[i] => ElementOf(i, t) # NoArchetype
  BY PlacedElements, ValuesFacts, NoArchetypeAssumption
<1> QED
  BY <1>1, <1>2, CellsOfSlot

\* Slots that stay placed with the same types and elements keep their cells.
LEMMA CellsKept ==
  ASSUME LayoutInv, LayoutInv', NEW h \in Slots,
         h \in Placed' <=> h \in Placed,
         h \in Placed => soa_type_masks'[h] = soa_type_masks[h],
         h \in Placed => \A t \in Types :
           t \in soa_type_masks[h] => ElementOf(h, t)' = ElementOf(h, t)
  PROVE  SoaTable'[h] = SoaTable[h]
<1>1. \A t \in Types : SoaTable'[h][t] = SoaTable[h][t]
  BY CellsOfSlot, CellsOfSlotNext
<1>2. SoaTable'[h] = [t \in Types |-> SoaTable'[h][t]]
  BY DEF SoaTable
<1> QED
  BY <1>1, <1>2, TableShape

\* A table that differs from another in one cell, or in one row.
LEMMA OneCell ==
  ASSUME NEW i \in Slots, NEW t \in Types, NEW v,
         SoaTable'[i][t] = v,
         \A u \in Types \ {t} : SoaTable'[i][u] = SoaTable[i][u],
         \A h \in Slots \ {i} : SoaTable'[h] = SoaTable[h]
  PROVE  SoaTable' = [SoaTable EXCEPT ![i][t] = v]
<1> DEFINE T == SoaTable
           N == SoaTable'
<1>1. T = [h \in Slots |-> T[h]] /\ T[i] = [u \in Types |-> T[i][u]]
  BY DEF SoaTable
<1>2. N = [h \in Slots |-> N[h]] /\ N[i] = [u \in Types |-> N[i][u]]
  BY DEF SoaTable
<1> HIDE DEF T, N
<1>3. N[i] = [T[i] EXCEPT ![t] = v]
  BY <1>1, <1>2 DEF T, N
<1>4. N = [T EXCEPT ![i] = [T[i] EXCEPT ![t] = v]]
  BY <1>1, <1>2, <1>3 DEF T, N
<1>5. [T EXCEPT ![i] = [T[i] EXCEPT ![t] = v]] = [T EXCEPT ![i][t] = v]
  BY <1>1
<1> QED
  BY <1>4, <1>5 DEF T, N

LEMMA ClearedRow ==
  ASSUME NEW i \in Slots,
         \A u \in Types : SoaTable'[i][u] = NoArchetype,
         \A h \in Slots \ {i} : SoaTable'[h] = SoaTable[h]
  PROVE  Table!Clear(i)
<1> DEFINE T == SoaTable
           N == SoaTable'
<1>1. T = [h \in Slots |-> T[h]]
  BY DEF SoaTable
<1>2. N = [h \in Slots |-> N[h]] /\ N[i] = [u \in Types |-> N[i][u]]
  BY DEF SoaTable
<1> HIDE DEF T, N
<1>3. N[i] = [u \in Types |-> NoArchetype]
  BY <1>2 DEF N
<1>4. N = [T EXCEPT ![i] = [u \in Types |-> NoArchetype]]
  BY <1>1, <1>2, <1>3 DEF T, N
<1> QED
  BY <1>4 DEF T, N, Table!Clear

\* A move of one entity changes its own cells only, and of those the ones of
\* the types that its new mask has and the old one has not, or the reverse.
LEMMA MovedCells ==
  ASSUME LayoutInv, NEW i \in LiveSlots, NEW mask \in Masks,
         mask # soa_type_masks[i], MoveTo(i, mask), UNCHANGED entityVars, UNCHANGED destroyed
  PROVE  /\ \A h \in Slots \ {i} : SoaTable'[h] = SoaTable[h]
         /\ \A t \in mask : SoaTable'[i][t] \in Values
         /\ \A t \in Types \ mask : SoaTable'[i][t] = NoArchetype
         /\ \A t \in mask \cap soa_type_masks[i] : SoaTable'[i][t] = SoaTable[i][t]
<1>1. /\ LayoutInv'
      /\ Placed' = Placed \cup {i}
      /\ \A h \in Placed \ {i} : soa_type_masks'[h] = soa_type_masks[h]
      /\ \A h \in Placed \ {i}, t \in Types :
           t \in soa_type_masks[h] => ElementOf(h, t)' = ElementOf(h, t)
  BY MoveKeepsLayout
<1>2. /\ soa_type_masks' = [soa_type_masks EXCEPT ![i] = mask]
      /\ \A t \in mask :
           /\ ElementOf(i, t)' \in Values
           /\ t \in soa_type_masks[i] => ElementOf(i, t)' = ElementOf(i, t)
  BY MoveEffect
<1>3. i \in Slots /\ mask \subseteq Types /\ soa_type_masks \in [Slots -> SUBSET Types]
      /\ (soa_type_masks[i] # {} => i \in Placed)
  BY MaskFacts DEF LayoutInv, TypeOK, LiveSlots, Placed
<1>4. soa_type_masks'[i] = mask /\ i \in Placed'
  BY <1>1, <1>2, <1>3
<1>5. \A h \in Slots \ {i} : SoaTable'[h] = SoaTable[h]
  BY <1>1, CellsKept
<1>6. \A t \in Types :
        SoaTable'[i][t] = IF t \in mask THEN ElementOf(i, t)' ELSE NoArchetype
  BY <1>1, <1>3, <1>4, CellsOfSlotNext
<1>7. \A t \in mask \cap soa_type_masks[i] : SoaTable[i][t] = ElementOf(i, t)
  BY <1>3, CellsOfSlot
<1> QED
  BY <1>2, <1>3, <1>5, <1>6, <1>7

\* Leaving the archetype empties the cells of one entity and no others.
LEMMA LeftCells ==
  ASSUME LayoutInv, NEW i \in Placed, LeaveArchetype(i), births' = births,
         generations' \in [Slots -> Nat], alive' \in [Slots -> BOOLEAN],
         \A h \in Slots \ {i} : generations'[h] = generations[h] /\ alive'[h] = alive[h]
  PROVE  /\ \A h \in Slots \ {i} : SoaTable'[h] = SoaTable[h]
         /\ \A t \in Types : SoaTable'[i][t] = NoArchetype
<1>1. /\ LayoutInv'
      /\ Placed' = Placed \ {i}
      /\ \A h \in Placed \ {i} : soa_type_masks'[h] = soa_type_masks[h]
      /\ \A h \in Placed \ {i}, t \in Types :
           t \in soa_type_masks[h] => ElementOf(h, t)' = ElementOf(h, t)
  BY LeaveKeepsLayout
<1>2. i \in Slots
  BY DEF Placed
<1>3. \A h \in Slots \ {i} : SoaTable'[h] = SoaTable[h]
  BY <1>1, CellsKept
<1> QED
  BY <1>1, <1>2, <1>3, CellsOfSlotNext

LEMMA AddIsTableAdd ==
  ASSUME LayoutInv, NEW i \in Slots, NEW t \in Types, AddSoa(i, t)
  PROVE  Table!Add(i, t)
<1> DEFINE mask == soa_type_masks[i] \cup {t}
<1>1. /\ i \in LiveSlots /\ t \notin soa_type_masks[i]
      /\ mask \in Masks /\ mask # soa_type_masks[i]
      /\ MoveTo(i, mask) /\ UNCHANGED entityVars /\ UNCHANGED destroyed
  BY AddIsMove
<1>2. /\ \A h \in Slots \ {i} : SoaTable'[h] = SoaTable[h]
      /\ \A u \in mask : SoaTable'[i][u] \in Values
      /\ \A u \in Types \ mask : SoaTable'[i][u] = NoArchetype
      /\ \A u \in mask \cap soa_type_masks[i] : SoaTable'[i][u] = SoaTable[i][u]
  BY <1>1, MovedCells
<1>3. SoaTable[i][t] = NoArchetype /\ SoaTable'[i][t] \in Values
  BY <1>1, <1>2, EmptyCells
<1>4. \A u \in Types \ {t} : SoaTable'[i][u] = SoaTable[i][u]
  BY <1>1, <1>2, EmptyCells
<1>5. SoaTable' = [SoaTable EXCEPT ![i][t] = SoaTable'[i][t]]
  BY <1>2, <1>4, OneCell
<1> QED
  BY <1>3, <1>5 DEF Table!Add, Table!SetCell

LEMMA RemoveIsTableRemove ==
  ASSUME LayoutInv, NEW i \in Slots, NEW t \in Types, RemoveSoa(i, t)
  PROVE  Table!Remove(i, t)
<1>1. i \in LiveSlots /\ t \in soa_type_masks[i]
  BY DEF RemoveSoa, LiveSlots
<1>2. SoaTable[i][t] # NoArchetype
  BY <1>1, EmptyCells
<1>3. /\ SoaTable'[i][t] = NoArchetype
      /\ \A u \in Types \ {t} : SoaTable'[i][u] = SoaTable[i][u]
      /\ \A h \in Slots \ {i} : SoaTable'[h] = SoaTable[h]
  <2>1. CASE soa_type_masks[i] = {t}
    <3>1. /\ i \in Placed /\ LeaveArchetype(i) /\ births' = births
          /\ generations' \in [Slots -> Nat] /\ alive' \in [Slots -> BOOLEAN]
          /\ \A h \in Slots \ {i} : generations'[h] = generations[h] /\ alive'[h] = alive[h]
      BY <2>1, RemoveLastIsLeave
    <3>2. /\ \A h \in Slots \ {i} : SoaTable'[h] = SoaTable[h]
          /\ \A u \in Types : SoaTable'[i][u] = NoArchetype
      BY <3>1, LeftCells
    <3> QED
      BY <1>1, <2>1, <3>2, EmptyCells
  <2>2. CASE soa_type_masks[i] # {t}
    <3> DEFINE mask == soa_type_masks[i] \ {t}
    <3>1. /\ mask \in Masks /\ mask # soa_type_masks[i]
          /\ MoveTo(i, mask) /\ UNCHANGED entityVars /\ UNCHANGED destroyed
      BY <2>2, RemoveIsMove
    <3>2. /\ \A h \in Slots \ {i} : SoaTable'[h] = SoaTable[h]
          /\ \A u \in Types \ mask : SoaTable'[i][u] = NoArchetype
          /\ \A u \in mask \cap soa_type_masks[i] : SoaTable'[i][u] = SoaTable[i][u]
      BY <1>1, <3>1, MovedCells
    <3> QED
      BY <1>1, <3>2, EmptyCells
  <2> QED
    BY <2>1, <2>2
<1>4. SoaTable' = [SoaTable EXCEPT ![i][t] = NoArchetype]
  BY <1>3, OneCell
<1> QED
  BY <1>2, <1>4 DEF Table!Remove, Table!SetCell

LEMMA WriteIsTableWrite ==
  ASSUME LayoutInv, NEW i \in Slots, NEW t \in Types, WriteSoa(i, t)
  PROVE  Table!Write(i, t)
<1>1. /\ i \in LiveSlots /\ t \in soa_type_masks[i] /\ soa_type_masks' = soa_type_masks
  BY DEF WriteSoa, LiveSlots
<1>2. LayoutInv' /\ Placed' = Placed
  BY WriteKeepsLayout
<1>3. /\ i \in Placed
      /\ \A h \in Placed, u \in Types : u \in soa_type_masks[h] =>
           ElementOf(h, u)' = IF h = i /\ u = t THEN Written ELSE ElementOf(h, u)
  BY WriteEffect
<1>4. SoaTable[i][t] # NoArchetype
  BY <1>1, EmptyCells
<1>5. SoaTable'[i][t] = Written
  BY <1>1, <1>2, <1>3, CellsOfSlotNext
<1>6. \A u \in Types \ {t} : SoaTable'[i][u] = SoaTable[i][u]
  BY <1>1, <1>2, <1>3, CellsOfSlot, CellsOfSlotNext
<1>7. \A h \in Slots \ {i} : SoaTable'[h] = SoaTable[h]
  BY <1>1, <1>2, <1>3, CellsKept
<1>8. SoaTable' = [SoaTable EXCEPT ![i][t] = Written]
  BY <1>5, <1>6, <1>7, OneCell
<1> QED
  BY <1>4, <1>8, ValuesFacts DEF Table!Write, Table!SetCell

\* Allocating a slot leaves the table as it is: a dead slot's cells are
\* empty, and so are those of an entity just made.
LEMMA AllocLeavesTable ==
  ASSUME LayoutInv, NEW i \in Slots, Alloc(i)
  PROVE  UNCHANGED SoaTable
<1>1. /\ LayoutInv' /\ Placed' = Placed
      /\ \A h \in Placed : soa_type_masks'[h] = soa_type_masks[h]
      /\ \A h \in Placed, t \in Types :
           t \in soa_type_masks[h] => ElementOf(h, t)' = ElementOf(h, t)
  BY AllocKeepsLayout
<1>2. \A h \in Slots : SoaTable'[h] = SoaTable[h]
  BY <1>1, CellsKept
<1> QED
  BY <1>2 DEF SoaTable

LEMMA FreeIsTableClear ==
  ASSUME LayoutInv, NEW i \in Slots, Free(i)
  PROVE  Table!Clear(i)
<1>1. CASE HasArchetype(i)
  <2>1. /\ i \in Placed /\ LeaveArchetype(i) /\ births' = births
        /\ generations' \in [Slots -> Nat] /\ alive' \in [Slots -> BOOLEAN]
        /\ \A h \in Slots \ {i} : generations'[h] = generations[h] /\ alive'[h] = alive[h]
    BY <1>1, FreePlacedIsLeave
  <2> QED
    BY <2>1, LeftCells, ClearedRow
<1>2. CASE ~HasArchetype(i)
  <2>1. /\ LayoutInv' /\ Placed' = Placed /\ i \notin Placed
        /\ UNCHANGED <<soaVars, births, destroyed>>
    BY <1>2, FreeUnplaced
  <2>2. \A h \in Slots : SoaTable'[h] = SoaTable[h]
    BY <2>1, CellsKept DEF soaVars, ElementOf
  <2>3. \A t \in Types : SoaTable'[i][t] = NoArchetype
    BY <2>1, CellsOfSlotNext
  <2> QED
    BY <2>2, <2>3, ClearedRow
<1> QED
  BY <1>1, <1>2

LEMMA StepImplementsTable == LayoutInv /\ [Next]_vars => [Table!Next]_SoaTable
<1> SUFFICES ASSUME LayoutInv, [Next]_vars PROVE [Table!Next]_SoaTable
  OBVIOUS
<1>1. ASSUME NEW i \in Slots, Alloc(i) PROVE UNCHANGED SoaTable
  BY <1>1, AllocLeavesTable
<1>2. ASSUME NEW i \in Slots, Free(i) PROVE Table!Next
  BY <1>2, FreeIsTableClear DEF Table!Next
<1>3. ASSUME NEW i \in Slots, NEW t \in Types, AddSoa(i, t) PROVE Table!Next
  BY <1>3, AddIsTableAdd DEF Table!Next
<1>4. ASSUME NEW i \in Slots, NEW t \in Types, RemoveSoa(i, t) PROVE Table!Next
  BY <1>4, RemoveIsTableRemove DEF Table!Next
<1>5. ASSUME NEW i \in Slots, NEW t \in Types, WriteSoa(i, t) PROVE Table!Next
  BY <1>5, WriteIsTableWrite DEF Table!Next
<1>6. CASE UNCHANGED vars
  BY <1>6 DEF vars, entityVars, soaVars, SoaTable, GetSoa, HasArchetype, ArchetypeOf
<1> QED
  BY <1>1, <1>2, <1>3, <1>4, <1>5, <1>6 DEF Next

\* The storage implements a table with a cell for every entity and type: a
\* step on one entity changes the cells of that entity only, and adding or
\* removing a type changes the cell of that type only, whatever rows the
\* archetypes swap and copy to carry it out (tc_entity_pool_add_soa,
\* tc_entity_pool_remove_soa, tc_entity_pool_free).
THEOREM StorageImplementsTable == Spec => ImplementsComponentTable
<1>1. Init => Table!Init
  BY DEF Init, Table!Init, SoaTable
<1>2. LayoutInv /\ [Next]_vars => [Table!Next]_SoaTable
  BY StepImplementsTable
<1> QED
  BY <1>1, <1>2, LayoutInvariant, PTL DEF Spec, ImplementsComponentTable, Table!Spec
=============================================================================
