-------------------------- MODULE ComponentTable --------------------------
(***************************************************************************)
(* What SoA storage promises to its users: a table with one cell for every *)
(* entity slot and data type.  An operation on one entity changes cells of *)
(* that entity only; where the cell is stored, and what moves when rows    *)
(* are filled and vacated, does not show.                                  *)
(***************************************************************************)
CONSTANTS
  Slots,
  Types,
  Values,
  Absent   \* the cell of a type the entity does not have

VARIABLE table

Init == table = [i \in Slots |-> [t \in Types |-> Absent]]

SetCell(i, t, v) == table' = [table EXCEPT ![i][t] = v]

Add(i, t) == table[i][t] = Absent /\ \E v \in Values : SetCell(i, t, v)
Write(i, t) == table[i][t] # Absent /\ \E v \in Values : SetCell(i, t, v)
Remove(i, t) == table[i][t] # Absent /\ SetCell(i, t, Absent)
Clear(i) == table' = [table EXCEPT ![i] = [t \in Types |-> Absent]]

Next ==
  \E i \in Slots :
    \/ Clear(i)
    \/ \E t \in Types : Add(i, t) \/ Write(i, t) \/ Remove(i, t)

Spec == Init /\ [][Next]_table
===========================================================================
