---------------------------- MODULE HandleStore ----------------------------
(***************************************************************************)
(* What a generational store promises to those who keep handles into it.   *)
(* A handle is a slot index with the generation the slot had when it was   *)
(* handed out.  The store says nothing of capacities, free lists or reuse  *)
(* order: only that a handle is issued while nothing lives in its slot,    *)
(* that it dies once, and that a dead handle is not issued again until     *)
(* every generation of its slot has been used up.                          *)
(***************************************************************************)
EXTENDS Naturals

CONSTANTS
  Slots,       \* slot indices
  Generations  \* values of the generation counter

VARIABLES
  live,   \* the handles that denote something now
  spent   \* the handles that denoted something once and were released

handles == <<live, spent>>

Handle == [index : Slots, generation : Generations]

Exhausted(i) == \A g \in Generations : [index |-> i, generation |-> g] \in spent

Init ==
  /\ live = {}
  /\ spent = {}

Issue(h) ==
  /\ \A other \in live : other.index # h.index
  /\ h \notin spent \/ Exhausted(h.index)
  /\ live' = live \cup {h}
  /\ UNCHANGED spent

Release(h) ==
  /\ h \in live
  /\ live' = live \ {h}
  /\ spent' = spent \cup {h}

Next == \E h \in Handle : Issue(h) \/ Release(h)

Spec == Init /\ [][Next]_handles
=============================================================================
