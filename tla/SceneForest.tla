---------------------------- MODULE SceneForest ----------------------------
(***************************************************************************)
(* What entities are to their users, whatever slots and pools hold them:   *)
(* named things, each in one scene or in none, forming a forest, and       *)
(* carrying components.  Moving a thing to another scene takes everything  *)
(* below it along, with all the components, and makes it a root there.     *)
(***************************************************************************)
CONSTANTS Thing, Scene, Component, None

VARIABLES
  scene,   \* scene[e]: where e is, None if it does not exist
  parent,  \* parent[e]: the thing above e, None for a root
  holder   \* holder[c]: the thing that carries component c, or None

forest == <<scene, parent, holder>>

Existing == { e \in Thing : scene[e] # None }

\* e and everything below it: what is in every set that holds e and, of each
\* thing in it, the things right below.
Below(e) ==
  { d \in Thing : \A S \in SUBSET Thing :
                    e \in S /\ (\A x \in Thing : parent[x] \in S => x \in S) => d \in S }

Init ==
  /\ scene = [e \in Thing |-> None]
  /\ parent = [e \in Thing |-> None]
  /\ holder = [c \in Component |-> None]

Create(e, s) ==
  /\ e \notin Existing
  /\ scene' = [scene EXCEPT ![e] = s]
  /\ UNCHANGED <<parent, holder>>

\* The things of D are destroyed; what hung below them become roots.
Destroy(D) ==
  /\ scene' = [e \in Thing |-> IF e \in D THEN None ELSE scene[e]]
  /\ parent' = [e \in Thing |-> IF e \in D \/ parent[e] \in D THEN None ELSE parent[e]]
  /\ holder' = [c \in Component |-> IF holder[c] \in D THEN None ELSE holder[c]]

SetParent(e, p) ==
  /\ scene[p] = scene[e]
  /\ parent' = [parent EXCEPT ![e] = p]
  /\ UNCHANGED <<scene, holder>>
  /\ p \notin Below(e)

MakeRoot(e) ==
  /\ parent' = [parent EXCEPT ![e] = None]
  /\ UNCHANGED <<scene, holder>>

Attach(c, e) ==
  /\ holder[c] = None
  /\ holder' = [holder EXCEPT ![c] = e]
  /\ UNCHANGED <<scene, parent>>

Detach(c) ==
  /\ holder' = [holder EXCEPT ![c] = None]
  /\ UNCHANGED <<scene, parent>>

Move(e, s) ==
  /\ parent' = [parent EXCEPT ![e] = None]
  /\ UNCHANGED holder
  /\ scene' = [d \in Thing |-> IF d \in Below(e) THEN s ELSE scene[d]]

Next ==
  \/ \E e \in Thing, s \in Scene : Create(e, s)
  \/ \E e \in Existing :
       \/ Destroy({e})
       \/ Destroy(Below(e) \ {e})
       \/ MakeRoot(e)
       \/ \E p \in Existing : SetParent(e, p)
       \/ \E c \in Component : Attach(c, e)
       \/ \E s \in Scene \ {scene[e]} : Move(e, s)
  \/ \E c \in Component : Detach(c)

Spec == Init /\ [][Next]_forest
=============================================================================
