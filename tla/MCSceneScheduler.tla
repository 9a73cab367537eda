-------------------------- MODULE MCSceneScheduler --------------------------
(***************************************************************************)
(* Two entities and two components, each of a type of its own (type lists  *)
(* are MCComponentLifetime's subject): c1 is in the fixed updates and      *)
(* shown in the editor, c2 is called before rendering.  A frame of no      *)
(* length makes no fixed step, one of two makes two.                       *)
(***************************************************************************)
EXTENDS SceneScheduler

CONSTANTS c1, c2

Types == [c \in Component |-> c]
=============================================================================
