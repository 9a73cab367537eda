---------------------------- MODULE MCSceneFile ----------------------------
(***************************************************************************)
(* Every forest of three entities, each serializable or not, and each with *)
(* no component or one of a known and one of an unknown type, the one, the *)
(* other, both or none in a placeholder when the scene is saved.           *)
(***************************************************************************)
EXTENDS SceneFile

CONSTANTS known, unknown

Lists == {<<>>, <<known, unknown>>}
============================================================================
