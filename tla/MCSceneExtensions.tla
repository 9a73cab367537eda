------------------------- MODULE MCSceneExtensions -------------------------
(***************************************************************************)
(* Two scenes and two extension types, the second of which attaches the    *)
(* first from its create hook; calls nest two deep.                        *)
(***************************************************************************)
EXTENDS SceneExtensions

CONSTANTS s1, s2, t1, t2, k1, k2

Keys == [t \in ExtType |-> IF t = t1 THEN k1 ELSE k2]

HooksOf == [op \in Ops |-> IF op = "render" THEN {t1} ELSE ExtType]

FirstBySecond == {<<t2, t1>>}

SceneSymmetry == Permutations(Scene)
============================================================================
