--------------------------- MODULE MCVectorIndex ---------------------------
(***************************************************************************)
(* Instances of VectorIndex for TLC.                                       *)
(***************************************************************************)
EXTENDS VectorIndex, TLC

CONSTANTS e1, e2, kept, other

TwoEntities == {e1, e2}
NearAndFar == {1, 2}
TwoMetas == {kept, other}
OneMeta == {kept}

Pairs == Permutations(TwoEntities)
=============================================================================
