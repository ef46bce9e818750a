---------------------------- MODULE MCIkdRebuild ----------------------------
(* Two points of one voxel in the subtree and one point beside it. *)
EXTENDS IkdRebuildProps
MCPoints == {1, 2, 3}
MCInSub == {1, 2}
MCVoxel == [p \in MCPoints |-> IF p = 3 THEN {3} ELSE {1, 2}]
MCRank == [p \in MCPoints |-> p]
MCBoxes == {{1}, {1, 2}, {3}, {1, 2, 3}}
=============================================================================
