SPECIFICATION FairSpec
CONSTANTS
    Points <- MCPoints
    InSub <- MCInSub
    Voxel <- MCVoxel
    Rank <- MCRank
    Boxes <- MCBoxes
    Searchers = {s1, s2}
    Multi_Thread_Rebuild_Point_Num = 2
    MaxOps = 3
INVARIANTS TypeOK LogIsExact MapIsWanted SearchesApart
PROPERTIES RebuildEnds CallsEnd
CHECK_DEADLOCK FALSE
