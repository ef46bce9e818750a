SPECIFICATION FairSpec
CONSTANTS
    LidarCount = 2
    Frames <- MCFrames
    Torn = "torn"
    Size = 2
    Wrap = 4
    Sampling = {1}
INVARIANTS TypeOK SlotsApart
PROPERTIES RingsAreQueues ArrivalEmptiesRing ExitEnds
CHECK_DEADLOCK FALSE
