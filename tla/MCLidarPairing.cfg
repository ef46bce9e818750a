SPECIFICATION Spec
CONSTANTS
    MaxSpan = 3
    MaxSkew = 1
    MaxScans = 3
    MinGap = 2
    ImuGap = 2
    MaxTime = 6
    MaxRestarts = 0
    Spans = {3}
    Points = {0, 6}
    DownSizes = {6}
    MaxInit = 1
    Garbage = {9}
INVARIANTS TypeOK NoPairMissed  ImuOnTime
PROPERTIES PropagatesOnce
