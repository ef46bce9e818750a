SPECIFICATION Spec
CONSTANTS
    MaxSpan = 2
    MaxSkew = 0
    MaxScans = 2
    MinGap = 0
    ImuGap = 4
    MaxTime = 2
    MaxRestarts = 1
    Spans = {2}
    Points = {6}
    DownSizes = {4, 6}
    MaxInit = 1
    Garbage = {0}
PROPERTIES KeepsNewScans
