CONSTANTS
    RgbStamps <- MCRgb
    DepthStamps <- MCDepth
    OdomStamps <- MCOdom
    InfoStamps = {1}
    Calibrations = {c1}
    Extrinsics = {e1}
    NoExtrinsic = none
    TfKinds = {}
    Slop = 1
    Offset = 0
    MaxOdomGap = 2
    Period = 2
    Wait = 1
    Keep = 2
    ImageBuffer = 2
    OdomBuffer = 3
    InfoBuffer = 1
    LastArrival = 1
    Jitter = 0
SPECIFICATION FairSpec
INVARIANTS UsedOnce FirstOfSlotKept
PROPERTIES Resolved CallsReturn
