CONSTANTS
    RgbStamps <- MCRgb
    DepthStamps <- MCDepth
    OdomStamps <- MCOdom
    InfoStamps = {2, 6}
    Calibrations = {c1, c2}
    Extrinsics = {e1, e2}
    NoExtrinsic = none
    TfKinds = {"edge"}
    Slop = 1
    Offset <- MCOffset
    MaxOdomGap = 2
    Period = 2
    Wait = 1
    Keep = 2
    ImageBuffer = 2
    OdomBuffer = 3
    InfoBuffer = 1
    LastArrival = 1
    Jitter = 1
SPECIFICATION Spec
SYMMETRY MCSymmetry
INVARIANTS TypeOK BagValidates BracketTight TrimKeepsBrackets
PROPERTIES WaitBounded WritesFrameLog
