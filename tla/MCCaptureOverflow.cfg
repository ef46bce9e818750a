CONSTANTS
    Threads <- MCThreads
    ImageThreads <- MCImages
    Size <- MCSize
    MaxBytes = 4
    MaxEvents = 2
    Wait = 1
    StartupTimeout = 1
    MaxMessages = 2
    Busy = 1
SPECIFICATION FairSpec
PROPERTIES OverflowMarksIncomplete
