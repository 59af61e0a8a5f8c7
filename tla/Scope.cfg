SPECIFICATION MCSpec
CONSTANTS
    None = None
    Files <- TwoFiles
    Configs <- AllScenes
    MaxRounds = 3
    GitFails = FALSE
    l1 = l1
    l2 = l2
    Loggers <- TwoLoggers
    Retention = 1
    LastDay = 4
    MostEvents = 2
    NoEvent = NoEvent
SYMMETRY Symmetry
INVARIANTS
    CaptureIsOneState  LedgerServesPassed  OwnWorkIsReviewed  HonestReadsWhole
PROPERTY OwnWorkNotDisowned
CHECK_DEADLOCK FALSE
