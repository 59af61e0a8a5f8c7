SPECIFICATION Spec
CONSTANTS
    Sigs <- MCSigs
    Configs <- MCConfigs
    ActiveRuns = 2
    StickyRuns = 3
    ActiveSpan = 1
    StickySpan = 1
    ReapSpan = 1
    Horizon = 6
    Ttl = 1
    Windows = {}
    None = None
INVARIANT OneVotePerRound
PROPERTIES BookedIsHeard
CHECK_DEADLOCK FALSE
