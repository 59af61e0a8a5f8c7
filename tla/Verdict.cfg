SPECIFICATION VerdictSpec
CONSTANTS
    None = None
    Inputs <- Reported
    Settings <- MCSettings
    Memories <- MCMemories
    Regions <- MCRegions
    Similar <- MCSimilar
    Lines = {1, 3}
    Window = 1
    Reach = 2
INVARIANTS CriticalStaysOpen ClaimedFixIsChecked OrderDoesNotMatter TraceIsWhole
CHECK_DEADLOCK FALSE
