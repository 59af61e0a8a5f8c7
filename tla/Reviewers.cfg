SPECIFICATION Spec
CONSTANTS
    NoResult = NoResult
    Orders <- AllOrders
    Answers <- SomeAnswers
    NoNote = NoNote
    ta = ta
    tb = tb
    tc = tc
    td = td
    Memories <- AllMemories
    Near <- NearTexts
    Same <- SameTexts
    MaxPromotions = 1
    TtlDays = 1
    MaxCands = 2
    StaleAfter = 1
    ArchiveAfter = 3
    Overlap = FALSE
    LoreScenes <- AllLore
    Room = 1
    CooldownDays = 1
    LoreRounds = 3
    NoPrompt = NoPrompt
    GateDies = {"absorbed"}
INVARIANTS ReviewIsWhole BlockingIsHeard NotesAreShared AgreementIsKept ToldIsVouched GreenSaysAll
PROPERTIES ReviewEnds
CHECK_DEADLOCK FALSE
