SPECIFICATION Spec
CONSTANTS
    NoText = NoText
    codex = codex
    gemini = gemini
    x = x
    y = y
    n = n
    err = err
    v = v
    Benches <- AllBenches
    None = None
    b1 = b1
    b2 = b2
    p1 = p1
    p2 = p2
    Benchers <- TwoBenchers
    Publishers <- TwoPublishers
    MaxTrouble = 4
    Turns = 2
    Reviews = 2
    Kills = 1
    Demotes = {TRUE}
    Rounds = 2
    CaptureFails = {"overflow", "lossy"}
    Studies <- AllStudies
SYMMETRY Symmetry
INVARIANTS SameAnswers AcceptedIsWhole RefusedLeavesNothing ExactIsComplete CountedWhereWritten BranchesAreTheirOwn NothingIsLost
