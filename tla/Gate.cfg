SPECIFICATION Spec
CONSTANTS
  a = a
  b = b
  Sessions <- MCSessions
  None = None
  MaxRounds = 1
  Races = {}
  MaxEdits = 2
  MaxCommits = 1
  MaxKills = 1
  MaxResets = 1
SYMMETRY Interchangeable
INVARIANTS WorkTracked LetGoIsEarned
CHECK_DEADLOCK FALSE
