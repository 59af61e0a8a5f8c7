SPECIFICATION FairSpec
CONSTANTS
  a = a
  b = b
  Sessions <- MCSessions
  None = None
  MaxRounds = 1
  Races = {}
  MaxEdits = 1
  MaxCommits = 1
  MaxKills = 1
  MaxResets = 0
PROPERTIES WorkSettles
CHECK_DEADLOCK FALSE
