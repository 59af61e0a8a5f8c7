SPECIFICATION Spec
CONSTANTS
  a = a
  b = b
  secrets = secrets
  cache = cache
  own = own
  Calls <- MCCalls
  Humans <- MCCalls
  None = None
  Paths <- MCPaths
  Others <- MCOthers
  Sources <- AllSources
  ProjectSources <- AllProjectSources
  Starter = "looser"
  Cloned = {"absent"}
  MaxVersion = 2
  Mains <- Worktree
  Invalid = Invalid
  Effective <- TwoVersions
  Windows = {}
  MaxEvents = 2
SYMMETRY Interchangeable
INVARIANTS InForceIsVouched
PROPERTIES ChangeFollowsPass
CHECK_DEADLOCK FALSE
