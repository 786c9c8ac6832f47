SPECIFICATION ProgressSpec
CONSTANTS
  N = 3
  NoCommit = NoCommit
  Foreign = Foreign
  TerminalPhase = 8
  Class <- CrateDistTap
  Deps <- NoDeps
  Watched = {2}
  NeedsAssets = TRUE
  HasBump = TRUE
  Advances = TRUE
  Dispositions = {"engine", "ci"}
  PriorTags = {NoCommit}
  ForeignTargets = {}
  VanishTargets = {}
  MaxFaults = 3
  Cuts = {c1, c2, c3}
  Abandons = {a1, a2}
  Remote = {c2}
  None = None
INVARIANTS
  CompletedMeansDelivered
  AdvanceAfterVerify
  OneDisposition
  LockInv
  OneMorePerMistake
PROPERTIES
  RunRecovers
  ImplementsRelease
  StaleLockIsBroken
CHECK_DEADLOCK FALSE
