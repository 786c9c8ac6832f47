SPECIFICATION Spec
CONSTANTS
  N = 3
  NoCommit = NoCommit
  Foreign = Foreign
  TerminalPhase = 8
  Class <- TwoCratesTap
  Deps <- TwoCratesTapDeps
  Watched = {}
  NeedsAssets = FALSE
  HasBump = TRUE
  Advances = TRUE
  Dispositions = {"engine"}
  PriorTags = {NoCommit}
  ForeignTargets = {1}
  VanishTargets = {}
  MaxFaults = 1
INVARIANTS
  CompletedIsOurs
CHECK_DEADLOCK FALSE
