SPECIFICATION DeliverySpec
CONSTANTS
  N = 3
  NoCommit = NoCommit
  Foreign = Foreign
  TerminalPhase = 8
  Class <- TwoCratesTap
  Deps <- TwoCratesTapDeps
  Watched = {}
  NeedsAssets = FALSE
  HasBump = TRUE
  Advances = TRUE
  Dispositions = {"engine"}
  PriorTags = {NoCommit, Foreign}
  ForeignTargets = {2}
  VanishTargets = {2}
  MaxFaults = 3
  Null = Null
  Targets <- MixedTargets
  TaggedTrees <- SomeTrees
  Window = 1
  MaxSleeps = 1
  MaxChanges = 2
INVARIANTS
  TypeOK
  BuildBarrier
  ReceiptIsBacked
  TagBarrier
  SingleCommit
  AtMostOneUnreceipted
  ReachedSignalIsSafe
  VerifyInv
  PassedMeansDelivered
  ReportsAgree
PROPERTIES
  FailureIsNotHidden
  BarrierEnds
CHECK_DEADLOCK FALSE
