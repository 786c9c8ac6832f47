SPECIFICATION PlanningSpec
CONSTANTS
  Null = Null
  Malformed = Malformed
  Absent = Absent
  Inherited = Inherited
  Documents <- AllDocuments
  Repositories <- SomeRepositories
  Sources <- PlanSources
  BumpFlags = {Null, "patch"}
  MaxEdits = 1
  MaxPlans = 2
  Trees <- AllTrees
  MaxTags = 2
  MaxCommitters = 2
  BumpTrees <- ReleasedTrees
  BumpContracts <- SomeBumpContracts
  Notebooks <- SomeNotebooks
  Locked = {FALSE, TRUE}
  MaxAttempts = 2
INVARIANTS
  ContractInv
  PlanInv
  ExecutesTheApproved
  DependenciesComeFirst
  FactsInv
  BumpInv
  NotesAreReleased
CHECK_DEADLOCK FALSE
