SPECIFICATION BumpSpec
CONSTANTS
  Null = Null
  Malformed = Malformed
  Inherited = Inherited
  Documents = {}
  Repositories = {}
  Sources = {}
  BumpFlags = {Null}
  MaxEdits = 0
  MaxPlans = 0
  Trees = {}
  BumpTrees <- ReleasedTrees
  MaxTags = 2
  MaxCommitters = 2
  BumpContracts <- SomeBumpContracts
  Notebooks <- SomeNotebooks
  Locked = {FALSE, TRUE}
  MaxAttempts = 2
INVARIANT BumpedCratesHaveTheVersion
CHECK_DEADLOCK FALSE
