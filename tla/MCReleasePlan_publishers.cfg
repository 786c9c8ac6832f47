SPECIFICATION PlanSpec
CONSTANTS
  Null = Null
  Malformed = Malformed
  Documents = {}
  Repositories = {}
  Sources <- PlanSources
  BumpFlags = {Null}
  MaxEdits = 1
  MaxPlans = 1
INVARIANT OnePublisher
CHECK_DEADLOCK FALSE
