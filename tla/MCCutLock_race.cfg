SPECIFICATION LockSpec
CONSTANTS
  Cuts = {c1, c2}
  Abandons = {a1}
  Remote = {}
  None = None
INVARIANT MutualExclusion
CHECK_DEADLOCK FALSE
