SPECIFICATION Spec
CONSTANTS
  Version = {1, 2}
  Absent = Absent
  Hand = Hand
  Claimed = Claimed
  OneHost = TRUE
  MaxFaults = 1
  MaxEdits = 0
INVARIANT NewestStays
CHECK_DEADLOCK FALSE
