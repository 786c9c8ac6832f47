SPECIFICATION PublishingSpec
CONSTANTS
  Version = {1, 2}
  Absent = Absent
  Hand = Hand
  Claimed = Claimed
  OneHost = FALSE
  MaxFaults = 2
  MaxEdits = 1
  lib = lib
  app = app
  tool = tool
  r1 = r1
  r2 = r2
  x = x
  y = y
  Stranger = Stranger
  CargoCuts = {r1, r2}
  CrateOrder <- LibAppTool
  CrateDeps <- OnLib
  Delegated = {tool}
  Sources = {x, y}
  PollWindow = 1
SYMMETRY PublishingSymmetry
INVARIANTS
  TapInv
  CargoInv
  ResolvesDependencies
  AbsenceIsNotGuessed
PROPERTIES
  OverwritesOnlyOwn
  OneProposal
CHECK_DEADLOCK FALSE
