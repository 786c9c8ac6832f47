SPECIFICATION CommandsSpec
CONSTANTS
  N = 1
  TerminalPhase = 8
  NoCommit = NoCommit
  Torn = Torn
  Events <- SomeEvents
  Machines <- BothMachines
  MaxEvents = 4
  MaxCrashes = 2
  Plans = {s1, s2}
  Cuts = {c1, c2}
  Resumes = {r1}
  Abandons = {a1, a2}
  Nobody = Nobody
  Installers = {i1, i2}
  SkillVersions = {1, 2}
  SkillPaths = {"skill", "prompt"}
  OtherKinds = {"unmanaged", "directory"}
  MaxEdits = 1
  SkillPlans <- SharedAndOwn
SYMMETRY CommandsSymmetry
INVARIANTS
  JournalInv
  AcknowledgedIsKept
  StoreInv
  StartedRunHasPlan
  SkillInv
PROPERTIES
  OutcomeIsFinal
  NeverClobbers
CHECK_DEADLOCK FALSE
