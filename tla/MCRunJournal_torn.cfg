SPECIFICATION JournalSpec
CONSTANTS
  N = 1
  TerminalPhase = 8
  NoCommit = NoCommit
  Torn = Torn
  Events <- SomeEvents
  Machines <- WritesApart
  MaxEvents = 2
  MaxCrashes = 2
INVARIANT CleanRecovery
CHECK_DEADLOCK FALSE
