SPECIFICATION ContractSpec
CONSTANTS
  Null = Null
  Malformed = Malformed
  Absent = Absent
  Documents <- AllDocuments
  Repositories <- SomeRepositories
INVARIANT AcceptedCrateMayPublish
CHECK_DEADLOCK FALSE
