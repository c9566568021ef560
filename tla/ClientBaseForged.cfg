\* The largest calls and the first that are too large; any kind of answer.
SPECIFICATION Spec
CONSTANTS
  Operations <- LargeOperations
  Addresses <- MCAddresses
  Values = {1}
  InitialMemory <- MCMemory
  Forgeries <- MCForgeries
  MaxCalls = 1
  MaxChanges = 0
  MaxDups = 1
INVARIANTS
  TypeOK
  RequestUnderstood
  FailureLeavesBuffer
  OnlyRegistersOverrun
