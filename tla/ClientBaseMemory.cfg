\* Calls at both ends of the address space; the slave answers what it did.
SPECIFICATION Spec
CONSTANTS
  Operations <- MCOperations
  Addresses <- MCAddresses
  Values = {1}
  InitialMemory <- MCMemory
  Forgeries <- NoForgeries
  MaxCalls = 2
  MaxChanges = 1
  MaxDups = 1
INVARIANTS
  WriteHolds
  BufferKept
PROPERTIES
  MemoryKept
