\* Three callers share the client and the slave.
SPECIFICATION SharedSpec
CONSTANTS
  c1 = c1
  c2 = c2
  c3 = c3
  Callers = {c1, c2, c3}
  MaxCalls = 3
  SlaveId <- MCSlaveId
  RequestSizes <- MCRequestSizes
  OutSizes <- MCOutSizes
  Contents <- MCContents
  ReplyForms <- MCReplyForms
  StrayForms <- NoForms
  MaxDups = 0
  MaxStrays = 0
  Quiet = TRUE
  Uses <- MCUses
  Watched = c1
  Addresses <- MCAddresses
  Values <- MCValues
  InitialMemory <- MCMemory
INVARIANTS
  OnlyKindred
  OverrunIsKindreds
PROPERTIES
  CallerHasMemory
