\* Two callers share the client, the network reorders, duplicates and loses.
SPECIFICATION FairSpec
CONSTANTS
  Callers = {c1, c2}
  MaxCalls = 3
  SlaveId <- MCSlaveId
  RequestSizes <- OneRequestSize
  OutSizes <- OneOutSize
  Contents = {"PDU"}
  ReplyForms <- OneGoodForm
  StrayForms <- NoForms
  MaxDups = 1
  MaxStrays = 0
  Quiet = FALSE
INVARIANTS
  OnlyAfterDrain
PROPERTIES
  EveryCallReturns
