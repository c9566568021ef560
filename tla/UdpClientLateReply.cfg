\* One caller that does not wait for late replies: the drain does not help it.
SPECIFICATION Spec
CONSTANTS
  Callers = {c1}
  MaxCalls = 2
  SlaveId <- MCSlaveId
  RequestSizes <- BoundarySizes
  OutSizes <- TwoOutSizes
  Contents = {"PDU"}
  ReplyForms <- SizedReplies
  StrayForms <- NoForms
  MaxDups = 1
  MaxStrays = 0
  Quiet = FALSE
INVARIANTS
  OwnReply
