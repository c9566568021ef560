\* Two callers that leave a quiet gap between calls; sizes at the limits of frame
\* and buffer; another endpoint sends every form of datagram that is refused.
SPECIFICATION Spec
CONSTANTS
  Callers = {c1, c2}
  MaxCalls = 2
  SlaveId <- MCSlaveId
  RequestSizes <- BoundarySizes
  OutSizes <- TwoOutSizes
  Contents = {"PDU"}
  ReplyForms <- SizedReplies
  StrayForms <- BadForms
  MaxDups = 1
  MaxStrays = 1
  Quiet = TRUE
INVARIANTS
  TypeOK
  NeverFromEndedCall
PROPERTIES
  PromiseKept
