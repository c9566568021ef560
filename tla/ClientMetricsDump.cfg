\* Two tasks, one message type, a dump at any moment.
SPECIFICATION Spec
CONSTANTS
  Tasks = {t1, t2}
  NumTypes = 1
  RequestSizes = {5}
  ResponseSizes = {3}
  MaxRequests = 3
  MaxDumps = 1
  MaxResets = 0
  ResetsApart = TRUE
SYMMETRY Symmetry
INVARIANTS
  BacklogBounded
