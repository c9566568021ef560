\* Three tasks, two message types, one reset between requests.
SPECIFICATION Spec
CONSTANTS
  Tasks = {t1, t2, t3}
  NumTypes = 2
  RequestSizes = {5, 252}
  ResponseSizes = {0, 3, 253}
  MaxRequests = 4
  MaxDumps = 0
  MaxResets = 1
  ResetsApart = TRUE
SYMMETRY Symmetry
INVARIANTS
  TypeOK
  Conserved
  BytesMatchRequests
  TypesAddUp
