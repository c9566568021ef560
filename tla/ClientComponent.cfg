\* Two instances, two users of one of them, two dumps.
SPECIFICATION FairSpec
CONSTANTS
  Components = {a, b}
  Users = {u, v}
  ClientOf <- MCClientOf
  Configs <- MCConfigs
  MaxDumps = 2
INVARIANTS
  DumpReadsMetrics
  ReferenceIsValid
  NothingLeftBehind
PROPERTIES
  ShutdownEnds
