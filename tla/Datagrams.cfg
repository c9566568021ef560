\* Every buffer of up to seven bytes over a small alphabet.
SPECIFICATION Spec
CONSTANTS
  Alphabet = {0, 1, 2, 255}
  MaxLength = 7
  Quantities = {0, 1, 9, 16, 2001}
INVARIANTS
  AcceptedIsSayable
  AcceptedIsInRange
PROPERTIES
  LaterBytesIgnored
CHECK_DEADLOCK FALSE
