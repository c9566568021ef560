\* Frames of several lengths, damaged in up to two bytes beside each other.
SPECIFICATION Spec
CONSTANTS
  Slaves = {0, 17}
  Pdus <- MCPdus
  Damages = {0, 1, 128, 255}
  Spots = {1, 2, 6, 7, 8, 255, 256}
  MaxDamaged = 2
INVARIANTS
  FrameReadBack
  DamageRefused
  StandardCrc
CHECK_DEADLOCK FALSE
