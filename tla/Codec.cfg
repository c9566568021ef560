\* Two messages of any kind and size behind each other, possibly cut short.
SPECIFICATION CodecSpec
CONSTANTS
  Samples <- MCSamples
  Room = 300
  Losses = {1, 2, 3, 120}
  MaxWrites = 2
INVARIANTS
  ReadBack
  TailPreserved
CHECK_DEADLOCK FALSE
