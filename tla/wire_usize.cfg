\* Packets of every layout in a network of 32-bit and 64-bit boards.
SPECIFICATION Spec
CONSTANTS
  Packets <- SmallPackets
  Schema <- SmallSchema
  NumEndpoints = 3
  Group = 4
  MaxVarint = 3
  Word = 2
  Threshold = 4
  Usizes = {2, 4}
  Seqs = {1, 9}
  MaxHops = 2
CHECK_DEADLOCK FALSE
INVARIANT IdsAgree
