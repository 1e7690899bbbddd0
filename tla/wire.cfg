\* Packets of every layout over two legs with one fault each; every board has
\* the usize of a 64-bit host.
SPECIFICATION Spec
CONSTANTS
  Packets <- SmallPackets
  Schema <- SmallSchema
  NumEndpoints = 3
  Group = 4
  MaxVarint = 3
  Word = 2
  Threshold = 4
  Usizes = {4}
  Seqs = {1, 9}
  MaxHops = 2
CHECK_DEADLOCK FALSE
INVARIANTS AcceptedIsSent IntactIsReadable 
