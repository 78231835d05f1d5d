CONSTANTS
  Mate = {1, 2}
  Records = 1
  Timeout = 1
  MaxNow = 4
  Word = {"role", "leader", "member", "leave", "allow", "only", "0", "7"}
  Number <- Numbers
  Hex <- Hexes
  Width = 3
  MaxArgs = 12
  QueueLen = 2
  MaxMembers = 30
  Errors = TRUE
  Budget = 7
  Byte = {0, 1, 2, 27, 66, 129, 193}
  MaxPath = 3
  MaxPayload = 15
  MaxLen = 18
CONSTRAINT EdgesBound
SPECIFICATION EdgesSpec
CHECK_DEADLOCK FALSE
INVARIANTS DisplaySafety CliSafety CodecInverse
