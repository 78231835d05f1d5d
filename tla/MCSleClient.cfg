SPECIFICATION FairClientSpec
CONSTANTS
  Conn = {1, 2}
  Peer = {p1}
  NoPeer = NoPeer
  Id = {i1}
  NoId = NoId
  MaxConns = 2
  RssiLimit = 2
  StopTimeout = 1
INVARIANTS ClientSafety
PROPERTIES ChosenIsDialled Searches GhostsGoAway
