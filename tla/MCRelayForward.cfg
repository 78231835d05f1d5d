CONSTANTS
  Member = {1, 2, 3}
  Relay = {1, 2}
  Link <- Roaming
  TTL = 4
  MaxParents = 1
  Kinds = {"hello", "route", "config"}
  Budget = 2
  BodyKept = TRUE
SPECIFICATION ForwardSpec
CHECK_DEADLOCK FALSE
CONSTRAINT OneLess
INVARIANTS ForwardSafety
PROPERTIES MeshImplementsChannel PacketsEnd
