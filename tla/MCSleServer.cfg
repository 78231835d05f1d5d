SPECIFICATION FairServerSpec
CONSTANTS
  Conn = {1, 2}
  Id = {1, 2}
  NoId = NoId
  MaxConns = 2
  Pause = 1
  Stuck = 2
  MayLose = TRUE
INVARIANTS ServerSafety BareIsReset
PROPERTIES FoundAgain
