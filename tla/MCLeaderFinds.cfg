CONSTANTS
  Talker = {1, 2}
  Near = {3}
  Silent = 3
  MaxConn = 3
  Keep = 1
  RecordSlots = 2
  Member = {1, 2}
  Relay = {1}
  Slots = 1
  Cooldown = 1
SPECIFICATION FindsSpec
CHECK_DEADLOCK FALSE
PROPERTIES ScanSafety TalkersComeIn HintsSafety MisplacedIsTold
