SPECIFICATION WindowSpec
CONSTANTS
    Member = {m1, m2}
    Leader = leader
    NoNode = none
    MaxMembers = 2
    HeartbeatTimeout = 1
    HeartbeatInterval = 1
INVARIANT WindowKeepsExisting
