SPECIFICATION LeaderSpec
CONSTANTS
    Member = {m1, m2, m3}
    Leader = leader
    NoNode = none
    MaxMembers = 2
    HeartbeatTimeout = 1
    HeartbeatInterval = 1
SYMMETRY Symmetric
INVARIANTS
    LeaderTypeOK
    NoGhosts
    WithinCapacity
    FastRejoin
    ConfigTellsTable
PROPERTIES
    PairingSealsKnown
    PendingUntilTold
