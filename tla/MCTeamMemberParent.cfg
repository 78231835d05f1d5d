SPECIFICATION MemberSpec
CONSTANTS
    Member = {m1, r1}
    Device = {m1}
    Leader = leader
    NoNode = none
    LeaderTimeout = 1
    ParentTimeout = 1
    HelloInterval = 1
    BeatInterval = 1
INVARIANT ParentIsPhysical
