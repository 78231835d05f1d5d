CONSTANTS
    Member = {1, 2}
    Net = {1, 2}
    MayFail = TRUE
    Overlap = TRUE
SPECIFICATION RoleFairSpec
INVARIANTS RoleSafety
PROPERTIES RoleSticks QueueIsFreed
