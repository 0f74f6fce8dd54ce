CONSTANTS
    Keys = {k1}
    Vals = {v1}
    Absent = Absent
    NumUrls = 3
    ReplicaCallsMayFail = TRUE
    ResponsesMayBeLost = FALSE
    NumServers = 2
    MemberLists <- MCMemberLists
    IdLists <- MCIdLists
    Hanging = {2}

SPECIFICATION Spec
PROPERTY CommandsTakenUp
CHECK_DEADLOCK FALSE
