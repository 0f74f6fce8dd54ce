CONSTANTS
    Keys = {k1}
    Vals = {v1}
    Absent = Absent
    NoId = NoId
    Clients = {c1, c2}
    NumUrls = 3
    ReplicaCallsMayFail = FALSE
    ResponsesMayBeLost = TRUE
    NumServers = 2
    MemberLists <- MCMemberLists
    MaxLog = 2
    CallersKeepIds = FALSE

SYMMETRY MCSymmetry
SPECIFICATION Spec
PROPERTY FailedWriteChangesNothing
