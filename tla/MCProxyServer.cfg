CONSTANTS
    Keys = {k1}
    Vals = {v1, v2}
    Absent = Absent
    NoId = NoId
    Clients = {c1, c2, c3}
    NumUrls = 3
    ReplicaCallsMayFail = TRUE
    ResponsesMayBeLost = TRUE
    NumServers = 2
    MemberLists <- MCMemberLists
    MaxLog = 2
    CallersKeepIds = FALSE

SYMMETRY MCSymmetry
SPECIFICATION Spec
INVARIANT TypeOK
INVARIANT SessionIdsDistinct
PROPERTY LogRecordsExactlySuccesses
