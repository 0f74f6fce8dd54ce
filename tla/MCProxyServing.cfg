CONSTANTS
    Keys = {k1}
    Vals = {v1}
    Absent = Absent
    NumUrls = 3
    ReplicaCallsMayFail = TRUE
    ResponsesMayBeLost = TRUE
    NumServers = 2
    MemberLists <- MCMemberLists
    IdLists <- MCIdLists
    Hanging = {}

SPECIFICATION Spec
INVARIANT TypeOK
PROPERTY RequestsAnswered CommandsAnswered
