CONSTANTS
    Keys = {k1}
    Versions = {v1, v2}
    First = v1
    Off = Off
    Clients = {x1, x2}
    Lives = {l1, l2}
    Agents = {a1}
    Worker = Worker
    Closer = Closer
    None = None
    MaxEdits = 2
    MaxBreaks = 1
SPECIFICATION FirstSpec
INVARIANTS NoLeakedClient FollowsConfig
PROPERTIES RegisteredRecovers
CHECK_DEADLOCK FALSE
