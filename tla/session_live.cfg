SPECIFICATION FairSpec
CONSTANTS
    p1 = p1
    p2 = p2
    p3 = p3
    Peers = {p1, p2, p3}
    Fresh = {p3}
    InRoom <- Pair
    MaxPlayers = 2
    MaxGames = 1
    MaxQueue = 1
    MaxQuits = 1
INVARIANTS
    SessionSound
    StateFollowsLink
PROPERTIES
    StartReachesAll
    LeavesGame
CHECK_DEADLOCK FALSE
