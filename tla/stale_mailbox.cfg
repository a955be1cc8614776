SPECIFICATION Spec
CONSTANTS
    p1 = p1
    p2 = p2
    p3 = p3
    Peers = {p1, p2, p3}
    Fresh = {}
    InRoom <- Trio
    MaxPlayers = 3
    MaxGames = 2
    MaxQueue = 1
    MaxQuits = 1
INVARIANTS
    OnlyRealDesync
CHECK_DEADLOCK FALSE
