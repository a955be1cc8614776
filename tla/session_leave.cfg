SPECIFICATION Spec
CONSTANTS
    p1 = p1
    p2 = p2
    p3 = p3
    Peers = {p1, p2, p3}
    Fresh = {}
    InRoom <- Pair
    MaxPlayers = 3
    MaxGames = 2
    MaxQueue = 0
    MaxQuits = 1
CHECK_DEADLOCK FALSE
INVARIANTS
    SessionSound
