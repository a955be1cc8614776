SPECIFICATION FairSpec
CONSTANTS
    Systems = {audio, splash, network, game}
    Null = Null
    Reserved = 4
    Plain = 6
    MaxRows = 5
    MaxGames = 2
    Capacity = 2
    MaxSent = 4
    Intro = 4
    Second = 2
    Period = 3
    Latency = 2
    MaxChains = 2
INVARIANTS
    RegistrySound
    DbSound
    LoaderSound
    
PROPERTIES
    ImplementsSet
    LoadingEnds
    ImplementsFifo
    EverythingArrives
    FollowerStarts
CHECK_DEADLOCK FALSE
