SPECIFICATION FairSpec
CONSTANTS
    alice = alice
    bob = bob
    a1 = a1
    a2 = a2
    b1 = b1
    chat = chat
    team = team
    Hub = Hub
    Nobody = Nobody
    Users = {alice, bob}
    Conns = {a1, b1}
    Owner <- OwnerOf
    Convs = {chat}
    OpeningMembers <- BothTakePart
    Changes <- NoChanges
    Pingers = {}
    Typists = {}
    Lossy = {}
    PageSize = 1
    MayRestart = FALSE
    Posts = 2
    SendBufferSize = 1
    RegisterCap = 1
    UnregisterCap = 4
    BroadcastCap = 1
PROPERTIES
    ConnectionsEnd
    BroadcastsAreTaken
CHECK_DEADLOCK FALSE
