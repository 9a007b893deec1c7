SPECIFICATION Spec
CONSTANTS
    alice = alice
    bob = bob
    a1 = a1
    a2 = a2
    b1 = b1
    chat = chat
    team = team
    Hub = Hub
    Nobody = Nobody
    Users = {alice, bob}
    Conns = {a1, a2, b1}
    Owner <- OwnerOf
    Convs = {chat}
    OpeningMembers <- BothTakePart
    Changes <- NoChanges
    Pingers = {}
    Typists = {}
    Lossy = {a1}
    PageSize = 1
    MayRestart = FALSE
    Posts = 1
    SendBufferSize = 1
    RegisterCap = 3
    UnregisterCap = 3
    BroadcastCap = 1
PROPERTY
    UnregisterIsSafe
CHECK_DEADLOCK FALSE
