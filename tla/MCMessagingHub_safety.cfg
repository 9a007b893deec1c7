SPECIFICATION Spec
ACTION_CONSTRAINT InScenario
CONSTANTS
    alice = alice
    bob = bob
    a1 = a1
    a2 = a2
    b1 = b1
    chat = chat
    team = team
    Hub = Hub
    Nobody = Nobody
    Users = {alice, bob}
    Conns = {a1, a2, b1}
    Owner <- OwnerOf
    Convs = {chat, team}
    OpeningMembers <- BothTakePart
    Changes <- AliceJoins
    Pingers = {a2}
    Typists = {a1}
    Lossy = {a1, a2, b1}
    PageSize = 1
    MayRestart = TRUE
    Posts = 2
    SendBufferSize = 1
    RegisterCap = 1
    UnregisterCap = 1
    BroadcastCap = 2
INVARIANTS
    TypeOK
    RoutesAgree
    HeardInOrderOnce
    SubscribersAreServed
CHECK_DEADLOCK FALSE
