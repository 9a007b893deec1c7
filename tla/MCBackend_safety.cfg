SPECIFICATION Spec
CONSTANTS
    a1 = a1
    a2 = a2
    a3 = a3
    b1 = b1
    b2 = b2
    u1 = u1
    Components <- TheComponents
    People = {b1, b2}
    Clips = {v1}
    Remarks = {m1}
    Calls = {a1, a2, a3}
    MaxEngFaults = 1
    Folks = {a1, a2, a3}
    Talks = {b1, b2}
    Taps = {a1, a2, a3}
    MaxDMFaults = 1
    Viewers = {b1, b2}
    Rooms = {r1, r2}
    SendBuffer = 1
    MaxChats = 2
    MayEnd = TRUE
    Staff = {a1, a2, a3}
    MaxStreamFaults = 1
    Watchers = {b1, b2}
    Audience = {u1}
    UserOf <- TheUser
    MaxViewFaults = 1
    ConvCalls = {a1, a2, a3}
    Partners = {b1, b2}
    PageSize = 1
    MaxConvFaults = 1
INVARIANTS
    TypesOK
    DeedsAreCounted
    ConversationsAreTrue
    RoomsServeTheirViewers
    StreamsAreServed
SYMMETRY Symmetry
CHECK_DEADLOCK FALSE
