SPECIFICATION Spec
CONSTANTS
    a1 = a1
    a2 = a2
    a3 = a3
    b1 = b1
    b2 = b2
    k1 = k1
    k2 = k2
    Components <- TheComponents
    Members = {a1, a2, a3}
    Asks = {b1, b2}
    Duties <- GraphDuties
    MaxSuggestions = 1
    MaxGraphFaults = 1
    Attempts = {a1, a2, a3}
    PayKeys = {k1, k2, k3}
    KindOf <- PaymentKinds
    Cards = {b1, b2}
    MaxPayFaults = 1
    AuthCalls = {a1, a2, a3, q4}
    CalledMethods <- AllMethods
    MaxTrials = 1
    MaxAuthFaults = 1
    Senders = {a1, a2, a3, q4}
    TotalChunks = 2
    MaxUploadFaults = 1
    Editors = {b1, b2}
    MaxVideoFaults = 1
INVARIANTS
    TypesOK
    TheGraphIsRespected
    PaymentsAreTrue
    AccessIsEarned
    UploadsAreWhole
    VideosFollowTheirOwner
PROPERTY CredentialsStay
SYMMETRY Symmetry
CHECK_DEADLOCK FALSE
