SPECIFICATION Spec
CONSTANTS
    alice = alice
    bob = bob
    kBuy = kBuy
    kGift = kGift
    kBack = kBack
    kTip = kTip
    kSub = kSub
    kOut = kOut
    Nobody = Nobody
    Users = {alice, bob}
    Keys = {kBuy, kGift, kBack, kTip, kSub, kOut}
    Requests = {r1, r2, r3}
    Intent <- MCIntent
    SharePercent = 50
    Opening <- OnlyBobOpen
    OpeningCoins <- ThreeCoins
    OpeningDiamonds <- OneDiamond
    PoolSize = 3
INVARIANTS
    TypeOK
    AccountsAreSafe
    BooksAgree
PROPERTIES
    ImplementsCoinLedger
SYMMETRY RequestSymmetry
CHECK_DEADLOCK FALSE
