SPECIFICATION Spec
ACTION_CONSTRAINT TwoAtATime
CONSTANTS
    ann = ann
    bob = bob
    s1 = s1
    s2 = s2
    pen = pen
    ink = ink
    None = None
    Buyers = {ann, bob}
    Sellers = {s1, s2}
    Products = {pen, ink}
    SellerOf <- SoldBy
    Stock <- OneEach
    Backorder = {}
    Requests = {r1, r2, r3}
    MaxFailures = 1
    InCart <- CartOf
INVARIANTS
    TypeOK
    ReservationsAreStocked
    StagesAreNotSkipped
    OrdersAreBackedWhenCalm
PROPERTIES
    TransitionsAreLegalWhenCalm
SYMMETRY RequestSymmetry
CHECK_DEADLOCK FALSE
