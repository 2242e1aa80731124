SPECIFICATION Spec
CONSTANTS
    c1 = c1
    c2 = c2
    p1 = p1
    p2 = p2
    o1 = o1
    NULL = NULL
    Checkouts = {c1, c2}
    Posts = {p1, p2}
    OtherPosts = {o1}
    MaxVersion = 4
    MaxFaults = 1
    UpsetSets = {{"render"}, {"late"}, {"back", "quote", "stock", "slow", "render"}, {"read", "expiry"}}
CONSTRAINT Scope
SYMMETRY Symmetry
INVARIANTS
    TokenSentOnce
    AcceptedAsReviewed
    ReplayAsReviewed
    PaymentStaysReachable
    ShowsItsOwnPayment
CHECK_DEADLOCK FALSE
