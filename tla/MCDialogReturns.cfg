SPECIFICATION FairSpec
CONSTANTS
    c1 = c1
    c2 = c2
    p1 = p1
    p2 = p2
    o1 = o1
    NULL = NULL
    Checkouts = {c1}
    Posts = {p1}
    OtherPosts = {o1}
    MaxVersion = 3
    MaxFaults = 1
    UpsetSets = {{"expiry", "late"}}
PROPERTIES
    SubmissionEnds
    PaymentIsShown
CHECK_DEADLOCK FALSE
