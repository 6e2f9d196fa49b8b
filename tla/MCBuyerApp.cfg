SPECIFICATION FairSpec
CONSTANTS
    p1 = p1
    p2 = p2
    nobody = nobody
    Seller = {p1, p2}
    NoSeller = nobody
    Suitable = {p1, p2}
    MaxChurn = 9
    MaxStatus = 2
INVARIANTS
    LooksOnlyWhenIdle
    NeverStuck
PROPERTIES
    BuysFromReadySeller
