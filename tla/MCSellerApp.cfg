SPECIFICATION FairSpec
CONSTANTS
    p1 = p1
    p2 = p2
    nobody = nobody
    Buyers <- TwoBuyers
    NoBuyer = nobody
    Suitable = {p1}
    MaxChurn = 6
    MaxStatus = 2
INVARIANTS
    NoStaleBuyer
    AskedOnce
PROPERTIES
    InvitingBuyerServed
