SPECIFICATION FairSpec
CONSTANTS
    checking = checking
    downloading = downloading
    seeding = seeding
    State = {checking, downloading, seeding}
    Initial = checking
    Waits <- BuyerWaits
    MaxPending = 3
INVARIANTS
    NoLostWakeup
    CalledOnce
PROPERTIES
    StableStateNoticed
