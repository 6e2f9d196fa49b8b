SPECIFICATION Spec
CONSTANTS
    x1 = x1
    x2 = x2
    zeros = zeros
    InfoHash = {x1}
    EmptyInfoHash = zeros
    Assisted = TRUE
    UserThrows = FALSE
    UncaughtIsFatal = TRUE
    AlertLimit = 10
    MaxTorrents = 1
    MaxRequests = 1
    MaxPending = 1
INVARIANTS
    AssertHolds
CHECK_DEADLOCK FALSE
