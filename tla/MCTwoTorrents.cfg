SPECIFICATION Spec
CONSTANTS
    x1 = x1
    x2 = x2
    zeros = zeros
    InfoHash = {x1, x2}
    EmptyInfoHash = zeros
    Assisted = TRUE
    UserThrows = TRUE
    UncaughtIsFatal = TRUE
    AlertLimit = 3
    MaxTorrents = 3
    MaxRequests = 1
    MaxPending = 1
SYMMETRY Symmetry
INVARIANTS
    LiveTorrentReachable
    SecondaryPointsBack
CHECK_DEADLOCK FALSE
