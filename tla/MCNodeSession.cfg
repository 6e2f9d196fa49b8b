SPECIFICATION FairSpec
CONSTANTS
    x1 = x1
    x2 = x2
    zeros = zeros
    InfoHash = {x1}
    EmptyInfoHash = zeros
    Assisted = FALSE
    UserThrows = TRUE
    UncaughtIsFatal = FALSE
    AlertLimit = 4
    MaxTorrents = 2
    MaxRequests = 2
    MaxPending = 2
INVARIANTS
    IInv
    ViewIsExact
    AddedTorrentIsRegistered
    RemoveCallbackSeesNoTorrent
    EventFindsItsTorrent
    CallbacksOwedInOrder
PROPERTIES
    SessionTorrentNeverDropped
    ImplementsReplica
    CallbackFires
    ViewCatchesUp
