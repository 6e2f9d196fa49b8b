SPECIFICATION FairSpec
CONSTANTS
    Torrents = {t1}
    UdpPorts = {u1, u2}
    TcpPorts = {c1}
    LocalPort = local
    None = None
    MaxAlerts = 2
INVARIANTS
    AnnouncedPortTakesUdp
PROPERTIES
    StaysFindable
    GoneIsForgotten
    NewPortWins
    PeersKeepComing
