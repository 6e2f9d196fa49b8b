---------------------------- MODULE PeerDiscovery ----------------------------
(***************************************************************************)
(* Assisted peer discovery of lib/Session.js: each torrent has a second    *)
(* info hash, under which the session announces itself to the DHT and asks *)
(* for peers, when the torrent is added and from timers.  What it          *)
(* announces is the UDP port that libtorrent's port mapping told it last.  *)
(***************************************************************************)
EXTENDS Integers, Sequences, FiniteSets

CONSTANTS
    Torrents,     \* info hashes
    UdpPorts,     \* external ports a router may map libtorrent's UDP port to
    TcpPorts,     \* external ports of TCP mappings
    LocalPort,    \* the port libtorrent listens on
    None,         \* no port
    MaxAlerts     \* bound: alerts about ports waiting

ASSUME PortsAssumption ==
    /\ UdpPorts \intersect TcpPorts = {}
    /\ LocalPort \notin UdpPorts \union TcpPorts
    /\ None \notin UdpPorts \union TcpPorts \union {LocalPort}
ASSUME MaxAlertsAssumption == MaxAlerts \in Nat

VARIABLES
    torrents,               \* JavaScript: the torrents map
    torrentsBySecondaryHash,\* JavaScript: the torrents found by second hash
    externalUdpPort,        \* JavaScript: _externalUdpPort
    alerts,                 \* alerts about ports and replies of the DHT
    mapping,                \* the router: where it maps the UDP port from
    dht,                    \* the DHT: announcements it remembers
    asked                   \* the DHT: requests for peers it has not answered

js == <<torrents, torrentsBySecondaryHash, externalUdpPort>>

vars == <<js, alerts, mapping, dht, asked>>

Announcement == [torrent : Torrents, port : UdpPorts \union TcpPorts \union {LocalPort}]

Alert == [type : {"portmap"}, protocol : {"UDP", "TCP"}, port : UdpPorts \union TcpPorts]
           \union [type : {"portmap_error"}]
           \union [type : {"dht_get_peers_reply"}, torrent : Torrents]

TypeOK ==
    /\ torrents \subseteq Torrents
    /\ torrentsBySecondaryHash \subseteq Torrents
    /\ externalUdpPort \in UdpPorts \union TcpPorts \union {None}
    /\ alerts \in Seq(Alert)
    /\ mapping \in UdpPorts \union {None}
    /\ dht \subseteq Announcement
    /\ asked \subseteq Torrents

-----------------------------------------------------------------------------
(* JavaScript.                                                             *)

PortToAnnounce == IF externalUdpPort # None THEN externalUdpPort ELSE LocalPort

DhtAnnounce(hashes) ==
    dht' = dht \union {[torrent |-> t, port |-> PortToAnnounce] : t \in hashes}

DhtGetPeers(hashes) == asked' = asked \union hashes

(* The add_torrent alert of a torrent that is not in the map yet.          *)
AddTorrent(t) ==
    /\ t \notin torrents
    /\ torrents' = torrents \union {t}
    /\ torrentsBySecondaryHash' = torrentsBySecondaryHash \union {t}
    /\ DhtAnnounce({t})
    /\ DhtGetPeers({t})
    /\ UNCHANGED <<externalUdpPort, alerts, mapping>>

ForgetTorrent_keepsIndex(t) ==
    /\ torrents' = torrents \ {t}
    /\ UNCHANGED torrentsBySecondaryHash

ForgetTorrent(t) ==
    /\ torrents' = torrents \ {t}
    /\ torrentsBySecondaryHash' = torrentsBySecondaryHash \ {t}

RemoveTorrent(t) ==
    /\ t \in torrents
    /\ ForgetTorrent(t)
    /\ UNCHANGED <<externalUdpPort, alerts, mapping, dht, asked>>

(* The two timers.                                                         *)
AnnounceAll_unlessMapped ==
    /\ externalUdpPort = None
    /\ DhtAnnounce(torrentsBySecondaryHash)
    /\ UNCHANGED <<js, alerts, mapping, asked>>

AnnounceAll ==
    /\ DhtAnnounce(torrentsBySecondaryHash)
    /\ UNCHANGED <<js, alerts, mapping, asked>>

GetPeersOfAll ==
    /\ DhtGetPeers(torrentsBySecondaryHash)
    /\ UNCHANGED <<js, alerts, mapping, dht>>

Handling(type) ==
    /\ alerts # <<>>
    /\ Head(alerts).type = type
    /\ alerts' = Tail(alerts)
    /\ UNCHANGED <<torrents, torrentsBySecondaryHash, mapping, dht, asked>>

PortMapAlert_firstOnly ==
    /\ Handling("portmap")
    /\ externalUdpPort' = IF Head(alerts).protocol = "UDP" /\ externalUdpPort = None
                          THEN Head(alerts).port ELSE externalUdpPort

PortMapAlert_anyProtocol ==
    /\ Handling("portmap")
    /\ externalUdpPort' = Head(alerts).port

PortMapAlert ==
    /\ Handling("portmap")
    /\ externalUdpPort' = IF Head(alerts).protocol = "UDP"
                          THEN Head(alerts).port ELSE externalUdpPort

PortMapErrorAlert ==
    /\ Handling("portmap_error")
    /\ UNCHANGED externalUdpPort

(* The peers reach a torrent that is still in both maps.                   *)
ReachesTorrent_unlessIndexed(t) == t \in torrents \ torrentsBySecondaryHash

ReachesTorrent(t) == t \in torrentsBySecondaryHash /\ t \in torrents

ReplyToTorrent(t) ==
    /\ Handling("dht_get_peers_reply")
    /\ Head(alerts).torrent = t
    /\ ReachesTorrent(t)
    /\ UNCHANGED externalUdpPort

ReplyToNobody ==
    /\ Handling("dht_get_peers_reply")
    /\ ~ReachesTorrent(Head(alerts).torrent)
    /\ UNCHANGED externalUdpPort

HandleAlert ==
    \/ PortMapAlert \/ PortMapErrorAlert
    \/ ReplyToNobody \/ \E t \in Torrents : ReplyToTorrent(t)

-----------------------------------------------------------------------------
(* libtorrent, the router and the DHT.                                     *)

Waiting(types) == {i \in DOMAIN alerts : alerts[i].type \in types}

PostAboutPort(alert) ==
    /\ Cardinality(Waiting({"portmap", "portmap_error"})) < MaxAlerts
    /\ alerts' = Append(alerts, alert)
    /\ UNCHANGED <<js, dht, asked>>

MapUdpPort(port) ==
    /\ mapping' = port
    /\ PostAboutPort([type |-> "portmap", protocol |-> "UDP", port |-> port])

MapTcpPort(port) ==
    /\ PostAboutPort([type |-> "portmap", protocol |-> "TCP", port |-> port])
    /\ UNCHANGED mapping

(* A mapping is refused, or not renewed.                                   *)
MappingFails ==
    /\ mapping' = None
    /\ PostAboutPort([type |-> "portmap_error"])

(* Bound: one reply about a torrent waits at a time.                       *)
Reply(t) ==
    /\ t \in asked
    /\ \A i \in Waiting({"dht_get_peers_reply"}) : alerts[i].torrent # t
    /\ asked' = asked \ {t}
    /\ alerts' = Append(alerts, [type |-> "dht_get_peers_reply", torrent |-> t])
    /\ UNCHANGED <<js, mapping, dht>>

NoReply(t) ==
    /\ t \in asked
    /\ asked' = asked \ {t}
    /\ UNCHANGED <<js, alerts, mapping, dht>>

Expire(announcement) ==
    /\ announcement \in dht
    /\ dht' = dht \ {announcement}
    /\ UNCHANGED <<js, alerts, mapping, asked>>

-----------------------------------------------------------------------------

Init ==
    /\ torrents = {}
    /\ torrentsBySecondaryHash = {}
    /\ externalUdpPort = None
    /\ alerts = <<>>
    /\ mapping = None
    /\ dht = {}
    /\ asked = {}

Network ==
    \/ \E port \in UdpPorts : MapUdpPort(port)
    \/ \E port \in TcpPorts : MapTcpPort(port)
    \/ MappingFails
    \/ \E t \in Torrents : Reply(t) \/ NoReply(t)
    \/ \E announcement \in Announcement : Expire(announcement)

Next ==
    \/ \E t \in Torrents : AddTorrent(t) \/ RemoveTorrent(t)
    \/ AnnounceAll \/ GetPeersOfAll \/ HandleAlert
    \/ Network

Spec == Init /\ [][Next]_vars

(* The timers fire, alerts are handled, the DHT forgets what is not        *)
(* announced again and answers some of the requests that are repeated.     *)
Fairness ==
    /\ WF_vars(AnnounceAll)
    /\ WF_vars(GetPeersOfAll)
    /\ WF_vars(HandleAlert)
    /\ \A announcement \in Announcement : WF_vars(Expire(announcement))
    /\ \A t \in Torrents : SF_vars(Reply(t))

FairSpec == Spec /\ Fairness

-----------------------------------------------------------------------------

(***************************************************************************)
(* Who comes by the DHT comes to a port that takes UDP: one of a UDP       *)
(* mapping or the port listened on, never that of a TCP mapping.           *)
(***************************************************************************)
AnnouncedPortTakesUdp == \A a \in dht : a.port \in UdpPorts \union {LocalPort}

(***************************************************************************)
(* "Announce the successfully mapped port or the local listening port":    *)
(* once the alerts about ports are handled, what dhtAnnounce announces is  *)
(* one or the other.                                                       *)
(***************************************************************************)
AnnouncesMappedPort ==
    Waiting({"portmap", "portmap_error"}) = {}
        => PortToAnnounce \in {mapping, LocalPort}

Announced(t) == {a \in dht : a.torrent = t}

(***************************************************************************)
(* A torrent that stays is announced again whenever the DHT forgets it.    *)
(***************************************************************************)
StaysFindable ==
    \A t \in Torrents : <>[](t \in torrents) => []<>(Announced(t) # {})

(***************************************************************************)
(* A torrent that is gone for good disappears from the DHT for good.       *)
(***************************************************************************)
GoneIsForgotten ==
    \A t \in Torrents : <>[](t \notin torrents) => <>[](Announced(t) = {})

(***************************************************************************)
(* Once the router keeps a mapping only its port remains announced.        *)
(***************************************************************************)
NewPortWins ==
    \A p \in UdpPorts : <>[](mapping = p) => <>[](\A a \in dht : a.port = p)

(***************************************************************************)
(* A torrent that stays is told of peers again and again.                  *)
(***************************************************************************)
PeersKeepComing ==
    \A t \in Torrents : <>[](t \in torrents) => []<><<ReplyToTorrent(t)>>_vars

=============================================================================
