------------------------ MODULE PeerDiscoveryProofs ------------------------
(***************************************************************************)
(* What the session announces to the DHT, for any torrents, ports and any  *)
(* number of alerts waiting: never the port of a TCP mapping.              *)
(***************************************************************************)
EXTENDS PeerDiscovery, SequenceTheorems, TLAPS

(* What alerts say of UDP is about UDP ports.                              *)
UdpAlertsTellUdpPorts ==
    \A i \in DOMAIN alerts :
        alerts[i].type = "portmap" /\ alerts[i].protocol = "UDP"
            => alerts[i].port \in UdpPorts

(* The port kept is the one of a UDP mapping, so those announced take UDP. *)
KeepsUdpPort == externalUdpPort \in UdpPorts \union {None}

DiscoveryInv ==
    TypeOK /\ UdpAlertsTellUdpPorts /\ KeepsUdpPort /\ AnnouncedPortTakesUdp

LEMMA InitDiscoveryInv == Init => DiscoveryInv
  BY DEF Init, DiscoveryInv, TypeOK, UdpAlertsTellUdpPorts, KeepsUdpPort,
         AnnouncedPortTakesUdp

(* The first alert is handled.                                             *)
LEMMA AlertPopped ==
    ASSUME alerts \in Seq(Alert), alerts # <<>>, alerts' = Tail(alerts),
           UdpAlertsTellUdpPorts
    PROVE  /\ alerts' \in Seq(Alert)
           /\ UdpAlertsTellUdpPorts'
           /\ Head(alerts) \in Alert
           /\ Head(alerts).type = "portmap" /\ Head(alerts).protocol = "UDP"
                => Head(alerts).port \in UdpPorts
<1>1. alerts' \in Seq(Alert) /\ Head(alerts) \in Alert
    BY HeadTailProperties
<1>2. /\ Len(alerts') = Len(alerts) - 1
      /\ \A i \in 1 .. Len(alerts') : alerts'[i] = alerts[i + 1]
    BY HeadTailProperties
<1>3. Head(alerts) = alerts[1] /\ 1 \in DOMAIN alerts
    OBVIOUS
<1>4. \A i \in DOMAIN alerts' : i + 1 \in DOMAIN alerts /\ alerts'[i] = alerts[i + 1]
    BY <1>1, <1>2
<1> QED
    BY <1>1, <1>3, <1>4 DEF UdpAlertsTellUdpPorts

(* An alert is posted.                                                     *)
LEMMA AlertPosted ==
    ASSUME NEW a \in Alert, alerts \in Seq(Alert), alerts' = Append(alerts, a),
           UdpAlertsTellUdpPorts,
           a.type = "portmap" /\ a.protocol = "UDP" => a.port \in UdpPorts
    PROVE  alerts' \in Seq(Alert) /\ UdpAlertsTellUdpPorts'
<1>1. alerts' \in Seq(Alert)
    OBVIOUS
<1>2. \A i \in DOMAIN alerts' :
          \/ i \in DOMAIN alerts /\ alerts'[i] = alerts[i]
          \/ alerts'[i] = a
    BY AppendProperties
<1> QED
    BY <1>1, <1>2 DEF UdpAlertsTellUdpPorts

(* Announcements are made with the port kept, or else the one listened on. *)
LEMMA AnnouncesPort ==
    ASSUME KeepsUdpPort, AnnouncedPortTakesUdp, dht \subseteq Announcement,
           NEW hashes, hashes \subseteq Torrents, DhtAnnounce(hashes)
    PROVE  dht' \subseteq Announcement /\ AnnouncedPortTakesUdp'
<1>1. PortToAnnounce \in UdpPorts \union {LocalPort}
    BY DEF KeepsUdpPort, PortToAnnounce
<1> QED
    BY <1>1 DEF DhtAnnounce, Announcement, AnnouncedPortTakesUdp

LEMMA NextDiscoveryInv == DiscoveryInv /\ [Next]_(vars) => DiscoveryInv'
<1> SUFFICES ASSUME DiscoveryInv, [Next]_(vars) PROVE DiscoveryInv'
    OBVIOUS
<1> USE DEF DiscoveryInv
<1>0. CASE UNCHANGED vars
    BY <1>0 DEF vars, js, TypeOK, UdpAlertsTellUdpPorts, KeepsUdpPort,
                AnnouncedPortTakesUdp
<1>1. ASSUME NEW t \in Torrents, AddTorrent(t)
      PROVE  DiscoveryInv'
  <2>1. dht' \subseteq Announcement /\ AnnouncedPortTakesUdp'
      BY <1>1, AnnouncesPort DEF AddTorrent, TypeOK
  <2> QED
      BY <1>1, <2>1 DEF AddTorrent, DhtGetPeers, TypeOK,
                         UdpAlertsTellUdpPorts, KeepsUdpPort
<1>2. ASSUME NEW t \in Torrents, RemoveTorrent(t)
      PROVE  DiscoveryInv'
    BY <1>2 DEF RemoveTorrent, ForgetTorrent, TypeOK, UdpAlertsTellUdpPorts,
                KeepsUdpPort, AnnouncedPortTakesUdp
<1>3. CASE AnnounceAll
  <2>1. dht' \subseteq Announcement /\ AnnouncedPortTakesUdp'
      BY <1>3, AnnouncesPort DEF AnnounceAll, TypeOK
  <2> QED
      BY <1>3, <2>1 DEF AnnounceAll, js, TypeOK,
                         UdpAlertsTellUdpPorts, KeepsUdpPort
<1>4. CASE GetPeersOfAll
    BY <1>4 DEF GetPeersOfAll, DhtGetPeers, js, TypeOK, UdpAlertsTellUdpPorts,
                KeepsUdpPort, AnnouncedPortTakesUdp
<1>5. CASE HandleAlert
  <2>1. \E type \in {"portmap", "portmap_error", "dht_get_peers_reply"} : Handling(type)
      BY <1>5 DEF HandleAlert, PortMapAlert, PortMapErrorAlert,
                  ReplyToNobody, ReplyToTorrent
  <2>2. /\ alerts # <<>> /\ alerts' = Tail(alerts)
        /\ UNCHANGED <<torrents, torrentsBySecondaryHash, mapping, dht, asked>>
      BY <2>1 DEF Handling
  <2>3. /\ alerts' \in Seq(Alert) /\ UdpAlertsTellUdpPorts'
        /\ Head(alerts).type = "portmap" /\ Head(alerts).protocol = "UDP"
             => Head(alerts).port \in UdpPorts
      BY <2>2, AlertPopped DEF TypeOK
  <2>4. externalUdpPort' \in UdpPorts \union {None}
      BY <1>5, <2>3 DEF HandleAlert, PortMapAlert, PortMapErrorAlert,
                         ReplyToNobody, ReplyToTorrent, Handling, KeepsUdpPort
  <2> QED
      BY <2>2, <2>3, <2>4 DEF TypeOK, KeepsUdpPort, AnnouncedPortTakesUdp
<1>6. ASSUME NEW a \in Alert, PostAboutPort(a), mapping' \in UdpPorts \union {None},
             a.type = "portmap" /\ a.protocol = "UDP" => a.port \in UdpPorts
      PROVE  DiscoveryInv'
  <2>1. alerts' \in Seq(Alert) /\ UdpAlertsTellUdpPorts'
      BY <1>6, AlertPosted DEF PostAboutPort, TypeOK
  <2> QED
      BY <1>6, <2>1 DEF PostAboutPort, js, TypeOK, KeepsUdpPort,
                         AnnouncedPortTakesUdp
<1>7. ASSUME NEW port \in UdpPorts, MapUdpPort(port)
      PROVE  DiscoveryInv'
  <2> DEFINE a == [type |-> "portmap", protocol |-> "UDP", port |-> port]
  <2>1. a \in Alert
      BY DEF Alert
  <2> QED
      BY <1>6, <1>7, <2>1 DEF MapUdpPort
<1>8. ASSUME NEW port \in TcpPorts, MapTcpPort(port)
      PROVE  DiscoveryInv'
  <2> DEFINE a == [type |-> "portmap", protocol |-> "TCP", port |-> port]
  <2>1. a \in Alert
      BY DEF Alert
  <2> QED
      BY <1>6, <1>8, <2>1 DEF MapTcpPort, TypeOK
<1>9. CASE MappingFails
  <2> DEFINE a == [type |-> "portmap_error"]
  <2>1. a \in Alert
      BY DEF Alert
  <2> QED
      BY <1>6, <1>9, <2>1 DEF MappingFails
<1>10. ASSUME NEW t \in Torrents, Reply(t)
       PROVE  DiscoveryInv'
  <2> DEFINE a == [type |-> "dht_get_peers_reply", torrent |-> t]
  <2>1. a \in Alert
      BY DEF Alert
  <2>2. alerts' \in Seq(Alert) /\ UdpAlertsTellUdpPorts'
      BY <1>10, <2>1, AlertPosted DEF Reply, TypeOK
  <2> QED
      BY <1>10, <2>2 DEF Reply, js, TypeOK, KeepsUdpPort, AnnouncedPortTakesUdp
<1>11. ASSUME NEW t \in Torrents, NoReply(t)
       PROVE  DiscoveryInv'
    BY <1>11 DEF NoReply, js, TypeOK, UdpAlertsTellUdpPorts, KeepsUdpPort,
                 AnnouncedPortTakesUdp
<1>12. ASSUME NEW announcement \in Announcement, Expire(announcement)
       PROVE  DiscoveryInv'
    BY <1>12 DEF Expire, js, TypeOK, UdpAlertsTellUdpPorts, KeepsUdpPort,
                 AnnouncedPortTakesUdp
<1> QED
    BY <1>0, <1>1, <1>2, <1>3, <1>4, <1>5, <1>7, <1>8, <1>9, <1>10, <1>11, <1>12
       DEF Next, Network

LEMMA DiscoveryInvariant == Spec => []DiscoveryInv
  BY InitDiscoveryInv, NextDiscoveryInv, PTL DEF Spec

(***************************************************************************)
(* The maps, the queue and the DHT have the types they should.             *)
(***************************************************************************)
THEOREM DiscoveryTypeCorrect == Spec => []TypeOK
<1>1. DiscoveryInv => TypeOK
    BY DEF DiscoveryInv
<1> QED
    BY <1>1, DiscoveryInvariant, PTL

(***************************************************************************)
(* _externalUdpPort is never the port of a TCP mapping, and so none is     *)
(* ever announced: _portMapAlert looks at the protocol.                    *)
(***************************************************************************)
THEOREM OnlyUdpPortsAnnounced == Spec => []AnnouncedPortTakesUdp
<1>1. DiscoveryInv => AnnouncedPortTakesUdp
    BY DEF DiscoveryInv
<1> QED
    BY <1>1, DiscoveryInvariant, PTL

=============================================================================
