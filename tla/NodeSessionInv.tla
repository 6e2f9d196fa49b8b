--------------------------- MODULE NodeSessionInv ---------------------------
(***************************************************************************)
(* The inductive invariant behind the safety properties of NodeSession:    *)
(* what the torrents map, the alerts on their way and the libtorrent       *)
(* session know of one another at every moment.  TLC checks it, and        *)
(* NodeSessionProofs proves it.                                            *)
(***************************************************************************)
EXTENDS NodeSession

(* An alert that implies what the session held when it was posted.         *)
IsClaim(a) ==
    \/ a.type = "add_result" /\ a.ok
    \/ a.type = "remove_result"
    \/ a.type \in {"event", "status"} /\ a.current

(* The torrent of its info hash that it implies: none after a removal.     *)
Claimed(a) == IF a.type = "remove_result" THEN NoHandle ELSE a.handle

-----------------------------------------------------------------------------
(* What holds whatever alerts are lost.                                    *)

(* A torrent in the session is the last one created for its info hash.     *)
SessionIsNewest ==
    \A x \in InfoHash : libtorrent[x] # NoHandle =>
        /\ libtorrent[x] \in alive
        /\ handles[libtorrent[x]] = x
        /\ \A g \in Handle : handles[g] = x => g <= libtorrent[x]

(* Alerts and map entries name a torrent under its own info hash.          *)
AlertsNameTheirTorrent ==
    \A i \in 1 .. Len(alerts) :
        \/ \E x \in InfoHash : IsMembership(alerts[i], x)
        \/ IsClaim(alerts[i]) /\ Claimed(alerts[i]) # NoHandle
        => /\ alerts[i].handle \in Handle
           /\ handles[alerts[i].handle] = alerts[i].infoHash

MapNamesItsTorrents ==
    \A x \in InfoHash :
        IF torrents[x].handle = NoHandle
        THEN torrents[x] = NoTorrent
        ELSE torrents[x].handle \in Handle /\ handles[torrents[x].handle] = x

(* Alerts about the torrents of one info hash come in the order of their   *)
(* creation, and none about a torrent comes after its removal.             *)
AlertsInOrder ==
    \A x \in InfoHash : \A i, j \in 1 .. Len(alerts) :
        /\ i < j
        /\ IsMembership(alerts[i], x)
        /\ IsMembership(alerts[j], x)
        =>
            /\ alerts[i].handle <= alerts[j].handle
            /\ IsRemoved(alerts[i], x) => alerts[i].handle < alerts[j].handle

(* The map is never ahead of the alerts.                                   *)
MapBehindAlerts ==
    \A x \in InfoHash : \A i \in 1 .. Len(alerts) :
        IsMembership(alerts[i], x) => torrents[x].handle <= alerts[i].handle

(* A torrent whose removal was announced is not in the session.            *)
RemovedIsGone ==
    \A x \in InfoHash : \A i \in 1 .. Len(alerts) :
        IsRemoved(alerts[i], x) => libtorrent[x] # alerts[i].handle

(* A handler cut at a read is at the alert it was called for.              *)
HandlerHasItsAlert ==
    /\ pc = "construct" =>
           /\ Head(alerts).type = "add_torrent"
           /\ Head(alerts).ok
           /\ ~Has(Head(alerts).infoHash)
    /\ pc = "resolve" => Head(alerts).type = "add_result" /\ Head(alerts).ok

Order ==
    /\ SessionIsNewest
    /\ AlertsNameTheirTorrent
    /\ MapNamesItsTorrents
    /\ AlertsInOrder
    /\ MapBehindAlerts
    /\ RemovedIsGone
    /\ HandlerHasItsAlert

-----------------------------------------------------------------------------
(* What holds as long as no alert is lost.                                 *)

(* Once the alerts before position n are processed, the map will hold the  *)
(* torrent c of x, or, if it was freed by then, c or none.                 *)
Agrees(x, c, n) ==
    /\ c \in alive =>
           \/ torrents[x].handle = c
           \/ \E i \in 1 .. n - 1 : IsAdded(alerts[i], x) /\ alerts[i].handle = c
    /\ torrents[x].handle \notin {NoHandle, c} =>
           \E j \in 1 .. n - 1 :
               IsRemoved(alerts[j], x) /\ alerts[j].handle = torrents[x].handle
    /\ \A i \in 1 .. n - 1 : IsAdded(alerts[i], x) /\ alerts[i].handle # c =>
           \E j \in i + 1 .. n - 1 :
               IsRemoved(alerts[j], x) /\ alerts[j].handle = alerts[i].handle
    /\ \A j \in 1 .. n - 1 : IsMembership(alerts[j], x) /\ c # NoHandle =>
           /\ alerts[j].handle <= c
           /\ IsRemoved(alerts[j], x) => alerts[j].handle # c

(* The map will agree with the session, and, when it comes to an alert     *)
(* that implies something of the session, with that.                       *)
Complete ==
    ~lost =>
        /\ \A x \in InfoHash : Agrees(x, libtorrent[x], Len(alerts) + 1)
        /\ \A i \in 1 .. Len(alerts) :
               IsClaim(alerts[i]) => Agrees(alerts[i].infoHash, Claimed(alerts[i]), i)

IInv == TypeOK /\ Order /\ Complete

=============================================================================
