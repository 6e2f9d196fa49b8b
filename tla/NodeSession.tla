----------------------------- MODULE NodeSession -----------------------------
(***************************************************************************)
(* The torrents of a joystream-node session: class Session of              *)
(* lib/Session.js in the JavaScript thread, the libtorrent session and the *)
(* plugin's request queue in the network thread, and the alert queue that  *)
(* is the only way from the second to the first.                           *)
(*                                                                         *)
(* JavaScript runs one handler at a time, but the network thread runs      *)
(* beside it: it may change the session, and free a torrent whose handle   *)
(* JavaScript holds, between any two reads of that handle.  A handler that *)
(* reads a handle more than once is therefore cut at each read (pc).       *)
(***************************************************************************)
EXTENDS Integers, Sequences

CONSTANTS
    InfoHash,        \* the info hashes of the torrents users may add
    EmptyInfoHash,   \* the hash a handle answers once its torrent is freed
    Assisted,        \* the option assistedPeerDiscovery of the constructor
    UserThrows,      \* a listener or a callback of the user may throw
    UncaughtIsFatal, \* an uncaught exception may end the process (plain node)
    AlertLimit,      \* libtorrent's alert queue limit
    MaxTorrents,     \* bound: torrents ever created in the libtorrent session
    MaxRequests,     \* bound: requests ever submitted by the user
    MaxPending       \* bound: no optional alert beyond this many in the queue

ASSUME EmptyInfoHashAssumption == EmptyInfoHash \notin InfoHash
ASSUME OptionsAssumption == {Assisted, UserThrows, UncaughtIsFatal} \subseteq BOOLEAN
ASSUME AlertLimitAssumption == AlertLimit \in Nat \ {0}
ASSUME BoundsAssumption == {MaxTorrents, MaxRequests, MaxPending} \subseteq Nat

VARIABLES
    handles,         \* network: the info hash of each torrent ever created;
                     \* its position is the handle that libtorrent hands out
    alive,           \* network: the handles whose torrent is not freed yet
    libtorrent,      \* network: the torrent of each info hash in the session
    requests,        \* plugin: requests submitted and not yet processed
    alerts,          \* the popped batch, then libtorrent's alert queue
    batch,           \* how many of the alerts JavaScript has popped already
    pc,              \* JavaScript: the handler the first alert has reached
    torrents,        \* JavaScript: Session.torrents
    bySecondary,     \* JavaScript: Session.torrentsBySecondaryHash
    callbacks,       \* JavaScript: what became of each request's callback
    lost             \* history: TRUE once some alert was never processed

networkVars == <<handles, alive, libtorrent>>
mapVars     == <<torrents, bySecondary>>
vars == <<networkVars, requests, alerts, batch, pc, mapVars, callbacks, lost>>

-----------------------------------------------------------------------------

NoHandle  == 0
NoRequest == 0

Handle == 1 .. Len(handles)

(* Reading the hash of a handle: all zeros once the torrent is freed, and  *)
(* for the handle that comes with an error.                                *)
InfoHashOf(h) == IF h \in alive THEN handles[h] ELSE EmptyInfoHash

(* An entry of the map torrents: the Torrent object, or none.  Its         *)
(* infoHash is the constructor's own read of the handle.                   *)
NoTorrent == [handle |-> NoHandle, infoHash |-> EmptyInfoHash]

Has(x) == x \in InfoHash /\ torrents[x] # NoTorrent

(* sha1(infoHash + '_JS'), as an injective constructor.                    *)
SecondaryInfoHash(x) == <<x, "_JS">>

SecondaryHash == {SecondaryInfoHash(x) : x \in InfoHash \union {EmptyInfoHash}}

(* infoHash and handle are what the alert carries (an alert about an event *)
(* carries a handle only, one about a status a hash only: the other field  *)
(* says what it is about).  ok: no error; current: the torrent was in the  *)
(* session when this event or status of it was posted.                     *)
Alert == [type : {"add_torrent", "torrent_removed", "event", "status",
                  "add_result", "remove_result"},
          handle : Nat, infoHash : InfoHash, request : Nat,
          ok : BOOLEAN, current : BOOLEAN]

Request == [kind : {"add", "remove"}, infoHash : InfoHash, request : Nat]

Results == {"add_result", "remove_result"}

Notification(type, h, x, ok) ==
    [type |-> type, handle |-> h, infoHash |-> x, request |-> NoRequest,
     ok |-> ok, current |-> FALSE]

Result(type, h, req, ok) ==
    [type |-> type, handle |-> h, infoHash |-> req.infoHash,
     request |-> req.request, ok |-> ok, current |-> FALSE]

-----------------------------------------------------------------------------
(* The user's calls.  They come from any turn of the event loop, and also  *)
(* between two alerts of a batch: process emits 'alert' before each.       *)

Submit(kind, x) ==
    /\ pc = "ready"
    /\ Len(callbacks) < MaxRequests
    /\ requests' = Append(requests, [kind |-> kind, infoHash |-> x,
                                     request |-> Len(callbacks) + 1])
    /\ callbacks' = Append(callbacks, "pending")
    /\ UNCHANGED <<networkVars, alerts, batch, pc, lost>>

AddTorrent(x) == Submit("add", x) /\ UNCHANGED mapVars

RemoveTorrent_deletesEarly(x) ==
    /\ Has(x)
    /\ Submit("remove", x)
    /\ torrents' = [torrents EXCEPT ![x] = NoTorrent]
    /\ UNCHANGED bySecondary

(* For a torrent that is not in the map the callback is called at once     *)
(* with an error, and nothing changes.                                     *)
RemoveTorrent(x) == Has(x) /\ Submit("remove", x) /\ UNCHANGED mapVars

-----------------------------------------------------------------------------
(* The network thread: libtorrent, and the plugin that processes requests. *)
(* Both are outside the repository; they are taken from what Plugin.cpp    *)
(* asks of them and Session.js expects of them.                            *)

(* libtorrent's queue drops an alert that is posted when it is full.       *)
Room == AlertLimit - (Len(alerts) - batch)

Post(posted) ==
    /\ alerts' = alerts \o (IF Len(posted) <= Room
                            THEN posted ELSE SubSeq(posted, 1, Room))
    /\ lost' = (lost \/ Len(posted) > Room)
    /\ UNCHANGED <<batch, pc, mapVars>>

NewHandle == Len(handles) + 1

Create(x) ==
    /\ libtorrent[x] = NoHandle
    /\ Len(handles) < MaxTorrents
    /\ handles' = Append(handles, x)
    /\ alive' = alive \union {NewHandle}
    /\ libtorrent' = [libtorrent EXCEPT ![x] = NewHandle]

Delete(x) ==
    /\ libtorrent[x] # NoHandle
    /\ libtorrent' = [libtorrent EXCEPT ![x] = NoHandle]
    /\ UNCHANGED <<handles, alive>>

TakeRequest(kind) ==
    /\ pc # "exited"
    /\ requests # <<>>
    /\ Head(requests).kind = kind
    /\ requests' = Tail(requests)
    /\ UNCHANGED callbacks

ProcessAdd ==
    /\ TakeRequest("add")
    /\ LET req == Head(requests)
           x   == req.infoHash
       IN  /\ Create(x)
           /\ Post(<<Notification("add_torrent", NewHandle, x, TRUE),
                     Result("add_result", NewHandle, req, TRUE)>>)

(* The request sets flag_duplicate_is_error, and the parameters may be     *)
(* refused for other reasons.                                              *)
ProcessAddFails ==
    /\ TakeRequest("add")
    /\ LET req == Head(requests)
       IN  Post(<<Notification("add_torrent", NoHandle, req.infoHash, FALSE),
                  Result("add_result", NoHandle, req, FALSE)>>)
    /\ UNCHANGED networkVars

ProcessRemove ==
    /\ TakeRequest("remove")
    /\ LET req == Head(requests)
           x   == req.infoHash
           h   == libtorrent[x]
       IN  /\ Delete(x)
           /\ Post(<<Notification("torrent_removed", h, x, TRUE),
                     Result("remove_result", h, req, TRUE)>>)

ProcessRemoveFails ==
    /\ TakeRequest("remove")
    /\ LET req == Head(requests)
       IN  /\ libtorrent[req.infoHash] = NoHandle
           /\ Post(<<Result("remove_result", NoHandle, req, FALSE)>>)
    /\ UNCHANGED networkVars

(* The user holds the libtorrent session too and may call it directly,     *)
(* without flag_duplicate_is_error for instance.                           *)
ExternalAdd(x) ==
    /\ pc # "exited"
    /\ Len(alerts) < MaxPending
    /\ \/ /\ Create(x)
          /\ Post(<<Notification("add_torrent", NewHandle, x, TRUE)>>)
       \/ /\ libtorrent[x] # NoHandle
          /\ Post(<<Notification("add_torrent", libtorrent[x], x, TRUE)>>)
          /\ UNCHANGED networkVars
    /\ UNCHANGED <<requests, callbacks>>

ExternalRemove(x) ==
    /\ pc # "exited"
    /\ Delete(x)
    /\ Post(<<Notification("torrent_removed", libtorrent[x], x, TRUE)>>)
    /\ UNCHANGED <<requests, callbacks>>

(* The last reference to a removed torrent goes: its handle is invalid.    *)
Expire(h) ==
    /\ pc # "exited"
    /\ h \in alive
    /\ libtorrent[handles[h]] # h
    /\ alive' = alive \ {h}
    /\ UNCHANGED <<handles, libtorrent, requests, alerts, batch, pc, mapVars,
                   callbacks, lost>>

(* Whatever a torrent or its plugin reports, for as long as it exists.     *)
TorrentEvent(h) ==
    /\ pc # "exited"
    /\ Len(alerts) < MaxPending
    /\ h \in alive
    /\ \E type \in {"event", "status"} :
           Post(<<[Notification(type, h, handles[h], TRUE)
                     EXCEPT !.current = (libtorrent[handles[h]] = h)]>>)
    /\ UNCHANGED <<networkVars, requests, callbacks>>

-----------------------------------------------------------------------------
(* The JavaScript thread takes the alert queue as a batch, every 100 ms,   *)
(* and then processes the batch one alert at a time.                       *)

PopAlerts ==
    /\ pc = "ready"
    /\ batch = 0
    /\ batch' = Len(alerts)
    /\ UNCHANGED <<networkVars, requests, alerts, pc, mapVars, callbacks, lost>>

Processing(type) ==
    /\ pc = "ready"
    /\ batch > 0
    /\ Head(alerts).type = type
    /\ UNCHANGED <<networkVars, requests>>

(* The handler of the first alert goes on to its next read of the handle.  *)
Continue(at) ==
    /\ pc' = at
    /\ UNCHANGED <<alerts, batch, mapVars, callbacks, lost>>

(* The handler returns, and the loop goes on to the next alert.            *)
Advance ==
    /\ pc' = "ready"
    /\ alerts' = Tail(alerts)
    /\ batch' = batch - 1
    /\ UNCHANGED lost

(* An exception leaves the handler and, with it, the loop over the batch:  *)
(* the alerts after this one are never processed.                          *)
Abort ==
    /\ pc' \in {"ready"} \union (IF UncaughtIsFatal THEN {"exited"} ELSE {})
    /\ alerts' = SubSeq(alerts, batch + 1, Len(alerts))
    /\ batch' = 0
    /\ lost' = (lost \/ batch > 1)

Throws == UserThrows /\ Abort

(* The last thing the handler does is to call code of the user.            *)
ReturnFromUser == Advance \/ Throws

(* The listener of 'alert', called before the alert is looked at, throws.  *)
AlertListenerThrows ==
    /\ pc = "ready"
    /\ batch > 0
    /\ UserThrows
    /\ pc' \in {"ready"} \union (IF UncaughtIsFatal THEN {"exited"} ELSE {})
    /\ alerts' = SubSeq(alerts, batch + 1, Len(alerts))
    /\ batch' = 0
    /\ lost' = TRUE
    /\ UNCHANGED <<networkVars, requests, mapVars, callbacks>>

AddTorrentAlert_acceptsDuplicates ==
    /\ Processing("add_torrent")
    /\ LET a == Head(alerts)
       IN  IF ~a.ok \/ InfoHashOf(a.handle) = EmptyInfoHash
           THEN Advance /\ UNCHANGED <<mapVars, callbacks>>
           ELSE Continue("construct")

(* A torrent is registered under the hash its handle has now, unless the   *)
(* alert is an error, the torrent is gone already, or it is known.         *)
AddTorrentAlert ==
    /\ Processing("add_torrent")
    /\ LET a == Head(alerts)
           x == InfoHashOf(a.handle)
       IN  IF ~a.ok \/ x = EmptyInfoHash \/ Has(x)
           THEN Advance /\ UNCHANGED <<mapVars, callbacks>>
           ELSE Continue("construct")

ConstructTorrent_indexesAfterEmit ==
    /\ pc = "construct"
    /\ LET h == Head(alerts).handle
           x == handles[h]
           torrent == [handle |-> h, infoHash |-> InfoHashOf(h)]
       IN  /\ torrents' = [torrents EXCEPT ![x] = torrent]
           /\ \/ Throws /\ UNCHANGED bySecondary
              \/ /\ Advance
                 /\ bySecondary' =
                      IF Assisted
                      THEN [bySecondary EXCEPT
                              ![SecondaryInfoHash(torrent.infoHash)] = x]
                      ELSE bySecondary
    /\ UNCHANGED <<networkVars, requests, callbacks>>

(* new Torrent(handle) reads the handle a second time, for the infoHash    *)
(* and the secondary hash of the object; the key is from the first read.   *)
ConstructTorrent ==
    /\ pc = "construct"
    /\ LET h == Head(alerts).handle
           x == handles[h]
           torrent == [handle |-> h, infoHash |-> InfoHashOf(h)]
       IN  /\ torrents' = [torrents EXCEPT ![x] = torrent]
           /\ bySecondary' =
                IF Assisted
                THEN [bySecondary EXCEPT
                        ![SecondaryInfoHash(torrent.infoHash)] = x]
                ELSE bySecondary
    /\ ReturnFromUser
    /\ UNCHANGED <<networkVars, requests, callbacks>>

Forget_keepsEntry(x) ==
    /\ bySecondary' = [bySecondary EXCEPT
           ![SecondaryInfoHash(torrents[x].infoHash)] = EmptyInfoHash]
    /\ UNCHANGED torrents

Forget(x) ==
    /\ bySecondary' = [bySecondary EXCEPT
           ![SecondaryInfoHash(torrents[x].infoHash)] = EmptyInfoHash]
    /\ torrents' = [torrents EXCEPT ![x] = NoTorrent]

TorrentRemovedAlert_readsHandle ==
    /\ Processing("torrent_removed")
    /\ LET x == InfoHashOf(Head(alerts).handle)
       IN  IF Has(x)
           THEN Forget(x) /\ ReturnFromUser
           ELSE Advance /\ UNCHANGED mapVars
    /\ UNCHANGED callbacks

(* The hash is the alert's own, because the handle may be invalid by now.  *)
TorrentRemovedAlert ==
    /\ Processing("torrent_removed")
    /\ LET x == Head(alerts).infoHash
       IN  IF Has(x)
           THEN Forget(x) /\ ReturnFromUser
           ELSE Advance /\ UNCHANGED mapVars
    /\ UNCHANGED callbacks

(* The Torrent object to which an alert about an event is dispatched.      *)
LookupKey(a) == IF a.type = "status" THEN a.infoHash ELSE InfoHashOf(a.handle)

DispatchTorrentAlert ==
    /\ Processing("event") \/ Processing("status")
    /\ IF Has(LookupKey(Head(alerts))) THEN ReturnFromUser ELSE Advance
    /\ UNCHANGED <<mapVars, callbacks>>

Answer(result, outcome) ==
    callbacks' = [callbacks EXCEPT ![result.request] = outcome]

AddResult_silentOnDeadHandle ==
    /\ Processing("add_result")
    /\ LET a == Head(alerts)
       IN  CASE ~a.ok -> Answer(a, "error") /\ ReturnFromUser /\ UNCHANGED mapVars
             [] a.ok /\ a.handle \in alive -> Continue("resolve")
             [] OTHER -> Advance /\ UNCHANGED <<callbacks, mapVars>>

(* addTorrent's callback: an error, a dead handle, or read the handle.     *)
AddResult ==
    /\ Processing("add_result")
    /\ LET a == Head(alerts)
       IN  IF a.ok /\ a.handle \in alive
           THEN Continue("resolve")
           ELSE Answer(a, "error") /\ ReturnFromUser /\ UNCHANGED mapVars

(* The hash is read after the handle was found valid.  If the map has no   *)
(* torrent under it the assertion throws; else torrent_added is emitted,   *)
(* whose listener may throw, and the callback is called last.              *)
ResolveAddedTorrent ==
    /\ pc = "resolve"
    /\ LET a == Head(alerts)
       IN  IF ~Has(InfoHashOf(a.handle))
           THEN Answer(a, "dropped") /\ Abort
           ELSE \/ Answer(a, "ok") /\ ReturnFromUser
                \/ Answer(a, "dropped") /\ Throws
    /\ UNCHANGED <<networkVars, requests, mapVars>>

(* removeTorrent's callback: called without error whatever the result.     *)
RemoveResult ==
    /\ Processing("remove_result")
    /\ Answer(Head(alerts), "ok")
    /\ ReturnFromUser
    /\ UNCHANGED mapVars

-----------------------------------------------------------------------------

Init ==
    /\ handles = <<>>
    /\ alive = {}
    /\ libtorrent = [x \in InfoHash |-> NoHandle]
    /\ requests = <<>>
    /\ alerts = <<>>
    /\ batch = 0
    /\ pc = "ready"
    /\ torrents = [x \in InfoHash |-> NoTorrent]
    /\ bySecondary = [s \in SecondaryHash |-> EmptyInfoHash]
    /\ callbacks = <<>>
    /\ lost = FALSE

User == \E x \in InfoHash : AddTorrent(x) \/ RemoveTorrent(x)

Network ==
    \/ ProcessAdd \/ ProcessAddFails \/ ProcessRemove \/ ProcessRemoveFails

Environment ==
    \/ \E x \in InfoHash : ExternalAdd(x) \/ ExternalRemove(x)
    \/ \E h \in Handle : Expire(h) \/ TorrentEvent(h)

HandleAlert ==
    \/ AlertListenerThrows
    \/ AddTorrentAlert \/ ConstructTorrent
    \/ TorrentRemovedAlert
    \/ DispatchTorrentAlert
    \/ AddResult \/ ResolveAddedTorrent
    \/ RemoveResult

Next == User \/ Network \/ Environment \/ PopAlerts \/ HandleAlert

Spec == Init /\ [][Next]_vars

(* libtorrent's thread processes requests on every tick, the timer of the  *)
(* constructor pops the alerts, and a started handler runs to its end.     *)
Fairness ==
    /\ WF_vars(Network)
    /\ WF_vars(PopAlerts)
    /\ WF_vars(HandleAlert)

FairSpec == Spec /\ Fairness

-----------------------------------------------------------------------------

TypeOK ==
    /\ handles \in Seq(InfoHash)
    /\ alive \subseteq Handle
    /\ libtorrent \in [InfoHash -> Handle \union {NoHandle}]
    /\ requests \in Seq(Request)
    /\ alerts \in Seq(Alert)
    /\ batch \in 0 .. Len(alerts)
    /\ Room \in 0 .. AlertLimit
    /\ pc \in {"ready", "construct", "resolve", "exited"}
    /\ pc \in {"construct", "resolve"} => batch > 0
    /\ torrents \in [InfoHash -> [handle : Handle \union {NoHandle},
                                  infoHash : InfoHash \union {EmptyInfoHash}]]
    /\ bySecondary \in [SecondaryHash -> InfoHash \union {EmptyInfoHash}]
    /\ callbacks \in Seq({"pending", "ok", "error", "dropped"})
    /\ lost \in BOOLEAN

(* The alerts that say that a torrent of info hash x came or went.         *)
IsAdded(a, x)   == a.type = "add_torrent" /\ a.ok /\ a.infoHash = x
IsRemoved(a, x) == a.type = "torrent_removed" /\ a.infoHash = x

IsMembership(a, x) == IsAdded(a, x) \/ IsRemoved(a, x)

(***************************************************************************)
(* Once every alert about a torrent is processed, the map has exactly the  *)
(* torrent that is in the libtorrent session now, or none if none is: not  *)
(* a removed one, and not the previous one of a torrent added again.       *)
(***************************************************************************)
ViewIsExact ==
    ~lost => \A x \in InfoHash :
        (\A i \in 1 .. Len(alerts) : ~IsMembership(alerts[i], x))
            => torrents[x].handle = libtorrent[x]

(***************************************************************************)
(* When addTorrent's callback finds a torrent by a handle that still lives *)
(* it is the torrent of this very handle: the comment "At this point we    *)
(* should have handled the add_torrent_alert", as far as it is true.       *)
(***************************************************************************)
AddedTorrentIsRegistered ==
    ~lost /\ pc = "resolve" =>
        LET h == Head(alerts).handle
        IN  h \in alive => torrents[handles[h]].handle = h

(***************************************************************************)
(* When removeTorrent's callback runs the map has no such torrent, also if *)
(* someone else removed it first: "At this point we should have handled    *)
(* the torrent_removed_alert", and what test/Session-test.js looks at.     *)
(***************************************************************************)
RemoveCallbackSeesNoTorrent ==
    ~lost /\ pc = "ready" /\ batch > 0 /\ Head(alerts).type = "remove_result"
        => ~Has(Head(alerts).infoHash)

(***************************************************************************)
(* An event or a status that a torrent reported while in the session goes  *)
(* to the Torrent object made for it.  Only if the torrent was freed since *)
(* may there be no object to go to, and never is it that of a successor.   *)
(***************************************************************************)
EventFindsItsTorrent ==
    ~lost /\ pc = "ready" /\ batch > 0 =>
        LET a == Head(alerts)
            x == LookupKey(a)
        IN  a.type \in {"event", "status"} /\ a.current =>
                \/ Has(x) /\ torrents[x].handle = a.handle
                \/ a.handle \notin alive /\ ~Has(x)

(***************************************************************************)
(* With assisted discovery, a torrent whose handle lives is found in the   *)
(* reply of the DHT to its secondary hash, whatever was lost or thrown and *)
(* although the constructor reads the handle again.                        *)
(***************************************************************************)
LiveTorrentReachable ==
    Assisted => \A x \in InfoHash :
        torrents[x].handle \in alive =>
            /\ torrents[x].infoHash = x
            /\ bySecondary[SecondaryInfoHash(x)] = x

(***************************************************************************)
(* Every secondary hash that the timers announce leads to a torrent in the *)
(* map whose secondary hash it is: no reply is looked up for a torrent     *)
(* that is gone, and no announcement outlives its torrent.                 *)
(***************************************************************************)
SecondaryPointsBack ==
    \A s \in SecondaryHash : bySecondary[s] # EmptyInfoHash =>
        /\ Has(bySecondary[s])
        /\ SecondaryInfoHash(torrents[bySecondary[s]].infoHash) = s

(* The requests that still have to be answered: the plugin has posted the  *)
(* result already, or has not taken the request yet.                       *)
IsResult(a) == a.type \in Results

ResultsQueued == {i \in 1 .. Len(alerts) : IsResult(alerts[i])}

Owed == {alerts[i].request : i \in ResultsQueued}
            \union {requests[i].request : i \in 1 .. Len(requests)}

(***************************************************************************)
(* Each callback not called yet is owed exactly one call, and the calls    *)
(* come in the order the requests were made: the queue of the plugin and   *)
(* the alert queue neither lose, repeat nor reorder an answer.             *)
(***************************************************************************)
CallbacksOwedInOrder ==
    ~lost =>
        /\ \A i, j \in ResultsQueued : i < j => alerts[i].request < alerts[j].request
        /\ \A i, j \in 1 .. Len(requests) :
               i < j => requests[i].request < requests[j].request
        /\ \A i \in ResultsQueued, j \in 1 .. Len(requests) :
               alerts[i].request < requests[j].request
        /\ Owed = {r \in 1 .. Len(callbacks) : callbacks[r] = "pending"}

(***************************************************************************)
(* A step never takes out of the map, or replaces in it, a torrent that is *)
(* in the libtorrent session: a late alert about an earlier torrent of the *)
(* same info hash does not touch its successor.                            *)
(***************************************************************************)
SessionTorrentNeverDropped ==
    [][\A x \in InfoHash :
          libtorrent[x] # NoHandle /\ torrents[x].handle = libtorrent[x]
              => torrents'[x] = torrents[x]]_vars

(* The assertion of addTorrent, "assert(this.torrents.has(infoHash))".     *)
AssertHolds == pc = "resolve" => Has(InfoHashOf(Head(alerts).handle))

-----------------------------------------------------------------------------

Pending(r) == r <= Len(callbacks) /\ callbacks[r] = "pending"

Dropped(r) == r <= Len(callbacks) /\ callbacks[r] = "dropped"

Called(r) == r <= Len(callbacks) /\ callbacks[r] \in {"ok", "error"}

(***************************************************************************)
(* Every request is answered: its callback is called in the end, unless an *)
(* alert was lost, a listener before it threw, or the process ended.       *)
(***************************************************************************)
CallbackFires ==
    \A r \in 1 .. MaxRequests :
        Pending(r) ~> Called(r) \/ Dropped(r) \/ lost \/ pc = "exited"

(***************************************************************************)
(* The map catches up: a torrent that stays in the session shows up in it, *)
(* and one that left the session disappears.                               *)
(***************************************************************************)
ViewCatchesUp ==
    \A x \in InfoHash, h \in 1 .. MaxTorrents :
        /\ libtorrent[x] = h
               ~> \/ torrents[x].handle = h
                  \/ libtorrent[x] # h \/ lost \/ pc = "exited"
        /\ torrents[x].handle = h /\ libtorrent[x] # h
               ~> torrents[x].handle # h \/ lost \/ pc = "exited"

-----------------------------------------------------------------------------
(* The map implements the abstract replica of the session.                 *)

NoticeOf(a) ==
    [kind |-> CASE a.type = "add_torrent" /\ a.ok -> "added"
                [] a.type = "torrent_removed"     -> "removed"
                [] OTHER                          -> "other",
     torrent |-> a.infoHash]

Replica == INSTANCE TorrentReplica WITH
    Torrents <- InfoHash,
    present  <- {x \in InfoHash : libtorrent[x] # NoHandle},
    view     <- {x \in InfoHash : Has(x)},
    notices  <- [i \in 1 .. Len(alerts) |-> NoticeOf(alerts[i])]

(***************************************************************************)
(* Every step of the session, the plugin and the user is a step of the     *)
(* replica or leaves it alone: torrents follows libtorrent through the     *)
(* alerts only, and departs from them only as the replica may.             *)
(***************************************************************************)
ImplementsReplica == Replica!Spec

=============================================================================
