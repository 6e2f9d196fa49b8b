-------------------------- MODULE NodeSessionProofs --------------------------
(***************************************************************************)
(* What is proved of NodeSession for every set of info hashes, every limit *)
(* of the alert queue and every value of the other constants: the types;   *)
(* how each kind of change keeps Order and Complete; that every action     *)
(* does, and the properties of the torrents map that follow; that the map  *)
(* is the replica of TorrentReplica; that the secondary hashes follow the  *)
(* map; and that the callbacks are owed in order.                          *)
(***************************************************************************)
EXTENDS NodeSessionInv, SequenceTheorems, TLAPS

(* What a handler and an alert say of handles: they are ones libtorrent    *)
(* handed out.  TypeOK is inductive only together with it.                 *)
HandlesKnown ==
    /\ \A i \in 1 .. Len(alerts) : alerts[i].handle \in 0 .. Len(handles)
    /\ pc \in {"construct", "resolve"} => Head(alerts).handle \in Handle

TypeInv == TypeOK /\ HandlesKnown

(* The assumptions on the constants, in the form the proofs use.           *)
LEMMA Constants ==
    /\ EmptyInfoHash \notin InfoHash
    /\ Assisted \in BOOLEAN
    /\ AlertLimit \in Nat
BY EmptyInfoHashAssumption, OptionsAssumption, AlertLimitAssumption

(* Posting keeps a prefix of the alerts posted, and the queue's limit.     *)
LEMMA PostKeepsType ==
    ASSUME TypeOK, NEW posted \in Seq(Alert), Post(posted)
    PROVE  /\ alerts' \in Seq(Alert)
           /\ batch' \in 0 .. Len(alerts')
           /\ Room' \in 0 .. AlertLimit
           /\ lost' \in BOOLEAN
           /\ ~lost' => ~lost /\ Len(alerts') = Len(alerts) + Len(posted)
           /\ Len(alerts') >= Len(alerts)
           /\ \A i \in 1 .. Len(alerts) : alerts'[i] = alerts[i]
           /\ \A i \in Len(alerts) + 1 .. Len(alerts') :
                  /\ i - Len(alerts) \in 1 .. Len(posted)
                  /\ alerts'[i] = posted[i - Len(alerts)]
<1> DEFINE kept == IF Len(posted) <= Room THEN posted ELSE SubSeq(posted, 1, Room)
<1>1. Room \in Nat /\ Len(posted) \in Nat /\ alerts \in Seq(Alert) /\ Len(alerts) \in Nat
      /\ batch \in Nat /\ AlertLimit \in Nat /\ lost \in BOOLEAN
  BY Constants DEF TypeOK
<1>2. /\ kept \in Seq(Alert)
      /\ Len(kept) <= Room
      /\ Len(kept) <= Len(posted)
      /\ \A i \in 1 .. Len(kept) : kept[i] = posted[i]
  <2>1. CASE Len(posted) <= Room
    BY <2>1, <1>1
  <2>2. CASE ~(Len(posted) <= Room)
    <3>1. Room \in 1 - 1 .. Len(posted) /\ 1 \in 1 .. Len(posted) + 1
      BY <2>2, <1>1
    <3>2. /\ SubSeq(posted, 1, Room) \in Seq(Alert)
          /\ Len(SubSeq(posted, 1, Room)) = Room
          /\ \A i \in 1 .. Room : SubSeq(posted, 1, Room)[i] = posted[i]
      BY <3>1, <1>1, SubSeqProperties
    <3> QED BY <2>2, <3>2, <1>1
  <2> QED BY <2>1, <2>2
<1>3. /\ alerts' = alerts \o kept
      /\ lost' = (lost \/ Len(posted) > Room)
      /\ batch' = batch
  BY DEF Post
<1> HIDE DEF kept
<1>4. Len(kept) \in Nat
  BY <1>2
<1>5. /\ alerts' \in Seq(Alert)
      /\ Len(alerts') = Len(alerts) + Len(kept)
      /\ \A i \in 1 .. Len(alerts) + Len(kept) :
             alerts'[i] = IF i <= Len(alerts) THEN alerts[i]
                                              ELSE kept[i - Len(alerts)]
  BY <1>1, <1>2, <1>3, ConcatProperties
<1>6. /\ batch' \in 0 .. Len(alerts')
      /\ Room' \in 0 .. AlertLimit
  BY <1>1, <1>2, <1>3, <1>4, <1>5 DEF Room, TypeOK
<1>7. ASSUME NEW i \in Len(alerts) + 1 .. Len(alerts')
      PROVE  /\ i - Len(alerts) \in 1 .. Len(posted)
             /\ alerts'[i] = posted[i - Len(alerts)]
  <2>1. i - Len(alerts) \in 1 .. Len(kept) /\ ~(i <= Len(alerts))
    BY <1>1, <1>4, <1>5
  <2>2. i \in 1 .. Len(alerts) + Len(kept)
    BY <1>1, <1>4, <1>5
  <2>3. alerts'[i] = kept[i - Len(alerts)]
    BY <2>1, <2>2, <1>5
  <2>4. kept[i - Len(alerts)] = posted[i - Len(alerts)]
    BY <2>1, <1>2
  <2> QED BY <2>1, <2>3, <2>4, <1>1, <1>2, <1>4
<1>8. ASSUME ~lost' PROVE ~lost /\ Len(alerts') = Len(alerts) + Len(posted)
  <2>1. ~lost /\ ~(Len(posted) > Room)
    BY <1>1, <1>3, <1>8, Zenon
  <2>2. kept = posted
    BY <2>1, <1>1 DEF kept
  <2> QED BY <2>1, <2>2, <1>5
<1> QED BY <1>1, <1>3, <1>4, <1>5, <1>6, <1>7, <1>8

(***************************************************************************)
(* However a handler ends, the first k alerts are gone: the one it was     *)
(* for, or the whole batch; if no alert was lost, just the one.            *)
(***************************************************************************)
Consumed(k) ==
    /\ k \in 1 .. batch
    /\ batch' = batch - k
    /\ alerts' \in Seq(Alert)
    /\ Len(alerts') = Len(alerts) - k
    /\ \A i \in 1 .. Len(alerts) - k : alerts'[i] = alerts[i + k]
    /\ ~lost' => ~lost /\ k = 1

LEMMA AdvanceConsumes ==
    ASSUME TypeOK, batch > 0, Advance
    PROVE  Consumed(1)
<1>1. alerts \in Seq(Alert) /\ alerts # <<>> /\ Len(alerts) \in Nat /\ batch \in Nat
  <2>1. alerts \in Seq(Alert) /\ Len(alerts) \in Nat /\ batch \in 0 .. Len(alerts)
    BY DEF TypeOK
  <2>2. Len(alerts) > 0
    BY <2>1
  <2> QED BY <2>1, <2>2, EmptySeq
<1>2. /\ alerts' \in Seq(Alert)
      /\ Len(alerts') = Len(alerts) - 1
      /\ \A i \in 1 .. Len(alerts') : alerts'[i] = alerts[i + 1]
  BY <1>1, HeadTailProperties DEF Advance
<1> QED BY <1>1, <1>2 DEF Consumed, Advance

LEMMA DropBatchConsumes ==
    ASSUME TypeOK, batch > 0,
           alerts' = SubSeq(alerts, batch + 1, Len(alerts)),
           batch' = 0,
           ~lost' => ~lost /\ batch = 1
    PROVE  Consumed(batch)
<1>1. alerts \in Seq(Alert) /\ Len(alerts) \in Nat /\ batch \in 1 .. Len(alerts)
  BY DEF TypeOK
<1>2. \A i \in batch + 1 .. Len(alerts) : alerts[i] \in Alert
  BY <1>1, ElementOfSeq
<1>3. /\ alerts' \in Seq(Alert)
      /\ Len(alerts') = IF batch + 1 <= Len(alerts)
                        THEN Len(alerts) - (batch + 1) + 1 ELSE 0
      /\ \A i \in 1 .. Len(alerts) - (batch + 1) + 1 :
             alerts'[i] = alerts[batch + 1 + i - 1]
  <2>1. batch + 1 \in Int /\ Len(alerts) \in Int
    BY <1>1
  <2>2. alerts' = SubSeq(alerts, batch + 1, Len(alerts))
    OBVIOUS
  <2> QED BY ONLY <1>2, <2>1, <2>2, SubSeqProperties
<1>4. Len(alerts') = Len(alerts) - batch
  BY <1>1, <1>3
<1>5. \A i \in 1 .. Len(alerts) - batch : alerts'[i] = alerts[i + batch]
  <2>1. Len(alerts) - (batch + 1) + 1 = Len(alerts) - batch
    BY <1>1
  <2>2. \A i \in 1 .. Len(alerts) - batch : batch + 1 + i - 1 = i + batch
    BY <1>1
  <2> QED BY <1>3, <2>1, <2>2
<1> QED BY <1>1, <1>3, <1>4, <1>5 DEF Consumed

LEMMA AbortConsumes ==
    ASSUME TypeOK, batch > 0, Abort
    PROVE  Consumed(batch)
<1>1. lost \in BOOLEAN /\ batch \in Nat /\ lost' = (lost \/ batch > 1)
  BY DEF TypeOK, Abort
<1>2. ~lost' => ~lost /\ batch = 1
  <2>1. CASE batch > 1
    BY <2>1, <1>1, Zenon
  <2>2. CASE ~(batch > 1)
    <3>1. batch = 1
      BY <2>2, <1>1
    <3> QED BY <3>1, <2>2, <1>1, Zenon
  <2> QED BY <2>1, <2>2
<1>3. alerts' = SubSeq(alerts, batch + 1, Len(alerts)) /\ batch' = 0
  BY DEF Abort
<1> QED BY <1>2, <1>3, DropBatchConsumes

LEMMA ReturnConsumes ==
    ASSUME TypeOK, batch > 0, Advance \/ Abort \/ ReturnFromUser
    PROVE  /\ \E k \in 1 .. batch : Consumed(k)
           /\ pc' \in {"ready", "exited"}
           /\ lost' \in BOOLEAN
<1>1. batch \in Nat /\ lost \in BOOLEAN
  BY DEF TypeOK
<1>2. CASE Advance
  BY <1>1, <1>2, AdvanceConsumes DEF Advance
<1>3. CASE Abort
  <2>1. pc' \in {"ready", "exited"} /\ lost' \in BOOLEAN
    BY <1>1, <1>3 DEF Abort
  <2>2. batch \in 1 .. batch
    BY <1>1
  <2> QED BY <1>3, <2>1, <2>2, AbortConsumes
<1> QED BY <1>2, <1>3 DEF ReturnFromUser, Throws

(* The part of the type invariant about the alerts, after a handler ended. *)
LEMMA ConsumedKeepsType ==
    ASSUME TypeInv, handles' = handles, pc' \in {"ready", "exited"},
           NEW k \in 1 .. batch, Consumed(k)
    PROVE  /\ alerts' \in Seq(Alert)
           /\ batch' \in 0 .. Len(alerts')
           /\ Room' \in 0 .. AlertLimit
           /\ pc' \in {"construct", "resolve"} => batch' > 0
           /\ HandlesKnown'
<1>1. /\ Len(alerts) \in Nat /\ batch \in 0 .. Len(alerts) /\ AlertLimit \in Nat
      /\ Room \in 0 .. AlertLimit
  BY Constants DEF TypeInv, TypeOK
<1>2. batch' \in 0 .. Len(alerts')
  BY <1>1 DEF Consumed
<1>3. Room' \in 0 .. AlertLimit
  BY <1>1 DEF Consumed, Room
<1>4. ASSUME NEW i \in 1 .. Len(alerts')
      PROVE  alerts'[i].handle \in 0 .. Len(handles')
  <2>1. i \in 1 .. Len(alerts) - k /\ i + k \in 1 .. Len(alerts)
    BY <1>1 DEF Consumed
  <2>2. alerts'[i] = alerts[i + k]
    BY <2>1 DEF Consumed
  <2> QED BY <2>1, <2>2 DEF TypeInv, HandlesKnown
<1> QED BY <1>2, <1>3, <1>4 DEF Consumed, HandlesKnown

-----------------------------------------------------------------------------

(* The part of TypeInv about the alerts and the program counter.           *)
QueueType ==
    /\ alerts \in Seq(Alert)
    /\ batch \in 0 .. Len(alerts)
    /\ Room \in 0 .. AlertLimit
    /\ pc \in {"ready", "construct", "resolve", "exited"}
    /\ pc \in {"construct", "resolve"} => batch > 0
    /\ lost \in BOOLEAN
    /\ HandlesKnown

(* The part of TypeInv about the libtorrent session and the requests.      *)
NetworkType ==
    /\ handles \in Seq(InfoHash)
    /\ alive \subseteq Handle
    /\ libtorrent \in [InfoHash -> Handle \union {NoHandle}]
    /\ requests \in Seq(Request)

(* The part of TypeInv about the JavaScript session.                       *)
MapType ==
    /\ torrents \in [InfoHash -> [handle : Handle \union {NoHandle},
                                  infoHash : InfoHash \union {EmptyInfoHash}]]
    /\ bySecondary \in [SecondaryHash -> InfoHash \union {EmptyInfoHash}]
    /\ callbacks \in Seq({"pending", "ok", "error", "dropped"})

LEMMA TypeInvParts == TypeInv <=> QueueType /\ NetworkType /\ MapType
BY DEF TypeInv, TypeOK, QueueType, NetworkType, MapType

LEMMA InitTypeInv == Init => TypeInv
<1> SUFFICES ASSUME Init PROVE TypeInv
  OBVIOUS
<1>1. Len(<<>>) = 0
  BY EmptySeq
<1>2. NetworkType
  BY <1>1, EmptySeq DEF Init, NetworkType, Handle, NoHandle
<1>3. QueueType
  <2>1. alerts = <<>> /\ batch = 0 /\ pc = "ready" /\ lost = FALSE
    BY DEF Init
  <2>2. alerts \in Seq(Alert) /\ Len(alerts) = 0
    BY <2>1, EmptySeq
  <2>3. Room = AlertLimit
    BY <2>1, <2>2, Constants DEF Room
  <2>4. HandlesKnown
    BY <2>1, <2>2 DEF HandlesKnown
  <2>5. batch \in 0 .. Len(alerts) /\ Room \in 0 .. AlertLimit
    BY <2>1, <2>2, <2>3, Constants
  <2> QED BY <2>1, <2>2, <2>4, <2>5 DEF QueueType
<1>4. MapType
  BY EmptySeq DEF Init, MapType, NoTorrent, NoHandle
<1> QED BY <1>2, <1>3, <1>4, TypeInvParts

(* A sequence of one or two alerts about handles that are known.           *)
LEMMA PostKeepsQueueType ==
    ASSUME TypeInv, NEW posted \in Seq(Alert), Post(posted),
           Len(handles') >= Len(handles), Len(handles') \in Nat,
           \A i \in 1 .. Len(posted) : posted[i].handle \in 0 .. Len(handles'),
           pc # "exited"
    PROVE  QueueType'
<1>1. /\ alerts \in Seq(Alert) /\ Len(alerts) \in Nat /\ batch \in 0 .. Len(alerts)
      /\ Len(handles) \in Nat
      /\ pc' = pc /\ batch' = batch
  BY DEF TypeInv, TypeOK, Post
<1>2. TypeOK
  BY DEF TypeInv
<1>3. /\ alerts' \in Seq(Alert)
      /\ batch' \in 0 .. Len(alerts')
      /\ Room' \in 0 .. AlertLimit
      /\ lost' \in BOOLEAN
      /\ Len(alerts') >= Len(alerts)
      /\ \A i \in 1 .. Len(alerts) : alerts'[i] = alerts[i]
      /\ \A i \in Len(alerts) + 1 .. Len(alerts') :
             /\ i - Len(alerts) \in 1 .. Len(posted)
             /\ alerts'[i] = posted[i - Len(alerts)]
  BY <1>2, PostKeepsType
<1>4. ASSUME NEW i \in 1 .. Len(alerts')
      PROVE  alerts'[i].handle \in 0 .. Len(handles')
  <2>1. CASE i \in 1 .. Len(alerts)
    BY <2>1, <1>1, <1>3 DEF TypeInv, HandlesKnown
  <2>2. CASE i \in Len(alerts) + 1 .. Len(alerts')
    BY <2>2, <1>3
  <2>3. Len(alerts') \in Nat
    BY <1>3
  <2> QED BY <2>1, <2>2, <2>3, <1>1, <1>3
<1>5. pc' \in {"construct", "resolve"} =>
         /\ batch' > 0
         /\ Head(alerts').handle \in Handle'
  <2> SUFFICES ASSUME pc \in {"construct", "resolve"}
               PROVE  batch > 0 /\ Head(alerts').handle \in Handle'
    BY <1>1
  <2>1. batch > 0 /\ Len(alerts) > 0 /\ Head(alerts).handle \in Handle
    BY <1>1 DEF TypeInv, TypeOK, HandlesKnown
  <2>2. Head(alerts') = Head(alerts)
    BY <2>1, <1>1, <1>3
  <2> QED BY <2>1, <2>2, <1>1 DEF Handle
<1>6. pc' \in {"ready", "construct", "resolve", "exited"}
  BY <1>1 DEF TypeInv, TypeOK
<1> QED BY <1>3, <1>4, <1>5, <1>6 DEF QueueType, HandlesKnown

(* One or two new alerts of the right shape are a sequence to post.        *)
LEMMA OneAlert ==
    ASSUME NEW a \in Alert
    PROVE  <<a>> \in Seq(Alert) /\ Len(<<a>>) = 1 /\ <<a>>[1] = a
OBVIOUS

LEMMA TwoAlerts ==
    ASSUME NEW a \in Alert, NEW b \in Alert
    PROVE  /\ <<a, b>> \in Seq(Alert) /\ Len(<<a, b>>) = 2
           /\ <<a, b>>[1] = a /\ <<a, b>>[2] = b
OBVIOUS

LEMMA NotificationType ==
    ASSUME NEW type \in {"add_torrent", "torrent_removed", "event", "status"},
           NEW h \in Nat, NEW x \in InfoHash, NEW ok \in BOOLEAN
    PROVE  /\ Notification(type, h, x, ok) \in Alert
           /\ Notification(type, h, x, ok).handle = h
BY DEF Notification, Alert, NoRequest

LEMMA ResultType ==
    ASSUME NEW type \in Results, NEW h \in Nat, NEW req \in Request,
           NEW ok \in BOOLEAN
    PROVE  /\ Result(type, h, req, ok) \in Alert
           /\ Result(type, h, req, ok).handle = h
BY DEF Result, Alert, Results, Request

LEMMA CreateKeepsType ==
    ASSUME TypeInv, NEW x \in InfoHash, Create(x)
    PROVE  /\ handles' \in Seq(InfoHash)
           /\ alive' \subseteq Handle'
           /\ libtorrent' \in [InfoHash -> Handle' \union {NoHandle}]
           /\ Len(handles') = Len(handles) + 1
           /\ NewHandle \in Handle'
           /\ handles'[NewHandle] = x
           /\ \A h \in Handle : handles'[h] = handles[h]
<1>1. handles \in Seq(InfoHash) /\ Len(handles) \in Nat
  BY DEF TypeInv, TypeOK
<1>2. /\ handles' \in Seq(InfoHash)
      /\ Len(handles') = Len(handles) + 1
      /\ handles'[NewHandle] = x
      /\ \A h \in 1 .. Len(handles) : handles'[h] = handles[h]
  BY <1>1 DEF Create, NewHandle
<1>3. NewHandle \in Handle' /\ Handle \subseteq Handle'
  BY <1>1, <1>2 DEF Handle, NewHandle
<1> QED BY <1>2, <1>3 DEF Create, TypeInv, TypeOK, Handle

LEMMA DeleteKeepsType ==
    ASSUME TypeInv, NEW x \in InfoHash, Delete(x)
    PROVE  /\ handles' \in Seq(InfoHash)
           /\ alive' \subseteq Handle'
           /\ libtorrent' \in [InfoHash -> Handle' \union {NoHandle}]
           /\ Len(handles') = Len(handles)
           /\ Len(handles) \in Nat
           /\ libtorrent[x] \in Handle
BY DEF Delete, TypeInv, TypeOK, Handle

LEMMA FirstRequest ==
    ASSUME TypeInv, NEW kind, TakeRequest(kind)
    PROVE  /\ Head(requests) \in Request
           /\ Head(requests).infoHash \in InfoHash
           /\ requests' \in Seq(Request)
           /\ pc # "exited"
           /\ callbacks' = callbacks
<1>1. requests \in Seq(Request) /\ requests # <<>>
  BY DEF TypeInv, TypeOK, TakeRequest
<1>2. Head(requests) \in Request /\ Tail(requests) \in Seq(Request)
  BY <1>1, HeadTailProperties
<1> QED BY <1>2 DEF TakeRequest, Request

LEMMA MapUnchanged ==
    ASSUME TypeInv, UNCHANGED mapVars, UNCHANGED callbacks,
           Len(handles') >= Len(handles), Len(handles') \in Nat
    PROVE  MapType'
<1>1. Len(handles) \in Nat
  BY DEF TypeInv, TypeOK
<1>2. Handle \subseteq Handle'
  BY <1>1 DEF Handle
<1> QED BY <1>2 DEF MapType, mapVars, TypeInv, TypeOK

-----------------------------------------------------------------------------
(* TypeInv is kept by the user's calls and by the network thread.          *)

LEMMA SubmitKeepsType ==
    ASSUME TypeInv, NEW kind \in {"add", "remove"}, NEW x \in InfoHash,
           Submit(kind, x), UNCHANGED mapVars
    PROVE  TypeInv'
<1>1. requests \in Seq(Request)
      /\ callbacks \in Seq({"pending", "ok", "error", "dropped"})
  BY DEF TypeInv, TypeOK
<1>2. Len(callbacks) \in Nat
  BY <1>1
<1>3. [kind |-> kind, infoHash |-> x, request |-> Len(callbacks) + 1] \in Request
  BY <1>2 DEF Request
<1>4. /\ requests' \in Seq(Request)
      /\ callbacks' \in Seq({"pending", "ok", "error", "dropped"})
  BY <1>1, <1>3 DEF Submit
<1>5. UNCHANGED <<handles, alive, libtorrent, alerts, batch, pc, lost>>
  BY DEF Submit, networkVars
<1>6. NetworkType' /\ QueueType'
  BY <1>4, <1>5 DEF NetworkType, QueueType, HandlesKnown, Room, Handle, TypeInv, TypeOK
<1>7. MapType'
  BY <1>4, <1>5 DEF MapType, Handle, TypeInv, TypeOK, mapVars
<1> QED BY <1>6, <1>7, TypeInvParts, PTL

LEMMA ProcessAddKeepsType == TypeInv /\ ProcessAdd => TypeInv'
<1> SUFFICES ASSUME TypeInv, ProcessAdd PROVE TypeInv'
  OBVIOUS
<1> DEFINE req == Head(requests)
           posted == <<Notification("add_torrent", NewHandle, req.infoHash, TRUE),
                       Result("add_result", NewHandle, req, TRUE)>>
<1>1. /\ req \in Request /\ req.infoHash \in InfoHash
      /\ requests' \in Seq(Request) /\ pc # "exited" /\ callbacks' = callbacks
  BY FirstRequest DEF ProcessAdd
<1>2. Create(req.infoHash) /\ Post(posted)
  BY DEF ProcessAdd
<1>3. Len(handles) \in Nat /\ NewHandle \in Nat
  BY DEF TypeInv, TypeOK, NewHandle
<1>4. NetworkType' /\ Len(handles') = Len(handles) + 1
  BY <1>1, <1>2, CreateKeepsType DEF NetworkType
<1>5. /\ posted \in Seq(Alert) /\ Len(posted) = 2
      /\ posted[1].handle = NewHandle /\ posted[2].handle = NewHandle
  BY <1>1, <1>3, NotificationType, ResultType, TwoAlerts DEF Results
<1> HIDE DEF posted, req
<1>6. QueueType'
  <2>1. \A i \in 1 .. Len(posted) : posted[i].handle \in 0 .. Len(handles')
    BY <1>3, <1>4, <1>5 DEF NewHandle
  <2> QED BY <1>1, <1>2, <1>3, <1>4, <1>5, <2>1, PostKeepsQueueType
<1>7. MapType'
  BY <1>1, <1>2, <1>3, <1>4, MapUnchanged DEF Post
<1> QED BY <1>4, <1>6, <1>7, TypeInvParts, PTL

LEMMA ProcessAddFailsKeepsType == TypeInv /\ ProcessAddFails => TypeInv'
<1> SUFFICES ASSUME TypeInv, ProcessAddFails PROVE TypeInv'
  OBVIOUS
<1> DEFINE req == Head(requests)
           posted == <<Notification("add_torrent", NoHandle, req.infoHash, FALSE),
                       Result("add_result", NoHandle, req, FALSE)>>
<1>1. /\ req \in Request /\ req.infoHash \in InfoHash
      /\ requests' \in Seq(Request) /\ pc # "exited" /\ callbacks' = callbacks
  BY FirstRequest DEF ProcessAddFails
<1>2. Post(posted) /\ UNCHANGED <<handles, alive, libtorrent>>
  BY DEF ProcessAddFails, networkVars
<1>3. Len(handles') \in Nat /\ Len(handles') = Len(handles) /\ NoHandle \in 0 .. Len(handles')
  BY <1>2 DEF TypeInv, TypeOK, NoHandle
<1>4. NetworkType'
  BY <1>1, <1>2 DEF NetworkType, TypeInv, TypeOK, Handle
<1>5. /\ posted \in Seq(Alert) /\ Len(posted) = 2
      /\ posted[1].handle = NoHandle /\ posted[2].handle = NoHandle
  BY <1>1, NotificationType, ResultType, TwoAlerts DEF Results, NoHandle
<1> HIDE DEF posted, req
<1>6. QueueType'
  <2>1. \A i \in 1 .. Len(posted) : posted[i].handle \in 0 .. Len(handles')
    BY <1>3, <1>5
  <2> QED BY <1>1, <1>2, <1>3, <1>5, <2>1, PostKeepsQueueType
<1>7. MapType'
  BY <1>1, <1>2, <1>3, MapUnchanged DEF Post
<1> QED BY <1>4, <1>6, <1>7, TypeInvParts, PTL

LEMMA ProcessRemoveKeepsType == TypeInv /\ ProcessRemove => TypeInv'
<1> SUFFICES ASSUME TypeInv, ProcessRemove PROVE TypeInv'
  OBVIOUS
<1> DEFINE req == Head(requests)
           h == libtorrent[req.infoHash]
           posted == <<Notification("torrent_removed", h, req.infoHash, TRUE),
                       Result("remove_result", h, req, TRUE)>>
<1>1. /\ req \in Request /\ req.infoHash \in InfoHash
      /\ requests' \in Seq(Request) /\ pc # "exited" /\ callbacks' = callbacks
  BY FirstRequest DEF ProcessRemove
<1>2. Delete(req.infoHash) /\ Post(posted)
  BY DEF ProcessRemove
<1>3. NetworkType' /\ Len(handles') = Len(handles) /\ Len(handles) \in Nat
      /\ h \in Handle
  BY <1>1, <1>2, DeleteKeepsType DEF NetworkType
<1>4. h \in Nat /\ h \in 0 .. Len(handles')
  BY <1>3 DEF Handle
<1> HIDE DEF h
<1>5. /\ posted \in Seq(Alert) /\ Len(posted) = 2
      /\ posted[1].handle = h /\ posted[2].handle = h
  BY <1>1, <1>4, NotificationType, ResultType, TwoAlerts DEF Results
<1> HIDE DEF posted, req
<1>6. QueueType'
  <2>1. \A i \in 1 .. Len(posted) : posted[i].handle \in 0 .. Len(handles')
    BY <1>4, <1>5
  <2> QED BY <1>1, <1>2, <1>3, <1>5, <2>1, PostKeepsQueueType
<1>7. MapType'
  BY <1>1, <1>2, <1>3, MapUnchanged DEF Post
<1> QED BY <1>3, <1>6, <1>7, TypeInvParts, PTL

LEMMA ProcessRemoveFailsKeepsType == TypeInv /\ ProcessRemoveFails => TypeInv'
<1> SUFFICES ASSUME TypeInv, ProcessRemoveFails PROVE TypeInv'
  OBVIOUS
<1> DEFINE req == Head(requests)
           posted == <<Result("remove_result", NoHandle, req, FALSE)>>
<1>1. /\ req \in Request /\ requests' \in Seq(Request)
      /\ pc # "exited" /\ callbacks' = callbacks
  BY FirstRequest DEF ProcessRemoveFails
<1>2. Post(posted) /\ UNCHANGED <<handles, alive, libtorrent>>
  BY DEF ProcessRemoveFails, networkVars
<1>3. Len(handles') \in Nat /\ Len(handles') = Len(handles) /\ NoHandle \in 0 .. Len(handles')
  BY <1>2 DEF TypeInv, TypeOK, NoHandle
<1>4. NetworkType'
  BY <1>1, <1>2 DEF NetworkType, TypeInv, TypeOK, Handle
<1>5. posted \in Seq(Alert) /\ Len(posted) = 1 /\ posted[1].handle = NoHandle
  BY <1>1, ResultType, OneAlert DEF Results, NoHandle
<1> HIDE DEF posted, req
<1>6. QueueType'
  <2>1. \A i \in 1 .. Len(posted) : posted[i].handle \in 0 .. Len(handles')
    BY <1>3, <1>5
  <2> QED BY <1>1, <1>2, <1>3, <1>5, <2>1, PostKeepsQueueType
<1>7. MapType'
  BY <1>1, <1>2, <1>3, MapUnchanged DEF Post
<1> QED BY <1>4, <1>6, <1>7, TypeInvParts, PTL

LEMMA ExternalAddKeepsType ==
    ASSUME TypeInv, NEW x \in InfoHash, ExternalAdd(x)
    PROVE  TypeInv'
<1>1. pc # "exited" /\ UNCHANGED <<requests, callbacks>>
  BY DEF ExternalAdd
<1>2. Len(handles) \in Nat /\ requests \in Seq(Request)
  BY DEF TypeInv, TypeOK
<1>3. CASE /\ Create(x)
           /\ Post(<<Notification("add_torrent", NewHandle, x, TRUE)>>)
  <2> DEFINE posted == <<Notification("add_torrent", NewHandle, x, TRUE)>>
  <2>1. NetworkType' /\ Len(handles') = Len(handles) + 1
    <3>1. Create(x) /\ requests' = requests
      BY <1>1, <1>3
    <3>2. /\ handles' \in Seq(InfoHash)
          /\ alive' \subseteq Handle'
          /\ libtorrent' \in [InfoHash -> Handle' \union {NoHandle}]
          /\ Len(handles') = Len(handles) + 1
      BY <3>1, CreateKeepsType
    <3> QED BY <1>2, <3>1, <3>2 DEF NetworkType
  <2>2. posted \in Seq(Alert) /\ Len(posted) = 1 /\ posted[1].handle = NewHandle
    <3>1. NewHandle \in Nat
      BY <1>2 DEF NewHandle
    <3>2. /\ Notification("add_torrent", NewHandle, x, TRUE) \in Alert
          /\ Notification("add_torrent", NewHandle, x, TRUE).handle = NewHandle
      BY <3>1, NotificationType
    <3> QED BY <3>2, OneAlert
  <2>3. Post(posted)
    BY <1>3
  <2> HIDE DEF posted
  <2>4. \A i \in 1 .. Len(posted) : posted[i].handle \in 0 .. Len(handles')
    BY <1>2, <2>1, <2>2 DEF NewHandle
  <2>5. QueueType'
    BY <1>1, <1>2, <2>1, <2>2, <2>3, <2>4, PostKeepsQueueType
  <2>6. MapType'
    BY <1>1, <1>2, <2>1, <2>3, MapUnchanged DEF Post
  <2> QED BY <2>1, <2>5, <2>6, TypeInvParts, PTL
<1>4. CASE /\ libtorrent[x] # NoHandle
           /\ Post(<<Notification("add_torrent", libtorrent[x], x, TRUE)>>)
           /\ UNCHANGED networkVars
  <2> DEFINE h == libtorrent[x]
             posted == <<Notification("add_torrent", h, x, TRUE)>>
  <2>1. NetworkType' /\ Len(handles') = Len(handles)
    BY <1>1, <1>4 DEF NetworkType, networkVars, TypeInv, TypeOK, Handle
  <2>2. h \in 0 .. Len(handles) /\ h \in Nat
    BY <1>2 DEF TypeInv, TypeOK, Handle, NoHandle
  <2>3. Post(posted)
    BY <1>4
  <2> HIDE DEF h
  <2>4. posted \in Seq(Alert) /\ Len(posted) = 1 /\ posted[1].handle = h
    BY <2>2, NotificationType, OneAlert
  <2> HIDE DEF posted
  <2>5. \A i \in 1 .. Len(posted) : posted[i].handle \in 0 .. Len(handles')
    BY <1>2, <2>1, <2>2, <2>4
  <2>6. QueueType'
    BY <1>1, <1>2, <2>1, <2>3, <2>4, <2>5, PostKeepsQueueType
  <2>7. MapType'
    BY <1>1, <1>2, <2>1, <2>3, MapUnchanged DEF Post
  <2> QED BY <2>1, <2>6, <2>7, TypeInvParts, PTL
<1> QED BY <1>3, <1>4 DEF ExternalAdd

LEMMA ExternalRemoveKeepsType ==
    ASSUME TypeInv, NEW x \in InfoHash, ExternalRemove(x)
    PROVE  TypeInv'
<1> DEFINE h == libtorrent[x]
           posted == <<Notification("torrent_removed", h, x, TRUE)>>
<1>1. /\ pc # "exited" /\ UNCHANGED <<requests, callbacks>>
      /\ Delete(x) /\ Post(posted)
  BY DEF ExternalRemove
<1>2. /\ Len(handles) \in Nat /\ Len(handles') = Len(handles)
      /\ NetworkType' /\ h \in Handle
  BY <1>1, DeleteKeepsType DEF NetworkType, TypeInv, TypeOK
<1>3. h \in Nat /\ h \in 0 .. Len(handles')
  BY <1>2 DEF Handle
<1> HIDE DEF h
<1>4. posted \in Seq(Alert) /\ Len(posted) = 1 /\ posted[1].handle = h
  BY <1>3, NotificationType, OneAlert
<1> HIDE DEF posted
<1>5. \A i \in 1 .. Len(posted) : posted[i].handle \in 0 .. Len(handles')
  BY <1>3, <1>4
<1>6. QueueType'
  BY <1>1, <1>2, <1>4, <1>5, PostKeepsQueueType
<1>7. MapType'
  BY <1>1, <1>2, MapUnchanged DEF Post
<1> QED BY <1>2, <1>6, <1>7, TypeInvParts, PTL

LEMMA TorrentEventKeepsType ==
    ASSUME TypeInv, NEW g \in Handle, TorrentEvent(g)
    PROVE  TypeInv'
<1> PICK type \in {"event", "status"} :
        Post(<<[Notification(type, g, handles[g], TRUE)
                  EXCEPT !.current = (libtorrent[handles[g]] = g)]>>)
  BY DEF TorrentEvent
<1> DEFINE a == [Notification(type, g, handles[g], TRUE)
                   EXCEPT !.current = (libtorrent[handles[g]] = g)]
<1>1. /\ pc # "exited" /\ UNCHANGED <<requests, callbacks>>
      /\ UNCHANGED <<handles, alive, libtorrent>>
  BY DEF TorrentEvent, networkVars
<1>2. /\ Len(handles) \in Nat /\ Len(handles') = Len(handles)
      /\ handles[g] \in InfoHash /\ g \in Nat /\ g \in 0 .. Len(handles')
  BY <1>1 DEF TypeInv, TypeOK, Handle
<1>3. a \in Alert /\ a.handle = g
  BY <1>2 DEF Notification, Alert, NoRequest
<1> DEFINE posted == <<a>>
<1>4. Post(posted)
  OBVIOUS
<1> HIDE DEF a
<1>5. posted \in Seq(Alert) /\ Len(posted) = 1 /\ posted[1].handle = g
  BY <1>3, OneAlert
<1> HIDE DEF posted
<1>6. \A i \in 1 .. Len(posted) : posted[i].handle \in 0 .. Len(handles')
  BY <1>2, <1>5
<1>7. QueueType'
  BY <1>1, <1>2, <1>4, <1>5, <1>6, PostKeepsQueueType
<1>8. NetworkType' /\ MapType'
  BY <1>1, <1>2, <1>4, MapUnchanged DEF Post, NetworkType, TypeInv, TypeOK, Handle
<1> QED BY <1>7, <1>8, TypeInvParts, PTL

LEMMA ExpireKeepsType ==
    ASSUME TypeInv, NEW g \in Handle, Expire(g)
    PROVE  TypeInv'
BY DEF TypeInv, TypeOK, HandlesKnown, Expire, mapVars, Handle, Room

-----------------------------------------------------------------------------
(* TypeInv is kept by the JavaScript thread.                               *)

LEMMA PopAlertsKeepsType == TypeInv /\ PopAlerts => TypeInv'
<1> SUFFICES ASSUME TypeInv, PopAlerts PROVE TypeInv'
  OBVIOUS
<1>1. /\ UNCHANGED <<handles, alive, libtorrent, requests, alerts, pc, lost>>
      /\ UNCHANGED <<torrents, bySecondary, callbacks>>
      /\ batch = 0 /\ batch' = Len(alerts) /\ pc = "ready"
  BY DEF PopAlerts, networkVars, mapVars
<1>2. /\ Len(alerts) \in Nat /\ AlertLimit \in Nat
      /\ Room \in 0 .. AlertLimit
  BY Constants DEF TypeInv, TypeOK
<1>3. Room' \in 0 .. AlertLimit /\ batch' \in 0 .. Len(alerts')
  BY <1>1, <1>2 DEF Room
<1>4. QueueType'
  BY <1>1, <1>3 DEF QueueType, HandlesKnown, Handle, TypeInv, TypeOK
<1>5. NetworkType' /\ MapType'
  BY <1>1 DEF NetworkType, MapType, Handle, TypeInv, TypeOK
<1> QED BY <1>4, <1>5, TypeInvParts, PTL

(* A handler that ends, having changed the map or the callbacks or neither.*)
LEMMA EndKeepsType ==
    ASSUME TypeInv, batch > 0, Advance \/ Abort \/ ReturnFromUser,
           UNCHANGED <<networkVars, requests>>, MapType'
    PROVE  TypeInv'
<1>1. UNCHANGED <<handles, alive, libtorrent, requests>>
  BY DEF networkVars
<1>2. PICK k \in 1 .. batch : Consumed(k)
  BY ReturnConsumes DEF TypeInv
<1>3. pc' \in {"ready", "exited"} /\ lost' \in BOOLEAN
  BY ReturnConsumes DEF TypeInv
<1>4. QueueType'
  BY <1>1, <1>2, <1>3, ConsumedKeepsType DEF QueueType
<1>5. NetworkType'
  BY <1>1 DEF NetworkType, Handle, TypeInv, TypeOK
<1> QED BY <1>4, <1>5, TypeInvParts, PTL

(* A handler that goes on to its next read of a handle it knows.           *)
LEMMA ContinueKeepsType ==
    ASSUME TypeInv, batch > 0, NEW at \in {"construct", "resolve"}, Continue(at),
           UNCHANGED <<networkVars, requests>>,
           Head(alerts).handle \in Handle
    PROVE  TypeInv'
BY DEF TypeInv, TypeOK, HandlesKnown, Continue, Handle, Room, networkVars, mapVars

LEMMA FirstAlert ==
    ASSUME TypeInv, batch > 0
    PROVE  /\ Head(alerts) \in Alert
           /\ Head(alerts) = alerts[1]
           /\ 1 \in 1 .. Len(alerts)
<1>1. alerts \in Seq(Alert) /\ Len(alerts) \in Nat /\ batch \in 0 .. Len(alerts)
  BY DEF TypeInv, TypeOK
<1>2. 1 \in 1 .. Len(alerts)
  BY <1>1
<1> QED BY <1>1, <1>2

LEMMA AlertListenerThrowsKeepsType == TypeInv /\ AlertListenerThrows => TypeInv'
<1> SUFFICES ASSUME TypeInv, AlertListenerThrows PROVE TypeInv'
  OBVIOUS
<1>1. /\ UNCHANGED <<handles, alive, libtorrent, requests>>
      /\ UNCHANGED <<torrents, bySecondary, callbacks>>
      /\ pc' \in {"ready", "exited"} /\ lost' = TRUE /\ batch > 0
      /\ alerts' = SubSeq(alerts, batch + 1, Len(alerts)) /\ batch' = 0
  BY DEF AlertListenerThrows, networkVars, mapVars
<1>2. Consumed(batch)
  BY <1>1, DropBatchConsumes DEF TypeInv
<1>3. batch \in 1 .. batch
  BY <1>1 DEF TypeInv, TypeOK
<1>4. QueueType'
  BY <1>1, <1>2, <1>3, ConsumedKeepsType DEF QueueType
<1>5. NetworkType' /\ MapType'
  BY <1>1 DEF NetworkType, MapType, Handle, TypeInv, TypeOK
<1> QED BY <1>4, <1>5, TypeInvParts, PTL

LEMMA AddTorrentAlertKeepsType == TypeInv /\ AddTorrentAlert => TypeInv'
<1> SUFFICES ASSUME TypeInv, AddTorrentAlert PROVE TypeInv'
  OBVIOUS
<1> DEFINE a == Head(alerts)
           x == InfoHashOf(a.handle)
<1>1. batch > 0 /\ UNCHANGED <<networkVars, requests>>
  BY DEF AddTorrentAlert, Processing
<1>2. CASE Advance /\ UNCHANGED <<mapVars, callbacks>>
  <2>1. MapType'
    BY <1>1, <1>2 DEF MapType, Handle, TypeInv, TypeOK, mapVars, networkVars
  <2> QED BY <1>1, <1>2, <2>1, EndKeepsType
<1>3. CASE x # EmptyInfoHash /\ Continue("construct")
  <2>1. a.handle \in Handle
    BY <1>3 DEF InfoHashOf, TypeInv, TypeOK
  <2> QED BY <1>1, <1>3, <2>1, ContinueKeepsType
<1> QED BY <1>2, <1>3 DEF AddTorrentAlert

LEMMA ConstructTorrentKeepsType == TypeInv /\ ConstructTorrent => TypeInv'
<1> SUFFICES ASSUME TypeInv, ConstructTorrent PROVE TypeInv'
  OBVIOUS
<1> DEFINE h == Head(alerts).handle
           x == handles[h]
           torrent == [handle |-> h, infoHash |-> InfoHashOf(h)]
<1>1. /\ batch > 0 /\ UNCHANGED <<networkVars, requests, callbacks>>
      /\ h \in Handle /\ x \in InfoHash /\ ReturnFromUser
  BY DEF ConstructTorrent, TypeInv, TypeOK, HandlesKnown, Handle
<1>2. InfoHashOf(h) \in InfoHash \union {EmptyInfoHash}
  BY <1>1 DEF InfoHashOf
<1>3. SecondaryInfoHash(torrent.infoHash) \in SecondaryHash
  BY <1>2 DEF SecondaryHash
<1>4. torrents' = [torrents EXCEPT ![x] = torrent]
      /\ bySecondary' = IF Assisted
                        THEN [bySecondary EXCEPT
                                ![SecondaryInfoHash(torrent.infoHash)] = x]
                        ELSE bySecondary
  BY DEF ConstructTorrent
<1>5. /\ torrents \in [InfoHash -> [handle : Handle \union {NoHandle},
                                    infoHash : InfoHash \union {EmptyInfoHash}]]
      /\ bySecondary \in [SecondaryHash -> InfoHash \union {EmptyInfoHash}]
      /\ callbacks \in Seq({"pending", "ok", "error", "dropped"})
      /\ handles' = handles
  BY <1>1 DEF TypeInv, TypeOK, networkVars
<1>6. torrent \in [handle : Handle \union {NoHandle},
                   infoHash : InfoHash \union {EmptyInfoHash}]
  BY <1>1, <1>2
<1> HIDE DEF torrent, x
<1>7. MapType'
  BY <1>1, <1>3, <1>4, <1>5, <1>6 DEF MapType, Handle
<1> QED BY <1>1, <1>7, EndKeepsType

LEMMA TorrentRemovedAlertKeepsType == TypeInv /\ TorrentRemovedAlert => TypeInv'
<1> SUFFICES ASSUME TypeInv, TorrentRemovedAlert PROVE TypeInv'
  OBVIOUS
<1> DEFINE x == Head(alerts).infoHash
<1>1. batch > 0 /\ UNCHANGED <<networkVars, requests, callbacks>>
  BY DEF TorrentRemovedAlert, Processing
<1>2. CASE Has(x) /\ Forget(x) /\ ReturnFromUser
  <2>1. /\ torrents \in [InfoHash -> [handle : Handle \union {NoHandle},
                                      infoHash : InfoHash \union {EmptyInfoHash}]]
        /\ bySecondary \in [SecondaryHash -> InfoHash \union {EmptyInfoHash}]
        /\ handles' = handles
    BY <1>1 DEF TypeInv, TypeOK, networkVars
  <2>2. torrents' \in [InfoHash -> [handle : Handle \union {NoHandle},
                                    infoHash : InfoHash \union {EmptyInfoHash}]]
    BY <1>2, <2>1 DEF Forget, NoTorrent
  <2>3. bySecondary' \in [SecondaryHash -> InfoHash \union {EmptyInfoHash}]
    BY <1>2, <2>1 DEF Forget
  <2>4. MapType'
    BY <1>1, <2>1, <2>2, <2>3 DEF MapType, Handle, TypeInv, TypeOK
  <2> QED BY <1>1, <1>2, <2>4, EndKeepsType
<1>3. CASE Advance /\ UNCHANGED mapVars
  <2>1. MapType'
    BY <1>1, <1>3 DEF MapType, Handle, TypeInv, TypeOK, mapVars, networkVars
  <2> QED BY <1>1, <1>3, <2>1, EndKeepsType
<1> QED BY <1>2, <1>3 DEF TorrentRemovedAlert

LEMMA DispatchKeepsType == TypeInv /\ DispatchTorrentAlert => TypeInv'
<1> SUFFICES ASSUME TypeInv, DispatchTorrentAlert PROVE TypeInv'
  OBVIOUS
<1>1. /\ batch > 0 /\ UNCHANGED <<networkVars, requests>>
      /\ UNCHANGED <<mapVars, callbacks>> /\ (Advance \/ ReturnFromUser)
  BY DEF DispatchTorrentAlert, Processing
<1>2. MapType'
  BY <1>1 DEF MapType, Handle, TypeInv, TypeOK, mapVars, networkVars
<1> QED BY <1>1, <1>2, EndKeepsType

LEMMA AnswerType ==
    ASSUME TypeInv, NEW a, NEW outcome \in {"ok", "error", "dropped"},
           Answer(a, outcome), UNCHANGED mapVars, handles' = handles
    PROVE  MapType'
<1> DEFINE Outcomes == {"pending", "ok", "error", "dropped"}
<1>1. callbacks \in Seq(Outcomes) /\ outcome \in Outcomes
  BY DEF TypeInv, TypeOK
<1>2. callbacks' = [callbacks EXCEPT ![a.request] = outcome]
  BY DEF Answer
<1>3. callbacks' \in Seq(Outcomes)
  <2> HIDE DEF Outcomes
  <2>1. CASE a.request \in 1 .. Len(callbacks)
    BY <1>1, <1>2, <2>1, ExceptSeq
  <2>2. CASE a.request \notin 1 .. Len(callbacks)
    <3>1. callbacks \in [1 .. Len(callbacks) -> Outcomes]
      BY <1>1, LenProperties
    <3>2. callbacks' = callbacks
      BY <1>2, <2>2, <3>1
    <3> QED BY <1>1, <3>2
  <2> QED BY <2>1, <2>2
<1> QED BY <1>3 DEF MapType, Handle, TypeInv, TypeOK, mapVars

LEMMA AddResultKeepsType == TypeInv /\ AddResult => TypeInv'
<1> SUFFICES ASSUME TypeInv, AddResult PROVE TypeInv'
  OBVIOUS
<1> DEFINE a == Head(alerts)
<1>1. batch > 0 /\ UNCHANGED <<networkVars, requests>> /\ handles' = handles
  BY DEF AddResult, Processing, networkVars
<1>2. CASE a.handle \in alive /\ Continue("resolve")
  <2>1. a.handle \in Handle
    BY <1>2 DEF TypeInv, TypeOK
  <2> QED BY <1>1, <1>2, <2>1, ContinueKeepsType
<1>3. CASE Answer(a, "error") /\ ReturnFromUser /\ UNCHANGED mapVars
  BY <1>1, <1>3, AnswerType, EndKeepsType
<1> QED BY <1>2, <1>3 DEF AddResult

LEMMA ResolveKeepsType == TypeInv /\ ResolveAddedTorrent => TypeInv'
<1> SUFFICES ASSUME TypeInv, ResolveAddedTorrent PROVE TypeInv'
  OBVIOUS
<1> DEFINE a == Head(alerts)
<1>1. /\ batch > 0 /\ UNCHANGED <<networkVars, requests>> /\ handles' = handles
      /\ UNCHANGED mapVars
  BY DEF ResolveAddedTorrent, TypeInv, TypeOK, networkVars
<1>2. /\ Abort \/ ReturnFromUser
      /\ \E outcome \in {"ok", "error", "dropped"} : Answer(a, outcome)
  BY DEF ResolveAddedTorrent, Throws
<1> QED BY <1>1, <1>2, AnswerType, EndKeepsType

LEMMA RemoveResultKeepsType == TypeInv /\ RemoveResult => TypeInv'
<1> SUFFICES ASSUME TypeInv, RemoveResult PROVE TypeInv'
  OBVIOUS
<1>1. /\ batch > 0 /\ UNCHANGED <<networkVars, requests>> /\ handles' = handles
      /\ UNCHANGED mapVars /\ Answer(Head(alerts), "ok") /\ ReturnFromUser
  BY DEF RemoveResult, Processing, networkVars
<1> QED BY <1>1, AnswerType, EndKeepsType

-----------------------------------------------------------------------------

LEMMA NextTypeInv == TypeInv /\ [Next]_vars => TypeInv'
<1> SUFFICES ASSUME TypeInv, [Next]_vars PROVE TypeInv'
  OBVIOUS
<1>1. CASE User
  <2> PICK x \in InfoHash : AddTorrent(x) \/ RemoveTorrent(x)
    BY <1>1 DEF User
  <2> QED BY SubmitKeepsType DEF AddTorrent, RemoveTorrent
<1>2. CASE Network
  BY <1>2, ProcessAddKeepsType, ProcessAddFailsKeepsType,
     ProcessRemoveKeepsType, ProcessRemoveFailsKeepsType DEF Network
<1>3. CASE Environment
  BY <1>3, ExternalAddKeepsType, ExternalRemoveKeepsType, ExpireKeepsType,
     TorrentEventKeepsType DEF Environment
<1>4. CASE PopAlerts
  BY <1>4, PopAlertsKeepsType
<1>5. CASE HandleAlert
  BY <1>5, AlertListenerThrowsKeepsType, AddTorrentAlertKeepsType,
     ConstructTorrentKeepsType, TorrentRemovedAlertKeepsType, DispatchKeepsType,
     AddResultKeepsType, ResolveKeepsType, RemoveResultKeepsType DEF HandleAlert
<1>6. CASE UNCHANGED vars
  BY <1>6 DEF vars, networkVars, mapVars, TypeInv, TypeOK, HandlesKnown, Handle, Room
<1> QED BY <1>1, <1>2, <1>3, <1>4, <1>5, <1>6 DEF Next

THEOREM TypeInvariant == Spec => []TypeInv
<1>1. Init => TypeInv
  BY InitTypeInv
<1>2. TypeInv /\ [Next]_vars => TypeInv'
  BY NextTypeInv
<1> QED BY <1>1, <1>2, PTL DEF Spec

(***************************************************************************)
(* Every variable of the session keeps its type, and in particular the     *)
(* alerts waiting in libtorrent never exceed the limit of its queue (Room).*)
(***************************************************************************)
THEOREM TypeCorrect == Spec => []TypeOK
<1>1. TypeInv => TypeOK
  BY DEF TypeInv
<1> QED BY <1>1, TypeInvariant, PTL

-----------------------------------------------------------------------------
(* The invariant of NodeSessionInv is inductive; the safety properties of  *)
(* the torrents map follow from it further down.                           *)

(* Order without the program counter.                                      *)
OrderCore ==
    /\ SessionIsNewest
    /\ AlertsNameTheirTorrent
    /\ MapNamesItsTorrents
    /\ AlertsInOrder
    /\ MapBehindAlerts
    /\ RemovedIsGone

LEMMA OrderParts == Order <=> OrderCore /\ HandlerHasItsAlert
BY DEF Order, OrderCore

(* The types the proofs below need, all handles being natural numbers.     *)
LEMMA Types ==
    ASSUME TypeInv
    PROVE  /\ Len(alerts) \in Nat /\ Len(handles) \in Nat
           /\ batch \in 0 .. Len(alerts)
           /\ lost \in BOOLEAN
           /\ alive \subseteq Handle
           /\ \A h \in Handle : h \in Nat /\ h # NoHandle /\ handles[h] \in InfoHash
           /\ \A i \in 1 .. Len(alerts) :
                  /\ alerts[i] \in Alert
                  /\ alerts[i].infoHash \in InfoHash
                  /\ alerts[i].handle \in Nat
           /\ \A x \in InfoHash :
                  /\ torrents[x].handle \in Nat
                  /\ libtorrent[x] \in Nat
                  /\ libtorrent[x] \in Handle \union {NoHandle}
           /\ \A x \in InfoHash : torrents[x] # NoTorrent => Has(x)
           /\ \A x : Has(x) => x \in InfoHash /\ torrents[x] # NoTorrent
<1>1. /\ Len(alerts) \in Nat /\ Len(handles) \in Nat
      /\ batch \in 0 .. Len(alerts)
      /\ lost \in BOOLEAN
      /\ alive \subseteq Handle
  BY DEF TypeInv, TypeOK
<1>2. \A h \in Handle : h \in Nat /\ h # NoHandle /\ handles[h] \in InfoHash
  BY <1>1 DEF TypeInv, TypeOK, Handle, NoHandle
<1>3. \A i \in 1 .. Len(alerts) : alerts[i] \in Alert
  BY ElementOfSeq DEF TypeInv, TypeOK
<1>4. \A i \in 1 .. Len(alerts) :
         alerts[i].infoHash \in InfoHash /\ alerts[i].handle \in Nat
  BY <1>3 DEF Alert
<1>5. \A x \in InfoHash :
         /\ torrents[x].handle \in Handle \union {NoHandle}
         /\ libtorrent[x] \in Handle \union {NoHandle}
  BY DEF TypeInv, TypeOK
<1>6. NoHandle \in Nat
  BY DEF NoHandle
<1> QED BY <1>1, <1>2, <1>3, <1>4, <1>5, <1>6 DEF Has

-----------------------------------------------------------------------------
(* The order of the alerts.                                                *)

(* A step that touches neither the session, the alerts nor the map.        *)
LEMMA QuietOrder ==
    ASSUME OrderCore, SessionIsNewest',
           UNCHANGED <<handles, libtorrent, alerts, torrents>>
    PROVE  OrderCore'
BY DEF OrderCore, AlertsNameTheirTorrent, MapNamesItsTorrents, AlertsInOrder,
       MapBehindAlerts, RemovedIsGone, Handle, IsAdded, IsRemoved, IsMembership,
       IsClaim, Claimed, NoTorrent, NoHandle

(* What a step of the network thread that posts alerts does to handles and *)
(* session, and what the alerts it posts say: at most the first one is     *)
(* about a torrent that came or went, and this is the newest one.          *)
PostsInOrder(posted) ==
    /\ posted \in Seq(Alert)
    /\ Post(posted)
    /\ SessionIsNewest'
    /\ \A h \in Handle : h \in Handle' /\ handles'[h] = handles[h]
    /\ \A x \in InfoHash : \A i \in 1 .. Len(alerts) :
           IsRemoved(alerts[i], x) => libtorrent'[x] # alerts[i].handle
    /\ \A k \in 1 .. Len(posted) :
           \/ \E x \in InfoHash : IsMembership(posted[k], x)
           \/ IsClaim(posted[k]) /\ Claimed(posted[k]) # NoHandle
           => /\ posted[k].handle \in Handle'
              /\ handles'[posted[k].handle] = posted[k].infoHash
    /\ \A k \in 1 .. Len(posted) : \A x \in InfoHash :
           IsMembership(posted[k], x) =>
               /\ k = 1
               /\ \A g \in Handle : handles[g] = x => g <= posted[k].handle
               /\ \A i \in 1 .. Len(alerts) :
                      IsRemoved(alerts[i], x) => alerts[i].handle # posted[k].handle
               /\ IsRemoved(posted[k], x) => libtorrent'[x] # posted[k].handle

LEMMA PostOrder ==
    ASSUME TypeInv, OrderCore, NEW posted, PostsInOrder(posted)
    PROVE  OrderCore'
<1>0. TypeOK
  BY DEF TypeInv
<1>1. /\ alerts' \in Seq(Alert)
      /\ Len(alerts') >= Len(alerts)
      /\ \A i \in 1 .. Len(alerts) : alerts'[i] = alerts[i]
      /\ \A i \in Len(alerts) + 1 .. Len(alerts') :
             /\ i - Len(alerts) \in 1 .. Len(posted)
             /\ alerts'[i] = posted[i - Len(alerts)]
  BY <1>0, PostKeepsType DEF PostsInOrder
<1>2. /\ Len(alerts) \in Nat /\ Len(alerts') \in Nat
      /\ torrents' = torrents
      /\ \A h \in Handle : h \in Handle' /\ handles'[h] = handles[h]
  BY <1>1, Types DEF PostsInOrder, Post, mapVars
<1>3. \A i \in 1 .. Len(alerts') :
         \/ i \in 1 .. Len(alerts)
         \/ i \in Len(alerts) + 1 .. Len(alerts')
  BY <1>2
<1>newest. ASSUME NEW i \in Len(alerts) + 1 .. Len(alerts'), NEW x \in InfoHash,
             IsMembership(alerts'[i], x)
      PROVE  /\ i - Len(alerts) = 1
             /\ alerts'[i].handle \in Nat
             /\ \A g \in Handle : handles[g] = x => g <= alerts'[i].handle
             /\ \A k \in 1 .. Len(alerts) :
                    IsRemoved(alerts[k], x) => alerts[k].handle # alerts'[i].handle
             /\ IsRemoved(alerts'[i], x) => libtorrent'[x] # alerts'[i].handle
  <2> DEFINE k == i - Len(alerts)
  <2>1. k \in 1 .. Len(posted) /\ alerts'[i] = posted[k]
    BY <1>1
  <2> HIDE DEF k
  <2>2. posted[k] \in Alert
    BY <2>1, ElementOfSeq DEF PostsInOrder
  <2>3. IsMembership(posted[k], x)
    BY <2>1, <1>newest
  <2>4. /\ k = 1
        /\ \A g \in Handle : handles[g] = x => g <= posted[k].handle
        /\ \A j \in 1 .. Len(alerts) :
               IsRemoved(alerts[j], x) => alerts[j].handle # posted[k].handle
        /\ IsRemoved(posted[k], x) => libtorrent'[x] # posted[k].handle
    BY <2>1, <2>3 DEF PostsInOrder
  <2> QED BY <2>1, <2>2, <2>4 DEF Alert, k
<1>4. AlertsNameTheirTorrent'
  <2> SUFFICES ASSUME NEW i \in 1 .. Len(alerts'),
                      \/ \E x \in InfoHash : IsMembership(alerts'[i], x)
                      \/ IsClaim(alerts'[i]) /\ Claimed(alerts'[i]) # NoHandle
               PROVE  /\ alerts'[i].handle \in Handle'
                      /\ handles'[alerts'[i].handle] = alerts'[i].infoHash
    BY DEF AlertsNameTheirTorrent, IsAdded, IsRemoved, IsMembership, IsClaim, Claimed,
           NoHandle
  <2>1. CASE i \in 1 .. Len(alerts)
    BY <2>1, <1>1, <1>2 DEF OrderCore, AlertsNameTheirTorrent
  <2>2. CASE i \in Len(alerts) + 1 .. Len(alerts')
    BY <2>2, <1>1 DEF PostsInOrder
  <2> QED BY <1>3, <2>1, <2>2
<1>5. MapNamesItsTorrents'
  BY <1>2 DEF OrderCore, MapNamesItsTorrents, NoTorrent, NoHandle
<1>6. RemovedIsGone'
  <2> SUFFICES ASSUME NEW x \in InfoHash, NEW i \in 1 .. Len(alerts'),
                      IsRemoved(alerts'[i], x)
               PROVE  libtorrent'[x] # alerts'[i].handle
    BY DEF RemovedIsGone, IsRemoved
  <2>1. CASE i \in 1 .. Len(alerts)
    BY <2>1, <1>1 DEF PostsInOrder
  <2>2. CASE i \in Len(alerts) + 1 .. Len(alerts')
    BY <2>2, <1>newest DEF IsMembership
  <2> QED BY <1>3, <2>1, <2>2
<1>7. MapBehindAlerts'
  <2> SUFFICES ASSUME NEW x \in InfoHash, NEW i \in 1 .. Len(alerts'),
                      IsMembership(alerts'[i], x)
               PROVE  torrents[x].handle <= alerts'[i].handle
    BY <1>2 DEF MapBehindAlerts, IsMembership, IsAdded, IsRemoved
  <2>1. CASE i \in 1 .. Len(alerts)
    BY <2>1, <1>1 DEF OrderCore, MapBehindAlerts
  <2>2. CASE i \in Len(alerts) + 1 .. Len(alerts')
    <3>1. /\ \A g \in Handle : handles[g] = x => g <= alerts'[i].handle
          /\ alerts'[i].handle \in Nat
      BY <2>2, <1>newest
    <3>2. CASE torrents[x].handle = NoHandle
      BY <3>1, <3>2 DEF NoHandle
    <3>3. CASE torrents[x].handle # NoHandle
      BY <3>1, <3>3 DEF OrderCore, MapNamesItsTorrents
    <3> QED BY <3>2, <3>3
  <2> QED BY <1>3, <2>1, <2>2
<1>8. AlertsInOrder'
  <2> SUFFICES ASSUME NEW x \in InfoHash,
                      NEW i \in 1 .. Len(alerts'), NEW j \in 1 .. Len(alerts'),
                      i < j,
                      IsMembership(alerts'[i], x), IsMembership(alerts'[j], x)
               PROVE  /\ alerts'[i].handle <= alerts'[j].handle
                      /\ IsRemoved(alerts'[i], x) => alerts'[i].handle < alerts'[j].handle
    BY DEF AlertsInOrder, IsMembership, IsAdded, IsRemoved
  <2>1. CASE j \in 1 .. Len(alerts)
    <3>1. i \in 1 .. Len(alerts)
      BY <2>1, <1>2
    <3> QED BY <2>1, <3>1, <1>1 DEF OrderCore, AlertsInOrder
  <2>2. CASE j \in Len(alerts) + 1 .. Len(alerts')
    <3>1. /\ j - Len(alerts) = 1
          /\ \A g \in Handle : handles[g] = x => g <= alerts'[j].handle
          /\ \A k \in 1 .. Len(alerts) :
                IsRemoved(alerts[k], x) => alerts[k].handle # alerts'[j].handle
          /\ alerts'[j].handle \in Nat
      BY <2>2, <1>newest
    <3>2. i \in 1 .. Len(alerts)
      BY <3>1, <1>2, <2>2
    <3>3. alerts'[i] = alerts[i] /\ alerts[i].handle \in Nat
      BY <3>2, <1>1, Types
    <3>4. alerts[i].handle \in Handle /\ handles[alerts[i].handle] = x
      BY <3>2, <3>3 DEF OrderCore, AlertsNameTheirTorrent, IsMembership, IsAdded, IsRemoved
    <3> QED BY <3>1, <3>2, <3>3, <3>4
  <2> QED BY <1>3, <2>1, <2>2
<1> QED BY <1>4, <1>5, <1>6, <1>7, <1>8 DEF OrderCore, PostsInOrder

(* What the handler of the first alert may do to the map.                  *)
MapFollows ==
    \A x \in InfoHash :
        \/ torrents'[x] = torrents[x]
        \/ torrents'[x] = NoTorrent
        \/ torrents'[x].handle = alerts[1].handle /\ IsMembership(alerts[1], x)

LEMMA ConsumeOrder ==
    ASSUME TypeInv, OrderCore, NEW k \in 1 .. batch, Consumed(k),
           UNCHANGED <<handles, alive, libtorrent>>, MapFollows
    PROVE  OrderCore'
<1>1. /\ Len(alerts) \in Nat /\ batch \in 0 .. Len(alerts)
      /\ Len(alerts') = Len(alerts) - k
      /\ \A i \in 1 .. Len(alerts') : alerts'[i] = alerts[i + k]
      /\ handles' = handles /\ alive' = alive /\ libtorrent' = libtorrent
  BY Types DEF Consumed
<1>2. \A i \in 1 .. Len(alerts') : i + k \in 1 .. Len(alerts) /\ 1 < i + k
  BY <1>1
<1>3. \A i, j \in 1 .. Len(alerts') : i < j => i + k < j + k
  BY <1>1
<1>4. 1 \in 1 .. Len(alerts) /\ alerts[1].handle \in Nat
  BY <1>1, Types
<1>5. SessionIsNewest'
  BY <1>1 DEF OrderCore, SessionIsNewest, Handle, NoHandle
<1>6. AlertsNameTheirTorrent'
  <2> SUFFICES ASSUME NEW i \in 1 .. Len(alerts'),
                      \/ \E x \in InfoHash : IsMembership(alerts'[i], x)
                      \/ IsClaim(alerts'[i]) /\ Claimed(alerts'[i]) # NoHandle
               PROVE  /\ alerts'[i].handle \in Handle
                      /\ handles[alerts'[i].handle] = alerts'[i].infoHash
    BY <1>1 DEF AlertsNameTheirTorrent, IsAdded, IsRemoved, IsMembership, IsClaim,
                Claimed, NoHandle, Handle
  <2> QED BY <1>1, <1>2 DEF OrderCore, AlertsNameTheirTorrent
<1>7. MapNamesItsTorrents'
  <2> SUFFICES ASSUME NEW x \in InfoHash
               PROVE  IF torrents'[x].handle = NoHandle
                      THEN torrents'[x] = NoTorrent
                      ELSE torrents'[x].handle \in Handle /\ handles[torrents'[x].handle] = x
    BY <1>1 DEF MapNamesItsTorrents, Handle, NoTorrent, NoHandle
  <2>1. CASE torrents'[x] = torrents[x]
    BY <2>1 DEF OrderCore, MapNamesItsTorrents
  <2>2. CASE torrents'[x] = NoTorrent
    BY <2>2 DEF NoTorrent
  <2>3. CASE torrents'[x].handle = alerts[1].handle /\ IsMembership(alerts[1], x)
    <3>1. alerts[1].handle \in Handle /\ handles[alerts[1].handle] = x
      BY <2>3, <1>4 DEF OrderCore, AlertsNameTheirTorrent, IsMembership, IsAdded, IsRemoved
    <3>2. alerts[1].handle # NoHandle
      BY <3>1, Types
    <3> QED BY <2>3, <3>1, <3>2
  <2> QED BY <2>1, <2>2, <2>3 DEF MapFollows
<1>8. AlertsInOrder'
  <2> SUFFICES ASSUME NEW x \in InfoHash,
                      NEW i \in 1 .. Len(alerts'), NEW j \in 1 .. Len(alerts'),
                      i < j,
                      IsMembership(alerts'[i], x), IsMembership(alerts'[j], x)
               PROVE  /\ alerts'[i].handle <= alerts'[j].handle
                      /\ IsRemoved(alerts'[i], x) => alerts'[i].handle < alerts'[j].handle
    BY DEF AlertsInOrder, IsMembership, IsAdded, IsRemoved
  <2> QED BY <1>1, <1>2, <1>3 DEF OrderCore, AlertsInOrder
<1>9. MapBehindAlerts'
  <2> SUFFICES ASSUME NEW x \in InfoHash, NEW i \in 1 .. Len(alerts'),
                      IsMembership(alerts'[i], x)
               PROVE  torrents'[x].handle <= alerts'[i].handle
    BY DEF MapBehindAlerts, IsMembership, IsAdded, IsRemoved
  <2> DEFINE m == i + k
  <2>1. /\ m \in 1 .. Len(alerts) /\ 1 < m /\ alerts'[i] = alerts[m]
        /\ alerts[m].handle \in Nat
    BY <1>1, <1>2, Types
  <2> HIDE DEF m
  <2>2. CASE torrents'[x] = torrents[x]
    BY <2>1, <2>2 DEF OrderCore, MapBehindAlerts
  <2>3. CASE torrents'[x] = NoTorrent
    BY <2>1, <2>3 DEF NoTorrent, NoHandle
  <2>4. CASE torrents'[x].handle = alerts[1].handle /\ IsMembership(alerts[1], x)
    BY <2>1, <2>4, <1>4 DEF OrderCore, AlertsInOrder
  <2> QED BY <2>2, <2>3, <2>4 DEF MapFollows
<1>10. RemovedIsGone'
  <2> SUFFICES ASSUME NEW x \in InfoHash, NEW i \in 1 .. Len(alerts'),
                      IsRemoved(alerts'[i], x)
               PROVE  libtorrent[x] # alerts'[i].handle
    BY <1>1 DEF RemovedIsGone, IsRemoved
  <2> QED BY <1>1, <1>2 DEF OrderCore, RemovedIsGone
<1> QED BY <1>5, <1>6, <1>7, <1>8, <1>9, <1>10 DEF OrderCore

-----------------------------------------------------------------------------
(* Agreement: what the alerts before a position will make of the map.      *)

(* An alert that is about no torrent of x does not count for x.  (Stated   *)
(* of the next state, where it is needed.)                                 *)
LEMMA AgreesBeyond ==
    ASSUME Len(alerts') \in Nat, NEW x, NEW c, NEW n \in 1 .. Len(alerts'),
           Agrees(x, c, n)', ~IsMembership(alerts'[n], x)
    PROVE  Agrees(x, c, n + 1)'
<1>0. /\ c \in alive' =>
            \/ torrents'[x].handle = c
            \/ \E i \in 1 .. n - 1 : IsAdded(alerts'[i], x) /\ alerts'[i].handle = c
      /\ torrents'[x].handle \notin {NoHandle, c} =>
            \E j \in 1 .. n - 1 :
               IsRemoved(alerts'[j], x) /\ alerts'[j].handle = torrents'[x].handle
      /\ \A i \in 1 .. n - 1 : IsAdded(alerts'[i], x) /\ alerts'[i].handle # c =>
            \E j \in i + 1 .. n - 1 :
               IsRemoved(alerts'[j], x) /\ alerts'[j].handle = alerts'[i].handle
      /\ \A j \in 1 .. n - 1 : IsMembership(alerts'[j], x) /\ c # NoHandle =>
            /\ alerts'[j].handle <= c
            /\ IsRemoved(alerts'[j], x) => alerts'[j].handle # c
  BY DEF Agrees, IsMembership, IsAdded, IsRemoved, NoHandle
<1>1. n \in Nat /\ \A i \in 1 .. n + 1 - 1 : i \in 1 .. n - 1 \/ i = n
  OBVIOUS
<1>2. \A i \in 1 .. n - 1 : i \in 1 .. n + 1 - 1
  BY <1>1
<1>3. \A i \in 1 .. n - 1 : \A j \in i + 1 .. n - 1 : j \in i + 1 .. n + 1 - 1
  BY <1>1
<1>4. ~IsAdded(alerts'[n], x) /\ ~IsRemoved(alerts'[n], x)
  BY DEF IsMembership
<1>5. c \in alive' =>
         \/ torrents'[x].handle = c
         \/ \E i \in 1 .. n + 1 - 1 : IsAdded(alerts'[i], x) /\ alerts'[i].handle = c
  BY <1>0, <1>2
<1>6. torrents'[x].handle \notin {NoHandle, c} =>
         \E j \in 1 .. n + 1 - 1 :
            IsRemoved(alerts'[j], x) /\ alerts'[j].handle = torrents'[x].handle
  BY <1>0, <1>2
<1>7. ASSUME NEW i \in 1 .. n + 1 - 1, IsAdded(alerts'[i], x), alerts'[i].handle # c
      PROVE  \E j \in i + 1 .. n + 1 - 1 :
                IsRemoved(alerts'[j], x) /\ alerts'[j].handle = alerts'[i].handle
  <2>1. i \in 1 .. n - 1
    BY <1>1, <1>4, <1>7
  <2> QED BY <2>1, <1>0, <1>3, <1>7
<1>8. \A j \in 1 .. n + 1 - 1 : IsMembership(alerts'[j], x) /\ c # NoHandle =>
         /\ alerts'[j].handle <= c
         /\ IsRemoved(alerts'[j], x) => alerts'[j].handle # c
  BY <1>0, <1>1
<1> QED BY <1>5, <1>6, <1>7, <1>8
        DEF Agrees, IsMembership, IsAdded, IsRemoved, NoHandle

(* The handler of the first alert has done with the map what the alert     *)
(* says: of a torrent that came, either it was entered, or it was passed   *)
(* over because it is freed or the map has one already.                    *)
Followed(x) ==
    \/ ~IsMembership(alerts[1], x) /\ torrents'[x] = torrents[x]
    \/ /\ IsAdded(alerts[1], x) /\ torrents'[x] = torrents[x]
       /\ alerts[1].handle \in alive => torrents[x].handle # NoHandle
    \/ /\ IsAdded(alerts[1], x) /\ torrents[x].handle = NoHandle
       /\ torrents'[x].handle = alerts[1].handle
    \/ IsRemoved(alerts[1], x) /\ torrents'[x].handle = NoHandle

LEMMA ConsumeAgrees ==
    ASSUME TypeInv, OrderCore, batch > 0, Consumed(1),
           UNCHANGED <<handles, alive, libtorrent>>,
           NEW x \in InfoHash, Followed(x),
           NEW c \in Nat, NEW n \in 2 .. Len(alerts) + 1, Agrees(x, c, n)
    PROVE  Agrees(x, c, n - 1)'
<1>1. /\ Len(alerts) \in Nat /\ n \in Nat
      /\ \A i \in 1 .. n - 1 - 1 : /\ alerts'[i] = alerts[i + 1]
                                  /\ i + 1 \in 1 .. n - 1
                                  /\ i + 1 \in 1 .. Len(alerts)
      /\ alive' = alive
  <2>1. Len(alerts) \in Nat
    BY Types
  <2>2. n \in Nat /\ 2 <= n /\ n <= Len(alerts) + 1
    BY <2>1
  <2>3. \A i \in 1 .. n - 1 - 1 : /\ i + 1 \in 1 .. n - 1
                                /\ i + 1 \in 1 .. Len(alerts)
                                /\ i \in 1 .. Len(alerts) - 1
    BY <2>1, <2>2
  <2> QED BY <2>1, <2>2, <2>3 DEF Consumed
<1>2. /\ 1 \in 1 .. n - 1 /\ 1 \in 1 .. Len(alerts)
      /\ \A j \in 1 .. n - 1 : j # 1 =>
            /\ j - 1 \in 1 .. n - 1 - 1 /\ j \in 1 .. Len(alerts)
            /\ 1 < j /\ alerts'[j - 1] = alerts[j]
  <2>1. \A j \in 1 .. n - 1 : j # 1 =>
            /\ j - 1 \in 1 .. n - 1 - 1 /\ j \in 1 .. Len(alerts)
            /\ 1 < j /\ j - 1 + 1 = j
    BY <1>1
  <2> QED BY <1>1, <2>1
<1>3. /\ \A i \in 1 .. Len(alerts) : alerts[i].handle \in Nat
      /\ torrents[x].handle \in Nat
      /\ \A h \in alive : h # NoHandle
  BY Types
<1>4. \A j \in 2 .. n - 1 : IsMembership(alerts[1], x) /\ IsMembership(alerts[j], x) =>
         /\ alerts[1].handle <= alerts[j].handle
         /\ IsRemoved(alerts[1], x) => alerts[1].handle < alerts[j].handle
  BY <1>1, <1>2 DEF OrderCore, AlertsInOrder
<1>5. IsMembership(alerts[1], x) => torrents[x].handle <= alerts[1].handle
  BY <1>2 DEF OrderCore, MapBehindAlerts
<1>6. ~(IsAdded(alerts[1], x) /\ IsRemoved(alerts[1], x))
  BY DEF IsAdded, IsRemoved
<1>7. ASSUME c \in alive
      PROVE  \/ torrents'[x].handle = c
             \/ \E i \in 1 .. n - 1 - 1 : IsAdded(alerts'[i], x) /\ alerts'[i].handle = c
  <2>1. c # NoHandle
    BY <1>3, <1>7
  <2>2. CASE \E i \in 1 .. n - 1 : i # 1 /\ IsAdded(alerts[i], x) /\ alerts[i].handle = c
    BY <2>2, <1>2
  <2>3. CASE IsAdded(alerts[1], x) /\ alerts[1].handle = c
    <3>1. CASE torrents'[x] = torrents[x] /\ torrents[x].handle # NoHandle
      <4>1. CASE torrents[x].handle # c
        <5>1. PICK j \in 1 .. n - 1 :
                 IsRemoved(alerts[j], x) /\ alerts[j].handle = torrents[x].handle
          BY <3>1, <4>1 DEF Agrees
        <5>2. j # 1 /\ IsMembership(alerts[j], x) /\ IsMembership(alerts[1], x)
          BY <5>1, <2>3, <1>6 DEF IsMembership
        <5>3. j \in 2 .. n - 1
          BY <5>2, <1>2
        <5>4. alerts[1].handle <= alerts[j].handle
          BY <5>2, <5>3, <1>4
        <5> QED BY <5>1, <5>2, <5>4, <4>1, <2>3, <1>3, <1>5
      <4>2. CASE torrents[x].handle = c
        BY <4>2, <3>1
      <4> QED BY <4>1, <4>2
    <3>2. CASE torrents'[x].handle = alerts[1].handle
      BY <3>2, <2>3
    <3> QED BY <3>1, <3>2, <2>3, <1>6, <1>7 DEF Followed, IsMembership
  <2>4. CASE torrents[x].handle = c
    <3>1. CASE IsRemoved(alerts[1], x)
      <4>1. alerts[1].handle <= c /\ alerts[1].handle # c
        BY <3>1, <2>1, <1>2 DEF Agrees, IsMembership
      <4> QED BY <4>1, <3>1, <2>4, <1>2, <1>3, <1>5 DEF IsMembership
    <3>2. CASE ~IsRemoved(alerts[1], x)
      BY <3>2, <2>1, <2>4 DEF Followed
    <3> QED BY <3>1, <3>2
  <2> QED BY <2>2, <2>3, <2>4, <1>7 DEF Agrees
<1>8. ASSUME torrents'[x].handle \notin {NoHandle, c}
      PROVE  \E j \in 1 .. n - 1 - 1 :
                IsRemoved(alerts'[j], x) /\ alerts'[j].handle = torrents'[x].handle
  <2>1. PICK j \in 1 .. n - 1 :
           /\ j # 1 /\ IsRemoved(alerts[j], x)
           /\ alerts[j].handle = torrents'[x].handle
    <3>1. CASE torrents'[x] = torrents[x] /\ ~IsRemoved(alerts[1], x)
      BY <3>1, <1>8 DEF Agrees
    <3>2. CASE IsAdded(alerts[1], x) /\ torrents'[x].handle = alerts[1].handle
      <4>1. PICK j \in 1 + 1 .. n - 1 :
               IsRemoved(alerts[j], x) /\ alerts[j].handle = alerts[1].handle
        BY <3>2, <1>2, <1>8 DEF Agrees
      <4>2. j # 1 /\ j \in 1 .. n - 1
        BY <1>1
      <4> QED BY <4>1, <4>2, <3>2
    <3> QED BY <3>1, <3>2, <1>6, <1>8 DEF Followed, IsMembership
  <2> QED BY <2>1, <1>2
<1>9. ASSUME NEW i \in 1 .. n - 1 - 1, IsAdded(alerts'[i], x), alerts'[i].handle # c
      PROVE  \E j \in i + 1 .. n - 1 - 1 :
                IsRemoved(alerts'[j], x) /\ alerts'[j].handle = alerts'[i].handle
  <2>1. /\ i + 1 \in 1 .. n - 1 /\ IsAdded(alerts[i + 1], x)
        /\ alerts[i + 1].handle # c /\ alerts'[i] = alerts[i + 1]
    BY <1>1, <1>9
  <2>2. PICK j \in i + 1 + 1 .. n - 1 :
           IsRemoved(alerts[j], x) /\ alerts[j].handle = alerts[i + 1].handle
    BY <2>1 DEF Agrees
  <2>3. j \in 1 .. n - 1 /\ j # 1 /\ j - 1 \in i + 1 .. n - 1 - 1
    BY <1>1
  <2>4. alerts'[j - 1] = alerts[j]
    BY <2>3, <1>2
  <2> QED BY <2>1, <2>2, <2>3, <2>4
<1>10. ASSUME NEW j \in 1 .. n - 1 - 1, IsMembership(alerts'[j], x), c # NoHandle
       PROVE  /\ alerts'[j].handle <= c
              /\ IsRemoved(alerts'[j], x) => alerts'[j].handle # c
  BY <1>1, <1>10 DEF Agrees
<1> QED BY <1>1, <1>7, <1>8, <1>9, <1>10
        DEF Agrees, IsMembership, IsAdded, IsRemoved, NoHandle

(* Agreement is kept by a step of the network thread, up to the position   *)
(* of the first alert it posts.                                            *)
LEMMA PostAgrees ==
    ASSUME TypeInv, NEW posted \in Seq(Alert), Post(posted),
           NEW x \in InfoHash, NEW c \in Nat, NEW n \in 1 .. Len(alerts) + 1,
           c \in alive' => c \in alive,
           Agrees(x, c, n)
    PROVE  Agrees(x, c, n)'
<1>1. TypeOK
  BY DEF TypeInv
<1>2. /\ \A i \in 1 .. Len(alerts) : alerts'[i] = alerts[i]
      /\ torrents' = torrents /\ Len(alerts) \in Nat
  BY <1>1, PostKeepsType, Types DEF Post, mapVars
<1>3. \A i \in 1 .. n - 1 : i \in 1 .. Len(alerts)
  BY <1>2
<1>4. \A i \in 1 .. n - 1 : \A j \in i + 1 .. n - 1 : j \in 1 .. Len(alerts)
  BY <1>2
<1>5. \A i \in 1 .. n - 1 : alerts'[i] = alerts[i]
  BY <1>2, <1>3
<1>6. \A i \in 1 .. n - 1 : \A j \in i + 1 .. n - 1 : alerts'[j] = alerts[j]
  BY <1>2, <1>4
<1>7. c \in alive' => \/ torrents'[x].handle = c
                      \/ \E i \in 1 .. n - 1 : IsAdded(alerts'[i], x) /\ alerts'[i].handle = c
  BY <1>2, <1>5 DEF Agrees
<1>8. torrents'[x].handle \notin {NoHandle, c} =>
         \E j \in 1 .. n - 1 :
            IsRemoved(alerts'[j], x) /\ alerts'[j].handle = torrents'[x].handle
  BY <1>2, <1>5 DEF Agrees
<1>9. \A i \in 1 .. n - 1 : IsAdded(alerts'[i], x) /\ alerts'[i].handle # c =>
         \E j \in i + 1 .. n - 1 :
            IsRemoved(alerts'[j], x) /\ alerts'[j].handle = alerts'[i].handle
  BY <1>5, <1>6 DEF Agrees
<1>10. \A j \in 1 .. n - 1 : IsMembership(alerts'[j], x) /\ c # NoHandle =>
         /\ alerts'[j].handle <= c
         /\ IsRemoved(alerts'[j], x) => alerts'[j].handle # c
  BY <1>5 DEF Agrees
<1> QED BY <1>7, <1>8, <1>9, <1>10
        DEF Agrees, IsMembership, IsAdded, IsRemoved, NoHandle

(* Agreement is about these variables only.                                *)
LEMMA QuietAgrees ==
    ASSUME UNCHANGED <<alerts, torrents>>, alive' \subseteq alive,
           NEW x, NEW c, NEW n, Agrees(x, c, n)
    PROVE  Agrees(x, c, n)'
BY DEF Agrees, IsMembership, IsAdded, IsRemoved, NoHandle

(* Complete', one torrent and one position at a time.                      *)
LEMMA CompletePrime ==
    ASSUME ~lost' =>
             /\ \A x \in InfoHash : \A c, n :
                    c = libtorrent'[x] /\ n = Len(alerts') + 1 => Agrees(x, c, n)'
             /\ \A i \in 1 .. Len(alerts') : \A x, c :
                    /\ IsClaim(alerts'[i])
                    /\ x = alerts'[i].infoHash /\ c = Claimed(alerts'[i])
                    => Agrees(x, c, i)'
    PROVE  Complete'
<1> SUFFICES ASSUME ~lost'
             PROVE  /\ \A x \in InfoHash : Agrees(x, libtorrent[x], Len(alerts) + 1)'
                    /\ \A i \in 1 .. Len(alerts') :
                          (IsClaim(alerts[i]) => Agrees(alerts[i].infoHash, Claimed(alerts[i]), i))'
  BY DEF Complete
<1>1. ASSUME NEW x \in InfoHash
      PROVE  Agrees(x, libtorrent[x], Len(alerts) + 1)'
  <2>1. \A c, n : c = libtorrent'[x] /\ n = Len(alerts') + 1 => Agrees(x, c, n)'
    OBVIOUS
  <2> QED BY <2>1 DEF Agrees
<1>2. ASSUME NEW i \in 1 .. Len(alerts'), IsClaim(alerts[i])'
      PROVE  Agrees(alerts[i].infoHash, Claimed(alerts[i]), i)'
  <2>1. IsClaim(alerts'[i])
    BY <1>2
  <2>2. \A x, c : x = alerts'[i].infoHash /\ c = Claimed(alerts'[i]) => Agrees(x, c, i)'
    BY <2>1
  <2> QED BY <2>2 DEF Agrees
<1> QED BY <1>1, <1>2

LEMMA QuietComplete ==
    ASSUME Complete, UNCHANGED <<libtorrent, alerts, torrents, lost>>,
           alive' \subseteq alive
    PROVE  Complete'
<1> SUFFICES ASSUME ~lost'
             PROVE /\ \A x \in InfoHash : \A c, n :
                         c = libtorrent'[x] /\ n = Len(alerts') + 1 => Agrees(x, c, n)'
                   /\ \A i \in 1 .. Len(alerts') : \A x, c :
                         /\ IsClaim(alerts'[i])
                         /\ x = alerts'[i].infoHash /\ c = Claimed(alerts'[i])
                         => Agrees(x, c, i)'
  BY CompletePrime
<1>1. ~lost
  OBVIOUS
<1>2. ASSUME NEW x \in InfoHash, NEW c, NEW n, c = libtorrent'[x], n = Len(alerts') + 1
      PROVE  Agrees(x, c, n)'
  <2>1. Agrees(x, c, n)
    BY <1>1, <1>2 DEF Complete
  <2> QED BY <2>1, QuietAgrees
<1>3. ASSUME NEW i \in 1 .. Len(alerts'), NEW x, NEW c, IsClaim(alerts'[i]),
             x = alerts'[i].infoHash, c = Claimed(alerts'[i])
      PROVE  Agrees(x, c, i)'
  <2>1. Agrees(x, c, i)
    BY <1>1, <1>3 DEF Complete
  <2> QED BY <2>1, QuietAgrees
<1> QED BY <1>2, <1>3

-----------------------------------------------------------------------------
(* Complete is kept by what the network thread posts.                      *)

(* The alerts after one more is posted.                                    *)
LEMMA Posted ==
    ASSUME TypeInv, NEW posted \in Seq(Alert), Post(posted), ~lost'
    PROVE  /\ ~lost /\ torrents' = torrents /\ pc' = pc /\ batch' = batch
           /\ Len(alerts) \in Nat /\ Len(posted) \in Nat
           /\ Len(alerts') = Len(alerts) + Len(posted)
           /\ \A i \in 1 .. Len(alerts) : alerts'[i] = alerts[i]
           /\ \A k \in 1 .. Len(posted) : alerts'[Len(alerts) + k] = posted[k]
<1>1. TypeOK
  BY DEF TypeInv
<1>2. /\ Len(alerts) \in Nat /\ Len(posted) \in Nat
      /\ torrents' = torrents /\ pc' = pc /\ batch' = batch
  BY Types DEF Post, mapVars
<1>3. /\ ~lost /\ Len(alerts') = Len(alerts) + Len(posted)
      /\ \A i \in 1 .. Len(alerts) : alerts'[i] = alerts[i]
      /\ \A i \in Len(alerts) + 1 .. Len(alerts') : alerts'[i] = posted[i - Len(alerts)]
  BY <1>1, PostKeepsType
<1>4. ASSUME NEW k \in 1 .. Len(posted)
      PROVE  alerts'[Len(alerts) + k] = posted[k]
  <2>1. /\ Len(alerts) + k \in Len(alerts) + 1 .. Len(alerts')
        /\ Len(alerts) + k - Len(alerts) = k
    BY <1>2, <1>3
  <2> QED BY <2>1, <1>3
<1> QED BY <1>2, <1>3, <1>4

(* After the announcement of the torrent c of x, the session's now, the    *)
(* alerts up to it agree with the session.                                 *)
LEMMA AddAgrees ==
    ASSUME TypeInv, OrderCore, OrderCore', NEW x \in InfoHash,
           NEW c \in Nat, c # NoHandle,
           NEW posted \in Seq(Alert), Post(posted), ~lost', Len(posted) >= 1,
           IsAdded(posted[1], x), posted[1].handle = c,
           libtorrent'[x] = c, libtorrent[x] \in {NoHandle, c},
           NEW n \in Nat, n = Len(alerts), Agrees(x, libtorrent[x], n + 1)
    PROVE  Agrees(x, c, n + 2)'
<1>1. /\ torrents' = torrents /\ n \in Nat
      /\ n + 1 \in 1 .. Len(alerts')
      /\ \A i \in 1 .. n : alerts'[i] = alerts[i] /\ i \in 1 .. Len(alerts')
      /\ alerts'[n + 1] = posted[1]
  <2>1. 1 \in 1 .. Len(posted)
    BY Posted
  <2> QED BY <2>1, Posted
<1>2. /\ IsAdded(alerts'[n + 1], x) /\ IsMembership(alerts'[n + 1], x)
      /\ alerts'[n + 1].handle = c
      /\ ~IsRemoved(alerts'[n + 1], x)
  BY <1>1 DEF IsMembership, IsAdded, IsRemoved
<1>3. /\ torrents[x].handle \notin {NoHandle, libtorrent[x]} =>
            \E j \in 1 .. n : IsRemoved(alerts[j], x) /\ alerts[j].handle = torrents[x].handle
      /\ \A i \in 1 .. n : IsAdded(alerts[i], x) /\ alerts[i].handle # libtorrent[x] =>
            \E j \in i + 1 .. n : IsRemoved(alerts[j], x) /\ alerts[j].handle = alerts[i].handle
  <2>1. n + 1 - 1 = n
    BY <1>1
  <2> QED BY <2>1 DEF Agrees
<1>4. \A i \in 1 .. n + 1 : i \in 1 .. n \/ i = n + 1
  BY <1>1
<1>5. /\ \A j \in 1 .. n : j \in 1 .. n + 1 /\ j < n + 1
      /\ \A i \in 1 .. n : \A j \in i + 1 .. n : j \in i + 1 .. n + 1 /\ j \in 1 .. n
      /\ n + 1 \in 1 .. n + 1
  BY <1>1
<1>6. \E i \in 1 .. n + 1 : IsAdded(alerts'[i], x) /\ alerts'[i].handle = c
  BY <1>2, <1>5
<1>7. torrents'[x].handle \notin {NoHandle, c} =>
         \E j \in 1 .. n + 1 :
            IsRemoved(alerts'[j], x) /\ alerts'[j].handle = torrents'[x].handle
  BY <1>1, <1>3, <1>5
<1>8. ASSUME NEW i \in 1 .. n + 1, IsAdded(alerts'[i], x), alerts'[i].handle # c
      PROVE  \E j \in i + 1 .. n + 1 :
                IsRemoved(alerts'[j], x) /\ alerts'[j].handle = alerts'[i].handle
  <2>1. i \in 1 .. n /\ IsAdded(alerts[i], x) /\ alerts[i].handle # c /\ alerts'[i] = alerts[i]
    BY <1>1, <1>2, <1>4, <1>8
  <2>2. i \in 1 .. Len(alerts) /\ IsMembership(alerts[i], x)
    BY <2>1 DEF IsMembership
  <2>3. alerts[i].handle \in Handle
    BY <2>2 DEF OrderCore, AlertsNameTheirTorrent
  <2>4. alerts[i].handle # NoHandle
    BY <2>3, Types
  <2>5. PICK j \in i + 1 .. n : IsRemoved(alerts[j], x) /\ alerts[j].handle = alerts[i].handle
    BY <2>1, <2>4, <1>3
  <2> QED BY <2>1, <2>5, <1>1, <1>5
<1>9. \A j \in 1 .. n + 1 : IsMembership(alerts'[j], x) =>
         /\ alerts'[j].handle <= c
         /\ IsRemoved(alerts'[j], x) => alerts'[j].handle # c
  <2> SUFFICES ASSUME NEW j \in 1 .. n + 1, IsMembership(alerts'[j], x)
               PROVE  /\ alerts'[j].handle <= c
                      /\ IsRemoved(alerts'[j], x) => alerts'[j].handle # c
    OBVIOUS
  <2>1. CASE j = n + 1
    BY <2>1, <1>2
  <2>2. CASE j \in 1 .. n
    <3>1. \A i, k \in 1 .. Len(alerts') :
             i < k /\ IsMembership(alerts'[i], x) /\ IsMembership(alerts'[k], x) =>
                /\ alerts'[i].handle <= alerts'[k].handle
                /\ IsRemoved(alerts'[i], x) => alerts'[i].handle < alerts'[k].handle
      BY DEF OrderCore, AlertsInOrder, IsMembership, IsAdded, IsRemoved
    <3>2. alerts'[j] = alerts[j] /\ alerts[j].handle \in Nat
      BY <2>2, <1>1, Types
    <3> QED BY <2>2, <3>1, <3>2, <1>1, <1>2, <1>5
  <2> QED BY <2>1, <2>2, <1>4
<1>10. n + 2 - 1 = n + 1
  BY <1>1
<1> QED BY <1>6, <1>7, <1>8, <1>9, <1>10
       DEF Agrees, IsMembership, IsAdded, IsRemoved, NoHandle

(* After the announcement that the torrent of x was removed, the alerts up *)
(* to it agree with a session without it.                                  *)
LEMMA RemoveAgrees ==
    ASSUME TypeInv, NEW x \in InfoHash,
           NEW posted \in Seq(Alert), Post(posted), ~lost', Len(posted) >= 1,
           IsRemoved(posted[1], x), posted[1].handle = libtorrent[x],
           alive' = alive,
           NEW n \in Nat, n = Len(alerts), Agrees(x, libtorrent[x], n + 1)
    PROVE  Agrees(x, NoHandle, n + 2)'
<1>1. /\ torrents' = torrents /\ n \in Nat
      /\ \A i \in 1 .. n : alerts'[i] = alerts[i]
      /\ alerts'[n + 1] = posted[1]
  <2>1. 1 \in 1 .. Len(posted)
    BY Posted
  <2> QED BY <2>1, Posted
<1>2. /\ IsRemoved(alerts'[n + 1], x)
      /\ alerts'[n + 1].handle = libtorrent[x]
      /\ ~IsAdded(alerts'[n + 1], x)
  BY <1>1 DEF IsAdded, IsRemoved
<1>3. /\ torrents[x].handle \notin {NoHandle, libtorrent[x]} =>
            \E j \in 1 .. n : IsRemoved(alerts[j], x) /\ alerts[j].handle = torrents[x].handle
      /\ \A i \in 1 .. n : IsAdded(alerts[i], x) /\ alerts[i].handle # libtorrent[x] =>
            \E j \in i + 1 .. n : IsRemoved(alerts[j], x) /\ alerts[j].handle = alerts[i].handle
  <2>1. n + 1 - 1 = n
    BY <1>1
  <2> QED BY <2>1 DEF Agrees
<1>4. \A i \in 1 .. n + 1 : i \in 1 .. n \/ i = n + 1
  BY <1>1
<1>5. /\ \A j \in 1 .. n : j \in 1 .. n + 1
      /\ \A i \in 1 .. n : \A j \in i + 1 .. n : j \in i + 1 .. n + 1 /\ j \in 1 .. n
      /\ \A i \in 1 .. n : n + 1 \in i + 1 .. n + 1
      /\ n + 1 \in 1 .. n + 1
  BY <1>1
<1>6. NoHandle \notin alive'
  BY Types
<1>7. torrents'[x].handle # NoHandle =>
         \E j \in 1 .. n + 1 :
            IsRemoved(alerts'[j], x) /\ alerts'[j].handle = torrents'[x].handle
  BY <1>1, <1>2, <1>3, <1>5
<1>8. ASSUME NEW i \in 1 .. n + 1, IsAdded(alerts'[i], x)
      PROVE  \E j \in i + 1 .. n + 1 :
                IsRemoved(alerts'[j], x) /\ alerts'[j].handle = alerts'[i].handle
  <2>1. i \in 1 .. n /\ IsAdded(alerts[i], x) /\ alerts'[i] = alerts[i]
    BY <1>1, <1>2, <1>4, <1>8
  <2>2. CASE alerts[i].handle = libtorrent[x]
    BY <2>1, <2>2, <1>2, <1>5
  <2>3. CASE alerts[i].handle # libtorrent[x]
    <3>1. PICK j \in i + 1 .. n : IsRemoved(alerts[j], x) /\ alerts[j].handle = alerts[i].handle
      BY <2>1, <2>3, <1>3
    <3> QED BY <2>1, <3>1, <1>1, <1>5
  <2> QED BY <2>2, <2>3
<1>9. n + 2 - 1 = n + 1
  BY <1>1
<1> QED BY <1>6, <1>7, <1>8, <1>9
       DEF Agrees, IsMembership, IsAdded, IsRemoved, NoHandle

(* What a step of the network thread posts and has done to the session: p  *)
(* alerts (one or none) about a torrent that came or went, after which the *)
(* alerts agree with the session, then others that claim just that.        *)
LEMMA PostComplete ==
    ASSUME TypeInv, Complete,
           NEW posted \in Seq(Alert), Post(posted),
           \A h \in 0 .. Len(handles) : h \in alive' => h \in alive,
           NEW n \in Nat, n = Len(alerts),
           NEW p \in 0 .. 1, p <= Len(posted), Len(posted) <= 2,
           ~lost' => \A y \in InfoHash : \A c :
                        c = libtorrent'[y] => Agrees(y, c, n + p + 1)',
           \A k \in 1 .. p : ~IsClaim(posted[k]),
           \A k \in p + 1 .. Len(posted) :
               /\ \A y \in InfoHash : ~IsMembership(posted[k], y)
               /\ IsClaim(posted[k]) =>
                     Claimed(posted[k]) = libtorrent'[posted[k].infoHash]
    PROVE  Complete'
<1> SUFFICES ASSUME ~lost'
             PROVE /\ \A x \in InfoHash : \A c, m :
                         c = libtorrent'[x] /\ m = Len(alerts') + 1 => Agrees(x, c, m)'
                   /\ \A i \in 1 .. Len(alerts') : \A x, c :
                         /\ IsClaim(alerts'[i])
                         /\ x = alerts'[i].infoHash /\ c = Claimed(alerts'[i])
                         => Agrees(x, c, i)'
  BY CompletePrime
<1>1. /\ ~lost /\ Len(posted) \in Nat
      /\ Len(alerts') = n + Len(posted) /\ Len(alerts') \in Nat
      /\ \A i \in 1 .. n : alerts'[i] = alerts[i]
      /\ \A k \in 1 .. Len(posted) : alerts'[n + k] = posted[k]
  BY Posted
<1>2. ASSUME NEW y \in InfoHash, NEW c, c = libtorrent'[y]
      PROVE  /\ Agrees(y, c, n + p + 1)'
             /\ p + 1 <= Len(posted) => Agrees(y, c, n + p + 1 + 1)'
             /\ p + 2 <= Len(posted) => Agrees(y, c, n + p + 1 + 1 + 1)'
  <2>1. Agrees(y, c, n + p + 1)'
    BY <1>2
  <2>2. ASSUME p + 1 <= Len(posted) PROVE Agrees(y, c, n + p + 1 + 1)'
    <3>1. /\ n + p + 1 \in 1 .. Len(alerts') /\ p + 1 \in 1 .. Len(posted)
          /\ p + 1 \in p + 1 .. Len(posted) /\ n + p + 1 = n + (p + 1)
      BY <2>2, <1>1
    <3>2. ~IsMembership(alerts'[n + p + 1], y)
      BY <3>1, <1>1
    <3> QED BY <2>1, <3>1, <3>2, <1>1, AgreesBeyond
  <2>3. ASSUME p + 2 <= Len(posted) PROVE Agrees(y, c, n + p + 1 + 1 + 1)'
    <3>1. /\ n + p + 1 + 1 \in 1 .. Len(alerts') /\ p + 2 \in 1 .. Len(posted)
          /\ p + 2 \in p + 1 .. Len(posted) /\ n + p + 1 + 1 = n + (p + 2)
          /\ p + 1 <= Len(posted)
      BY <2>3, <1>1
    <3>2. ~IsMembership(alerts'[n + p + 1 + 1], y)
      BY <3>1, <1>1
    <3> QED BY <2>2, <3>1, <3>2, <1>1, AgreesBeyond
  <2> QED BY <2>1, <2>2, <2>3
<1>3. ASSUME NEW y \in InfoHash, NEW c, NEW m, c = libtorrent'[y],
             m \in n + p + 1 .. n + Len(posted) + 1
      PROVE  Agrees(y, c, m)'
  <2>1. \/ m = n + p + 1
        \/ m = n + p + 1 + 1 /\ p + 1 <= Len(posted)
        \/ m = n + p + 1 + 1 + 1 /\ p + 2 <= Len(posted)
    BY <1>1, <1>3
  <2> QED BY <2>1, <1>2, <1>3
<1>4. ASSUME NEW x \in InfoHash, NEW c, NEW m, c = libtorrent'[x], m = Len(alerts') + 1
      PROVE  Agrees(x, c, m)'
  <2>1. m \in n + p + 1 .. n + Len(posted) + 1
    BY <1>1, <1>4
  <2> QED BY <2>1, <1>3, <1>4
<1>5. ASSUME NEW i \in 1 .. Len(alerts'), NEW x, NEW c, IsClaim(alerts'[i]),
             x = alerts'[i].infoHash, c = Claimed(alerts'[i])
      PROVE  Agrees(x, c, i)'
  <2>1. CASE i \in 1 .. n
    <3>1. alerts'[i] = alerts[i] /\ x \in InfoHash
      BY <2>1, <1>1, <1>5, Types
    <3>2. Agrees(x, c, i)
      BY <2>1, <3>1, <1>1, <1>5 DEF Complete
    <3>3. c \in 0 .. Len(handles) /\ Len(handles) \in Nat
      <4>1. Len(handles) \in Nat
        BY Types
      <4>2. i \in 1 .. Len(alerts)
        BY <2>1
      <4>3. alerts[i].handle \in 0 .. Len(handles)
        BY <4>2 DEF TypeInv, HandlesKnown
      <4>4. c = NoHandle \/ c = alerts[i].handle
        BY <3>1, <1>5 DEF Claimed
      <4> QED BY <4>1, <4>3, <4>4 DEF NoHandle
    <3>4. c \in Nat /\ i \in 1 .. Len(alerts) + 1 /\ (c \in alive' => c \in alive)
      BY <2>1, <3>3
    <3> QED BY <3>1, <3>2, <3>4, PostAgrees
  <2>2. CASE i \in n + 1 .. Len(alerts')
    <3> DEFINE k == i - n
    <3>1. k \in 1 .. Len(posted) /\ i = n + k
      BY <2>2, <1>1
    <3> HIDE DEF k
    <3>2. alerts'[i] = posted[k]
      BY <3>1, <1>1
    <3>3. k \in p + 1 .. Len(posted)
      <4>1. k \notin 1 .. p
        BY <3>2, <1>5
      <4> QED BY <3>1, <4>1, <1>1
    <3>4. posted[k].infoHash \in InfoHash
      <4>1. posted[k] \in Alert
        BY <3>1, ElementOfSeq
      <4> QED BY <4>1 DEF Alert
    <3>5. x \in InfoHash /\ c = libtorrent'[x]
      BY <3>2, <3>3, <3>4, <1>5
    <3>6. i \in n + p + 1 .. n + Len(posted) + 1
      BY <3>1, <3>3, <1>1
    <3> QED BY <3>5, <3>6, <1>3
  <2>3. i \in 1 .. n \/ i \in n + 1 .. Len(alerts')
    BY <1>1
  <2> QED BY <2>1, <2>2, <2>3
<1> QED BY <1>4, <1>5

(* Complete is kept by a handler that ends having followed its alert.      *)
LEMMA EndComplete ==
    ASSUME TypeInv, OrderCore, Complete, NEW k \in 1 .. batch, Consumed(k),
           UNCHANGED <<handles, alive, libtorrent>>,
           \A x \in InfoHash : Followed(x)
    PROVE  Complete'
<1> SUFFICES ASSUME ~lost'
             PROVE /\ \A x \in InfoHash : \A c, m :
                         c = libtorrent'[x] /\ m = Len(alerts') + 1 => Agrees(x, c, m)'
                   /\ \A i \in 1 .. Len(alerts') : \A x, c :
                         /\ IsClaim(alerts'[i])
                         /\ x = alerts'[i].infoHash /\ c = Claimed(alerts'[i])
                         => Agrees(x, c, i)'
  BY CompletePrime
<1>1. /\ ~lost /\ k = 1 /\ Consumed(1) /\ Len(alerts) \in Nat /\ batch > 0
      /\ Len(alerts') = Len(alerts) - 1 /\ Len(alerts) >= 1
      /\ \A i \in 1 .. Len(alerts) - 1 : alerts'[i] = alerts[i + 1]
  BY Types DEF Consumed
<1>2. ASSUME NEW x \in InfoHash, NEW c, NEW m, c = libtorrent'[x], m = Len(alerts') + 1
      PROVE  Agrees(x, c, m)'
  <2>1. c \in Nat /\ c = libtorrent[x]
    BY <1>2, Types
  <2>2. /\ m + 1 \in 2 .. Len(alerts) + 1 /\ m + 1 = Len(alerts) + 1
        /\ m + 1 - 1 = m /\ m \in Nat
    BY <1>1, <1>2
  <2>3. Agrees(x, c, m + 1)
    BY <2>1, <2>2, <1>1 DEF Complete
  <2>4. Followed(x)
    OBVIOUS
  <2>5. Agrees(x, c, m + 1 - 1)'
    BY <2>1, <2>2, <2>3, <2>4, <1>1, ConsumeAgrees
  <2> QED BY <2>2, <2>5
<1>3. ASSUME NEW i \in 1 .. Len(alerts'), NEW x, NEW c, IsClaim(alerts'[i]),
             x = alerts'[i].infoHash, c = Claimed(alerts'[i])
      PROVE  Agrees(x, c, i)'
  <2>1. /\ i + 1 \in 1 .. Len(alerts) /\ alerts'[i] = alerts[i + 1]
        /\ i + 1 \in 2 .. Len(alerts) + 1 /\ i + 1 - 1 = i
    BY <1>1
  <2>2. x \in InfoHash /\ c \in Nat
    <3>1. alerts[i + 1].infoHash \in InfoHash /\ alerts[i + 1].handle \in Nat
      BY <2>1, Types
    <3>2. c = NoHandle \/ c = alerts[i + 1].handle
      BY <2>1, <1>3 DEF Claimed
    <3> QED BY <2>1, <3>1, <3>2, <1>3 DEF NoHandle
  <2>3. Agrees(x, c, i + 1)
    BY <2>1, <1>1, <1>3 DEF Complete
  <2>4. Agrees(x, c, i + 1 - 1)'
    BY <2>1, <2>2, <2>3, <1>1, ConsumeAgrees
  <2> QED BY <2>1, <2>4
<1> QED BY <1>2, <1>3

-----------------------------------------------------------------------------
(* Order and Complete are kept by every action.                            *)

ViewInv == TypeInv /\ Order /\ Complete

(* Whatever handler ends, the program counter is at no read of a handle.   *)
LEMMA NoHandlerRuns == pc \in {"ready", "exited"} => HandlerHasItsAlert
BY DEF HandlerHasItsAlert

LEMMA NoHandlerRunsNext == pc' \in {"ready", "exited"} => HandlerHasItsAlert'
BY DEF HandlerHasItsAlert

LEMMA OrderPartsNext == Order' <=> OrderCore' /\ HandlerHasItsAlert'
BY OrderParts, PTL

-----------------------------------------------------------------------------
(* The handlers.                                                           *)

LEMMA FollowedIsFollows ==
    ASSUME \A x \in InfoHash : Followed(x), TypeInv, OrderCore,
           \A x \in InfoHash : torrents'[x].handle = NoHandle => torrents'[x] = NoTorrent
    PROVE  MapFollows
<1> SUFFICES ASSUME NEW x \in InfoHash
             PROVE  \/ torrents'[x] = torrents[x]
                    \/ torrents'[x] = NoTorrent
                    \/ torrents'[x].handle = alerts[1].handle /\ IsMembership(alerts[1], x)
  BY DEF MapFollows
<1> QED BY DEF Followed, IsMembership

(* A handler that ends, having done with the map what its alert says.      *)
LEMMA EndKeepsView ==
    ASSUME ViewInv, batch > 0, Advance \/ Abort \/ ReturnFromUser,
           UNCHANGED <<handles, alive, libtorrent>>,
           \A x \in InfoHash : Followed(x),
           \A x \in InfoHash : torrents'[x].handle = NoHandle => torrents'[x] = NoTorrent
    PROVE  Order' /\ Complete'
<1>1. TypeInv /\ TypeOK /\ OrderCore /\ Complete
  BY OrderParts DEF ViewInv, TypeInv
<1>2. PICK k \in 1 .. batch : Consumed(k)
  BY <1>1, ReturnConsumes
<1>3. pc' \in {"ready", "exited"}
  BY <1>1, ReturnConsumes
<1>4. MapFollows
  BY <1>1, FollowedIsFollows
<1>5. OrderCore'
  BY <1>1, <1>2, <1>4, ConsumeOrder
<1>6. Complete'
  BY <1>1, <1>2, EndComplete
<1> QED BY <1>3, <1>5, <1>6, NoHandlerRunsNext, OrderPartsNext

(* A handler that leaves the map alone, as its alert demands.              *)
LEMMA EndUnchangedKeepsView ==
    ASSUME ViewInv, batch > 0, Advance \/ Abort \/ ReturnFromUser,
           UNCHANGED <<handles, alive, libtorrent, torrents>>,
           \A x \in InfoHash :
               \/ ~IsMembership(alerts[1], x)
               \/ /\ IsAdded(alerts[1], x)
                  /\ alerts[1].handle \in alive => torrents[x].handle # NoHandle
               \/ IsRemoved(alerts[1], x) /\ torrents[x].handle = NoHandle
    PROVE  Order' /\ Complete'
<1>1. \A x \in InfoHash : Followed(x)
  BY DEF Followed
<1>2. \A x \in InfoHash : torrents'[x].handle = NoHandle => torrents'[x] = NoTorrent
  BY OrderParts DEF ViewInv, OrderCore, MapNamesItsTorrents
<1> QED BY <1>1, <1>2, EndKeepsView

(* A handler that goes on to its next read of the handle.                  *)
LEMMA ContinueKeepsView ==
    ASSUME ViewInv, NEW at, Continue(at), UNCHANGED <<handles, alive, libtorrent>>,
           HandlerHasItsAlert'
    PROVE  Order' /\ Complete'
<1>1. /\ UNCHANGED <<alerts, torrents, lost>>
      /\ OrderCore /\ Complete
  BY OrderParts DEF Continue, mapVars, ViewInv
<1>2. SessionIsNewest'
  BY <1>1 DEF OrderCore, SessionIsNewest, Handle, NoHandle
<1>3. OrderCore'
  BY <1>1, <1>2, QuietOrder
<1>4. Complete'
  BY <1>1, QuietComplete
<1> QED BY <1>3, <1>4, OrderPartsNext

LEMMA AddTorrentAlertKeepsView == ViewInv /\ AddTorrentAlert => Order' /\ Complete'
<1> SUFFICES ASSUME ViewInv, AddTorrentAlert PROVE Order' /\ Complete'
  OBVIOUS
<1> DEFINE a == Head(alerts)
           x == InfoHashOf(a.handle)
<1>1. /\ batch > 0 /\ TypeInv /\ OrderCore
      /\ a = alerts[1] /\ 1 \in 1 .. Len(alerts)
      /\ a \in Alert /\ a.type = "add_torrent"
      /\ UNCHANGED <<handles, alive, libtorrent>>
  BY FirstAlert, OrderParts DEF AddTorrentAlert, Processing, networkVars, ViewInv
<1>2. \A y \in InfoHash : IsMembership(a, y) =>
         a.ok /\ a.infoHash = y /\ a.handle \in Handle /\ handles[a.handle] = y
  BY <1>1 DEF OrderCore, AlertsNameTheirTorrent, IsMembership, IsAdded, IsRemoved
<1>3. a.ok => a.infoHash \in InfoHash /\ IsMembership(a, a.infoHash)
  BY <1>1 DEF Alert, IsMembership, IsAdded
<1>4. CASE /\ ~a.ok \/ x = EmptyInfoHash \/ Has(x)
           /\ Advance /\ UNCHANGED <<mapVars, callbacks>>
  <2>1. torrents' = torrents
    BY <1>4 DEF mapVars
  <2>2. ASSUME NEW y \in InfoHash, IsMembership(a, y)
        PROVE  IsAdded(a, y) /\ (a.handle \in alive => torrents[y].handle # NoHandle)
    <3>1. IsAdded(a, y)
      BY <1>1, <2>2 DEF IsMembership, IsAdded, IsRemoved
    <3>2. ASSUME a.handle \in alive PROVE torrents[y].handle # NoHandle
      <4>1. x = y /\ x # EmptyInfoHash
        BY <1>2, <2>2, <3>2, EmptyInfoHashAssumption DEF InfoHashOf
      <4>2. Has(y)
        BY <4>1, <1>2, <1>4, <2>2
      <4> QED BY <4>2, <1>1 DEF OrderCore, MapNamesItsTorrents, Has
    <3> QED BY <3>1, <3>2
  <2> HIDE DEF a
  <2> QED BY <1>1, <1>4, <2>1, <2>2, EndUnchangedKeepsView
<1>5. CASE a.ok /\ x # EmptyInfoHash /\ ~Has(x) /\ Continue("construct")
  <2>1. a.handle \in alive /\ x = handles[a.handle] /\ x = a.infoHash
    BY <1>2, <1>3, <1>5 DEF InfoHashOf
  <2>2. ~Has(a.infoHash)' /\ UNCHANGED alerts /\ pc' = "construct"
    BY <1>5, <2>1 DEF Continue, mapVars, Has, NoTorrent, NoHandle
  <2>3. HandlerHasItsAlert'
    BY <1>1, <1>5, <2>2 DEF HandlerHasItsAlert, Has, NoTorrent, NoHandle
  <2> QED BY <1>1, <1>5, <2>3, ContinueKeepsView
<1> QED BY <1>4, <1>5 DEF AddTorrentAlert

LEMMA ConstructTorrentKeepsView == ViewInv /\ ConstructTorrent => Order' /\ Complete'
<1> SUFFICES ASSUME ViewInv, ConstructTorrent PROVE Order' /\ Complete'
  OBVIOUS
<1> DEFINE a == alerts[1]
           h == a.handle
           x == handles[h]
<1>1. /\ TypeInv /\ TypeOK /\ OrderCore /\ HandlerHasItsAlert /\ pc = "construct"
      /\ UNCHANGED <<handles, alive, libtorrent>>
  BY OrderParts DEF ConstructTorrent, networkVars, ViewInv, TypeInv
<1>2. batch > 0
  BY <1>1 DEF TypeOK
<1>3. /\ Head(alerts) = a /\ 1 \in 1 .. Len(alerts) /\ a \in Alert
      /\ a.type = "add_torrent" /\ a.ok
  BY <1>1, <1>2, FirstAlert DEF HandlerHasItsAlert
<1>4. /\ a.infoHash \in InfoHash /\ IsAdded(a, a.infoHash)
      /\ a.infoHash = x /\ h \in Handle /\ h # NoHandle
  <2>1. a.infoHash \in InfoHash /\ IsAdded(a, a.infoHash)
    BY <1>3 DEF Alert, IsAdded
  <2>2. a.infoHash = x /\ h \in Handle
    BY <1>1, <1>3, <2>1 DEF OrderCore, AlertsNameTheirTorrent, IsMembership
  <2> QED BY <2>1, <2>2, <1>1, Types
<1>5. torrents[x].handle = NoHandle
  BY <1>1, <1>3, <1>4 DEF HandlerHasItsAlert, Has, NoTorrent
<1>6. /\ torrents' = [torrents EXCEPT ![x] = [handle |-> h, infoHash |-> InfoHashOf(h)]]
      /\ ReturnFromUser
  BY <1>3 DEF ConstructTorrent
<1>7. /\ torrents'[x].handle = h
      /\ \A y \in InfoHash : y # x => torrents'[y] = torrents[y]
  BY <1>1, <1>4, <1>6 DEF TypeOK
<1> HIDE DEF a, h, x
<1>8. ASSUME NEW y \in InfoHash PROVE Followed(y)
  <2>1. CASE y = x
    BY <2>1, <1>4, <1>5, <1>7 DEF Followed, a, h
  <2>2. CASE y # x
    BY <2>2, <1>3, <1>4, <1>7 DEF Followed, IsMembership, IsAdded, IsRemoved, a
  <2> QED BY <2>1, <2>2
<1>9. ASSUME NEW y \in InfoHash, torrents'[y].handle = NoHandle
      PROVE  torrents'[y] = NoTorrent
  BY <1>1, <1>4, <1>7, <1>9 DEF OrderCore, MapNamesItsTorrents
<1> QED BY <1>1, <1>2, <1>6, <1>8, <1>9, EndKeepsView

LEMMA TorrentRemovedAlertKeepsView ==
    ViewInv /\ TorrentRemovedAlert => Order' /\ Complete'
<1> SUFFICES ASSUME ViewInv, TorrentRemovedAlert PROVE Order' /\ Complete'
  OBVIOUS
<1> DEFINE a == alerts[1]
           x == a.infoHash
<1>1. /\ TypeInv /\ TypeOK /\ OrderCore /\ batch > 0
      /\ UNCHANGED <<handles, alive, libtorrent>>
      /\ Head(alerts).type = "torrent_removed"
  BY OrderParts DEF TorrentRemovedAlert, Processing, networkVars, ViewInv, TypeInv
<1>2. /\ Head(alerts) = a /\ a \in Alert /\ a.type = "torrent_removed"
      /\ x \in InfoHash
      /\ \A y \in InfoHash : IsMembership(a, y) <=> y = x
      /\ IsRemoved(a, x)
  BY <1>1, FirstAlert DEF Alert, IsMembership, IsAdded, IsRemoved
<1>3. CASE Has(x) /\ Forget(x) /\ ReturnFromUser
  <2>1. torrents' = [torrents EXCEPT ![x] = NoTorrent]
    BY <1>3 DEF Forget
  <2>2. /\ torrents'[x] = NoTorrent
        /\ \A y \in InfoHash : y # x => torrents'[y] = torrents[y]
    BY <2>1, <1>1, <1>2 DEF TypeOK
  <2>3. ASSUME NEW y \in InfoHash PROVE Followed(y)
    BY <1>2, <2>2 DEF Followed, NoTorrent
  <2>4. ASSUME NEW y \in InfoHash, torrents'[y].handle = NoHandle
        PROVE  torrents'[y] = NoTorrent
    BY <1>1, <2>2, <2>4 DEF OrderCore, MapNamesItsTorrents
  <2> QED BY <1>1, <1>3, <2>3, <2>4, EndKeepsView
<1>4. CASE ~Has(x) /\ Advance /\ UNCHANGED mapVars
  <2>1. torrents[x].handle = NoHandle /\ torrents' = torrents
    BY <1>2, <1>4 DEF Has, NoTorrent, mapVars
  <2> HIDE DEF a
  <2>2. \A y \in InfoHash : ~IsMembership(a, y) \/ (IsRemoved(a, y) /\ torrents[y].handle = NoHandle)
    BY <1>2, <2>1
  <2> QED BY <1>1, <1>4, <2>1, <2>2, EndUnchangedKeepsView DEF a
<1> QED BY <1>2, <1>3, <1>4 DEF TorrentRemovedAlert

(* The handlers of all other alerts.                                       *)
LEMMA EndOtherKeepsView ==
    ASSUME ViewInv, batch > 0, Advance \/ Abort \/ ReturnFromUser,
           UNCHANGED networkVars, UNCHANGED mapVars,
           Head(alerts).type \notin {"add_torrent", "torrent_removed"}
    PROVE  Order' /\ Complete'
<1>1. Head(alerts) = alerts[1]
  BY FirstAlert DEF ViewInv
<1>2. \A x \in InfoHash : ~IsMembership(alerts[1], x)
  BY <1>1 DEF IsMembership, IsAdded, IsRemoved
<1>3. UNCHANGED <<handles, alive, libtorrent, torrents>>
  BY DEF networkVars, mapVars
<1> QED BY <1>2, <1>3, EndUnchangedKeepsView

LEMMA DispatchKeepsView == ViewInv /\ DispatchTorrentAlert => Order' /\ Complete'
<1> SUFFICES ASSUME ViewInv, DispatchTorrentAlert PROVE Order' /\ Complete'
  OBVIOUS
<1>1. /\ batch > 0 /\ UNCHANGED networkVars /\ UNCHANGED mapVars
      /\ Head(alerts).type \notin {"add_torrent", "torrent_removed"}
      /\ Advance \/ ReturnFromUser
  BY DEF DispatchTorrentAlert, Processing
<1> QED BY <1>1, EndOtherKeepsView

LEMMA AddResultKeepsView == ViewInv /\ AddResult => Order' /\ Complete'
<1> SUFFICES ASSUME ViewInv, AddResult PROVE Order' /\ Complete'
  OBVIOUS
<1>1. /\ batch > 0 /\ UNCHANGED networkVars
      /\ Head(alerts).type = "add_result"
  BY DEF AddResult, Processing
<1>2. CASE Head(alerts).ok /\ Continue("resolve")
  <2>1. HandlerHasItsAlert'
    BY <1>1, <1>2 DEF HandlerHasItsAlert, Continue
  <2>2. UNCHANGED <<handles, alive, libtorrent>>
    BY <1>1 DEF networkVars
  <2> QED BY <1>2, <2>1, <2>2, ContinueKeepsView
<1>3. CASE ReturnFromUser /\ UNCHANGED mapVars
  BY <1>1, <1>3, EndOtherKeepsView
<1> QED BY <1>2, <1>3 DEF AddResult

LEMMA ResolveKeepsView == ViewInv /\ ResolveAddedTorrent => Order' /\ Complete'
<1> SUFFICES ASSUME ViewInv, ResolveAddedTorrent PROVE Order' /\ Complete'
  OBVIOUS
<1>1. pc = "resolve" /\ UNCHANGED networkVars /\ UNCHANGED mapVars
  BY DEF ResolveAddedTorrent
<1>2. batch > 0 /\ Head(alerts).type = "add_result"
  BY <1>1, OrderParts DEF ViewInv, TypeInv, TypeOK, HandlerHasItsAlert
<1>3. Abort \/ ReturnFromUser
  BY DEF ResolveAddedTorrent, Throws
<1> QED BY <1>1, <1>2, <1>3, EndOtherKeepsView

LEMMA RemoveResultKeepsView == ViewInv /\ RemoveResult => Order' /\ Complete'
<1> SUFFICES ASSUME ViewInv, RemoveResult PROVE Order' /\ Complete'
  OBVIOUS
<1>1. /\ batch > 0 /\ UNCHANGED networkVars /\ UNCHANGED mapVars
      /\ Head(alerts).type = "remove_result" /\ ReturnFromUser
  BY DEF RemoveResult, Processing
<1> QED BY <1>1, EndOtherKeepsView

LEMMA AlertListenerThrowsKeepsView ==
    ViewInv /\ AlertListenerThrows => Order' /\ Complete'
<1> SUFFICES ASSUME ViewInv, AlertListenerThrows PROVE Order' /\ Complete'
  OBVIOUS
<1>1. /\ UNCHANGED <<handles, alive, libtorrent, torrents>>
      /\ pc' \in {"ready", "exited"} /\ lost' = TRUE /\ batch > 0
      /\ alerts' = SubSeq(alerts, batch + 1, Len(alerts)) /\ batch' = 0
  BY DEF AlertListenerThrows, networkVars, mapVars
<1>2. Consumed(batch) /\ batch \in 1 .. batch
  BY <1>1, DropBatchConsumes DEF ViewInv, TypeInv, TypeOK
<1>3. OrderCore'
  BY <1>1, <1>2, OrderParts, ConsumeOrder DEF ViewInv, MapFollows
<1>4. Complete'
  BY <1>1 DEF Complete
<1> QED BY <1>1, <1>3, <1>4, NoHandlerRunsNext, OrderPartsNext

-----------------------------------------------------------------------------
(* The user, and the timer that pops the alerts.                           *)

LEMMA QuietKeepsView ==
    ASSUME ViewInv, UNCHANGED <<handles, libtorrent, alerts, torrents, pc, lost>>,
           alive' \subseteq alive, SessionIsNewest'
    PROVE  Order' /\ Complete'
<1>1. OrderCore'
  BY OrderParts, QuietOrder DEF ViewInv
<1>2. HandlerHasItsAlert'
  BY DEF ViewInv, Order, HandlerHasItsAlert, Has, NoTorrent, NoHandle
<1>3. Complete'
  BY QuietComplete DEF ViewInv
<1> QED BY <1>1, <1>2, <1>3, OrderPartsNext

LEMMA SameSessionIsNewest ==
    ASSUME ViewInv, UNCHANGED networkVars
    PROVE  SessionIsNewest'
BY DEF ViewInv, Order, SessionIsNewest, networkVars, Handle, NoHandle

LEMMA UserKeepsView == ViewInv /\ User => Order' /\ Complete'
<1> SUFFICES ASSUME ViewInv, User PROVE Order' /\ Complete'
  OBVIOUS
<1>1. UNCHANGED networkVars /\ UNCHANGED <<alerts, torrents, pc, lost>>
  BY DEF User, AddTorrent, RemoveTorrent, Submit, mapVars
<1>2. UNCHANGED <<handles, libtorrent, alive>>
  BY <1>1 DEF networkVars
<1> QED BY <1>1, <1>2, SameSessionIsNewest, QuietKeepsView

LEMMA PopAlertsKeepsView == ViewInv /\ PopAlerts => Order' /\ Complete'
<1> SUFFICES ASSUME ViewInv, PopAlerts PROVE Order' /\ Complete'
  OBVIOUS
<1>1. UNCHANGED networkVars /\ UNCHANGED <<alerts, torrents, pc, lost>>
  BY DEF PopAlerts, mapVars
<1>2. UNCHANGED <<handles, libtorrent, alive>>
  BY <1>1 DEF networkVars
<1> QED BY <1>1, <1>2, SameSessionIsNewest, QuietKeepsView

LEMMA ExpireKeepsView ==
    ASSUME ViewInv, NEW h \in Handle, Expire(h)
    PROVE  Order' /\ Complete'
<1>1. /\ UNCHANGED <<handles, libtorrent, alerts, torrents, pc, lost>>
      /\ alive' = alive \ {h} /\ libtorrent[handles[h]] # h
  BY DEF Expire, mapVars
<1>2. SessionIsNewest'
  BY <1>1 DEF ViewInv, Order, SessionIsNewest, Handle, NoHandle
<1> QED BY <1>1, <1>2, QuietKeepsView

-----------------------------------------------------------------------------
(* The network thread.                                                     *)

LEMMA PostKeepsHandler ==
    ASSUME ViewInv, NEW posted \in Seq(Alert), Post(posted)
    PROVE  HandlerHasItsAlert'
<1>1. /\ TypeInv /\ TypeOK /\ HandlerHasItsAlert
      /\ pc' = pc /\ torrents' = torrents
  BY DEF ViewInv, TypeInv, Order, Post, mapVars
<1>2. CASE pc \in {"construct", "resolve"}
  <2>1. batch > 0
    BY <1>1, <1>2 DEF TypeOK
  <2>2. Head(alerts) = alerts[1] /\ 1 \in 1 .. Len(alerts) /\ Len(alerts) \in Nat
    BY <1>1, <2>1, FirstAlert, Types
  <2>3. alerts' \in Seq(Alert) /\ Len(alerts') >= Len(alerts) /\ alerts'[1] = alerts[1]
    BY <1>1, <2>2, PostKeepsType
  <2>4. Head(alerts') = Head(alerts)
    BY <2>2, <2>3
  <2> QED BY <1>1, <2>4 DEF HandlerHasItsAlert, Has, NoTorrent, NoHandle
<1>3. CASE pc \notin {"construct", "resolve"}
  BY <1>1, <1>3 DEF HandlerHasItsAlert
<1> QED BY <1>2, <1>3

(* A step that posts the news of one torrent, p of them, and then others.  *)
LEMMA PostKeepsView ==
    ASSUME ViewInv, NEW posted, PostsInOrder(posted),
           \A h \in 0 .. Len(handles) : h \in alive' => h \in alive,
           NEW p \in 0 .. 1, p <= Len(posted), Len(posted) <= 2,
           \A n \in Nat : n = Len(alerts) /\ OrderCore' /\ ~lost' =>
               \A y \in InfoHash : \A c :
                   c = libtorrent'[y] => Agrees(y, c, n + p + 1)',
           \A k \in 1 .. p : ~IsClaim(posted[k]),
           \A k \in p + 1 .. Len(posted) :
               /\ \A y \in InfoHash : ~IsMembership(posted[k], y)
               /\ IsClaim(posted[k]) =>
                     Claimed(posted[k]) = libtorrent'[posted[k].infoHash]
    PROVE  Order' /\ Complete'
<1>1. TypeInv /\ OrderCore /\ Complete /\ Len(alerts) \in Nat /\ Len(handles) \in Nat
  BY OrderParts, Types DEF ViewInv
<1>2. posted \in Seq(Alert) /\ Post(posted)
  BY DEF PostsInOrder
<1>3. OrderCore'
  BY <1>1, PostOrder
<1>4. HandlerHasItsAlert'
  BY <1>2, PostKeepsHandler
<1>5. Complete'
  <2> SUFFICES ASSUME NEW n \in Nat, n = Len(alerts) PROVE Complete'
    BY <1>1
  <2>1. ~lost' => \A y \in InfoHash : \A c :
           c = libtorrent'[y] => Agrees(y, c, n + p + 1)'
    BY <1>3
  <2> QED BY <1>1, <1>2, <2>1, PostComplete
<1> QED BY <1>3, <1>4, <1>5, OrderPartsNext

(* What a step does to the session, as far as PostsInOrder asks.           *)
SessionInOrder ==
    /\ SessionIsNewest'
    /\ \A h \in Handle : h \in Handle' /\ handles'[h] = handles[h]
    /\ \A x \in InfoHash : \A i \in 1 .. Len(alerts) :
           IsRemoved(alerts[i], x) => libtorrent'[x] # alerts[i].handle
    /\ \A h \in 0 .. Len(handles) : h \in alive' => h \in alive

LEMMA UnchangedInOrder ==
    ASSUME ViewInv, UNCHANGED networkVars
    PROVE  SessionInOrder
<1>1. SessionIsNewest' /\ UNCHANGED <<handles, alive, libtorrent>>
  BY SameSessionIsNewest DEF networkVars
<1>2. RemovedIsGone
  BY DEF ViewInv, Order
<1> QED BY <1>1, <1>2 DEF SessionInOrder, RemovedIsGone, Handle

LEMMA CreateInOrder ==
    ASSUME ViewInv, NEW x \in InfoHash, Create(x)
    PROVE  /\ SessionInOrder
           /\ NewHandle \in Handle' /\ handles'[NewHandle] = x
           /\ NewHandle \in Nat /\ NewHandle # NoHandle
           /\ libtorrent'[x] = NewHandle
           /\ \A y \in InfoHash : y # x => libtorrent'[y] = libtorrent[y]
           /\ \A g \in Handle : g <= NewHandle
           /\ \A i \in 1 .. Len(alerts) : alerts[i].handle # NewHandle
<1>1. /\ TypeInv /\ TypeOK /\ SessionIsNewest /\ RemovedIsGone /\ Len(handles) \in Nat
  BY Types DEF ViewInv, Order, TypeInv
<1>2. /\ Len(handles') = Len(handles) + 1
      /\ NewHandle \in Handle' /\ handles'[NewHandle] = x
      /\ \A h \in Handle : handles'[h] = handles[h]
  BY <1>1, CreateKeepsType
<1>3. /\ libtorrent[x] = NoHandle
      /\ libtorrent' = [libtorrent EXCEPT ![x] = NewHandle]
      /\ alive' = alive \union {NewHandle}
      /\ NewHandle = Len(handles) + 1
  BY DEF Create, NewHandle
<1>4. /\ libtorrent'[x] = NewHandle
      /\ \A y \in InfoHash : y # x => libtorrent'[y] = libtorrent[y]
  BY <1>1, <1>3 DEF TypeOK
<1>5. /\ \A h \in Handle : h \in Handle' /\ h \in Nat /\ h < NewHandle
      /\ \A h \in Handle' : h \in Handle \/ h = NewHandle
      /\ \A h \in 0 .. Len(handles) : h # NewHandle
      /\ NewHandle \in Nat /\ NewHandle # NoHandle
  BY <1>1, <1>2, <1>3 DEF Handle, NoHandle
<1>6. \A i \in 1 .. Len(alerts) : alerts[i].handle # NewHandle
  BY <1>1, <1>5 DEF TypeInv, HandlesKnown
<1>7. ASSUME NEW y \in InfoHash, libtorrent'[y] # NoHandle
      PROVE  /\ libtorrent'[y] \in alive'
             /\ handles'[libtorrent'[y]] = y
             /\ \A g \in Handle' : handles'[g] = y => g <= libtorrent'[y]
  <2>1. CASE y = x
    BY <2>1, <1>2, <1>3, <1>4, <1>5
  <2>2. CASE y # x
    <3>1. /\ libtorrent'[y] = libtorrent[y]
          /\ libtorrent[y] \in alive /\ handles[libtorrent[y]] = y
          /\ \A g \in Handle : handles[g] = y => g <= libtorrent[y]
      BY <2>2, <1>1, <1>4, <1>7 DEF SessionIsNewest
    <3>2. libtorrent[y] \in Handle
      BY <3>1, <1>1 DEF TypeOK
    <3> QED BY <2>2, <3>1, <3>2, <1>2, <1>3, <1>5
  <2> QED BY <2>1, <2>2
<1>8. SessionIsNewest'
  BY <1>7 DEF SessionIsNewest, NoHandle
<1>9. \A y \in InfoHash : \A i \in 1 .. Len(alerts) :
         IsRemoved(alerts[i], y) => libtorrent'[y] # alerts[i].handle
  BY <1>1, <1>4, <1>6 DEF RemovedIsGone
<1> QED BY <1>2, <1>3, <1>4, <1>5, <1>6, <1>8, <1>9 DEF SessionInOrder

LEMMA DeleteInOrder ==
    ASSUME ViewInv, NEW x \in InfoHash, Delete(x)
    PROVE  /\ SessionInOrder
           /\ libtorrent'[x] = NoHandle
           /\ \A y \in InfoHash : y # x => libtorrent'[y] = libtorrent[y]
           /\ libtorrent[x] \in Handle /\ handles[libtorrent[x]] = x
           /\ \A g \in Handle : handles[g] = x => g <= libtorrent[x]
<1>1. /\ TypeInv /\ TypeOK /\ SessionIsNewest /\ RemovedIsGone /\ AlertsNameTheirTorrent
  BY DEF ViewInv, Order, TypeInv
<1>2. /\ libtorrent[x] # NoHandle
      /\ libtorrent' = [libtorrent EXCEPT ![x] = NoHandle]
      /\ handles' = handles /\ alive' = alive
  BY DEF Delete
<1>3. /\ libtorrent'[x] = NoHandle
      /\ \A y \in InfoHash : y # x => libtorrent'[y] = libtorrent[y]
  BY <1>1, <1>2 DEF TypeOK
<1>4. SessionIsNewest'
  BY <1>1, <1>2, <1>3 DEF SessionIsNewest, Handle, NoHandle
<1>5. ASSUME NEW y \in InfoHash, NEW i \in 1 .. Len(alerts), IsRemoved(alerts[i], y)
      PROVE  libtorrent'[y] # alerts[i].handle
  <2>1. alerts[i].handle \in Handle
    BY <1>1, <1>5 DEF AlertsNameTheirTorrent, IsMembership
  <2>2. alerts[i].handle # NoHandle
    BY <2>1, <1>1, Types
  <2> QED BY <2>2, <1>1, <1>3, <1>5 DEF RemovedIsGone
<1>6. /\ libtorrent[x] \in Handle /\ handles[libtorrent[x]] = x
      /\ \A g \in Handle : handles[g] = x => g <= libtorrent[x]
  BY <1>1, <1>2 DEF SessionIsNewest, TypeOK
<1> QED BY <1>2, <1>3, <1>4, <1>5, <1>6 DEF SessionInOrder, Handle

(* The alerts agree as before with the session of another torrent.         *)
LEMMA OthersAgree ==
    ASSUME ViewInv, NEW posted \in Seq(Alert), Post(posted), ~lost',
           NEW n \in Nat, n = Len(alerts), SessionInOrder,
           NEW y \in InfoHash, NEW c, c = libtorrent'[y], libtorrent'[y] = libtorrent[y]
    PROVE  /\ Agrees(y, c, n + 1)'
           /\ Len(posted) >= 1 /\ ~IsMembership(posted[1], y) => Agrees(y, c, n + 2)'
<1>1. TypeInv /\ Complete /\ ~lost
  BY Posted DEF ViewInv
<1>2. c \in Nat /\ c \in 0 .. Len(handles) /\ n + 1 \in 1 .. Len(alerts) + 1
  BY <1>1, Types DEF Handle, NoHandle
<1>3. Agrees(y, c, n + 1)
  BY <1>1 DEF Complete
<1>4. c \in alive' => c \in alive
  BY <1>2 DEF SessionInOrder
<1>5. Agrees(y, c, n + 1)'
  BY <1>1, <1>2, <1>3, <1>4, PostAgrees
<1>6. ASSUME Len(posted) >= 1, ~IsMembership(posted[1], y)
      PROVE  Agrees(y, c, n + 2)'
  <2>1. 1 \in 1 .. Len(posted) /\ Len(alerts') = n + Len(posted) /\ Len(alerts') \in Nat
    BY <1>1, <1>6, Posted
  <2>2. alerts'[n + 1] = posted[1]
    BY <1>1, <2>1, Posted
  <2>3. n + 1 \in 1 .. Len(alerts') /\ n + 1 + 1 = n + 2
    BY <2>1
  <2> QED BY <1>5, <1>6, <2>1, <2>2, <2>3, AgreesBeyond
<1> QED BY <1>5, <1>6

(* Alerts that say of no torrent that it came or went.                     *)
IsChatter(posted) ==
    \A k \in 1 .. Len(posted) :
        /\ posted[k].type = "add_torrent" => ~posted[k].ok
        /\ posted[k].type # "torrent_removed"
        /\ IsClaim(posted[k]) =>
              /\ Claimed(posted[k]) = libtorrent[posted[k].infoHash]
              /\ Claimed(posted[k]) # NoHandle =>
                    /\ posted[k].handle \in Handle
                    /\ handles[posted[k].handle] = posted[k].infoHash

LEMMA ChatterKeepsView ==
    ASSUME ViewInv, NEW posted \in Seq(Alert), Post(posted), Len(posted) <= 2,
           UNCHANGED <<handles, alive, libtorrent>>, IsChatter(posted)
    PROVE  Order' /\ Complete'
<1>1. SessionInOrder /\ UNCHANGED <<handles, alive, libtorrent>>
  BY UnchangedInOrder DEF networkVars
<1>2. \A k \in 1 .. Len(posted) : \A y \in InfoHash : ~IsMembership(posted[k], y)
  BY DEF IsChatter, IsMembership, IsAdded, IsRemoved
<1>3. PostsInOrder(posted)
  <2>1. \A k \in 1 .. Len(posted) : ~\E y \in InfoHash : IsMembership(posted[k], y)
    BY <1>2
  <2>2. \A k \in 1 .. Len(posted) :
           IsClaim(posted[k]) /\ Claimed(posted[k]) # NoHandle =>
              /\ posted[k].handle \in Handle'
              /\ handles'[posted[k].handle] = posted[k].infoHash
    BY <1>1 DEF SessionInOrder, IsChatter
  <2> QED BY <1>1, <1>2, <2>1, <2>2 DEF PostsInOrder, SessionInOrder
<1>4. ASSUME NEW n \in Nat, n = Len(alerts), ~lost', NEW y \in InfoHash, NEW c,
             c = libtorrent'[y]
      PROVE  Agrees(y, c, n + 0 + 1)'
  <2>1. Agrees(y, c, n + 1)'
    BY <1>1, <1>4, OthersAgree
  <2>2. n + 0 + 1 = n + 1
    BY <1>4
  <2> QED BY <2>1, <2>2
<1>5. Len(posted) \in Nat /\ 0 \in 0 .. 1 /\ 0 <= Len(posted)
  OBVIOUS
<1>6. \A k \in 0 + 1 .. Len(posted) :
         /\ \A y \in InfoHash : ~IsMembership(posted[k], y)
         /\ IsClaim(posted[k]) => Claimed(posted[k]) = libtorrent'[posted[k].infoHash]
  BY <1>1, <1>2 DEF IsChatter
<1>7. \A k \in 1 .. 0 : ~IsClaim(posted[k])
  OBVIOUS
<1> QED BY <1>1, <1>3, <1>4, <1>5, <1>6, <1>7, PostKeepsView DEF SessionInOrder

(* The news that a torrent came, possibly with the answer to a request.    *)
IsNewsOfAdded(posted, c, x) ==
    \/ posted = <<Notification("add_torrent", c, x, TRUE)>>
    \/ \E req \in Request :
           /\ req.infoHash = x
           /\ posted = <<Notification("add_torrent", c, x, TRUE),
                         Result("add_result", c, req, TRUE)>>

SaysAdded(posted, c, x) ==
    /\ posted \in Seq(Alert) /\ Len(posted) \in 1 .. 2
    /\ IsAdded(posted[1], x) /\ ~IsRemoved(posted[1], x) /\ ~IsClaim(posted[1])
    /\ \A y : IsMembership(posted[1], y) => y = x
    /\ \A k \in 1 .. Len(posted) : posted[k].handle = c /\ posted[k].infoHash = x
    /\ \A k \in 2 .. Len(posted) :
           /\ \A y : ~IsMembership(posted[k], y)
           /\ Claimed(posted[k]) = c

LEMMA NewsOfAdded ==
    ASSUME NEW x \in InfoHash, NEW c \in Nat, c # NoHandle,
           NEW posted, IsNewsOfAdded(posted, c, x)
    PROVE  SaysAdded(posted, c, x)
<1> DEFINE A == Notification("add_torrent", c, x, TRUE)
           B(req) == Result("add_result", c, req, TRUE)
<1>1. A \in Alert /\ \A req \in Request : B(req) \in Alert
  BY NotificationType, ResultType DEF Results
<1>2. /\ IsAdded(A, x) /\ ~IsRemoved(A, x) /\ ~IsClaim(A)
      /\ \A y : IsMembership(A, y) => y = x
      /\ A.handle = c /\ A.infoHash = x
  BY DEF Notification, IsMembership, IsAdded, IsRemoved, IsClaim
<1>3. \A req \in Request : req.infoHash = x =>
         /\ \A y : ~IsMembership(B(req), y)
         /\ Claimed(B(req)) = c /\ B(req).handle = c /\ B(req).infoHash = x
  BY DEF Result, IsMembership, IsAdded, IsRemoved, Claimed
<1> HIDE DEF A, B
<1>4. CASE posted = <<A>>
  <2>1. posted \in Seq(Alert) /\ Len(posted) = 1 /\ posted[1] = A
    BY <1>1, <1>4, OneAlert
  <2> QED BY <1>2, <2>1 DEF SaysAdded
<1>5. ASSUME NEW req \in Request, req.infoHash = x, posted = <<A, B(req)>>
      PROVE  /\ posted \in Seq(Alert) /\ Len(posted) = 2
             /\ posted[1] = A /\ posted[2] = B(req)
  BY <1>1, <1>5, TwoAlerts
<1>6. CASE \E req \in Request : req.infoHash = x /\ posted = <<A, B(req)>>
  BY <1>2, <1>3, <1>5, <1>6 DEF SaysAdded
<1> QED BY <1>4, <1>6 DEF A, B, IsNewsOfAdded, SaysAdded

LEMMA AddKeepsView ==
    ASSUME ViewInv, NEW x \in InfoHash, NEW c \in Nat, c # NoHandle,
           NEW posted, Post(posted), IsNewsOfAdded(posted, c, x),
           SessionInOrder,
           c \in Handle', handles'[c] = x,
           libtorrent'[x] = c, libtorrent[x] \in {NoHandle, c},
           \A y \in InfoHash : y # x => libtorrent'[y] = libtorrent[y],
           \A g \in Handle : handles[g] = x => g <= c,
           \A i \in 1 .. Len(alerts) : IsRemoved(alerts[i], x) => alerts[i].handle # c
    PROVE  Order' /\ Complete'
<1>says. SaysAdded(posted, c, x)
  BY NewsOfAdded
<1>1. /\ posted \in Seq(Alert) /\ Len(posted) \in 1 .. 2
      /\ IsAdded(posted[1], x) /\ ~IsRemoved(posted[1], x) /\ ~IsClaim(posted[1])
      /\ \A y : IsMembership(posted[1], y) => y = x
      /\ \A k \in 1 .. Len(posted) : posted[k].handle = c /\ posted[k].infoHash = x
      /\ \A k \in 2 .. Len(posted) :
             /\ \A y : ~IsMembership(posted[k], y)
             /\ Claimed(posted[k]) = c
  BY <1>says DEF SaysAdded
<1>2. \A k \in 1 .. Len(posted) : k = 1 \/ k \in 2 .. Len(posted)
  BY <1>1
<1>3. PostsInOrder(posted)
  <2>1. ASSUME NEW k \in 1 .. Len(posted), NEW y \in InfoHash, IsMembership(posted[k], y)
        PROVE  /\ k = 1 /\ y = x /\ posted[k].handle = c
               /\ ~IsRemoved(posted[k], y)
    BY <1>1, <1>2, <2>1
  <2>2. \A k \in 1 .. Len(posted) : \A y \in InfoHash :
           IsMembership(posted[k], y) =>
               /\ k = 1
               /\ \A g \in Handle : handles[g] = y => g <= posted[k].handle
               /\ \A i \in 1 .. Len(alerts) :
                      IsRemoved(alerts[i], y) => alerts[i].handle # posted[k].handle
               /\ IsRemoved(posted[k], y) => libtorrent'[y] # posted[k].handle
    BY <2>1
  <2>3. \A k \in 1 .. Len(posted) :
           posted[k].handle \in Handle' /\ handles'[posted[k].handle] = posted[k].infoHash
    BY <1>1
  <2> QED BY <1>1, <2>2, <2>3 DEF PostsInOrder, SessionInOrder
<1>4. ASSUME NEW n \in Nat, n = Len(alerts), OrderCore', ~lost', NEW y \in InfoHash,
             NEW d, d = libtorrent'[y]
      PROVE  Agrees(y, d, n + 1 + 1)'
  <2>1. n + 1 + 1 = n + 2 /\ Len(posted) >= 1
    BY <1>1
  <2>2. CASE y = x
    <3>1. TypeInv /\ OrderCore /\ Complete /\ ~lost
      BY <1>1, <1>4, OrderParts, Posted DEF ViewInv
    <3>2. Agrees(x, libtorrent[x], n + 1)
      BY <3>1, <1>4 DEF Complete
    <3>3. posted[1].handle = c
      BY <1>1
    <3>4. Agrees(x, c, n + 2)'
      BY <3>1, <3>2, <3>3, <1>1, <1>4, <2>1, AddAgrees
    <3> QED BY <3>4, <2>1, <2>2, <1>4
  <2>3. CASE y # x
    BY <2>1, <2>3, <1>1, <1>4, OthersAgree
  <2> QED BY <2>2, <2>3
<1>5. \A k \in 1 + 1 .. Len(posted) :
         /\ \A y \in InfoHash : ~IsMembership(posted[k], y)
         /\ IsClaim(posted[k]) => Claimed(posted[k]) = libtorrent'[posted[k].infoHash]
  <2>1. \A k \in 1 + 1 .. Len(posted) : k \in 2 .. Len(posted) /\ k \in 1 .. Len(posted)
    BY <1>1
  <2> QED BY <1>1, <2>1
<1>6. 1 \in 0 .. 1 /\ 1 <= Len(posted) /\ Len(posted) <= 2
      /\ \A k \in 1 .. 1 : ~IsClaim(posted[k])
  BY <1>1
<1> QED BY <1>3, <1>4, <1>5, <1>6, PostKeepsView DEF SessionInOrder

(* The news that a torrent went, possibly with the answer to a request.    *)
IsNewsOfRemoved(posted, h, x) ==
    \/ posted = <<Notification("torrent_removed", h, x, TRUE)>>
    \/ \E req \in Request :
           /\ req.infoHash = x
           /\ posted = <<Notification("torrent_removed", h, x, TRUE),
                         Result("remove_result", h, req, TRUE)>>

SaysRemoved(posted, h, x) ==
    /\ posted \in Seq(Alert) /\ Len(posted) \in 1 .. 2
    /\ IsRemoved(posted[1], x) /\ ~IsClaim(posted[1])
    /\ \A y : IsMembership(posted[1], y) => y = x
    /\ \A k \in 1 .. Len(posted) : posted[k].handle = h /\ posted[k].infoHash = x
    /\ \A k \in 2 .. Len(posted) :
           /\ \A y : ~IsMembership(posted[k], y)
           /\ Claimed(posted[k]) = NoHandle

LEMMA NewsOfRemoved ==
    ASSUME NEW x \in InfoHash, NEW h \in Nat,
           NEW posted, IsNewsOfRemoved(posted, h, x)
    PROVE  SaysRemoved(posted, h, x)
<1> DEFINE A == Notification("torrent_removed", h, x, TRUE)
           B(req) == Result("remove_result", h, req, TRUE)
<1>1. A \in Alert /\ \A req \in Request : B(req) \in Alert
  BY NotificationType, ResultType DEF Results
<1>2. /\ IsRemoved(A, x) /\ ~IsClaim(A)
      /\ \A y : IsMembership(A, y) => y = x
      /\ A.handle = h /\ A.infoHash = x
  BY DEF Notification, IsMembership, IsAdded, IsRemoved, IsClaim
<1>3. \A req \in Request : req.infoHash = x =>
         /\ \A y : ~IsMembership(B(req), y)
         /\ Claimed(B(req)) = NoHandle /\ B(req).handle = h /\ B(req).infoHash = x
  BY DEF Result, IsMembership, IsAdded, IsRemoved, Claimed
<1> HIDE DEF A, B
<1>4. CASE posted = <<A>>
  <2>1. posted \in Seq(Alert) /\ Len(posted) = 1 /\ posted[1] = A
    BY <1>1, <1>4, OneAlert
  <2> QED BY <1>2, <2>1 DEF SaysRemoved
<1>5. ASSUME NEW req \in Request, req.infoHash = x, posted = <<A, B(req)>>
      PROVE  /\ posted \in Seq(Alert) /\ Len(posted) = 2
             /\ posted[1] = A /\ posted[2] = B(req)
  BY <1>1, <1>5, TwoAlerts
<1>6. CASE \E req \in Request : req.infoHash = x /\ posted = <<A, B(req)>>
  BY <1>2, <1>3, <1>5, <1>6 DEF SaysRemoved
<1> QED BY <1>4, <1>6 DEF A, B, IsNewsOfRemoved, SaysRemoved

LEMMA RemoveKeepsView ==
    ASSUME ViewInv, NEW x \in InfoHash, Delete(x),
           NEW posted, Post(posted), IsNewsOfRemoved(posted, libtorrent[x], x)
    PROVE  Order' /\ Complete'
<1>0. /\ SessionInOrder
      /\ libtorrent'[x] = NoHandle
      /\ \A y \in InfoHash : y # x => libtorrent'[y] = libtorrent[y]
      /\ libtorrent[x] \in Handle /\ handles[libtorrent[x]] = x
      /\ \A g \in Handle : handles[g] = x => g <= libtorrent[x]
      /\ alive' = alive /\ libtorrent[x] # NoHandle /\ libtorrent[x] \in Nat
  BY DeleteInOrder, Types DEF Delete, ViewInv
<1>says. SaysRemoved(posted, libtorrent[x], x)
  BY <1>0, NewsOfRemoved
<1>1. /\ posted \in Seq(Alert) /\ Len(posted) \in 1 .. 2
      /\ IsRemoved(posted[1], x) /\ ~IsClaim(posted[1])
      /\ \A y : IsMembership(posted[1], y) => y = x
      /\ \A k \in 1 .. Len(posted) :
             posted[k].handle = libtorrent[x] /\ posted[k].infoHash = x
      /\ \A k \in 2 .. Len(posted) :
             /\ \A y : ~IsMembership(posted[k], y)
             /\ Claimed(posted[k]) = NoHandle
  BY <1>says DEF SaysRemoved
<1>2. \A k \in 1 .. Len(posted) : k = 1 \/ k \in 2 .. Len(posted)
  BY <1>1
<1>3. PostsInOrder(posted)
  <2>1. ASSUME NEW k \in 1 .. Len(posted), NEW y \in InfoHash, IsMembership(posted[k], y)
        PROVE  k = 1 /\ y = x /\ posted[k].handle = libtorrent[x]
    BY <1>1, <1>2, <2>1
  <2>2. \A i \in 1 .. Len(alerts) : IsRemoved(alerts[i], x) => alerts[i].handle # libtorrent[x]
    BY DEF ViewInv, Order, RemovedIsGone
  <2>3. \A k \in 1 .. Len(posted) : \A y \in InfoHash :
           IsMembership(posted[k], y) =>
               /\ k = 1
               /\ \A g \in Handle : handles[g] = y => g <= posted[k].handle
               /\ \A i \in 1 .. Len(alerts) :
                      IsRemoved(alerts[i], y) => alerts[i].handle # posted[k].handle
               /\ IsRemoved(posted[k], y) => libtorrent'[y] # posted[k].handle
    BY <1>0, <2>1, <2>2
  <2>4. \A k \in 1 .. Len(posted) :
           posted[k].handle \in Handle' /\ handles'[posted[k].handle] = posted[k].infoHash
    BY <1>0, <1>1 DEF SessionInOrder
  <2> QED BY <1>0, <1>1, <2>3, <2>4 DEF PostsInOrder, SessionInOrder
<1>4. ASSUME NEW n \in Nat, n = Len(alerts), ~lost', NEW y \in InfoHash,
             NEW d, d = libtorrent'[y]
      PROVE  Agrees(y, d, n + 1 + 1)'
  <2>1. n + 1 + 1 = n + 2 /\ Len(posted) >= 1
    BY <1>1
  <2>2. CASE y = x
    <3>1. TypeInv /\ Complete /\ ~lost
      BY <1>1, <1>4, Posted DEF ViewInv
    <3>2. Agrees(x, libtorrent[x], n + 1)
      BY <3>1, <1>4 DEF Complete
    <3>3. posted[1].handle = libtorrent[x]
      BY <1>1
    <3>4. Agrees(x, NoHandle, n + 2)'
      BY <3>1, <3>2, <3>3, <1>0, <1>1, <1>4, <2>1, RemoveAgrees
    <3>5. d = NoHandle
      BY <1>0, <1>4, <2>2
    <3> QED BY <3>4, <3>5, <2>1, <2>2
  <2>3. CASE y # x
    BY <2>1, <2>3, <1>0, <1>1, <1>4, OthersAgree
  <2> QED BY <2>2, <2>3
<1>5. \A k \in 1 + 1 .. Len(posted) :
         /\ \A y \in InfoHash : ~IsMembership(posted[k], y)
         /\ IsClaim(posted[k]) => Claimed(posted[k]) = libtorrent'[posted[k].infoHash]
  <2>1. \A k \in 1 + 1 .. Len(posted) : k \in 2 .. Len(posted) /\ k \in 1 .. Len(posted)
    BY <1>1
  <2> QED BY <1>0, <1>1, <2>1
<1>6. 1 \in 0 .. 1 /\ 1 <= Len(posted) /\ Len(posted) <= 2
      /\ \A k \in 1 .. 1 : ~IsClaim(posted[k])
  BY <1>1
<1> QED BY <1>0, <1>3, <1>4, <1>5, <1>6, PostKeepsView DEF SessionInOrder

LEMMA ProcessAddKeepsView == ViewInv /\ ProcessAdd => Order' /\ Complete'
<1> SUFFICES ASSUME ViewInv, ProcessAdd PROVE Order' /\ Complete'
  OBVIOUS
<1> DEFINE req == Head(requests)
           x == req.infoHash
           posted == <<Notification("add_torrent", NewHandle, x, TRUE),
                       Result("add_result", NewHandle, req, TRUE)>>
<1>1. req \in Request /\ x \in InfoHash
  BY FirstRequest DEF ProcessAdd, ViewInv
<1>2. Create(x) /\ Post(posted)
  BY DEF ProcessAdd
<1>3. IsNewsOfAdded(posted, NewHandle, x)
  BY <1>1 DEF IsNewsOfAdded
<1> HIDE DEF req, x, posted
<1>4. libtorrent[x] = NoHandle
  BY <1>2 DEF Create
<1> QED BY <1>1, <1>2, <1>3, <1>4, CreateInOrder, AddKeepsView

LEMMA ExternalAddKeepsView ==
    ASSUME ViewInv, NEW x \in InfoHash, ExternalAdd(x)
    PROVE  Order' /\ Complete'
<1>1. CASE /\ Create(x)
           /\ Post(<<Notification("add_torrent", NewHandle, x, TRUE)>>)
  <2> DEFINE posted == <<Notification("add_torrent", NewHandle, x, TRUE)>>
  <2>1. Post(posted) /\ IsNewsOfAdded(posted, NewHandle, x)
    BY <1>1 DEF IsNewsOfAdded
  <2> HIDE DEF posted
  <2>2. libtorrent[x] = NoHandle
    BY <1>1 DEF Create
  <2> QED BY <1>1, <2>1, <2>2, CreateInOrder, AddKeepsView
<1>2. CASE /\ libtorrent[x] # NoHandle
           /\ Post(<<Notification("add_torrent", libtorrent[x], x, TRUE)>>)
           /\ UNCHANGED networkVars
  <2>1. PICK c \in Nat : c = libtorrent[x] /\ c # NoHandle
    BY <1>2, Types DEF ViewInv
  <2> DEFINE posted == <<Notification("add_torrent", c, x, TRUE)>>
  <2>2. Post(posted) /\ IsNewsOfAdded(posted, c, x)
    BY <1>2, <2>1 DEF IsNewsOfAdded
  <2> HIDE DEF posted
  <2>3. SessionInOrder /\ UNCHANGED <<handles, alive, libtorrent>>
    BY <1>2, UnchangedInOrder DEF networkVars
  <2>4. c \in Handle' /\ handles'[c] = x /\ \A g \in Handle : handles[g] = x => g <= c
    BY <2>1, <2>3 DEF ViewInv, Order, SessionIsNewest, TypeInv, TypeOK, Handle
  <2>5. \A i \in 1 .. Len(alerts) : IsRemoved(alerts[i], x) => alerts[i].handle # c
    BY <2>1 DEF ViewInv, Order, RemovedIsGone
  <2> QED BY <2>1, <2>2, <2>3, <2>4, <2>5, AddKeepsView
<1> QED BY <1>1, <1>2 DEF ExternalAdd

LEMMA ProcessRemoveKeepsView == ViewInv /\ ProcessRemove => Order' /\ Complete'
<1> SUFFICES ASSUME ViewInv, ProcessRemove PROVE Order' /\ Complete'
  OBVIOUS
<1> DEFINE req == Head(requests)
           x == req.infoHash
           posted == <<Notification("torrent_removed", libtorrent[x], x, TRUE),
                       Result("remove_result", libtorrent[x], req, TRUE)>>
<1>1. req \in Request /\ x \in InfoHash
  BY FirstRequest DEF ProcessRemove, ViewInv
<1>2. Delete(x) /\ Post(posted)
  BY DEF ProcessRemove
<1>3. IsNewsOfRemoved(posted, libtorrent[x], x)
  BY <1>1 DEF IsNewsOfRemoved
<1> HIDE DEF req, x, posted
<1> QED BY <1>1, <1>2, <1>3, RemoveKeepsView

LEMMA ExternalRemoveKeepsView ==
    ASSUME ViewInv, NEW x \in InfoHash, ExternalRemove(x)
    PROVE  Order' /\ Complete'
<1> DEFINE posted == <<Notification("torrent_removed", libtorrent[x], x, TRUE)>>
<1>1. Delete(x) /\ Post(posted) /\ IsNewsOfRemoved(posted, libtorrent[x], x)
  BY DEF ExternalRemove, IsNewsOfRemoved
<1> HIDE DEF posted
<1> QED BY <1>1, RemoveKeepsView

LEMMA ProcessAddFailsKeepsView == ViewInv /\ ProcessAddFails => Order' /\ Complete'
<1> SUFFICES ASSUME ViewInv, ProcessAddFails PROVE Order' /\ Complete'
  OBVIOUS
<1> DEFINE req == Head(requests)
           A == Notification("add_torrent", NoHandle, req.infoHash, FALSE)
           B == Result("add_result", NoHandle, req, FALSE)
           posted == <<A, B>>
<1>1. req \in Request /\ req.infoHash \in InfoHash
  BY FirstRequest DEF ProcessAddFails, ViewInv
<1>2. Post(posted) /\ handles' = handles /\ alive' = alive /\ libtorrent' = libtorrent
  BY DEF ProcessAddFails, networkVars
<1>3. A \in Alert /\ B \in Alert
  BY <1>1, NotificationType, ResultType DEF Results, NoHandle
<1>4. /\ A.type = "add_torrent" /\ ~A.ok /\ ~IsClaim(A)
      /\ B.type = "add_result" /\ ~B.ok /\ ~IsClaim(B)
  BY DEF Notification, Result, IsClaim
<1> HIDE DEF A, B
<1>5. posted \in Seq(Alert) /\ Len(posted) = 2 /\ Len(posted) <= 2 /\ posted[1] = A /\ posted[2] = B
  BY <1>3, TwoAlerts
<1> HIDE DEF posted
<1>6. \A k \in 1 .. Len(posted) :
         /\ posted[k].type \in {"add_torrent", "add_result"} /\ ~posted[k].ok
         /\ ~IsClaim(posted[k])
  BY <1>4, <1>5
<1>7. IsChatter(posted)
  BY <1>6 DEF IsChatter
<1> QED BY <1>2, <1>5, <1>7, ChatterKeepsView

LEMMA ProcessRemoveFailsKeepsView ==
    ViewInv /\ ProcessRemoveFails => Order' /\ Complete'
<1> SUFFICES ASSUME ViewInv, ProcessRemoveFails PROVE Order' /\ Complete'
  OBVIOUS
<1> DEFINE req == Head(requests)
           A == Result("remove_result", NoHandle, req, FALSE)
           posted == <<A>>
<1>1. req \in Request /\ req.infoHash \in InfoHash
  BY FirstRequest DEF ProcessRemoveFails, ViewInv
<1>2. /\ Post(posted) /\ handles' = handles /\ alive' = alive /\ libtorrent' = libtorrent
      /\ libtorrent[req.infoHash] = NoHandle
  BY DEF ProcessRemoveFails, networkVars
<1>3. A \in Alert
  BY <1>1, ResultType DEF Results, NoHandle
<1>4. A.type = "remove_result" /\ Claimed(A) = NoHandle /\ A.infoHash = req.infoHash
  BY DEF Result, Claimed
<1> HIDE DEF A, req
<1>5. posted \in Seq(Alert) /\ Len(posted) = 1 /\ Len(posted) <= 2 /\ posted[1] = A
  BY <1>3, OneAlert
<1> HIDE DEF posted
<1>6. \A k \in 1 .. Len(posted) :
         /\ posted[k].type = "remove_result"
         /\ Claimed(posted[k]) = libtorrent[posted[k].infoHash]
         /\ Claimed(posted[k]) = NoHandle
  BY <1>2, <1>4, <1>5
<1>7. IsChatter(posted)
  BY <1>6 DEF IsChatter
<1> QED BY <1>2, <1>5, <1>7, ChatterKeepsView

LEMMA TorrentEventKeepsView ==
    ASSUME ViewInv, NEW h \in Handle, TorrentEvent(h)
    PROVE  Order' /\ Complete'
<1> DEFINE A(type) == [Notification(type, h, handles[h], TRUE)
                          EXCEPT !.current = (libtorrent[handles[h]] = h)]
<1>1. PICK type \in {"event", "status"} : Post(<<A(type)>>)
  BY DEF TorrentEvent
<1>2. UNCHANGED <<handles, alive, libtorrent>>
  BY DEF TorrentEvent, networkVars
<1>3. h \in Nat /\ h # NoHandle /\ handles[h] \in InfoHash
  BY Types DEF ViewInv
<1>4. A(type) \in Alert
  BY <1>3 DEF Notification, Alert, NoRequest
<1>5. /\ A(type).type \in {"event", "status"}
      /\ A(type).handle = h /\ A(type).infoHash = handles[h]
      /\ A(type).current <=> libtorrent[handles[h]] = h
  BY DEF Notification
<1> DEFINE a == A(type)
           posted == <<a>>
<1>6. posted \in Seq(Alert) /\ Len(posted) = 1 /\ posted[1] = a
  BY <1>4, OneAlert
<1>7. Post(posted)
  BY <1>1
<1> HIDE DEF A, posted
<1>8. \A k \in 1 .. Len(posted) :
         /\ posted[k].type \in {"event", "status"}
         /\ IsClaim(posted[k]) => Claimed(posted[k]) = libtorrent[posted[k].infoHash]
         /\ posted[k].handle \in Handle
         /\ handles[posted[k].handle] = posted[k].infoHash
  BY <1>5, <1>6 DEF IsClaim, Claimed
<1>9. IsChatter(posted)
  BY <1>8 DEF IsChatter
<1> QED BY <1>2, <1>6, <1>7, <1>9, ChatterKeepsView

-----------------------------------------------------------------------------

LEMMA InitView == Init => Order /\ Complete
<1> SUFFICES ASSUME Init PROVE Order /\ Complete
  OBVIOUS
<1>1. /\ handles = <<>> /\ alive = {} /\ alerts = <<>> /\ pc = "ready"
      /\ \A x \in InfoHash : libtorrent[x] = NoHandle /\ torrents[x] = NoTorrent
      /\ Len(alerts) = 0
  BY DEF Init
<1>2. Order
  BY <1>1 DEF Order, SessionIsNewest, AlertsNameTheirTorrent, MapNamesItsTorrents,
     AlertsInOrder, MapBehindAlerts, RemovedIsGone, HandlerHasItsAlert, NoTorrent
<1>3. Complete
  BY <1>1 DEF Complete, Agrees, NoTorrent
<1> QED BY <1>2, <1>3

LEMMA NextView == ViewInv /\ [Next]_vars => ViewInv'
<1> SUFFICES ASSUME ViewInv, [Next]_vars PROVE Order' /\ Complete'
  BY NextTypeInv DEF ViewInv
<1>1. CASE User
  BY <1>1, UserKeepsView
<1>2. CASE Network
  BY <1>2, ProcessAddKeepsView, ProcessAddFailsKeepsView,
     ProcessRemoveKeepsView, ProcessRemoveFailsKeepsView DEF Network
<1>3. CASE Environment
  BY <1>3, ExternalAddKeepsView, ExternalRemoveKeepsView, ExpireKeepsView,
     TorrentEventKeepsView DEF Environment
<1>4. CASE PopAlerts
  BY <1>4, PopAlertsKeepsView
<1>5. CASE HandleAlert
  BY <1>5, AlertListenerThrowsKeepsView, AddTorrentAlertKeepsView,
     ConstructTorrentKeepsView, TorrentRemovedAlertKeepsView, DispatchKeepsView,
     AddResultKeepsView, ResolveKeepsView, RemoveResultKeepsView DEF HandleAlert
<1>6. CASE UNCHANGED vars
  <2>1. UNCHANGED networkVars /\ UNCHANGED <<alerts, torrents, pc, lost>>
    BY <1>6 DEF vars, mapVars
  <2>2. UNCHANGED <<handles, libtorrent, alive>>
    BY <2>1 DEF networkVars
  <2> QED BY <2>1, <2>2, SameSessionIsNewest, QuietKeepsView
<1> QED BY <1>1, <1>2, <1>3, <1>4, <1>5, <1>6 DEF Next

(***************************************************************************)
(* At every moment the alerts on their way account for every difference    *)
(* between the torrents map and the libtorrent session (Order, Complete).  *)
(***************************************************************************)
THEOREM ViewInvariant == Spec => []ViewInv
<1>1. Init => ViewInv
  BY InitTypeInv, InitView DEF ViewInv
<1>2. ViewInv /\ [Next]_vars => ViewInv'
  BY NextView
<1> QED BY <1>1, <1>2, PTL DEF Spec

(* ... with the types of the variables, as TLC checks it.                  *)
THEOREM InductiveInvariant == Spec => []IInv
<1>1. ViewInv => IInv
  BY DEF ViewInv, TypeInv, IInv
<1> QED BY <1>1, ViewInvariant, PTL

(* The map's entry, once nothing is left that could change it.             *)
LEMMA EntryIsNone ==
    ASSUME ViewInv, NEW x \in InfoHash
    PROVE  Has(x) <=> torrents[x].handle # NoHandle
BY DEF ViewInv, Order, MapNamesItsTorrents, Has, NoTorrent

LEMMA FirstClaim ==
    ASSUME ViewInv, ~lost, batch > 0, IsClaim(Head(alerts))
    PROVE  LET a == Head(alerts)
               x == a.infoHash
               c == Claimed(a)
           IN  /\ a \in Alert /\ x \in InfoHash
               /\ c \in alive => torrents[x].handle = c
               /\ torrents[x].handle \in {NoHandle, c}
               /\ c # NoHandle => c = a.handle /\ c \in Handle /\ handles[c] = x
<1> DEFINE a == Head(alerts)
           x == a.infoHash
           c == Claimed(a)
<1>1. a \in Alert /\ a = alerts[1] /\ 1 \in 1 .. Len(alerts)
  BY FirstAlert DEF ViewInv
<1>2. x \in InfoHash
  BY <1>1 DEF Alert
<1>3. Agrees(x, c, 1)
  BY <1>1 DEF ViewInv, Complete
<1>4. c # NoHandle => c = a.handle /\ c \in Handle /\ handles[c] = x
  <2>1. c # NoHandle => c = a.handle
    BY DEF Claimed
  <2> QED BY <1>1, <2>1 DEF ViewInv, Order, AlertsNameTheirTorrent
<1> QED BY <1>1, <1>2, <1>3, <1>4 DEF Agrees

LEMMA ViewInvExact == ViewInv => ViewIsExact
<1> SUFFICES ASSUME ViewInv, ~lost, NEW x \in InfoHash,
                    \A i \in 1 .. Len(alerts) : ~IsMembership(alerts[i], x)
             PROVE  torrents[x].handle = libtorrent[x]
  BY DEF ViewIsExact
<1>1. Len(alerts) \in Nat
  BY Types DEF ViewInv
<1>2. Agrees(x, libtorrent[x], Len(alerts) + 1)
  BY DEF ViewInv, Complete
<1>3. \A i \in 1 .. Len(alerts) + 1 - 1 :
         ~IsAdded(alerts[i], x) /\ ~IsRemoved(alerts[i], x)
  BY <1>1 DEF IsMembership
<1>4. libtorrent[x] # NoHandle => libtorrent[x] \in alive
  BY DEF ViewInv, Order, SessionIsNewest
<1> QED BY <1>2, <1>3, <1>4 DEF Agrees

(***************************************************************************)
(* Once the alerts about a torrent are processed the map holds just the    *)
(* torrent that is in the session, for any number of torrents and alerts.  *)
(***************************************************************************)
THEOREM ViewExact == Spec => []ViewIsExact
BY ViewInvariant, ViewInvExact, PTL

LEMMA ViewInvAdded == ViewInv => AddedTorrentIsRegistered
<1> SUFFICES ASSUME ViewInv, ~lost, pc = "resolve", Head(alerts).handle \in alive
             PROVE  torrents[handles[Head(alerts).handle]].handle = Head(alerts).handle
  BY DEF AddedTorrentIsRegistered
<1>1. batch > 0
  BY DEF ViewInv, TypeInv, TypeOK
<1>2. IsClaim(Head(alerts)) /\ Claimed(Head(alerts)) = Head(alerts).handle
  BY DEF ViewInv, Order, HandlerHasItsAlert, IsClaim, Claimed
<1>3. Head(alerts).handle # NoHandle
  BY Types DEF ViewInv
<1> QED BY <1>1, <1>2, <1>3, FirstClaim

(***************************************************************************)
(* The callback of addTorrent finds the torrent that was added, unless it  *)
(* was freed in the meantime.                                              *)
(***************************************************************************)
THEOREM AddedRegistered == Spec => []AddedTorrentIsRegistered
BY ViewInvariant, ViewInvAdded, PTL

LEMMA ViewInvRemoved == ViewInv => RemoveCallbackSeesNoTorrent
<1> SUFFICES ASSUME ViewInv, ~lost, batch > 0, Head(alerts).type = "remove_result"
             PROVE  ~Has(Head(alerts).infoHash)
  BY DEF RemoveCallbackSeesNoTorrent
<1>1. IsClaim(Head(alerts)) /\ Claimed(Head(alerts)) = NoHandle
  BY DEF IsClaim, Claimed
<1>2. /\ Head(alerts).infoHash \in InfoHash
      /\ torrents[Head(alerts).infoHash].handle = NoHandle
  BY <1>1, FirstClaim
<1> QED BY <1>2, EntryIsNone

(***************************************************************************)
(* The callback of removeTorrent no longer finds the torrent, whoever      *)
(* removed it.                                                             *)
(***************************************************************************)
THEOREM RemovedUnregistered == Spec => []RemoveCallbackSeesNoTorrent
BY ViewInvariant, ViewInvRemoved, PTL

LEMMA ViewInvEvent == ViewInv => EventFindsItsTorrent
<1> SUFFICES ASSUME ViewInv, ~lost, batch > 0,
                    Head(alerts).type \in {"event", "status"}, Head(alerts).current
             PROVE  LET a == Head(alerts)
                        x == LookupKey(a)
                    IN  \/ Has(x) /\ torrents[x].handle = a.handle
                        \/ a.handle \notin alive /\ ~Has(x)
  BY DEF EventFindsItsTorrent
<1> DEFINE a == Head(alerts)
           x == LookupKey(a)
<1>1. IsClaim(a) /\ Claimed(a) = a.handle
  BY DEF IsClaim, Claimed
<1>2. /\ a.infoHash \in InfoHash
      /\ a.handle \in alive => torrents[a.infoHash].handle = a.handle
      /\ torrents[a.infoHash].handle \in {NoHandle, a.handle}
      /\ a.handle # NoHandle => handles[a.handle] = a.infoHash
  BY <1>1, FirstClaim
<1>3. NoHandle \notin alive
  BY Types DEF ViewInv
<1>4. CASE a.handle \in alive
  <2>1. x = a.infoHash
    BY <1>2, <1>3, <1>4 DEF LookupKey, InfoHashOf
  <2> QED BY <1>2, <1>3, <1>4, <2>1, EntryIsNone
<1>5. CASE a.handle \notin alive
  <2>1. x = a.infoHash \/ x = EmptyInfoHash
    BY <1>5 DEF LookupKey, InfoHashOf
  <2>2. ~Has(EmptyInfoHash)
    BY EmptyInfoHashAssumption DEF Has
  <2>3. CASE x = a.infoHash
    BY <1>2, <1>5, <2>3, EntryIsNone
  <2> QED BY <1>5, <2>1, <2>2, <2>3
<1> QED BY <1>4, <1>5

(***************************************************************************)
(* An event reaches the Torrent object of the torrent that reported it, or *)
(* none if that torrent was freed; never that of a successor.              *)
(***************************************************************************)
THEOREM EventsFindTheirTorrent == Spec => []EventFindsItsTorrent
BY ViewInvariant, ViewInvEvent, PTL

(* The only steps that change the map are those of two handlers.           *)
LEMMA StepKeepsSessionTorrent ==
    ASSUME ViewInv, [Next]_vars, NEW x \in InfoHash,
           libtorrent[x] # NoHandle, torrents[x].handle = libtorrent[x]
    PROVE  torrents'[x] = torrents[x]
<1>1. CASE User \/ PopAlerts
  BY <1>1 DEF User, AddTorrent, RemoveTorrent, PopAlerts, mapVars
<1>2. CASE Network
  BY <1>2 DEF Network, ProcessAdd, ProcessAddFails, ProcessRemove, ProcessRemoveFails,
     Post, mapVars
<1>3. CASE Environment
  BY <1>3 DEF Environment, ExternalAdd, ExternalRemove, Expire, TorrentEvent, Post, mapVars
<1>4. CASE ConstructTorrent
  <2> DEFINE y == handles[Head(alerts).handle]
  <2>1. torrents' = [torrents EXCEPT ![y] = [handle |-> Head(alerts).handle,
                                     infoHash |-> InfoHashOf(Head(alerts).handle)]]
    BY <1>4 DEF ConstructTorrent
  <2>2. torrents \in [InfoHash -> [handle : Handle \union {NoHandle},
                                   infoHash : InfoHash \union {EmptyInfoHash}]]
    BY DEF ViewInv, TypeInv, TypeOK
  <2>3. y = Head(alerts).infoHash
    <3>1. batch > 0 /\ Head(alerts).type = "add_torrent" /\ Head(alerts).ok
      BY <1>4 DEF ConstructTorrent, ViewInv, Order, HandlerHasItsAlert, TypeInv, TypeOK
    <3>2. /\ Head(alerts) = alerts[1] /\ 1 \in 1 .. Len(alerts)
          /\ Head(alerts).infoHash \in InfoHash
      BY <3>1, FirstAlert DEF ViewInv, Alert
    <3> QED BY <3>1, <3>2 DEF ViewInv, Order, AlertsNameTheirTorrent, IsMembership, IsAdded
  <2>4. ~Has(y)
    BY <1>4, <2>3 DEF ConstructTorrent, ViewInv, Order, HandlerHasItsAlert
  <2>5. x # y
    BY <2>4, EntryIsNone
  <2> HIDE DEF y
  <2> QED BY <2>1, <2>2, <2>5
<1>5. CASE TorrentRemovedAlert
  <2> DEFINE a == Head(alerts)
             y == a.infoHash
  <2>1. /\ batch > 0 /\ a.type = "torrent_removed"
        /\ Forget(y) \/ UNCHANGED mapVars
    BY <1>5 DEF TorrentRemovedAlert, Processing
  <2>2. a = alerts[1] /\ 1 \in 1 .. Len(alerts) /\ a \in Alert /\ y \in InfoHash
    BY <2>1, FirstAlert DEF ViewInv, Alert
  <2>3. IsRemoved(a, y) /\ IsMembership(a, y)
    BY <2>1 DEF IsRemoved, IsMembership
  <2>4. /\ a.handle \in Handle /\ handles[a.handle] = y
        /\ torrents[y].handle <= a.handle /\ libtorrent[y] # a.handle
    BY <2>2, <2>3 DEF ViewInv, Order, AlertsNameTheirTorrent, MapBehindAlerts,
       RemovedIsGone
  <2>5. x # y
    <3>1. x = y => a.handle <= libtorrent[x]
      BY <2>4 DEF ViewInv, Order, SessionIsNewest
    <3>2. a.handle \in Nat /\ libtorrent[x] \in Nat
      BY <2>2, Types DEF ViewInv
    <3> QED BY <2>4, <3>1, <3>2
  <2>6. torrents \in [InfoHash -> [handle : Handle \union {NoHandle},
                                   infoHash : InfoHash \union {EmptyInfoHash}]]
    BY DEF ViewInv, TypeInv, TypeOK
  <2> HIDE DEF a, y
  <2> QED BY <2>1, <2>5, <2>6 DEF Forget, mapVars
<1>6. CASE HandleAlert /\ ~ConstructTorrent /\ ~TorrentRemovedAlert
  BY <1>6 DEF HandleAlert, AlertListenerThrows, AddTorrentAlert, Continue,
     DispatchTorrentAlert, AddResult, ResolveAddedTorrent, RemoveResult, mapVars
<1>7. CASE UNCHANGED vars
  BY <1>7 DEF vars, mapVars
<1> QED BY <1>1, <1>2, <1>3, <1>4, <1>5, <1>6, <1>7 DEF Next

(***************************************************************************)
(* No step takes a torrent of the session out of the map or replaces it.   *)
(***************************************************************************)
THEOREM SessionTorrentKept == Spec => SessionTorrentNeverDropped
<1>1. ViewInv /\ [Next]_vars =>
         [\A x \in InfoHash :
             libtorrent[x] # NoHandle /\ torrents[x].handle = libtorrent[x]
                 => torrents'[x] = torrents[x]]_vars
  BY StepKeepsSessionTorrent
<1> QED BY <1>1, ViewInvariant, PTL DEF Spec, SessionTorrentNeverDropped

-----------------------------------------------------------------------------
(* The map implements the abstract replica: present, view and notices as   *)
(* the replica has them.                                                   *)

Present    == {x \in InfoHash : libtorrent[x] # NoHandle}
View       == {x \in InfoHash : Has(x)}
NoticesOf(s) == [i \in 1 .. Len(s) |-> NoticeOf(s[i])]

LEMMA ReplicaPublish ==
    ASSUME NEW ns, NEW k \in 0 .. Len(ns),
           NoticesOf(alerts)' = NoticesOf(alerts) \o SubSeq(ns, 1, k),
           lost' = (lost \/ k < Len(ns))
    PROVE  Replica!Publish(ns)
BY DEF Replica!Publish, NoticesOf

LEMMA ReplicaStutters ==
    ASSUME UNCHANGED <<libtorrent, torrents, alerts, lost>>
    PROVE  UNCHANGED Replica!vars
BY DEF Replica!vars, Has

(* Alerts and notices of the replica correspond one to one.                *)
LEMMA NoticesType ==
    ASSUME NEW s \in Seq(Alert)
    PROVE  /\ NoticesOf(s) \in Seq(Replica!Notice)
           /\ Len(NoticesOf(s)) = Len(s)
           /\ \A i \in 1 .. Len(s) : NoticesOf(s)[i] = NoticeOf(s[i])
<1>1. Len(s) \in Nat
  OBVIOUS
<1>2. ASSUME NEW i \in 1 .. Len(s)
      PROVE  NoticeOf(s[i]) \in Replica!Notice
  <2>1. s[i] \in Alert
    OBVIOUS
  <2> QED BY <2>1 DEF NoticeOf, Replica!Notice, Alert
<1> QED BY <1>1, <1>2 DEF NoticesOf

(* What libtorrent posts, up to the limit of its queue, the replica        *)
(* publishes.                                                              *)
LEMMA PostPublishes ==
    ASSUME TypeInv, NEW posted \in Seq(Alert), Post(posted)
    PROVE  Replica!Publish(NoticesOf(posted))
<1> DEFINE k == IF Len(posted) <= Room THEN Len(posted) ELSE Room
           kept == SubSeq(posted, 1, k)
           ns == NoticesOf(posted)
           N == Replica!Notice
<1>1. Room \in Nat /\ Len(posted) \in Nat /\ alerts \in Seq(Alert) /\ Len(alerts) \in Nat
      /\ lost \in BOOLEAN
  BY Constants DEF TypeInv, TypeOK
<1>2. /\ kept \in Seq(Alert) /\ Len(kept) = k /\ k \in 0 .. Len(posted)
      /\ \A i \in 1 .. k : kept[i] = posted[i]
  BY <1>1
<1>3. alerts' = alerts \o kept /\ alerts' \in Seq(Alert)
  <2>1. CASE Len(posted) <= Room
    <3>1. kept = posted
      BY <2>1, <1>1
    <3> QED BY <3>1, <2>1, <1>1 DEF Post
  <2>2. CASE ~(Len(posted) <= Room)
    BY <2>2, <1>1, <1>2 DEF Post
  <2> QED BY <2>1, <2>2
<1>4. lost' = (lost \/ k < Len(posted))
  BY <1>1 DEF Post
<1>5. /\ ns \in Seq(N) /\ Len(ns) = Len(posted)
      /\ \A i \in 1 .. Len(posted) : ns[i] = NoticeOf(posted[i])
  BY NoticesType
<1>6. /\ NoticesOf(alerts) \in Seq(N) /\ Len(NoticesOf(alerts)) = Len(alerts)
      /\ \A i \in 1 .. Len(alerts) : NoticesOf(alerts)[i] = NoticeOf(alerts[i])
  BY <1>1, NoticesType
<1>7. /\ NoticesOf(alerts') \in Seq(N) /\ Len(NoticesOf(alerts')) = Len(alerts')
      /\ \A i \in 1 .. Len(alerts') : NoticesOf(alerts')[i] = NoticeOf(alerts'[i])
  BY <1>3, NoticesType
<1>8. /\ SubSeq(ns, 1, k) \in Seq(N) /\ Len(SubSeq(ns, 1, k)) = k
      /\ \A i \in 1 .. k : SubSeq(ns, 1, k)[i] = ns[i]
  BY <1>2, <1>5
<1> HIDE DEF k, kept, ns, N
<1>9. NoticesOf(alerts') = NoticesOf(alerts) \o SubSeq(ns, 1, k)
  <2> DEFINE t == NoticesOf(alerts) \o SubSeq(ns, 1, k)
  <2>1. /\ t \in Seq(N) /\ Len(t) = Len(alerts) + k
        /\ \A i \in 1 .. Len(alerts) + k : t[i] =
              IF i <= Len(alerts) THEN NoticesOf(alerts)[i]
                                  ELSE SubSeq(ns, 1, k)[i - Len(alerts)]
    <3> DEFINE old == NoticesOf(alerts)
               more == SubSeq(ns, 1, k)
    <3>1. /\ old \in Seq(N) /\ more \in Seq(N)
          /\ Len(old) = Len(alerts) /\ Len(more) = k
      BY <1>6, <1>8
    <3> HIDE DEF old, more
    <3>2. /\ old \o more \in Seq(N) /\ Len(old \o more) = Len(old) + Len(more)
          /\ \A i \in 1 .. Len(old) + Len(more) : (old \o more)[i] =
                IF i <= Len(old) THEN old[i] ELSE more[i - Len(old)]
      BY ONLY <3>1, ConcatProperties
    <3> QED BY <3>1, <3>2, Zenon DEF old, more
  <2>2. /\ Len(alerts') = Len(alerts) + k
        /\ \A i \in 1 .. Len(alerts) + k : alerts'[i] =
              IF i <= Len(alerts) THEN alerts[i] ELSE kept[i - Len(alerts)]
    <3>1. /\ Len(alerts') = Len(alerts) + Len(kept)
          /\ \A i \in 1 .. Len(alerts) + Len(kept) : alerts'[i] =
                IF i <= Len(alerts) THEN alerts[i] ELSE kept[i - Len(alerts)]
      BY ONLY <1>1, <1>2, <1>3, ConcatProperties
    <3> QED BY <3>1, <1>2, Zenon
  <2> HIDE DEF t
  <2>3. ASSUME NEW i \in 1 .. Len(alerts) + k
        PROVE  t[i] = NoticesOf(alerts')[i]
    <3>1. CASE i <= Len(alerts)
      BY <3>1, <1>1, <1>2, <1>6, <1>7, <2>1, <2>2
    <3>2. CASE ~(i <= Len(alerts))
      <4>1. i - Len(alerts) \in 1 .. k /\ i - Len(alerts) \in 1 .. Len(posted)
        BY <3>2, <1>1, <1>2
      <4>2. t[i] = NoticeOf(posted[i - Len(alerts)])
        BY <3>2, <4>1, <1>5, <1>8, <2>1
      <4>3. alerts'[i] = posted[i - Len(alerts)]
        BY <3>2, <4>1, <1>2, <2>2
      <4> QED BY <4>2, <4>3, <1>7, <2>2
    <3> QED BY <3>1, <3>2
  <2>4. t = NoticesOf(alerts')
    BY <1>7, <2>1, <2>2, <2>3, SeqEqual
  <2> QED BY <2>4 DEF t
<1>10. k \in 0 .. Len(ns) /\ lost' = (lost \/ k < Len(ns))
  BY <1>2, <1>4, <1>5
<1> QED BY <1>9, <1>10, ReplicaPublish DEF ns

(* What the replica may do with the view on the notice of alert a.         *)
ViewFollows(a) ==
    LET x == a.infoHash
    IN  \/ /\ IsAdded(a, x)
           /\ View' = View \union {x}
        \/ /\ IsAdded(a, x)
           /\ View' = View
           /\ lost \/ \E i \in 2 .. Len(alerts) : IsRemoved(alerts[i], x)
        \/ IsRemoved(a, x) /\ View' = View \ {x}
        \/ ~IsMembership(a, x) /\ View' = View

LEMMA NoticesNow ==
    ASSUME TypeInv
    PROVE  /\ NoticesOf(alerts) \in Seq(Replica!Notice)
           /\ Len(NoticesOf(alerts)) = Len(alerts) /\ Len(alerts) \in Nat
           /\ \A i \in 1 .. Len(alerts) : NoticesOf(alerts)[i] = NoticeOf(alerts[i])
<1>1. alerts \in Seq(Alert)
  BY DEF TypeInv, TypeOK
<1> QED BY <1>1, NoticesType

LEMMA FollowedIsViewsAfter ==
    ASSUME TypeInv, batch > 0, ViewFollows(alerts[1])
    PROVE  /\ NoticesOf(alerts) # <<>>
           /\ View' \in Replica!ViewsAfter(Head(NoticesOf(alerts)))
<1> DEFINE a == alerts[1]
           x == a.infoHash
           n == NoticeOf(a)
<1>1. /\ Len(alerts) \in Nat \ {0} /\ 1 \in 1 .. Len(alerts)
      /\ NoticesOf(alerts) # <<>> /\ Head(NoticesOf(alerts)) = n
  BY NoticesNow, FirstAlert
<1>2. /\ n.torrent = x
      /\ IsAdded(a, x) => n.kind = "added"
      /\ IsRemoved(a, x) => n.kind = "removed"
      /\ ~IsMembership(a, x) => n.kind = "other"
  BY DEF NoticeOf, IsAdded, IsRemoved, IsMembership
<1>3. ASSUME \E i \in 2 .. Len(alerts) : IsRemoved(alerts[i], x)
      PROVE  \E i \in 2 .. Len(NoticesOf(alerts)) :
                 NoticesOf(alerts)[i] = Replica!Removed(x)
  <2>1. PICK i \in 2 .. Len(alerts) : IsRemoved(alerts[i], x)
    BY <1>3
  <2>2. i \in 1 .. Len(alerts)
    BY <1>1
  <2>3. NoticeOf(alerts[i]) = Replica!Removed(x)
    BY <2>1 DEF IsRemoved, NoticeOf, Replica!Removed
  <2>4. i \in 2 .. Len(NoticesOf(alerts)) /\ NoticesOf(alerts)[i] = Replica!Removed(x)
    BY <2>2, <2>3, NoticesNow
  <2> QED BY <2>4
<1>4. ASSUME lost \/ \E i \in 2 .. Len(alerts) : IsRemoved(alerts[i], x)
      PROVE  Replica!Superseded(n)
  BY <1>2, <1>3, <1>4, Zenon DEF Replica!Superseded, NoticesOf
<1> HIDE DEF n, x
<1>5. View' \in Replica!ViewsAfter(n)
  BY <1>2, <1>4 DEF ViewFollows, Replica!ViewsAfter, View, x
<1> QED BY <1>1, <1>5

LEMMA ConsumedNotices ==
    ASSUME TypeInv, batch > 0, NEW k \in 1 .. batch, Consumed(k)
    PROVE  /\ k \in 1 .. Len(NoticesOf(alerts))
           /\ NoticesOf(alerts') = SubSeq(NoticesOf(alerts), k + 1, Len(NoticesOf(alerts)))
           /\ k = 1 => NoticesOf(alerts') = Tail(NoticesOf(alerts))
<1> DEFINE N == Replica!Notice
           old == NoticesOf(alerts)
           new == NoticesOf(alerts')
<1>1. /\ old \in Seq(N) /\ Len(old) = Len(alerts) /\ Len(alerts) \in Nat
      /\ \A i \in 1 .. Len(alerts) : old[i] = NoticeOf(alerts[i])
  BY NoticesNow
<1>2. k \in 1 .. Len(alerts) /\ k \in Nat
  BY Types
<1>3. /\ new \in Seq(N) /\ Len(new) = Len(alerts) - k
      /\ \A i \in 1 .. Len(alerts) - k : new[i] = NoticeOf(alerts[i + k])
  <2>1. /\ alerts' \in Seq(Alert) /\ Len(alerts') = Len(alerts) - k
        /\ \A i \in 1 .. Len(alerts) - k : alerts'[i] = alerts[i + k]
    BY DEF Consumed
  <2> QED BY <2>1, NoticesType
<1> HIDE DEF N, old, new
<1>4. \A i \in 1 .. Len(alerts) - k : new[i] = old[i + k]
  <2>1. \A i \in 1 .. Len(alerts) - k : i + k \in 1 .. Len(alerts)
    BY <1>1, <1>2
  <2> QED BY <2>1, <1>1, <1>3
<1>5. new = SubSeq(old, k + 1, Len(old))
  <2> DEFINE t == SubSeq(old, k + 1, Len(old))
  <2>1. /\ t \in Seq(N) /\ Len(t) = Len(alerts) - k
        /\ \A i \in 1 .. Len(alerts) - k : t[i] = old[i + k]
    BY <1>1, <1>2
  <2> HIDE DEF t
  <2>2. t = new
    BY <1>3, <1>4, <2>1, SeqEqual
  <2> QED BY <2>2 DEF t
<1>6. ASSUME k = 1 PROVE new = Tail(old)
  <2> DEFINE t == Tail(old)
  <2>1. /\ t \in Seq(N) /\ Len(t) = Len(alerts) - k
        /\ \A i \in 1 .. Len(alerts) - k : t[i] = old[i + k]
    BY <1>1, <1>2, <1>6
  <2> HIDE DEF t
  <2>2. t = new
    BY <1>3, <1>4, <2>1, SeqEqual
  <2> QED BY <2>2 DEF t
<1> QED BY <1>1, <1>2, <1>5, <1>6 DEF old, new

(* A handler that ends delivers the notice of its alert, or loses it with  *)
(* those of the rest of the batch.                                         *)
LEMMA EndDelivers ==
    ASSUME TypeInv, batch > 0, Advance \/ Abort \/ ReturnFromUser,
           UNCHANGED libtorrent, ViewFollows(alerts[1])
    PROVE  Replica!Next
<1>1. /\ NoticesOf(alerts) # <<>>
      /\ View' \in Replica!ViewsAfter(Head(NoticesOf(alerts)))
  BY FollowedIsViewsAfter
<1>2. \/ Consumed(1) /\ lost' = lost
      \/ Consumed(batch) /\ lost' = TRUE
  <2>0. TypeOK /\ batch \in Nat
    BY DEF TypeInv, TypeOK
  <2>1. CASE Advance
    BY <2>0, <2>1, AdvanceConsumes DEF Advance
  <2>2. CASE Abort
    <3>1. Consumed(batch)
      BY <2>0, <2>2, AbortConsumes
    <3>2. CASE batch > 1
      BY <3>1, <3>2, <2>2 DEF Abort
    <3>3. CASE ~(batch > 1)
      <4>1. batch = 1
        BY <3>3, <2>0
      <4>2. lost' = (lost \/ batch > 1) /\ lost \in BOOLEAN
        BY <2>2 DEF Abort, TypeInv, TypeOK
      <4>3. lost' = lost
        BY <3>3, <4>2, Zenon
      <4> QED BY <3>1, <4>1, <4>3
    <3> QED BY <3>2, <3>3
  <2> QED BY <2>1, <2>2 DEF ReturnFromUser, Throws
<1>3. CASE Consumed(1) /\ lost' = lost
  <2>0. 1 \in 1 .. batch
    BY <1>3 DEF Consumed
  <2>1. NoticesOf(alerts') = Tail(NoticesOf(alerts))
    BY <1>3, <2>0, ConsumedNotices
  <2>2. Replica!Deliver
    BY <1>1, <1>3, <2>1, Zenon DEF Replica!Deliver, NoticesOf, View
  <2> QED BY <2>2 DEF Replica!Next
<1>4. CASE Consumed(batch) /\ lost' = TRUE
  <2>0. batch \in 1 .. batch
    BY <1>4 DEF Consumed
  <2>1. /\ batch \in 1 .. Len(NoticesOf(alerts))
        /\ NoticesOf(alerts') = SubSeq(NoticesOf(alerts), batch + 1, Len(NoticesOf(alerts)))
    BY <1>4, <2>0, ConsumedNotices
  <2>2. Replica!Lose
    BY <1>1, <1>4, <2>1, Zenon DEF Replica!Lose, NoticesOf, View
  <2> QED BY <2>2 DEF Replica!Next
<1> QED BY <1>2, <1>3, <1>4

(* The alert of a handler that runs names its torrent.                     *)
LEMMA FirstMembership ==
    ASSUME ViewInv, batch > 0
    PROVE  LET a == Head(alerts)
               x == a.infoHash
           IN  /\ a = alerts[1] /\ 1 \in 1 .. Len(alerts)
               /\ x \in InfoHash /\ a \in Alert
               /\ IsMembership(a, x) =>
                      a.handle \in Handle /\ a.handle # NoHandle /\ handles[a.handle] = x
<1>1. /\ Head(alerts) = alerts[1] /\ 1 \in 1 .. Len(alerts)
      /\ Head(alerts).infoHash \in InfoHash /\ Head(alerts) \in Alert
  BY FirstAlert DEF ViewInv, Alert
<1> QED BY <1>1, Types DEF ViewInv, Order, AlertsNameTheirTorrent

LEMMA AddTorrentAlertRefines ==
    ASSUME ViewInv, AddTorrentAlert
    PROVE  Replica!Next \/ UNCHANGED Replica!vars
<1> DEFINE a == Head(alerts)
           x == a.infoHash
           y == InfoHashOf(a.handle)
<1>1. /\ batch > 0 /\ a.type = "add_torrent"
      /\ UNCHANGED <<handles, alive, libtorrent>>
  BY DEF AddTorrentAlert, Processing, networkVars
<1>2. /\ a = alerts[1] /\ x \in InfoHash
      /\ IsMembership(a, x) =>
             a.handle \in Handle /\ a.handle # NoHandle /\ handles[a.handle] = x
  BY <1>1, FirstMembership
<1>3. CASE Continue("construct")
  BY <1>1, <1>3, ReplicaStutters DEF Continue, mapVars
<1>4. CASE /\ ~a.ok \/ y = EmptyInfoHash \/ Has(y)
           /\ Advance /\ UNCHANGED <<mapVars, callbacks>>
  <2>1. View' = View
    BY <1>4 DEF View, Has, mapVars
  <2>2. ViewFollows(alerts[1])
    <3>1. CASE ~a.ok
      BY <1>1, <1>2, <2>1, <3>1 DEF ViewFollows, IsMembership, IsAdded, IsRemoved
    <3>2. CASE a.ok /\ a.handle \in alive
      <4>1. IsAdded(a, x) /\ IsMembership(a, x)
        BY <1>1, <3>2 DEF IsAdded, IsMembership
      <4>2. y = x
        BY <1>2, <3>2, <4>1 DEF InfoHashOf
      <4>3. Has(x)
        BY <1>2, <1>4, <3>2, <4>2, Constants
      <4>4. View' = View \union {x}
        BY <1>2, <2>1, <4>3 DEF View
      <4> QED BY <1>2, <4>1, <4>4 DEF ViewFollows
    <3>3. CASE a.ok /\ a.handle \notin alive
      <4>1. IsAdded(a, x) /\ IsMembership(a, x)
        BY <1>1, <3>3 DEF IsAdded, IsMembership
      <4>2. a.handle # libtorrent[x]
        BY <1>2, <3>3, <4>1 DEF ViewInv, Order, SessionIsNewest
      <4>3. ASSUME ~lost PROVE \E i \in 2 .. Len(alerts) : IsRemoved(alerts[i], x)
        <5>1. Agrees(x, libtorrent[x], Len(alerts) + 1)
          BY <1>2, <4>3 DEF ViewInv, Complete
        <5>2. Len(alerts) \in Nat /\ 1 \in 1 .. Len(alerts)
          BY <1>1, FirstMembership, Types DEF ViewInv
        <5>3. 1 \in 1 .. Len(alerts) + 1 - 1
          BY <5>2
        <5>4. \E j \in 1 + 1 .. Len(alerts) + 1 - 1 : IsRemoved(alerts[j], x)
          BY <1>2, <4>1, <4>2, <5>1, <5>3 DEF Agrees
        <5> QED BY <5>2, <5>4
      <4> QED BY <1>2, <2>1, <4>1, <4>3 DEF ViewFollows
    <3> QED BY <3>1, <3>2, <3>3
  <2> QED BY <1>1, <1>4, <2>2, EndDelivers DEF ViewInv
<1> QED BY <1>3, <1>4 DEF AddTorrentAlert

LEMMA ConstructTorrentRefines ==
    ASSUME ViewInv, ConstructTorrent
    PROVE  Replica!Next
<1> DEFINE a == Head(alerts)
           x == a.infoHash
<1>1. /\ batch > 0 /\ a.type = "add_torrent" /\ a.ok
      /\ libtorrent' = libtorrent /\ ReturnFromUser
  BY DEF ConstructTorrent, ViewInv, Order, HandlerHasItsAlert, TypeInv, TypeOK, networkVars
<1>2. IsAdded(a, x) /\ IsMembership(a, x)
  BY <1>1 DEF IsAdded, IsMembership
<1>3. /\ a = alerts[1] /\ x \in InfoHash
      /\ a.handle # NoHandle /\ handles[a.handle] = x
  BY <1>1, <1>2, FirstMembership
<1>4. /\ torrents \in [InfoHash -> [handle : Handle \union {NoHandle},
                                    infoHash : InfoHash \union {EmptyInfoHash}]]
      /\ torrents' = [torrents EXCEPT ![x] = [handle |-> a.handle,
                                              infoHash |-> InfoHashOf(a.handle)]]
  BY <1>3 DEF ConstructTorrent, ViewInv, TypeInv, TypeOK
<1>5. torrents'[x] # NoTorrent /\ \A y \in InfoHash : y # x => torrents'[y] = torrents[y]
  <2>1. torrents'[x].handle = a.handle
    BY <1>3, <1>4
  <2> QED BY <1>3, <1>4, <2>1 DEF NoTorrent
<1>6. View' = View \union {x}
  BY <1>3, <1>5 DEF View, Has
<1>7. ViewFollows(alerts[1])
  BY <1>2, <1>3, <1>6 DEF ViewFollows
<1> QED BY <1>1, <1>7, EndDelivers DEF ViewInv

LEMMA TorrentRemovedAlertRefines ==
    ASSUME ViewInv, TorrentRemovedAlert
    PROVE  Replica!Next
<1> DEFINE a == Head(alerts)
           x == a.infoHash
<1>1. /\ batch > 0 /\ IsRemoved(a, x) /\ libtorrent' = libtorrent
      /\ \/ Forget(x)
         \/ ~Has(x) /\ UNCHANGED mapVars
      /\ Advance \/ ReturnFromUser
  BY DEF TorrentRemovedAlert, Processing, networkVars, IsRemoved
<1>2. a = alerts[1] /\ x \in InfoHash
  BY <1>1, FirstMembership
<1>3. torrents \in [InfoHash -> [handle : Handle \union {NoHandle},
                                 infoHash : InfoHash \union {EmptyInfoHash}]]
  BY DEF ViewInv, TypeInv, TypeOK
<1>4. View' = View \ {x}
  <2>1. CASE Forget(x)
    <3>1. torrents'[x] = NoTorrent /\ \A y \in InfoHash : y # x => torrents'[y] = torrents[y]
      BY <1>2, <1>3, <2>1 DEF Forget
    <3> QED BY <1>2, <3>1 DEF View, Has
  <2>2. CASE ~Has(x) /\ UNCHANGED mapVars
    BY <1>2, <2>2 DEF View, Has, mapVars
  <2> QED BY <1>1, <2>1, <2>2
<1>5. ViewFollows(alerts[1])
  BY <1>1, <1>2, <1>4 DEF ViewFollows
<1> QED BY <1>1, <1>5, EndDelivers DEF ViewInv

(* A handler of an alert that is about no coming or going.                 *)
LEMMA OtherHandlerRefines ==
    ASSUME ViewInv, batch > 0, Advance \/ Abort \/ ReturnFromUser,
           UNCHANGED <<libtorrent, torrents>>,
           Head(alerts).type \notin {"add_torrent", "torrent_removed"}
    PROVE  Replica!Next
<1> DEFINE a == Head(alerts)
<1>1. a = alerts[1]
  BY FirstMembership
<1>2. ~IsMembership(a, a.infoHash)
  BY DEF IsMembership, IsAdded, IsRemoved
<1>3. View' = View
  BY DEF View, Has
<1>4. ViewFollows(alerts[1])
  BY <1>1, <1>2, <1>3 DEF ViewFollows
<1> QED BY <1>4, EndDelivers DEF ViewInv

LEMMA AlertListenerThrowsRefines ==
    ASSUME ViewInv, AlertListenerThrows
    PROVE  Replica!Next
<1>1. /\ batch > 0 /\ lost' = TRUE /\ batch' = 0
      /\ alerts' = SubSeq(alerts, batch + 1, Len(alerts))
      /\ UNCHANGED <<libtorrent, torrents>>
  BY DEF AlertListenerThrows, networkVars, mapVars
<1>2. Consumed(batch) /\ batch \in 1 .. batch
  BY <1>1, DropBatchConsumes DEF ViewInv, TypeInv, TypeOK
<1>3. /\ batch \in 1 .. Len(NoticesOf(alerts))
      /\ NoticesOf(alerts') = SubSeq(NoticesOf(alerts), batch + 1, Len(NoticesOf(alerts)))
  BY <1>1, <1>2, ConsumedNotices DEF ViewInv
<1>4. NoticesOf(alerts) # <<>>
  BY <1>3, NoticesNow DEF ViewInv
<1>5. View' = View
  BY <1>1 DEF View, Has
<1>6. Replica!Lose
  BY <1>1, <1>3, <1>4, <1>5, Zenon DEF Replica!Lose, NoticesOf, View
<1> QED BY <1>6 DEF Replica!Next

LEMMA HandleAlertRefines ==
    ASSUME ViewInv, HandleAlert
    PROVE  Replica!Next \/ UNCHANGED Replica!vars
<1>1. CASE DispatchTorrentAlert
  BY <1>1, OtherHandlerRefines
     DEF DispatchTorrentAlert, Processing, networkVars, mapVars
<1>2. CASE AddResult
  <2>1. CASE Continue("resolve")
    BY <1>2, <2>1, ReplicaStutters DEF Continue, AddResult, Processing, networkVars, mapVars
  <2>2. CASE ReturnFromUser /\ UNCHANGED mapVars
    BY <1>2, <2>2, OtherHandlerRefines DEF AddResult, Processing, networkVars, mapVars
  <2> QED BY <1>2, <2>1, <2>2 DEF AddResult
<1>3. CASE ResolveAddedTorrent
  <2>1. batch > 0 /\ Head(alerts).type = "add_result"
    BY <1>3 DEF ResolveAddedTorrent, ViewInv, Order, HandlerHasItsAlert, TypeInv, TypeOK
  <2> QED BY <1>3, <2>1, OtherHandlerRefines
          DEF ResolveAddedTorrent, Throws, networkVars, mapVars
<1>4. CASE RemoveResult
  BY <1>4, OtherHandlerRefines DEF RemoveResult, Processing, networkVars, mapVars
<1> QED BY <1>1, <1>2, <1>3, <1>4, AlertListenerThrowsRefines, AddTorrentAlertRefines,
           ConstructTorrentRefines, TorrentRemovedAlertRefines DEF HandleAlert

(* The notices of one or two posted alerts.                                *)
LEMMA OneNotice ==
    ASSUME NEW a \in Alert
    PROVE  NoticesOf(<<a>>) = <<NoticeOf(a)>>
<1>1. \A i \in 1 .. 1 : i = 1
  OBVIOUS
<1> QED BY <1>1 DEF NoticesOf

LEMMA TwoNotices ==
    ASSUME NEW a \in Alert, NEW b \in Alert
    PROVE  NoticesOf(<<a, b>>) = <<NoticeOf(a), NoticeOf(b)>>
<1> DEFINE s == <<a, b>>
           t == <<NoticeOf(a), NoticeOf(b)>>
           N == Replica!Notice
<1>1. s \in Seq(Alert) /\ Len(s) = 2 /\ s[1] = a /\ s[2] = b
  BY TwoAlerts
<1>2. /\ NoticesOf(s) \in Seq(N) /\ Len(NoticesOf(s)) = 2
      /\ \A i \in 1 .. 2 : NoticesOf(s)[i] = NoticeOf(s[i])
  BY <1>1, NoticesType
<1>3. NoticesOf(s)[1] = NoticeOf(a) /\ NoticesOf(s)[2] = NoticeOf(b)
  BY <1>1, <1>2
<1>4. NoticeOf(a) \in N /\ NoticeOf(b) \in N
  <2>1. /\ NoticesOf(s)[1] \in N /\ NoticesOf(s)[2] \in N
    BY <1>2
  <2> QED BY <1>3, <2>1
<1> HIDE DEF s, N
<1>5. t \in Seq(N) /\ Len(t) = 2 /\ t[1] = NoticeOf(a) /\ t[2] = NoticeOf(b)
  BY <1>4
<1> HIDE DEF t
<1>6. \A i \in 1 .. 2 : NoticesOf(s)[i] = t[i]
  BY <1>3, <1>5
<1>7. NoticesOf(s) = t
  BY <1>2, <1>5, <1>6, SeqEqual
<1> QED BY <1>7 DEF s, t

(* What the alerts that the network thread posts say to the replica.       *)
LEMMA NoticeOfNotification ==
    ASSUME NEW h \in Nat, NEW x \in InfoHash
    PROVE  /\ NoticeOf(Notification("add_torrent", h, x, TRUE)) = Replica!Added(x)
           /\ NoticeOf(Notification("add_torrent", h, x, FALSE)) = Replica!Other(x)
           /\ NoticeOf(Notification("torrent_removed", h, x, TRUE)) = Replica!Removed(x)
BY DEF NoticeOf, Notification, Replica!Added, Replica!Removed, Replica!Other

LEMMA NoticeOfResult ==
    ASSUME NEW type \in Results, NEW h \in Nat, NEW req \in Request, NEW ok \in BOOLEAN
    PROVE  NoticeOf(Result(type, h, req, ok)) = Replica!Other(req.infoHash)
BY DEF NoticeOf, Result, Results, Replica!Other

LEMMA JoinRefines ==
    ASSUME ViewInv, NEW x \in InfoHash, Create(x), UNCHANGED torrents,
           NEW ns, Replica!Publish(ns),
           ns \in {<<Replica!Added(x)>>, <<Replica!Added(x), Replica!Other(x)>>}
    PROVE  Replica!Next
<1>1. libtorrent \in [InfoHash -> Handle \union {NoHandle}] /\ NewHandle # NoHandle
  BY Types DEF ViewInv, TypeInv, TypeOK, NewHandle, NoHandle
<1>2. x \notin Present /\ Present' = Present \union {x}
  BY <1>1 DEF Create, Present
<1>3. View' = View
  BY DEF View, Has
<1>4. ns \in Replica!WithAnswer(Replica!Added(x))
  BY DEF Replica!WithAnswer, Replica!Added
<1>5. Replica!Join(x)
  BY <1>2, <1>3, <1>4, Zenon DEF Replica!Join, Present, View
<1> QED BY <1>5 DEF Replica!Next, Replica!Change

LEMMA LeaveRefines ==
    ASSUME ViewInv, NEW x \in InfoHash, Delete(x), UNCHANGED torrents,
           NEW ns, Replica!Publish(ns),
           ns \in {<<Replica!Removed(x)>>, <<Replica!Removed(x), Replica!Other(x)>>}
    PROVE  Replica!Next
<1>1. libtorrent \in [InfoHash -> Handle \union {NoHandle}]
  BY DEF ViewInv, TypeInv, TypeOK
<1>2. x \in Present /\ Present' = Present \ {x}
  BY <1>1 DEF Delete, Present
<1>3. View' = View
  BY DEF View, Has
<1>4. ns \in Replica!WithAnswer(Replica!Removed(x))
  BY DEF Replica!WithAnswer, Replica!Removed
<1>5. Replica!Leave(x)
  BY <1>2, <1>3, <1>4, Zenon DEF Replica!Leave, Present, View
<1> QED BY <1>5 DEF Replica!Next, Replica!Change

LEMMA ChatterRefines ==
    ASSUME NEW x \in InfoHash, UNCHANGED <<libtorrent, torrents>>,
           NEW ns, Replica!Publish(ns),
           ns \in {<<Replica!Other(x)>>, <<Replica!Other(x), Replica!Other(x)>>}
    PROVE  Replica!Next
<1>1. Present' = Present /\ View' = View
  BY DEF Present, View, Has
<1>2. Replica!Chatter(x)
  BY <1>1, Zenon DEF Replica!Chatter, Present, View
<1> QED BY <1>2 DEF Replica!Next, Replica!Change

LEMMA NetworkRefines ==
    ASSUME ViewInv, Network
    PROVE  Replica!Next
<1> DEFINE req == Head(requests)
           x == req.infoHash
           h == libtorrent[x]
<1>1. req \in Request /\ x \in InfoHash /\ h \in Nat
  BY FirstRequest, Types
     DEF Network, ProcessAdd, ProcessAddFails, ProcessRemove, ProcessRemoveFails, ViewInv
<1>2. NewHandle \in Nat /\ NoHandle \in Nat
  BY Types DEF ViewInv, NewHandle, NoHandle
<1> HIDE DEF req, x, h
<1>3. CASE ProcessAdd
  <2> DEFINE A == Notification("add_torrent", NewHandle, x, TRUE)
             B == Result("add_result", NewHandle, req, TRUE)
  <2>1. A \in Alert /\ B \in Alert
    BY <1>1, <1>2, NotificationType, ResultType DEF Results
  <2>2. NoticeOf(A) = Replica!Added(x) /\ NoticeOf(B) = Replica!Other(x)
    BY <1>1, <1>2, NoticeOfNotification, NoticeOfResult DEF Results, x
  <2>3. Create(x) /\ Post(<<A, B>>)
    BY <1>3 DEF ProcessAdd, x, req
  <2> HIDE DEF A, B
  <2>4. Replica!Publish(<<Replica!Added(x), Replica!Other(x)>>)
    BY <2>1, <2>2, <2>3, TwoAlerts, TwoNotices, PostPublishes DEF ViewInv
  <2> QED BY <1>1, <2>3, <2>4, JoinRefines DEF Post, mapVars
<1>4. CASE ProcessAddFails
  <2> DEFINE A == Notification("add_torrent", NoHandle, x, FALSE)
             B == Result("add_result", NoHandle, req, FALSE)
  <2>1. A \in Alert /\ B \in Alert
    BY <1>1, <1>2, NotificationType, ResultType DEF Results
  <2>2. NoticeOf(A) = Replica!Other(x) /\ NoticeOf(B) = Replica!Other(x)
    BY <1>1, <1>2, NoticeOfNotification, NoticeOfResult DEF Results, x
  <2>3. libtorrent' = libtorrent /\ Post(<<A, B>>)
    BY <1>4 DEF ProcessAddFails, x, req, networkVars
  <2> HIDE DEF A, B
  <2>4. Replica!Publish(<<Replica!Other(x), Replica!Other(x)>>)
    <3>1. NoticesOf(<<A, B>>) = <<Replica!Other(x), Replica!Other(x)>>
      BY <2>1, <2>2, TwoNotices
    <3>2. <<A, B>> \in Seq(Alert)
      BY <2>1, TwoAlerts
    <3>3. Replica!Publish(NoticesOf(<<A, B>>))
      BY <2>3, <3>2, PostPublishes DEF ViewInv
    <3> QED BY <3>1, <3>3
  <2> QED BY <1>1, <2>3, <2>4, ChatterRefines DEF Post, mapVars
<1>5. CASE ProcessRemove
  <2> DEFINE A == Notification("torrent_removed", h, x, TRUE)
             B == Result("remove_result", h, req, TRUE)
  <2>1. A \in Alert /\ B \in Alert
    BY <1>1, <1>2, NotificationType, ResultType DEF Results
  <2>2. NoticeOf(A) = Replica!Removed(x) /\ NoticeOf(B) = Replica!Other(x)
    BY <1>1, <1>2, NoticeOfNotification, NoticeOfResult DEF Results, x
  <2>3. Delete(x) /\ Post(<<A, B>>)
    BY <1>5 DEF ProcessRemove, x, h, req
  <2> HIDE DEF A, B
  <2>4. Replica!Publish(<<Replica!Removed(x), Replica!Other(x)>>)
    BY <2>1, <2>2, <2>3, TwoAlerts, TwoNotices, PostPublishes DEF ViewInv
  <2> QED BY <1>1, <2>3, <2>4, LeaveRefines DEF Post, mapVars
<1>6. CASE ProcessRemoveFails
  <2> DEFINE A == Result("remove_result", NoHandle, req, FALSE)
  <2>1. A \in Alert
    BY <1>1, <1>2, ResultType DEF Results
  <2>2. NoticeOf(A) = Replica!Other(x)
    BY <1>1, <1>2, NoticeOfResult DEF Results, x
  <2>3. libtorrent' = libtorrent /\ Post(<<A>>)
    BY <1>6 DEF ProcessRemoveFails, req, networkVars
  <2> HIDE DEF A
  <2>4. Replica!Publish(<<Replica!Other(x)>>)
    BY <2>1, <2>2, <2>3, OneAlert, OneNotice, PostPublishes DEF ViewInv
  <2> QED BY <1>1, <2>3, <2>4, ChatterRefines DEF Post, mapVars
<1> QED BY <1>3, <1>4, <1>5, <1>6 DEF Network

LEMMA ExternalAddRefines ==
    ASSUME ViewInv, NEW x \in InfoHash, ExternalAdd(x)
    PROVE  Replica!Next
<1> DEFINE A(h) == Notification("add_torrent", h, x, TRUE)
<1>1. \A h \in Nat : A(h) \in Alert /\ NoticeOf(A(h)) = Replica!Added(x)
  BY NotificationType, NoticeOfNotification
<1>2. NewHandle \in Nat /\ libtorrent[x] \in Nat
  BY Types DEF ViewInv, NewHandle
<1>3. /\ UNCHANGED torrents
      /\ \/ Create(x) /\ Post(<<A(NewHandle)>>)
         \/ libtorrent[x] # NoHandle /\ Post(<<A(libtorrent[x])>>) /\ libtorrent' = libtorrent
  BY DEF ExternalAdd, Post, networkVars, mapVars
<1> HIDE DEF A
<1>4. ASSUME NEW h \in Nat, Post(<<A(h)>>)
      PROVE  Replica!Publish(<<Replica!Added(x)>>)
  BY <1>1, <1>4, OneAlert, OneNotice, PostPublishes DEF ViewInv
<1>5. CASE Create(x) /\ Post(<<A(NewHandle)>>)
  BY <1>2, <1>3, <1>4, <1>5, JoinRefines
<1>6. CASE libtorrent[x] # NoHandle /\ Post(<<A(libtorrent[x])>>) /\ libtorrent' = libtorrent
  <2>1. Replica!Publish(<<Replica!Added(x)>>)
    BY <1>2, <1>4, <1>6
  <2>2. x \in Present /\ Present' = Present /\ View' = View
    BY <1>3, <1>6 DEF Present, View, Has
  <2>3. Replica!Repeat(x)
    BY <2>1, <2>2, Zenon DEF Replica!Repeat, Present, View
  <2> QED BY <2>3 DEF Replica!Next, Replica!Change
<1> QED BY <1>3, <1>5, <1>6

LEMMA ExternalRemoveRefines ==
    ASSUME ViewInv, NEW x \in InfoHash, ExternalRemove(x)
    PROVE  Replica!Next
<1> DEFINE A == Notification("torrent_removed", libtorrent[x], x, TRUE)
<1>1. libtorrent[x] \in Nat
  BY Types DEF ViewInv
<1>2. A \in Alert /\ NoticeOf(A) = Replica!Removed(x)
  BY <1>1, NotificationType, NoticeOfNotification
<1>3. Delete(x) /\ Post(<<A>>) /\ UNCHANGED torrents
  BY DEF ExternalRemove, Post, mapVars
<1> HIDE DEF A
<1>4. Replica!Publish(<<Replica!Removed(x)>>)
  BY <1>2, <1>3, OneAlert, OneNotice, PostPublishes DEF ViewInv
<1> QED BY <1>3, <1>4, LeaveRefines

LEMMA TorrentEventRefines ==
    ASSUME ViewInv, NEW h \in Handle, TorrentEvent(h)
    PROVE  Replica!Next
<1> DEFINE A(type) == [Notification(type, h, handles[h], TRUE)
                          EXCEPT !.current = (libtorrent[handles[h]] = h)]
           x == handles[h]
<1>1. PICK type \in {"event", "status"} : Post(<<A(type)>>)
  BY DEF TorrentEvent
<1>2. h \in Nat /\ x \in InfoHash
  BY Types DEF ViewInv
<1>3. A(type) \in Alert
  BY <1>2 DEF Notification, Alert, NoRequest
<1>4. NoticeOf(A(type)) = Replica!Other(x)
  BY DEF NoticeOf, Notification, Replica!Other
<1>5. UNCHANGED <<libtorrent, torrents>>
  BY <1>1 DEF TorrentEvent, Post, networkVars, mapVars
<1> DEFINE a == A(type)
<1>6. Post(<<a>>) /\ a \in Alert /\ NoticeOf(a) = Replica!Other(x)
  BY <1>1, <1>3, <1>4
<1> HIDE DEF A, a, x
<1>7. Replica!Publish(<<Replica!Other(x)>>)
  BY <1>6, OneAlert, OneNotice, PostPublishes DEF ViewInv
<1> QED BY <1>2, <1>5, <1>7, ChatterRefines

LEMMA NextRefines ==
    ASSUME ViewInv, [Next]_vars
    PROVE  [Replica!Next]_Replica!vars
<1>1. CASE User \/ PopAlerts
  BY <1>1, ReplicaStutters
     DEF User, AddTorrent, RemoveTorrent, Submit, PopAlerts, networkVars, mapVars
<1>2. CASE Environment
  <2>1. ASSUME NEW h \in Handle, Expire(h)
        PROVE  UNCHANGED Replica!vars
    BY <2>1, ReplicaStutters DEF Expire, mapVars
  <2> QED BY <1>2, <2>1, ExternalAddRefines, ExternalRemoveRefines, TorrentEventRefines
          DEF Environment
<1>3. CASE UNCHANGED vars
  BY <1>3, ReplicaStutters DEF vars, networkVars, mapVars
<1> QED BY <1>1, <1>2, <1>3, NetworkRefines, HandleAlertRefines DEF Next

(***************************************************************************)
(* The torrents map is the replica of the libtorrent session: every step   *)
(* of the session, the plugin and the user is one of the replica or        *)
(* changes nothing of it, whatever the limit of the alert queue and        *)
(* whoever throws.                                                         *)
(***************************************************************************)
THEOREM MapImplementsReplica == Spec => ImplementsReplica
<1>1. Init => Replica!Init
  <2> SUFFICES ASSUME Init PROVE Replica!Init
    OBVIOUS
  <2>1. Present = {} /\ View = {} /\ lost = FALSE
    BY DEF Init, Present, View, Has
  <2>2. NoticesOf(alerts) = <<>>
    BY DEF Init, NoticesOf
  <2> QED BY <2>1, <2>2, Zenon DEF Replica!Init, Present, View, NoticesOf
<1>2. ViewInv /\ [Next]_vars => [Replica!Next]_Replica!vars
  BY NextRefines
<1> QED BY <1>1, <1>2, ViewInvariant, PTL DEF Spec, ImplementsReplica, Replica!Spec

-----------------------------------------------------------------------------
(* The secondary hashes of assisted discovery.                             *)

(* A Torrent object has its own hash, or that of an invalid handle.        *)
OwnHash == \A x \in InfoHash : Has(x) => torrents[x].infoHash \in {x, EmptyInfoHash}

SecondaryInv == OwnHash /\ LiveTorrentReachable /\ SecondaryPointsBack

LEMMA SecondaryInjective ==
    ASSUME NEW x, NEW y, SecondaryInfoHash(x) = SecondaryInfoHash(y)
    PROVE  x = y
BY DEF SecondaryInfoHash

LEMMA SecondaryTypes ==
    ASSUME TypeInv
    PROVE  /\ torrents \in [InfoHash -> [handle : Handle \union {NoHandle},
                                         infoHash : InfoHash \union {EmptyInfoHash}]]
           /\ bySecondary \in [SecondaryHash -> InfoHash \union {EmptyInfoHash}]
           /\ \A x \in InfoHash \union {EmptyInfoHash} :
                  SecondaryInfoHash(x) \in SecondaryHash
           /\ NoHandle \notin alive
BY Types DEF TypeInv, TypeOK, SecondaryHash

(* Torrents are freed, and only new ones come to life.                     *)
LEMMA MapUntouched ==
    ASSUME ViewInv, SecondaryInv, UNCHANGED <<torrents, bySecondary>>,
           alive' \subseteq alive \union {NewHandle}
    PROVE  SecondaryInv'
<1>1. \A x \in InfoHash : torrents[x].handle \in alive' => torrents[x].handle \in alive
  <2>1. \A x \in InfoHash : torrents[x].handle \in Handle \union {NoHandle}
    BY SecondaryTypes DEF ViewInv
  <2>2. NewHandle \notin Handle /\ NewHandle # NoHandle
    BY Types DEF ViewInv, Handle, NewHandle, NoHandle
  <2> QED BY <2>1, <2>2
<1> QED BY <1>1 DEF SecondaryInv, OwnHash, LiveTorrentReachable, SecondaryPointsBack, Has

(* The entry of a torrent goes with the torrent.                           *)
LEMMA ForgetKeepsSecondary ==
    ASSUME ViewInv, SecondaryInv, NEW x \in InfoHash, Has(x), Forget(x),
           alive' = alive
    PROVE  SecondaryInv'
<1> DEFINE s == SecondaryInfoHash(torrents[x].infoHash)
<1>1. torrents[x].infoHash \in {x, EmptyInfoHash}
  BY DEF SecondaryInv, OwnHash
<1>2. s \in SecondaryHash
  BY <1>1, SecondaryTypes DEF ViewInv
<1>3. /\ torrents'[x] = NoTorrent
      /\ \A y \in InfoHash : y # x => torrents'[y] = torrents[y]
  BY SecondaryTypes DEF Forget, ViewInv
<1>4. /\ bySecondary'[s] = EmptyInfoHash
      /\ \A r \in SecondaryHash : r # s => bySecondary'[r] = bySecondary[r]
  BY <1>2, SecondaryTypes DEF Forget, ViewInv
<1>6. OwnHash'
  BY <1>3 DEF SecondaryInv, OwnHash, Has
<1>7. ASSUME Assisted, NEW y \in InfoHash, torrents'[y].handle \in alive
      PROVE  torrents'[y].infoHash = y /\ bySecondary'[SecondaryInfoHash(y)] = y
  <2>1. y # x
    BY <1>3, <1>7, SecondaryTypes DEF NoTorrent, ViewInv
  <2>2. torrents[y].infoHash = y /\ bySecondary[SecondaryInfoHash(y)] = y
    BY <1>3, <1>7, <2>1 DEF SecondaryInv, LiveTorrentReachable
  <2>3. SecondaryInfoHash(y) # s
    BY <1>1, <2>1, SecondaryInjective, Constants
  <2> QED BY <1>3, <1>4, <2>1, <2>2, <2>3, SecondaryTypes DEF ViewInv
<1>8. ASSUME NEW r \in SecondaryHash, bySecondary'[r] # EmptyInfoHash
      PROVE  /\ bySecondary'[r] \in InfoHash /\ torrents'[bySecondary'[r]] # NoTorrent
             /\ SecondaryInfoHash(torrents'[bySecondary'[r]].infoHash) = r
  <2> DEFINE y == bySecondary[r]
  <2>1. r # s /\ bySecondary'[r] = y
    BY <1>4, <1>8
  <2>2. Has(y) /\ SecondaryInfoHash(torrents[y].infoHash) = r
    BY <1>8, <2>1 DEF SecondaryInv, SecondaryPointsBack
  <2>3. y # x /\ y \in InfoHash
    BY <2>1, <2>2 DEF Has
  <2> HIDE DEF y
  <2>4. torrents'[y] = torrents[y] /\ torrents[y] # NoTorrent
    BY <1>3, <2>2, <2>3 DEF Has
  <2> QED BY <2>1, <2>2, <2>3, <2>4
<1>9. LiveTorrentReachable' /\ SecondaryPointsBack'
  BY <1>7, <1>8 DEF LiveTorrentReachable, SecondaryPointsBack, Has
<1> QED BY <1>6, <1>9 DEF SecondaryInv

(* A torrent enters the map with its entry, under whatever hash its handle *)
(* answers the second time.                                                *)
LEMMA ConstructKeepsSecondary ==
    ASSUME ViewInv, SecondaryInv, ConstructTorrent
    PROVE  SecondaryInv'
<1> DEFINE a == Head(alerts)
           x == a.infoHash
           i == InfoHashOf(a.handle)
           s == SecondaryInfoHash(i)
<1>1. /\ batch > 0 /\ IsMembership(a, x) /\ ~Has(x) /\ alive' = alive
  BY DEF ConstructTorrent, ViewInv, Order, HandlerHasItsAlert, TypeInv, TypeOK,
     IsMembership, IsAdded, networkVars
<1>2. /\ x \in InfoHash /\ a.handle # NoHandle /\ handles[a.handle] = x
  BY <1>1, FirstMembership
<1>3. i \in {x, EmptyInfoHash} /\ (a.handle \in alive => i = x)
  BY <1>2 DEF InfoHashOf
<1>4. s \in SecondaryHash
  BY <1>2, <1>3, SecondaryTypes DEF ViewInv
<1>5. /\ torrents'[x] = [handle |-> a.handle, infoHash |-> i]
      /\ \A y \in InfoHash : y # x => torrents'[y] = torrents[y]
  BY <1>2, SecondaryTypes DEF ConstructTorrent, ViewInv
<1>6. torrents'[x].handle = a.handle /\ torrents'[x].infoHash = i
  BY <1>5
<1>7. /\ bySecondary' = IF Assisted THEN [bySecondary EXCEPT ![s] = x] ELSE bySecondary
      /\ \A r \in SecondaryHash :
             \/ bySecondary'[r] = bySecondary[r] /\ (Assisted => r # s)
             \/ Assisted /\ r = s /\ bySecondary'[r] = x
  BY <1>2, <1>4, SecondaryTypes, Constants DEF ConstructTorrent, ViewInv
<1>8. torrents'[x] # NoTorrent
  BY <1>2, <1>6 DEF NoTorrent
<1> HIDE DEF a, x, i, s
<1>9. OwnHash'
  BY <1>3, <1>5, <1>6 DEF SecondaryInv, OwnHash, Has
<1>10. ASSUME Assisted, NEW y \in InfoHash, torrents'[y].handle \in alive
       PROVE  torrents'[y].infoHash = y /\ bySecondary'[SecondaryInfoHash(y)] = y
  <2>0. SecondaryInfoHash(y) \in SecondaryHash
    BY SecondaryTypes DEF ViewInv
  <2>1. CASE y = x
    BY <1>3, <1>6, <1>7, <1>10, <2>0, <2>1 DEF s
  <2>2. CASE y # x
    <3>1. torrents[y].infoHash = y /\ bySecondary[SecondaryInfoHash(y)] = y
      BY <1>5, <1>10, <2>2 DEF SecondaryInv, LiveTorrentReachable
    <3>2. SecondaryInfoHash(y) # s
      BY <1>3, <2>2, SecondaryInjective, Constants DEF s
    <3> QED BY <1>5, <1>7, <2>0, <2>2, <3>1, <3>2
  <2> QED BY <2>1, <2>2
<1>11. ASSUME NEW r \in SecondaryHash, bySecondary'[r] # EmptyInfoHash
       PROVE  /\ bySecondary'[r] \in InfoHash /\ torrents'[bySecondary'[r]] # NoTorrent
              /\ SecondaryInfoHash(torrents'[bySecondary'[r]].infoHash) = r
  <2>1. CASE r = s /\ bySecondary'[r] = x
    <3>1. SecondaryInfoHash(torrents'[x].infoHash) = r
      BY <1>6, <2>1 DEF s
    <3> QED BY <1>2, <1>8, <2>1, <3>1
  <2>2. CASE bySecondary'[r] = bySecondary[r]
    <3> DEFINE y == bySecondary[r]
    <3>1. Has(y) /\ SecondaryInfoHash(torrents[y].infoHash) = r
      BY <1>11, <2>2 DEF SecondaryInv, SecondaryPointsBack
    <3>2. y # x /\ y \in InfoHash
      BY <1>1, <3>1 DEF Has
    <3> HIDE DEF y
    <3>3. torrents'[y] = torrents[y] /\ torrents[y] # NoTorrent
      BY <1>5, <3>1, <3>2 DEF Has
    <3>4. bySecondary'[r] = y
      BY <2>2 DEF y
    <3> QED BY <3>1, <3>2, <3>3, <3>4
  <2> QED BY <1>7, <2>1, <2>2
<1>12. LiveTorrentReachable' /\ SecondaryPointsBack'
  BY <1>1, <1>10, <1>11 DEF LiveTorrentReachable, SecondaryPointsBack, Has
<1> QED BY <1>9, <1>12 DEF SecondaryInv

LEMMA NextKeepsSecondary ==
    ASSUME ViewInv, SecondaryInv, [Next]_vars
    PROVE  SecondaryInv'
<1>1. CASE User \/ PopAlerts \/ UNCHANGED vars
  BY <1>1, MapUntouched
     DEF User, AddTorrent, RemoveTorrent, Submit, PopAlerts, vars, networkVars, mapVars
<1>2. CASE Network \/ Environment
  BY <1>2, MapUntouched
     DEF Network, ProcessAdd, ProcessAddFails, ProcessRemove, ProcessRemoveFails,
         Environment, ExternalAdd, ExternalRemove, Expire, TorrentEvent,
         Create, Delete, Post, networkVars, mapVars
<1>3. CASE ConstructTorrent
  BY <1>3, ConstructKeepsSecondary
<1>4. CASE TorrentRemovedAlert
  <2> DEFINE x == Head(alerts).infoHash
  <2>1. alive' = alive /\ ((Has(x) /\ Forget(x)) \/ UNCHANGED <<torrents, bySecondary>>)
    BY <1>4 DEF TorrentRemovedAlert, Processing, networkVars, mapVars
  <2> QED BY <2>1, MapUntouched, ForgetKeepsSecondary DEF Has
<1>5. CASE HandleAlert /\ ~ConstructTorrent /\ ~TorrentRemovedAlert
  BY <1>5, MapUntouched DEF HandleAlert, AlertListenerThrows, AddTorrentAlert, Continue,
     DispatchTorrentAlert, AddResult, ResolveAddedTorrent, RemoveResult, Processing,
     networkVars, mapVars
<1> QED BY <1>1, <1>2, <1>3, <1>4, <1>5 DEF Next

LEMMA SecondaryInvariant == Spec => []SecondaryInv
<1>1. Init => SecondaryInv
  BY Types, InitTypeInv DEF Init, SecondaryInv, OwnHash, LiveTorrentReachable,
     SecondaryPointsBack, NoTorrent, Has
<1>2. ViewInv /\ SecondaryInv /\ [Next]_vars => SecondaryInv'
  BY NextKeepsSecondary
<1> QED BY <1>1, <1>2, ViewInvariant, PTL DEF Spec

(***************************************************************************)
(* A torrent whose handle lives is found under its secondary hash.         *)
(***************************************************************************)
THEOREM LiveReachable == Spec => []LiveTorrentReachable
<1>1. SecondaryInv => LiveTorrentReachable
  BY DEF SecondaryInv
<1> QED BY <1>1, SecondaryInvariant, PTL

(***************************************************************************)
(* A secondary hash that is announced leads to a torrent of the map whose  *)
(* secondary hash it is.                                                   *)
(***************************************************************************)
THEOREM SecondaryLeadsBack == Spec => []SecondaryPointsBack
<1>1. SecondaryInv => SecondaryPointsBack
  BY DEF SecondaryInv
<1> QED BY <1>1, SecondaryInvariant, PTL

-----------------------------------------------------------------------------
(* The callbacks: what is in the two queues while no alert was lost.       *)

(* How many of the requests the plugin has taken already: those made first.*)
Taken == Len(callbacks) - Len(requests)

(* The queue of the plugin holds the last requests made, in their order.   *)
RequestsInOrder ==
    /\ Len(requests) <= Len(callbacks)
    /\ \A j \in 1 .. Len(requests) : requests[j].request = Taken + j

(* The results in the alert queue rise, are about requests that were taken *)
(* and not answered, and are there for each of these.                      *)
ResultsInOrder ==
    /\ \A i \in 1 .. Len(alerts) : IsResult(alerts[i]) =>
           /\ alerts[i].request \in 1 .. Taken
           /\ callbacks[alerts[i].request] = "pending"
           /\ \A j \in 1 .. Len(alerts) :
                  IsResult(alerts[j]) /\ i < j => alerts[i].request < alerts[j].request
    /\ \A r \in 1 .. Len(callbacks) :
           /\ callbacks[r] = "pending" /\ r <= Taken
                  => \E i \in 1 .. Len(alerts) : IsResult(alerts[i]) /\ alerts[i].request = r
           /\ r > Taken => callbacks[r] = "pending"

OwedInv == ~lost => RequestsInOrder /\ ResultsInOrder

LEMMA InitOwed == Init => OwedInv
<1> SUFFICES ASSUME Init PROVE OwedInv
  OBVIOUS
<1>1. Len(requests) = 0 /\ Len(alerts) = 0 /\ Len(callbacks) = 0
  BY EmptySeq DEF Init
<1> QED BY <1>1 DEF OwedInv, RequestsInOrder, ResultsInOrder, Taken

LEMMA QueueTypes ==
    ASSUME TypeInv
    PROVE  /\ requests \in Seq(Request) /\ Len(requests) \in Nat
           /\ alerts \in Seq(Alert) /\ Len(alerts) \in Nat
           /\ callbacks \in Seq({"pending", "ok", "error", "dropped"})
           /\ Len(callbacks) \in Nat
           /\ batch \in 0 .. Len(alerts)
           /\ lost \in BOOLEAN
BY DEF TypeInv, TypeOK

(* A request goes to the end of the plugin's queue.                        *)
LEMMA SubmitKeepsOwed ==
    ASSUME TypeInv, OwedInv, NEW kind, NEW x, Submit(kind, x)
    PROVE  OwedInv'
<1> DEFINE req == [kind |-> kind, infoHash |-> x, request |-> Len(callbacks) + 1]
<1>1. /\ requests \in Seq(Request) /\ Len(requests) \in Nat
      /\ Len(alerts) \in Nat
      /\ callbacks \in Seq({"pending", "ok", "error", "dropped"})
      /\ Len(callbacks) \in Nat
  BY QueueTypes
<1>2. /\ requests' = Append(requests, req) /\ alerts' = alerts /\ lost' = lost
      /\ callbacks' = Append(callbacks, "pending")
  BY DEF Submit
<1>3. /\ Len(requests') = Len(requests) + 1
      /\ \A j \in 1 .. Len(requests) : requests'[j] = requests[j]
      /\ requests'[Len(requests) + 1].request = Len(callbacks) + 1
  BY <1>1, <1>2, AppendProperties
<1>4. /\ Len(callbacks') = Len(callbacks) + 1
      /\ \A r \in 1 .. Len(callbacks) : callbacks'[r] = callbacks[r]
      /\ callbacks'[Len(callbacks) + 1] = "pending"
  BY <1>1, <1>2, AppendProperties
<1>5. SUFFICES ASSUME ~lost PROVE RequestsInOrder' /\ ResultsInOrder'
  BY <1>2 DEF OwedInv
<1>6. RequestsInOrder /\ ResultsInOrder
  BY <1>5 DEF OwedInv
<1>7. Taken' = Taken /\ Taken \in Nat
  BY <1>1, <1>3, <1>4, <1>6 DEF Taken, RequestsInOrder
<1>8. RequestsInOrder'
  <2>1. ASSUME NEW j \in 1 .. Len(requests')
        PROVE  requests'[j].request = Taken' + j
    <3>1. CASE j \in 1 .. Len(requests)
      BY <3>1, <1>3, <1>6, <1>7 DEF RequestsInOrder
    <3>2. CASE j = Len(requests) + 1
      BY <3>2, <1>1, <1>3, <1>7 DEF Taken
    <3> QED BY <3>1, <3>2, <1>1, <1>3
  <2>2. Len(requests') <= Len(callbacks')
    BY <1>1, <1>3, <1>4, <1>6 DEF RequestsInOrder
  <2> QED BY <2>1, <2>2 DEF RequestsInOrder
<1>9. ResultsInOrder'
  <2>1. Taken <= Len(callbacks)
    BY <1>1 DEF Taken
  <2>2. \A r \in 1 .. Taken : r \in 1 .. Len(callbacks) /\ callbacks'[r] = callbacks[r]
    BY <2>1, <1>1, <1>4, <1>7
  <2>3. ASSUME NEW r \in 1 .. Len(callbacks')
        PROVE  /\ callbacks'[r] = "pending" /\ r <= Taken'
                      => \E i \in 1 .. Len(alerts') :
                             IsResult(alerts'[i]) /\ alerts'[i].request = r
               /\ r > Taken' => callbacks'[r] = "pending"
    <3>1. CASE r \in 1 .. Len(callbacks)
      BY <3>1, <1>2, <1>4, <1>6, <1>7 DEF ResultsInOrder
    <3>2. CASE r = Len(callbacks) + 1
      BY <3>2, <2>1, <1>1, <1>4, <1>7
    <3> QED BY <3>1, <3>2, <1>1, <1>4
  <2>4. \A i \in 1 .. Len(alerts') : IsResult(alerts'[i]) =>
            /\ alerts'[i].request \in 1 .. Taken'
            /\ callbacks'[alerts'[i].request] = "pending"
            /\ \A j \in 1 .. Len(alerts') :
                   IsResult(alerts'[j]) /\ i < j => alerts'[i].request < alerts'[j].request
    BY <2>2, <1>2, <1>6, <1>7 DEF ResultsInOrder
  <2> QED BY <2>3, <2>4 DEF ResultsInOrder, IsResult
<1> QED BY <1>8, <1>9

(* The plugin posts the result of the first request of its queue.          *)
LEMMA PostKeepsOwed ==
    ASSUME TypeInv, OwedInv, NEW kind, TakeRequest(kind),
           NEW posted \in Seq(Alert), Post(posted),
           NEW n \in Nat, Len(posted) = n + 1,
           \A i \in 1 .. n : ~IsResult(posted[i]),
           IsResult(posted[n + 1]),
           posted[n + 1].request = Head(requests).request
    PROVE  OwedInv'
<1>1. /\ requests \in Seq(Request) /\ Len(requests) \in Nat
      /\ Len(alerts) \in Nat /\ Len(callbacks) \in Nat
  BY QueueTypes
<1>2. /\ requests # <<>> /\ requests' = Tail(requests) /\ callbacks' = callbacks
  BY DEF TakeRequest
<1>3. /\ Len(requests) >= 1
      /\ Head(requests) = requests[1]
      /\ Len(requests') = Len(requests) - 1
      /\ \A j \in 1 .. Len(requests) - 1 : requests'[j] = requests[j + 1]
  BY <1>1, <1>2, HeadTailProperties, EmptySeq
<1>4. SUFFICES ASSUME ~lost' PROVE RequestsInOrder' /\ ResultsInOrder'
  BY DEF OwedInv
<1>5. /\ ~lost /\ Len(alerts') = Len(alerts) + (n + 1)
      /\ \A i \in 1 .. Len(alerts) : alerts'[i] = alerts[i]
      /\ \A i \in Len(alerts) + 1 .. Len(alerts') : alerts'[i] = posted[i - Len(alerts)]
  BY <1>4, PostKeepsType DEF TypeInv
<1>6. RequestsInOrder /\ ResultsInOrder
  BY <1>5 DEF OwedInv
<1>7. Taken' = Taken + 1 /\ Taken \in Nat
  BY <1>1, <1>2, <1>3, <1>6 DEF Taken, RequestsInOrder
<1>8. RequestsInOrder'
  BY <1>1, <1>2, <1>3, <1>6, <1>7 DEF RequestsInOrder, Taken
<1>9. requests[1].request = Taken + 1
  BY <1>1, <1>3, <1>6 DEF RequestsInOrder
<1>10. Len(alerts') \in Nat /\ Taken + 1 \in 1 .. Len(callbacks)
  BY <1>1, <1>3, <1>5, <1>6 DEF RequestsInOrder, Taken
<1>11. ASSUME NEW i \in 1 .. Len(alerts')
       PROVE  \/ i \in 1 .. Len(alerts) /\ alerts'[i] = alerts[i]
              \/ i \in Len(alerts) + 1 .. Len(alerts) + n /\ ~IsResult(alerts'[i])
              \/ /\ i = Len(alerts') /\ IsResult(alerts'[i])
                 /\ alerts'[i].request = Taken + 1
  <2>1. CASE i \in 1 .. Len(alerts)
    BY <2>1, <1>5
  <2>2. CASE i \in Len(alerts) + 1 .. Len(alerts) + n
    <3>1. alerts'[i] = posted[i - Len(alerts)] /\ i - Len(alerts) \in 1 .. n
      BY <2>2, <1>1, <1>5
    <3> QED BY <3>1, <2>2 DEF IsResult
  <2>3. CASE i = Len(alerts) + (n + 1)
    <3>1. alerts'[i] = posted[n + 1] /\ i = Len(alerts')
      <4>1. i - Len(alerts) = n + 1 /\ i \in Len(alerts) + 1 .. Len(alerts')
        BY <2>3, <1>1, <1>5
      <4> QED BY <4>1, <2>3, <1>5
    <3> QED BY <3>1, <1>3, <1>9 DEF IsResult
  <2>4. \/ i \in 1 .. Len(alerts)
        \/ i \in Len(alerts) + 1 .. Len(alerts) + n
        \/ i = Len(alerts) + (n + 1)
    <3>1. Len(alerts) \in Nat /\ Len(alerts') = Len(alerts) + (n + 1)
      BY <1>1, <1>5
    <3> QED BY ONLY <3>1, n \in Nat, i \in 1 .. Len(alerts')
  <2> QED BY <2>1, <2>2, <2>3, <2>4
<1>12. Len(alerts') \in 1 .. Len(alerts') /\ ~(Len(alerts') \in 1 .. Len(alerts))
       /\ ~(Len(alerts') \in Len(alerts) + 1 .. Len(alerts) + n)
  BY <1>1, <1>5
<1>13. ASSUME NEW i \in 1 .. Len(alerts'), IsResult(alerts'[i])
       PROVE  /\ alerts'[i].request \in 1 .. Taken'
              /\ callbacks'[alerts'[i].request] = "pending"
              /\ \A j \in 1 .. Len(alerts') :
                     IsResult(alerts'[j]) /\ i < j
                         => alerts'[i].request < alerts'[j].request
  <2>1. CASE i \in 1 .. Len(alerts) /\ alerts'[i] = alerts[i]
    <3>1. /\ alerts[i].request \in 1 .. Taken
          /\ callbacks[alerts[i].request] = "pending"
          /\ \A j \in 1 .. Len(alerts) :
                 IsResult(alerts[j]) /\ i < j => alerts[i].request < alerts[j].request
      BY <2>1, <1>6, <1>13 DEF ResultsInOrder
    <3>2. ASSUME NEW j \in 1 .. Len(alerts'), IsResult(alerts'[j]), i < j
          PROVE  alerts'[i].request < alerts'[j].request
      <4>1. CASE j \in 1 .. Len(alerts) /\ alerts'[j] = alerts[j]
        BY <4>1, <3>1, <3>2, <2>1
      <4>2. CASE alerts'[j].request = Taken + 1
        BY <4>2, <3>1, <2>1, <1>7
      <4> QED BY <4>1, <4>2, <3>2, <1>11
    <3>3. alerts'[i].request \in 1 .. Taken'
      BY <3>1, <2>1, <1>7
    <3>4. callbacks'[alerts'[i].request] = "pending"
      BY <3>1, <2>1, <1>2
    <3> QED BY <3>2, <3>3, <3>4
  <2>2. CASE i = Len(alerts') /\ alerts'[i].request = Taken + 1
    <3>1. callbacks[Taken + 1] = "pending" /\ Taken + 1 \in 1 .. Taken'
      BY <1>6, <1>7, <1>10 DEF ResultsInOrder
    <3>2. \A j \in 1 .. Len(alerts') : ~(i < j)
      BY <2>2, <1>10
    <3> QED BY <3>1, <3>2, <2>2, <1>2
  <2> QED BY <2>1, <2>2, <1>11, <1>13
<1>14. ASSUME NEW r \in 1 .. Len(callbacks'), callbacks'[r] = "pending", r <= Taken'
       PROVE  \E i \in 1 .. Len(alerts') :
                  IsResult(alerts'[i]) /\ alerts'[i].request = r
  <2>1. CASE r <= Taken
    <3>1. PICK i \in 1 .. Len(alerts) : IsResult(alerts[i]) /\ alerts[i].request = r
      BY <2>1, <1>2, <1>6, <1>14 DEF ResultsInOrder
    <3>2. i \in 1 .. Len(alerts') /\ alerts'[i] = alerts[i]
      BY <1>1, <1>5
    <3> QED BY <3>1, <3>2
  <2>2. CASE r = Taken + 1
    BY <2>2, <1>11, <1>12
  <2> QED BY <2>1, <2>2, <1>2, <1>7, <1>14
<1>15. \A r \in 1 .. Len(callbacks') : r > Taken' => callbacks'[r] = "pending"
  BY <1>2, <1>6, <1>7 DEF ResultsInOrder
<1>16. ResultsInOrder'
  BY <1>13, <1>14, <1>15 DEF ResultsInOrder, IsResult
<1> QED BY <1>8, <1>16

(* Alerts that are no results do not matter.                               *)
LEMMA ChatterKeepsOwed ==
    ASSUME TypeInv, OwedInv, NEW posted \in Seq(Alert), Post(posted),
           \A i \in 1 .. Len(posted) : ~IsResult(posted[i]),
           UNCHANGED <<requests, callbacks>>
    PROVE  OwedInv'
<1>1. Len(requests) \in Nat /\ Len(alerts) \in Nat /\ Len(callbacks) \in Nat
  BY QueueTypes
<1>2. SUFFICES ASSUME ~lost' PROVE RequestsInOrder' /\ ResultsInOrder'
  BY DEF OwedInv
<1>3. /\ ~lost /\ Len(alerts') = Len(alerts) + Len(posted) /\ Len(posted) \in Nat
      /\ \A i \in 1 .. Len(alerts) : alerts'[i] = alerts[i]
      /\ \A i \in Len(alerts) + 1 .. Len(alerts') :
             /\ i - Len(alerts) \in 1 .. Len(posted)
             /\ alerts'[i] = posted[i - Len(alerts)]
  BY <1>2, PostKeepsType DEF TypeInv
<1>4. RequestsInOrder /\ ResultsInOrder
  BY <1>3 DEF OwedInv
<1>5. Taken' = Taken /\ RequestsInOrder'
  BY <1>4 DEF RequestsInOrder, Taken
<1>6. ASSUME NEW i \in 1 .. Len(alerts')
      PROVE  \/ i \in 1 .. Len(alerts) /\ alerts'[i] = alerts[i]
             \/ ~IsResult(alerts'[i])
  <2>1. CASE i \in 1 .. Len(alerts)
    BY <2>1, <1>3
  <2>2. CASE i \in Len(alerts) + 1 .. Len(alerts')
    BY <2>2, <1>3 DEF IsResult
  <2> QED BY <2>1, <2>2, <1>1, <1>3
<1>7. \A i \in 1 .. Len(alerts) : i \in 1 .. Len(alerts')
  BY <1>1, <1>3
<1>8. \A i \in 1 .. Len(alerts') : IsResult(alerts'[i]) =>
          /\ alerts'[i].request \in 1 .. Taken'
          /\ callbacks'[alerts'[i].request] = "pending"
          /\ \A j \in 1 .. Len(alerts') :
                 IsResult(alerts'[j]) /\ i < j => alerts'[i].request < alerts'[j].request
  BY <1>4, <1>5, <1>6 DEF ResultsInOrder
<1>9. \A r \in 1 .. Len(callbacks') :
          /\ callbacks'[r] = "pending" /\ r <= Taken'
                 => \E i \in 1 .. Len(alerts') :
                        IsResult(alerts'[i]) /\ alerts'[i].request = r
          /\ r > Taken' => callbacks'[r] = "pending"
  BY <1>3, <1>4, <1>5, <1>7 DEF ResultsInOrder
<1>10. ResultsInOrder'
  BY <1>8, <1>9 DEF ResultsInOrder, IsResult
<1> QED BY <1>5, <1>10

(* The handler of an alert that is no result ends.                         *)
LEMMA EndKeepsOwed ==
    ASSUME TypeInv, OwedInv, batch > 0, Advance \/ Abort \/ ReturnFromUser,
           ~IsResult(alerts[1]), UNCHANGED <<requests, callbacks>>
    PROVE  OwedInv'
<1>1. Len(requests) \in Nat /\ Len(alerts) \in Nat /\ Len(callbacks) \in Nat
  BY QueueTypes
<1>2. SUFFICES ASSUME ~lost' PROVE RequestsInOrder' /\ ResultsInOrder'
  BY DEF OwedInv
<1>3. PICK k \in 1 .. batch : Consumed(k)
  BY ReturnConsumes DEF TypeInv
<1>4. /\ ~lost /\ k = 1
  BY <1>2, <1>3 DEF Consumed
<1>5. /\ Len(alerts') = Len(alerts) - 1
      /\ \A i \in 1 .. Len(alerts) - 1 : alerts'[i] = alerts[i + 1]
  BY <1>3, <1>4 DEF Consumed
<1>6. RequestsInOrder /\ ResultsInOrder
  BY <1>4 DEF OwedInv
<1>7. Taken' = Taken /\ RequestsInOrder'
  BY <1>6 DEF RequestsInOrder, Taken
<1>8. \A i \in 1 .. Len(alerts') : i + 1 \in 1 .. Len(alerts) /\ alerts'[i] = alerts[i + 1]
  BY <1>1, <1>5
<1>9. ASSUME NEW i \in 1 .. Len(alerts'), IsResult(alerts'[i])
      PROVE  /\ alerts'[i].request \in 1 .. Taken'
             /\ callbacks'[alerts'[i].request] = "pending"
             /\ \A j \in 1 .. Len(alerts') :
                    IsResult(alerts'[j]) /\ i < j
                        => alerts'[i].request < alerts'[j].request
  <2>1. i + 1 \in 1 .. Len(alerts) /\ alerts'[i] = alerts[i + 1]
    BY <1>8
  <2>2. ASSUME NEW j \in 1 .. Len(alerts'), IsResult(alerts'[j]), i < j
        PROVE  alerts'[i].request < alerts'[j].request
    <3>1. j + 1 \in 1 .. Len(alerts) /\ alerts'[j] = alerts[j + 1] /\ i + 1 < j + 1
      BY <2>2, <1>8
    <3> QED BY <3>1, <2>1, <2>2, <1>6, <1>9 DEF ResultsInOrder
  <2> QED BY <2>1, <2>2, <1>6, <1>7, <1>9 DEF ResultsInOrder
<1>10. ASSUME NEW r \in 1 .. Len(callbacks'), callbacks'[r] = "pending", r <= Taken'
       PROVE  \E i \in 1 .. Len(alerts') :
                  IsResult(alerts'[i]) /\ alerts'[i].request = r
  <2>1. PICK i \in 1 .. Len(alerts) : IsResult(alerts[i]) /\ alerts[i].request = r
    BY <1>6, <1>7, <1>10 DEF ResultsInOrder
  <2>2. i - 1 \in 1 .. Len(alerts') /\ i - 1 + 1 = i
    BY <2>1, <1>1, <1>5
  <2> QED BY <2>1, <2>2, <1>8
<1>11. \A r \in 1 .. Len(callbacks') : r > Taken' => callbacks'[r] = "pending"
  BY <1>6, <1>7 DEF ResultsInOrder
<1>12. ResultsInOrder'
  BY <1>9, <1>10, <1>11 DEF ResultsInOrder, IsResult
<1> QED BY <1>7, <1>12

(* The handler of a result ends: its callback is done with.                *)
LEMMA AnswerKeepsOwed ==
    ASSUME TypeInv, OwedInv, batch > 0, Advance \/ Abort \/ ReturnFromUser,
           IsResult(alerts[1]), requests' = requests,
           NEW outcome \in {"ok", "error", "dropped"}, Answer(alerts[1], outcome)
    PROVE  OwedInv'
<1> DEFINE q == alerts[1].request
<1>1. /\ Len(requests) \in Nat /\ Len(alerts) \in Nat /\ Len(callbacks) \in Nat
      /\ 1 \in 1 .. Len(alerts)
      /\ callbacks \in Seq({"pending", "ok", "error", "dropped"})
  BY QueueTypes
<1>2. SUFFICES ASSUME ~lost' PROVE RequestsInOrder' /\ ResultsInOrder'
  BY DEF OwedInv
<1>3. PICK k \in 1 .. batch : Consumed(k)
  BY ReturnConsumes DEF TypeInv
<1>4. /\ ~lost /\ k = 1
  BY <1>2, <1>3 DEF Consumed
<1>5. /\ Len(alerts') = Len(alerts) - 1
      /\ \A i \in 1 .. Len(alerts) - 1 : alerts'[i] = alerts[i + 1]
  BY <1>3, <1>4 DEF Consumed
<1>6. RequestsInOrder /\ ResultsInOrder
  BY <1>4 DEF OwedInv
<1>7. /\ Taken \in Nat /\ Taken <= Len(callbacks)
      /\ q \in 1 .. Taken /\ q \in 1 .. Len(callbacks)
  BY <1>1, <1>6 DEF RequestsInOrder, ResultsInOrder, Taken
<1>8. /\ Len(callbacks') = Len(callbacks)
      /\ \A r \in 1 .. Len(callbacks) :
             callbacks'[r] = IF r = q THEN outcome ELSE callbacks[r]
  BY <1>1, <1>7, ExceptSeq DEF Answer
<1>9. Taken' = Taken /\ RequestsInOrder'
  BY <1>6, <1>8 DEF RequestsInOrder, Taken
<1>10. \A i \in 1 .. Len(alerts') : i + 1 \in 1 .. Len(alerts) /\ alerts'[i] = alerts[i + 1]
  BY <1>1, <1>5
<1>11. ASSUME NEW i \in 1 .. Len(alerts'), IsResult(alerts'[i])
       PROVE  /\ alerts'[i].request \in 1 .. Taken'
              /\ callbacks'[alerts'[i].request] = "pending"
              /\ \A j \in 1 .. Len(alerts') :
                     IsResult(alerts'[j]) /\ i < j
                         => alerts'[i].request < alerts'[j].request
  <2>1. i + 1 \in 1 .. Len(alerts) /\ 1 < i + 1 /\ alerts'[i] = alerts[i + 1]
    BY <1>1, <1>10
  <2>2. /\ alerts[i + 1].request \in 1 .. Taken
        /\ callbacks[alerts[i + 1].request] = "pending"
        /\ q < alerts[i + 1].request
    BY <2>1, <1>1, <1>6, <1>11 DEF ResultsInOrder
  <2>3. callbacks'[alerts'[i].request] = "pending"
    BY <2>1, <2>2, <1>7, <1>8
  <2>4. ASSUME NEW j \in 1 .. Len(alerts'), IsResult(alerts'[j]), i < j
        PROVE  alerts'[i].request < alerts'[j].request
    <3>1. j + 1 \in 1 .. Len(alerts) /\ alerts'[j] = alerts[j + 1] /\ i + 1 < j + 1
      BY <2>4, <1>10
    <3> QED BY <3>1, <2>1, <2>4, <1>6, <1>11 DEF ResultsInOrder
  <2> QED BY <2>1, <2>2, <2>3, <2>4, <1>9
<1>12. ASSUME NEW r \in 1 .. Len(callbacks'), callbacks'[r] = "pending", r <= Taken'
       PROVE  \E i \in 1 .. Len(alerts') :
                  IsResult(alerts'[i]) /\ alerts'[i].request = r
  <2>1. r # q /\ r \in 1 .. Len(callbacks) /\ callbacks[r] = "pending" /\ r <= Taken
    BY <1>8, <1>9, <1>12
  <2>2. PICK i \in 1 .. Len(alerts) : IsResult(alerts[i]) /\ alerts[i].request = r
    BY <2>1, <1>6 DEF ResultsInOrder
  <2>3. i # 1
    BY <2>1, <2>2
  <2>4. i - 1 \in 1 .. Len(alerts') /\ i - 1 + 1 = i
    BY <2>3, <1>1, <1>5
  <2> QED BY <2>2, <2>4, <1>10
<1>13. \A r \in 1 .. Len(callbacks') : r > Taken' => callbacks'[r] = "pending"
  BY <1>6, <1>7, <1>8, <1>9 DEF ResultsInOrder
<1>14. ResultsInOrder'
  BY <1>11, <1>12, <1>13 DEF ResultsInOrder, IsResult
<1> QED BY <1>9, <1>14

LEMMA QuietKeepsOwed ==
    ASSUME OwedInv, UNCHANGED <<requests, alerts, callbacks, lost>>
    PROVE  OwedInv'
BY DEF OwedInv, RequestsInOrder, ResultsInOrder, Taken, IsResult

LEMMA NetworkKeepsOwed == ViewInv /\ OwedInv /\ Network => OwedInv'
<1> SUFFICES ASSUME ViewInv, OwedInv, Network PROVE OwedInv'
  OBVIOUS
<1> DEFINE req == Head(requests)
<1>1. TypeInv /\ NewHandle \in Nat /\ NoHandle \in Nat
  BY DEF ViewInv, TypeInv, TypeOK, NewHandle, NoHandle
<1>2. ASSUME NEW kind, TakeRequest(kind), NEW type \in {"add_torrent", "torrent_removed"},
             NEW result \in Results, NEW h \in Nat, NEW ok \in BOOLEAN,
             Post(<<Notification(type, h, req.infoHash, ok), Result(result, h, req, ok)>>)
      PROVE  OwedInv'
  <2> DEFINE a == Notification(type, h, req.infoHash, ok)
             b == Result(result, h, req, ok)
  <2>1. req \in Request /\ req.infoHash \in InfoHash
    BY <1>1, <1>2, FirstRequest
  <2>2. a \in Alert /\ b \in Alert
    BY <1>2, <2>1, NotificationType, ResultType
  <2>3. ~IsResult(a) /\ IsResult(b) /\ b.request = req.request
    BY DEF IsResult, Notification, Result, Results
  <2> HIDE DEF a, b
  <2>4. /\ <<a, b>> \in Seq(Alert) /\ Len(<<a, b>>) = 1 + 1
        /\ <<a, b>>[1] = a /\ <<a, b>>[1 + 1] = b /\ Post(<<a, b>>)
    BY <1>2, <2>2, TwoAlerts DEF a, b
  <2>5. \A i \in 1 .. 1 : i = 1
    OBVIOUS
  <2> QED BY <1>1, <1>2, <2>3, <2>4, <2>5, PostKeepsOwed
<1>3. CASE ProcessAdd
  BY <1>1, <1>2, <1>3 DEF ProcessAdd, Results
<1>4. CASE ProcessAddFails
  BY <1>1, <1>2, <1>4 DEF ProcessAddFails, Results
<1>5. CASE ProcessRemove
  <2>1. TakeRequest("remove")
    BY <1>5 DEF ProcessRemove
  <2>2. req.infoHash \in InfoHash
    BY <2>1, <1>1, FirstRequest
  <2>3. libtorrent[req.infoHash] \in Nat
    BY <2>2, <1>1 DEF TypeInv, TypeOK, Handle, NoHandle
  <2> QED BY <2>1, <2>3, <1>2, <1>5 DEF ProcessRemove, Results
<1>6. CASE ProcessRemoveFails
  <2> DEFINE b == Result("remove_result", NoHandle, req, FALSE)
  <2>1. TakeRequest("remove") /\ Post(<<b>>)
    BY <1>6 DEF ProcessRemoveFails
  <2>2. b \in Alert
    BY <1>1, <2>1, FirstRequest, ResultType DEF Results
  <2>3. IsResult(b) /\ b.request = req.request
    BY DEF IsResult, Result, Results
  <2> HIDE DEF b
  <2>4. <<b>> \in Seq(Alert) /\ Len(<<b>>) = 0 + 1 /\ <<b>>[0 + 1] = b
    BY <2>2, OneAlert
  <2>5. \A i \in 1 .. 0 : FALSE
    OBVIOUS
  <2>6. 0 \in Nat
    OBVIOUS
  <2> QED BY <1>1, <2>1, <2>3, <2>4, <2>5, <2>6, PostKeepsOwed
<1> QED BY <1>3, <1>4, <1>5, <1>6 DEF Network

LEMMA EnvironmentKeepsOwed == ViewInv /\ OwedInv /\ Environment => OwedInv'
<1> SUFFICES ASSUME ViewInv, OwedInv, Environment PROVE OwedInv'
  OBVIOUS
<1>1. TypeInv
  BY DEF ViewInv
<1>2. ASSUME NEW a \in Alert, ~IsResult(a), Post(<<a>>), UNCHANGED <<requests, callbacks>>
      PROVE  OwedInv'
  <2>1. <<a>> \in Seq(Alert) /\ \A i \in 1 .. Len(<<a>>) : ~IsResult(<<a>>[i])
    BY <1>2, OneAlert
  <2> QED BY <2>1, <1>1, <1>2, ChatterKeepsOwed
<1>3. ASSUME NEW type \in {"add_torrent", "torrent_removed"}, NEW h \in Nat, NEW x \in InfoHash,
             Post(<<Notification(type, h, x, TRUE)>>), UNCHANGED <<requests, callbacks>>
      PROVE  OwedInv'
  <2>1. /\ Notification(type, h, x, TRUE) \in Alert
        /\ ~IsResult(Notification(type, h, x, TRUE))
    BY <1>3, NotificationType DEF Notification, IsResult, Results
  <2> QED BY <2>1, <1>2, <1>3
<1>4. NewHandle \in Nat /\ \A x \in InfoHash : libtorrent[x] \in Nat
  BY <1>1 DEF TypeInv, TypeOK, NewHandle, Handle, NoHandle
<1>5. CASE \E x \in InfoHash : ExternalAdd(x)
  BY <1>3, <1>4, <1>5 DEF ExternalAdd
<1>6. CASE \E x \in InfoHash : ExternalRemove(x)
  BY <1>3, <1>4, <1>6 DEF ExternalRemove
<1>7. CASE \E h \in Handle : Expire(h)
  BY <1>7, QuietKeepsOwed DEF Expire
<1>8. CASE \E h \in Handle : TorrentEvent(h)
  <2>1. PICK h \in Handle : TorrentEvent(h)
    BY <1>8
  <2>2. PICK type \in {"event", "status"} :
            Post(<<[Notification(type, h, handles[h], TRUE)
                       EXCEPT !.current = (libtorrent[handles[h]] = h)]>>)
    BY <2>1 DEF TorrentEvent
  <2>3. handles[h] \in InfoHash /\ h \in Nat
    BY <1>1 DEF TypeInv, TypeOK, Handle
  <2> DEFINE a == [Notification(type, h, handles[h], TRUE)
                       EXCEPT !.current = (libtorrent[handles[h]] = h)]
  <2>4. a \in Alert /\ ~IsResult(a)
    BY <2>2, <2>3 DEF Notification, Alert, IsResult, Results, NoRequest
  <2>5. UNCHANGED <<requests, callbacks>>
    BY <2>1 DEF TorrentEvent
  <2> HIDE DEF a
  <2>6. Post(<<a>>)
    BY <2>2 DEF a
  <2> QED BY <2>4, <2>5, <2>6, <1>2
<1> QED BY <1>5, <1>6, <1>7, <1>8 DEF Environment

LEMMA HandleAlertKeepsOwed == ViewInv /\ OwedInv /\ HandleAlert => OwedInv'
<1> SUFFICES ASSUME ViewInv, OwedInv, HandleAlert PROVE OwedInv'
  OBVIOUS
<1>1. TypeInv /\ (pc \in {"construct", "resolve"} => batch > 0)
  BY DEF ViewInv, TypeInv, TypeOK
<1>2. batch > 0 => Head(alerts) = alerts[1]
  BY <1>1, FirstAlert
<1>3. CASE AlertListenerThrows
  BY <1>3 DEF AlertListenerThrows, OwedInv
<1>4. ASSUME batch > 0, ~IsResult(Head(alerts)), requests' = requests,
             \/ Continue("construct")
             \/ (Advance \/ Abort \/ ReturnFromUser) /\ callbacks' = callbacks
      PROVE  OwedInv'
  BY <1>1, <1>2, <1>4, EndKeepsOwed, QuietKeepsOwed DEF Continue
<1>5. ASSUME batch > 0, IsResult(Head(alerts)), requests' = requests,
             Advance \/ Abort \/ ReturnFromUser,
             NEW outcome \in {"ok", "error", "dropped"}, Answer(Head(alerts), outcome)
      PROVE  OwedInv'
  BY <1>1, <1>2, <1>5, AnswerKeepsOwed
<1>6. CASE AddTorrentAlert
  BY <1>4, <1>6 DEF AddTorrentAlert, Processing, IsResult, Results
<1>7. CASE ConstructTorrent
  <2>1. pc = "construct" /\ ReturnFromUser /\ UNCHANGED <<requests, callbacks>>
    BY <1>7 DEF ConstructTorrent
  <2>2. ~IsResult(Head(alerts))
    BY <2>1 DEF ViewInv, Order, HandlerHasItsAlert, IsResult, Results
  <2> QED BY <2>1, <2>2, <1>1, <1>4
<1>8. CASE TorrentRemovedAlert
  BY <1>4, <1>8 DEF TorrentRemovedAlert, Processing, IsResult, Results
<1>9. CASE DispatchTorrentAlert
  BY <1>4, <1>9 DEF DispatchTorrentAlert, Processing, IsResult, Results
<1>10. CASE AddResult
  <2>1. batch > 0 /\ IsResult(Head(alerts)) /\ requests' = requests
    BY <1>10 DEF AddResult, Processing, IsResult, Results
  <2>2. CASE Continue("resolve")
    BY <2>1, <2>2, QuietKeepsOwed DEF Continue
  <2>3. CASE Answer(Head(alerts), "error") /\ ReturnFromUser
    BY <2>1, <2>3, <1>5
  <2> QED BY <2>2, <2>3, <1>10 DEF AddResult
<1>11. CASE ResolveAddedTorrent
  <2>1. pc = "resolve" /\ requests' = requests
    BY <1>11 DEF ResolveAddedTorrent
  <2>2. IsResult(Head(alerts)) /\ batch > 0
    BY <2>1, <1>1 DEF ViewInv, Order, HandlerHasItsAlert, IsResult, Results
  <2>3. \E outcome \in {"ok", "dropped"} :
            Answer(Head(alerts), outcome) /\ (Advance \/ Abort \/ ReturnFromUser)
    BY <1>11 DEF ResolveAddedTorrent, Throws
  <2> QED BY <2>1, <2>2, <2>3, <1>5
<1>12. CASE RemoveResult
  <2>1. batch > 0 /\ IsResult(Head(alerts)) /\ requests' = requests
    BY <1>12 DEF RemoveResult, Processing, IsResult, Results
  <2> QED BY <2>1, <1>5, <1>12 DEF RemoveResult
<1> QED BY <1>3, <1>6, <1>7, <1>8, <1>9, <1>10, <1>11, <1>12 DEF HandleAlert

LEMMA NextOwed == ViewInv /\ OwedInv /\ [Next]_vars => OwedInv'
<1> SUFFICES ASSUME ViewInv, OwedInv, [Next]_vars PROVE OwedInv'
  OBVIOUS
<1>1. CASE User
  BY <1>1, SubmitKeepsOwed DEF User, AddTorrent, RemoveTorrent, ViewInv
<1>2. CASE PopAlerts \/ UNCHANGED vars
  BY <1>2, QuietKeepsOwed DEF PopAlerts, vars
<1> QED BY <1>1, <1>2, NetworkKeepsOwed, EnvironmentKeepsOwed, HandleAlertKeepsOwed DEF Next

LEMMA OwedIsInOrder == TypeInv /\ OwedInv => CallbacksOwedInOrder
<1> SUFFICES ASSUME TypeInv, OwedInv, ~lost
             PROVE  /\ \A i, j \in ResultsQueued : i < j => alerts[i].request < alerts[j].request
                    /\ \A i, j \in 1 .. Len(requests) :
                           i < j => requests[i].request < requests[j].request
                    /\ \A i \in ResultsQueued, j \in 1 .. Len(requests) :
                           alerts[i].request < requests[j].request
                    /\ Owed = {r \in 1 .. Len(callbacks) : callbacks[r] = "pending"}
  BY DEF CallbacksOwedInOrder
<1>1. RequestsInOrder /\ ResultsInOrder
  BY DEF OwedInv
<1>2. /\ Len(requests) \in Nat /\ Len(callbacks) \in Nat
      /\ Taken \in Nat /\ Taken <= Len(callbacks)
  BY <1>1, QueueTypes DEF RequestsInOrder, Taken
<1>3. \A i, j \in ResultsQueued : i < j => alerts[i].request < alerts[j].request
  BY <1>1 DEF ResultsInOrder, ResultsQueued
<1>4. \A i, j \in 1 .. Len(requests) : i < j => requests[i].request < requests[j].request
  BY <1>1, <1>2 DEF RequestsInOrder
<1>5. \A i \in ResultsQueued, j \in 1 .. Len(requests) :
          alerts[i].request < requests[j].request
  BY <1>1, <1>2 DEF RequestsInOrder, ResultsInOrder, ResultsQueued
<1>6. ASSUME NEW r \in Owed
      PROVE  r \in 1 .. Len(callbacks) /\ callbacks[r] = "pending"
  <2>1. CASE \E i \in ResultsQueued : r = alerts[i].request
    BY <2>1, <1>1, <1>2 DEF ResultsInOrder, ResultsQueued
  <2>2. CASE \E j \in 1 .. Len(requests) : r = requests[j].request
    BY <2>2, <1>1, <1>2 DEF RequestsInOrder, ResultsInOrder, Taken
  <2> QED BY <2>1, <2>2 DEF Owed
<1>7. ASSUME NEW r \in 1 .. Len(callbacks), callbacks[r] = "pending"
      PROVE  r \in Owed
  <2>1. CASE r <= Taken
    BY <2>1, <1>1, <1>7 DEF ResultsInOrder, ResultsQueued, Owed
  <2>2. CASE r > Taken
    <3>1. r - Taken \in 1 .. Len(requests) /\ r = Taken + (r - Taken)
      BY <2>2, <1>2 DEF Taken
    <3>2. requests[r - Taken].request = r
      BY <3>1, <1>1 DEF RequestsInOrder
    <3> QED BY <3>1, <3>2 DEF Owed
  <2> QED BY <2>1, <2>2, <1>2
<1> QED BY <1>3, <1>4, <1>5, <1>6, <1>7

(***************************************************************************)
(* For every run without a lost alert, whatever the user asks for and      *)
(* whatever throws, the two queues hold exactly the answers still owed, in *)
(* the order of the requests: no callback is called twice, passed over or  *)
(* called before the one of an earlier request.                            *)
(***************************************************************************)
THEOREM CallbacksInOrder == Spec => []CallbacksOwedInOrder
<1>1. Init => OwedInv
  BY InitOwed
<1>2. ViewInv /\ OwedInv /\ [Next]_vars => OwedInv'
  BY NextOwed
<1>3. ViewInv /\ OwedInv => CallbacksOwedInOrder
  BY OwedIsInOrder DEF ViewInv
<1> QED BY <1>1, <1>2, <1>3, ViewInvariant, PTL DEF Spec

=============================================================================
