----------------------------- MODULE BuyerProofs -----------------------------
(***************************************************************************)
(* The buyer program, for any sellers, any choice among them and any       *)
(* number of changes and statuses: it asks for one thing at a time, and is *)
(* never left with nothing to wait for.                                    *)
(***************************************************************************)
EXTENDS BuyerApp, SequenceTheorems, TLAPS

(***************************************************************************)
(* At any moment one thing goes on, and it is known which.  Most alerts    *)
(* pass without moving it: statuses, unless the program looks for a        *)
(* seller, and the news that a download was started.                       *)
(***************************************************************************)
IsStatus(a) == a.type = "status"

Passes(a) == IsStatus(a) \/ (a.type = "startDownloading" /\ a.ok)

(* The alerts that move it, and what the plugin is when they wait.         *)
Moves(a, mode) ==
    \/ a.type = "toBuyMode" /\ mode # "started"
    \/ a.type = "startPlugin" /\ (a.ok <=> mode = "started")
    \/ a.type = "startDownloading" /\ ~a.ok /\ mode = "started"
    \/ a.type = "allSellersGone" /\ mode = "started"

OnlyStatuses == \A i \in 1 .. Len(alerts) : IsStatus(alerts[i])

(* One request is with the plugin.                                         *)
Asks ==
    /\ ~lookingForSeller /\ ~Downloading
    /\ Len(requests) = 1
    /\ requests[1].op = "startDownloading" <=> plugin = "started"
    /\ OnlyStatuses

(* The answer, or the news that the seller is gone, is on its way.         *)
IsTold ==
    /\ ~lookingForSeller /\ ~Downloading
    /\ Len(requests) = 0
    /\ \E k \in 1 .. Len(alerts) :
           /\ Moves(alerts[k], plugin)
           /\ \A i \in 1 .. Len(alerts) :
                  /\ i < k => Passes(alerts[i])
                  /\ i > k => IsStatus(alerts[i])

(* The program waits for a status with a suitable seller, in vain if it    *)
(* took the failure of startPlugin for a success.                          *)
Looks ==
    /\ lookingForSeller /\ ~Downloading
    /\ Len(requests) = 0
    /\ OnlyStatuses

(* The plugin downloads, from one seller.                                  *)
Buys ==
    /\ ~lookingForSeller /\ plugin = "started"
    /\ Len(requests) = 0
    /\ \E p \in Seller :
           \A q \in Seller : connection[q] = "downloading" <=> q = p
    /\ \A i \in 1 .. Len(alerts) : Passes(alerts[i])

(* A first request failed, and nothing is tried again; or the program      *)
(* thinks that it downloads.                                               *)
GaveUp ==
    /\ ~lookingForSeller /\ ~Downloading /\ (plugin # "started" \/ misled)
    /\ Len(requests) = 0
    /\ OnlyStatuses

OneThing == Asks \/ IsTold \/ Looks \/ Buys \/ GaveUp

(* No seller is ready for a buyer that has not started.                    *)
NoneReady ==
    plugin # "started" =>
        /\ \A p \in Seller : connection[p] # "preparing"
        /\ \A i \in 1 .. Len(alerts) : alerts[i].preparing = {}

IInv == TypeOK /\ OneThing /\ NoneReady

-----------------------------------------------------------------------------
(* What the queues hold after one step.                                    *)

LEMMA AlertPosted ==
    ASSUME alerts \in Seq(Alert), NEW a \in Alert, alerts' = Append(alerts, a)
    PROVE  /\ alerts' \in Seq(Alert)
           /\ Len(alerts) \in Nat
           /\ Len(alerts') = Len(alerts) + 1
           /\ \A i \in 1 .. Len(alerts) : alerts'[i] = alerts[i]
           /\ alerts'[Len(alerts) + 1] = a
BY AppendProperties

LEMMA AlertTaken ==
    ASSUME alerts \in Seq(Alert), alerts # <<>>, alerts' = Tail(alerts)
    PROVE  /\ alerts' \in Seq(Alert)
           /\ Len(alerts) \in Nat /\ Len(alerts) >= 1
           /\ Len(alerts') = Len(alerts) - 1
           /\ \A i \in 1 .. Len(alerts') : alerts'[i] = alerts[i + 1]
           /\ Head(alerts) = alerts[1] /\ Head(alerts) \in Alert
BY HeadTailProperties, EmptySeq

LEMMA RequestTaken ==
    ASSUME requests \in Seq(RequestType), requests # <<>>, requests' = Tail(requests)
    PROVE  /\ requests' \in Seq(RequestType)
           /\ Len(requests) \in Nat /\ Len(requests) >= 1
           /\ Len(requests') = Len(requests) - 1
           /\ Head(requests) = requests[1] /\ Head(requests) \in RequestType
BY HeadTailProperties, EmptySeq

LEMMA ResultType ==
    ASSUME NEW req \in RequestType, NEW ok \in BOOLEAN
    PROVE  /\ ResultOf(req, ok) \in Alert
           /\ ResultOf(req, ok).type = req.op
           /\ ResultOf(req, ok).ok = ok /\ ResultOf(req, ok).preparing = {}
           /\ req.op \in Operation
           /\ req.op = "startDownloading" => req.seller \in Seller
BY DEF ResultOf, RequestType, Alert, Operation

LEMMA StatusType == Status \in Alert /\ IsStatus(Status)
BY DEF Status, Alert, IsStatus

LEMMA GoneType ==
    /\ AllSellersGone \in Alert
    /\ AllSellersGone.type = "allSellersGone"
BY DEF AllSellersGone, Alert

-----------------------------------------------------------------------------
(* The types.                                                              *)

LEMMA InitType == Init => TypeOK
<1> SUFFICES ASSUME Init PROVE TypeOK
  OBVIOUS
<1>1. requests \in Seq(RequestType)
  BY DEF Init, Request, RequestType
<1>2. alerts \in Seq(Alert)
  BY DEF Init
<1>3. connection \in [Seller -> {"none", "other", "preparing", "downloading"}]
  BY DEF Init
<1>4. churn \in 0 .. MaxChurn
  BY BoundsAssumption DEF Init
<1>5. plugin = "observe" /\ lookingForSeller = FALSE /\ misled = FALSE
  BY DEF Init
<1> QED BY <1>1, <1>2, <1>3, <1>4, <1>5 DEF TypeOK

LEMMA NextType == TypeOK /\ [Next]_vars => TypeOK'
<1> SUFFICES ASSUME TypeOK, [Next]_vars PROVE TypeOK'
  OBVIOUS
<1>1. /\ alerts \in Seq(Alert) /\ requests \in Seq(RequestType)
      /\ connection \in [Seller -> {"none", "other", "preparing", "downloading"}]
  BY DEF TypeOK
<1>2. CASE ProcessRequest
  <2>1. PICK op \in Operation, ok \in BOOLEAN : Processed(op, ok)
    BY <1>2 DEF ProcessRequest, ToBuyMode, StartPlugin, ModeFails, StartDownloading,
                StartDownloadingFails, Operation
  <2>2. /\ requests' \in Seq(RequestType) /\ alerts' \in Seq(Alert)
        /\ UNCHANGED <<lookingForSeller, misled, churn>>
        /\ Head(requests) \in RequestType
    BY <1>1, <2>1, RequestTaken, ResultType, AlertPosted DEF Processed
  <2>3. plugin' \in {"observe", "buy", "started"}
    BY <1>2 DEF ProcessRequest, ToBuyMode, StartPlugin, ModeFails, StartDownloading,
                StartDownloadingFails, TypeOK
  <2>4. connection' \in [Seller -> {"none", "other", "preparing", "downloading"}]
    BY <1>1, <1>2 DEF ProcessRequest, ToBuyMode, StartPlugin, ModeFails,
                      StartDownloading, StartDownloadingFails
  <2> QED BY <2>2, <2>3, <2>4 DEF TypeOK
<1>3. CASE PostStatus
  <2>1. alerts' \in Seq(Alert)
    BY <1>1, <1>3, StatusType, AlertPosted DEF PostStatus
  <2> QED BY <1>3, <2>1 DEF PostStatus, networkVars, TypeOK
<1>4. ASSUME NEW p \in Seller, NEW s \in {"other", "preparing"}, SellerMoves(p, s)
      PROVE  TypeOK'
  BY <1>4, BoundsAssumption DEF SellerMoves, TypeOK
<1>5. ASSUME NEW p \in Seller, SellerLeaves(p)
      PROVE  TypeOK'
  <2>1. alerts' \in Seq(Alert)
    BY <1>1, <1>5, GoneType, AlertPosted DEF SellerLeaves
  <2> QED BY <1>5, <2>1, BoundsAssumption DEF SellerLeaves, TypeOK
<1>6. CASE HandleAlert
  <2>1. \E type \in Operation \union {"status", "allSellersGone"} : Handling(type)
    BY <1>6 DEF HandleAlert, OnBuyMode, OnPluginStarted, OnAllSellersGone,
                OnPeerStatuses, OnDownloadResult, Operation
  <2>2. /\ alerts' \in Seq(Alert) /\ Head(alerts) \in Alert
        /\ UNCHANGED networkVars
    BY <1>1, <2>1, AlertTaken DEF Handling
  <2>3. lookingForSeller' \in BOOLEAN /\ misled' \in BOOLEAN
    BY <1>6, <2>2 DEF HandleAlert, OnBuyMode, OnPluginStarted, OnAllSellersGone,
                      OnPeerStatuses, OnDownloadResult, TypeOK, Alert
  <2>4. /\ Request("startPlugin", NoSeller) \in RequestType
        /\ \A p \in Seller : Request("startDownloading", p) \in RequestType
    BY DEF Request, RequestType
  <2>5. \A p \in SuitableSellers(Head(alerts)) : p \in Seller
    BY <2>2 DEF SuitableSellers, Alert
  <2>6. requests' \in Seq(RequestType)
    <3>1. \/ requests' = requests
          \/ requests' = Append(requests, Request("startPlugin", NoSeller))
          \/ \E p \in Seller : requests' = Append(requests, Request("startDownloading", p))
      BY <1>6, <2>5 DEF HandleAlert, OnBuyMode, OnPluginStarted, OnAllSellersGone,
                        OnPeerStatuses, OnDownloadResult
    <3>2. ASSUME NEW req \in RequestType, requests' = Append(requests, req)
          PROVE  requests' \in Seq(RequestType)
      BY <1>1, <3>2, AppendProperties
    <3> QED BY <1>1, <2>4, <3>1, <3>2
  <2> QED BY <2>2, <2>3, <2>6 DEF TypeOK, networkVars
<1>7. CASE UNCHANGED vars
  BY <1>7 DEF vars, TypeOK
<1> QED BY <1>2, <1>3, <1>4, <1>5, <1>6, <1>7 DEF Next, Peers

(* The types of the plugin's state, the queues and the flag.               *)
THEOREM BuyerTypeCorrect == Spec => []TypeOK
  BY InitType, NextType, PTL DEF Spec

-----------------------------------------------------------------------------
(* One thing at a time.                                                    *)

LEMMA InitOneThing == Init => OneThing
<1> SUFFICES ASSUME Init PROVE OneThing
  OBVIOUS
<1>1. Len(requests) = 1 /\ requests[1] = Request("toBuyMode", NoSeller) /\ Len(alerts) = 0
  BY DEF Init
<1>2. ~Downloading /\ ~lookingForSeller /\ plugin = "observe"
  BY DEF Init, Downloading
<1>3. requests[1].op = "toBuyMode"
  BY <1>1 DEF Request
<1> QED BY <1>1, <1>2, <1>3 DEF OneThing, Asks, OnlyStatuses

(* A status changes nothing, nor does a peer that is not the seller.       *)
LEMMA StatusKeepsOneThing ==
    ASSUME TypeOK, OneThing, alerts' = Append(alerts, Status),
           UNCHANGED <<plugin, connection, requests, lookingForSeller, misled>>
    PROVE  OneThing'
<1>1. /\ Len(alerts) \in Nat /\ Len(alerts') = Len(alerts) + 1
      /\ \A i \in 1 .. Len(alerts) : alerts'[i] = alerts[i]
      /\ alerts'[Len(alerts) + 1] = Status
  BY AlertPosted, StatusType DEF TypeOK
<1>2. \A i \in 1 .. Len(alerts') :
          \/ i \in 1 .. Len(alerts) /\ alerts'[i] = alerts[i]
          \/ i = Len(alerts) + 1 /\ IsStatus(alerts'[i])
  BY <1>1, StatusType
<1>3. Downloading' <=> Downloading
  BY DEF Downloading
<1>4. OnlyStatuses => OnlyStatuses'
  BY <1>2 DEF OnlyStatuses, IsStatus
<1>5. CASE Asks
  BY <1>3, <1>4, <1>5 DEF Asks, OneThing
<1>6. CASE IsTold
  <2>1. PICK k \in 1 .. Len(alerts) :
            /\ Moves(alerts[k], plugin)
            /\ \A i \in 1 .. Len(alerts) :
                   /\ i < k => Passes(alerts[i])
                   /\ i > k => IsStatus(alerts[i])
    BY <1>6 DEF IsTold
  <2>2. k \in 1 .. Len(alerts') /\ alerts'[k] = alerts[k]
    BY <1>1
  <2>3. Moves(alerts'[k], plugin')
    BY <2>1, <2>2
  <2>4. ASSUME NEW i \in 1 .. Len(alerts')
        PROVE  /\ i < k => Passes(alerts'[i])
               /\ i > k => IsStatus(alerts'[i])
    BY <1>1, <1>2, <2>1 DEF Passes
  <2>5. IsTold'
    BY <1>3, <1>6, <2>2, <2>3, <2>4 DEF IsTold, Passes, IsStatus
  <2> QED BY <2>5 DEF OneThing
<1>7. CASE Looks
  BY <1>3, <1>4, <1>7 DEF Looks, OneThing
<1>8. CASE Buys
  BY <1>2, <1>8 DEF Buys, OneThing, Passes, IsStatus
<1>9. CASE GaveUp
  BY <1>3, <1>4, <1>9 DEF GaveUp, OneThing
<1> QED BY <1>5, <1>6, <1>7, <1>8, <1>9 DEF OneThing

(* The alert posted is the one that moves the program on.                  *)
LEMMA MovingAlertPosted ==
    ASSUME TypeOK, NEW a \in Alert, alerts' = Append(alerts, a),
           Moves(a, plugin'), \A i \in 1 .. Len(alerts) : Passes(alerts[i]),
           Len(requests') = 0, ~lookingForSeller', ~Downloading'
    PROVE  OneThing'
<1>1. /\ Len(alerts) \in Nat /\ Len(alerts') = Len(alerts) + 1
      /\ \A i \in 1 .. Len(alerts) : alerts'[i] = alerts[i]
      /\ alerts'[Len(alerts) + 1] = a
  BY AlertPosted DEF TypeOK
<1> DEFINE k == Len(alerts) + 1
<1>2. k \in 1 .. Len(alerts') /\ alerts'[k] = a
  BY <1>1
<1>3. \A i \in 1 .. Len(alerts') :
          /\ i < k => Passes(alerts'[i])
          /\ i > k => IsStatus(alerts'[i])
  BY <1>1
<1>4. IsTold'
  BY <1>2, <1>3 DEF IsTold, Passes, IsStatus, Moves
<1> QED BY <1>4 DEF OneThing

(* A request that the plugin processes was the only thing going on.        *)
LEMMA ProcessKeepsOneThing == IInv /\ ProcessRequest => OneThing'
<1> SUFFICES ASSUME IInv, ProcessRequest PROVE OneThing'
  OBVIOUS
<1>0. TypeOK
  BY DEF IInv
<1>1. PICK op \in Operation : \E ok \in BOOLEAN : Processed(op, ok)
  BY DEF ProcessRequest, ToBuyMode, StartPlugin, ModeFails, StartDownloading,
         StartDownloadingFails, Operation
<1>2. /\ Head(requests) = requests[1] /\ Head(requests) \in RequestType
      /\ Len(requests) \in Nat /\ Len(requests) >= 1
      /\ Len(requests') = Len(requests) - 1
  BY <1>0, <1>1, RequestTaken DEF Processed, TypeOK
<1>3. Asks
  BY <1>2 DEF IInv, OneThing, IsTold, Looks, Buys, GaveUp
<1>4. /\ ~lookingForSeller /\ ~Downloading /\ Len(requests') = 0
      /\ Head(requests).op = "startDownloading" <=> plugin = "started"
      /\ \A i \in 1 .. Len(alerts) : IsStatus(alerts[i])
  BY <1>2, <1>3 DEF Asks, OnlyStatuses
<1>5. \A i \in 1 .. Len(alerts) : Passes(alerts[i])
  BY <1>4 DEF Passes
<1>6. \A ok \in BOOLEAN :
          /\ ResultOf(Head(requests), ok) \in Alert
          /\ ResultOf(Head(requests), ok).type = Head(requests).op
          /\ ResultOf(Head(requests), ok).ok = ok
  BY <1>2, ResultType
<1>7. ASSUME NEW o \in Operation, NEW ok \in BOOLEAN, Processed(o, ok), ~Downloading',
             Moves([type |-> o, ok |-> ok], plugin')
      PROVE  OneThing'
  <2>1. PICK a \in Alert : a = ResultOf(Head(requests), ok)
    BY <1>6
  <2>2. /\ a.type = o /\ a.ok = ok
        /\ alerts' = Append(alerts, a) /\ ~lookingForSeller'
    BY <1>4, <1>6, <1>7, <2>1 DEF Processed
  <2>3. Moves(a, plugin')
    BY <1>7, <2>2 DEF Moves
  <2> QED BY <1>0, <1>4, <1>5, <1>7, <2>2, <2>3, MovingAlertPosted
<1>8. connection' = connection => ~Downloading'
  BY <1>4 DEF Downloading
<1>9. CASE ToBuyMode
  BY <1>7, <1>8, <1>9 DEF ToBuyMode, Moves, Operation
<1>10. CASE StartPlugin
  BY <1>7, <1>8, <1>10 DEF StartPlugin, Moves, Operation
<1>11. CASE Processed("toBuyMode", FALSE) /\ UNCHANGED <<plugin, connection>>
  <2>1. plugin # "started"
    BY <1>4, <1>11 DEF Processed
  <2> QED BY <1>7, <1>8, <1>11, <2>1 DEF Moves, Operation
<1>12. CASE Processed("startPlugin", FALSE) /\ UNCHANGED <<plugin, connection>>
  <2>1. plugin # "started"
    BY <1>4, <1>12 DEF Processed
  <2> QED BY <1>7, <1>8, <1>12, <2>1 DEF Moves, Operation
<1>13. CASE StartDownloadingFails
  <2>1. plugin = "started"
    BY <1>4, <1>13 DEF StartDownloadingFails, Processed
  <2> QED BY <1>7, <1>8, <1>13, <2>1 DEF StartDownloadingFails, Moves, Operation
<1>14. CASE StartDownloading
  <2>1. PICK p \in Seller : p = Head(requests).seller
    BY <1>2, <1>14, ResultType DEF StartDownloading, Processed
  <2>2. /\ connection' = [connection EXCEPT ![p] = "downloading"]
        /\ plugin' = plugin /\ plugin = "started" /\ ~lookingForSeller'
        /\ connection \in [Seller -> {"none", "other", "preparing", "downloading"}]
    BY <1>0, <1>4, <1>14, <2>1 DEF StartDownloading, CanDownload, Processed, TypeOK
  <2>3. \A q \in Seller : connection'[q] = "downloading" <=> q = p
    BY <1>4, <2>2 DEF Downloading
  <2>4. PICK a \in Alert : a = ResultOf(Head(requests), TRUE)
    BY <1>6
  <2>5. a.type = "startDownloading" /\ a.ok /\ alerts' = Append(alerts, a)
    BY <1>6, <1>14, <2>4 DEF StartDownloading, Processed
  <2>6. \A i \in 1 .. Len(alerts') : Passes(alerts'[i])
    <3>1. Passes(a)
      BY <2>5 DEF Passes
    <3> QED BY <1>0, <1>5, <2>5, <3>1, AlertPosted DEF TypeOK
  <2>7. Buys'
    BY <1>4, <2>2, <2>3, <2>6 DEF Buys, Passes, IsStatus
  <2> QED BY <2>7 DEF OneThing
<1> QED BY <1>9, <1>10, <1>11, <1>12, <1>13, <1>14 DEF ProcessRequest, ModeFails

(* Other connections of the peers do not matter.                           *)
LEMMA ConnectionsKeepOneThing ==
    ASSUME OneThing, UNCHANGED <<plugin, alerts, requests, lookingForSeller, misled>>,
           \A q \in Seller : connection'[q] = "downloading" <=> connection[q] = "downloading"
    PROVE  OneThing'
<1>1. Downloading' <=> Downloading
  BY DEF Downloading
<1>2. OnlyStatuses => OnlyStatuses'
  BY DEF OnlyStatuses, IsStatus
<1>3. CASE Asks
  BY <1>1, <1>2, <1>3 DEF Asks, OneThing
<1>4. CASE IsTold
  <2>1. IsTold'
    BY <1>1, <1>4 DEF IsTold, Moves, Passes, IsStatus
  <2> QED BY <2>1 DEF OneThing
<1>5. CASE Looks
  BY <1>1, <1>2, <1>5 DEF Looks, OneThing
<1>6. CASE Buys
  BY <1>6 DEF Buys, OneThing, Passes, IsStatus
<1>7. CASE GaveUp
  BY <1>1, <1>2, <1>7 DEF GaveUp, OneThing
<1> QED BY <1>3, <1>4, <1>5, <1>6, <1>7 DEF OneThing

LEMMA PeersKeepOneThing == IInv /\ Peers => OneThing'
<1> SUFFICES ASSUME IInv, NEW p \in Seller,
                    SellerLeaves(p) \/ \E s \in {"other", "preparing"} : SellerMoves(p, s)
             PROVE  OneThing'
  BY DEF Peers
<1>1. TypeOK /\ OneThing
      /\ connection \in [Seller -> {"none", "other", "preparing", "downloading"}]
  BY DEF IInv, TypeOK
<1>2. CASE \E s \in {"other", "preparing"} : SellerMoves(p, s)
  <2>1. \A q \in Seller : connection'[q] = "downloading" <=> connection[q] = "downloading"
    BY <1>1, <1>2 DEF SellerMoves
  <2> QED BY <1>1, <1>2, <2>1, ConnectionsKeepOneThing DEF SellerMoves
<1>3. CASE SellerLeaves(p) /\ connection[p] # "downloading"
  <2>1. \A q \in Seller : connection'[q] = "downloading" <=> connection[q] = "downloading"
    BY <1>1, <1>3 DEF SellerLeaves
  <2> QED BY <1>1, <1>3, <2>1, ConnectionsKeepOneThing DEF SellerLeaves
<1>4. CASE SellerLeaves(p) /\ connection[p] = "downloading"
  <2>1. Buys
    BY <1>1, <1>4 DEF OneThing, Asks, IsTold, Looks, GaveUp, Downloading
  <2>2. ~Downloading'
    BY <1>1, <1>4, <2>1 DEF SellerLeaves, Buys, Downloading
  <2>3. /\ alerts' = Append(alerts, AllSellersGone)
        /\ UNCHANGED <<plugin, requests, lookingForSeller>>
    BY <1>4 DEF SellerLeaves
  <2>4. Moves(AllSellersGone, plugin')
    BY <2>1, <2>3, GoneType DEF Moves, Buys
  <2> QED BY <1>1, <2>1, <2>2, <2>3, <2>4, GoneType, MovingAlertPosted DEF Buys
<1> QED BY <1>2, <1>3, <1>4

(* An alert that passes is handled.                                        *)
LEMMA PassingKeepsOneThing ==
    ASSUME TypeOK, OneThing, alerts # <<>>, alerts' = Tail(alerts), Passes(alerts[1]),
           UNCHANGED <<plugin, connection, requests, lookingForSeller, misled>>
    PROVE  OneThing'
<1>1. /\ Len(alerts) \in Nat /\ Len(alerts) >= 1 /\ Len(alerts') = Len(alerts) - 1
      /\ \A i \in 1 .. Len(alerts') : alerts'[i] = alerts[i + 1]
  BY AlertTaken DEF TypeOK
<1>2. \A i \in 1 .. Len(alerts') : i + 1 \in 1 .. Len(alerts) /\ alerts'[i] = alerts[i + 1]
  BY <1>1
<1>3. Downloading' <=> Downloading
  BY DEF Downloading
<1>4. OnlyStatuses => OnlyStatuses'
  BY <1>2 DEF OnlyStatuses, IsStatus
<1>5. CASE Asks
  BY <1>3, <1>4, <1>5 DEF Asks, OneThing
<1>6. CASE IsTold
  <2>1. PICK k \in 1 .. Len(alerts) :
            /\ Moves(alerts[k], plugin)
            /\ \A i \in 1 .. Len(alerts) :
                   /\ i < k => Passes(alerts[i])
                   /\ i > k => IsStatus(alerts[i])
    BY <1>6 DEF IsTold
  <2>2. k # 1
    BY <2>1 DEF Moves, Passes, IsStatus
  <2>3. k - 1 \in 1 .. Len(alerts') /\ alerts'[k - 1] = alerts[k]
    <3>1. k - 1 \in 1 .. Len(alerts') /\ k - 1 + 1 = k
      BY <1>1, <2>2
    <3> QED BY <1>1, <3>1
  <2>4. ASSUME NEW i \in 1 .. Len(alerts')
        PROVE  /\ i < k - 1 => Passes(alerts'[i])
               /\ i > k - 1 => IsStatus(alerts'[i])
    <3>1. i + 1 \in 1 .. Len(alerts) /\ alerts'[i] = alerts[i + 1]
      BY <1>2
    <3> QED BY <3>1, <2>1
  <2>5. IsTold'
    <3>1. Moves(alerts'[k - 1], plugin')
      BY <2>1, <2>3
    <3> QED BY <1>3, <1>6, <2>3, <2>4, <3>1 DEF IsTold, Passes, IsStatus, Moves
  <2> QED BY <2>5 DEF OneThing
<1>7. CASE Looks
  BY <1>3, <1>4, <1>7 DEF Looks, OneThing
<1>8. CASE Buys
  BY <1>2, <1>8 DEF Buys, OneThing, Passes, IsStatus
<1>9. CASE GaveUp
  BY <1>3, <1>4, <1>9 DEF GaveUp, OneThing
<1> QED BY <1>5, <1>6, <1>7, <1>8, <1>9 DEF OneThing

(* Behind an alert that moves the program there are statuses only.         *)
LEMMA MovingAlertFirst ==
    ASSUME TypeOK, OneThing, alerts # <<>>, alerts' = Tail(alerts), ~Passes(alerts[1]),
           UNCHANGED connection
    PROVE  /\ Moves(alerts[1], plugin)
           /\ ~lookingForSeller /\ ~Downloading'
           /\ Len(requests) = 0
           /\ OnlyStatuses'
<1>1. /\ Len(alerts) \in Nat /\ Len(alerts) >= 1 /\ Len(alerts') = Len(alerts) - 1
      /\ \A i \in 1 .. Len(alerts') : alerts'[i] = alerts[i + 1]
      /\ 1 \in 1 .. Len(alerts)
  BY AlertTaken DEF TypeOK
<1>2. IsTold
  BY <1>1 DEF OneThing, Asks, Looks, Buys, GaveUp, OnlyStatuses, Passes
<1>3. PICK k \in 1 .. Len(alerts) :
          /\ Moves(alerts[k], plugin)
          /\ \A i \in 1 .. Len(alerts) :
                 /\ i < k => Passes(alerts[i])
                 /\ i > k => IsStatus(alerts[i])
  BY <1>2 DEF IsTold
<1>4. k = 1
  BY <1>1, <1>3
<1>5. ASSUME NEW i \in 1 .. Len(alerts')
      PROVE  IsStatus(alerts'[i])
  <2>1. i + 1 \in 1 .. Len(alerts) /\ i + 1 > 1 /\ alerts'[i] = alerts[i + 1]
    BY <1>1
  <2> QED BY <2>1, <1>3, <1>4
<1>6. OnlyStatuses'
  BY <1>5 DEF OnlyStatuses, IsStatus
<1> QED BY <1>2, <1>3, <1>4, <1>6 DEF IsTold, Downloading

LEMMA HandleAlertKeepsOneThing == IInv /\ HandleAlert => OneThing'
<1> SUFFICES ASSUME IInv, HandleAlert PROVE OneThing'
  OBVIOUS
<1>1. TypeOK /\ OneThing /\ lookingForSeller \in BOOLEAN
      /\ requests \in Seq(RequestType) /\ Len(requests) \in Nat
  BY DEF IInv, TypeOK
<1>2. PICK type \in Operation \union {"status", "allSellersGone"} : Handling(type)
  BY DEF HandleAlert, OnBuyMode, OnPluginStarted, OnAllSellersGone,
         OnPeerStatuses, OnDownloadResult, Operation
<1>3. /\ alerts # <<>> /\ alerts' = Tail(alerts)
      /\ UNCHANGED <<plugin, connection>>
      /\ Head(alerts) = alerts[1] /\ Head(alerts) \in Alert
      /\ alerts \in Seq(Alert)
  BY <1>1, <1>2, AlertTaken DEF Handling, networkVars, TypeOK
<1>4. ASSUME Passes(alerts[1]), UNCHANGED <<requests, lookingForSeller, misled>>
      PROVE  OneThing'
  BY <1>1, <1>3, <1>4, PassingKeepsOneThing
<1>5. ASSUME ~Passes(alerts[1])
      PROVE  /\ Moves(alerts[1], plugin')
             /\ ~lookingForSeller /\ ~Downloading'
             /\ Len(requests) = 0
             /\ OnlyStatuses'
  BY <1>1, <1>3, <1>5, MovingAlertFirst
<1>6. ASSUME ~Passes(alerts[1]), requests' = requests, lookingForSeller' = TRUE
      PROVE  OneThing'
  BY <1>5, <1>6 DEF Looks, OneThing
<1>7. ASSUME ~Passes(alerts[1]), plugin' # "started" \/ misled', requests' = requests,
             lookingForSeller' = FALSE
      PROVE  OneThing'
  BY <1>5, <1>7 DEF GaveUp, OneThing
<1>8. CASE OnBuyMode
  <2>1. alerts[1].type = "toBuyMode" /\ lookingForSeller' = lookingForSeller
    BY <1>3, <1>8 DEF OnBuyMode, Handling
  <2>2. ~Passes(alerts[1]) /\ plugin' # "started" /\ lookingForSeller' = FALSE
    BY <1>1, <1>5, <2>1 DEF Passes, IsStatus, Moves
  <2>3. CASE requests' = requests
    BY <1>7, <2>2, <2>3
  <2>4. CASE requests' = Append(requests, Request("startPlugin", NoSeller))
    <3>1. Len(requests') = 1 /\ requests'[1] = Request("startPlugin", NoSeller)
      BY <1>1, <1>5, <2>2, <2>4
    <3>2. requests'[1].op # "startDownloading"
      BY <3>1 DEF Request
    <3>3. Asks'
      BY <1>5, <2>2, <3>1, <3>2 DEF Asks
    <3> QED BY <3>3 DEF OneThing
  <2> QED BY <2>3, <2>4, <1>8 DEF OnBuyMode
<1>9. CASE OnPluginStarted
  <2>1. PICK err \in SeesError(alerts[1]) :
            /\ alerts[1].type = "startPlugin" /\ requests' = requests
            /\ lookingForSeller' = (lookingForSeller \/ ~err)
    BY <1>3, <1>9 DEF OnPluginStarted, Handling
  <2>2. ~Passes(alerts[1]) /\ (alerts[1].ok <=> plugin' = "started")
    BY <1>5, <2>1 DEF Passes, IsStatus, Moves
  <2>3. /\ lookingForSeller' \in BOOLEAN /\ (lookingForSeller' <=> ~err)
        /\ alerts[1].ok => ~err
    BY <1>1, <1>5, <2>1, <2>2 DEF SeesError
  <2>4. CASE lookingForSeller' = TRUE
    BY <1>6, <2>1, <2>2, <2>4
  <2>5. CASE lookingForSeller' = FALSE
    BY <1>7, <2>1, <2>2, <2>3, <2>5
  <2> QED BY <2>3, <2>4, <2>5
<1>10. CASE OnAllSellersGone
  <2>1. /\ alerts[1].type = "allSellersGone" /\ requests' = requests
        /\ lookingForSeller' = TRUE
    BY <1>3, <1>10 DEF OnAllSellersGone, Handling
  <2>2. ~Passes(alerts[1])
    BY <2>1 DEF Passes, IsStatus
  <2> QED BY <1>6, <2>1, <2>2
<1>11. CASE OnPeerStatuses
  <2>1. Passes(alerts[1])
    BY <1>3, <1>11 DEF OnPeerStatuses, Handling, Passes, IsStatus
  <2>2. CASE UNCHANGED <<requests, lookingForSeller, misled>>
    BY <1>4, <2>1, <2>2
  <2>3. CASE /\ lookingForSeller /\ lookingForSeller' = FALSE
             /\ \E p \in SuitableSellers(Head(alerts)) :
                    requests' = Append(requests, Request("startDownloading", p))
    <3>1. Looks
      BY <1>1, <2>3 DEF OneThing, Asks, IsTold, Buys, GaveUp
    <3>2. PICK p : requests' = Append(requests, Request("startDownloading", p))
      BY <2>3
    <3>3. Len(requests') = 1 /\ requests'[1] = Request("startDownloading", p)
      BY <1>1, <3>1, <3>2 DEF Looks
    <3>4. requests'[1].op = "startDownloading"
      BY <3>3 DEF Request
    <3>5. OnlyStatuses'
      <4>1. \A i \in 1 .. Len(alerts') :
                i + 1 \in 1 .. Len(alerts) /\ alerts'[i] = alerts[i + 1]
        BY <1>3, AlertTaken
      <4> QED BY <3>1, <4>1 DEF Looks, OnlyStatuses, IsStatus
    <3>6. plugin = "started"
      BY <1>3, <2>3, AlertTaken DEF IInv, NoneReady, SuitableSellers
    <3>7. Asks'
      BY <1>3, <2>3, <3>1, <3>3, <3>4, <3>5, <3>6 DEF Asks, Looks, Downloading
    <3> QED BY <3>7 DEF OneThing
  <2> QED BY <2>2, <2>3, <1>11 DEF OnPeerStatuses
<1>12. CASE OnDownloadResult
  <2>1. PICK err \in SeesError(alerts[1]) :
            /\ alerts[1].type = "startDownloading" /\ requests' = requests
            /\ lookingForSeller' = (lookingForSeller \/ err)
            /\ misled' = (misled \/ (~alerts[1].ok /\ ~err))
    BY <1>3, <1>12 DEF OnDownloadResult, Handling
  <2>2. CASE alerts[1].ok
    <3>1. ~err /\ misled \in BOOLEAN
      BY <1>1, <2>1, <2>2 DEF SeesError, TypeOK
    <3>2. Passes(alerts[1]) /\ lookingForSeller' = lookingForSeller /\ misled' = misled
      BY <1>1, <2>1, <2>2, <3>1 DEF Passes
    <3> QED BY <1>4, <2>1, <3>2
  <2>3. CASE ~alerts[1].ok
    <3>1. ~Passes(alerts[1])
      BY <2>1, <2>3 DEF Passes, IsStatus
    <3>2. /\ lookingForSeller' \in BOOLEAN /\ (lookingForSeller' <=> err)
          /\ ~err => misled'
      BY <1>1, <1>5, <2>1, <2>3, <3>1
    <3>3. CASE lookingForSeller' = TRUE
      BY <1>6, <2>1, <3>1, <3>3
    <3>4. CASE lookingForSeller' = FALSE
      BY <1>7, <2>1, <3>1, <3>2, <3>4
    <3> QED BY <3>2, <3>3, <3>4
  <2> QED BY <2>2, <2>3
<1> QED BY <1>8, <1>9, <1>10, <1>11, <1>12 DEF HandleAlert

LEMMA NextOneThing == IInv /\ [Next]_vars => OneThing'
<1> SUFFICES ASSUME IInv, [Next]_vars PROVE OneThing'
  OBVIOUS
<1>1. CASE PostStatus
  BY <1>1, StatusKeepsOneThing DEF PostStatus, networkVars, IInv
<1>2. CASE UNCHANGED vars
  BY <1>2, ConnectionsKeepOneThing DEF vars, IInv
<1> QED BY <1>1, <1>2, ProcessKeepsOneThing, PeersKeepOneThing, HandleAlertKeepsOneThing
        DEF Next

(* The plugin once started stays so, and statuses show it as it is.        *)
LEMMA NextNoneReady == IInv /\ [Next]_vars => NoneReady'
<1> SUFFICES ASSUME IInv, [Next]_vars, plugin' # "started"
             PROVE  /\ \A p \in Seller : connection'[p] # "preparing"
                    /\ \A i \in 1 .. Len(alerts') : alerts'[i].preparing = {}
  BY DEF NoneReady
<1>1. /\ alerts \in Seq(Alert) /\ requests \in Seq(RequestType)
      /\ connection \in [Seller -> {"none", "other", "preparing", "downloading"}]
  BY DEF IInv, TypeOK
<1>2. ASSUME plugin # "started", NEW a \in Alert, a.preparing = {},
             alerts' = Append(alerts, a)
      PROVE  \A i \in 1 .. Len(alerts') : alerts'[i].preparing = {}
  BY <1>1, <1>2, AlertPosted DEF IInv, NoneReady
<1>3. CASE ProcessRequest
  <2>1. PICK op \in Operation, ok \in BOOLEAN : Processed(op, ok)
    BY <1>3 DEF ProcessRequest, ToBuyMode, StartPlugin, ModeFails, StartDownloading,
                StartDownloadingFails, Operation
  <2>2. /\ Head(requests) \in RequestType /\ requests # <<>>
        /\ Len(requests) \in Nat /\ Len(requests) >= 1 /\ Head(requests) = requests[1]
    BY <1>1, <2>1, RequestTaken DEF Processed
  <2>3. plugin # "started"
    <3>1. Asks
      BY <2>2 DEF IInv, OneThing, IsTold, Looks, Buys, GaveUp
    <3>2. CASE ToBuyMode
      <4>1. Head(requests).op = "toBuyMode"
        BY <3>2 DEF ToBuyMode, Processed
      <4> QED BY <2>2, <3>1, <4>1 DEF Asks
    <3>3. CASE ~ToBuyMode
      BY <1>3, <3>3 DEF ProcessRequest, StartPlugin, ModeFails, StartDownloading,
                        StartDownloadingFails
    <3> QED BY <3>2, <3>3
  <2>4. \A p \in Seller : connection'[p] # "preparing"
    BY <1>1, <1>3, <2>3 DEF ProcessRequest, ToBuyMode, StartPlugin, ModeFails,
        StartDownloading, StartDownloadingFails, CanDownload, IInv, NoneReady
  <2>5. PICK a \in Alert : a.preparing = {} /\ alerts' = Append(alerts, a)
    BY <2>1, <2>2, ResultType DEF Processed
  <2> QED BY <1>2, <2>3, <2>4, <2>5
<1>4. CASE PostStatus
  <2>1. plugin # "started" /\ connection' = connection /\ alerts' = Append(alerts, Status)
    BY <1>4 DEF PostStatus, networkVars
  <2>2. \A p \in Seller : connection[p] # "preparing"
    BY <2>1 DEF IInv, NoneReady
  <2>3. Status.preparing = {}
    BY <2>2 DEF Status
  <2> QED BY <1>2, <2>1, <2>2, <2>3, StatusType
<1>5. ASSUME NEW p \in Seller, NEW s \in {"other", "preparing"}, SellerMoves(p, s)
      PROVE  /\ \A q \in Seller : connection'[q] # "preparing"
             /\ \A i \in 1 .. Len(alerts') : alerts'[i].preparing = {}
  BY <1>1, <1>5 DEF SellerMoves, IInv, NoneReady
<1>6. ASSUME NEW p \in Seller, SellerLeaves(p)
      PROVE  /\ \A q \in Seller : connection'[q] # "preparing"
             /\ \A i \in 1 .. Len(alerts') : alerts'[i].preparing = {}
  <2>1. plugin # "started" /\ \A q \in Seller : connection'[q] # "preparing"
    BY <1>1, <1>6 DEF SellerLeaves, IInv, NoneReady
  <2>2. CASE alerts' = alerts
    BY <2>1, <2>2 DEF IInv, NoneReady
  <2>3. CASE alerts' = Append(alerts, AllSellersGone)
    <3>1. AllSellersGone.preparing = {}
      BY DEF AllSellersGone
    <3> QED BY <1>2, <2>1, <2>3, <3>1, GoneType
  <2> QED BY <1>6, <2>1, <2>2, <2>3 DEF SellerLeaves
<1>7. CASE HandleAlert
  <2>1. \E type \in Operation \union {"status", "allSellersGone"} : Handling(type)
    BY <1>7 DEF HandleAlert, OnBuyMode, OnPluginStarted, OnAllSellersGone,
                OnPeerStatuses, OnDownloadResult, Operation
  <2>2. /\ alerts # <<>> /\ alerts' = Tail(alerts)
        /\ plugin # "started" /\ connection' = connection
    BY <2>1 DEF Handling, networkVars
  <2>3. \A i \in 1 .. Len(alerts') :
            i + 1 \in 1 .. Len(alerts) /\ alerts'[i] = alerts[i + 1]
    BY <1>1, <2>2, AlertTaken
  <2> QED BY <2>2, <2>3 DEF IInv, NoneReady
<1>8. CASE UNCHANGED vars
  BY <1>8 DEF vars, IInv, NoneReady
<1> QED BY <1>3, <1>4, <1>5, <1>6, <1>7, <1>8 DEF Next, Peers

(* The program, the plugin and the two queues hold one thing at a time.    *)
THEOREM OneThingAtATime == Spec => []IInv
<1>1. Init => IInv
  <2>1. Init => NoneReady
    BY DEF Init, NoneReady
  <2> QED BY <2>1, InitType, InitOneThing DEF IInv
<1>2. IInv /\ [Next]_vars => IInv'
  BY NextType, NextOneThing, NextNoneReady DEF IInv
<1> QED BY <1>1, <1>2, PTL DEF Spec

(***************************************************************************)
(* The flag lookingForSeller is never set while a download is asked for,   *)
(* runs, or its end is still to be told: no second contract beside one     *)
(* that may still be honoured, however the answers and the peers' comings  *)
(* and goings interleave.                                                  *)
(***************************************************************************)
THEOREM OneContractAtATime == Spec => []LooksOnlyWhenIdle
<1>1. IInv => LooksOnlyWhenIdle
  <2> SUFFICES ASSUME IInv, lookingForSeller
               PROVE  ~Starting /\ ~Downloading /\ ~AboutToLook
    BY DEF LooksOnlyWhenIdle
  <2>1. Looks
    BY DEF IInv, OneThing, Asks, IsTold, Buys, GaveUp
  <2> QED BY <2>1 DEF Looks, OnlyStatuses, IsStatus, Starting, AboutToLook
<1> QED BY <1>1, OneThingAtATime, PTL

(***************************************************************************)
(* Once the plugin is started the program looks for a seller, downloads,   *)
(* or waits for an alert that is on its way and will make it look again;   *)
(* unless a startDownloading failed with the empty text.                   *)
(***************************************************************************)
THEOREM AlwaysGoesOn == Spec => []NeverStuck
<1>1. IInv => NeverStuck
  <2> SUFFICES ASSUME IInv, plugin = "started"
               PROVE  lookingForSeller \/ Starting \/ Downloading \/ AboutToLook \/ misled
    BY DEF NeverStuck
  <2>1. CASE Asks
    <3>1. 1 \in 1 .. Len(requests) /\ requests[1].op = "startDownloading"
      BY <2>1 DEF Asks
    <3> QED BY <3>1 DEF Starting
  <2>2. CASE IsTold
    BY <2>2 DEF IsTold, Moves, Starting, AboutToLook
  <2>3. CASE Looks \/ Buys
    BY <2>3 DEF Looks, Buys, Downloading
  <2> QED BY <2>1, <2>2, <2>3 DEF IInv, OneThing, GaveUp
<1> QED BY <1>1, OneThingAtATime, PTL

=============================================================================
