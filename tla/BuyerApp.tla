------------------------------ MODULE BuyerApp ------------------------------
(***************************************************************************)
(* letsBuy of examples/buyer/buyer.js: put the plugin into buy mode, wait  *)
(* for a suitable seller, start to download from it, and look for another  *)
(* one when that fails or the sellers go.                                  *)
(*                                                                         *)
(* The program learns of its requests and of its peers from alerts only,   *)
(* all in one queue; the peers change, and the plugin processes requests,  *)
(* behind its back.  The plugin is outside the repository: of it only what *)
(* buyer.js relies on is modelled.                                         *)
(***************************************************************************)
EXTENDS Integers, Sequences, FiniteSets

CONSTANTS
    Seller,     \* the peers that may sell
    NoSeller,   \* stands for no peer
    Suitable,   \* those whose terms areTermsMatching accepts
    MaxChurn,   \* bound: changes of connections that peers cause
    MaxStatus   \* bound: status alerts in the queue

ASSUME SellersAssumption == NoSeller \notin Seller /\ Suitable \subseteq Seller
ASSUME BoundsAssumption == MaxChurn \in Nat /\ MaxStatus \in Nat \ {0}

VARIABLES
    plugin,           \* plugin: the mode of the torrent's plugin
    connection,       \* plugin: the innerState of each seller's connection
    requests,         \* plugin: requests submitted and not yet processed
    alerts,           \* posted and not yet processed
    lookingForSeller, \* JavaScript: the flag of letsBuy
    misled,           \* history: a download that failed was taken for started
    churn             \* bound: changes of connections so far

networkVars == <<plugin, connection, churn>>
vars == <<plugin, connection, requests, alerts, lookingForSeller, misled, churn>>

Operation == {"toBuyMode", "startPlugin", "startDownloading"}

Request(op, p) == [op |-> op, seller |-> p]

RequestType == [op : {"toBuyMode", "startPlugin"}, seller : {NoSeller}]
                 \union [op : {"startDownloading"}, seller : Seller]

(* preparing: the sellers that a status alert shows in PreparingContract.  *)
Alert == [type : Operation \union {"status", "allSellersGone"},
          seller : Seller \union {NoSeller}, ok : BOOLEAN,
          preparing : SUBSET Seller]

ResultOf(req, ok) ==
    [type |-> req.op, seller |-> req.seller, ok |-> ok, preparing |-> {}]

Status ==
    [type |-> "status", seller |-> NoSeller, ok |-> TRUE,
     preparing |-> {p \in Seller : connection[p] = "preparing"}]

AllSellersGone ==
    [type |-> "allSellersGone", seller |-> NoSeller, ok |-> TRUE,
     preparing |-> {}]

Downloading == \E p \in Seller : connection[p] = "downloading"

TypeOK ==
    /\ plugin \in {"observe", "buy", "started"}
    /\ connection \in [Seller -> {"none", "other", "preparing", "downloading"}]
    /\ requests \in Seq(RequestType)
    /\ alerts \in Seq(Alert)
    /\ lookingForSeller \in BOOLEAN
    /\ misled \in BOOLEAN
    /\ churn \in 0 .. MaxChurn

-----------------------------------------------------------------------------
(* The plugin and the peers.                                               *)

(* A request is processed, and its result posted.                          *)
Processed(op, ok) ==
    /\ requests # <<>>
    /\ Head(requests).op = op
    /\ requests' = Tail(requests)
    /\ alerts' = Append(alerts, ResultOf(Head(requests), ok))
    /\ UNCHANGED <<lookingForSeller, misled, churn>>

ToBuyMode ==
    /\ Processed("toBuyMode", TRUE)
    /\ plugin' = "buy"
    /\ UNCHANGED connection

StartPlugin ==
    /\ Processed("startPlugin", TRUE)
    /\ plugin = "buy"
    /\ plugin' = "started"
    /\ UNCHANGED connection

ModeFails ==
    /\ Processed("toBuyMode", FALSE) \/ Processed("startPlugin", FALSE)
    /\ UNCHANGED <<plugin, connection>>

(* Only a seller that still waits for the contract can be downloaded from, *)
(* and only by a session that is not downloading.                          *)
CanDownload(p) ==
    plugin = "started" /\ connection[p] = "preparing" /\ ~Downloading

StartDownloading ==
    /\ Processed("startDownloading", TRUE)
    /\ LET p == Head(requests).seller
       IN  /\ CanDownload(p)
           /\ connection' = [connection EXCEPT ![p] = "downloading"]
    /\ UNCHANGED plugin

StartDownloadingFails ==
    /\ Processed("startDownloading", FALSE)
    /\ ~CanDownload(Head(requests).seller)
    /\ UNCHANGED <<plugin, connection>>

(* The plugin answers the session's timer, which asks every second.        *)
PostStatus ==
    /\ Cardinality({i \in 1 .. Len(alerts) : alerts[i].type = "status"}) < MaxStatus
    /\ alerts' = Append(alerts, Status)
    /\ UNCHANGED <<networkVars, requests, lookingForSeller, misled>>

(* A peer connects, announces other terms, or is ready for the contract.   *)
SellerMoves(p, s) ==
    /\ churn < MaxChurn
    /\ churn' = churn + 1
    /\ \/ connection[p] \in {"none", "preparing"} /\ s = "other"
       \/ connection[p] = "other" /\ s = "preparing" /\ plugin = "started"
    /\ connection' = [connection EXCEPT ![p] = s]
    /\ UNCHANGED <<plugin, requests, alerts, lookingForSeller, misled>>

(* A peer leaves.  The contract has one seller, so if it was the seller of *)
(* the download then all are gone.                                         *)
SellerLeaves(p) ==
    /\ churn < MaxChurn
    /\ churn' = churn + 1
    /\ connection[p] # "none"
    /\ connection' = [connection EXCEPT ![p] = "none"]
    /\ alerts' = IF connection[p] = "downloading"
                 THEN Append(alerts, AllSellersGone) ELSE alerts
    /\ UNCHANGED <<plugin, requests, lookingForSeller, misled>>

-----------------------------------------------------------------------------
(* The handlers of buyer.js.                                               *)

Handling(type) ==
    /\ alerts # <<>>
    /\ Head(alerts).type = type
    /\ alerts' = Tail(alerts)
    /\ UNCHANGED networkVars

(* What if (err) may find in a callback: the text of an exception may be   *)
(* empty, and then it is as false as null.                                 *)
SeesError(result) == IF result.ok THEN {FALSE} ELSE BOOLEAN

(* toBuyMode's callback; nothing is tried again when it fails.             *)
OnBuyMode ==
    /\ Handling("toBuyMode")
    /\ \E err \in SeesError(Head(alerts)) :
           requests' = IF err THEN requests
                       ELSE Append(requests, Request("startPlugin", NoSeller))
    /\ UNCHANGED <<lookingForSeller, misled>>

OnPluginStarted ==
    /\ Handling("startPlugin")
    /\ \E err \in SeesError(Head(alerts)) :
           lookingForSeller' = (lookingForSeller \/ ~err)
    /\ UNCHANGED <<requests, misled>>

OnAllSellersGone ==
    /\ Handling("allSellersGone")
    /\ lookingForSeller' = TRUE
    /\ UNCHANGED <<requests, misled>>

(* pickSuitableSeller finds one of these, in whatever order they come.     *)
SuitableSellers(status) == status.preparing \intersect Suitable

OnPeerStatuses_keepsLooking ==
    /\ Handling("status")
    /\ IF lookingForSeller /\ SuitableSellers(Head(alerts)) # {}
       THEN \E p \in SuitableSellers(Head(alerts)) :
                requests' = Append(requests, Request("startDownloading", p))
       ELSE UNCHANGED requests
    /\ UNCHANGED <<lookingForSeller, misled>>

OnPeerStatuses ==
    /\ Handling("status")
    /\ IF lookingForSeller /\ SuitableSellers(Head(alerts)) # {}
       THEN /\ lookingForSeller' = FALSE
            /\ \E p \in SuitableSellers(Head(alerts)) :
                   requests' = Append(requests, Request("startDownloading", p))
       ELSE UNCHANGED <<lookingForSeller, requests>>
    /\ UNCHANGED misled

OnDownloadResult_ignoresError ==
    /\ Handling("startDownloading")
    /\ UNCHANGED <<requests, lookingForSeller, misled>>

(* startDownloading's callback.                                            *)
OnDownloadResult ==
    /\ Handling("startDownloading")
    /\ \E err \in SeesError(Head(alerts)) :
           /\ lookingForSeller' = (lookingForSeller \/ err)
           /\ misled' = (misled \/ (~Head(alerts).ok /\ ~err))
    /\ UNCHANGED requests

-----------------------------------------------------------------------------

(* letsBuy has registered its listeners and called toBuyMode.              *)
Init ==
    /\ plugin = "observe"
    /\ connection = [p \in Seller |-> "none"]
    /\ requests = <<Request("toBuyMode", NoSeller)>>
    /\ alerts = <<>>
    /\ lookingForSeller = FALSE
    /\ misled = FALSE
    /\ churn = 0

ProcessRequest ==
    \/ ToBuyMode \/ StartPlugin \/ ModeFails
    \/ StartDownloading \/ StartDownloadingFails

Peers ==
    \E p \in Seller :
        SellerLeaves(p) \/ \E s \in {"other", "preparing"} : SellerMoves(p, s)

HandleAlert ==
    \/ OnBuyMode \/ OnPluginStarted
    \/ OnAllSellersGone \/ OnPeerStatuses \/ OnDownloadResult

Next == ProcessRequest \/ PostStatus \/ Peers \/ HandleAlert

Spec == Init /\ [][Next]_vars

(* The plugin's thread and the session's two timers run for ever.          *)
FairSpec ==
    Spec /\ WF_vars(ProcessRequest) /\ WF_vars(PostStatus) /\ WF_vars(HandleAlert)

-----------------------------------------------------------------------------

(* A startDownloading is under way: requested, or its result not yet seen. *)
Starting ==
    \/ \E i \in 1 .. Len(requests) : requests[i].op = "startDownloading"
    \/ \E i \in 1 .. Len(alerts) : alerts[i].type = "startDownloading"

AboutToLook ==
    \E i \in 1 .. Len(alerts) :
        \/ alerts[i].type = "allSellersGone"
        \/ alerts[i].type = "startPlugin" /\ alerts[i].ok

(***************************************************************************)
(* The flag is not set while the plugin downloads or is asked to: no       *)
(* second contract is made while the first may still be honoured.          *)
(***************************************************************************)
LooksOnlyWhenIdle ==
    lookingForSeller => ~Starting /\ ~Downloading /\ ~AboutToLook

(***************************************************************************)
(* Once the plugin is started the program is always looking, or about to,  *)
(* or downloading, or waits for an answer: it cannot be left with the flag *)
(* cleared and nothing that would set it again.  One way is left open: a   *)
(* startDownloading that fails with the empty text looks like a success.   *)
(***************************************************************************)
NeverStuck ==
    plugin = "started" =>
        lookingForSeller \/ Starting \/ Downloading \/ AboutToLook \/ misled

(***************************************************************************)
(* If a suitable seller stays ready, then the program ends up downloading  *)
(* from it or from another, whatever failed before, if not with the empty  *)
(* text: that would leave it waiting for a download nobody makes.          *)
(***************************************************************************)
BuysFromReadySeller ==
    \A p \in Suitable :
        []<>(\/ plugin # "started" \/ connection[p] # "preparing"
             \/ Downloading \/ misled)

=============================================================================
