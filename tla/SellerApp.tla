----------------------------- MODULE SellerApp -----------------------------
(***************************************************************************)
(* letsSell of examples/seller/seller.js: put the plugin into sell mode    *)
(* and start to upload to every suitable buyer that invites us, once.  The *)
(* map buyers remembers who was asked for: a buyer is entered when         *)
(* startUploading is called, and taken out when that fails or the          *)
(* connection is removed, which both come as alerts, behind the fact.      *)
(*                                                                         *)
(* The plugin is outside the repository: of it only what seller.js relies  *)
(* on is modelled.                                                         *)
(***************************************************************************)
EXTENDS Integers, Sequences, FiniteSets

CONSTANTS
    Buyers,     \* the peers that may buy, in the order statuses list them
    NoBuyer,    \* stands for no peer
    Suitable,   \* those whose terms areTermsMatching accepts
    MaxChurn,   \* bound: changes of connections that peers cause
    MaxStatus   \* bound: status alerts in the queue

Buyer == {Buyers[i] : i \in 1 .. Len(Buyers)}

ASSUME BuyersAssumption ==
    /\ Buyers \in Seq(Buyer)
    /\ \A i, j \in 1 .. Len(Buyers) : Buyers[i] = Buyers[j] => i = j
    /\ NoBuyer \notin Buyer
    /\ Suitable \subseteq Buyer
ASSUME BoundsAssumption == MaxChurn \in Nat /\ MaxStatus \in Nat \ {0}

VARIABLES
    plugin,       \* plugin: the mode of the torrent's plugin
    connection,   \* plugin: the innerState of each buyer's connection
    requests,     \* plugin: requests submitted and not yet processed
    alerts,       \* posted and not yet processed
    buyers,       \* JavaScript: the keys of the map of letsSell
    rejoined,     \* history: buyers taken out when they had been asked for
    misled,       \* history: buyers kept though the upload to them failed
    churn         \* bound: changes of connections so far

networkVars == <<plugin, connection, churn>>
vars == <<plugin, connection, requests, alerts, buyers, rejoined, misled, churn>>

Request(op, p) == [op |-> op, buyer |-> p]

RequestType == [op : {"toSellMode", "startPlugin"}, buyer : {NoBuyer}]
                 \union [op : {"startUploading"}, buyer : Buyer]

(* invited: the buyers that a status alert shows in state Invited.         *)
Alert ==
    [type : {"toSellMode", "startPlugin", "status"},
     buyer : {NoBuyer}, ok : BOOLEAN, invited : SUBSET Buyer]
      \union [type : {"startUploading", "connectionRemoved"},
              buyer : Buyer, ok : BOOLEAN, invited : {{}}]

ResultOf(req, ok) ==
    [type |-> req.op, buyer |-> req.buyer, ok |-> ok, invited |-> {}]

Status ==
    [type |-> "status", buyer |-> NoBuyer, ok |-> TRUE,
     invited |-> {p \in Buyer : connection[p] = "invited"}]

ConnectionRemoved(p) ==
    [type |-> "connectionRemoved", buyer |-> p, ok |-> TRUE, invited |-> {}]

TypeOK ==
    /\ plugin \in {"observe", "sell", "started"}
    /\ connection \in [Buyer -> {"none", "other", "invited", "selling"}]
    /\ requests \in Seq(RequestType)
    /\ alerts \in Seq(Alert)
    /\ buyers \subseteq Suitable
    /\ rejoined \subseteq Buyer
    /\ misled \subseteq buyers
    /\ churn \in 0 .. MaxChurn

(* Where startUploading was called for p and its callback was not yet.     *)
Requested(p) ==
    {i \in 1 .. Len(requests) :
        requests[i].op = "startUploading" /\ requests[i].buyer = p}

Answered(p) ==
    {i \in 1 .. Len(alerts) :
        alerts[i].type = "startUploading" /\ alerts[i].buyer = p}

InFlight(p) == Requested(p) # {} \/ Answered(p) # {}

-----------------------------------------------------------------------------
(* The plugin and the peers.                                               *)

(* A request is processed, and its result posted.                          *)
Processed(op, ok) ==
    /\ requests # <<>>
    /\ Head(requests).op = op
    /\ requests' = Tail(requests)
    /\ alerts' = Append(alerts, ResultOf(Head(requests), ok))
    /\ UNCHANGED <<buyers, rejoined, misled, churn>>

ToSellMode ==
    /\ Processed("toSellMode", TRUE)
    /\ plugin' = "sell"
    /\ UNCHANGED connection

StartPlugin ==
    /\ Processed("startPlugin", TRUE)
    /\ plugin = "sell"
    /\ plugin' = "started"
    /\ UNCHANGED connection

ModeFails ==
    /\ Processed("toSellMode", FALSE) \/ Processed("startPlugin", FALSE)
    /\ UNCHANGED <<plugin, connection>>

(* Only a buyer whose invitation stands can be uploaded to.                *)
StartUploading ==
    /\ Processed("startUploading", TRUE)
    /\ LET p == Head(requests).buyer
       IN  /\ connection[p] = "invited"
           /\ connection' = [connection EXCEPT ![p] = "selling"]
    /\ UNCHANGED plugin

StartUploadingFails ==
    /\ Processed("startUploading", FALSE)
    /\ connection[Head(requests).buyer] # "invited"
    /\ UNCHANGED <<plugin, connection>>

(* The plugin answers the session's timer, which asks every second.        *)
PostStatus ==
    /\ Cardinality({i \in 1 .. Len(alerts) : alerts[i].type = "status"}) < MaxStatus
    /\ alerts' = Append(alerts, Status)
    /\ UNCHANGED <<networkVars, requests, buyers, rejoined, misled>>

(* A peer connects, withdraws its invitation, or invites us.               *)
BuyerMoves(p, s) ==
    /\ churn < MaxChurn
    /\ churn' = churn + 1
    /\ \/ connection[p] \in {"none", "invited"} /\ s = "other"
       \/ connection[p] = "other" /\ s = "invited" /\ plugin = "started"
    /\ connection' = [connection EXCEPT ![p] = s]
    /\ UNCHANGED <<plugin, requests, alerts, buyers, rejoined, misled>>

BuyerLeaves(p) ==
    /\ churn < MaxChurn
    /\ churn' = churn + 1
    /\ connection[p] # "none"
    /\ connection' = [connection EXCEPT ![p] = "none"]
    /\ alerts' = Append(alerts, ConnectionRemoved(p))
    /\ UNCHANGED <<plugin, requests, buyers, rejoined, misled>>

-----------------------------------------------------------------------------
(* The handlers of seller.js.                                              *)

Handling(type) ==
    /\ alerts # <<>>
    /\ Head(alerts).type = type
    /\ alerts' = Tail(alerts)
    /\ UNCHANGED networkVars

(* What if (err) may find in a callback: the text of an exception may be   *)
(* empty, and then it is as false as null.                                 *)
SeesError(result) == IF result.ok THEN {FALSE} ELSE BOOLEAN

(* toSellMode's callback; nothing is tried again when it fails.            *)
OnSellMode ==
    /\ Handling("toSellMode")
    /\ \E err \in SeesError(Head(alerts)) :
           requests' = IF err THEN requests
                       ELSE Append(requests, Request("startPlugin", NoBuyer))
    /\ UNCHANGED <<buyers, rejoined, misled>>

OnPluginStarted ==
    /\ Handling("startPlugin")
    /\ UNCHANGED <<requests, buyers, rejoined, misled>>

(* A sequence that lists the given buyers as the statuses do.              *)
IsListing(new, selected) ==
    /\ {new[i] : i \in DOMAIN new} = selected
    /\ \A i, j \in DOMAIN new : i < j =>
          \E k, l \in 1 .. Len(Buyers) :
              k < l /\ Buyers[k] = new[i] /\ Buyers[l] = new[j]

AskForAll(selected) ==
    \E new \in [1 .. Cardinality(selected) -> selected] :
        /\ IsListing(new, selected)
        /\ requests' = requests \o
              [i \in 1 .. Len(new) |-> Request("startUploading", new[i])]
        /\ buyers' = buyers \union selected

OnPeerStatuses_asksAgain ==
    /\ Handling("status")
    /\ LET invited == Head(alerts).invited \intersect Suitable
       IN  /\ \A p \in invited : Requested(p) = {} \/ Answered(p) = {}
           /\ AskForAll(invited)
    /\ UNCHANGED <<rejoined, misled>>

(* Every suitable buyer that invites us and is not in the map is entered   *)
(* and asked for, in the order of the statuses.                            *)
OnPeerStatuses ==
    /\ Handling("status")
    /\ AskForAll(Head(alerts).invited \intersect (Suitable \ buyers))
    /\ UNCHANGED <<rejoined, misled>>

OnUploadResult_keepsBuyer ==
    /\ Handling("startUploading")
    /\ UNCHANGED <<requests, buyers, rejoined, misled>>

(* startUploading's callback.                                              *)
OnUploadResult ==
    /\ Handling("startUploading")
    /\ LET p == Head(alerts).buyer
       IN  \E err \in SeesError(Head(alerts)) :
              /\ buyers' = IF err THEN buyers \ {p} ELSE buyers
              /\ misled' = CASE err -> misled \ {p}
                             [] ~err /\ Head(alerts).ok -> misled
                             [] OTHER -> misled \union (buyers \intersect {p})
    /\ UNCHANGED <<requests, rejoined>>

OnConnectionRemoved ==
    /\ Handling("connectionRemoved")
    /\ LET p == Head(alerts).buyer
       IN  /\ buyers' = buyers \ {p}
           /\ misled' = misled \ {p}
           /\ rejoined' = IF InFlight(p) THEN rejoined \union {p} ELSE rejoined
    /\ UNCHANGED requests

-----------------------------------------------------------------------------

(* letsSell has registered its listeners and called toSellMode.            *)
Init ==
    /\ plugin = "observe"
    /\ connection = [p \in Buyer |-> "none"]
    /\ requests = <<Request("toSellMode", NoBuyer)>>
    /\ alerts = <<>>
    /\ buyers = {}
    /\ rejoined = {}
    /\ misled = {}
    /\ churn = 0

ProcessRequest ==
    \/ ToSellMode \/ StartPlugin \/ ModeFails
    \/ StartUploading \/ StartUploadingFails

Peers ==
    \E p \in Buyer :
        BuyerLeaves(p) \/ \E s \in {"other", "invited"} : BuyerMoves(p, s)

HandleAlert ==
    \/ OnSellMode \/ OnPluginStarted
    \/ OnPeerStatuses \/ OnUploadResult \/ OnConnectionRemoved

Next == ProcessRequest \/ PostStatus \/ Peers \/ HandleAlert

Spec == Init /\ [][Next]_vars

(* The plugin's thread and the session's two timers run for ever.          *)
FairSpec ==
    Spec /\ WF_vars(ProcessRequest) /\ WF_vars(PostStatus) /\ WF_vars(HandleAlert)

-----------------------------------------------------------------------------

Leaving(p) == \E i \in 1 .. Len(alerts) : alerts[i] = ConnectionRemoved(p)

(***************************************************************************)
(* No entry of the map is stale for good: a buyer in it is being uploaded  *)
(* to, or an answer or the news of its leaving is still on its way, which  *)
(* will take it out.  Else the buyer would never be served again.  After a *)
(* failure with the empty text, which looks like a success, the entry is   *)
(* stale, but for no longer than the buyer stays connected.                *)
(***************************************************************************)
NoStaleBuyer ==
    \A p \in buyers :
        \/ InFlight(p) \/ connection[p] = "selling" \/ Leaving(p)
        \/ p \in misled /\ connection[p] # "none"

(***************************************************************************)
(* A buyer is asked for once at a time, and not again while it is served.  *)
(* The exception is a buyer that left when it had been asked for: the late *)
(* error takes out the entry of the new connection, which is then asked    *)
(* for twice.                                                              *)
(***************************************************************************)
AskedOnce ==
    \A p \in Buyer \ rejoined :
        /\ \A i, j \in Requested(p) : i = j
        /\ \A i, j \in Answered(p) : i = j
        /\ Requested(p) = {} \/ Answered(p) = {}
        /\ connection[p] = "selling" => Requested(p) = {}

(***************************************************************************)
(* A suitable buyer whose invitation stands is uploaded to in the end,     *)
(* also after errors and after it left and came back.  Only an error with  *)
(* the empty text puts an end to it, until the buyer leaves.               *)
(***************************************************************************)
InvitingBuyerServed ==
    \A p \in Suitable : []<>(connection[p] # "invited" \/ p \in misled)

=============================================================================
