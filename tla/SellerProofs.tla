---------------------------- MODULE SellerProofs ----------------------------
(***************************************************************************)
(* The seller program, for any buyers, any choice among them and any       *)
(* number of changes and statuses: no buyer stays in the map for good, and *)
(* none is asked for twice unless it left when it had been asked for.      *)
(***************************************************************************)
EXTENDS SellerApp, SequenceTheorems, FiniteSetTheorems, TLAPS

(* The news that p left.                                                   *)
IsRemoval(a, p) == a.type = "connectionRemoved" /\ a.buyer = p

(* The success of startUploading is told while the buyer is served, or     *)
(* before the news that it left.                                           *)
ServedOrLeft(p) ==
    \A i \in Answered(p) : alerts[i].ok =>
        \/ connection[p] = "selling"
        \/ \E j \in 1 .. Len(alerts) : i < j /\ alerts[j] = ConnectionRemoved(p)

Entry(p) ==
    p \in buyers =>
        \/ InFlight(p) \/ connection[p] = "selling" \/ Leaving(p)
        \/ p \in misled /\ connection[p] # "none"

(* That p left is told behind every status that shows it invited, and      *)
(* before that it is in the map only if the news is on its way.            *)
Vanished(p) ==
    connection[p] = "none" =>
        /\ p \in buyers => Leaving(p)
        /\ \A i \in 1 .. Len(alerts) : p \in alerts[i].invited =>
               \E j \in 1 .. Len(alerts) : i < j /\ alerts[j] = ConnectionRemoved(p)

(* While p never left at a bad moment: it is asked for once, and in the    *)
(* map from then on until it leaves or the answer is an error.  Also the   *)
(* news that it left before it was served is behind it, as the program     *)
(* handles that before the answer that the upload started.                 *)
Once(p) ==
    p \notin rejoined =>
        /\ \A i, j \in Requested(p) : i = j
        /\ \A i, j \in Answered(p) : i = j
        /\ Requested(p) = {} \/ Answered(p) = {}
        /\ InFlight(p) \/ connection[p] = "selling" => p \in buyers
        /\ connection[p] = "selling" =>
               /\ Requested(p) = {}
               /\ \A i \in Answered(p) : alerts[i].ok
               /\ \A i \in 1 .. Len(alerts) : IsRemoval(alerts[i], p) =>
                      \E j \in Answered(p) : i < j

Sound(p) == ServedOrLeft(p) /\ Entry(p) /\ Vanished(p) /\ Once(p)

IInv == TypeOK /\ \A p \in Buyer : Sound(p)

-----------------------------------------------------------------------------
(* What the queues hold after one step.                                    *)

ConnectionState == {"none", "other", "invited", "selling"}

LEMMA FiniteBuyers == IsFiniteSet(Buyer)
<1>1. Buyers \in Surjection(1 .. Len(Buyers), Buyer)
  <2>1. Buyers \in [1 .. Len(Buyers) -> Buyer]
    BY BuyersAssumption
  <2> QED BY <2>1 DEF Surjection, Buyer
<1>2. IsFiniteSet(1 .. Len(Buyers))
  <2>1. Len(Buyers) \in Int
    BY BuyersAssumption
  <2> QED BY <2>1, FS_Interval
<1> QED BY <1>1, <1>2, FS_Surjection

LEMMA AlertPosted ==
    ASSUME alerts \in Seq(Alert), NEW a \in Alert, alerts' = Append(alerts, a)
    PROVE  /\ alerts' \in Seq(Alert)
           /\ Len(alerts) \in Nat
           /\ Len(alerts') = Len(alerts) + 1
           /\ \A i \in 1 .. Len(alerts) : alerts'[i] = alerts[i]
           /\ alerts'[Len(alerts) + 1] = a
BY AppendProperties

LEMMA AlertTaken ==
    ASSUME alerts \in Seq(Alert), alerts # <<>>, alerts' = Tail(alerts)
    PROVE  /\ alerts' \in Seq(Alert)
           /\ Len(alerts) \in Nat /\ Len(alerts) >= 1
           /\ Len(alerts') = Len(alerts) - 1
           /\ \A i \in 1 .. Len(alerts') : alerts'[i] = alerts[i + 1]
           /\ Head(alerts) = alerts[1] /\ Head(alerts) \in Alert
BY HeadTailProperties, EmptySeq

LEMMA RequestTaken ==
    ASSUME requests \in Seq(RequestType), requests # <<>>, requests' = Tail(requests)
    PROVE  /\ requests' \in Seq(RequestType)
           /\ Len(requests) \in Nat /\ Len(requests) >= 1
           /\ Len(requests') = Len(requests) - 1
           /\ \A i \in 1 .. Len(requests') : requests'[i] = requests[i + 1]
           /\ Head(requests) = requests[1] /\ Head(requests) \in RequestType
BY HeadTailProperties, EmptySeq

LEMMA ResultType ==
    ASSUME NEW req \in RequestType, NEW ok \in BOOLEAN
    PROVE  /\ ResultOf(req, ok) \in Alert
           /\ ResultOf(req, ok).type = req.op
           /\ ResultOf(req, ok).buyer = req.buyer
           /\ ResultOf(req, ok).ok = ok
           /\ ResultOf(req, ok).invited = {}
           /\ req.op \in {"toSellMode", "startPlugin", "startUploading"}
           /\ req.op = "startUploading" => req.buyer \in Buyer
BY DEF ResultOf, RequestType, Alert

LEMMA StatusType ==
    /\ Status \in Alert /\ Status.type = "status"
    /\ \A p : p \in Status.invited => connection[p] = "invited"
BY DEF Status, Alert

LEMMA RemovedType ==
    ASSUME NEW p \in Buyer
    PROVE  /\ ConnectionRemoved(p) \in Alert
           /\ IsRemoval(ConnectionRemoved(p), p)
           /\ ConnectionRemoved(p).invited = {}
           /\ \A q : IsRemoval(ConnectionRemoved(p), q) => q = p
BY DEF ConnectionRemoved, Alert, IsRemoval

(* The requests that a status leads to: each buyer selected once.          *)
LEMMA BuyersAsked ==
    ASSUME requests \in Seq(RequestType), NEW selected \in SUBSET Buyer,
           AskForAll(selected)
    PROVE  /\ requests' \in Seq(RequestType)
           /\ Len(requests) \in Nat /\ Len(requests') \in Nat
           /\ Len(requests') >= Len(requests)
           /\ \A i \in 1 .. Len(requests) : requests'[i] = requests[i]
           /\ \A i \in Len(requests) + 1 .. Len(requests') :
                 /\ requests'[i].buyer \in selected
                 /\ \A j \in Len(requests) + 1 .. Len(requests') :
                       requests'[i].buyer = requests'[j].buyer => i = j
           /\ \A p \in selected : \E i \in Len(requests) + 1 .. Len(requests') :
                 requests'[i].op = "startUploading" /\ requests'[i].buyer = p
           /\ buyers' = buyers \union selected
<1>1. PICK new \in [1 .. Cardinality(selected) -> selected] :
          /\ IsListing(new, selected)
          /\ requests' = requests \o
                [i \in 1 .. Len(new) |-> Request("startUploading", new[i])]
          /\ buyers' = buyers \union selected
  BY DEF AskForAll
<1>2. Cardinality(selected) \in Nat
  BY FiniteBuyers, FS_Subset, FS_CardinalityType
<1>3. new \in Seq(selected) /\ Len(new) \in Nat /\ DOMAIN new = 1 .. Len(new)
  BY <1>1, <1>2
<1> DEFINE asked == [i \in 1 .. Len(new) |-> Request("startUploading", new[i])]
<1>4. /\ asked \in Seq(RequestType) /\ Len(asked) = Len(new)
      /\ \A i \in 1 .. Len(new) :
             asked[i].op = "startUploading" /\ asked[i].buyer = new[i]
  <2>1. \A i \in 1 .. Len(new) : Request("startUploading", new[i]) \in RequestType
    BY <1>3 DEF Request, RequestType
  <2>2. asked \in [1 .. Len(new) -> RequestType]
    BY <2>1
  <2>3. asked \in Seq(RequestType)
    BY <1>3, <2>2
  <2>4. Len(asked) = Len(new)
    BY <1>3, <2>2
  <2> QED BY <2>3, <2>4 DEF Request
<1> HIDE DEF asked
<1>5. /\ requests' \in Seq(RequestType)
      /\ Len(requests') = Len(requests) + Len(new)
      /\ \A i \in 1 .. Len(requests) + Len(new) :
             requests'[i] = IF i <= Len(requests) THEN requests[i]
                                                  ELSE asked[i - Len(requests)]
  BY <1>1, <1>3, <1>4, ConcatProperties DEF asked
<1>6. Len(requests) \in Nat
  OBVIOUS
<1>7. \A i \in 1 .. Len(requests) : requests'[i] = requests[i]
  <2>1. \A i \in 1 .. Len(requests) :
            i \in 1 .. Len(requests) + Len(new) /\ i <= Len(requests)
    BY ONLY <1>3, <1>6
  <2> QED BY ONLY <2>1, <1>5
<1>8. ASSUME NEW k \in 1 .. Len(new)
      PROVE  /\ Len(requests) + k \in Len(requests) + 1 .. Len(requests')
             /\ requests'[Len(requests) + k].op = "startUploading"
             /\ requests'[Len(requests) + k].buyer = new[k]
  <2>1. /\ Len(requests) + k \in 1 .. Len(requests) + Len(new)
        /\ Len(requests) + k \in Len(requests) + 1 .. Len(requests) + Len(new)
        /\ ~(Len(requests) + k <= Len(requests))
        /\ Len(requests) + k - Len(requests) = k
    BY ONLY <1>3, <1>6, k \in 1 .. Len(new)
  <2>2. requests'[Len(requests) + k] = asked[k]
    BY ONLY <2>1, <1>5
  <2> QED BY ONLY <2>1, <2>2, <1>4, <1>5, k \in 1 .. Len(new)
<1>9. ASSUME NEW k \in 1 .. Len(new), NEW l \in 1 .. Len(new), new[k] = new[l]
      PROVE  k = l
  <2>1. \A i, j \in 1 .. Len(new) : i < j => new[i] # new[j]
    <3> SUFFICES ASSUME NEW i \in 1 .. Len(new), NEW j \in 1 .. Len(new), i < j,
                        new[i] = new[j]
                 PROVE  FALSE
      OBVIOUS
    <3>1. PICK m \in 1 .. Len(Buyers), n \in 1 .. Len(Buyers) :
              m < n /\ Buyers[m] = new[i] /\ Buyers[n] = new[j]
      BY <1>1, <1>3 DEF IsListing
    <3>2. m = n
      BY <3>1, BuyersAssumption
    <3>3. m \in Int
      OBVIOUS
    <3> QED BY ONLY <3>1, <3>2, <3>3
  <2> QED BY <2>1, <1>3, <1>9
<1>10. \A i \in Len(requests) + 1 .. Len(requests') :
           i - Len(requests) \in 1 .. Len(new) /\ Len(requests) + (i - Len(requests)) = i
  BY <1>3, <1>5, <1>6
<1>11. ASSUME NEW i \in Len(requests) + 1 .. Len(requests')
       PROVE  requests'[i].buyer = new[i - Len(requests)]
  BY <1>8, <1>10
<1>12. \A i \in Len(requests) + 1 .. Len(requests') :
           /\ requests'[i].buyer \in selected
           /\ \A j \in Len(requests) + 1 .. Len(requests') :
                 requests'[i].buyer = requests'[j].buyer => i = j
  <2>1. ASSUME NEW i \in Len(requests) + 1 .. Len(requests'),
               NEW j \in Len(requests) + 1 .. Len(requests'),
               requests'[i].buyer = requests'[j].buyer
        PROVE  i = j
    <3>1. i - Len(requests) = j - Len(requests)
      BY <2>1, <1>9, <1>10, <1>11
    <3> QED BY <3>1, <1>6
  <2> QED BY <2>1, <1>3, <1>10, <1>11
<1>13. ASSUME NEW p \in selected
       PROVE  \E i \in Len(requests) + 1 .. Len(requests') :
                  requests'[i].op = "startUploading" /\ requests'[i].buyer = p
  <2>1. PICK k \in 1 .. Len(new) : new[k] = p
    BY <1>1, <1>3 DEF IsListing
  <2> QED BY <2>1, <1>8
<1>14. Len(requests') \in Nat /\ Len(requests') >= Len(requests)
  BY <1>3, <1>5, <1>6
<1> QED BY <1>1, <1>5, <1>6, <1>7, <1>12, <1>13, <1>14

-----------------------------------------------------------------------------
(* The types.                                                              *)

LEMMA InitType == Init => TypeOK
<1> SUFFICES ASSUME Init PROVE TypeOK
  OBVIOUS
<1>1. requests \in Seq(RequestType)
  BY DEF Init, Request, RequestType
<1>2. alerts \in Seq(Alert)
  BY DEF Init
<1>3. connection \in [Buyer -> ConnectionState]
  BY DEF Init, ConnectionState
<1>4. churn \in 0 .. MaxChurn
  BY BoundsAssumption DEF Init
<1>5. plugin = "observe" /\ buyers = {} /\ rejoined = {} /\ misled = {}
  BY DEF Init
<1> QED BY <1>1, <1>2, <1>3, <1>4, <1>5 DEF TypeOK, ConnectionState

LEMMA NextType == TypeOK /\ [Next]_vars => TypeOK'
<1> SUFFICES ASSUME TypeOK, [Next]_vars PROVE TypeOK'
  OBVIOUS
<1>1. /\ alerts \in Seq(Alert) /\ requests \in Seq(RequestType)
      /\ connection \in [Buyer -> ConnectionState]
      /\ buyers \subseteq Suitable /\ rejoined \subseteq Buyer
      /\ misled \subseteq buyers
  BY DEF TypeOK, ConnectionState
<1>2. CASE ProcessRequest
  <2>1. PICK op \in {"toSellMode", "startPlugin", "startUploading"}, ok \in BOOLEAN :
            Processed(op, ok)
    BY <1>2 DEF ProcessRequest, ToSellMode, StartPlugin, ModeFails, StartUploading,
                StartUploadingFails
  <2>2. /\ requests' \in Seq(RequestType) /\ alerts' \in Seq(Alert)
        /\ UNCHANGED <<buyers, rejoined, misled, churn>>
    BY <1>1, <2>1, RequestTaken, ResultType, AlertPosted DEF Processed
  <2>3. plugin' \in {"observe", "sell", "started"}
    BY <1>2 DEF ProcessRequest, ToSellMode, StartPlugin, ModeFails, StartUploading,
                StartUploadingFails, TypeOK
  <2>4. connection' \in [Buyer -> ConnectionState]
    BY <1>1, <1>2 DEF ProcessRequest, ToSellMode, StartPlugin, ModeFails,
                      StartUploading, StartUploadingFails, ConnectionState
  <2> QED BY <2>2, <2>3, <2>4 DEF TypeOK, ConnectionState
<1>3. CASE PostStatus
  <2>1. alerts' \in Seq(Alert)
    BY <1>1, <1>3, StatusType, AlertPosted DEF PostStatus
  <2> QED BY <1>3, <2>1 DEF PostStatus, networkVars, TypeOK
<1>4. ASSUME NEW p \in Buyer, NEW s \in {"other", "invited"}, BuyerMoves(p, s)
      PROVE  TypeOK'
  BY <1>4, BoundsAssumption DEF BuyerMoves, TypeOK
<1>5. ASSUME NEW p \in Buyer, BuyerLeaves(p)
      PROVE  TypeOK'
  <2>1. alerts' \in Seq(Alert)
    BY <1>1, <1>5, RemovedType, AlertPosted DEF BuyerLeaves
  <2> QED BY <1>5, <2>1, BoundsAssumption DEF BuyerLeaves, TypeOK
<1>6. ASSUME NEW type, Handling(type),
             requests' \in Seq(RequestType), buyers' \subseteq Suitable,
             rejoined' \subseteq Buyer, misled' \subseteq buyers'
      PROVE  TypeOK'
  <2>1. alerts' \in Seq(Alert)
    BY <1>1, <1>6, AlertTaken DEF Handling
  <2> QED BY <1>6, <2>1 DEF Handling, networkVars, TypeOK
<1>7. CASE OnSellMode
  <2>1. Request("startPlugin", NoBuyer) \in RequestType
    BY DEF Request, RequestType
  <2>2. requests' \in Seq(RequestType)
    BY <1>1, <1>7, <2>1, AppendProperties DEF OnSellMode
  <2> QED BY <1>1, <1>6, <1>7, <2>2 DEF OnSellMode
<1>8. CASE OnPluginStarted
  BY <1>1, <1>6, <1>8 DEF OnPluginStarted
<1>9. CASE OnPeerStatuses
  <2> DEFINE selected == Head(alerts).invited \intersect (Suitable \ buyers)
  <2>1. selected \in SUBSET Buyer /\ selected \subseteq Suitable
    BY BuyersAssumption
  <2>2. requests' \in Seq(RequestType) /\ buyers' = buyers \union selected
    BY <1>1, <1>9, <2>1, BuyersAsked DEF OnPeerStatuses
  <2> QED BY <1>1, <1>6, <1>9, <2>1, <2>2 DEF OnPeerStatuses
<1>10. CASE OnUploadResult
  BY <1>1, <1>6, <1>10 DEF OnUploadResult
<1>11. CASE OnConnectionRemoved
  <2>1. Head(alerts) \in Alert /\ Head(alerts).type = "connectionRemoved"
    BY <1>1, <1>11, AlertTaken DEF OnConnectionRemoved, Handling
  <2>2. Head(alerts).buyer \in Buyer
    BY <2>1 DEF Alert
  <2> QED BY <1>1, <1>6, <1>11, <2>2 DEF OnConnectionRemoved
<1>12. CASE UNCHANGED vars
  BY <1>12 DEF vars, TypeOK
<1> QED BY <1>2, <1>3, <1>4, <1>5, <1>7, <1>8, <1>9, <1>10, <1>11, <1>12
        DEF Next, Peers, HandleAlert

-----------------------------------------------------------------------------
(* A step that tells q nothing and asks nothing for it.                    *)

Neutral(a, q) ==
    /\ ~ (a.type = "startUploading" /\ a.buyer = q)
    /\ a # ConnectionRemoved(q)
    /\ ~ IsRemoval(a, q)

(* The alerts are those from the d-th on, but for neutral ones.            *)
LEMMA NothingNew ==
    ASSUME NEW q \in Buyer, NEW d \in {0, 1}, Sound(q),
           Len(alerts) \in Nat, Len(alerts') \in Nat,
           \A i \in 1 .. Len(alerts) : i <= d => Neutral(alerts[i], q),
           \A i \in 1 .. Len(alerts) : i > d =>
               i - d \in 1 .. Len(alerts') /\ alerts'[i - d] = alerts[i],
           \A i \in 1 .. Len(alerts') :
               \/ i + d \in 1 .. Len(alerts) /\ alerts'[i] = alerts[i + d]
               \/ /\ Neutral(alerts'[i], q)
                  /\ q \in alerts'[i].invited => connection[q] # "none",
           (connection[q])' = "none" => connection[q] = "none",
           Requested(q)' = {} <=> Requested(q) = {},
           (\A i, j \in Requested(q) : i = j) =>
               (\A i, j \in Requested(q)' : i = j),
           (connection[q])' = "selling" <=> connection[q] = "selling",
           q \in buyers' <=> q \in buyers,
           q \in rejoined' <=> q \in rejoined,
           q \in misled => q \in misled'
    PROVE  Sound(q)'
<1>1. ASSUME NEW i \in Answered(q)'
      PROVE  i \in 1 .. Len(alerts') /\ i + d \in Answered(q) /\ alerts'[i] = alerts[i + d]
  BY DEF Answered, Neutral
<1>2. ASSUME NEW i \in Answered(q)
      PROVE  i \in Int /\ i - d \in Answered(q)' /\ alerts'[i - d] = alerts[i]
  <2>1. i \in 1 .. Len(alerts) /\ ~ Neutral(alerts[i], q)
    BY DEF Answered, Neutral
  <2>2. i > d /\ i \in Int
    BY <2>1
  <2> QED BY <2>1, <2>2 DEF Answered
<1>3. ASSUME NEW i \in 1 .. Len(alerts), IsRemoval(alerts[i], q)
      PROVE  i > d /\ i - d \in 1 .. Len(alerts') /\ alerts'[i - d] = alerts[i]
  <2>1. ~ Neutral(alerts[i], q)
    BY <1>3 DEF Neutral
  <2> QED BY <2>1
<1>4. ASSUME NEW i \in 1 .. Len(alerts'), IsRemoval(alerts'[i], q)
      PROVE  i + d \in 1 .. Len(alerts) /\ alerts'[i] = alerts[i + d]
  BY <1>4 DEF Neutral
<1>5. ASSUME NEW i \in Int, alerts[i] = ConnectionRemoved(q)
      PROVE  IsRemoval(alerts[i], q)
  BY <1>5, RemovedType
<1>6. Leaving(q) => Leaving(q)'
  BY <1>3, <1>5 DEF Leaving
<1>7. Answered(q)' = {} <=> Answered(q) = {}
  BY <1>1, <1>2
<1>8. ServedOrLeft(q)'
  <2> SUFFICES ASSUME NEW i \in Answered(q)', alerts'[i].ok, connection'[q] # "selling"
               PROVE  \E j \in 1 .. Len(alerts') :
                          i < j /\ alerts'[j] = ConnectionRemoved(q)
    BY DEF ServedOrLeft, ConnectionRemoved
  <2>1. PICK j \in 1 .. Len(alerts) : i + d < j /\ alerts[j] = ConnectionRemoved(q)
    BY <1>1 DEF Sound, ServedOrLeft
  <2>2. j - d \in 1 .. Len(alerts') /\ alerts'[j - d] = alerts[j]
    BY <1>3, <1>5, <2>1
  <2>3. i < j - d
    BY <1>1, <2>1
  <2> QED BY <2>1, <2>2, <2>3
<1>9. Entry(q)'
  BY <1>6, <1>7 DEF Sound, Entry, InFlight
<1>11. Vanished(q)'
  <2> SUFFICES ASSUME connection'[q] = "none"
               PROVE  /\ q \in buyers' => Leaving(q)'
                      /\ \A i \in 1 .. Len(alerts') : q \in alerts'[i].invited =>
                             \E j \in 1 .. Len(alerts') :
                                 i < j /\ alerts'[j] = ConnectionRemoved(q)
    BY DEF Vanished, ConnectionRemoved
  <2>1. connection[q] = "none"
    OBVIOUS
  <2>2. ASSUME NEW i \in 1 .. Len(alerts'), q \in alerts'[i].invited
        PROVE  \E j \in 1 .. Len(alerts') :
                   i < j /\ alerts'[j] = ConnectionRemoved(q)
    <3>1. i + d \in 1 .. Len(alerts) /\ alerts'[i] = alerts[i + d]
      BY <2>1, <2>2
    <3>2. PICK j \in 1 .. Len(alerts) : i + d < j /\ alerts[j] = ConnectionRemoved(q)
      BY <2>1, <2>2, <3>1 DEF Sound, Vanished
    <3>3. j - d \in 1 .. Len(alerts') /\ alerts'[j - d] = alerts[j]
      BY <1>3, <1>5, <3>2
    <3>4. i < j - d
      BY <3>2
    <3> QED BY <3>2, <3>3, <3>4
  <2> QED BY <1>6, <2>1, <2>2 DEF Sound, Vanished
<1>10. Once(q)'
  <2> SUFFICES ASSUME q \notin rejoined'
               PROVE  /\ \A i, j \in Requested(q)' : i = j
                      /\ \A i, j \in Answered(q)' : i = j
                      /\ Requested(q)' = {} \/ Answered(q)' = {}
                      /\ InFlight(q)' \/ connection'[q] = "selling" => q \in buyers'
                      /\ connection'[q] = "selling" =>
                             /\ Requested(q)' = {}
                             /\ \A i \in Answered(q)' : alerts'[i].ok
                             /\ \A i \in 1 .. Len(alerts') : IsRemoval(alerts'[i], q) =>
                                    \E j \in Answered(q)' : i < j
    BY DEF Once, IsRemoval
  <2>1. \A i, j \in Requested(q)' : i = j
    BY DEF Sound, Once
  <2>2. \A i, j \in Answered(q)' : i = j
    <3> SUFFICES ASSUME NEW i \in Answered(q)', NEW j \in Answered(q)'
                 PROVE  i = j
      OBVIOUS
    <3>1. i + d = j + d
      BY <1>1 DEF Sound, Once
    <3>2. i \in Int /\ j \in Int
      BY <1>1
    <3> QED BY <3>1, <3>2
  <2>3. Requested(q)' = {} \/ Answered(q)' = {}
    BY <1>7 DEF Sound, Once
  <2>4. InFlight(q)' \/ connection'[q] = "selling" => q \in buyers'
    BY <1>7 DEF Sound, Once, InFlight
  <2>5. ASSUME connection'[q] = "selling"
        PROVE  /\ Requested(q)' = {}
               /\ \A i \in Answered(q)' : alerts'[i].ok
    BY <1>1, <2>5 DEF Sound, Once
  <2>6. ASSUME connection'[q] = "selling",
               NEW i \in 1 .. Len(alerts'), IsRemoval(alerts'[i], q)
        PROVE  \E j \in Answered(q)' : i < j
    <3>1. PICK j \in Answered(q) : i + d < j
      BY <1>4, <2>6 DEF Sound, Once
    <3>2. i < j - d
      BY <1>2, <3>1
    <3> QED BY <1>2, <3>2
  <2> QED BY <2>1, <2>2, <2>3, <2>4, <2>5, <2>6
<1> QED BY <1>8, <1>9, <1>10, <1>11 DEF Sound

(* As when a neutral alert is posted, or taken, or the alerts stay.        *)
LEMMA NothingNewPosted ==
    ASSUME NEW q \in Buyer, Sound(q), alerts \in Seq(Alert), NEW a \in Alert,
           alerts' = Append(alerts, a), Neutral(a, q),
           q \in a.invited => connection[q] # "none",
           (connection[q])' = "none" => connection[q] = "none",
           Requested(q)' = {} <=> Requested(q) = {},
           (\A i, j \in Requested(q) : i = j) =>
               (\A i, j \in Requested(q)' : i = j),
           (connection[q])' = "selling" <=> connection[q] = "selling",
           q \in buyers' <=> q \in buyers,
           q \in rejoined' <=> q \in rejoined,
           q \in misled => q \in misled'
    PROVE  Sound(q)'
<1>1. /\ Len(alerts) \in Nat /\ Len(alerts') = Len(alerts) + 1
      /\ \A i \in 1 .. Len(alerts) : alerts'[i] = alerts[i]
      /\ alerts'[Len(alerts) + 1] = a
  BY AlertPosted
<1>2. \A i \in 1 .. Len(alerts) : ~ (i <= 0)
  BY <1>1
<1>3. \A i \in 1 .. Len(alerts) : i - 0 = i /\ i \in 1 .. Len(alerts')
  BY <1>1
<1>4. \A i \in 1 .. Len(alerts') : i + 0 = i /\ (i \in 1 .. Len(alerts) \/ i = Len(alerts) + 1)
  BY <1>1
<1>5. \A i \in 1 .. Len(alerts') :
          \/ i + 0 \in 1 .. Len(alerts) /\ alerts'[i] = alerts[i + 0]
          \/ /\ Neutral(alerts'[i], q)
             /\ q \in alerts'[i].invited => connection[q] # "none"
  BY <1>1, <1>4
<1>6. \A i \in 1 .. Len(alerts) : i > 0 =>
          i - 0 \in 1 .. Len(alerts') /\ alerts'[i - 0] = alerts[i]
  BY <1>1, <1>3
<1>7. Len(alerts') \in Nat
  BY <1>1
<1> QED BY <1>1, <1>2, <1>5, <1>6, <1>7, NothingNew

LEMMA NothingNewTaken ==
    ASSUME NEW q \in Buyer, Sound(q), alerts \in Seq(Alert), alerts # <<>>,
           alerts' = Tail(alerts), Neutral(Head(alerts), q),
           (connection[q])' = "none" => connection[q] = "none",
           Requested(q)' = {} <=> Requested(q) = {},
           (\A i, j \in Requested(q) : i = j) =>
               (\A i, j \in Requested(q)' : i = j),
           (connection[q])' = "selling" <=> connection[q] = "selling",
           q \in buyers' <=> q \in buyers,
           q \in rejoined' <=> q \in rejoined,
           q \in misled => q \in misled'
    PROVE  Sound(q)'
<1>1. /\ Len(alerts) \in Nat /\ Len(alerts) >= 1
      /\ Len(alerts') = Len(alerts) - 1
      /\ \A i \in 1 .. Len(alerts') : alerts'[i] = alerts[i + 1]
      /\ Head(alerts) = alerts[1]
  BY AlertTaken
<1>2. \A i \in 1 .. Len(alerts) : i <= 1 => Neutral(alerts[i], q)
  <2>1. \A i \in 1 .. Len(alerts) : i <= 1 => i = 1
    BY <1>1
  <2> QED BY <1>1, <2>1
<1>3. \A i \in 1 .. Len(alerts) : i > 1 =>
          i - 1 \in 1 .. Len(alerts') /\ (i - 1) + 1 = i
  BY <1>1
<1>4. \A i \in 1 .. Len(alerts') : i + 1 \in 1 .. Len(alerts)
  BY <1>1
<1>5. \A i \in 1 .. Len(alerts) : i > 1 =>
          i - 1 \in 1 .. Len(alerts') /\ alerts'[i - 1] = alerts[i]
  BY <1>1, <1>3
<1>6. \A i \in 1 .. Len(alerts') :
          i + 1 \in 1 .. Len(alerts) /\ alerts'[i] = alerts[i + 1]
  BY <1>1, <1>4
<1>7. Len(alerts') \in Nat
  BY <1>1
<1> QED BY <1>1, <1>2, <1>5, <1>6, <1>7, NothingNew

LEMMA NothingNewAtAll ==
    ASSUME NEW q \in Buyer, Sound(q), alerts \in Seq(Alert), alerts' = alerts,
           Requested(q)' = Requested(q),
           (connection[q])' = "none" => connection[q] = "none",
           (connection[q])' = "selling" <=> connection[q] = "selling",
           q \in buyers' <=> q \in buyers,
           q \in rejoined' <=> q \in rejoined,
           q \in misled => q \in misled'
    PROVE  Sound(q)'
<1>1. Len(alerts) \in Nat
  OBVIOUS
<1>2. \A i \in 1 .. Len(alerts) : ~ (i <= 0) /\ i - 0 = i /\ i + 0 = i
  BY <1>1
<1> QED BY <1>1, <1>2, NothingNew

(* The plugin takes a request.                                             *)
LEMMA RequestsLeft ==
    ASSUME requests \in Seq(RequestType), requests # <<>>, requests' = Tail(requests),
           NEW q
    PROVE  /\ 1 \in Requested(q) <=>
                  Head(requests).op = "startUploading" /\ Head(requests).buyer = q
           /\ 1 \notin Requested(q) =>
                  /\ Requested(q)' = {} <=> Requested(q) = {}
                  /\ (\A i, j \in Requested(q) : i = j) =>
                         (\A i, j \in Requested(q)' : i = j)
           /\ 1 \in Requested(q) /\ (\A i, j \in Requested(q) : i = j) =>
                  Requested(q)' = {}
<1>1. /\ Len(requests) \in Nat /\ Len(requests) >= 1
      /\ Len(requests') = Len(requests) - 1
      /\ \A i \in 1 .. Len(requests') : requests'[i] = requests[i + 1]
      /\ Head(requests) = requests[1]
  BY RequestTaken
<1>2. 1 \in Requested(q) <=>
          Head(requests).op = "startUploading" /\ Head(requests).buyer = q
  BY <1>1 DEF Requested
<1>3. ASSUME NEW i \in Requested(q)'
      PROVE  i \in 1 .. Len(requests') /\ i + 1 \in Requested(q)
  BY <1>1 DEF Requested
<1>4. ASSUME NEW i \in Requested(q), i # 1
      PROVE  i - 1 \in Requested(q)'
  <2>1. i \in 1 .. Len(requests) /\ i - 1 \in 1 .. Len(requests') /\ (i - 1) + 1 = i
    BY <1>1, <1>4 DEF Requested
  <2> QED BY <1>1, <2>1 DEF Requested
<1>5. ASSUME \A i, j \in Requested(q) : i = j, NEW i \in Requested(q)', NEW j \in Requested(q)'
      PROVE  i = j
  <2>1. i + 1 = j + 1 /\ i \in Int /\ j \in Int
    BY <1>3, <1>5
  <2> QED BY <2>1
<1>6. ASSUME \A i, j \in Requested(q) : i = j, 1 \in Requested(q), NEW i \in Requested(q)'
      PROVE  FALSE
  <2>1. i + 1 = 1 /\ i \in Int /\ i >= 1
    BY <1>3, <1>6
  <2> QED BY <2>1
<1> QED BY <1>2, <1>3, <1>4, <1>5, <1>6

(* The program takes an alert.                                             *)
LEMMA AnswersLeft ==
    ASSUME alerts \in Seq(Alert), alerts # <<>>, alerts' = Tail(alerts), NEW q
    PROVE  /\ 1 \in Answered(q) <=>
                  Head(alerts).type = "startUploading" /\ Head(alerts).buyer = q
           /\ \A i \in Answered(q)' :
                  i \in 1 .. Len(alerts') /\ i + 1 \in Answered(q)
           /\ 1 \in Answered(q) /\ (\A i, j \in Answered(q) : i = j) =>
                  Answered(q)' = {}
<1>1. /\ Len(alerts) \in Nat /\ Len(alerts) >= 1
      /\ Len(alerts') = Len(alerts) - 1
      /\ \A i \in 1 .. Len(alerts') : alerts'[i] = alerts[i + 1]
      /\ Head(alerts) = alerts[1]
  BY AlertTaken
<1>2. 1 \in Answered(q) <=>
          Head(alerts).type = "startUploading" /\ Head(alerts).buyer = q
  BY <1>1 DEF Answered
<1>3. ASSUME NEW i \in Answered(q)'
      PROVE  i \in 1 .. Len(alerts') /\ i + 1 \in Answered(q)
  BY <1>1 DEF Answered
<1>4. ASSUME \A i, j \in Answered(q) : i = j, 1 \in Answered(q), NEW i \in Answered(q)'
      PROVE  FALSE
  <2>1. i + 1 = 1 /\ i \in Int /\ i >= 1
    BY <1>3, <1>4
  <2> QED BY <2>1
<1> QED BY <1>2, <1>3, <1>4

(* What was told of a buyer that left, when the program takes an alert.    *)
LEMMA RemovalsLeft ==
    ASSUME alerts \in Seq(Alert), alerts # <<>>, alerts' = Tail(alerts),
           NEW q \in Buyer, Vanished(q), connection[q] = "none"
    PROVE  /\ Leaving(q) /\ Head(alerts) # ConnectionRemoved(q) => Leaving(q)'
           /\ q \in Head(alerts).invited => Leaving(q)'
           /\ \A i \in 1 .. Len(alerts') : q \in alerts'[i].invited =>
                  \E j \in 1 .. Len(alerts') : i < j /\ alerts'[j] = ConnectionRemoved(q)
<1>1. /\ Len(alerts) \in Nat /\ Len(alerts) >= 1
      /\ Len(alerts') = Len(alerts) - 1
      /\ \A i \in 1 .. Len(alerts') : alerts'[i] = alerts[i + 1]
      /\ Head(alerts) = alerts[1]
  BY AlertTaken
<1>2. ASSUME NEW j \in 1 .. Len(alerts), NEW i \in Int, i >= 0, i + 1 < j
      PROVE  j - 1 \in 1 .. Len(alerts') /\ i < j - 1 /\ alerts'[j - 1] = alerts[j]
  <2>1. j - 1 \in 1 .. Len(alerts') /\ i < j - 1 /\ (j - 1) + 1 = j
    BY <1>1, <1>2
  <2> QED BY <1>1, <2>1
<1>3. ASSUME NEW j \in 1 .. Len(alerts), 1 < j, alerts[j] = ConnectionRemoved(q)
      PROVE  Leaving(q)'
  <2>1. j - 1 \in 1 .. Len(alerts') /\ alerts'[j - 1] = alerts[j]
    BY <1>2, <1>3
  <2> QED BY <1>3, <2>1 DEF Leaving, ConnectionRemoved
<1>4. ASSUME Leaving(q), Head(alerts) # ConnectionRemoved(q)
      PROVE  Leaving(q)'
  <2>1. PICK j \in 1 .. Len(alerts) : alerts[j] = ConnectionRemoved(q)
    BY <1>4 DEF Leaving
  <2>2. 1 < j
    BY <1>1, <1>4, <2>1
  <2> QED BY <1>3, <2>1, <2>2
<1>5. ASSUME q \in Head(alerts).invited
      PROVE  Leaving(q)'
  <2>1. 1 \in 1 .. Len(alerts)
    BY <1>1
  <2>2. PICK j \in 1 .. Len(alerts) : 1 < j /\ alerts[j] = ConnectionRemoved(q)
    BY <1>1, <1>5, <2>1 DEF Vanished
  <2> QED BY <1>3, <2>2
<1>6. ASSUME NEW i \in 1 .. Len(alerts'), q \in alerts'[i].invited
      PROVE  \E j \in 1 .. Len(alerts') : i < j /\ alerts'[j] = ConnectionRemoved(q)
  <2>1. i + 1 \in 1 .. Len(alerts) /\ i >= 0
    BY <1>1
  <2>2. PICK j \in 1 .. Len(alerts) : i + 1 < j /\ alerts[j] = ConnectionRemoved(q)
    BY <1>1, <1>6, <2>1 DEF Vanished
  <2> QED BY <1>2, <2>1, <2>2
<1> QED BY <1>4, <1>5, <1>6

-----------------------------------------------------------------------------
(* The plugin's steps.                                                     *)

LEMMA ModeSound ==
    ASSUME TypeOK, NEW q \in Buyer, Sound(q),
           NEW op \in {"toSellMode", "startPlugin"}, NEW ok \in BOOLEAN,
           Processed(op, ok), UNCHANGED connection
    PROVE  Sound(q)'
<1>1. alerts \in Seq(Alert) /\ requests \in Seq(RequestType)
  BY DEF TypeOK
<1>2. Head(requests) \in RequestType /\ Head(requests).op = op
  BY <1>1, RequestTaken DEF Processed
<1>3. PICK a \in Alert : a = ResultOf(Head(requests), ok)
  BY <1>2, ResultType
<1>4. a.type = op /\ Neutral(a, q) /\ a.invited = {}
  BY <1>2, <1>3, ResultType, RemovedType DEF Neutral, IsRemoval
<1>5. 1 \notin Requested(q)
  BY <1>1, <1>2, RequestsLeft DEF Processed
<1>6. /\ Requested(q)' = {} <=> Requested(q) = {}
      /\ (\A i, j \in Requested(q) : i = j) => (\A i, j \in Requested(q)' : i = j)
  BY <1>1, <1>5, RequestsLeft DEF Processed
<1>7. alerts' = Append(alerts, a) /\ UNCHANGED <<buyers, rejoined, misled>>
  BY <1>3 DEF Processed
<1> QED BY <1>1, <1>4, <1>6, <1>7, NothingNewPosted

(* startUploading is answered: the upload started, or the invitation did   *)
(* not stand any more.                                                     *)
LEMMA UploadAnsweredSound ==
    ASSUME TypeOK, NEW q \in Buyer, Sound(q), StartUploading \/ StartUploadingFails
    PROVE  Sound(q)'
<1>1. /\ alerts \in Seq(Alert) /\ requests \in Seq(RequestType)
      /\ connection \in [Buyer -> ConnectionState]
  BY DEF TypeOK, ConnectionState
<1>2. PICK ok \in BOOLEAN : Processed("startUploading", ok) /\
          (IF ok THEN StartUploading ELSE StartUploadingFails)
  BY DEF StartUploading, StartUploadingFails
<1>3. /\ Head(requests) \in RequestType /\ Head(requests).op = "startUploading"
      /\ Head(requests).buyer \in Buyer
  BY <1>1, <1>2, RequestTaken, ResultType DEF Processed
<1>4. PICK p \in Buyer : p = Head(requests).buyer
  BY <1>3
<1>5. PICK a \in Alert : a = ResultOf(Head(requests), ok)
  BY <1>3, ResultType
<1>6. /\ a.type = "startUploading" /\ a.buyer = p /\ a.ok = ok /\ a.invited = {}
      /\ \A r : ~ IsRemoval(a, r)
      /\ \A r \in Buyer : a # ConnectionRemoved(r)
  BY <1>3, <1>4, <1>5, ResultType, RemovedType DEF IsRemoval
<1>7. /\ alerts' = Append(alerts, a)
      /\ requests # <<>> /\ requests' = Tail(requests)
      /\ UNCHANGED <<buyers, rejoined, misled>>
  BY <1>2, <1>5 DEF Processed
<1>8. IF ok THEN connection[p] = "invited" /\ connection' = [connection EXCEPT ![p] = "selling"]
            ELSE connection[p] # "invited" /\ connection' = connection
  BY <1>2, <1>4 DEF StartUploading, StartUploadingFails
<1>9. CASE q # p
  <2>1. Neutral(a, q)
    BY <1>6, <1>9 DEF Neutral
  <2>2. 1 \notin Requested(q)
    BY <1>1, <1>4, <1>7, <1>9, RequestsLeft
  <2>3. /\ Requested(q)' = {} <=> Requested(q) = {}
        /\ (\A i, j \in Requested(q) : i = j) => (\A i, j \in Requested(q)' : i = j)
    BY <1>1, <1>7, <2>2, RequestsLeft
  <2>4. connection'[q] = connection[q]
    BY <1>1, <1>8, <1>9
  <2> QED BY <1>1, <1>6, <1>7, <2>1, <2>3, <2>4, NothingNewPosted
<1>10. CASE q = p
  <2>1. /\ Len(alerts) \in Nat /\ Len(alerts') = Len(alerts) + 1
        /\ \A i \in 1 .. Len(alerts) : alerts'[i] = alerts[i]
        /\ alerts'[Len(alerts) + 1] = a
    BY <1>1, <1>7, AlertPosted
  <2>2. 1 \in Requested(q)
    BY <1>1, <1>3, <1>4, <1>7, <1>10, RequestsLeft
  <2>3. \A i \in 1 .. Len(alerts') : i \in 1 .. Len(alerts) \/ i = Len(alerts) + 1
    BY <2>1
  <2>4. Answered(q)' = Answered(q) \union {Len(alerts) + 1}
    <3>1. \A i \in 1 .. Len(alerts) : i \in 1 .. Len(alerts')
      BY <2>1
    <3>2. Len(alerts) + 1 \in 1 .. Len(alerts')
      BY <2>1
    <3> QED BY <1>6, <1>10, <2>1, <2>3, <3>1, <3>2 DEF Answered
  <2>5. /\ ok => connection[q] # "selling" /\ connection'[q] = "selling"
        /\ ~ ok => connection'[q] = connection[q]
    BY <1>1, <1>8, <1>10
  <2>6. ServedOrLeft(q)'
    <3> SUFFICES ASSUME NEW i \in Answered(q)', alerts'[i].ok, connection'[q] # "selling"
                 PROVE  \E j \in 1 .. Len(alerts') :
                            i < j /\ alerts'[j] = ConnectionRemoved(q)
      BY DEF ServedOrLeft, ConnectionRemoved
    <3>1. i \in Answered(q) /\ ~ ok
      BY <1>6, <2>1, <2>4, <2>5
    <3>2. alerts[i].ok /\ connection[q] # "selling"
      BY <2>1, <2>5, <3>1 DEF Answered
    <3>3. PICK j \in 1 .. Len(alerts) : i < j /\ alerts[j] = ConnectionRemoved(q)
      BY <3>1, <3>2 DEF Sound, ServedOrLeft
    <3> QED BY <2>1, <3>3
  <2>7. Entry(q)'
    BY <2>4 DEF Entry, InFlight
  <2>9. Vanished(q)'
    <3> SUFFICES ASSUME connection'[q] = "none"
                 PROVE  /\ q \in buyers' => Leaving(q)'
                        /\ \A i \in 1 .. Len(alerts') : q \in alerts'[i].invited =>
                               \E j \in 1 .. Len(alerts') :
                                   i < j /\ alerts'[j] = ConnectionRemoved(q)
      BY DEF Vanished, ConnectionRemoved
    <3>1. connection[q] = "none"
      BY <2>5
    <3>2. \A i \in 1 .. Len(alerts) : i \in 1 .. Len(alerts')
      BY <2>1
    <3>3. Leaving(q) => Leaving(q)'
      BY <2>1, <3>2 DEF Leaving, ConnectionRemoved
    <3>4. \A i \in 1 .. Len(alerts') : q \in alerts'[i].invited => i \in 1 .. Len(alerts)
      BY <1>6, <2>1, <2>3
    <3> QED BY <1>7, <2>1, <3>1, <3>2, <3>3, <3>4 DEF Sound, Vanished
  <2>8. Once(q)'
    <3> SUFFICES ASSUME q \notin rejoined'
                 PROVE  /\ \A i, j \in Requested(q)' : i = j
                        /\ \A i, j \in Answered(q)' : i = j
                        /\ Requested(q)' = {} \/ Answered(q)' = {}
                        /\ InFlight(q)' \/ connection'[q] = "selling" => q \in buyers'
                        /\ connection'[q] = "selling" =>
                               /\ Requested(q)' = {}
                               /\ \A i \in Answered(q)' : alerts'[i].ok
                               /\ \A i \in 1 .. Len(alerts') : IsRemoval(alerts'[i], q) =>
                                      \E j \in Answered(q)' : i < j
      BY DEF Once, IsRemoval
    <3>1. /\ \A i, j \in Requested(q) : i = j
          /\ Answered(q) = {} /\ connection[q] # "selling" /\ q \in buyers
      BY <1>7, <2>2 DEF Sound, Once, InFlight
    <3>2. Requested(q)' = {}
      BY <1>1, <1>7, <2>2, <3>1, RequestsLeft
    <3>3. Answered(q)' = {Len(alerts) + 1}
      BY <2>4, <3>1
    <3>4. \A i, j \in Answered(q)' : i = j
      BY <3>3
    <3>5. connection'[q] = "selling" => ok
      BY <2>5, <3>1
    <3>6. connection'[q] = "selling" => \A i \in Answered(q)' : alerts'[i].ok
      BY <1>6, <2>1, <3>3, <3>5
    <3>7. \A i \in 1 .. Len(alerts') : IsRemoval(alerts'[i], q) =>
              \E j \in Answered(q)' : i < j
      <4> SUFFICES ASSUME NEW i \in 1 .. Len(alerts'), IsRemoval(alerts'[i], q)
                   PROVE  i < Len(alerts) + 1
        BY <3>3
      <4>1. i # Len(alerts) + 1
        BY <1>6, <2>1
      <4> QED BY <2>1, <4>1
    <3> QED BY <1>7, <3>1, <3>2, <3>4, <3>6, <3>7
  <2> QED BY <2>6, <2>7, <2>8, <2>9 DEF Sound
<1> QED BY <1>9, <1>10

LEMMA StatusSound ==
    ASSUME TypeOK, NEW q \in Buyer, Sound(q), PostStatus
    PROVE  Sound(q)'
<1>1. alerts \in Seq(Alert)
  BY DEF TypeOK
<1>2. PICK a \in Alert : a = Status
  BY StatusType
<1>3. Neutral(a, q)
  BY <1>2, StatusType, RemovedType DEF Neutral, IsRemoval
<1>4. /\ alerts' = Append(alerts, a) /\ Requested(q)' = Requested(q)
      /\ UNCHANGED <<connection, buyers, rejoined, misled>>
  BY <1>2 DEF PostStatus, networkVars, Requested
<1>5. q \in a.invited => connection[q] # "none"
  BY <1>2, StatusType
<1> QED BY <1>1, <1>3, <1>4, <1>5, NothingNewPosted

LEMMA MoveSound ==
    ASSUME TypeOK, NEW q \in Buyer, Sound(q),
           NEW p \in Buyer, NEW s \in {"other", "invited"}, BuyerMoves(p, s)
    PROVE  Sound(q)'
<1>1. alerts \in Seq(Alert) /\ connection \in [Buyer -> ConnectionState]
  BY DEF TypeOK, ConnectionState
<1>2. /\ (connection[q])' = "selling" <=> connection[q] = "selling"
      /\ (connection[q])' = "none" => connection[q] = "none"
  <2>1. connection[p] # "selling" /\ connection' = [connection EXCEPT ![p] = s]
    BY DEF BuyerMoves
  <2>2. connection'[q] = IF q = p THEN s ELSE connection[q]
    BY <1>1, <2>1
  <2> QED BY <2>1, <2>2
<1>3. /\ alerts' = alerts /\ Requested(q)' = Requested(q)
      /\ UNCHANGED <<buyers, rejoined, misled>>
  BY DEF BuyerMoves, Requested
<1> QED BY <1>1, <1>2, <1>3, NothingNewAtAll

(* A buyer leaves; the news of it is behind all that was told of it.       *)
LEMMA LeaveSound ==
    ASSUME TypeOK, NEW q \in Buyer, Sound(q), NEW p \in Buyer, BuyerLeaves(p)
    PROVE  Sound(q)'
<1>1. alerts \in Seq(Alert) /\ connection \in [Buyer -> ConnectionState]
  BY DEF TypeOK, ConnectionState
<1>2. PICK a \in Alert : a = ConnectionRemoved(p)
  BY RemovedType
<1>3. /\ a.type = "connectionRemoved" /\ a.invited = {}
      /\ \A r : IsRemoval(a, r) => r = p
  BY <1>2, RemovedType DEF IsRemoval
<1>4. /\ alerts' = Append(alerts, a) /\ connection' = [connection EXCEPT ![p] = "none"]
      /\ Requested(q)' = Requested(q) /\ UNCHANGED <<buyers, rejoined, misled>>
  BY <1>2 DEF BuyerLeaves, Requested
<1>5. CASE q # p
  <2>1. Neutral(a, q)
    BY <1>3, <1>5, RemovedType DEF Neutral
  <2>2. connection'[q] = connection[q]
    BY <1>1, <1>4, <1>5
  <2> QED BY <1>1, <1>3, <1>4, <2>1, <2>2, NothingNewPosted
<1>6. CASE q = p
  <2>1. /\ Len(alerts) \in Nat /\ Len(alerts') = Len(alerts) + 1
        /\ \A i \in 1 .. Len(alerts) : alerts'[i] = alerts[i]
        /\ alerts'[Len(alerts) + 1] = a
    BY <1>1, <1>4, AlertPosted
  <2>2. connection'[q] # "selling"
    BY <1>1, <1>4, <1>6
  <2>3. Answered(q)' = Answered(q)
    <3>1. \A i \in 1 .. Len(alerts) : i \in 1 .. Len(alerts')
      BY <2>1
    <3>2. \A i \in 1 .. Len(alerts') : i \in 1 .. Len(alerts) \/ i = Len(alerts) + 1
      BY <2>1
    <3> QED BY <1>3, <2>1, <3>1, <3>2 DEF Answered
  <2>4. \A i \in Answered(q)' : i < Len(alerts) + 1 /\ Len(alerts) + 1 \in 1 .. Len(alerts')
    BY <2>1, <2>3 DEF Answered
  <2>5. alerts'[Len(alerts) + 1] = ConnectionRemoved(q)
    BY <1>2, <1>6, <2>1
  <2>6. ServedOrLeft(q)'
    <3> SUFFICES ASSUME NEW i \in Answered(q)'
                 PROVE  \E j \in 1 .. Len(alerts') :
                            i < j /\ alerts'[j] = ConnectionRemoved(q)
      BY DEF ServedOrLeft, ConnectionRemoved
    <3> QED BY <2>4, <2>5
  <2>7. Leaving(q)'
    <3>1. Len(alerts) + 1 \in 1 .. Len(alerts')
      BY <2>1
    <3> QED BY <2>5, <3>1 DEF Leaving, ConnectionRemoved
  <2>8. InFlight(q)' <=> InFlight(q)
    BY <1>4, <2>3 DEF InFlight
  <2>9. Once(q)'
    BY <1>4, <2>2, <2>3, <2>8 DEF Sound, Once
  <2>10. Vanished(q)'
    <3>1. \A i \in 1 .. Len(alerts') : q \in alerts'[i].invited =>
              i < Len(alerts) + 1 /\ Len(alerts) + 1 \in 1 .. Len(alerts')
      <4> SUFFICES ASSUME NEW i \in 1 .. Len(alerts'), q \in alerts'[i].invited
                   PROVE  i < Len(alerts) + 1 /\ Len(alerts) + 1 \in 1 .. Len(alerts')
        OBVIOUS
      <4>1. i # Len(alerts) + 1
        BY <1>3, <2>1
      <4> QED BY <2>1, <4>1
    <3> QED BY <2>5, <2>7, <3>1 DEF Vanished, ConnectionRemoved
  <2> QED BY <2>6, <2>7, <2>9, <2>10 DEF Sound, Entry
<1> QED BY <1>5, <1>6

-----------------------------------------------------------------------------
(* The program's handlers.                                                 *)

LEMMA ModeHandledSound ==
    ASSUME TypeOK, NEW q \in Buyer, Sound(q), OnSellMode \/ OnPluginStarted
    PROVE  Sound(q)'
<1>1. alerts \in Seq(Alert) /\ requests \in Seq(RequestType)
  BY DEF TypeOK
<1>2. /\ alerts # <<>> /\ alerts' = Tail(alerts)
      /\ Head(alerts).type \in {"toSellMode", "startPlugin"}
      /\ UNCHANGED <<connection, buyers, rejoined, misled>>
  BY DEF OnSellMode, OnPluginStarted, Handling, networkVars
<1>3. Neutral(Head(alerts), q)
  BY <1>2, RemovedType DEF Neutral, IsRemoval
<1>4. requests' = requests \/ requests' = Append(requests, Request("startPlugin", NoBuyer))
  BY DEF OnSellMode, OnPluginStarted
<1>5. Requested(q)' = Requested(q)
  <2>1. CASE requests' = requests
    BY <2>1 DEF Requested
  <2>2. CASE requests' = Append(requests, Request("startPlugin", NoBuyer))
    <3>1. Request("startPlugin", NoBuyer) \in RequestType
      BY DEF Request, RequestType
    <3>2. /\ Len(requests) \in Nat /\ Len(requests') = Len(requests) + 1
          /\ \A i \in 1 .. Len(requests) : requests'[i] = requests[i]
          /\ requests'[Len(requests) + 1] = Request("startPlugin", NoBuyer)
      BY <1>1, <2>2, <3>1, AppendProperties
    <3>3. requests'[Len(requests) + 1].op # "startUploading"
      BY <3>2 DEF Request
    <3>4. \A i : i \in 1 .. Len(requests') <=>
                     i \in 1 .. Len(requests) \/ i = Len(requests) + 1
      BY <3>2
    <3> QED BY <3>2, <3>3, <3>4 DEF Requested
  <2> QED BY <1>4, <2>1, <2>2
<1> QED BY <1>1, <1>2, <1>3, <1>5, NothingNewTaken

(* The buyers asked for are those that were not in the map.                *)
LEMMA StatusHandledSound ==
    ASSUME TypeOK, NEW q \in Buyer, Sound(q), OnPeerStatuses
    PROVE  Sound(q)'
<1> DEFINE selected == Head(alerts).invited \intersect (Suitable \ buyers)
<1>1. alerts \in Seq(Alert) /\ requests \in Seq(RequestType)
  BY DEF TypeOK
<1>2. /\ alerts # <<>> /\ alerts' = Tail(alerts) /\ Head(alerts).type = "status"
      /\ UNCHANGED <<connection, rejoined, misled>>
      /\ AskForAll(selected)
  BY DEF OnPeerStatuses, Handling, networkVars
<1>3. selected \in SUBSET Buyer /\ (q \in selected => q \notin buyers)
  BY BuyersAssumption
<1> HIDE DEF selected
<1>4. /\ Len(requests) \in Nat /\ Len(requests') \in Nat
      /\ Len(requests') >= Len(requests)
      /\ \A i \in 1 .. Len(requests) : requests'[i] = requests[i]
      /\ \A i \in Len(requests) + 1 .. Len(requests') :
            /\ requests'[i].buyer \in selected
            /\ \A j \in Len(requests) + 1 .. Len(requests') :
                  requests'[i].buyer = requests'[j].buyer => i = j
      /\ \A p \in selected : \E i \in Len(requests) + 1 .. Len(requests') :
            requests'[i].op = "startUploading" /\ requests'[i].buyer = p
      /\ buyers' = buyers \union selected
  BY <1>1, <1>2, <1>3, BuyersAsked
<1>5. \A i : i \in 1 .. Len(requests') <=>
                 i \in 1 .. Len(requests) \/ i \in Len(requests) + 1 .. Len(requests')
  BY <1>4
<1>6. Neutral(Head(alerts), q)
  BY <1>2, RemovedType DEF Neutral, IsRemoval
<1>7. CASE q \notin selected
  <2>1. Requested(q)' = Requested(q)
    BY <1>4, <1>5, <1>7 DEF Requested
  <2>2. q \in buyers' <=> q \in buyers
    BY <1>4, <1>7
  <2> QED BY <1>1, <1>2, <1>6, <2>1, <2>2, NothingNewTaken
<1>8. CASE q \in selected
  <2>1. Requested(q)' # {}
    BY <1>4, <1>5, <1>8 DEF Requested
  <2>2. ServedOrLeft(q)'
    <3>1. /\ Len(alerts) \in Nat /\ Len(alerts') = Len(alerts) - 1
          /\ \A i \in 1 .. Len(alerts') : alerts'[i] = alerts[i + 1]
      BY <1>1, <1>2, AlertTaken
    <3> SUFFICES ASSUME NEW i \in Answered(q)', alerts'[i].ok, connection'[q] # "selling"
                 PROVE  \E j \in 1 .. Len(alerts') :
                            i < j /\ alerts'[j] = ConnectionRemoved(q)
      BY DEF ServedOrLeft, ConnectionRemoved
    <3>2. i \in 1 .. Len(alerts') /\ i + 1 \in Answered(q)
      BY <1>1, <1>2, AnswersLeft
    <3>3. PICK j \in 1 .. Len(alerts) : i + 1 < j /\ alerts[j] = ConnectionRemoved(q)
      BY <1>2, <3>1, <3>2 DEF Sound, ServedOrLeft
    <3>4. j - 1 \in 1 .. Len(alerts') /\ i < j - 1 /\ (j - 1) + 1 = j
      BY <3>1, <3>2, <3>3
    <3> QED BY <3>1, <3>3, <3>4
  <2>3. Once(q)'
    <3> SUFFICES ASSUME q \notin rejoined' PROVE Once(q)'
      BY DEF Once
    <3>1. Requested(q) = {} /\ Answered(q) = {} /\ connection[q] # "selling"
      BY <1>2, <1>3, <1>8 DEF Sound, Once, InFlight
    <3>2. Answered(q)' = {} /\ connection'[q] # "selling"
      BY <1>1, <1>2, <3>1, AnswersLeft
    <3>3. \A i \in Requested(q)' : i \in Len(requests) + 1 .. Len(requests')
      BY <1>4, <1>5, <3>1 DEF Requested
    <3>4. ASSUME NEW i \in Requested(q)', NEW j \in Requested(q)' PROVE i = j
      <4>1. requests'[i].buyer = q /\ requests'[j].buyer = q
        BY DEF Requested
      <4> QED BY <1>4, <3>3, <4>1
    <3>5. q \in buyers'
      BY <1>4, <1>8
    <3> QED BY <3>2, <3>4, <3>5 DEF Once
  <2>4. Vanished(q)'
    <3> SUFFICES ASSUME connection'[q] = "none" PROVE Vanished(q)'
      BY DEF Vanished
    <3>1. connection[q] = "none" /\ q \in Head(alerts).invited
      BY <1>2, <1>8 DEF selected
    <3> QED BY <1>1, <1>2, <3>1, RemovalsLeft DEF Sound, Vanished, ConnectionRemoved
  <2> QED BY <2>1, <2>2, <2>3, <2>4 DEF Sound, Entry, InFlight
<1> QED BY <1>7, <1>8

(* An answer to startUploading.                                            *)
LEMMA ResultHandledSound ==
    ASSUME TypeOK, NEW q \in Buyer, Sound(q), OnUploadResult
    PROVE  Sound(q)'
<1>1. alerts \in Seq(Alert)
  BY DEF TypeOK
<1>2. /\ alerts # <<>> /\ alerts' = Tail(alerts)
      /\ Head(alerts).type = "startUploading"
      /\ UNCHANGED <<connection, rejoined>> /\ Requested(q)' = Requested(q)
  BY DEF OnUploadResult, Handling, networkVars, Requested
<1> DEFINE p == Head(alerts).buyer
<1>6. \/ buyers' = buyers \ {p} /\ misled' = misled \ {p} /\ ~ Head(alerts).ok
      \/ buyers' = buyers /\ misled' = misled /\ Head(alerts).ok
      \/ /\ buyers' = buyers /\ misled' = misled \union (buyers \intersect {p})
         /\ ~ Head(alerts).ok
  <2>1. PICK err \in SeesError(Head(alerts)) :
            /\ buyers' = IF err THEN buyers \ {p} ELSE buyers
            /\ misled' = CASE err -> misled \ {p}
                           [] ~err /\ Head(alerts).ok -> misled
                           [] OTHER -> misled \union (buyers \intersect {p})
    BY DEF OnUploadResult
  <2>2. err \in BOOLEAN /\ (Head(alerts).ok => ~ err)
    BY DEF SeesError
  <2>3. CASE err
    BY <2>1, <2>2, <2>3
  <2>4. CASE ~err
    BY <2>1, <2>2, <2>4
  <2> QED BY <2>3, <2>4
<1>7. Head(alerts) # ConnectionRemoved(q)
  BY <1>2, RemovedType DEF IsRemoval
<1> HIDE DEF p
<1>3. /\ Len(alerts) \in Nat /\ Len(alerts') = Len(alerts) - 1 /\ Len(alerts) >= 1
      /\ \A i \in 1 .. Len(alerts') : alerts'[i] = alerts[i + 1]
      /\ Head(alerts) = alerts[1]
  BY <1>1, <1>2, AlertTaken
<1>4. CASE Head(alerts).buyer # q
  <2>1. Neutral(Head(alerts), q)
    BY <1>2, <1>4, RemovedType DEF Neutral, IsRemoval
  <2>2. (q \in buyers' <=> q \in buyers) /\ (q \in misled => q \in misled')
    BY <1>4, <1>6 DEF p
  <2> QED BY <1>1, <1>2, <2>1, <2>2, NothingNewTaken
<1>5. CASE Head(alerts).buyer = q
  <2>1. 1 \in Answered(q)
    BY <1>1, <1>2, <1>5, AnswersLeft
  <2>2. \A i \in Answered(q)' : i \in 1 .. Len(alerts') /\ i + 1 \in Answered(q)
    BY <1>1, <1>2, AnswersLeft
  <2>3. ASSUME NEW j \in 1 .. Len(alerts), NEW i \in Int, i >= 0, i + 1 < j
        PROVE  j - 1 \in 1 .. Len(alerts') /\ i < j - 1 /\ alerts'[j - 1] = alerts[j]
    <3>1. j - 1 \in 1 .. Len(alerts') /\ i < j - 1 /\ (j - 1) + 1 = j
      BY <1>3, <2>3
    <3> QED BY <1>3, <3>1
  <2>4. ServedOrLeft(q)'
    <3> SUFFICES ASSUME NEW i \in Answered(q)', alerts'[i].ok, connection'[q] # "selling"
                 PROVE  \E j \in 1 .. Len(alerts') :
                            i < j /\ alerts'[j] = ConnectionRemoved(q)
      BY DEF ServedOrLeft, ConnectionRemoved
    <3>1. PICK j \in 1 .. Len(alerts) : i + 1 < j /\ alerts[j] = ConnectionRemoved(q)
      BY <1>2, <1>3, <2>2 DEF Sound, ServedOrLeft
    <3>2. i \in Int /\ i >= 0
      BY <1>3, <2>2
    <3> QED BY <2>3, <3>1, <3>2
  <2>7. Vanished(q)'
    <3> SUFFICES ASSUME connection'[q] = "none" PROVE Vanished(q)'
      BY DEF Vanished
    <3>1. connection[q] = "none" /\ (q \in buyers' => q \in buyers)
      BY <1>2, <1>6
    <3> QED BY <1>1, <1>2, <1>7, <3>1, RemovalsLeft DEF Sound, Vanished, ConnectionRemoved
  <2>5. Entry(q)'
    <3> SUFFICES ASSUME q \in buyers', connection'[q] # "selling"
                 PROVE  Leaving(q)' \/ (q \in misled' /\ connection'[q] # "none")
      BY DEF Entry
    <3>1. CASE Head(alerts).ok
      <4>1. PICK j \in 1 .. Len(alerts) : 1 < j /\ alerts[j] = ConnectionRemoved(q)
        BY <1>2, <1>3, <2>1, <3>1 DEF Sound, ServedOrLeft
      <4>2. j - 1 \in 1 .. Len(alerts') /\ alerts'[j - 1] = alerts[j]
        BY <2>3, <4>1
      <4> QED BY <4>1, <4>2 DEF Leaving, ConnectionRemoved
    <3>2. CASE ~ Head(alerts).ok
      <4>1. q \in misled'
        BY <1>5, <1>6, <3>2 DEF p
      <4>2. CASE connection'[q] # "none"
        BY <4>1, <4>2
      <4>3. CASE connection'[q] = "none"
        BY <2>7, <4>3 DEF Vanished, Leaving, ConnectionRemoved
      <4> QED BY <4>2, <4>3
    <3> QED BY <3>1, <3>2
  <2>6. Once(q)'
    <3> SUFFICES ASSUME q \notin rejoined' PROVE Once(q)'
      BY DEF Once
    <3>1. /\ \A i, j \in Answered(q) : i = j
          /\ Requested(q)' = {}
      BY <1>2, <2>1 DEF Sound, Once
    <3>2. Answered(q)' = {}
      BY <1>1, <1>2, <2>1, <3>1, AnswersLeft
    <3>3. ASSUME connection'[q] = "selling"
          PROVE  q \in buyers'
      <4>1. Head(alerts).ok /\ q \in buyers
        BY <1>2, <1>3, <2>1, <3>3 DEF Sound, Once
      <4> QED BY <1>6, <4>1
    <3>4. ASSUME connection'[q] = "selling", NEW i \in 1 .. Len(alerts'),
                 IsRemoval(alerts'[i], q)
          PROVE  FALSE
      <4>1. i + 1 \in 1 .. Len(alerts) /\ IsRemoval(alerts[i + 1], q) /\ i >= 1
        BY <1>3, <3>4
      <4>2. PICK j \in Answered(q) : i + 1 < j
        BY <1>2, <3>4, <4>1 DEF Sound, Once
      <4>3. j = 1
        BY <2>1, <3>1, <4>2
      <4> QED BY <1>3, <4>1, <4>2, <4>3
    <3> QED BY <3>1, <3>2, <3>3, <3>4 DEF Once, InFlight, IsRemoval
  <2> QED BY <2>4, <2>5, <2>6, <2>7 DEF Sound
<1> QED BY <1>4, <1>5

(* A buyer has left: it is taken out, and it is remembered when it had     *)
(* been asked for.                                                         *)
LEMMA RemovalHandledSound ==
    ASSUME TypeOK, NEW q \in Buyer, Sound(q), OnConnectionRemoved
    PROVE  Sound(q)'
<1>1. alerts \in Seq(Alert)
  BY DEF TypeOK
<1>2. /\ alerts # <<>> /\ alerts' = Tail(alerts)
      /\ Head(alerts).type = "connectionRemoved"
      /\ buyers' = buyers \ {Head(alerts).buyer}
      /\ misled' = misled \ {Head(alerts).buyer}
      /\ rejoined' = IF InFlight(Head(alerts).buyer)
                     THEN rejoined \union {Head(alerts).buyer} ELSE rejoined
      /\ UNCHANGED connection /\ Requested(q)' = Requested(q)
  BY DEF OnConnectionRemoved, Handling, networkVars, Requested
<1>3. /\ Len(alerts) \in Nat /\ Len(alerts') = Len(alerts) - 1 /\ Len(alerts) >= 1
      /\ \A i \in 1 .. Len(alerts') : alerts'[i] = alerts[i + 1]
      /\ Head(alerts) = alerts[1]
  BY <1>1, <1>2, AlertTaken
<1>4. CASE Head(alerts).buyer # q
  <2>1. Neutral(Head(alerts), q)
    BY <1>2, <1>4, RemovedType DEF Neutral, IsRemoval
  <2>2. /\ (q \in buyers' <=> q \in buyers) /\ (q \in rejoined' <=> q \in rejoined)
        /\ q \in misled => q \in misled'
    BY <1>2, <1>4
  <2> QED BY <1>1, <1>2, <2>1, <2>2, NothingNewTaken
<1>5. CASE Head(alerts).buyer = q
  <2>1. \A i \in Answered(q)' : i \in 1 .. Len(alerts') /\ i + 1 \in Answered(q)
    BY <1>1, <1>2, AnswersLeft
  <2>2. ServedOrLeft(q)'
    <3> SUFFICES ASSUME NEW i \in Answered(q)', alerts'[i].ok, connection'[q] # "selling"
                 PROVE  \E j \in 1 .. Len(alerts') :
                            i < j /\ alerts'[j] = ConnectionRemoved(q)
      BY DEF ServedOrLeft, ConnectionRemoved
    <3>1. PICK j \in 1 .. Len(alerts) : i + 1 < j /\ alerts[j] = ConnectionRemoved(q)
      BY <1>2, <1>3, <2>1 DEF Sound, ServedOrLeft
    <3>2. j - 1 \in 1 .. Len(alerts') /\ i < j - 1 /\ (j - 1) + 1 = j
      BY <1>3, <2>1, <3>1
    <3> QED BY <1>3, <3>1, <3>2
  <2>3. Entry(q)'
    BY <1>2, <1>5 DEF Entry
  <2>4. Once(q)'
    <3> SUFFICES ASSUME q \notin rejoined' PROVE Once(q)'
      BY DEF Once
    <3>1. ~ InFlight(q) /\ q \notin rejoined
      BY <1>2, <1>5
    <3>2. Requested(q)' = {} /\ Answered(q)' = {}
      BY <1>2, <2>1, <3>1 DEF InFlight
    <3>3. connection'[q] # "selling"
      <4>1. 1 \in 1 .. Len(alerts) /\ IsRemoval(alerts[1], q)
        BY <1>2, <1>3, <1>5 DEF IsRemoval
      <4> QED BY <1>2, <3>1, <4>1 DEF Sound, Once, InFlight
    <3> QED BY <3>2, <3>3 DEF Once, InFlight
  <2>5. Vanished(q)'
    <3> SUFFICES ASSUME connection'[q] = "none" PROVE Vanished(q)'
      BY DEF Vanished
    <3>1. connection[q] = "none" /\ q \notin buyers'
      BY <1>2, <1>5
    <3> QED BY <1>1, <1>2, <3>1, RemovalsLeft DEF Sound, Vanished, ConnectionRemoved
  <2> QED BY <2>2, <2>3, <2>4, <2>5 DEF Sound
<1> QED BY <1>4, <1>5

-----------------------------------------------------------------------------
(* The theorems.                                                           *)

LEMMA InitInv == Init => IInv
<1> SUFFICES ASSUME Init PROVE IInv
  OBVIOUS
<1>1. alerts = <<>> /\ buyers = {} /\ \A i \in 1 .. Len(alerts) : FALSE
  BY DEF Init
<1>2. ASSUME NEW q \in Buyer PROVE Sound(q)
  <2>1. Answered(q) = {}
    BY <1>1 DEF Answered
  <2>2. Requested(q) = {}
    BY DEF Init, Request, Requested
  <2>3. connection[q] # "selling"
    BY DEF Init
  <2> QED BY <1>1, <2>1, <2>2, <2>3
          DEF Sound, ServedOrLeft, Entry, Vanished, Once, InFlight
<1> QED BY <1>2, InitType DEF IInv

LEMMA NextInv == IInv /\ [Next]_vars => IInv'
<1> SUFFICES ASSUME TypeOK, \A p \in Buyer : Sound(p), [Next]_vars
             PROVE  TypeOK' /\ \A q \in Buyer : Sound(q)'
  BY BuyersAssumption DEF IInv, Buyer
<1>1. TypeOK'
  BY NextType
<1>2. ASSUME NEW q \in Buyer PROVE Sound(q)'
  <2>1. Sound(q)
    OBVIOUS
  <2>2. CASE ToSellMode \/ StartPlugin \/ ModeFails
    <3>1. PICK op \in {"toSellMode", "startPlugin"}, ok \in BOOLEAN : Processed(op, ok)
      BY <2>2 DEF ToSellMode, StartPlugin, ModeFails
    <3>2. UNCHANGED connection
      BY <2>2 DEF ToSellMode, StartPlugin, ModeFails
    <3> QED BY <2>1, <3>1, <3>2, ModeSound
  <2>3. CASE StartUploading \/ StartUploadingFails
    BY <2>1, <2>3, UploadAnsweredSound
  <2>4. CASE PostStatus
    BY <2>1, <2>4, StatusSound
  <2>5. CASE Peers
    <3>1. PICK p \in Buyer :
              BuyerLeaves(p) \/ \E s \in {"other", "invited"} : BuyerMoves(p, s)
      BY <2>5 DEF Peers
    <3> QED BY <2>1, <3>1, LeaveSound, MoveSound
  <2>6. CASE OnSellMode \/ OnPluginStarted
    BY <2>1, <2>6, ModeHandledSound
  <2>7. CASE OnPeerStatuses
    BY <2>1, <2>7, StatusHandledSound
  <2>8. CASE OnUploadResult
    BY <2>1, <2>8, ResultHandledSound
  <2>9. CASE OnConnectionRemoved
    BY <2>1, <2>9, RemovalHandledSound
  <2>10. CASE UNCHANGED vars
    <3>1. alerts \in Seq(Alert) /\ Requested(q)' = Requested(q)
      BY <2>10 DEF TypeOK, vars, Requested
    <3> QED BY <2>1, <2>10, <3>1, NothingNewAtAll DEF vars
  <2> QED BY <2>2, <2>3, <2>4, <2>5, <2>6, <2>7, <2>8, <2>9, <2>10
          DEF Next, ProcessRequest, HandleAlert
<1> QED BY <1>1, <1>2

(* The map, the queues and the connections hold what the program puts      *)
(* there.                                                                  *)
THEOREM SellerTypeCorrect == Spec => []TypeOK
BY InitType, NextType, PTL DEF Spec

(* The invariant: what is asked for, answered and told of each buyer       *)
(* agrees with the map.                                                    *)
THEOREM SellerInvariant == Spec => []IInv
BY InitInv, NextInv, PTL DEF Spec

(* No buyer stays in the map of letsSell for good: it is served, or an     *)
(* answer or the news of its leaving is on its way.                        *)
THEOREM NoBuyerStale == Spec => []NoStaleBuyer
<1>1. IInv => NoStaleBuyer
  BY BuyersAssumption DEF IInv, TypeOK, Sound, Entry, NoStaleBuyer
<1> QED BY <1>1, SellerInvariant, PTL

(* A buyer is asked for once at a time, and not while it is served, but    *)
(* for one that left when it had been asked for.                           *)
THEOREM BuyersAskedOnce == Spec => []AskedOnce
<1>1. IInv => AskedOnce
  BY DEF IInv, Sound, Once, AskedOnce
<1> QED BY <1>1, SellerInvariant, PTL

=============================================================================
