--------------------------- MODULE PeerConnection ---------------------------
(***************************************************************************)
(* One peer as a program follows it: connections come and go, payments go  *)
(* both ways, and every second a status of the peer is posted.  Alerts may *)
(* be dropped when libtorrent's queue is full, and exceptions of listeners *)
(* lose the batch.  The program keeps an account of the payments.          *)
(***************************************************************************)
EXTENDS Integers, Sequences, ConnectionStatus

CONSTANTS
    Price,        \* satoshis per piece
    Fee,          \* the settlement fee
    Funds,        \* the amounts a channel may be funded with
    None,         \* no connection, no account
    MaxPayments,  \* bound: payments made through a channel
    MaxAlerts     \* alert_queue_size

ASSUME AmountsAssumption == Price \in Nat \ {0} /\ Fee \in Nat /\ Funds \subseteq Nat
ASSUME BoundsAssumption == MaxPayments \in Nat /\ MaxAlerts \in Nat

VARIABLES
    support,      \* network: whether the peer supports the protocol
    connection,   \* network: the peer's connection in the session
    alerts,       \* libtorrent's alert queue
    known,        \* JavaScript: the account of the connection
    dropped,      \* history: the last alert was dropped
    stale         \* history: an alert was lost since the last status handled

vars == <<support, connection, alerts, known, dropped, stale>>

-----------------------------------------------------------------------------

Support == {"unknown", "supported", "not_supported"}

EncodeSupport == [unknown |-> 0, supported |-> 1, not_supported |-> 2]

InnerStateTypeInfo ==
    <<"ChooseMode", "Observing", "ReadyForInvitation", "ReadyToSendTestPayload",
      "Invited", "WaitingToStart", "ServicingPieceRequests", "ReadyToInviteSeller",
      "TestingSellerSpeed", "WaitingForSellerToJoin", "PreparingContract",
      "RequestingPieces">>

EncodeInnerState(state) ==
    (CHOOSE i \in DOMAIN InnerStateTypeInfo : InnerStateTypeInfo[i] = state) - 1

(* What the machine of a connection does when all goes well.               *)
Moves ==
    [ReadyForInvitation     |-> "Invited",
     Invited                |-> "WaitingToStart",
     WaitingToStart         |-> "ServicingPieceRequests",
     ReadyToInviteSeller    |-> "WaitingForSellerToJoin",
     WaitingForSellerToJoin |-> "PreparingContract",
     PreparingContract      |-> "RequestingPieces"]

Closed == [price |-> 0, numberOfPaymentsMade |-> 0, funds |-> 0]

Opened(funds) == [Closed EXCEPT !.price = Price, !.funds = funds]

NewConnection(state) ==
    [innerState |-> state, payor |-> Closed, payee |-> Closed]

EncodeConnection(c) ==
    [innerState |-> EncodeInnerState(c.innerState),
     payor      |-> EncodePayor(c.payor),
     payee      |-> EncodePayee(c.payee)]

(* The key connection is absent when the peer has none.                    *)
EncodePeerStatus(c) ==
    [peerBitSwaprBEPSupportStatus |-> EncodeSupport[support],
     connection |-> IF c = None THEN None ELSE EncodeConnection(c)]

AmountPaid(channel) == channel.price * channel.numberOfPaymentsMade

EncodePayment_lastAmount(channel) ==
    [paymentIncrement      |-> channel.price,
     totalNumberOfPayments |-> channel.numberOfPaymentsMade,
     totalAmountPaid       |-> channel.price]

EncodePayment(channel) ==
    [paymentIncrement      |-> channel.price,
     totalNumberOfPayments |-> channel.numberOfPaymentsMade,
     totalAmountPaid       |-> AmountPaid(channel)]

(* The transaction cannot be made "if funds did not cover payment".        *)
CanSettle(channel) == AmountPaid(channel) + Fee <= channel.funds

EncodeLastPayment_always(channel) == [settlementTx |-> TRUE, of |-> channel]

(* of is no part of the alert: a property compares it with the account.    *)
EncodeLastPayment(channel) == [settlementTx |-> CanSettle(channel), of |-> channel]

-----------------------------------------------------------------------------
(* The network thread.                                                     *)

(* gap is no part of an alert: something was dropped just before it.       *)
Alert(type, body) == [type |-> type, body |-> body, gap |-> FALSE]

(* What does not fit into the queue is dropped.                            *)
Put(queue, alert) ==
    IF Len(queue.alerts) < MaxAlerts
    THEN [alerts  |-> Append(queue.alerts, [alert EXCEPT !.gap = queue.dropped]),
          dropped |-> FALSE]
    ELSE [queue EXCEPT !.dropped = TRUE]

Queue == [alerts |-> alerts, dropped |-> dropped]

BecomesQueue(queue) == alerts' = queue.alerts /\ dropped' = queue.dropped

Post(alert) == BecomesQueue(Put(Queue, alert))

PostBoth(first, second) == BecomesQueue(Put(Put(Queue, first), second))

Handshake ==
    /\ support = "unknown"
    /\ support' \in Support \ {"unknown"}
    /\ UNCHANGED <<connection, alerts, known, dropped, stale>>

AddConnection ==
    /\ support = "supported" /\ connection = None
    /\ \E state \in {"ReadyForInvitation", "ReadyToInviteSeller", "Observing"} :
           /\ connection' = NewConnection(state)
           /\ Post(Alert("ConnectionAddedToSession",
                         EncodeConnection(NewConnection(state))))
    /\ UNCHANGED <<support, known, stale>>

(* A contract opens the channel: we are paid on it, or pay.                *)
Move ==
    /\ connection # None /\ connection.innerState \in DOMAIN Moves
    /\ \E funds \in Funds :
           LET next == [connection EXCEPT !.innerState = Moves[@]]
           IN  connection' =
                   CASE next.innerState = "ServicingPieceRequests"
                           -> [next EXCEPT !.payee = Opened(funds)]
                     [] next.innerState = "RequestingPieces"
                           -> [next EXCEPT !.payor = Opened(funds)]
                     [] OTHER -> next
    /\ UNCHANGED <<support, alerts, known, dropped, stale>>

Paid(channel) == [channel EXCEPT !.numberOfPaymentsMade = @ + 1]

MayPay(state, channel) ==
    /\ connection # None /\ connection.innerState = state
    /\ channel.numberOfPaymentsMade < MaxPayments

ReceiveValidPayment ==
    /\ MayPay("ServicingPieceRequests", connection.payee)
    /\ connection' = [connection EXCEPT !.payee = Paid(@)]
    /\ Post(Alert("ValidPaymentReceived", EncodePayment(connection'.payee)))
    /\ UNCHANGED <<support, known, stale>>

SendPayment ==
    /\ MayPay("RequestingPieces", connection.payor)
    /\ AmountPaid(Paid(connection.payor)) <= connection.payor.funds
    /\ connection' = [connection EXCEPT !.payor = Paid(@)]
    /\ Post(Alert("SentPayment", EncodePayment(connection'.payor)))
    /\ UNCHANGED <<support, known, stale>>

(* The peer leaves, or made a payment that is not valid.                   *)
RemoveConnection ==
    /\ connection # None
    /\ connection' = None
    /\ LET payee   == connection.payee
           invalid == Alert("InvalidPaymentReceived", EncodePayment(payee))
           last    == Alert("LastPaymentReceived", EncodeLastPayment(payee))
           removed == Alert("ConnectionRemovedFromSession", None)
       IN  \/ Post(removed)
           \/ payee.numberOfPaymentsMade > 0 /\ PostBoth(last, removed)
           \/ payee # Closed /\ PostBoth(invalid, removed)
    /\ UNCHANGED <<support, known, stale>>

(* Bound: one status is under way at a time.                               *)
PostStatus ==
    /\ \A i \in DOMAIN alerts : alerts[i].type # "PeerPluginStatusUpdateAlert"
    /\ Post(Alert("PeerPluginStatusUpdateAlert", EncodePeerStatus(connection)))
    /\ UNCHANGED <<support, connection, known, stale>>

-----------------------------------------------------------------------------
(* JavaScript: a program that keeps an account of what it is told.         *)

NoPayments == [payments |-> 0, amount |-> 0]

NewAccount == [received |-> NoPayments, sent |-> NoPayments]

Totals(payment) == [payments |-> payment.totalNumberOfPayments,
                    amount   |-> payment.totalAmountPaid]

TotalsOf(channel) == [payments |-> channel.numberOfPaymentsMade,
                      amount   |-> AmountPaid(channel)]

(* The account that a connection's status shows.                           *)
Read(status) ==
    IF status = None THEN None
    ELSE [NewAccount EXCEPT !.received = TotalsOf(status.payee),
                            !.sent = TotalsOf(status.payor)]

(* Payments of a connection whose coming was missed open its account.      *)
Account == IF known = None THEN NewAccount ELSE known

Stale == stale \/ Head(alerts).gap

Handling(types) ==
    /\ alerts # <<>>
    /\ Head(alerts).type \in types
    /\ UNCHANGED <<support, connection, dropped>>

BookAs(account) ==
    /\ alerts' = Tail(alerts)
    /\ known' = account
    /\ stale' = (Stale /\ Head(alerts).type # "PeerPluginStatusUpdateAlert")

OnConnectionAdded ==
    /\ Handling({"ConnectionAddedToSession"})
    /\ BookAs(Read(Head(alerts).body))

OnConnectionRemoved ==
    /\ Handling({"ConnectionRemovedFromSession"})
    /\ BookAs(None)

OnPaymentReceived ==
    /\ Handling({"ValidPaymentReceived", "InvalidPaymentReceived"})
    /\ BookAs([Account EXCEPT !.received = Totals(Head(alerts).body)])

OnSentPayment ==
    /\ Handling({"SentPayment"})
    /\ BookAs([Account EXCEPT !.sent = Totals(Head(alerts).body)])

OnLastPaymentReceived ==
    /\ Handling({"LastPaymentReceived"})
    /\ BookAs(known)

OnPeerPluginStatusUpdate_keepsAccount ==
    /\ Handling({"PeerPluginStatusUpdateAlert"})
    /\ BookAs(known)

OnPeerPluginStatusUpdate ==
    /\ Handling({"PeerPluginStatusUpdateAlert"})
    /\ BookAs(Read(Head(alerts).body.connection))

(* A listener of an event throws: the rest of the batch is lost with it.   *)
ListenerThrows ==
    /\ alerts # <<>>
    /\ Head(alerts).type # "PeerPluginStatusUpdateAlert"
    /\ \E batch \in 1 .. Len(alerts) :
           alerts' = SubSeq(alerts, batch + 1, Len(alerts))
    /\ stale' = TRUE
    /\ UNCHANGED <<support, connection, known, dropped>>

HandleAlert ==
    \/ OnConnectionAdded \/ OnConnectionRemoved \/ OnPaymentReceived
    \/ OnSentPayment \/ OnLastPaymentReceived \/ OnPeerPluginStatusUpdate

-----------------------------------------------------------------------------

Init ==
    /\ support = "unknown"
    /\ connection = None
    /\ alerts = <<>>
    /\ known = None
    /\ dropped = FALSE
    /\ stale = FALSE

Next ==
    \/ Handshake \/ AddConnection \/ Move
    \/ ReceiveValidPayment \/ SendPayment \/ RemoveConnection
    \/ PostStatus
    \/ HandleAlert \/ ListenerThrows

Spec == Init /\ [][Next]_vars

(* The timer of statuses fires and alerts are handled.                     *)
FairSpec == Spec /\ WF_vars(PostStatus) /\ WF_vars(HandleAlert)

-----------------------------------------------------------------------------

ChannelState == [price : {0, Price}, numberOfPaymentsMade : 0 .. MaxPayments,
                 funds : {0} \union Funds]

ConnectionState ==
    [innerState : {InnerStateTypeInfo[i] : i \in DOMAIN InnerStateTypeInfo},
     payor : ChannelState, payee : ChannelState]

AccountState == [received : {TotalsOf(c) : c \in ChannelState},
                 sent : {TotalsOf(c) : c \in ChannelState}]

ConnectionStatusState == {EncodeConnection(c) : c \in ConnectionState}

ASSUME NoneAssumption ==
    None \notin ConnectionState \union ConnectionStatusState \union AccountState

AlertState ==
    [type : {"ConnectionAddedToSession"}, body : ConnectionStatusState, gap : BOOLEAN]
      \union [type : {"ConnectionRemovedFromSession"}, body : {None}, gap : BOOLEAN]
      \union [type : {"ValidPaymentReceived", "InvalidPaymentReceived", "SentPayment"},
              body : {EncodePayment(c) : c \in ChannelState}, gap : BOOLEAN]
      \union [type : {"LastPaymentReceived"},
              body : {EncodeLastPayment(c) : c \in ChannelState}, gap : BOOLEAN]
      \union [type : {"PeerPluginStatusUpdateAlert"},
              body : [peerBitSwaprBEPSupportStatus : {0, 1, 2},
                      connection : {None} \union ConnectionStatusState],
              gap : BOOLEAN]

TypeOK ==
    /\ support \in Support
    /\ connection \in {None} \union ConnectionState
    /\ alerts \in Seq(AlertState) /\ Len(alerts) <= MaxAlerts
    /\ known \in {None} \union AccountState
    /\ dropped \in BOOLEAN /\ stale \in BOOLEAN

NextIs(type) == alerts # <<>> /\ Head(alerts).type = type

(***************************************************************************)
(* A status of the peer agrees with the events before it: it has a         *)
(* connection exactly when one was added and not removed, and shows the    *)
(* payments, received and sent, that the events told of.                   *)
(***************************************************************************)
StatusAgreesWithEvents ==
    NextIs("PeerPluginStatusUpdateAlert") /\ ~Stale
        => Read(Head(alerts).body.connection) = known

(***************************************************************************)
(* When the last payment is told, its settlement transaction is there      *)
(* exactly if the funds of the channel cover what the account says was     *)
(* received, with the fee: no claim is missing, and none is empty.         *)
(***************************************************************************)
ClaimMatchesAccount ==
    NextIs("LastPaymentReceived") /\ ~Stale =>
        LET last == Head(alerts).body
        IN  last.settlementTx <=> known.received.amount + Fee <= last.of.funds

(***************************************************************************)
(* "same as encode(const paymentchannel::Payor &) above", where funds is   *)
(* "amount of funds locked up": the status of a connection shows the money *)
(* in the channel on which we are paid.                                    *)
(***************************************************************************)
PayeeFundsAreTheChannels ==
    connection # None =>
        EncodePayee(connection.payee).funds = connection.payee.funds

(* The account as the network thread would keep it.                        *)
TrueAccount ==
    IF connection = None THEN None
    ELSE [received |-> TotalsOf(connection.payee), sent |-> TotalsOf(connection.payor)]

(***************************************************************************)
(* Whatever was dropped or lost, the account is right again when the       *)
(* connection comes to rest: statuses heal it.                             *)
(***************************************************************************)
AccountHeals ==
    \/ []<><<connection' # connection>>_vars
    \/ <>[](known = TrueAccount)

=============================================================================
