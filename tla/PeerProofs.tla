----------------------------- MODULE PeerProofs -----------------------------
(***************************************************************************)
(* The account that a program keeps of a peer, for any price, funds and    *)
(* numbers of payments, any size of the alert queue, and whatever is       *)
(* dropped from it or lost by listeners.                                   *)
(***************************************************************************)
EXTENDS PeerConnection, SequenceTheorems, TLAPS

(* The account that a connection makes up.                                 *)
AccountOf(c) ==
    IF c = None THEN None
    ELSE [received |-> TotalsOf(c.payee), sent |-> TotalsOf(c.payor)]

Accounts == {None} \union AccountState

PaymentReceived == {"ValidPaymentReceived", "InvalidPaymentReceived"}

(* An alert is posted where the account was x and is y from then on.       *)
Leads(x, a, y) ==
    /\ a.type = "ConnectionAddedToSession" => y = Read(a.body)
    /\ a.type = "ConnectionRemovedFromSession" => y = None
    /\ a.type \in PaymentReceived =>
           x # None /\ y = [x EXCEPT !.received = Totals(a.body)]
    /\ a.type = "SentPayment" => x # None /\ y = [x EXCEPT !.sent = Totals(a.body)]
    /\ a.type = "LastPaymentReceived" =>
           /\ x # None /\ y = x
           /\ a.body.settlementTx <=> x.received.amount + Fee <= a.body.of.funds
    /\ a.type = "PeerPluginStatusUpdateAlert" => y = x

Shows(a, y) ==
    a.type = "PeerPluginStatusUpdateAlert" => y = Read(a.body.connection)

(* The accounts between the alerts of a queue.  Where an alert was dropped *)
(* before one, only what that one shows by itself is known.                *)
IsHistory(account, queue) ==
    \A i \in 1 .. Len(queue.alerts) :
        /\ Shows(queue.alerts[i], account[i])
        /\ ~ queue.alerts[i].gap =>
               Leads(account[i - 1], queue.alerts[i], account[i])

(* The alerts of a queue lead from the old account, unless one was lost,   *)
(* to the present one, unless the last was dropped.                        *)
Explained(queue, old, lost, now) ==
    \E account \in [0 .. Len(queue.alerts) -> Accounts] :
        /\ IsHistory(account, queue)
        /\ ~ lost => account[0] = old
        /\ ~ queue.dropped => account[Len(queue.alerts)] = now

(* Only an open channel is paid through.                                   *)
PaidWhenOpen(c) ==
    c # None =>
        /\ c.innerState # "ServicingPieceRequests" => c.payee.numberOfPaymentsMade = 0
        /\ c.innerState # "RequestingPieces" => c.payor.numberOfPaymentsMade = 0

IInv ==
    /\ TypeOK
    /\ PaidWhenOpen(connection)
    /\ Explained(Queue, known, stale, AccountOf(connection))

-----------------------------------------------------------------------------
(* Connections, channels and what alerts say of them.                      *)

LEMMA NoneIsNone ==
    /\ \A c \in ConnectionState : c # None /\ EncodeConnection(c) # None
    /\ \A k \in AccountState : k # None
BY NoneAssumption DEF ConnectionStatusState

LEMMA ConnectionParts ==
    ASSUME NEW c \in ConnectionState
    PROVE  /\ c.payee \in ChannelState /\ c.payor \in ChannelState
           /\ AccountOf(c) = [received |-> TotalsOf(c.payee), sent |-> TotalsOf(c.payor)]
           /\ AccountOf(c) \in AccountState
<1>1. c.payee \in ChannelState /\ c.payor \in ChannelState
  BY DEF ConnectionState
<1>2. AccountOf(c) = [received |-> TotalsOf(c.payee), sent |-> TotalsOf(c.payor)]
  BY NoneIsNone DEF AccountOf
<1>3. /\ TotalsOf(c.payee) \in {TotalsOf(d) : d \in ChannelState}
      /\ TotalsOf(c.payor) \in {TotalsOf(d) : d \in ChannelState}
  BY <1>1
<1> QED BY <1>1, <1>2, <1>3 DEF AccountState

LEMMA AccountsType ==
    ASSUME connection \in {None} \union ConnectionState
    PROVE  AccountOf(connection) \in Accounts
BY ConnectionParts DEF Accounts, AccountOf

(* What a payment's alert says are the totals of its channel.              *)
LEMMA PaymentTotals ==
    ASSUME NEW c \in ChannelState
    PROVE  Totals(EncodePayment(c)) = TotalsOf(c)
BY DEF Totals, EncodePayment, TotalsOf

(* A status shows the account of its connection.                           *)
LEMMA StatusShowsAccount ==
    ASSUME NEW c \in {None} \union ConnectionState
    PROVE  Read(IF c = None THEN None ELSE EncodeConnection(c)) = AccountOf(c)
<1>1. CASE c = None
  BY <1>1 DEF Read, AccountOf
<1>2. CASE c \in ConnectionState
  <2>1. c # None /\ EncodeConnection(c) # None
    BY <1>2, NoneIsNone
  <2>2. /\ TotalsOf(EncodeConnection(c).payee) = TotalsOf(c.payee)
        /\ TotalsOf(EncodeConnection(c).payor) = TotalsOf(c.payor)
    BY DEF EncodeConnection, EncodePayee, EncodePayor, TotalsOf, AmountPaid
  <2>3. Read(EncodeConnection(c)) =
            [received |-> TotalsOf(c.payee), sent |-> TotalsOf(c.payor)]
    BY <2>1, <2>2 DEF Read, NewAccount
  <2> QED BY <2>1, <2>3 DEF AccountOf
<1> QED BY <1>1, <1>2

LEMMA InnerStates ==
    {InnerStateTypeInfo[i] : i \in DOMAIN InnerStateTypeInfo} =
        {"ChooseMode", "Observing", "ReadyForInvitation", "ReadyToSendTestPayload",
         "Invited", "WaitingToStart", "ServicingPieceRequests", "ReadyToInviteSeller",
         "TestingSellerSpeed", "WaitingForSellerToJoin", "PreparingContract",
         "RequestingPieces"}
BY DEF InnerStateTypeInfo

(* A new connection has no payments.                                       *)
LEMMA NewConnectionType ==
    ASSUME NEW state \in {"ReadyForInvitation", "ReadyToInviteSeller", "Observing"}
    PROVE  /\ NewConnection(state) \in ConnectionState
           /\ PaidWhenOpen(NewConnection(state))
<1>1. Closed \in ChannelState
  BY BoundsAssumption DEF Closed, ChannelState
<1> QED BY <1>1, InnerStates DEF NewConnection, ConnectionState, PaidWhenOpen, Closed

(* Every alert keeps its kind and its content when a gap is noted in it.   *)
LEMMA GapNoted ==
    ASSUME NEW a \in AlertState, NEW g \in BOOLEAN
    PROVE  /\ [a EXCEPT !.gap = g] \in AlertState
           /\ [a EXCEPT !.gap = g].type = a.type
           /\ [a EXCEPT !.gap = g].body = a.body
           /\ [a EXCEPT !.gap = g].gap = g
BY DEF AlertState

-----------------------------------------------------------------------------
(* The queue.                                                              *)

IsQueue(queue) ==
    /\ queue \in [alerts : Seq(AlertState), dropped : BOOLEAN]
    /\ Len(queue.alerts) <= MaxAlerts

(* An alert that leads from the present account to the next one is put     *)
(* into the queue, or dropped.                                             *)
LEMMA PutExplained ==
    ASSUME NEW queue, IsQueue(queue), NEW old, NEW lost, NEW x, NEW y \in Accounts,
           NEW a \in AlertState, Leads(x, a, y), Shows(a, y),
           Explained(queue, old, lost, x)
    PROVE  IsQueue(Put(queue, a)) /\ Explained(Put(queue, a), old, lost, y)
<1> DEFINE n == Len(queue.alerts)
           b == [a EXCEPT !.gap = queue.dropped]
<1>1. queue.alerts \in Seq(AlertState) /\ n \in Nat /\ n <= MaxAlerts
  BY DEF IsQueue
<1>2. /\ b \in AlertState /\ b.type = a.type /\ b.body = a.body
      /\ b.gap = queue.dropped
  BY GapNoted DEF IsQueue
<1>3. PICK account \in [0 .. n -> Accounts] :
          /\ IsHistory(account, queue)
          /\ ~ lost => account[0] = old
          /\ ~ queue.dropped => account[n] = x
  BY DEF Explained
<1>4. CASE n < MaxAlerts
  <2> DEFINE next == [alerts |-> Append(queue.alerts, b), dropped |-> FALSE]
             account2 == [i \in 0 .. n + 1 |-> IF i \in 0 .. n THEN account[i] ELSE y]
  <2>1. Put(queue, a) = next
    BY <1>4 DEF Put
  <2>2. /\ next.alerts \in Seq(AlertState) /\ Len(next.alerts) = n + 1
        /\ \A i \in 1 .. n : next.alerts[i] = queue.alerts[i]
        /\ next.alerts[n + 1] = b /\ next.dropped = FALSE
    BY <1>1, <1>2, AppendProperties
  <2>3. IsQueue(next)
    BY <1>1, <1>4, <2>2, BoundsAssumption DEF IsQueue
  <2>4. /\ account2 \in [0 .. n + 1 -> Accounts]
        /\ \A i \in 0 .. n : account2[i] = account[i]
        /\ account2[n + 1] = y
    BY <1>1, <1>3
  <2>5. IsHistory(account2, next)
    <3> SUFFICES ASSUME NEW i \in 1 .. n + 1
                 PROVE  /\ Shows(next.alerts[i], account2[i])
                        /\ ~ next.alerts[i].gap =>
                               Leads(account2[i - 1], next.alerts[i], account2[i])
      BY <2>2 DEF IsHistory
    <3> HIDE DEF next, account2, b
    <3>1. CASE i \in 1 .. n
      <4>1. i \in 0 .. n /\ i - 1 \in 0 .. n
        BY <1>1, <3>1
      <4> QED BY <1>3, <2>2, <2>4, <3>1, <4>1 DEF IsHistory
    <3>2. CASE i = n + 1
      <4>1. i - 1 = n /\ n \in 0 .. n
        BY <1>1, <3>2
      <4>2. Shows(b, y)
        BY <1>2 DEF Shows
      <4>3. ~ b.gap => Leads(account[n], b, y)
        BY <1>2, <1>3 DEF Leads
      <4> QED BY <2>2, <2>4, <3>2, <4>1, <4>2, <4>3
    <3>3. i \in 1 .. n \/ i = n + 1
      BY <1>1
    <3> QED BY <3>1, <3>2, <3>3
  <2>6. 0 \in 0 .. n
    BY <1>1
  <2> HIDE DEF next, account2
  <2>7. Explained(next, old, lost, y)
    BY <1>3, <2>2, <2>4, <2>5, <2>6 DEF Explained
  <2> QED BY <2>1, <2>3, <2>7
<1>5. CASE ~ (n < MaxAlerts)
  <2> DEFINE next == [queue EXCEPT !.dropped = TRUE]
  <2>1. Put(queue, a) = next
    BY <1>5 DEF Put
  <2>2. /\ next \in [alerts : Seq(AlertState), dropped : BOOLEAN]
        /\ next.alerts = queue.alerts /\ next.dropped = TRUE
    BY DEF IsQueue
  <2> HIDE DEF next
  <2>3. IsQueue(next)
    BY <2>2 DEF IsQueue
  <2>4. Explained(next, old, lost, y)
    BY <1>3, <2>2 DEF Explained, IsHistory
  <2> QED BY <2>1, <2>3, <2>4
<1> QED BY <1>4, <1>5

(* The alerts from the d-th on explain the present account as well.        *)
LEMMA TakenExplained ==
    ASSUME alerts \in Seq(AlertState), NEW d \in 1 .. Len(alerts),
           alerts' \in Seq(AlertState), Len(alerts') = Len(alerts) - d,
           \A i \in 1 .. Len(alerts') : alerts'[i] = alerts[i + d],
           dropped' = dropped, NEW now,
           NEW account \in [0 .. Len(alerts) -> Accounts],
           IsHistory(account, Queue),
           ~ dropped => account[Len(alerts)] = now,
           ~ stale' => known' = account[d]
    PROVE  Explained(Queue', known', stale', now)
<1> DEFINE account2 == [i \in 0 .. Len(alerts') |-> account[i + d]]
<1>1. Len(alerts) \in Nat /\ Len(alerts') \in Nat /\ d \in Nat /\ d >= 1
  OBVIOUS
<1>2. \A i \in 0 .. Len(alerts') : i + d \in 0 .. Len(alerts)
  BY <1>1
<1>3. /\ account2 \in [0 .. Len(alerts') -> Accounts]
      /\ \A i \in 0 .. Len(alerts') : account2[i] = account[i + d]
  BY <1>2
<1> HIDE DEF account2
<1>4. Queue.alerts = alerts /\ Queue'.alerts = alerts' /\ Queue'.dropped = dropped'
  BY DEF Queue
<1>5. IsHistory(account2, Queue')
  <2> SUFFICES ASSUME NEW i \in 1 .. Len(alerts')
               PROVE  /\ Shows(alerts'[i], account2[i])
                      /\ ~ alerts'[i].gap =>
                             Leads(account2[i - 1], alerts'[i], account2[i])
    BY <1>4 DEF IsHistory
  <2>1. /\ i + d \in 1 .. Len(alerts) /\ (i - 1) + d = (i + d) - 1
        /\ i \in 0 .. Len(alerts') /\ i - 1 \in 0 .. Len(alerts')
    BY <1>1
  <2> QED BY <1>3, <1>4, <2>1 DEF IsHistory
<1>6. ~ stale' => account2[0] = known'
  <2>1. 0 \in 0 .. Len(alerts') /\ 0 + d = d
    BY <1>1
  <2> QED BY <1>3, <2>1
<1>7. ~ dropped' => account2[Len(alerts')] = now
  <2>1. Len(alerts') \in 0 .. Len(alerts') /\ Len(alerts') + d = Len(alerts)
    BY <1>1
  <2> QED BY <1>3, <2>1
<1> QED BY <1>3, <1>4, <1>5, <1>6, <1>7 DEF Explained

-----------------------------------------------------------------------------
(* Steps of the network thread.                                            *)

LEMMA QueueType == TypeOK => IsQueue(Queue)
BY DEF TypeOK, IsQueue, Queue

LEMMA BecomesExplained ==
    ASSUME NEW queue, IsQueue(queue), BecomesQueue(queue), NEW old, NEW lost, NEW now,
           Explained(queue, old, lost, now)
    PROVE  /\ alerts' \in Seq(AlertState) /\ Len(alerts') <= MaxAlerts
           /\ dropped' \in BOOLEAN
           /\ Explained(Queue', old, lost, now)
<1>1. Queue'.alerts = queue.alerts /\ Queue'.dropped = queue.dropped
  BY DEF Queue, BecomesQueue
<1>2. Explained(Queue', old, lost, now)
  BY <1>1 DEF Explained, IsHistory
<1> QED BY <1>2 DEF BecomesQueue, IsQueue

LEMMA PostExplained ==
    ASSUME TypeOK, NEW x, NEW y \in Accounts, Explained(Queue, known, stale, x),
           NEW a \in AlertState, Leads(x, a, y), Shows(a, y), Post(a)
    PROVE  /\ alerts' \in Seq(AlertState) /\ Len(alerts') <= MaxAlerts
           /\ dropped' \in BOOLEAN
           /\ Explained(Queue', known, stale, y)
<1>1. PICK queue : queue = Put(Queue, a)
  OBVIOUS
<1>2. IsQueue(queue) /\ Explained(queue, known, stale, y)
  BY <1>1, QueueType, PutExplained
<1>3. BecomesQueue(queue)
  BY <1>1 DEF Post
<1> QED BY <1>2, <1>3, BecomesExplained

LEMMA PostBothExplained ==
    ASSUME TypeOK, NEW x \in Accounts, NEW y \in Accounts,
           Explained(Queue, known, stale, x),
           NEW a \in AlertState, Leads(x, a, x), Shows(a, x),
           NEW b \in AlertState, Leads(x, b, y), Shows(b, y), PostBoth(a, b)
    PROVE  /\ alerts' \in Seq(AlertState) /\ Len(alerts') <= MaxAlerts
           /\ dropped' \in BOOLEAN
           /\ Explained(Queue', known, stale, y)
<1>1. PICK queue1 : queue1 = Put(Queue, a)
  OBVIOUS
<1>2. PICK queue2 : queue2 = Put(queue1, b)
  OBVIOUS
<1>3. IsQueue(queue1) /\ Explained(queue1, known, stale, x)
  BY <1>1, QueueType, PutExplained
<1>4. IsQueue(queue2) /\ Explained(queue2, known, stale, y)
  BY <1>2, <1>3, PutExplained
<1>5. BecomesQueue(queue2)
  BY <1>1, <1>2 DEF PostBoth
<1> QED BY <1>4, <1>5, BecomesExplained

LEMMA AddConnectionKeeps ==
    ASSUME IInv, AddConnection PROVE IInv'
<1>1. PICK state \in {"ReadyForInvitation", "ReadyToInviteSeller", "Observing"} :
          /\ connection' = NewConnection(state)
          /\ Post(Alert("ConnectionAddedToSession", EncodeConnection(NewConnection(state))))
  BY DEF AddConnection
<1>2. PICK c \in ConnectionState : c = NewConnection(state)
  BY NewConnectionType
<1>3. PICK a \in AlertState : a = Alert("ConnectionAddedToSession", EncodeConnection(c))
  <2>1. EncodeConnection(c) \in ConnectionStatusState
    BY DEF ConnectionStatusState
  <2> QED BY <2>1 DEF Alert, AlertState
<1>4. a.type = "ConnectionAddedToSession" /\ a.body = EncodeConnection(c)
  BY <1>3 DEF Alert
<1>5. Read(a.body) = AccountOf(c)
  BY <1>4, StatusShowsAccount, NoneIsNone
<1>6. Leads(AccountOf(connection), a, AccountOf(c)) /\ Shows(a, AccountOf(c))
  BY <1>4, <1>5 DEF Leads, Shows, PaymentReceived
<1>7. AccountOf(c) \in Accounts
  BY ConnectionParts DEF Accounts
<1>8. /\ alerts' \in Seq(AlertState) /\ Len(alerts') <= MaxAlerts /\ dropped' \in BOOLEAN
      /\ Explained(Queue', known, stale, AccountOf(c))
  BY <1>1, <1>2, <1>3, <1>6, <1>7, PostExplained DEF IInv
<1>9. connection' = c /\ UNCHANGED <<support, known, stale>>
  BY <1>1, <1>2 DEF AddConnection
<1>10. TypeOK'
  BY <1>8, <1>9 DEF IInv, TypeOK
<1>11. PaidWhenOpen(connection')
  BY <1>2, <1>9, NewConnectionType
<1> QED BY <1>8, <1>9, <1>10, <1>11 DEF IInv

(* The state that comes next, and the channel opened with nothing paid:    *)
(* the account stays as it is.                                             *)
LEMMA MoveKeeps ==
    ASSUME IInv, Move PROVE IInv'
<1>1. PICK funds \in Funds :
          LET next == [connection EXCEPT !.innerState = Moves[@]]
          IN  connection' =
                  CASE next.innerState = "ServicingPieceRequests"
                          -> [next EXCEPT !.payee = Opened(funds)]
                    [] next.innerState = "RequestingPieces"
                          -> [next EXCEPT !.payor = Opened(funds)]
                    [] OTHER -> next
  BY DEF Move
<1>2. /\ connection \in ConnectionState /\ connection # None
      /\ connection.innerState \in DOMAIN Moves
  BY DEF IInv, TypeOK, Move
<1>3. PICK s : s = Moves[connection.innerState]
  OBVIOUS
<1>4. /\ connection.innerState # "ServicingPieceRequests"
      /\ connection.innerState # "RequestingPieces"
      /\ s \in {"Invited", "WaitingToStart", "ServicingPieceRequests",
                "WaitingForSellerToJoin", "PreparingContract", "RequestingPieces"}
  BY <1>2, <1>3 DEF Moves
<1>5. PICK next : next = [connection EXCEPT !.innerState = s]
  OBVIOUS
<1>6. /\ next \in ConnectionState /\ next.innerState = s
      /\ next.payee = connection.payee /\ next.payor = connection.payor
  BY <1>2, <1>4, <1>5, InnerStates DEF ConnectionState
<1>7. connection' =
          CASE s = "ServicingPieceRequests" -> [next EXCEPT !.payee = Opened(funds)]
            [] s = "RequestingPieces" -> [next EXCEPT !.payor = Opened(funds)]
            [] OTHER -> next
  BY <1>1, <1>3, <1>5, <1>6
<1>8. Opened(funds) \in ChannelState /\ Opened(funds).numberOfPaymentsMade = 0
  <2>1. PICK c : c = Closed
    OBVIOUS
  <2>2. c \in ChannelState /\ c.numberOfPaymentsMade = 0
    BY <2>1, BoundsAssumption DEF Closed, ChannelState
  <2>3. Opened(funds) = [c EXCEPT !.price = Price, !.funds = funds]
    BY <2>1 DEF Opened
  <2> QED BY <2>2, <2>3 DEF ChannelState
<1>9. connection.payee.numberOfPaymentsMade = 0 /\ connection.payor.numberOfPaymentsMade = 0
  BY <1>2, <1>4 DEF IInv, PaidWhenOpen
<1>10. connection' \in ConnectionState
  BY <1>6, <1>7, <1>8 DEF ConnectionState
<1>11. /\ connection'.innerState = s
       /\ connection'.payee.numberOfPaymentsMade = 0
       /\ connection'.payor.numberOfPaymentsMade = 0
  BY <1>6, <1>7, <1>8, <1>9 DEF ConnectionState
<1>12. ASSUME NEW d \in ChannelState, d.numberOfPaymentsMade = 0
       PROVE  TotalsOf(d) = [payments |-> 0, amount |-> 0]
  <2>1. d.price \in Nat
    BY AmountsAssumption DEF ChannelState
  <2>2. d.price * 0 = 0
    BY <2>1
  <2> QED BY <1>12, <2>2 DEF TotalsOf, AmountPaid
<1>13. AccountOf(connection') = AccountOf(connection)
  <2>1. /\ connection.payee \in ChannelState /\ connection.payor \in ChannelState
        /\ connection'.payee \in ChannelState /\ connection'.payor \in ChannelState
    BY <1>2, <1>10, ConnectionParts
  <2>2. /\ TotalsOf(connection.payee) = TotalsOf(connection'.payee)
        /\ TotalsOf(connection.payor) = TotalsOf(connection'.payor)
    BY <1>9, <1>11, <1>12, <2>1
  <2> QED BY <1>2, <1>10, <2>2, NoneIsNone DEF AccountOf
<1>14. UNCHANGED <<support, alerts, known, dropped, stale>>
  BY DEF Move
<1>15. TypeOK'
  BY <1>10, <1>14 DEF IInv, TypeOK
<1>16. Queue' = Queue
  BY <1>14 DEF Queue
<1>17. PaidWhenOpen(connection')
  BY <1>11 DEF PaidWhenOpen
<1> QED BY <1>13, <1>14, <1>15, <1>16, <1>17 DEF IInv

LEMMA AccountFields ==
    ASSUME NEW x \in AccountState, NEW y \in AccountState
    PROVE  /\ y.sent = x.sent => y = [x EXCEPT !.received = y.received]
           /\ y.received = x.received => y = [x EXCEPT !.sent = y.sent]
<1>1. ASSUME y.sent = x.sent
      PROVE  y = [x EXCEPT !.received = y.received]
  BY <1>1 DEF AccountState
<1>2. ASSUME y.received = x.received
      PROVE  y = [x EXCEPT !.sent = y.sent]
  BY <1>2 DEF AccountState
<1> QED BY <1>1, <1>2

LEMMA PaymentAlert ==
    ASSUME NEW type \in {"ValidPaymentReceived", "InvalidPaymentReceived", "SentPayment"},
           NEW c \in ChannelState
    PROVE  Alert(type, EncodePayment(c)) \in AlertState
<1>1. EncodePayment(c) \in {EncodePayment(d) : d \in ChannelState}
  OBVIOUS
<1> QED BY <1>1 DEF Alert, AlertState

LEMMA PaidType ==
    ASSUME NEW c \in ChannelState, c.numberOfPaymentsMade < MaxPayments
    PROVE  Paid(c) \in ChannelState
BY BoundsAssumption DEF Paid, ChannelState

LEMMA ReceiveKeeps ==
    ASSUME IInv, ReceiveValidPayment PROVE IInv'
<1>1. /\ connection \in ConnectionState /\ connection # None
      /\ connection.innerState = "ServicingPieceRequests"
      /\ connection.payee.numberOfPaymentsMade < MaxPayments
  BY DEF IInv, TypeOK, ReceiveValidPayment, MayPay
<1>2. PICK c \in ConnectionState : c = connection
  BY <1>1
<1>3. PICK d : d = [c EXCEPT !.payee = Paid(@)]
  OBVIOUS
<1>4. Paid(c.payee) \in ChannelState
  BY <1>1, <1>2, ConnectionParts, PaidType
<1>5. /\ d \in ConnectionState /\ d.payee = Paid(c.payee) /\ d.payor = c.payor
      /\ d.innerState = c.innerState
  BY <1>3, <1>4 DEF ConnectionState
<1>6. connection' = d /\ UNCHANGED <<support, known, stale>>
  BY <1>2, <1>3 DEF ReceiveValidPayment
<1>7. PICK a \in AlertState : a = Alert("ValidPaymentReceived", EncodePayment(d.payee))
  BY <1>4, <1>5, PaymentAlert
<1>8. Post(a)
  BY <1>6, <1>7 DEF ReceiveValidPayment
<1>9. a.type = "ValidPaymentReceived" /\ Totals(a.body) = TotalsOf(d.payee)
  BY <1>4, <1>5, <1>7, PaymentTotals DEF Alert
<1>10. /\ AccountOf(c) \in AccountState /\ AccountOf(d) \in AccountState
       /\ AccountOf(d).received = TotalsOf(d.payee)
       /\ AccountOf(d).sent = AccountOf(c).sent
  BY <1>5, ConnectionParts
<1>11. AccountOf(d) = [AccountOf(c) EXCEPT !.received = Totals(a.body)]
  BY <1>9, <1>10, AccountFields
<1>12. Leads(AccountOf(c), a, AccountOf(d)) /\ Shows(a, AccountOf(d))
  BY <1>9, <1>10, <1>11, NoneIsNone DEF Leads, Shows, PaymentReceived
<1>13. AccountOf(d) \in Accounts
  BY <1>10 DEF Accounts
<1>14. /\ alerts' \in Seq(AlertState) /\ Len(alerts') <= MaxAlerts /\ dropped' \in BOOLEAN
       /\ Explained(Queue', known, stale, AccountOf(d))
  BY <1>2, <1>8, <1>12, <1>13, PostExplained DEF IInv
<1>15. TypeOK'
  BY <1>5, <1>6, <1>14 DEF IInv, TypeOK
<1>16. PaidWhenOpen(connection')
  BY <1>1, <1>2, <1>5, <1>6 DEF IInv, PaidWhenOpen
<1> QED BY <1>6, <1>14, <1>15, <1>16 DEF IInv

LEMMA SendKeeps ==
    ASSUME IInv, SendPayment PROVE IInv'
<1>1. /\ connection \in ConnectionState /\ connection # None
      /\ connection.innerState = "RequestingPieces"
      /\ connection.payor.numberOfPaymentsMade < MaxPayments
  BY DEF IInv, TypeOK, SendPayment, MayPay
<1>2. PICK c \in ConnectionState : c = connection
  BY <1>1
<1>3. PICK d : d = [c EXCEPT !.payor = Paid(@)]
  OBVIOUS
<1>4. Paid(c.payor) \in ChannelState
  BY <1>1, <1>2, ConnectionParts, PaidType
<1>5. /\ d \in ConnectionState /\ d.payor = Paid(c.payor) /\ d.payee = c.payee
      /\ d.innerState = c.innerState
  BY <1>3, <1>4 DEF ConnectionState
<1>6. connection' = d /\ UNCHANGED <<support, known, stale>>
  BY <1>2, <1>3 DEF SendPayment
<1>7. PICK a \in AlertState : a = Alert("SentPayment", EncodePayment(d.payor))
  BY <1>4, <1>5, PaymentAlert
<1>8. Post(a)
  BY <1>6, <1>7 DEF SendPayment
<1>9. a.type = "SentPayment" /\ Totals(a.body) = TotalsOf(d.payor)
  BY <1>4, <1>5, <1>7, PaymentTotals DEF Alert
<1>10. /\ AccountOf(c) \in AccountState /\ AccountOf(d) \in AccountState
       /\ AccountOf(d).sent = TotalsOf(d.payor)
       /\ AccountOf(d).received = AccountOf(c).received
  BY <1>5, ConnectionParts
<1>11. AccountOf(d) = [AccountOf(c) EXCEPT !.sent = Totals(a.body)]
  BY <1>9, <1>10, AccountFields
<1>12. Leads(AccountOf(c), a, AccountOf(d)) /\ Shows(a, AccountOf(d))
  BY <1>9, <1>10, <1>11, NoneIsNone DEF Leads, Shows, PaymentReceived
<1>13. AccountOf(d) \in Accounts
  BY <1>10 DEF Accounts
<1>14. /\ alerts' \in Seq(AlertState) /\ Len(alerts') <= MaxAlerts /\ dropped' \in BOOLEAN
       /\ Explained(Queue', known, stale, AccountOf(d))
  BY <1>2, <1>8, <1>12, <1>13, PostExplained DEF IInv
<1>15. TypeOK'
  BY <1>5, <1>6, <1>14 DEF IInv, TypeOK
<1>16. PaidWhenOpen(connection')
  BY <1>1, <1>2, <1>5, <1>6 DEF IInv, PaidWhenOpen
<1> QED BY <1>6, <1>14, <1>15, <1>16 DEF IInv

(* The last payment and one that is not valid change nothing; only then    *)
(* the connection is gone.                                                 *)
LEMMA RemoveKeeps ==
    ASSUME IInv, RemoveConnection PROVE IInv'
<1>1. connection \in ConnectionState /\ connection # None
  BY DEF IInv, TypeOK, RemoveConnection
<1>2. PICK c \in ConnectionState : c = connection
  BY <1>1
<1>3. PICK x \in AccountState : x = AccountOf(c)
  BY ConnectionParts
<1>4. x # None /\ x \in Accounts /\ None \in Accounts
  BY NoneIsNone DEF Accounts
<1>5. c.payee \in ChannelState /\ x.received = TotalsOf(c.payee)
  BY <1>3, ConnectionParts
<1>6. PICK invalid \in AlertState :
          invalid = Alert("InvalidPaymentReceived", EncodePayment(c.payee))
  BY <1>5, PaymentAlert
<1>7. PICK last \in AlertState :
          last = Alert("LastPaymentReceived", EncodeLastPayment(c.payee))
  <2>1. EncodeLastPayment(c.payee) \in {EncodeLastPayment(d) : d \in ChannelState}
    BY <1>5
  <2> QED BY <2>1 DEF Alert, AlertState
<1>8. PICK removed \in AlertState : removed = Alert("ConnectionRemovedFromSession", None)
  BY DEF Alert, AlertState
<1>9. Leads(x, invalid, x) /\ Shows(invalid, x)
  <2>1. invalid.type = "InvalidPaymentReceived" /\ Totals(invalid.body) = x.received
    BY <1>5, <1>6, PaymentTotals DEF Alert
  <2>2. x = [x EXCEPT !.received = x.received]
    BY AccountFields
  <2> QED BY <1>4, <2>1, <2>2 DEF Leads, Shows, PaymentReceived
<1>10. Leads(x, last, x) /\ Shows(last, x)
  <2>1. last.type = "LastPaymentReceived" /\ last.body = EncodeLastPayment(c.payee)
    BY <1>7 DEF Alert
  <2>2. last.body.of = c.payee /\ x.received.amount = AmountPaid(c.payee)
    BY <1>5, <2>1 DEF EncodeLastPayment, TotalsOf
  <2>3. last.body.settlementTx = CanSettle(c.payee)
    BY <2>1 DEF EncodeLastPayment
  <2>4. last.body.settlementTx <=> x.received.amount + Fee <= last.body.of.funds
    BY <2>2, <2>3, Zenon DEF CanSettle
  <2> QED BY <1>4, <2>1, <2>4 DEF Leads, Shows, PaymentReceived
<1>11. Leads(x, removed, None) /\ Shows(removed, None)
  BY <1>8 DEF Leads, Shows, PaymentReceived, Alert
<1>12. Explained(Queue, known, stale, x)
  BY <1>2, <1>3 DEF IInv
<1>13. Post(removed) \/ PostBoth(last, removed) \/ PostBoth(invalid, removed)
  BY <1>2, <1>6, <1>7, <1>8 DEF RemoveConnection
<1>14. /\ alerts' \in Seq(AlertState) /\ Len(alerts') <= MaxAlerts /\ dropped' \in BOOLEAN
       /\ Explained(Queue', known, stale, None)
  <2>1. TypeOK
    BY DEF IInv
  <2>2. CASE Post(removed)
    BY <1>4, <1>11, <1>12, <2>1, <2>2, PostExplained
  <2>3. CASE PostBoth(last, removed)
    BY <1>4, <1>10, <1>11, <1>12, <2>1, <2>3, PostBothExplained
  <2>4. CASE PostBoth(invalid, removed)
    BY <1>4, <1>9, <1>11, <1>12, <2>1, <2>4, PostBothExplained
  <2> QED BY <1>13, <2>2, <2>3, <2>4
<1>15. connection' = None /\ UNCHANGED <<support, known, stale>>
  BY DEF RemoveConnection
<1>16. TypeOK'
  BY <1>14, <1>15 DEF IInv, TypeOK
<1>17. PaidWhenOpen(connection') /\ AccountOf(connection') = None
  BY <1>15 DEF PaidWhenOpen, AccountOf
<1> QED BY <1>14, <1>15, <1>16, <1>17 DEF IInv

LEMMA PostStatusKeeps ==
    ASSUME IInv, PostStatus PROVE IInv'
<1>1. connection \in {None} \union ConnectionState /\ support \in Support
  BY DEF IInv, TypeOK
<1>2. PICK shown : shown = IF connection = None THEN None ELSE EncodeConnection(connection)
  OBVIOUS
<1>3. shown \in {None} \union ConnectionStatusState
  BY <1>1, <1>2 DEF ConnectionStatusState
<1>4. EncodeSupport[support] \in {0, 1, 2}
  BY <1>1 DEF Support, EncodeSupport
<1>5. EncodePeerStatus(connection) =
          [peerBitSwaprBEPSupportStatus |-> EncodeSupport[support], connection |-> shown]
  BY <1>2 DEF EncodePeerStatus
<1>6. PICK a \in AlertState :
          a = Alert("PeerPluginStatusUpdateAlert", EncodePeerStatus(connection))
  <2>1. EncodePeerStatus(connection) \in
            [peerBitSwaprBEPSupportStatus : {0, 1, 2},
             connection : {None} \union ConnectionStatusState]
    BY <1>3, <1>4, <1>5
  <2>2. PICK body \in [peerBitSwaprBEPSupportStatus : {0, 1, 2},
                       connection : {None} \union ConnectionStatusState] :
            body = EncodePeerStatus(connection)
    BY <2>1
  <2>3. Alert("PeerPluginStatusUpdateAlert", body) \in
            [type : {"PeerPluginStatusUpdateAlert"},
             body : [peerBitSwaprBEPSupportStatus : {0, 1, 2},
                     connection : {None} \union ConnectionStatusState],
             gap : BOOLEAN]
    BY DEF Alert
  <2> QED BY <2>2, <2>3, Zenon DEF AlertState
<1>7. a.type = "PeerPluginStatusUpdateAlert" /\ a.body.connection = shown
  BY <1>5, <1>6 DEF Alert
<1>8. PICK x \in Accounts : x = AccountOf(connection)
  BY <1>1, AccountsType
<1>9. Read(a.body.connection) = x
  BY <1>1, <1>2, <1>7, <1>8, StatusShowsAccount
<1>10. Leads(x, a, x) /\ Shows(a, x)
  BY <1>7, <1>9 DEF Leads, Shows, PaymentReceived
<1>11. Post(a)
  BY <1>6 DEF PostStatus
<1>12. /\ alerts' \in Seq(AlertState) /\ Len(alerts') <= MaxAlerts /\ dropped' \in BOOLEAN
       /\ Explained(Queue', known, stale, x)
  BY <1>8, <1>10, <1>11, PostExplained DEF IInv
<1>13. UNCHANGED <<support, connection, known, stale>>
  BY DEF PostStatus
<1>14. TypeOK'
  BY <1>12, <1>13 DEF IInv, TypeOK
<1> QED BY <1>8, <1>12, <1>13, <1>14 DEF IInv, PaidWhenOpen, AccountOf

-----------------------------------------------------------------------------
(* Steps of the program.                                                   *)

LEMMA AlertTaken ==
    ASSUME alerts \in Seq(AlertState), alerts # <<>>, alerts' = Tail(alerts)
    PROVE  /\ alerts' \in Seq(AlertState)
           /\ Len(alerts) \in Nat /\ 1 \in 1 .. Len(alerts)
           /\ Len(alerts') = Len(alerts) - 1
           /\ \A i \in 1 .. Len(alerts') : alerts'[i] = alerts[i + 1]
           /\ Head(alerts) = alerts[1] /\ Head(alerts) \in AlertState
BY HeadTailProperties, EmptySeq

(* Booking an alert, when what is booked is what the alert leads to.       *)
LEMMA BookKeeps ==
    ASSUME IInv, alerts # <<>>, NEW known2 \in {None} \union AccountState, BookAs(known2),
           UNCHANGED <<support, connection, dropped>>,
           \A x \in Accounts, y \in Accounts :
               Shows(Head(alerts), y) /\ (~ Stale => Leads(x, Head(alerts), y) /\ x = known)
                   => (~ stale' => known2 = y)
    PROVE  IInv'
<1>1. /\ alerts \in Seq(AlertState) /\ alerts' = Tail(alerts)
      /\ known' = known2 /\ Len(alerts) <= MaxAlerts
      /\ stale' = (Stale /\ Head(alerts).type # "PeerPluginStatusUpdateAlert")
  BY DEF IInv, TypeOK, BookAs
<1>2. /\ alerts' \in Seq(AlertState)
      /\ Len(alerts) \in Nat /\ 1 \in 1 .. Len(alerts)
      /\ Len(alerts') = Len(alerts) - 1
      /\ \A i \in 1 .. Len(alerts') : alerts'[i] = alerts[i + 1]
      /\ Head(alerts) = alerts[1]
  BY <1>1, AlertTaken
<1>3. Queue.alerts = alerts /\ Queue.dropped = dropped
  BY DEF Queue
<1>4. PICK account \in [0 .. Len(alerts) -> Accounts] :
          /\ IsHistory(account, Queue)
          /\ ~ stale => account[0] = known
          /\ ~ dropped => account[Len(alerts)] = AccountOf(connection)
  BY <1>3 DEF IInv, Explained
<1>5. account[0] \in Accounts /\ account[1] \in Accounts
  <2>1. 0 \in 0 .. Len(alerts) /\ 1 \in 0 .. Len(alerts)
    BY <1>2
  <2> QED BY <1>4, <2>1
<1>6. /\ Shows(Head(alerts), account[1])
      /\ ~ Stale => Leads(account[0], Head(alerts), account[1]) /\ account[0] = known
  BY <1>2, <1>3, <1>4 DEF IsHistory, Stale
<1>7. ~ stale' => known' = account[1]
  BY <1>1, <1>5, <1>6
<1>8. Explained(Queue', known', stale', AccountOf(connection))
  BY <1>1, <1>2, <1>4, <1>7, TakenExplained
<1>9. TypeOK'
  <2>1. stale' \in BOOLEAN
    BY <1>1
  <2>2. Len(alerts') <= MaxAlerts
    BY <1>1, <1>2, BoundsAssumption
  <2> QED BY <1>1, <1>2, <2>1, <2>2 DEF IInv, TypeOK
<1> QED BY <1>8, <1>9 DEF IInv, PaidWhenOpen, AccountOf

LEMMA AccountType ==
    ASSUME TypeOK
    PROVE  Account \in AccountState
<1>1. Closed \in ChannelState
  BY BoundsAssumption DEF Closed, ChannelState
<1>2. TotalsOf(Closed) = NoPayments
  BY DEF Closed, TotalsOf, AmountPaid, NoPayments
<1>3. NoPayments \in {TotalsOf(c) : c \in ChannelState}
  BY <1>1, <1>2
<1>4. NewAccount \in AccountState
  BY <1>3 DEF NewAccount, AccountState
<1> QED BY <1>4 DEF Account, TypeOK

(* What the body of an alert is, by its type.                              *)
LEMMA Bodies ==
    ASSUME NEW a \in AlertState
    PROVE  /\ a.type = "ConnectionAddedToSession" => a.body \in ConnectionStatusState
           /\ a.type \in {"ValidPaymentReceived", "InvalidPaymentReceived", "SentPayment"} =>
                  a.body \in {EncodePayment(c) : c \in ChannelState}
           /\ a.type = "PeerPluginStatusUpdateAlert" =>
                  a.body.connection \in {None} \union ConnectionStatusState
BY DEF AlertState

LEMMA ReadType ==
    ASSUME NEW status \in {None} \union ConnectionStatusState
    PROVE  Read(status) \in {None} \union AccountState
<1>1. CASE status = None
  BY <1>1 DEF Read
<1>2. CASE status \in ConnectionStatusState
  <2>1. PICK c \in ConnectionState : status = EncodeConnection(c)
    BY <1>2 DEF ConnectionStatusState
  <2> QED BY <2>1, StatusShowsAccount, ConnectionParts, NoneIsNone
<1> QED BY <1>1, <1>2

LEMMA HandleAlertKeeps ==
    ASSUME IInv, HandleAlert PROVE IInv'
<1>1. /\ alerts # <<>> /\ UNCHANGED <<support, connection, dropped>>
      /\ Head(alerts) \in AlertState /\ TypeOK
  BY HeadTailProperties DEF HandleAlert, OnConnectionAdded, OnConnectionRemoved, OnPaymentReceived,
         OnSentPayment, OnLastPaymentReceived, OnPeerPluginStatusUpdate, Handling,
         IInv, TypeOK
<1>2. PICK a \in AlertState : a = Head(alerts)
  BY <1>1
<1>3. known \in {None} \union AccountState
  BY <1>1 DEF TypeOK
<1>4. ASSUME NEW known2, BookAs(known2), ~ stale', a.type # "PeerPluginStatusUpdateAlert"
      PROVE  ~ Stale
  BY <1>2, <1>4 DEF BookAs
<1>5. CASE OnConnectionAdded
  <2>1. a.type = "ConnectionAddedToSession" /\ BookAs(Read(a.body))
    BY <1>2, <1>5 DEF OnConnectionAdded, Handling
  <2>2. PICK known2 \in {None} \union AccountState : known2 = Read(a.body)
    BY <2>1, Bodies, ReadType
  <2> QED BY <1>1, <1>2, <1>4, <2>1, <2>2, BookKeeps DEF Leads
<1>6. CASE OnConnectionRemoved
  <2>1. a.type = "ConnectionRemovedFromSession" /\ BookAs(None)
    BY <1>2, <1>6 DEF OnConnectionRemoved, Handling
  <2> QED BY <1>1, <1>2, <1>4, <2>1, BookKeeps DEF Leads
<1>7. CASE OnPaymentReceived
  <2>1. /\ a.type \in PaymentReceived
        /\ BookAs([Account EXCEPT !.received = Totals(a.body)])
    BY <1>2, <1>7 DEF OnPaymentReceived, Handling, PaymentReceived
  <2>2. PICK c \in ChannelState : Totals(a.body) = TotalsOf(c)
    BY <2>1, Bodies, PaymentTotals DEF PaymentReceived
  <2>3. PICK known2 : known2 = [Account EXCEPT !.received = Totals(a.body)]
    OBVIOUS
  <2>4. known2 \in AccountState
    BY <1>1, <2>2, <2>3, AccountType DEF AccountState
  <2>5. ASSUME NEW x \in Accounts, NEW y \in Accounts, Leads(x, a, y), x = known
        PROVE  known2 = y
    BY <2>1, <2>3, <2>5 DEF Leads, Account
  <2> QED BY <1>1, <1>2, <1>4, <2>1, <2>3, <2>4, <2>5, BookKeeps DEF PaymentReceived
<1>8. CASE OnSentPayment
  <2>1. /\ a.type = "SentPayment"
        /\ BookAs([Account EXCEPT !.sent = Totals(a.body)])
    BY <1>2, <1>8 DEF OnSentPayment, Handling
  <2>2. PICK c \in ChannelState : Totals(a.body) = TotalsOf(c)
    BY <2>1, Bodies, PaymentTotals
  <2>3. PICK known2 : known2 = [Account EXCEPT !.sent = Totals(a.body)]
    OBVIOUS
  <2>4. known2 \in AccountState
    BY <1>1, <2>2, <2>3, AccountType DEF AccountState
  <2>5. ASSUME NEW x \in Accounts, NEW y \in Accounts, Leads(x, a, y), x = known
        PROVE  known2 = y
    BY <2>1, <2>3, <2>5 DEF Leads, Account
  <2> QED BY <1>1, <1>2, <1>4, <2>1, <2>3, <2>4, <2>5, BookKeeps
<1>9. CASE OnLastPaymentReceived
  <2>1. a.type = "LastPaymentReceived" /\ BookAs(known)
    BY <1>2, <1>9 DEF OnLastPaymentReceived, Handling
  <2> QED BY <1>1, <1>2, <1>3, <1>4, <2>1, BookKeeps DEF Leads
<1>10. CASE OnPeerPluginStatusUpdate
  <2>1. a.type = "PeerPluginStatusUpdateAlert" /\ BookAs(Read(a.body.connection))
    BY <1>2, <1>10 DEF OnPeerPluginStatusUpdate, Handling
  <2>2. PICK known2 \in {None} \union AccountState : known2 = Read(a.body.connection)
    BY <2>1, Bodies, ReadType
  <2> QED BY <1>1, <1>2, <2>1, <2>2, BookKeeps DEF Shows
<1> QED BY <1>5, <1>6, <1>7, <1>8, <1>9, <1>10 DEF HandleAlert

(* Whatever batch is lost, the rest still leads to the present account.    *)
LEMMA ListenerThrowsKeeps ==
    ASSUME IInv, ListenerThrows PROVE IInv'
<1>1. PICK batch \in 1 .. Len(alerts) : alerts' = SubSeq(alerts, batch + 1, Len(alerts))
  BY DEF ListenerThrows
<1>2. alerts \in Seq(AlertState) /\ Len(alerts) \in Nat /\ Len(alerts) <= MaxAlerts
  BY DEF IInv, TypeOK
<1>3. /\ alerts' \in Seq(AlertState) /\ Len(alerts') = Len(alerts) - batch
      /\ \A i \in 1 .. Len(alerts') : alerts'[i] = alerts[i + batch]
  <2>1. /\ batch + 1 \in 1 .. Len(alerts) + 1
        /\ batch + 1 \in Int /\ Len(alerts) \in Int
    BY <1>2
  <2>2. \A i \in batch + 1 .. Len(alerts) : alerts[i] \in AlertState
    BY <1>2
  <2>3. CASE batch < Len(alerts)
    <3>1. /\ SubSeq(alerts, batch + 1, Len(alerts)) \in Seq(AlertState)
          /\ Len(SubSeq(alerts, batch + 1, Len(alerts))) = Len(alerts) - (batch + 1) + 1
          /\ \A i \in 1 .. Len(alerts) - (batch + 1) + 1 :
                SubSeq(alerts, batch + 1, Len(alerts))[i] = alerts[(batch + 1) + i - 1]
      BY <1>2, <2>3, SubSeqProperties
    <3> QED BY <1>1, <1>2, <3>1
  <2>4. CASE batch = Len(alerts)
    <3>1. alerts' = << >>
      BY <1>1, <1>2, <2>4, SubSeqEmpty
    <3> QED BY <1>2, <2>4, <3>1
  <2> QED BY <1>2, <2>3, <2>4
<1>4. stale' = TRUE /\ UNCHANGED <<support, connection, known, dropped>>
  BY DEF ListenerThrows
<1>5. Queue.alerts = alerts /\ Queue.dropped = dropped
  BY DEF Queue
<1>6. PICK account \in [0 .. Len(alerts) -> Accounts] :
          /\ IsHistory(account, Queue)
          /\ ~ dropped => account[Len(alerts)] = AccountOf(connection)
  BY <1>5 DEF IInv, Explained
<1>7. Explained(Queue', known', stale', AccountOf(connection))
  BY <1>2, <1>3, <1>4, <1>6, TakenExplained
<1>8. TypeOK'
  <2>1. Len(alerts') <= MaxAlerts
    BY <1>2, <1>3, BoundsAssumption
  <2> QED BY <1>3, <1>4, <2>1 DEF IInv, TypeOK
<1> QED BY <1>4, <1>7, <1>8 DEF IInv, PaidWhenOpen, AccountOf

-----------------------------------------------------------------------------
(* The theorems.                                                           *)

LEMMA InitInv == Init => IInv
<1> SUFFICES ASSUME Init PROVE IInv
  OBVIOUS
<1>1. TypeOK
  <2>1. alerts \in Seq(AlertState) /\ Len(alerts) <= MaxAlerts
    BY BoundsAssumption DEF Init
  <2>2. /\ support \in Support /\ connection = None /\ known = None
        /\ dropped \in BOOLEAN /\ stale \in BOOLEAN
    BY DEF Init, Support
  <2> QED BY <2>1, <2>2 DEF TypeOK
<1>2. PaidWhenOpen(connection) /\ AccountOf(connection) = None
  BY DEF Init, PaidWhenOpen, AccountOf
<1>3. Explained(Queue, known, stale, None)
  <2> DEFINE account == [i \in 0 .. 0 |-> None]
  <2>1. Queue.alerts = << >> /\ Len(Queue.alerts) = 0 /\ known = None
    BY DEF Init, Queue
  <2>2. account \in [0 .. 0 -> Accounts] /\ account[0] = None
    BY DEF Accounts
  <2>3. \A i \in 1 .. Len(Queue.alerts) : FALSE
    BY <2>1
  <2> HIDE DEF account
  <2>4. IsHistory(account, Queue)
    BY <2>3 DEF IsHistory
  <2> QED BY <2>1, <2>2, <2>4 DEF Explained
<1> QED BY <1>1, <1>2, <1>3 DEF IInv

LEMMA NextInv == IInv /\ [Next]_vars => IInv'
<1> SUFFICES ASSUME IInv, [Next]_vars PROVE IInv'
  OBVIOUS
<1>1. ASSUME UNCHANGED <<connection, alerts, known, dropped, stale>>, TypeOK'
      PROVE  IInv'
  <2>1. Queue' = Queue
    BY <1>1 DEF Queue
  <2> QED BY <1>1, <2>1 DEF IInv, PaidWhenOpen, AccountOf
<1>2. CASE Handshake
  <2>1. TypeOK'
    BY <1>2 DEF Handshake, IInv, TypeOK
  <2> QED BY <1>1, <1>2, <2>1 DEF Handshake
<1>3. CASE AddConnection
  BY <1>3, AddConnectionKeeps
<1>4. CASE Move
  BY <1>4, MoveKeeps
<1>5. CASE ReceiveValidPayment
  BY <1>5, ReceiveKeeps
<1>6. CASE SendPayment
  BY <1>6, SendKeeps
<1>7. CASE RemoveConnection
  BY <1>7, RemoveKeeps
<1>8. CASE PostStatus
  BY <1>8, PostStatusKeeps
<1>9. CASE HandleAlert
  BY <1>9, HandleAlertKeeps
<1>10. CASE ListenerThrows
  BY <1>10, ListenerThrowsKeeps
<1>11. CASE UNCHANGED vars
  <2>1. TypeOK'
    BY <1>11 DEF vars, IInv, TypeOK
  <2> QED BY <1>1, <1>11, <2>1 DEF vars
<1> QED BY <1>2, <1>3, <1>4, <1>5, <1>6, <1>7, <1>8, <1>9, <1>10, <1>11 DEF Next

(* The head of the queue, when nothing was lost before it.                 *)
LEMMA HeadLeads ==
    ASSUME IInv, alerts # <<>>, ~ Stale
    PROVE  \E y \in Accounts : Shows(Head(alerts), y) /\ Leads(known, Head(alerts), y)
<1>1. alerts \in Seq(AlertState) /\ Queue.alerts = alerts
  BY DEF IInv, TypeOK, Queue
<1>2. Len(alerts) \in Nat /\ 1 \in 1 .. Len(alerts) /\ Head(alerts) = alerts[1]
  BY <1>1, HeadTailProperties, EmptySeq
<1>3. PICK account \in [0 .. Len(alerts) -> Accounts] :
          IsHistory(account, Queue) /\ (~ stale => account[0] = known)
  BY <1>1 DEF IInv, Explained
<1>4. account[1] \in Accounts
  <2>1. 1 \in 0 .. Len(alerts)
    BY <1>2
  <2> QED BY <1>3, <2>1
<1> QED BY <1>1, <1>2, <1>3, <1>4 DEF IsHistory, Stale

(* The connection, the queue and the account hold what the network and     *)
(* the program put there.                                                  *)
THEOREM PeerTypeCorrect == Spec => []TypeOK
<1>1. IInv => TypeOK
  BY DEF IInv
<1> QED BY <1>1, InitInv, NextInv, PTL DEF Spec

(* The invariant: between them, the alerts in the queue lead from the      *)
(* account that the program has to the connection's, but where alerts were *)
(* dropped or lost.                                                        *)
THEOREM PeerInvariant == Spec => []IInv
BY InitInv, NextInv, PTL DEF Spec

(* A status of the peer agrees with the events before it.                  *)
THEOREM StatusAgrees == Spec => []StatusAgreesWithEvents
<1>1. IInv => StatusAgreesWithEvents
  <2> SUFFICES ASSUME IInv, alerts # <<>>, ~ Stale,
                      Head(alerts).type = "PeerPluginStatusUpdateAlert"
               PROVE  Read(Head(alerts).body.connection) = known
    BY DEF StatusAgreesWithEvents, NextIs
  <2> QED BY HeadLeads DEF Shows, Leads
<1> QED BY <1>1, PeerInvariant, PTL

(* A settlement transaction comes with the last payment exactly when the   *)
(* channel covers what the account says was received, and the fee.         *)
THEOREM ClaimMatches == Spec => []ClaimMatchesAccount
<1>1. IInv => ClaimMatchesAccount
  <2> SUFFICES ASSUME IInv, alerts # <<>>, ~ Stale,
                      Head(alerts).type = "LastPaymentReceived"
               PROVE  Head(alerts).body.settlementTx <=>
                          known.received.amount + Fee <= Head(alerts).body.of.funds
    BY DEF ClaimMatchesAccount, NextIs
  <2> QED BY HeadLeads, Zenon DEF Leads
<1> QED BY <1>1, PeerInvariant, PTL

=============================================================================
