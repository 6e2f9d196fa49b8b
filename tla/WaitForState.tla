---------------------------- MODULE WaitForState ----------------------------
(***************************************************************************)
(* waitForState of examples/buyer/buyer.js and examples/seller/seller.js:  *)
(* call a function once when a torrent is in a given state.  The state     *)
(* belongs to libtorrent's thread and changes at any moment; torrent       *)
(* .status() reads it live.  JavaScript learns that it changed from        *)
(* state_changed alerts, which do not say to what.                         *)
(***************************************************************************)
EXTENDS Integers, Sequences

CONSTANTS
    State,      \* the states of a libtorrent torrent
    Initial,    \* the state in which it is added
    Waits,      \* the target states the program waits for, in program order
    MaxPending  \* bound: no change of state beyond this many pending alerts

ASSUME StatesAssumption == Initial \in State /\ Waits \in Seq(State)
ASSUME MaxPendingAssumption == MaxPending \in Nat \ {0}

VARIABLES
    state,      \* network: the state of the torrent
    pending,    \* state_changed alerts posted and not yet processed
    next,       \* JavaScript: the next call of waitForState to be made
    listening,  \* JavaScript: the calls that listen to state_changed
    emitting,   \* JavaScript: those the current 'state_changed' still has to call
    called      \* JavaScript: how often the callback of each call was called

vars == <<state, pending, next, listening, emitting, called>>

(* A call of waitForState is named by its position in the program.         *)
Call == 1 .. Len(Waits)

TypeOK ==
    /\ state \in State
    /\ pending \in 0 .. MaxPending
    /\ next \in 1 .. Len(Waits) + 1
    /\ listening \subseteq 1 .. next - 1
    /\ emitting \subseteq listening
    /\ called \in [Call -> Nat]

-----------------------------------------------------------------------------

(* libtorrent moves the torrent to another state and posts an alert.       *)
ChangeState(s) ==
    /\ s # state
    /\ pending < MaxPending
    /\ state' = s
    /\ pending' = pending + 1
    /\ UNCHANGED <<next, listening, emitting, called>>

CallBack(i) == called' = [called EXCEPT ![i] = @ + 1]

(* The calls of waitForState in addTorrent's callback, each of which reads *)
(* the state: call back at once, or listen.                                *)
Wait ==
    /\ next \in Call
    /\ IF state = Waits[next]
       THEN CallBack(next) /\ UNCHANGED listening
       ELSE listening' = listening \union {next} /\ UNCHANGED called
    /\ next' = next + 1
    /\ UNCHANGED <<state, pending, emitting>>

(* A state_changed alert is processed: the torrent emits 'state_changed'   *)
(* to those who listen at this moment.  The callback that makes the calls  *)
(* above is not interrupted by it.                                         *)
EmitStateChanged ==
    /\ next \notin Call
    /\ emitting = {}
    /\ pending > 0
    /\ pending' = pending - 1
    /\ emitting' = listening
    /\ UNCHANGED <<state, next, listening, called>>

CheckState_once(i) ==
    /\ i \in emitting
    /\ \A j \in emitting : i <= j
    /\ IF state = Waits[i] THEN CallBack(i) ELSE UNCHANGED called
    /\ listening' = listening \ {i}
    /\ emitting' = emitting \ {i}
    /\ UNCHANGED <<state, pending, next>>

CheckState_keepsListening(i) ==
    /\ i \in emitting
    /\ \A j \in emitting : i <= j
    /\ IF state = Waits[i] /\ called[i] < 2 THEN CallBack(i) ELSE UNCHANGED called
    /\ emitting' = emitting \ {i}
    /\ UNCHANGED <<state, pending, next, listening>>

(* The listeners are called in the order in which they were added.  Each   *)
(* reads the state, and when it is the target stops listening and calls    *)
(* back.                                                                   *)
CheckState(i) ==
    /\ i \in emitting
    /\ \A j \in emitting : i <= j
    /\ IF state = Waits[i]
       THEN listening' = listening \ {i} /\ CallBack(i)
       ELSE UNCHANGED <<listening, called>>
    /\ emitting' = emitting \ {i}
    /\ UNCHANGED <<state, pending, next>>

-----------------------------------------------------------------------------

Init ==
    /\ state = Initial
    /\ pending = 0
    /\ next = 1
    /\ listening = {}
    /\ emitting = {}
    /\ called = [i \in Call |-> 0]

JavaScript == Wait \/ EmitStateChanged \/ \E i \in Call : CheckState(i)

Next == (\E s \in State : ChangeState(s)) \/ JavaScript

Spec == Init /\ [][Next]_vars

(* The timer of the session pops alerts for ever, and a handler that was   *)
(* started runs to its end; libtorrent need not do anything.               *)
FairSpec == Spec /\ WF_vars(JavaScript)

-----------------------------------------------------------------------------

(***************************************************************************)
(* No lost wakeup: when the torrent is in a state for which a call still   *)
(* waits, a read of the state is yet to come, or an alert that will lead   *)
(* to one; also when the state changed between the look and on().          *)
(***************************************************************************)
NoLostWakeup ==
    \A i \in Call : state = Waits[i] /\ called[i] = 0 =>
        next <= i \/ i \in emitting \/ pending > 0

(***************************************************************************)
(* letsBuy, letsSell and exit run once, though several pending alerts may  *)
(* all find the torrent in the target state.                               *)
(***************************************************************************)
CalledOnce == \A i \in Call : called[i] <= 1

(***************************************************************************)
(* A target state in which the torrent stays is noticed: the callback is   *)
(* called, however often the state changed before.                         *)
(***************************************************************************)
StableStateNoticed ==
    \A i \in Call : <>[](state = Waits[i]) => <>(called[i] > 0)

-----------------------------------------------------------------------------

(* What makes the two safety properties inductive: a call that was made    *)
(* either listens or has been answered, once.                              *)
ListensUntilCalled ==
    \A i \in Call : called[i] = (IF next <= i \/ i \in listening THEN 0 ELSE 1)

IInv == TypeOK /\ ListensUntilCalled /\ NoLostWakeup

=============================================================================
