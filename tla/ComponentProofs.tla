--------------------------- MODULE ComponentProofs ---------------------------
(***************************************************************************)
(* The smaller components: waitForState of the two programs, and the two   *)
(* abstract specifications, the replica that the torrents map implements   *)
(* and the calls that class Plugin implements.  Each is proved by itself;  *)
(* WaitForState is the one whose constants need assumptions.               *)
(***************************************************************************)
EXTENDS WaitForState, SequenceTheorems, TLAPS

CONSTANTS
    Torrents,   \* of the replica
    MaxCalls    \* of the calls

VARIABLES
    present, view, notices, lost,
    calls

R == INSTANCE TorrentReplica

C == INSTANCE AsyncCalls

-----------------------------------------------------------------------------
(* waitForState, for any number of calls and any states: no wakeup is lost *)
(* and no callback is called twice.                                        *)

(* Everything each read of the state relies on holds at the start.         *)
LEMMA InitIInv == Init => IInv
  BY StatesAssumption, MaxPendingAssumption
     DEF Init, IInv, TypeOK, ListensUntilCalled, NoLostWakeup, Call

(* ... and is kept by every step of libtorrent and of JavaScript.          *)
LEMMA NextIInv == IInv /\ [Next]_vars => IInv'
<1> SUFFICES ASSUME IInv, [Next]_vars
             PROVE  IInv'
    OBVIOUS
<1> USE StatesAssumption, MaxPendingAssumption
<1>0. Len(Waits) \in Nat
    OBVIOUS
<1>1. CASE UNCHANGED vars
    BY <1>1 DEF vars, IInv, TypeOK, ListensUntilCalled, NoLostWakeup, Call
<1>2. CASE \E s \in State : ChangeState(s)
    BY <1>0, <1>2
       DEF ChangeState, IInv, TypeOK, ListensUntilCalled, NoLostWakeup, Call
<1>3. CASE Wait
  <2> USE DEF Wait, CallBack
  <2>1. TypeOK'
    <3>1. called' \in [Call -> Nat]
        BY <1>3 DEF IInv, TypeOK
    <3>2. next' \in 1 .. Len(Waits) + 1
        BY <1>0, <1>3 DEF IInv, TypeOK, Call
    <3>3. next \in Nat \ {0} /\ next' = next + 1 /\ listening \subseteq 1 .. next - 1
        BY <1>0, <1>3 DEF IInv, TypeOK, Call
    <3>4. listening' \subseteq listening \union {next}
        BY <1>3
    <3>5. listening' \subseteq 1 .. next' - 1
        BY <3>3, <3>4
    <3>6. emitting' \subseteq listening'
        BY <1>3 DEF IInv, TypeOK
    <3> QED
        BY <1>3, <3>1, <3>2, <3>5, <3>6 DEF IInv, TypeOK
  <2>2. ListensUntilCalled'
    <3> SUFFICES ASSUME NEW j \in Call
                 PROVE  called'[j] = IF next' <= j \/ j \in listening' THEN 0 ELSE 1
        BY DEF ListensUntilCalled, Call
    <3>1. called[j] = IF next <= j \/ j \in listening THEN 0 ELSE 1
        BY DEF IInv, ListensUntilCalled
    <3>2. next \in Nat /\ j \in Nat /\ next \notin listening
          /\ called \in [Call -> Nat]
        BY <1>0 DEF IInv, TypeOK, Call
    <3>3. CASE j = next
        BY <1>3, <3>1, <3>2, <3>3
    <3>4. CASE j # next
        BY <1>3, <3>1, <3>2, <3>4
    <3> QED
        BY <3>3, <3>4
  <2>3. NoLostWakeup'
        BY <1>0, <1>3 DEF IInv, TypeOK, NoLostWakeup, Call
  <2> QED
      BY <2>1, <2>2, <2>3 DEF IInv
<1>4. CASE EmitStateChanged
    BY <1>0, <1>4
       DEF EmitStateChanged, IInv, TypeOK, ListensUntilCalled, NoLostWakeup, Call
<1>5. ASSUME NEW i \in Call, CheckState(i)
      PROVE  IInv'
  <2> USE DEF CheckState, CallBack
  <2>1. TypeOK'
    <3>1. called' \in [Call -> Nat]
        BY <1>5 DEF IInv, TypeOK
    <3>2. listening' \subseteq listening /\ emitting' \subseteq listening'
        BY <1>5 DEF IInv, TypeOK
    <3> QED
        BY <1>5, <3>1, <3>2 DEF IInv, TypeOK
  <2>2. ListensUntilCalled'
    <3> SUFFICES ASSUME NEW j \in Call
                 PROVE  called'[j] = IF next' <= j \/ j \in listening' THEN 0 ELSE 1
        BY DEF ListensUntilCalled, Call
    <3>1. called[j] = IF next <= j \/ j \in listening THEN 0 ELSE 1
        BY DEF IInv, ListensUntilCalled
    <3>2. /\ next \in Nat /\ j \in Nat
          /\ i \in listening /\ i < next
          /\ called \in [Call -> Nat]
        BY <1>0, <1>5 DEF IInv, TypeOK, Call
    <3>3. next' = next
        BY <1>5
    <3>4. CASE j = i
        BY <1>5, <3>1, <3>2, <3>3, <3>4
    <3>5. CASE j # i
        BY <1>5, <3>1, <3>2, <3>3, <3>5
    <3> QED
        BY <3>4, <3>5
  <2>3. NoLostWakeup'
        BY <1>0, <1>5 DEF IInv, TypeOK, NoLostWakeup, Call
  <2> QED
      BY <2>1, <2>2, <2>3 DEF IInv
<1> QED
    BY <1>1, <1>2, <1>3, <1>4, <1>5 DEF Next, JavaScript

(***************************************************************************)
(* No state change that a call of waitForState is waiting for goes         *)
(* unnoticed, and none is announced twice.                                 *)
(***************************************************************************)
THEOREM WakeupInvariant == Spec => []IInv
  BY InitIInv, NextIInv, PTL DEF Spec

(* A call was answered once, or is listening, or was not made yet.         *)
THEOREM ListensOrAnswered == Spec => []ListensUntilCalled
<1>1. IInv => ListensUntilCalled
    BY DEF IInv
<1> QED
    BY <1>1, WakeupInvariant, PTL

(* Whenever the torrent is in the target state of a call that was not      *)
(* answered, a read of the state is still to come.                         *)
THEOREM NoWakeupLost == Spec => []NoLostWakeup
<1>1. IInv => NoLostWakeup
    BY DEF IInv
<1> QED
    BY <1>1, WakeupInvariant, PTL

(* letsBuy, letsSell and exit are called at most once.                     *)
THEOREM OneCall == Spec => []CalledOnce
<1>1. IInv => CalledOnce
    BY DEF IInv, ListensUntilCalled, CalledOnce
<1> QED
    BY <1>1, WakeupInvariant, PTL

-----------------------------------------------------------------------------
(* The replica keeps its promise, for any set of torrents and a stream of  *)
(* any length.                                                             *)

IsLast(i, x) ==
    /\ i \in DOMAIN notices
    /\ R!Announces(notices[i], x)
    /\ \A j \in DOMAIN notices : i < j => ~R!Announces(notices[j], x)

(* The last notice about a torrent says what is true now.                  *)
LastTells ==
    ~lost => \A x \in Torrents, i \in DOMAIN notices :
        IsLast(i, x) => (notices[i].kind = "added" <=> x \in present)

ReplicaInv == R!TypeOK /\ LastTells /\ R!Converged

(* What the stream has after one change and perhaps its answer.            *)
LEMMA Published ==
    ASSUME R!TypeOK, NEW n \in R!Notice, NEW ns \in R!WithAnswer(n), R!Publish(ns)
    PROVE  /\ notices' \in Seq(R!Notice) /\ lost' \in BOOLEAN
           /\ ~lost' =>
                /\ ~lost
                /\ \/ notices' = Append(notices, n)
                   \/ notices' = Append(Append(notices, n), R!Other(n.torrent))
<1>0. R!Other(n.torrent) \in R!Notice
    BY DEF R!Other, R!Notice
<1>1. ns \in Seq(R!Notice) /\ Len(ns) \in Nat
  <2>1. CASE ns = <<n>>
      BY <2>1
  <2>2. CASE ns = <<n, R!Other(n.torrent)>>
      BY <1>0, <2>2
  <2> QED
      BY <2>1, <2>2 DEF R!WithAnswer
<1>2. PICK k \in 0 .. Len(ns) :
          notices' = notices \o SubSeq(ns, 1, k) /\ lost' = (lost \/ k < Len(ns))
    BY DEF R!Publish
<1>3. SubSeq(ns, 1, k) \in Seq(R!Notice)
    BY <1>1, <1>2
<1>4. notices' \in Seq(R!Notice) /\ lost' \in BOOLEAN
    BY <1>2, <1>3 DEF R!TypeOK
<1>5. ASSUME ~lost'
      PROVE  ~lost /\ notices' = notices \o ns
  <2>0. ~(lost \/ k < Len(ns))
      BY <1>2, <1>5
  <2>1. ~lost /\ k = Len(ns)
      BY <1>1, <1>2, <2>0
  <2>2. SubSeq(ns, 1, Len(ns)) = ns
      BY <1>1
  <2> QED
      BY <1>2, <2>1, <2>2
<1>6. notices \o ns \in {Append(notices, n), Append(Append(notices, n), R!Other(n.torrent))}
  <2>1. CASE ns = <<n>>
      BY <2>1 DEF R!TypeOK
  <2>2. CASE ns = <<n, R!Other(n.torrent)>>
      BY <1>0, <2>2 DEF R!TypeOK
  <2> QED
      BY <2>1, <2>2 DEF R!WithAnswer
<1> QED
    BY <1>4, <1>5, <1>6

(* A change that is told, of one torrent, keeps the invariant.             *)
LEMMA ToldAsNotice ==
    ASSUME ReplicaInv, NEW n \in R!Notice, NEW ns \in R!WithAnswer(n), R!Publish(ns),
           view' = view, present' \subseteq Torrents,
           \A x \in Torrents : x # n.torrent => (x \in present' <=> x \in present),
           n.kind = "added" => n.torrent \in present',
           n.kind = "removed" => n.torrent \notin present',
           n.kind = "other" => present' = present
    PROVE  ReplicaInv'
<1>1. R!TypeOK'
    BY Published DEF ReplicaInv, R!TypeOK
<1> SUFFICES ASSUME ~lost'
             PROVE  LastTells' /\ R!Converged'
    BY <1>1 DEF ReplicaInv, LastTells, R!Converged
<1>2. /\ ~lost /\ notices \in Seq(R!Notice) /\ notices' \in Seq(R!Notice)
      /\ \/ notices' = Append(notices, n)
         \/ notices' = Append(Append(notices, n), R!Other(n.torrent))
    BY Published DEF ReplicaInv, R!TypeOK
<1> DEFINE m == Len(notices)
<1>3. /\ DOMAIN notices = 1 .. m /\ m \in Nat
      /\ m + 1 \in DOMAIN notices' /\ notices'[m + 1] = n
      /\ \A i \in 1 .. m : i \in DOMAIN notices' /\ notices'[i] = notices[i]
      /\ \A i \in DOMAIN notices' : i \in Nat /\ (i > m + 1 => notices'[i].kind = "other")
    BY <1>2 DEF R!Other
<1>4. ASSUME NEW x \in Torrents
      PROVE  /\ \A i \in DOMAIN notices' :
                    IsLast(i, x)' => (notices'[i].kind = "added" <=> x \in present')
             /\ (\A i \in 1 .. Len(notices') : ~R!Announces(notices'[i], x))
                    => (x \in view' <=> x \in present')
  <2>1. CASE R!Announces(n, x)
    <3>1. ASSUME NEW i \in DOMAIN notices', IsLast(i, x)'
          PROVE  i = m + 1
      <4>1. ~(i < m + 1)
          BY <1>3, <2>1, <3>1 DEF IsLast
      <4>2. ~(i > m + 1)
          BY <1>3, <3>1 DEF IsLast, R!Announces
      <4> QED
          BY <1>3, <4>1, <4>2
    <3>2. n.kind = "added" <=> x \in present'
        BY <2>1 DEF R!Announces, R!Notice
    <3>3. ~\A i \in 1 .. Len(notices') : ~R!Announces(notices'[i], x)
        BY <1>2, <1>3, <2>1
    <3> QED
        BY <1>3, <3>1, <3>2, <3>3
  <2>2. CASE ~R!Announces(n, x)
    <3>1. x \in present' <=> x \in present
        BY <2>2 DEF R!Announces
    <3>2. \A i \in DOMAIN notices' : R!Announces(notices'[i], x) => i \in 1 .. m
        BY <1>3, <2>2 DEF R!Announces
    <3>3. ASSUME NEW i \in DOMAIN notices', IsLast(i, x)'
          PROVE  notices'[i].kind = "added" <=> x \in present'
      <4>1. i \in 1 .. m
          BY <3>2, <3>3 DEF IsLast
      <4>2. IsLast(i, x)
          BY <1>3, <3>3, <4>1 DEF IsLast
      <4> QED
          BY <1>2, <1>3, <3>1, <4>1, <4>2 DEF ReplicaInv, LastTells
    <3>4. ASSUME \A i \in 1 .. Len(notices') : ~R!Announces(notices'[i], x)
          PROVE  x \in view' <=> x \in present'
      <4>1. \A i \in 1 .. Len(notices) : ~R!Announces(notices[i], x)
          BY <1>2, <1>3, <3>4
      <4> QED
          BY <1>2, <3>1, <4>1 DEF ReplicaInv, R!Converged
    <3> QED
        BY <3>3, <3>4
  <2> QED
      BY <2>1, <2>2
<1> QED
    BY <1>4 DEF LastTells, R!Converged

(* The first notice is delivered.  If it was the last about its torrent it *)
(* told the truth and was not superseded.                                  *)
LEMMA NoticeDelivered == ReplicaInv /\ R!Deliver => ReplicaInv'
<1> SUFFICES ASSUME ReplicaInv, R!Deliver PROVE ReplicaInv'
    OBVIOUS
<1> DEFINE n == Head(notices)
<1>1. /\ notices \in Seq(R!Notice) /\ notices # <<>> /\ notices' = Tail(notices)
      /\ view' \in R!ViewsAfter(n) /\ present' = present /\ lost' = lost
    BY DEF R!Deliver, ReplicaInv, R!TypeOK
<1>2. /\ n \in R!Notice /\ n = notices[1] /\ notices' \in Seq(R!Notice)
      /\ DOMAIN notices = 1 .. Len(notices) /\ Len(notices) \in Nat \ {0}
      /\ DOMAIN notices' = 1 .. Len(notices) - 1 /\ Len(notices') = Len(notices) - 1
      /\ \A i \in DOMAIN notices' : notices'[i] = notices[i + 1]
    BY <1>1
<1>3. /\ n.torrent \in Torrents /\ n.kind \in {"added", "removed", "other"}
      /\ view \subseteq Torrents
    BY <1>2 DEF R!Notice, ReplicaInv, R!TypeOK
<1>4. \/ n.kind = "added" /\ view' = view \union {n.torrent}
      \/ n.kind = "added" /\ view' = view /\ R!Superseded(n)
      \/ n.kind = "removed" /\ view' = view \ {n.torrent}
      \/ n.kind = "other" /\ view' = view
    BY <1>1, <1>3 DEF R!ViewsAfter
<1>5. R!TypeOK'
    BY <1>1, <1>2, <1>3, <1>4 DEF ReplicaInv, R!TypeOK
<1> SUFFICES ASSUME ~lost
             PROVE  LastTells' /\ R!Converged'
    BY <1>1, <1>5 DEF ReplicaInv, LastTells, R!Converged
<1>6. LastTells'
  <2> SUFFICES ASSUME NEW x \in Torrents, NEW i \in DOMAIN notices', IsLast(i, x)'
               PROVE  notices'[i].kind = "added" <=> x \in present
      BY <1>1 DEF LastTells
  <2>1. i + 1 \in DOMAIN notices
      BY <1>2
  <2>2. ASSUME NEW j \in DOMAIN notices, i + 1 < j
        PROVE  ~R!Announces(notices[j], x)
    <3>1. j - 1 \in DOMAIN notices' /\ i < j - 1 /\ notices'[j - 1] = notices[j]
        BY <1>2, <2>2
    <3> QED
        BY <3>1 DEF IsLast
  <2>3. IsLast(i + 1, x)
      BY <1>2, <2>1, <2>2 DEF IsLast
  <2> QED
      BY <1>2, <2>1, <2>3 DEF ReplicaInv, LastTells
<1>7. R!Converged'
  <2> SUFFICES ASSUME NEW x \in Torrents,
                      \A i \in DOMAIN notices' : ~R!Announces(notices'[i], x)
               PROVE  x \in view' <=> x \in present
      BY <1>1, <1>2 DEF R!Converged
  <2>1. ASSUME NEW j \in DOMAIN notices, 1 < j
        PROVE  ~R!Announces(notices[j], x)
    <3>1. j - 1 \in DOMAIN notices' /\ notices'[j - 1] = notices[j]
        BY <1>2, <2>1
    <3> QED
        BY <3>1
  <2>2. CASE R!Announces(n, x)
    <3>1. IsLast(1, x)
        BY <1>2, <2>1, <2>2 DEF IsLast
    <3>2. n.kind = "added" <=> x \in present
        BY <1>2, <3>1 DEF ReplicaInv, LastTells
    <3>3. ~R!Superseded(n)
      <4>1. \A j \in 2 .. Len(notices) : j \in DOMAIN notices /\ 1 < j
          BY <1>2
      <4>2. \A j \in 2 .. Len(notices) : notices[j] # R!Removed(n.torrent)
          BY <2>1, <2>2, <4>1 DEF R!Announces, R!Removed
      <4> QED
          BY <4>2 DEF R!Superseded
    <3> QED
        BY <1>4, <2>2, <3>2, <3>3 DEF R!Announces
  <2>3. CASE ~R!Announces(n, x)
    <3>1. \A i \in 1 .. Len(notices) : ~R!Announces(notices[i], x)
        BY <1>2, <2>1, <2>3
    <3>2. x \in view <=> x \in present
        BY <3>1 DEF ReplicaInv, R!Converged
    <3> QED
        BY <1>4, <2>3, <3>2 DEF R!Announces
  <2> QED
      BY <2>2, <2>3
<1> QED
    BY <1>5, <1>6, <1>7 DEF ReplicaInv

LEMMA NoticesLost == ReplicaInv /\ R!Lose => ReplicaInv'
<1> SUFFICES ASSUME ReplicaInv, R!Lose PROVE ReplicaInv'
    OBVIOUS
<1>1. notices \in Seq(R!Notice) /\ notices # <<>> /\ Head(notices) \in R!Notice
    BY DEF R!Lose, ReplicaInv, R!TypeOK
<1>2. view' \subseteq Torrents
    BY <1>1 DEF R!Lose, R!ViewsAfter, R!Notice, ReplicaInv, R!TypeOK
<1>3. notices' \in Seq(R!Notice)
    BY <1>1 DEF R!Lose
<1> QED
    BY <1>2, <1>3 DEF R!Lose, ReplicaInv, R!TypeOK, LastTells, R!Converged

LEMMA SessionChanges == ReplicaInv /\ R!Change => ReplicaInv'
<1> SUFFICES ASSUME ReplicaInv, NEW x \in Torrents,
                    R!Join(x) \/ R!Leave(x) \/ R!Repeat(x) \/ R!Chatter(x)
             PROVE  ReplicaInv'
    BY DEF R!Change
<1>0. R!Added(x) \in R!Notice /\ R!Removed(x) \in R!Notice /\ R!Other(x) \in R!Notice
    BY DEF R!Added, R!Removed, R!Other, R!Notice
<1>1. CASE R!Join(x)
    BY <1>0, <1>1, ToldAsNotice DEF R!Join, R!Added, ReplicaInv, R!TypeOK
<1>2. CASE R!Leave(x)
    BY <1>0, <1>2, ToldAsNotice DEF R!Leave, R!Removed, ReplicaInv, R!TypeOK
<1>3. CASE R!Repeat(x)
  <2>1. <<R!Added(x)>> \in R!WithAnswer(R!Added(x))
      BY DEF R!WithAnswer
  <2> QED
      BY <1>0, <1>3, <2>1, ToldAsNotice DEF R!Repeat, R!Added, ReplicaInv, R!TypeOK
<1>4. CASE R!Chatter(x)
  <2>1. {<<R!Other(x)>>, <<R!Other(x), R!Other(x)>>} = R!WithAnswer(R!Other(x))
      BY DEF R!WithAnswer, R!Other
  <2> QED
      BY <1>0, <1>4, <2>1, ToldAsNotice DEF R!Chatter, R!Other, ReplicaInv, R!TypeOK
<1> QED
    BY <1>1, <1>2, <1>3, <1>4

(***************************************************************************)
(* Whoever implements the replica, as _addTorrentAlert and                 *)
(* _torrentRemovedAlert do, has an exact view of every torrent that no     *)
(* undelivered notice is about, until a notice is lost.                    *)
(***************************************************************************)
THEOREM ReplicaConverges == R!Spec => []R!Converged
<1>1. R!Init => ReplicaInv
  <2> SUFFICES ASSUME R!Init PROVE ReplicaInv
      OBVIOUS
  <2>1. R!TypeOK
    <3>1. <<>> \in Seq(R!Notice)
        OBVIOUS
    <3> QED
        BY <3>1 DEF R!Init, R!TypeOK
  <2>2. DOMAIN notices = {} /\ view = present
      BY DEF R!Init
  <2> QED
      BY <2>1, <2>2 DEF ReplicaInv, LastTells, R!Converged
<1>2. ReplicaInv /\ [R!Next]_(R!vars) => ReplicaInv'
  <2>1. ReplicaInv /\ UNCHANGED R!vars => ReplicaInv'
      BY DEF R!vars, ReplicaInv, R!TypeOK, LastTells, IsLast, R!Converged
  <2> QED
      BY <2>1, SessionChanges, NoticeDelivered, NoticesLost DEF R!Next
<1>3. ReplicaInv => R!Converged
    BY DEF ReplicaInv
<1> QED
    BY <1>1, <1>2, <1>3, PTL DEF R!Spec

-----------------------------------------------------------------------------
(* Calls are answered in their order, however many are made, refused and   *)
(* lost.                                                                   *)

(* What becomes of calls when some are answered and others missed.         *)
LEMMA SettledCalls ==
    ASSUME C!TypeOK, NEW answered, NEW missed
    PROVE  /\ C!Settled(answered, missed) \in Seq(C!Outcome)
           /\ DOMAIN C!Settled(answered, missed) = DOMAIN calls
           /\ \A i \in DOMAIN calls :
                 C!Settled(answered, missed)[i] =
                     IF i \in answered THEN "answered"
                     ELSE IF i \in missed THEN "lost" ELSE calls[i]
<1>1. calls \in [1 .. Len(calls) -> C!Outcome] /\ Len(calls) \in Nat
    BY DEF C!TypeOK
<1>2. C!Settled(answered, missed) \in [1 .. Len(calls) -> C!Outcome]
    BY <1>1 DEF C!Settled, C!Outcome
<1> QED
    BY <1>1, <1>2 DEF C!Settled

(***************************************************************************)
(* A caller that sees an answer knows what became of everything it asked   *)
(* for before.                                                             *)
(***************************************************************************)
THEOREM AnswersInOrder == C!Spec => [](C!TypeOK /\ C!NoOvertaking)
<1>1. C!Init => C!TypeOK /\ C!NoOvertaking
    BY DEF C!Init, C!TypeOK, C!NoOvertaking
<1>2. C!TypeOK /\ C!NoOvertaking /\ [C!Next]_calls => (C!TypeOK /\ C!NoOvertaking)'
  <2> SUFFICES ASSUME C!TypeOK, C!NoOvertaking, [C!Next]_calls
               PROVE  C!TypeOK' /\ C!NoOvertaking'
      OBVIOUS
  <2>1. ASSUME NEW outcome \in {"pending", "refused"}, calls' = Append(calls, outcome)
        PROVE  C!TypeOK' /\ C!NoOvertaking'
    <3>1. C!TypeOK'
        BY <2>1 DEF C!TypeOK, C!Outcome
    <3>2. /\ Len(calls) \in Nat /\ DOMAIN calls = 1 .. Len(calls)
          /\ DOMAIN calls' = 1 .. Len(calls) + 1
          /\ \A i \in 1 .. Len(calls) : calls'[i] = calls[i]
          /\ calls'[Len(calls) + 1] # "answered"
        BY <2>1 DEF C!TypeOK, C!Outcome
    <3>3. ASSUME NEW i \in DOMAIN calls', NEW j \in DOMAIN calls',
                 i < j, calls'[j] = "answered"
          PROVE  calls'[i] # "pending"
      <4>1. i \in DOMAIN calls /\ j \in DOMAIN calls
          BY <3>2, <3>3
      <4> QED
          BY <3>2, <3>3, <4>1 DEF C!NoOvertaking
    <3> QED
        BY <3>1, <3>3 DEF C!NoOvertaking
  <2>2. ASSUME NEW missed \in SUBSET C!Pending, calls' = C!Settled({}, missed)
        PROVE  C!TypeOK' /\ C!NoOvertaking'
      BY <2>2, SettledCalls DEF C!TypeOK, C!NoOvertaking
  <2>3. ASSUME NEW i \in DOMAIN calls, C!Answer(i)
        PROVE  C!TypeOK' /\ C!NoOvertaking'
    <3>1. PICK missed \in SUBSET C!Pending : calls' = C!Settled({i}, missed)
        BY <2>3 DEF C!Answer
    <3>2. C!TypeOK'
        BY <3>1, SettledCalls DEF C!TypeOK
    <3>3. ASSUME NEW a \in DOMAIN calls', NEW b \in DOMAIN calls',
                 a < b, calls'[b] = "answered", calls'[a] = "pending"
          PROVE  FALSE
      <4>1. a \in DOMAIN calls /\ b \in DOMAIN calls /\ calls[a] = "pending" /\ a # i
          BY <3>1, <3>3, SettledCalls
      <4>2. i <= a
          BY <2>3, <4>1 DEF C!Answer, C!IsNext, C!Pending
      <4>3. b # i
          BY <3>3, <4>1, <4>2, DOMAIN calls = 1 .. Len(calls) DEF C!TypeOK
      <4>4. calls[b] = "answered"
          BY <3>1, <3>3, <4>1, <4>3, SettledCalls
      <4> QED
          BY <3>3, <4>1, <4>4 DEF C!NoOvertaking
    <3> QED
        BY <3>2, <3>3 DEF C!NoOvertaking
  <2>4. CASE UNCHANGED calls
      BY <2>4 DEF C!TypeOK, C!NoOvertaking
  <2> QED
      BY <2>1, <2>2, <2>3, <2>4 DEF C!Next, C!Accept, C!Refuse, C!Call, C!Lose
<1> QED
    BY <1>1, <1>2, PTL DEF C!Spec

=============================================================================
