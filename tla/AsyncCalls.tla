----------------------------- MODULE AsyncCalls -----------------------------
(***************************************************************************)
(* What the methods of class Plugin promise to whoever calls them, with    *)
(* nothing of queues and threads: a call is refused on the spot, by an     *)
(* exception, or accepted; the accepted ones are answered at most once, in *)
(* the order of the calls; an exception in an answer or in a listener may  *)
(* cost others their answer.                                               *)
(***************************************************************************)
EXTENDS Integers, Sequences

CONSTANT MaxCalls      \* bound: calls ever made

VARIABLE calls         \* what became of each call

Outcome == {"refused", "pending", "answered", "lost"}

TypeOK == calls \in Seq(Outcome)

Pending == {i \in DOMAIN calls : calls[i] = "pending"}

-----------------------------------------------------------------------------

Call(outcome) ==
    /\ Len(calls) < MaxCalls
    /\ calls' = Append(calls, outcome)

Accept == Call("pending")

Refuse == Call("refused")

Settled(answered, missed) ==
    [i \in DOMAIN calls |-> IF i \in answered THEN "answered"
                            ELSE IF i \in missed THEN "lost" ELSE calls[i]]

(* No accepted call is older.                                              *)
IsNext(i) == i \in Pending /\ \A j \in Pending : i <= j

Answer(i) ==
    /\ IsNext(i)
    /\ \E missed \in SUBSET Pending : calls' = Settled({i}, missed)

Lose ==
    \E missed \in SUBSET Pending :
        missed # {} /\ calls' = Settled({}, missed)

Init == calls = <<>>

Next == Accept \/ Refuse \/ Lose \/ \E i \in DOMAIN calls : Answer(i)

Spec == Init /\ [][Next]_calls

-----------------------------------------------------------------------------

(***************************************************************************)
(* No call is answered while an earlier one still waits: a caller that     *)
(* sees an answer knows what became of everything it asked for before.     *)
(***************************************************************************)
NoOvertaking ==
    \A i, j \in DOMAIN calls :
        i < j /\ calls[j] = "answered" => calls[i] # "pending"

=============================================================================
