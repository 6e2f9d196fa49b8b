--------------------------- MODULE TorrentReplica ---------------------------
(***************************************************************************)
(* What the torrents map of lib/Session.js promises, with nothing of how   *)
(* it keeps the promise: a view of the set of torrents that a libtorrent   *)
(* session holds, brought up to date by a stream of notices (libtorrent's  *)
(* alerts).  The session and the view change in different threads, so the  *)
(* view lags; the promise is that it lags only as far as the stream does.  *)
(***************************************************************************)
EXTENDS Integers, Sequences

CONSTANT Torrents   \* the torrents that may be in the session

VARIABLES
    present,    \* the torrents in the libtorrent session
    view,       \* the torrents in the map of the JavaScript session
    notices,    \* published, not yet delivered
    lost        \* TRUE once a notice was published or taken and not delivered

vars == <<present, view, notices, lost>>

Added(x)   == [kind |-> "added", torrent |-> x]
Removed(x) == [kind |-> "removed", torrent |-> x]

(* A notice that says nothing of membership: an event, a request result.   *)
Other(x)   == [kind |-> "other", torrent |-> x]

Notice == [kind : {"added", "removed", "other"}, torrent : Torrents]

TypeOK ==
    /\ present \subseteq Torrents
    /\ view \subseteq Torrents
    /\ notices \in Seq(Notice)
    /\ lost \in BOOLEAN

-----------------------------------------------------------------------------

(* The stream takes a prefix of what it is given; the rest is lost.        *)
Publish(ns) ==
    \E k \in 0 .. Len(ns) :
        /\ notices' = notices \o SubSeq(ns, 1, k)
        /\ lost' = (lost \/ k < Len(ns))

(* A change of the session may come with the answer to whoever asked.      *)
WithAnswer(n) == {<<n>>, <<n, Other(n.torrent)>>}

Join(x) ==
    /\ x \notin present
    /\ present' = present \union {x}
    /\ \E ns \in WithAnswer(Added(x)) : Publish(ns)
    /\ UNCHANGED view

Leave(x) ==
    /\ x \in present
    /\ present' = present \ {x}
    /\ \E ns \in WithAnswer(Removed(x)) : Publish(ns)
    /\ UNCHANGED view

(* Adding a torrent that is there announces it again.                      *)
Repeat(x) ==
    /\ x \in present
    /\ Publish(<<Added(x)>>)
    /\ UNCHANGED <<present, view>>

Chatter(x) ==
    /\ \E ns \in {<<Other(x)>>, <<Other(x), Other(x)>>} : Publish(ns)
    /\ UNCHANGED <<present, view>>

(* The first notice may be passed over only when the torrent it adds is    *)
(* already gone, as a later notice says (or said, before it was lost).     *)
Superseded(n) ==
    \/ lost
    \/ \E i \in 2 .. Len(notices) : notices[i] = Removed(n.torrent)

ViewsAfter(n) ==
    CASE n.kind = "added"   -> {view \union {n.torrent}}
                                 \union (IF Superseded(n) THEN {view} ELSE {})
      [] n.kind = "removed" -> {view \ {n.torrent}}
      [] n.kind = "other"   -> {view}

Deliver ==
    /\ notices # <<>>
    /\ view' \in ViewsAfter(Head(notices))
    /\ notices' = Tail(notices)
    /\ UNCHANGED <<present, lost>>

(* The first notices of the stream are lost, the first one possibly after  *)
(* it had its effect.                                                      *)
Lose ==
    /\ notices # <<>>
    /\ view' \in ViewsAfter(Head(notices)) \union {view}
    /\ \E k \in 1 .. Len(notices) :
           notices' = SubSeq(notices, k + 1, Len(notices))
    /\ lost' = TRUE
    /\ UNCHANGED present

-----------------------------------------------------------------------------

Init ==
    /\ present = {}
    /\ view = {}
    /\ notices = <<>>
    /\ lost = FALSE

Change == \E x \in Torrents : Join(x) \/ Leave(x) \/ Repeat(x) \/ Chatter(x)

Next == Change \/ Deliver \/ Lose

Spec == Init /\ [][Next]_vars

-----------------------------------------------------------------------------

Announces(n, x) == n.torrent = x /\ n.kind # "other"

(***************************************************************************)
(* The view is exact for every torrent that no undelivered notice is       *)
(* about, as long as no notice was lost: what _addTorrentAlert and         *)
(* _torrentRemovedAlert together are for.                                  *)
(***************************************************************************)
Converged ==
    ~lost => \A x \in Torrents :
        (\A i \in 1 .. Len(notices) : ~Announces(notices[i], x))
            => (x \in view <=> x \in present)

=============================================================================
