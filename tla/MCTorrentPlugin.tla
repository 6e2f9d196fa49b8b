--------------------------- MODULE MCTorrentPlugin ---------------------------
EXTENDS TorrentPlugin

CONSTANT t1

OneTerms == {t1}

(* Block downloading: other than none, which every plugin starts with. *)
OneInteraction == {2}

(* The text of an exception, the one that looks least like an error and one that does. *)
TwoWhats == {"", "gone"}

=============================================================================
