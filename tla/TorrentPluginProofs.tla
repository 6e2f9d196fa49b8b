------------------------- MODULE TorrentPluginProofs -------------------------
(***************************************************************************)
(* What a program that controls a plugin is told is true, for any terms,   *)
(* texts of exceptions and number of calls, whatever is thrown; and the    *)
(* methods of class Plugin keep the promise of AsyncCalls.                 *)
(***************************************************************************)
EXTENDS TorrentPlugin, SequenceTheorems, TLAPS

(* The arguments of a request were decoded before it was submitted.        *)
WellAsked(r) == r.arg \in Accepted(r.kind)

(* A mode other than buying and selling keeps no terms, and only a buyer   *)
(* has a buying state: what a status can show.                             *)
WellFormed(p) ==
    /\ p.mode \notin {"buying", "selling"} => p.terms = None
    /\ p.mode # "buying" => p.buying = "sending_invitations"

WellPosted(a) == WellFormed(a.after) /\ WellAsked(a.request)

(* What the program knows once alert n is processed, and now if n is 0.    *)
ToldBy(n) == IF n = 0 THEN known ELSE Seen(alerts[n].after)

(* How the alert a takes a program from view k to the plugin a was posted  *)
(* at, and what it finds if a is an answer.                                *)
Leads(k, a) ==
    Seen(a.after) =
        IF a.type \in Events THEN AfterEvent(k, a)
        ELSE IF a.type = "RequestResult" /\ ~a.failed THEN AfterSuccess(k, a.request) ELSE k

TellsDone(k, a) ==
    a.type = "RequestResult" /\ ~a.failed => Done(k, a.request)

(* Each alert leads from what the alert before it told to what the plugin  *)
(* was when it was posted.  What the program knows now is left out as long *)
(* as it has lost something; the alerts still agree among each other.      *)
Links ==
    \A n \in DOMAIN alerts : n > 1 \/ ~stale =>
        Leads(ToldBy(n - 1), alerts[n]) /\ TellsDone(ToldBy(n - 1), alerts[n])

(* The last alert tells of the plugin as it is, but for the libtorrent     *)
(* interaction, which only the answer to come tells of.                    *)
LastLink ==
    Len(alerts) > 0 \/ ~stale =>
        /\ AfterSuccess(ToldBy(Len(alerts)), answering) = Seen(plugin)
        /\ Done(ToldBy(Len(alerts)), answering)

TInv ==
    /\ TypeOK
    /\ \A i \in DOMAIN requests : WellAsked(requests[i])
    /\ WellAsked(answering)
    /\ WellFormed(plugin)
    /\ \A i \in DOMAIN alerts : WellPosted(alerts[i])
    /\ Links
    /\ LastLink

-----------------------------------------------------------------------------

(* The way of a request: from the queue of the plugin to the one request   *)
(* that is carried out, and from there into the alerts.  Position 1 is the *)
(* next alert.                                                             *)
Way == 1 .. Len(alerts) + 1 + Len(requests)

At(n) ==
    IF n <= Len(alerts) THEN alerts[n].request
    ELSE IF n = Len(alerts) + 1 THEN answering
    ELSE requests[n - Len(alerts) - 1]

(* Not of a call, or of none that an answer is owed to.                    *)
Silent(r) == r.call = 0 /\ ~r.callback

Earlier(r, s) == r.call # 0 /\ s.call # 0 => r.call < s.call

(* A call that is on the way waits for its answer.                         *)
Waits(r) ==
    /\ r.call # 0 => r.call \in DOMAIN calls /\ calls[r.call] = "pending"
    /\ r.callback => r.call # 0

(* The answers come in the order of the calls.                             *)
CallsInOrder ==
    /\ \A n \in Way : Waits(At(n))
    /\ \A m, n \in Way : m < n => Earlier(At(m), At(n))

-----------------------------------------------------------------------------

LEMMA SeenFields ==
    ASSUME NEW p \in Plugin
    PROVE  /\ Seen(p) \in Plugin
           /\ Seen(p) = [mode |-> p.mode, state |-> p.state,
                         buying |-> IF p.buying = "download_completed"
                                    THEN "downloading" ELSE p.buying,
                         terms |-> p.terms, interaction |-> p.interaction]
    BY DEF Seen, Plugin, BuyingState

(* Numbers lead back to the names they encode.                             *)
LEMMA NamesFound ==
    /\ \A m \in Mode : Named(Mode, EncodeMode, EncodeMode[m]) = m
    /\ \A s \in State : Named(State, EncodeState, EncodeState[s]) = s
    /\ \A i \in Interaction :
           Named(Interaction, EncodeInteraction, EncodeInteraction[i]) = i
<1>1. ASSUME NEW m \in Mode PROVE Named(Mode, EncodeMode, EncodeMode[m]) = m
  <2>1. \A n \in Mode : EncodeMode[n] = EncodeMode[m] => n = m
      BY DEF Mode, EncodeMode
  <2> QED
      BY <2>1 DEF Named
<1>2. ASSUME NEW s \in State PROVE Named(State, EncodeState, EncodeState[s]) = s
  <2>1. \A t \in State : EncodeState[t] = EncodeState[s] => t = s
      BY DEF State, EncodeState
  <2> QED
      BY <2>1 DEF Named
<1>3. ASSUME NEW i \in Interaction
      PROVE  Named(Interaction, EncodeInteraction, EncodeInteraction[i]) = i
  <2>1. \A j \in Interaction : EncodeInteraction[j] = EncodeInteraction[i] => j = i
      BY DEF Interaction, EncodeInteraction
  <2> QED
      BY <2>1 DEF Named
<1> QED
    BY <1>1, <1>2, <1>3

LEMMA InteractionNamed ==
    ASSUME NEW v \in 0 .. 3
    PROVE  /\ DecodeInteraction[v] \in Interaction
           /\ (CHOOSE name \in Interaction : EncodeInteraction[name] = v)
                  = DecodeInteraction[v]
<1>1. /\ DecodeInteraction[v] \in Interaction
      /\ EncodeInteraction[DecodeInteraction[v]] = v
    BY DEF DecodeInteraction, EncodeInteraction, Interaction
<1>2. \A j \in Interaction : EncodeInteraction[j] = v => j = DecodeInteraction[v]
    BY <1>1 DEF Interaction, EncodeInteraction
<1> QED
    BY <1>1, <1>2

(* What a status shows by the names the module exports.                    *)
LEMMA StatusReadsSeen ==
    ASSUME NEW p \in Plugin, WellFormed(p)
    PROVE  Read(EncodeStatus(p)) = Seen(p)
<1> DEFINE s == EncodeSession(p)
<1>1. /\ p.mode \in Mode /\ p.state \in State /\ p.buying \in BuyingState
      /\ p.interaction \in Interaction
    BY DEF Plugin
<1>2. /\ s.mode = EncodeMode[p.mode] /\ s.state = EncodeState[p.state]
      /\ s.selling = IF p.mode = "selling" THEN [terms |-> p.terms] ELSE <<>>
      /\ s.buying = IF p.mode = "buying"
                    THEN [state |-> EncodeBuyingState[p.buying], terms |-> p.terms]
                    ELSE <<>>
      /\ EncodeStatus(p).session = s
      /\ EncodeStatus(p).libtorrentInteraction = EncodeInteraction[p.interaction]
    BY DEF EncodeSession, EncodeStatus
<1>3. [terms |-> p.terms] # <<>>
  <2>1. "terms" \in DOMAIN [terms |-> p.terms] /\ "terms" \notin DOMAIN <<>>
      OBVIOUS
  <2> QED
      BY ONLY <2>1
<1>4. [state |-> EncodeBuyingState[p.buying], terms |-> p.terms] # <<>>
  <2> DEFINE b == [state |-> EncodeBuyingState[p.buying], terms |-> p.terms]
  <2>1. "terms" \in DOMAIN b /\ "terms" \notin DOMAIN <<>>
      OBVIOUS
  <2> QED
      BY ONLY <2>1
<1>5. Read(EncodeStatus(p)) =
        [mode |-> p.mode, state |-> p.state,
         terms  |-> IF s.selling # <<>> THEN s.selling.terms
                    ELSE IF s.buying # <<>> THEN s.buying.terms ELSE None,
         buying |-> IF s.buying # <<>> /\ s.buying.state
                         # EncodeBuyingState["sending_invitations"]
                    THEN "downloading" ELSE "sending_invitations",
         interaction |-> p.interaction]
    BY <1>1, <1>2, NamesFound DEF Read
<1>6. (IF s.selling # <<>> THEN s.selling.terms
       ELSE IF s.buying # <<>> THEN s.buying.terms ELSE None) = p.terms
  <2>1. CASE p.mode = "selling"
      BY <2>1, <1>2, <1>3
  <2>2. CASE p.mode = "buying"
      BY <2>2, <1>2, <1>4
  <2>3. CASE p.mode \notin {"buying", "selling"}
      BY <2>3, <1>2 DEF WellFormed
  <2> QED
      BY <2>1, <2>2, <2>3
<1>7. (IF s.buying # <<>> /\ s.buying.state # EncodeBuyingState["sending_invitations"]
       THEN "downloading" ELSE "sending_invitations")
      = IF p.buying = "download_completed" THEN "downloading" ELSE p.buying
  <2>1. CASE p.mode = "buying"
    <3>1. s.buying # <<>> /\ s.buying.state = EncodeBuyingState[p.buying]
        BY <2>1, <1>2, <1>4
    <3>2. EncodeBuyingState[p.buying] = EncodeBuyingState["sending_invitations"]
              <=> p.buying = "sending_invitations"
        BY <1>1 DEF BuyingState, EncodeBuyingState
    <3> QED
        BY <1>1, <3>1, <3>2 DEF BuyingState
  <2>2. CASE p.mode # "buying"
      BY <2>2, <1>2 DEF WellFormed
  <2> QED
      BY <2>1, <2>2
<1> QED
    BY <1>5, <1>6, <1>7, SeenFields

(* What events say of the buying state.                                    *)
LEMMA BuyingTable ==
    /\ DOMAIN BuyingTold = {"SessionToObserveMode", "SessionToSellMode",
                            "SessionToBuyMode", "DownloadStarted", "AllSellersGone"}
    /\ BuyingTold["DownloadStarted"] = "downloading"
    /\ \A type \in DOMAIN BuyingTold \ {"DownloadStarted"} :
           BuyingTold[type] = "sending_invitations"
    BY DEF BuyingTold

(* The events of a buying plugin's session that the program follows.       *)
LEMMA EventTables ==
    /\ DOMAIN ModeTold = {"SessionToObserveMode", "SessionToSellMode", "SessionToBuyMode"}
    /\ ModeTold["SessionToObserveMode"] = "observing"
    /\ ModeTold["SessionToSellMode"] = "selling"
    /\ ModeTold["SessionToBuyMode"] = "buying"
    /\ DOMAIN StateTold = {"SessionStarted", "SessionPaused", "SessionStopped"}
    /\ StateTold["SessionStarted"] = "started"
    /\ StateTold["SessionPaused"] = "paused"
    /\ StateTold["SessionStopped"] = "stopped"
    BY DEF ModeTold, StateTold
LEMMA AlertTable ==
    /\ DOMAIN AlertOf = {"start", "stop", "to_observe_mode", "to_sell_mode", "to_buy_mode",
          "update_buyer_terms", "update_seller_terms", "start_downloading", "start_uploading"}
    /\ AlertOf["start"] = "SessionStarted"
    /\ AlertOf["stop"] = "SessionStopped"
    /\ AlertOf["to_observe_mode"] = "SessionToObserveMode"
    /\ AlertOf["to_sell_mode"] = "SessionToSellMode"
    /\ AlertOf["to_buy_mode"] = "SessionToBuyMode"
    /\ AlertOf["update_buyer_terms"] = "BuyerTermsUpdated"
    /\ AlertOf["update_seller_terms"] = "SellerTermsUpdated"
    /\ AlertOf["start_downloading"] = "DownloadStarted"
    /\ AlertOf["start_uploading"] = "UploadStarted"
    BY DEF AlertOf

(* What processing one request changes, the alert about it tells; what no  *)
(* alert tells, the answer does.                                           *)
LEMMA EffectTold ==
    ASSUME plugin \in Plugin, WellFormed(plugin),
           NEW r \in Request, WellAsked(r), Possible(r)
    PROVE  /\ Effect(r) \in Plugin
           /\ WellFormed(Effect(r))
           /\ r.kind \in DOMAIN AlertOf =>
                /\ AlertOf[r.kind] \in Events
                /\ \A a : a.type = AlertOf[r.kind] /\ a.after = Effect(r)
                              => Leads(Seen(plugin), a)
                /\ AfterSuccess(Seen(Effect(r)), r) = Seen(Effect(r))
                /\ Done(Seen(Effect(r)), r)
           /\ r.kind \notin DOMAIN AlertOf =>
                /\ AfterSuccess(Seen(plugin), r) = Seen(Effect(r))
                /\ Done(Seen(plugin), r)
<1>1. /\ plugin.mode \in Mode /\ plugin.state \in State
      /\ plugin.buying \in BuyingState /\ plugin.terms \in Terms \union {None}
      /\ plugin.interaction \in Interaction
      /\ plugin = [mode |-> plugin.mode, state |-> plugin.state, buying |-> plugin.buying,
                   terms |-> plugin.terms, interaction |-> plugin.interaction]
    BY DEF Plugin
<1>2. r.kind \in Kind /\ r.arg \in Accepted(r.kind)
    BY DEF Request, WellAsked
<1>3. r.kind \in TermsCalls => r.arg \in Terms
  <2>1. r.kind \in TermsCalls => Accepted(r.kind) = Terms
      BY DEF Accepted, TermsCalls
  <2> QED
      BY <2>1, <1>2
<1>4. r.kind = "set_libtorrent_interaction" => r.arg \in 0 .. 3
    BY <1>2 DEF Accepted, TermsCalls, DecodeInteraction
<1> DEFINE e == Effect(r)
<1>e. /\ e.mode = CASE r.kind = "to_observe_mode" -> "observing"
                   [] r.kind = "to_sell_mode" -> "selling"
                   [] r.kind = "to_buy_mode" -> "buying"
                   [] OTHER -> plugin.mode
      /\ e.state = CASE r.kind = "start" -> "started"
                    [] r.kind = "stop" -> "stopped"
                    [] OTHER -> plugin.state
      /\ e.buying = CASE r.kind \in {"to_observe_mode", "to_sell_mode", "to_buy_mode"}
                           -> "sending_invitations"
                     [] r.kind = "start_downloading" -> "downloading"
                     [] OTHER -> plugin.buying
      /\ e.terms = CASE r.kind = "to_observe_mode" -> None
                    [] r.kind \in TermsCalls -> r.arg
                    [] OTHER -> plugin.terms
      /\ e.interaction = IF r.kind = "set_libtorrent_interaction"
                         THEN DecodeInteraction[r.arg] ELSE plugin.interaction
    BY <1>1 DEF Effect, TermsCalls
<1>5. Effect(r) \in Plugin /\ WellFormed(Effect(r))
  <2>1. CASE r.kind = "set_libtorrent_interaction"
    <3>1. DecodeInteraction[r.arg] \in Interaction
        BY <2>1, <1>4, InteractionNamed
    <3>2. Effect(r) = [plugin EXCEPT !.interaction = DecodeInteraction[r.arg]]
        BY <2>1 DEF Effect
    <3> HIDE DEF DecodeInteraction
    <3> QED
        BY <3>1, <3>2, <1>1 DEF Plugin, WellFormed
  <2>2. CASE r.kind # "set_libtorrent_interaction"
      BY <2>2, <1>1, <1>2, <1>3
      DEF Effect, Plugin, WellFormed, Possible, Mode, State, BuyingState, TermsCalls
  <2> QED
      BY <2>1, <2>2
<1>6. ASSUME r.kind \in DOMAIN AlertOf
      PROVE  /\ AlertOf[r.kind] \in Events
             /\ AfterSuccess(Seen(Effect(r)), r) = Seen(Effect(r))
             /\ Done(Seen(Effect(r)), r)
  <2>1. AlertOf[r.kind] \in Events
      BY <1>6, AlertTable, EventTables DEF Events
  <2>2. r.kind # "set_libtorrent_interaction"
      BY <1>6, AlertTable
  <2>3. AfterSuccess(Seen(Effect(r)), r) = Seen(Effect(r))
      BY <2>2 DEF AfterSuccess
  <2>4. Done(Seen(Effect(r)), r)
      BY <1>1, <1>6, <1>5, AlertTable, <1>e, SeenFields DEF Done, Possible, TermsCalls
  <2> QED
      BY <2>1, <2>3, <2>4
<1>7. ASSUME r.kind \in DOMAIN AlertOf, NEW a,
             a.type = AlertOf[r.kind], a.after = Effect(r)
      PROVE  Leads(Seen(plugin), a)
  <2> DEFINE k == Seen(plugin)
  <2>1. AfterEvent(k, a) =
          [mode   |-> ToldOr(ModeTold, a.type, k.mode),
           state  |-> ToldOr(StateTold, a.type, k.state),
           buying |-> ToldOr(BuyingTold, a.type, k.buying),
           terms  |-> IF a.type \in TermsTold THEN Effect(r).terms
                      ELSE IF a.type = "SessionToObserveMode" THEN None ELSE k.terms,
           interaction |-> k.interaction]
      BY <1>7 DEF AfterEvent
  <2>2. /\ k.mode = plugin.mode /\ k.state = plugin.state /\ k.terms = plugin.terms
        /\ k.interaction = plugin.interaction
        /\ k.buying = IF plugin.buying = "download_completed"
                      THEN "downloading" ELSE plugin.buying
      BY SeenFields
  <2>3. /\ Seen(Effect(r)).mode = ToldOr(ModeTold, a.type, k.mode)
        /\ Seen(Effect(r)).state = ToldOr(StateTold, a.type, k.state)
      BY <1>1, <1>7, <1>5, <2>2, AlertTable, EventTables, SeenFields, <1>e DEF ToldOr
  <2>4. Seen(Effect(r)).buying = ToldOr(BuyingTold, a.type, k.buying)
      BY <1>1, <1>7, <1>5, <2>2, AlertTable, BuyingTable, SeenFields, <1>e DEF ToldOr
  <2>5. /\ Seen(Effect(r)).terms =
             IF a.type \in TermsTold THEN Effect(r).terms
             ELSE IF a.type = "SessionToObserveMode" THEN None ELSE k.terms
        /\ Seen(Effect(r)).interaction = k.interaction
      BY <1>1, <1>7, <1>5, <2>2, AlertTable, SeenFields, <1>e DEF TermsTold, TermsCalls
  <2>6. Seen(Effect(r)) = AfterEvent(k, a)
      BY <2>1, <2>3, <2>4, <2>5, <1>5, SeenFields
  <2> QED
      BY <2>6, <1>6, <1>7 DEF Leads
<1>8. ASSUME r.kind \notin DOMAIN AlertOf
      PROVE  /\ AfterSuccess(Seen(plugin), r) = Seen(Effect(r))
             /\ Done(Seen(plugin), r)
  <2>1. Done(Seen(plugin), r)
      BY <1>8, AlertTable DEF Done
  <2>2. CASE r.kind # "set_libtorrent_interaction"
    <3>1. Effect(r) = plugin
        BY <2>2, <1>8, AlertTable DEF Effect
    <3> QED
        BY <2>1, <2>2, <3>1 DEF AfterSuccess
  <2>3. CASE r.kind = "set_libtorrent_interaction"
    <3>1. Effect(r) = [plugin EXCEPT !.interaction = DecodeInteraction[r.arg]]
        BY <2>3 DEF Effect
    <3>2. AfterSuccess(Seen(plugin), r) =
            [Seen(plugin) EXCEPT !.interaction = DecodeInteraction[r.arg]]
      <4>1. AfterSuccess(Seen(plugin), r) =
              [Seen(plugin) EXCEPT !.interaction =
                  CHOOSE name \in Interaction : EncodeInteraction[name] = r.arg]
          BY <2>3 DEF AfterSuccess
      <4> QED
          BY <4>1, <2>3, <1>4, InteractionNamed
    <3>3. Seen(Effect(r)) = [Seen(plugin) EXCEPT !.interaction = DecodeInteraction[r.arg]]
      <4> DEFINE d == DecodeInteraction[r.arg]
      <4>1. Effect(r) = [plugin EXCEPT !.interaction = d]
          BY <3>1
      <4> HIDE DEF d
      <4> QED
          BY <1>1, <1>5, <4>1, SeenFields DEF d
    <3> QED
        BY <2>1, <3>2, <3>3
  <2> QED
      BY <2>1, <2>2, <2>3
<1> QED
    BY <1>5, <1>6, <1>7, <1>8

(* A new alert tells what the one before it left open.                     *)
LEMMA AppendLinks ==
    ASSUME TypeOK, Links, NEW a, alerts' = Append(alerts, a),
           known' = known, stale' = stale,
           Len(alerts) > 0 \/ ~stale =>
               Leads(ToldBy(Len(alerts)), a) /\ TellsDone(ToldBy(Len(alerts)), a)
    PROVE  Links' /\ Len(alerts') > 0 /\ ToldBy(Len(alerts))' = Seen(a.after)
<1>1. /\ Len(alerts) \in Nat /\ DOMAIN alerts = 1 .. Len(alerts)
      /\ Len(alerts') = Len(alerts) + 1
      /\ DOMAIN alerts' = 1 .. Len(alerts) + 1
      /\ alerts'[Len(alerts) + 1] = a
      /\ \A i \in 1 .. Len(alerts) : alerts'[i] = alerts[i]
    BY DEF TypeOK
<1> DEFINE told(n) == IF n = 0 THEN known' ELSE Seen(alerts'[n].after)
<1>2. \A n \in 0 .. Len(alerts) : told(n) = ToldBy(n)
    BY <1>1 DEF ToldBy
<1>3. ASSUME NEW n \in DOMAIN alerts', n > 1 \/ ~stale'
      PROVE  Leads(told(n - 1), alerts'[n]) /\ TellsDone(told(n - 1), alerts'[n])
  <2> HIDE DEF told
  <2>1. told(n - 1) = ToldBy(n - 1)
      BY <1>1, <1>2, <1>3
  <2>2. CASE n \in 1 .. Len(alerts)
      BY <1>1, <1>3, <2>1, <2>2 DEF Links
  <2>3. CASE n = Len(alerts) + 1
    <3>1. n - 1 = Len(alerts) /\ (Len(alerts) > 0 \/ ~stale)
        BY <1>1, <1>3, <2>3
    <3> QED
        BY <1>1, <2>1, <2>3, <3>1
  <2> QED
      BY <1>1, <2>2, <2>3
<1>4. Links'
    BY <1>3 DEF Links, ToldBy, Leads, TellsDone
<1>5. ToldBy(Len(alerts))' = Seen(a.after)
    BY <1>1 DEF ToldBy
<1> QED
    BY <1>1, <1>4, <1>5

(* The alerts behind those taken from the queue keep what they tell.       *)
LEMMA DropLinks ==
    ASSUME TypeOK, Links, NEW k \in 1 .. Len(alerts),
           Len(alerts') = Len(alerts) - k, DOMAIN alerts' = 1 .. Len(alerts'),
           \A i \in DOMAIN alerts' : alerts'[i] = alerts[i + k],
           stale' \/ known' = ToldBy(k)
    PROVE  /\ Links'
           /\ Len(alerts') > 0 \/ ~stale' =>
                  ToldBy(Len(alerts))' = ToldBy(Len(alerts))
<1>1. Len(alerts) \in Nat /\ DOMAIN alerts = 1 .. Len(alerts)
    BY DEF TypeOK
<1> DEFINE told(n) == IF n = 0 THEN known' ELSE Seen(alerts'[n].after)
<1>2. ASSUME NEW n \in 0 .. Len(alerts'), n > 0 \/ ~stale'
      PROVE  told(n) = ToldBy(n + k)
  <2>1. CASE n = 0
      BY <1>2, <2>1
  <2>2. CASE n # 0
      BY <1>1, <1>2, <2>2 DEF ToldBy
  <2> QED
      BY <2>1, <2>2
<1>3. ASSUME NEW n \in DOMAIN alerts', n > 1 \/ ~stale'
      PROVE  Leads(told(n - 1), alerts'[n]) /\ TellsDone(told(n - 1), alerts'[n])
  <2> HIDE DEF told
  <2>1. n - 1 \in 0 .. Len(alerts') /\ (n - 1 > 0 \/ ~stale')
      BY <1>1, <1>3
  <2>2. told(n - 1) = ToldBy(n - 1 + k)
      BY <1>2, <2>1
  <2>3. /\ n + k \in DOMAIN alerts /\ n + k > 1 /\ n + k - 1 = n - 1 + k
        /\ alerts'[n] = alerts[n + k]
      BY <1>1
  <2>4. Leads(ToldBy(n + k - 1), alerts[n + k]) /\ TellsDone(ToldBy(n + k - 1), alerts[n + k])
      BY <2>3 DEF Links
  <2> QED
      BY <2>2, <2>3, <2>4
<1>4. Links'
    BY <1>3 DEF Links, ToldBy, Leads, TellsDone
<1>5. ASSUME Len(alerts') > 0 \/ ~stale'
      PROVE  ToldBy(Len(alerts))' = ToldBy(Len(alerts))
  <2>1. ToldBy(Len(alerts))' = told(Len(alerts'))
      BY DEF ToldBy
  <2> HIDE DEF told
  <2>2. Len(alerts') \in 0 .. Len(alerts') /\ Len(alerts') + k = Len(alerts)
      BY <1>1
  <2>3. told(Len(alerts')) = ToldBy(Len(alerts') + k)
      BY <1>2, <1>5, <2>2
  <2> QED
      BY <2>1, <2>2, <2>3
<1> QED
    BY <1>4, <1>5

(* What a method can be called with: a kind of request, or an argument that*)
(* is refused.                                                             *)
Callable(kind, arg) ==
    kind \in Kind \ {"status", "none"} \/ arg \notin Accepted(kind)

SomeCall ==
    \E kind, arg : \E callback \in BOOLEAN :
        Callable(kind, arg) /\ Call(kind, arg, callback)

LEMMA UserCalls ==
    ASSUME User
    PROVE  SomeCall
<1>1. \A kind \in {"to_sell_mode", "to_buy_mode", "to_observe_mode", "update_buyer_terms",
                   "update_seller_terms", "start", "stop", "start_downloading",
                   "start_uploading", "untold", "set_libtorrent_interaction",
                   "pause_libtorrent"} :
          \A arg : Callable(kind, arg)
    BY DEF Callable, Kind, TermsCalls, PlainCalls
<1>2. Callable("pause", Invalid)
    BY TermsAssumption DEF Callable, Accepted, TermsCalls
<1> QED
    BY <1>1, <1>2, Zenon
    DEF SomeCall, User, ToSellMode, ToBuyMode, ToObserveMode, UpdateBuyerTerms,
        UpdateSellerTerms, Start, Stop, StartDownloading, StartUploading,
        PauseTorrent, ResumeTorrent, DropPeer, SetLibtorrentInteraction,
        PauseLibtorrent, PausePlugin

LEMMA NothingAnswered ==
    ASSUME NEW k
    PROVE  AfterSuccess(k, NoRequest) = k /\ Done(k, NoRequest)
    BY DEF AfterSuccess, Done, NoRequest

LEMMA NoRequestIsNone ==
    /\ NoRequest \in Request /\ WellAsked(NoRequest)
    /\ StatusRequest \in Request /\ WellAsked(StatusRequest)
    BY DEF NoRequest, StatusRequest, Request, WellAsked, Kind, Accepted, TermsCalls

(* With no answer in the making the last alert told of the plugin.         *)
LEMMA ToldAtRest ==
    ASSUME LastLink, answering = NoRequest, Len(alerts) > 0 \/ ~stale
    PROVE  ToldBy(Len(alerts)) = Seen(plugin)
    BY NothingAnswered DEF LastLink

LEMMA SameView ==
    ASSUME Links, LastLink, UNCHANGED <<plugin, answering, alerts, known, stale>>
    PROVE  Links' /\ LastLink'
    BY DEF Links, LastLink, ToldBy

(* The request at the head of the queue.                                   *)
LEMMA TakenRequest ==
    ASSUME TInv, TakeRequest
    PROVE  /\ Head(requests) \in Request /\ WellAsked(Head(requests))
           /\ requests' \in Seq(Request)
           /\ \A i \in DOMAIN requests' : WellAsked(requests'[i])
<1>1. requests \in Seq(Request) /\ requests # <<>> /\ requests' = Tail(requests)
    BY DEF TInv, TypeOK, TakeRequest
<1>2. /\ Len(requests) \in Nat \ {0} /\ DOMAIN requests = 1 .. Len(requests)
      /\ Head(requests) = requests[1] /\ Head(requests) \in Request
      /\ Len(Tail(requests)) = Len(requests) - 1
      /\ DOMAIN Tail(requests) = 1 .. Len(requests) - 1
      /\ \A i \in 1 .. Len(requests) - 1 : Tail(requests)[i] = requests[i + 1]
    BY <1>1
<1>3. \A i \in DOMAIN requests : WellAsked(requests[i])
    BY DEF TInv
<1>4. WellAsked(Head(requests))
    BY <1>2, <1>3
<1>5. \A i \in DOMAIN requests' : WellAsked(requests'[i])
    BY <1>1, <1>2, <1>3
<1> QED
    BY <1>1, <1>2, <1>4, <1>5

(* The network thread posts an alert.                                      *)
LEMMA PostedAlert ==
    ASSUME TInv, NEW type \in AlertType, NEW request \in Request, WellAsked(request),
           NEW failed \in BOOLEAN,
           plugin' \in Plugin, WellFormed(plugin'), Post(type, request, failed),
           known' = known, stale' = stale, batch' = batch,
           Len(alerts) > 0 \/ ~stale =>
               \A a : a.type = type /\ a.request = request /\ a.failed = failed
                          /\ a.after = plugin' =>
                   Leads(ToldBy(Len(alerts)), a) /\ TellsDone(ToldBy(Len(alerts)), a),
           AfterSuccess(Seen(plugin'), answering') = Seen(plugin'),
           Done(Seen(plugin'), answering')
    PROVE  /\ alerts' \in Seq(Alert)
           /\ batch' \in 0 .. Len(alerts')
           /\ \A i \in DOMAIN alerts' : WellPosted(alerts'[i])
           /\ Links' /\ LastLink'
<1> DEFINE a == [type |-> type, request |-> request, failed |-> failed,
                 after |-> plugin']
<1>1. a \in Alert
    BY DEF Alert, AlertType
<1>2. alerts \in Seq(Alert) /\ batch \in 0 .. Len(alerts) /\ TypeOK /\ Links
    BY DEF TInv, TypeOK
<1>3. alerts' = Append(alerts, a)
    BY DEF Post
<1>4. a.type = type /\ a.request = request /\ a.failed = failed /\ a.after = plugin'
    OBVIOUS
<1> HIDE DEF a
<1>5. /\ Links' /\ Len(alerts') > 0
      /\ ToldBy(Len(alerts))' = Seen(plugin')
    BY <1>2, <1>3, <1>4, AppendLinks
<1>6. LastLink'
    BY <1>5 DEF LastLink
<1>7. /\ Len(alerts) \in Nat /\ DOMAIN alerts = 1 .. Len(alerts)
      /\ alerts' \in Seq(Alert) /\ Len(alerts') = Len(alerts) + 1
      /\ DOMAIN alerts' = 1 .. Len(alerts) + 1
      /\ alerts'[Len(alerts) + 1] = a
      /\ \A i \in 1 .. Len(alerts) : alerts'[i] = alerts[i]
    BY <1>1, <1>2, <1>3
<1>8. \A i \in DOMAIN alerts : WellPosted(alerts[i])
    BY DEF TInv
<1>9. \A i \in DOMAIN alerts' : WellPosted(alerts'[i])
    BY <1>4, <1>7, <1>8 DEF WellPosted
<1>10. batch' \in 0 .. Len(alerts')
    BY <1>2, <1>7
<1> QED
    BY <1>5, <1>6, <1>7, <1>9, <1>10

(* JavaScript is done with some alerts.                                    *)
LEMMA DroppedAlerts ==
    ASSUME TInv, UNCHANGED <<plugin, answering>>, NEW k \in 1 .. Len(alerts),
           alerts' = SubSeq(alerts, k + 1, Len(alerts)),
           stale' \/ known' = ToldBy(k)
    PROVE  /\ alerts' \in Seq(Alert) /\ Len(alerts') = Len(alerts) - k
           /\ \A i \in DOMAIN alerts' : WellPosted(alerts'[i])
           /\ Links' /\ LastLink'
<1>0. k \in 1 .. Len(alerts)
    OBVIOUS
<1>1. alerts \in Seq(Alert) /\ TypeOK /\ Links /\ LastLink
    BY DEF TInv, TypeOK
<1>2. /\ Len(alerts) \in Nat /\ DOMAIN alerts = 1 .. Len(alerts)
      /\ alerts' \in Seq(Alert) /\ Len(alerts') = Len(alerts) - k
      /\ DOMAIN alerts' = 1 .. Len(alerts')
      /\ \A i \in 1 .. Len(alerts') : alerts'[i] = alerts[i + k]
    BY <1>1
<1>3. /\ Links'
      /\ Len(alerts') > 0 \/ ~stale' => ToldBy(Len(alerts))' = ToldBy(Len(alerts))
    BY <1>1, <1>2, DropLinks
<1>4. LastLink'
  <2>1. ASSUME Len(alerts') > 0 \/ ~stale'
        PROVE  /\ AfterSuccess(ToldBy(Len(alerts))', answering') = Seen(plugin')
               /\ Done(ToldBy(Len(alerts))', answering')
    <3>1. Len(alerts) > 0
        BY ONLY <1>0, <1>2
    <3>2. /\ AfterSuccess(ToldBy(Len(alerts)), answering) = Seen(plugin)
          /\ Done(ToldBy(Len(alerts)), answering)
        BY <1>1, <3>1 DEF LastLink
    <3>3. ToldBy(Len(alerts))' = ToldBy(Len(alerts))
        BY <1>3, <2>1
    <3>4. plugin' = plugin /\ answering' = answering
        OBVIOUS
    <3> QED
        BY <3>2, <3>3, <3>4, Zenon
  <2> QED
      BY <2>1 DEF LastLink
<1>5. \A i \in DOMAIN alerts : WellPosted(alerts[i])
    BY DEF TInv
<1>6. \A i \in DOMAIN alerts' : WellPosted(alerts'[i])
  <2>1. \A i \in DOMAIN alerts' : i + k \in DOMAIN alerts /\ alerts'[i] = alerts[i + k]
      BY ONLY <1>0, <1>2
  <2> QED
      BY <1>5, <2>1
<1> QED
    BY <1>2, <1>3, <1>4, <1>6

LEMMA CallKeeps ==
    ASSUME TInv, SomeCall
    PROVE  TInv'
<1>0. PICK kind, arg : \E callback \in BOOLEAN :
          Callable(kind, arg) /\ Call(kind, arg, callback)
    BY DEF SomeCall
<1>1. PICK callback \in BOOLEAN : Callable(kind, arg) /\ Call(kind, arg, callback)
    BY <1>0
<1>2. /\ UNCHANGED <<plugin, answering, alerts, batch, known, stale, pc>>
      /\ IF arg \in Accepted(kind) THEN Submit(kind, arg, callback) ELSE Refuse
    BY <1>1 DEF Call
<1>3. Links' /\ LastLink'
    BY <1>2, SameView DEF TInv
<1>4. requests \in Seq(Request) /\ calls \in Seq({"refused", "pending", "answered", "repeated"})
    BY DEF TInv, TypeOK
<1>5. /\ requests' \in Seq(Request)
      /\ calls' \in Seq({"refused", "pending", "answered", "repeated"})
      /\ \A i \in DOMAIN requests' : WellAsked(requests'[i])
  <2>1. CASE arg \in Accepted(kind)
    <3> DEFINE r == [call |-> Len(calls) + 1, kind |-> kind,
                     callback |-> callback, arg |-> arg]
    <3>1. kind \in Kind \ {"status", "none"}
        BY <2>1, <1>1 DEF Callable
    <3>2. arg \in Terms \union {None} \union DOMAIN DecodeInteraction
        BY <2>1 DEF Accepted
    <3>3. r \in Request /\ WellAsked(r)
        BY <1>4, <2>1, <3>1, <3>2 DEF Request, WellAsked
    <3>4. requests' = Append(requests, r) /\ calls' = Append(calls, "pending")
        BY <1>2, <2>1 DEF Submit
    <3> HIDE DEF r
    <3>5. \A i \in DOMAIN requests : WellAsked(requests[i])
        BY DEF TInv
    <3> QED
        BY <1>4, <3>3, <3>4, <3>5
  <2>2. CASE arg \notin Accepted(kind)
    <3>1. requests' = requests /\ calls' = Append(calls, "refused")
        BY <1>2, <2>2 DEF Refuse
    <3>2. \A i \in DOMAIN requests' : WellAsked(requests'[i])
        BY <3>1 DEF TInv
    <3> QED
        BY <1>4, <3>1, <3>2
  <2> QED
      BY <2>1, <2>2
<1> QED
    BY <1>2, <1>3, <1>5 DEF TInv, TypeOK

LEMMA TimerKeeps ==
    ASSUME TInv, PostTorrentPluginStatusUpdates
    PROVE  TInv'
<1>1. /\ UNCHANGED <<plugin, answering, alerts, batch, calls, known, stale, pc>>
      /\ requests' = Append(requests, StatusRequest)
    BY DEF PostTorrentPluginStatusUpdates
<1>2. Links' /\ LastLink'
    BY <1>1, SameView DEF TInv
<1>3. requests \in Seq(Request) /\ \A i \in DOMAIN requests : WellAsked(requests[i])
    BY DEF TInv, TypeOK
<1>4. requests' \in Seq(Request) /\ \A i \in DOMAIN requests' : WellAsked(requests'[i])
    BY <1>1, <1>3, NoRequestIsNone
<1> QED
    BY <1>1, <1>2, <1>4 DEF TInv, TypeOK

LEMMA ExecuteKeeps ==
    ASSUME TInv, Execute
    PROVE  TInv'
<1> DEFINE r == Head(requests)
<1>1. /\ r \in Request /\ WellAsked(r) /\ requests' \in Seq(Request)
      /\ \A i \in DOMAIN requests' : WellAsked(requests'[i])
    BY TakenRequest DEF Execute
<1>2. /\ answering = NoRequest /\ Possible(r) /\ plugin' = Effect(r) /\ answering' = r
      /\ IF r.kind \in DOMAIN AlertOf
         THEN Post(AlertOf[r.kind], NoRequest, FALSE)
         ELSE UNCHANGED alerts
      /\ UNCHANGED <<batch, calls, known, stale, pc>>
    BY DEF Execute, TakeRequest
<1> HIDE DEF r
<1>3. plugin \in Plugin /\ WellFormed(plugin) /\ LastLink /\ Links
    BY DEF TInv, TypeOK
<1>4. /\ plugin' \in Plugin /\ WellFormed(plugin')
      /\ r.kind \in DOMAIN AlertOf =>
           /\ AlertOf[r.kind] \in Events
           /\ \A a : a.type = AlertOf[r.kind] /\ a.after = plugin' => Leads(Seen(plugin), a)
           /\ AfterSuccess(Seen(plugin'), r) = Seen(plugin')
           /\ Done(Seen(plugin'), r)
      /\ r.kind \notin DOMAIN AlertOf =>
           AfterSuccess(Seen(plugin), r) = Seen(plugin') /\ Done(Seen(plugin), r)
    BY <1>1, <1>2, <1>3, EffectTold
<1>5. Len(alerts) > 0 \/ ~stale => ToldBy(Len(alerts)) = Seen(plugin)
    BY <1>2, <1>3, ToldAtRest
<1>6. CASE r.kind \in DOMAIN AlertOf
  <2>1. AlertOf[r.kind] \in AlertType /\ AlertOf[r.kind] # "RequestResult"
    <3>1. \A k \in DOMAIN AlertOf : AlertOf[k] \in AlertType /\ AlertOf[k] # "RequestResult"
        BY AlertTable DEF AlertType
    <3> QED
        BY <1>6, <3>1
  <2>2. /\ alerts' \in Seq(Alert)
        /\ batch' \in 0 .. Len(alerts')
        /\ \A i \in DOMAIN alerts' : WellPosted(alerts'[i])
        /\ Links' /\ LastLink'
    <3>1. Post(AlertOf[r.kind], NoRequest, FALSE)
        BY <1>2, <1>6
    <3>2. \A a : a.type = AlertOf[r.kind] /\ a.after = plugin' =>
              Leads(Seen(plugin), a) /\ TellsDone(Seen(plugin), a)
        BY <1>4, <1>6, <2>1 DEF TellsDone
    <3>3. Len(alerts) > 0 \/ ~stale =>
            \A a : a.type = AlertOf[r.kind] /\ a.request = NoRequest /\ ~a.failed
                       /\ a.after = plugin' =>
                Leads(ToldBy(Len(alerts)), a) /\ TellsDone(ToldBy(Len(alerts)), a)
        BY <1>5, <3>2
    <3>4. /\ AfterSuccess(Seen(plugin'), answering') = Seen(plugin')
          /\ Done(Seen(plugin'), answering')
        BY <1>2, <1>4, <1>6
    <3> QED
        BY <1>2, <1>4, <2>1, <3>1, <3>3, <3>4, NoRequestIsNone, PostedAlert
  <2> QED
      BY <1>1, <1>2, <1>4, <2>2 DEF TInv, TypeOK
<1>7. CASE r.kind \notin DOMAIN AlertOf
  <2>1. alerts' = alerts
      BY <1>2, <1>7
  <2>2. ToldBy(Len(alerts))' = ToldBy(Len(alerts)) /\ Links'
      BY <1>2, <1>3, <2>1 DEF ToldBy, Links
  <2>3. LastLink'
      BY <1>2, <1>4, <1>5, <1>7, <2>1, <2>2 DEF LastLink
  <2> QED
      BY <1>1, <1>2, <1>4, <2>1, <2>2, <2>3 DEF TInv, TypeOK
<1> QED
    BY <1>6, <1>7

LEMMA ExecuteFailsKeeps ==
    ASSUME TInv, ExecuteFails
    PROVE  TInv'
<1> DEFINE r == Head(requests)
<1>1. /\ r \in Request /\ WellAsked(r) /\ requests' \in Seq(Request)
      /\ \A i \in DOMAIN requests' : WellAsked(requests'[i])
    BY TakenRequest DEF ExecuteFails
<1>2. /\ answering = NoRequest
      /\ UNCHANGED <<plugin, answering, batch, calls, known, stale, pc>>
    BY DEF ExecuteFails, TakeRequest
<1>3. Post("RequestResult", r, TRUE)
    BY DEF ExecuteFails
<1> HIDE DEF r
<1>4. plugin \in Plugin /\ WellFormed(plugin) /\ LastLink
    BY DEF TInv, TypeOK
<1>5. \A a : a.type = "RequestResult" /\ a.failed /\ a.after = plugin =>
          Leads(Seen(plugin), a) /\ TellsDone(Seen(plugin), a)
    BY EventTables DEF Leads, TellsDone, Events
<1>6. Len(alerts) > 0 \/ ~stale =>
        \A a : a.type = "RequestResult" /\ a.request = r /\ a.failed
                   /\ a.after = plugin' =>
            Leads(ToldBy(Len(alerts)), a) /\ TellsDone(ToldBy(Len(alerts)), a)
    BY <1>2, <1>4, <1>5, ToldAtRest
<1>7. /\ AfterSuccess(Seen(plugin'), answering') = Seen(plugin')
      /\ Done(Seen(plugin'), answering')
    BY <1>2, NothingAnswered
<1>8. /\ alerts' \in Seq(Alert)
      /\ batch' \in 0 .. Len(alerts')
      /\ \A i \in DOMAIN alerts' : WellPosted(alerts'[i])
      /\ Links' /\ LastLink'
  <2>1. /\ "RequestResult" \in AlertType /\ TRUE \in BOOLEAN
        /\ plugin' \in Plugin /\ WellFormed(plugin')
        /\ known' = known /\ stale' = stale /\ batch' = batch
      BY <1>2, <1>4 DEF AlertType
  <2> QED
      BY <1>1, <1>3, <1>6, <1>7, <2>1, PostedAlert
<1> QED
    BY <1>1, <1>2, <1>8 DEF TInv, TypeOK

LEMMA ReplyKeeps ==
    ASSUME TInv, Reply
    PROVE  TInv'
<1>1. /\ answering' = NoRequest /\ plugin' = plugin
      /\ Post("RequestResult", answering, FALSE)
      /\ UNCHANGED <<requests, batch, calls, known, stale, pc>>
    BY DEF Reply
<1>2. /\ plugin \in Plugin /\ WellFormed(plugin) /\ LastLink
      /\ answering \in Request /\ WellAsked(answering)
    BY DEF TInv, TypeOK
<1>3. "RequestResult" \notin Events
    BY EventTables DEF Events
<1>4. \A k, a : a.type = "RequestResult" /\ a.request = answering /\ ~a.failed
                    /\ a.after = plugin' /\ AfterSuccess(k, answering) = Seen(plugin)
                    /\ Done(k, answering) =>
          Leads(k, a) /\ TellsDone(k, a)
    BY <1>1, <1>3 DEF Leads, TellsDone
<1>5. Len(alerts) > 0 \/ ~stale =>
        \A a : a.type = "RequestResult" /\ a.request = answering /\ ~a.failed
                   /\ a.after = plugin' =>
            Leads(ToldBy(Len(alerts)), a) /\ TellsDone(ToldBy(Len(alerts)), a)
    BY <1>2, <1>4 DEF LastLink
<1>6. /\ AfterSuccess(Seen(plugin'), answering') = Seen(plugin')
      /\ Done(Seen(plugin'), answering')
    BY <1>1, NothingAnswered
<1>7. /\ alerts' \in Seq(Alert)
      /\ batch' \in 0 .. Len(alerts')
      /\ \A i \in DOMAIN alerts' : WellPosted(alerts'[i])
      /\ Links' /\ LastLink'
  <2>1. /\ "RequestResult" \in AlertType /\ FALSE \in BOOLEAN
        /\ plugin' \in Plugin /\ WellFormed(plugin')
        /\ known' = known /\ stale' = stale /\ batch' = batch
      BY <1>1, <1>2 DEF AlertType
  <2> QED
      BY <1>1, <1>2, <1>5, <1>6, <2>1, PostedAlert
<1>8. \A i \in DOMAIN requests' : WellAsked(requests'[i])
    BY <1>1 DEF TInv
<1>9. TypeOK'
    BY <1>1, <1>2, <1>7, NoRequestIsNone DEF TInv, TypeOK
<1> QED
    BY <1>1, <1>2, <1>7, <1>8, <1>9, NoRequestIsNone DEF TInv

LEMMA PostStatusesKeeps ==
    ASSUME TInv, PostStatuses
    PROVE  TInv'
<1>1. /\ requests' \in Seq(Request)
      /\ \A i \in DOMAIN requests' : WellAsked(requests'[i])
    BY TakenRequest DEF PostStatuses
<1>2. /\ answering = NoRequest /\ plugin' = plugin
      /\ Post("TorrentPluginStatusUpdateAlert", NoRequest, FALSE)
      /\ UNCHANGED <<answering, batch, calls, known, stale, pc>>
    BY DEF PostStatuses, TakeRequest
<1>3. plugin \in Plugin /\ WellFormed(plugin) /\ LastLink
    BY DEF TInv, TypeOK
<1>4. "TorrentPluginStatusUpdateAlert" \notin Events
    BY EventTables DEF Events
<1>5. \A a : a.type = "TorrentPluginStatusUpdateAlert" /\ a.after = plugin' =>
          Leads(Seen(plugin), a) /\ TellsDone(Seen(plugin), a)
    BY <1>2, <1>4 DEF Leads, TellsDone
<1>6. Len(alerts) > 0 \/ ~stale =>
        \A a : a.type = "TorrentPluginStatusUpdateAlert" /\ a.request = NoRequest
                   /\ ~a.failed /\ a.after = plugin' =>
            Leads(ToldBy(Len(alerts)), a) /\ TellsDone(ToldBy(Len(alerts)), a)
    BY <1>2, <1>3, <1>5, ToldAtRest
<1>7. /\ AfterSuccess(Seen(plugin'), answering') = Seen(plugin')
      /\ Done(Seen(plugin'), answering')
    BY <1>2, NothingAnswered
<1>8. /\ alerts' \in Seq(Alert)
      /\ batch' \in 0 .. Len(alerts')
      /\ \A i \in DOMAIN alerts' : WellPosted(alerts'[i])
      /\ Links' /\ LastLink'
  <2>1. /\ "TorrentPluginStatusUpdateAlert" \in AlertType
        /\ FALSE \in BOOLEAN
        /\ plugin' \in Plugin /\ WellFormed(plugin')
        /\ known' = known /\ stale' = stale /\ batch' = batch
      BY <1>2, <1>3 DEF AlertType
  <2> QED
      BY <1>2, <1>6, <1>7, <2>1, NoRequestIsNone, PostedAlert
<1>9. TypeOK'
    BY <1>1, <1>2, <1>8 DEF TInv, TypeOK
<1> QED
    BY <1>1, <1>2, <1>8, <1>9 DEF TInv

LEMMA SellersGoneKeeps ==
    ASSUME TInv, AllSellersGone
    PROVE  TInv'
<1>1. /\ answering = NoRequest
      /\ plugin.buying = "downloading"
      /\ plugin' = [plugin EXCEPT !.buying = "sending_invitations"]
      /\ Post("AllSellersGone", NoRequest, FALSE)
      /\ UNCHANGED <<requests, answering, batch, calls, known, stale, pc>>
    BY DEF AllSellersGone, Spontaneously
<1>2. plugin \in Plugin /\ WellFormed(plugin) /\ LastLink
    BY DEF TInv, TypeOK
<1>3. plugin' \in Plugin /\ WellFormed(plugin')
    BY <1>1, <1>2 DEF Plugin, BuyingState, WellFormed
<1>4. ASSUME NEW a, a.type = "AllSellersGone", a.after = plugin'
      PROVE  Leads(Seen(plugin), a) /\ TellsDone(Seen(plugin), a)
  <2>1. a.type \in Events /\ a.type # "RequestResult"
      BY <1>4 DEF Events
  <2>2. AfterEvent(Seen(plugin), a) = [Seen(plugin) EXCEPT !.buying = "sending_invitations"]
      BY <1>2, <1>4, BuyingTable, EventTables, SeenFields
      DEF AfterEvent, ToldOr, TermsTold
  <2>3. Seen(plugin') = [Seen(plugin) EXCEPT !.buying = "sending_invitations"]
      BY <1>1, <1>2, <1>3, SeenFields DEF Plugin
  <2> QED
      BY <1>4, <2>1, <2>2, <2>3 DEF Leads, TellsDone
<1>6. Len(alerts) > 0 \/ ~stale =>
        \A a : a.type = "AllSellersGone" /\ a.request = NoRequest
                   /\ ~a.failed /\ a.after = plugin' =>
            Leads(ToldBy(Len(alerts)), a) /\ TellsDone(ToldBy(Len(alerts)), a)
    BY <1>1, <1>2, <1>4, ToldAtRest
<1>7. /\ AfterSuccess(Seen(plugin'), answering') = Seen(plugin')
      /\ Done(Seen(plugin'), answering')
    BY <1>1, NothingAnswered
<1>8. /\ alerts' \in Seq(Alert)
      /\ batch' \in 0 .. Len(alerts')
      /\ \A i \in DOMAIN alerts' : WellPosted(alerts'[i])
      /\ Links' /\ LastLink'
  <2>1. /\ "AllSellersGone" \in AlertType
        /\ FALSE \in BOOLEAN
        /\ known' = known /\ stale' = stale /\ batch' = batch
      BY <1>1 DEF AlertType
  <2> QED
      BY <1>1, <1>3, <1>6, <1>7, <2>1, NoRequestIsNone, PostedAlert
<1>9. TypeOK'
    BY <1>1, <1>3, <1>8 DEF TInv, TypeOK
<1> QED
    BY <1>1, <1>3, <1>8, <1>9 DEF TInv

LEMMA CompletedKeeps ==
    ASSUME TInv, DownloadCompletes
    PROVE  TInv'
<1>1. /\ plugin.buying = "downloading"
      /\ plugin' = [plugin EXCEPT !.buying = "download_completed"]
      /\ UNCHANGED <<requests, answering, alerts, batch, calls, known, stale, pc>>
    BY DEF DownloadCompletes, Spontaneously
<1>2. plugin \in Plugin /\ WellFormed(plugin) /\ LastLink /\ Links
    BY DEF TInv, TypeOK
<1>3. plugin' \in Plugin /\ WellFormed(plugin')
    BY <1>1, <1>2 DEF Plugin, BuyingState, WellFormed
<1>4. Seen(plugin') = Seen(plugin)
    BY <1>1, <1>2, <1>3, SeenFields DEF Plugin
<1>5. ToldBy(Len(alerts))' = ToldBy(Len(alerts)) /\ Links'
    BY <1>1, <1>2 DEF ToldBy, Links
<1>6. LastLink'
    BY <1>1, <1>2, <1>4, <1>5 DEF LastLink
<1>7. TypeOK'
    BY <1>1, <1>3 DEF TInv, TypeOK
<1> QED
    BY <1>1, <1>3, <1>5, <1>6, <1>7 DEF TInv

LEMMA PopKeeps ==
    ASSUME TInv, PopAlerts
    PROVE  TInv'
<1>1. /\ batch' = Len(alerts)
      /\ UNCHANGED <<plugin, requests, answering, alerts, calls, known, stale, pc>>
    BY DEF PopAlerts
<1>2. Links' /\ LastLink'
    BY <1>1, SameView DEF TInv
<1>3. TypeOK'
    BY <1>1 DEF TInv, TypeOK
<1> QED
    BY <1>1, <1>2, <1>3 DEF TInv

(* The alert that JavaScript processes, and what it tells.                 *)
LEMMA HeadAlert ==
    ASSUME TInv, batch > 0
    PROVE  /\ Len(alerts) \in Nat \ {0} /\ batch \in 1 .. Len(alerts)
           /\ Head(alerts) = alerts[1] /\ Head(alerts) \in Alert
           /\ Head(alerts).after \in Plugin /\ WellPosted(Head(alerts))
           /\ ToldBy(1) = Seen(Head(alerts).after)
           /\ ~stale => Leads(known, Head(alerts)) /\ TellsDone(known, Head(alerts))
<1>1. alerts \in Seq(Alert) /\ batch \in 0 .. Len(alerts)
    BY DEF TInv, TypeOK
<1>2. /\ Len(alerts) \in Nat \ {0} /\ batch \in 1 .. Len(alerts)
      /\ 1 \in DOMAIN alerts /\ Head(alerts) = alerts[1] /\ Head(alerts) \in Alert
    BY <1>1
<1>3. Head(alerts).after \in Plugin
    BY <1>2 DEF Alert
<1>4. /\ WellPosted(alerts[1])
      /\ ~stale => Leads(ToldBy(0), alerts[1]) /\ TellsDone(ToldBy(0), alerts[1])
  <2>1. 1 - 1 = 0
      OBVIOUS
  <2> QED
      BY <1>2, <2>1 DEF TInv, Links
<1> QED
    BY <1>2, <1>3, <1>4 DEF ToldBy

(* It goes on to the next, or gives the batch up.                          *)
LEMMA ProcessedKeeps ==
    ASSUME TInv, batch > 0, UNCHANGED <<plugin, requests, answering>>,
           calls' \in Seq({"refused", "pending", "answered", "repeated"}),
           \/ Advance /\ known' \in Plugin /\ stale' \in BOOLEAN
              /\ (stale' \/ known' = Seen(Head(alerts).after))
           \/ Abort /\ known' \in Plugin
    PROVE  TInv'
<1>1. alerts \in Seq(Alert) /\ batch \in 1 .. Len(alerts) /\ Len(alerts) \in Nat \ {0}
    BY HeadAlert DEF TInv, TypeOK
<1>2. ASSUME NEW k \in 1 .. Len(alerts), alerts' = SubSeq(alerts, k + 1, Len(alerts)),
             batch' \in 0 .. Len(alerts) - k, known' \in Plugin, stale' \in BOOLEAN,
             pc' \in {"running", "exited"}, stale' \/ known' = ToldBy(k)
      PROVE  TInv'
  <2>1. /\ alerts' \in Seq(Alert) /\ Len(alerts') = Len(alerts) - k
        /\ \A i \in DOMAIN alerts' : WellPosted(alerts'[i])
        /\ Links' /\ LastLink'
      BY <1>2, DroppedAlerts
  <2>2. TypeOK'
      BY <1>2, <2>1 DEF TInv, TypeOK
  <2>3. /\ \A i \in DOMAIN requests' : WellAsked(requests'[i])
        /\ WellAsked(answering') /\ WellFormed(plugin')
      BY DEF TInv
  <2> QED
      BY <2>1, <2>2, <2>3 DEF TInv
<1>3. CASE Advance /\ known' \in Plugin /\ stale' \in BOOLEAN
              /\ (stale' \/ known' = Seen(Head(alerts).after))
  <2>1. Tail(alerts) = SubSeq(alerts, 2, Len(alerts))
      BY <1>1
  <2>2. /\ alerts' = SubSeq(alerts, 1 + 1, Len(alerts))
        /\ batch' \in 0 .. Len(alerts) - 1 /\ pc' \in {"running", "exited"}
        /\ 1 \in 1 .. Len(alerts)
      BY <1>1, <1>3, <2>1 DEF Advance, TInv, TypeOK
  <2>3. stale' \/ known' = ToldBy(1)
      BY <1>3, HeadAlert
  <2> QED
      BY <1>2, <1>3, <2>2, <2>3
<1>4. CASE Abort /\ known' \in Plugin
    BY <1>1, <1>2, <1>4 DEF Abort, TInv, TypeOK
<1> QED
    BY <1>3, <1>4

LEMMA HandleEventKeeps ==
    ASSUME TInv, HandleEvent
    PROVE  TInv'
<1> DEFINE a == Head(alerts)
<1>1. /\ batch > 0 /\ a.type \in Events
      /\ UNCHANGED <<plugin, requests, answering, calls>>
    BY DEF HandleEvent, Processing
<1>2. calls' \in Seq({"refused", "pending", "answered", "repeated"})
    BY <1>1 DEF TInv, TypeOK
<1>3. CASE Advance /\ known' = AfterEvent(known, a) /\ UNCHANGED stale
  <2>1. ~stale => known' = Seen(a.after)
      BY <1>1, <1>3, HeadAlert DEF Leads
  <2>2. known' \in Plugin
    <3>1. known \in Plugin /\ a.after \in Plugin
        BY <1>1, HeadAlert DEF TInv, TypeOK
    <3>2. /\ ToldOr(ModeTold, a.type, known.mode) \in Mode
          /\ ToldOr(StateTold, a.type, known.state) \in State
        BY <3>1, EventTables DEF ToldOr, Plugin, Mode, State
    <3>3. ToldOr(BuyingTold, a.type, known.buying) \in BuyingState
        BY <3>1, BuyingTable DEF ToldOr, Plugin, BuyingState
    <3> HIDE DEF a
    <3> QED
        BY <1>3, <3>1, <3>2, <3>3 DEF AfterEvent, Plugin
  <2>3. stale' \in BOOLEAN /\ (stale' \/ known' = Seen(a.after))
      BY <1>3, <2>1 DEF TInv, TypeOK
  <2> QED
      BY <1>1, <1>2, <1>3, <2>2, <2>3, ProcessedKeeps
<1>4. CASE Abort /\ UNCHANGED known
  <2>1. known' \in Plugin
      BY <1>4 DEF TInv, TypeOK
  <2> QED
      BY <1>1, <1>2, <1>4, <2>1, ProcessedKeeps
<1> QED
    BY <1>3, <1>4 DEF HandleEvent

LEMMA HandleResultKeeps ==
    ASSUME TInv, HandleResult
    PROVE  TInv'
<1> DEFINE a == Head(alerts)
<1>1. /\ batch > 0 /\ a.type = "RequestResult"
      /\ UNCHANGED <<plugin, requests, answering>>
    BY DEF HandleResult, Processing
<1>2. /\ known \in Plugin /\ stale \in BOOLEAN
      /\ calls \in Seq({"refused", "pending", "answered", "repeated"})
    BY DEF TInv, TypeOK
<1>3. calls' \in Seq({"refused", "pending", "answered", "repeated"})
    BY <1>2 DEF HandleResult, CallBack
<1>4. ASSUME NEW what \in What, HearAnswer(a, what)
      PROVE  TInv'
  <2>1. /\ Advance /\ stale' \in BOOLEAN
        /\ known' = IF TakenForSuccess(a, what) THEN AfterSuccess(known, a.request) ELSE known
        /\ ~stale' => ~stale /\ ~Misleads(a, what)
      BY <1>2, <1>4 DEF HearAnswer
  <2>2. stale' \/ known' = Seen(a.after)
    <3>1. "RequestResult" \notin Events
        BY EventTables DEF Events
    <3>2. ~stale => Seen(a.after) = IF ~a.failed THEN AfterSuccess(known, a.request) ELSE known
        BY <1>1, <3>1, HeadAlert DEF Leads
    <3>3. TakenForSuccess(a, what) <=> ~a.failed \/ Misleads(a, what)
        BY WhatAssumption DEF TakenForSuccess, ArgumentsOf, Misleads
    <3> QED
        BY <2>1, <3>2, <3>3
  <2>3. known' \in Plugin
    <3>1. CASE known' = known
        BY <1>2, <3>1
    <3>2. CASE a.request.kind = "set_libtorrent_interaction"
               /\ known' = AfterSuccess(known, a.request)
      <4>1. a.request.arg \in 0 .. 3
        <5>1. a.request.arg \in Accepted("set_libtorrent_interaction")
            BY <1>1, <3>2, HeadAlert DEF WellPosted, WellAsked
        <5> QED
            BY <5>1 DEF Accepted, TermsCalls, DecodeInteraction
      <4>2. PICK i \in Interaction : known' = [known EXCEPT !.interaction = i]
        <5> DEFINE v == a.request.arg
                   d == CHOOSE name \in Interaction : EncodeInteraction[name] = v
        <5>1. known' = [known EXCEPT !.interaction = d]
            BY <3>2 DEF AfterSuccess
        <5>2. v \in 0 .. 3
            BY <4>1
        <5> HIDE DEF v
        <5>3. d \in Interaction
          <6>1. \E name \in Interaction : EncodeInteraction[name] = v
              BY <5>2 DEF EncodeInteraction, Interaction
          <6> QED
              BY <6>1
        <5> HIDE DEF d
        <5> QED
            BY <5>1, <5>3
      <4> QED
          BY <1>2, <4>2 DEF Plugin
    <3> QED
        BY <2>1, <3>1, <3>2 DEF AfterSuccess
  <2> QED
      BY <1>1, <1>3, <2>1, <2>2, <2>3, ProcessedKeeps
<1>5. CASE Abort /\ UNCHANGED known
    BY <1>1, <1>2, <1>3, <1>5, ProcessedKeeps
<1> QED
    BY <1>4, <1>5 DEF HandleResult

LEMMA HandleStatusKeeps ==
    ASSUME TInv, HandleStatus
    PROVE  TInv'
<1> DEFINE a == Head(alerts)
<1>1. /\ batch > 0 /\ ((Advance /\ stale' = FALSE) \/ Abort)
      /\ known' = Read(EncodeStatus(a.after))
      /\ UNCHANGED <<plugin, requests, answering, calls>>
    BY DEF HandleStatus, Processing
<1>2. a.after \in Plugin /\ WellFormed(a.after)
    BY <1>1, HeadAlert DEF WellPosted
<1>3. known' = Seen(a.after) /\ known' \in Plugin
    BY <1>1, <1>2, StatusReadsSeen, SeenFields
<1>4. calls' \in Seq({"refused", "pending", "answered", "repeated"})
    BY <1>1 DEF TInv, TypeOK
<1> QED
    BY <1>1, <1>3, <1>4, ProcessedKeeps

LEMMA InitTells == Init => TInv
<1> SUFFICES ASSUME Init PROVE TInv
    OBVIOUS
<1>1. plugin \in Plugin /\ AtRest(plugin)
    BY DEF Init
<1>2. /\ requests = <<>> /\ answering = NoRequest /\ alerts = <<>> /\ batch = 0
      /\ calls = <<>> /\ known = plugin /\ stale = FALSE /\ pc = "running"
    BY DEF Init
<1>3. TypeOK
  <2>1. /\ <<>> \in Seq(Request) /\ <<>> \in Seq(Alert) /\ Len(<<>>) = 0
        /\ <<>> \in Seq({"refused", "pending", "answered", "repeated"})
      OBVIOUS
  <2>2. 0 \in 0 .. Len(<<>>)
      BY <2>1
  <2> QED
      BY <1>1, <1>2, <2>1, <2>2, NoRequestIsNone, Zenon DEF TypeOK
<1>4. WellFormed(plugin)
    BY <1>1 DEF AtRest, WellFormed, Plugin, Mode
<1>5. Links
    BY <1>2 DEF Links
<1>6. LastLink
  <2>1. ToldBy(Len(alerts)) = known
      BY <1>2 DEF ToldBy
  <2>2. Seen(plugin) = plugin
      BY <1>1, SeenFields DEF AtRest, Plugin
  <2> QED
      BY <1>2, <2>1, <2>2, NothingAnswered DEF LastLink
<1>7. /\ \A i \in DOMAIN requests : WellAsked(requests[i])
      /\ \A i \in DOMAIN alerts : WellPosted(alerts[i])
    BY <1>2
<1> QED
    BY <1>2, <1>3, <1>4, <1>5, <1>6, <1>7, NoRequestIsNone DEF TInv

LEMMA StepTells == TInv /\ [Next]_vars => TInv'
<1> SUFFICES ASSUME TInv, [Next]_vars PROVE TInv'
    OBVIOUS
<1>1. CASE User
    BY <1>1, UserCalls, CallKeeps
<1>2. CASE PostTorrentPluginStatusUpdates
    BY <1>2, TimerKeeps
<1>3. CASE Network
    BY <1>3, ExecuteKeeps, ExecuteFailsKeeps, ReplyKeeps, PostStatusesKeeps DEF Network
<1>4. CASE AllSellersGone \/ DownloadCompletes
    BY <1>4, SellersGoneKeeps, CompletedKeeps
<1>5. CASE PopAlerts
    BY <1>5, PopKeeps
<1>6. CASE JavaScript
    BY <1>6, HandleEventKeeps, HandleResultKeeps, HandleStatusKeeps DEF JavaScript
<1>7. CASE UNCHANGED vars
  <2>1. Links' /\ LastLink'
      BY <1>7, SameView DEF TInv, vars
  <2> QED
      BY <1>7, <2>1 DEF TInv, TypeOK, vars
<1> QED
    BY <1>1, <1>2, <1>3, <1>4, <1>5, <1>6, <1>7 DEF Next

(***************************************************************************)
(* The inductive invariant of what the program is told: each alert leads   *)
(* from what the alerts before it told to the plugin it was posted at, and *)
(* the last one, with the answer in the making, to the plugin as it is.    *)
(***************************************************************************)
THEOREM ToldTruth == Spec => []TInv
<1> QED
    BY InitTells, StepTells, PTL DEF Spec

(***************************************************************************)
(* When a callback finds no error, the program was told before that what   *)
(* it asked for is done, and of nothing since that undid it; unless the    *)
(* call failed with the empty text.                                        *)
(***************************************************************************)
THEOREM AnswersTellEffects == Spec => []AnswerTellsEffect
<1>1. TInv => AnswerTellsEffect
  <2> SUFFICES ASSUME TInv, ~stale, NextIs("RequestResult"), NEW what \in What,
                      TakenForSuccess(Head(alerts), what),
                      ~Misleads(Head(alerts), what)
               PROVE  Done(known, Head(alerts).request)
      BY DEF AnswerTellsEffect
  <2>1. TellsDone(known, Head(alerts))
      BY HeadAlert DEF NextIs
  <2>2. ~Head(alerts).failed
      BY WhatAssumption DEF TakenForSuccess, ArgumentsOf, Misleads
  <2> QED
      BY <2>1, <2>2 DEF TellsDone, NextIs
<1> QED
    BY <1>1, ToldTruth, PTL

(***************************************************************************)
(* A status shows, by the names the module exports, exactly what events    *)
(* and answers before it told.                                             *)
(***************************************************************************)
THEOREM StatusesAgree == Spec => []StatusAgrees
<1>1. TInv => StatusAgrees
  <2> SUFFICES ASSUME TInv, ~stale, NextIs("TorrentPluginStatusUpdateAlert")
               PROVE  LET status == EncodeStatus(Head(alerts).after)
                          s      == status.session
                      IN  /\ \A m \in Mode : s.mode = EncodeMode[m] <=> known.mode = m
                          /\ \A x \in State : s.state = EncodeState[x] <=> known.state = x
                          /\ \A i \in Interaction :
                                 status.libtorrentInteraction = EncodeInteraction[i]
                                     <=> known.interaction = i
                          /\ s.selling # <<>> <=> known.mode = "selling"
                          /\ s.buying # <<>> <=> known.mode = "buying"
                          /\ Read(status) = known
      BY DEF StatusAgrees
  <2> DEFINE p == Head(alerts).after
             s == EncodeSession(p)
  <2>1. /\ p \in Plugin /\ WellFormed(p) /\ known = Seen(p)
    <3>1. /\ p \in Plugin /\ WellFormed(p) /\ Leads(known, Head(alerts))
        BY HeadAlert DEF NextIs, WellPosted
    <3>2. /\ Head(alerts).type = "TorrentPluginStatusUpdateAlert"
          /\ "TorrentPluginStatusUpdateAlert" \notin Events
        BY EventTables DEF NextIs, Events
    <3> QED
        BY <3>1, <3>2 DEF Leads
  <2>2. /\ EncodeStatus(p).session = s
        /\ EncodeStatus(p).libtorrentInteraction = EncodeInteraction[p.interaction]
        /\ s.mode = EncodeMode[p.mode] /\ s.state = EncodeState[p.state]
        /\ s.selling = IF p.mode = "selling" THEN [terms |-> p.terms] ELSE <<>>
        /\ s.buying = IF p.mode = "buying"
                      THEN [state |-> EncodeBuyingState[p.buying], terms |-> p.terms]
                      ELSE <<>>
      BY DEF EncodeStatus, EncodeSession
  <2>3. Read(EncodeStatus(p)) = known
      BY <2>1, StatusReadsSeen
  <2> HIDE DEF p, s
  <2>4. /\ p.mode \in Mode /\ p.state \in State /\ p.interaction \in Interaction
        /\ known.mode = p.mode /\ known.state = p.state
        /\ known.interaction = p.interaction
      BY <2>1, SeenFields DEF Plugin
  <2>5. /\ \A m \in Mode : EncodeMode[p.mode] = EncodeMode[m] <=> p.mode = m
        /\ \A x \in State : EncodeState[p.state] = EncodeState[x] <=> p.state = x
        /\ \A i \in Interaction :
               EncodeInteraction[p.interaction] = EncodeInteraction[i] <=> p.interaction = i
      BY <2>4, NamesFound
  <2>6. s.selling # <<>> <=> known.mode = "selling"
    <3>1. [terms |-> p.terms] # <<>>
      <4>1. "terms" \in DOMAIN [terms |-> p.terms] /\ "terms" \notin DOMAIN <<>>
          OBVIOUS
      <4> QED
          BY ONLY <4>1
    <3> QED
        BY <2>2, <2>4, <3>1
  <2>7. s.buying # <<>> <=> known.mode = "buying"
    <3>1. [state |-> EncodeBuyingState[p.buying], terms |-> p.terms] # <<>>
      <4> DEFINE b == [state |-> EncodeBuyingState[p.buying], terms |-> p.terms]
      <4>1. "terms" \in DOMAIN b /\ "terms" \notin DOMAIN <<>>
          OBVIOUS
      <4> QED
          BY ONLY <4>1
    <3> QED
        BY <2>2, <2>4, <3>1
  <2> QED
      BY <2>2, <2>3, <2>4, <2>5, <2>6, <2>7 DEF p
<1> QED
    BY <1>1, ToldTruth, PTL

(***************************************************************************)
(* Once every alert is processed the program knows the plugin as it is.    *)
(***************************************************************************)
THEOREM NothingGoesUntold == Spec => []NothingUntold
<1>1. TInv => NothingUntold
  <2> SUFFICES ASSUME TInv, ~stale, alerts = <<>>, answering = NoRequest
               PROVE  known = Seen(plugin)
      BY DEF NothingUntold
  <2>1. ToldBy(Len(alerts)) = Seen(plugin)
      BY ToldAtRest DEF TInv
  <2> QED
      BY <2>1 DEF ToldBy
<1> QED
    BY <1>1, ToldTruth, PTL

(* Types of what is on the way.                                            *)
LEMMA WayTypes ==
    ASSUME TypeOK
    PROVE  /\ Len(alerts) \in Nat /\ Len(requests) \in Nat /\ Len(calls) \in Nat
           /\ DOMAIN alerts = 1 .. Len(alerts) /\ DOMAIN requests = 1 .. Len(requests)
           /\ DOMAIN calls = 1 .. Len(calls)
           /\ \A n \in Way : At(n) \in Request
<1>1. /\ alerts \in Seq(Alert) /\ requests \in Seq(Request) /\ answering \in Request
      /\ calls \in Seq({"refused", "pending", "answered", "repeated"})
    BY DEF TypeOK
<1>2. /\ Len(alerts) \in Nat /\ Len(requests) \in Nat /\ Len(calls) \in Nat
      /\ DOMAIN alerts = 1 .. Len(alerts) /\ DOMAIN requests = 1 .. Len(requests)
      /\ DOMAIN calls = 1 .. Len(calls)
      /\ \A i \in 1 .. Len(alerts) : alerts[i] \in Alert
      /\ \A i \in 1 .. Len(requests) : requests[i] \in Request
    BY <1>1
<1>3. \A i \in 1 .. Len(alerts) : alerts[i].request \in Request
    BY <1>2 DEF Alert
<1>4. ASSUME NEW n \in Way
      PROVE  At(n) \in Request
  <2>1. CASE n <= Len(alerts)
      BY <1>2, <1>3, <2>1 DEF Way, At
  <2>2. CASE n = Len(alerts) + 1
      BY <1>1, <1>2, <2>2 DEF At
  <2>3. CASE n > Len(alerts) + 1
      BY <1>2, <2>3 DEF Way, At
  <2> QED
      BY <1>2, <2>1, <2>2, <2>3 DEF Way
<1> QED
    BY <1>2, <1>4

(* A call is owed an answer as long as it is on the way.                   *)
OwedIsOnWay == \A i : Owed(i) <=> i # 0 /\ \E n \in Way : At(n).call = i

LEMMA OwedOnWay == TypeOK => OwedIsOnWay
<1> SUFFICES ASSUME TypeOK
             PROVE  \A i : Owed(i) <=> i # 0 /\ \E n \in Way : At(n).call = i
    BY DEF OwedIsOnWay
<1>1. /\ Len(alerts) \in Nat /\ Len(requests) \in Nat
      /\ DOMAIN alerts = 1 .. Len(alerts) /\ DOMAIN requests = 1 .. Len(requests)
    BY WayTypes
<1>2. \A n \in DOMAIN alerts : n \in Way /\ At(n) = alerts[n].request
    BY <1>1 DEF Way, At
<1>3. Len(alerts) + 1 \in Way /\ At(Len(alerts) + 1) = answering
    BY <1>1 DEF Way, At
<1>4. \A n \in DOMAIN requests :
          Len(alerts) + 1 + n \in Way /\ At(Len(alerts) + 1 + n) = requests[n]
    BY <1>1 DEF Way, At
<1>5. ASSUME NEW n \in Way
      PROVE  \/ n \in DOMAIN alerts
             \/ n = Len(alerts) + 1
             \/ n - Len(alerts) - 1 \in DOMAIN requests
                /\ At(n) = requests[n - Len(alerts) - 1]
    BY <1>1 DEF Way, At
<1> TAKE i
<1>6. ASSUME Owed(i)
      PROVE  i # 0 /\ \E n \in Way : At(n).call = i
  <2>1. CASE \E n \in DOMAIN requests : OwedBy(requests[n], i)
      BY <2>1, <1>4 DEF OwedBy
  <2>2. CASE OwedBy(answering, i)
      BY <2>2, <1>3 DEF OwedBy
  <2>3. CASE \E n \in DOMAIN alerts : OwedBy(alerts[n].request, i)
      BY <2>3, <1>2 DEF OwedBy
  <2> QED
      BY <1>6, <2>1, <2>2, <2>3 DEF Owed
<1>7. ASSUME i # 0, NEW n \in Way, At(n).call = i
      PROVE  Owed(i)
  <2>1. CASE n \in DOMAIN alerts
      BY <1>2, <1>7, <2>1 DEF Owed, OwedBy
  <2>2. CASE n = Len(alerts) + 1
      BY <1>3, <1>7, <2>2 DEF Owed, OwedBy
  <2>3. CASE n - Len(alerts) - 1 \in DOMAIN requests
             /\ At(n) = requests[n - Len(alerts) - 1]
      BY <1>7, <2>3 DEF Owed, OwedBy
  <2> QED
      BY <1>5, <2>1, <2>2, <2>3
<1> QED
    BY <1>6, <1>7

LEMMA OwedOnWayNext == TypeOK' => OwedIsOnWay'
    BY OwedOnWay, PTL

(* Requests move along the way and may leave it; none overtakes another.   *)
LEMMA MovesOn ==
    ASSUME TypeOK, TypeOK', CallsInOrder, NEW f,
           \A n \in Way' : Silent(At(n)') \/ (f[n] \in Way /\ At(n)' = At(f[n])),
           \A m, n \in Way' : m < n /\ ~Silent(At(m)') /\ ~Silent(At(n)') => f[m] < f[n],
           \/ calls' = calls
           \/ /\ calls' = [calls EXCEPT ![At(1).call] = "answered"]
              /\ At(1).call # 0
              /\ \A n \in Way' : Silent(At(n)') \/ f[n] > 1
    PROVE  CallsInOrder' /\ \A i : Owed(i)' => Owed(i)
<1>1. /\ \A n \in Way : At(n) \in Request
      /\ DOMAIN calls = 1 .. Len(calls) /\ Len(calls) \in Nat
      /\ 1 \in Way /\ Way \subseteq Int
    BY WayTypes DEF Way
<1>2. \A r \in Request : r.call \in Nat /\ r.callback \in BOOLEAN
    BY DEF Request
<1>3. ASSUME NEW n \in Way'
      PROVE  Waits(At(n))'
  <2>1. CASE Silent(At(n)')
      BY <2>1 DEF Waits, Silent
  <2>2. CASE ~Silent(At(n)')
    <3>1. f[n] \in Way /\ At(n)' = At(f[n]) /\ Waits(At(f[n]))
        BY <2>2 DEF CallsInOrder
    <3>2. CASE calls' = calls
        BY <3>1, <3>2 DEF Waits
    <3>3. CASE /\ calls' = [calls EXCEPT ![At(1).call] = "answered"]
               /\ At(1).call # 0 /\ f[n] > 1
      <4>1. Earlier(At(1), At(f[n]))
          BY <1>1, <3>1, <3>3 DEF CallsInOrder
      <4>2. At(f[n]).call # At(1).call
          BY <1>1, <1>2, <3>1, <3>3, <4>1 DEF Earlier
      <4>3. At(f[n]).call # 0 => calls'[At(f[n]).call] = "pending"
                                 /\ At(f[n]).call \in DOMAIN calls'
          BY <3>1, <3>3, <4>2 DEF Waits
      <4> QED
          BY <3>1, <4>3 DEF Waits
    <3> QED
        BY <2>2, <3>2, <3>3
  <2> QED
      BY <2>1, <2>2
<1>4. ASSUME NEW m \in Way', NEW n \in Way', m < n
      PROVE  Earlier(At(m)', At(n)')
  <2>1. CASE Silent(At(m)') \/ Silent(At(n)')
      BY <2>1 DEF Earlier, Silent
  <2>2. CASE ~Silent(At(m)') /\ ~Silent(At(n)')
      BY <1>4, <2>2 DEF CallsInOrder
  <2> QED
      BY <2>1, <2>2
<1>5. CallsInOrder'
    BY <1>3, <1>4 DEF CallsInOrder, Earlier
<1>6. ASSUME NEW i, Owed(i)'
      PROVE  Owed(i)
  <2>1. i # 0 /\ \E n \in Way' : At(n)'.call = i
    <3>1. \A j : Owed(j)' <=> j # 0 /\ \E n \in Way' : At(n)'.call = j
        BY OwedOnWayNext DEF OwedIsOnWay
    <3> QED
        BY <1>6, <3>1
  <2>2. PICK n \in Way' : At(n)'.call = i
      BY <2>1
  <2>3. f[n] \in Way /\ At(f[n]).call = i
      BY <2>1, <2>2 DEF Silent
  <2> QED
      BY <2>1, <2>3, OwedOnWay DEF OwedIsOnWay
<1> QED
    BY <1>5, <1>6

(* An order-preserving map of positions is all that MovesOn asks for.      *)
LEMMA SilentRequests == Silent(NoRequest) /\ Silent(StatusRequest)
    BY DEF Silent, NoRequest, StatusRequest

(* How the two queues change.                                              *)
LEMMA QueueChanges ==
    ASSUME TypeOK
    PROVE  /\ Len(alerts) \in Nat /\ Len(requests) \in Nat
           /\ requests # <<>> /\ requests' = Tail(requests) =>
                /\ Len(requests) > 0 /\ Len(requests') = Len(requests) - 1
                /\ Head(requests) = requests[1]
                /\ \A j \in 1 .. Len(requests') : requests'[j] = requests[j + 1]
           /\ \A type, request, failed : Post(type, request, failed) =>
                /\ Len(alerts') = Len(alerts) + 1
                /\ alerts'[Len(alerts) + 1].request = request
                /\ \A i \in 1 .. Len(alerts) : alerts'[i] = alerts[i]
<1>1. /\ alerts \in Seq(Alert) /\ requests \in Seq(Request)
      /\ Len(alerts) \in Nat /\ Len(requests) \in Nat
    BY DEF TypeOK
<1>2. ASSUME requests # <<>>, requests' = Tail(requests)
      PROVE  /\ Len(requests) > 0 /\ Len(requests') = Len(requests) - 1
             /\ Head(requests) = requests[1]
             /\ \A j \in 1 .. Len(requests') : requests'[j] = requests[j + 1]
    BY <1>1, <1>2
<1>3. ASSUME NEW type, NEW request, NEW failed, Post(type, request, failed)
      PROVE  /\ Len(alerts') = Len(alerts) + 1
             /\ alerts'[Len(alerts) + 1].request = request
             /\ \A i \in 1 .. Len(alerts) : alerts'[i] = alerts[i]
  <2> DEFINE a == [type |-> type, request |-> request, failed |-> failed,
                   after |-> plugin']
  <2>1. alerts' = Append(alerts, a) /\ a.request = request
      BY <1>3 DEF Post
  <2> HIDE DEF a
  <2> QED
      BY <1>1, <2>1
<1> QED
    BY <1>1, <1>2, <1>3

LEMMA ExecuteMoves ==
    ASSUME TypeOK, TypeOK', CallsInOrder, Execute
    PROVE  CallsInOrder' /\ \A i : Owed(i)' => Owed(i)
<1> DEFINE L == Len(alerts)
           r == Head(requests)
<1>1. /\ L \in Nat /\ Len(requests) \in Nat /\ Len(requests) > 0
      /\ Len(requests') = Len(requests) - 1 /\ r = requests[1]
      /\ \A j \in 1 .. Len(requests') : requests'[j] = requests[j + 1]
    BY QueueChanges DEF Execute, TakeRequest
<1>2. answering = NoRequest /\ answering' = r /\ calls' = calls
    BY DEF Execute, TakeRequest
<1>3. CASE Post(AlertOf[r.kind], NoRequest, FALSE)
  <2>1. /\ Len(alerts') = L + 1 /\ alerts'[L + 1].request = NoRequest
        /\ \A i \in 1 .. L : alerts'[i] = alerts[i]
      BY <1>3, QueueChanges
  <2> DEFINE f == [n \in Way' |-> n]
  <2>2. ASSUME NEW n \in Way'
        PROVE  f[n] \in Way /\ At(n)' = At(f[n])
    <3>1. n \in Way /\ f[n] = n
        BY <1>1, <2>1 DEF Way
    <3>2. CASE n <= L
        BY <1>1, <2>1, <3>1, <3>2 DEF Way, At
    <3>3. CASE n = L + 1
        BY <1>1, <1>2, <2>1, <3>1, <3>3 DEF At
    <3>4. CASE n = L + 2
      <4>1. n - L - 1 = 1 /\ ~(n <= L + 1) /\ n = Len(alerts') + 1
          BY <1>1, <2>1, <3>4
      <4> QED
          BY <1>1, <1>2, <2>1, <3>1, <4>1 DEF At
    <3>5. CASE n > L + 2
      <4>1. /\ n - Len(alerts') - 1 \in 1 .. Len(requests')
            /\ n - Len(alerts') - 1 + 1 = n - L - 1
            /\ ~(n <= Len(alerts')) /\ n # Len(alerts') + 1
            /\ ~(n <= L) /\ n # L + 1
          BY <1>1, <2>1, <3>5 DEF Way
      <4> QED
          BY <1>1, <3>1, <4>1 DEF At
    <3> QED
        BY <1>1, <3>1, <3>2, <3>3, <3>4, <3>5 DEF Way
  <2>3. \A m, n \in Way' : m < n => f[m] < f[n]
      OBVIOUS
  <2> HIDE DEF f
  <2> QED
      BY <1>2, <2>2, <2>3, MovesOn
<1>4. CASE UNCHANGED alerts
  <2> DEFINE f == [n \in Way' |-> IF n <= L THEN n ELSE n + 1]
  <2>1. ASSUME NEW n \in Way'
        PROVE  f[n] \in Way /\ At(n)' = At(f[n])
    <3>1. /\ n \in Int /\ f[n] = IF n <= L THEN n ELSE n + 1
          /\ f[n] \in Way
        BY <1>1, <1>4 DEF Way
    <3>2. CASE n <= L
        BY <1>1, <1>4, <3>1, <3>2 DEF At
    <3>3. CASE n = L + 1
      <4>1. ~(n + 1 <= L) /\ n + 1 # L + 1 /\ n + 1 - L - 1 = 1 /\ f[n] = n + 1
          BY <1>1, <3>1, <3>3
      <4> QED
          BY <1>1, <1>2, <1>4, <3>1, <3>3, <4>1 DEF At
    <3>4. CASE n > L + 1
      <4>1. /\ n - L - 1 \in 1 .. Len(requests')
            /\ n - L - 1 + 1 = n + 1 - L - 1
            /\ ~(n <= L) /\ n # L + 1 /\ ~(n + 1 <= L) /\ n + 1 # L + 1
            /\ f[n] = n + 1
          BY <1>1, <1>4, <3>1, <3>4 DEF Way
      <4> QED
          BY <1>1, <1>4, <3>1, <4>1 DEF At
    <3> QED
        BY <1>1, <3>1, <3>2, <3>3, <3>4
  <2>2. \A m, n \in Way' : m < n => f[m] < f[n]
      BY <1>1, <1>4 DEF Way
  <2> HIDE DEF f
  <2> QED
      BY <1>2, <2>1, <2>2, MovesOn
<1> QED
    BY <1>3, <1>4 DEF Execute

LEMMA ExecuteFailsMoves ==
    ASSUME TypeOK, TypeOK', CallsInOrder, ExecuteFails
    PROVE  CallsInOrder' /\ \A i : Owed(i)' => Owed(i)
<1> DEFINE L == Len(alerts)
           r == Head(requests)
           f == [n \in Way' |-> IF n = L + 1 THEN L + 2 ELSE n]
<1>1. /\ L \in Nat /\ Len(requests) \in Nat /\ Len(requests) > 0
      /\ Len(requests') = Len(requests) - 1 /\ r = requests[1]
      /\ \A j \in 1 .. Len(requests') : requests'[j] = requests[j + 1]
    BY QueueChanges DEF ExecuteFails, TakeRequest
<1>2. answering = NoRequest /\ answering' = NoRequest /\ calls' = calls
    BY DEF ExecuteFails, TakeRequest
<1>3. /\ Len(alerts') = L + 1 /\ alerts'[L + 1].request = r
      /\ \A i \in 1 .. L : alerts'[i] = alerts[i]
    BY QueueChanges DEF ExecuteFails
<1>4. \A n \in Way' : n = L + 2 => At(n)' = NoRequest
    BY <1>1, <1>2, <1>3 DEF Way, At
<1>5. \A n \in Way' : n # L + 2 => f[n] \in Way /\ At(n)' = At(f[n])
    BY <1>1, <1>2, <1>3 DEF Way, At
<1>6. \A m, n \in Way' : m < n /\ n # L + 2 => f[m] < f[n]
    BY <1>1, <1>3 DEF Way
<1> HIDE DEF f
<1> QED
    BY <1>2, <1>4, <1>5, <1>6, SilentRequests, MovesOn

LEMMA ReplyMoves ==
    ASSUME TypeOK, TypeOK', CallsInOrder, Reply
    PROVE  CallsInOrder' /\ \A i : Owed(i)' => Owed(i)
<1> DEFINE L == Len(alerts)
           f == [n \in Way' |-> IF n <= L + 1 THEN n ELSE n - 1]
<1>1. answering' = NoRequest /\ requests' = requests /\ calls' = calls
    BY DEF Reply
<1>2. /\ L \in Nat /\ Len(requests) \in Nat
      /\ Len(alerts') = L + 1 /\ alerts'[L + 1].request = answering
      /\ \A i \in 1 .. L : alerts'[i] = alerts[i]
    BY QueueChanges DEF Reply
<1>3. \A n \in Way' : n = L + 2 => At(n)' = NoRequest
    BY <1>1, <1>2 DEF Way, At
<1>4. \A n \in Way' : n # L + 2 => f[n] \in Way /\ At(n)' = At(f[n])
    BY <1>1, <1>2 DEF Way, At
<1>5. \A m, n \in Way' : m < n /\ m # L + 2 /\ n # L + 2 => f[m] < f[n]
    BY <1>1, <1>2 DEF Way
<1> HIDE DEF f
<1> QED
    BY <1>1, <1>3, <1>4, <1>5, SilentRequests, MovesOn

LEMMA PostStatusesMoves ==
    ASSUME TypeOK, TypeOK', CallsInOrder, PostStatuses
    PROVE  CallsInOrder' /\ \A i : Owed(i)' => Owed(i)
<1> DEFINE L == Len(alerts)
           f == [n \in Way' |-> n]
<1>1. /\ L \in Nat /\ Len(requests) \in Nat /\ Len(requests) > 0
      /\ Len(requests') = Len(requests) - 1
      /\ \A j \in 1 .. Len(requests') : requests'[j] = requests[j + 1]
    BY QueueChanges DEF PostStatuses, TakeRequest
<1>2. answering = NoRequest /\ answering' = NoRequest /\ calls' = calls
    BY DEF PostStatuses, TakeRequest
<1>3. /\ Len(alerts') = L + 1 /\ alerts'[L + 1].request = NoRequest
      /\ \A i \in 1 .. L : alerts'[i] = alerts[i]
    BY QueueChanges DEF PostStatuses
<1>4. \A n \in Way' : n = L + 2 => At(n)' = NoRequest
    BY <1>1, <1>2, <1>3 DEF Way, At
<1>5. \A n \in Way' : n # L + 2 => f[n] \in Way /\ At(n)' = At(f[n])
    BY <1>1, <1>2, <1>3 DEF Way, At
<1>6. \A m, n \in Way' : m < n => f[m] < f[n]
    OBVIOUS
<1> HIDE DEF f
<1> QED
    BY <1>2, <1>4, <1>5, <1>6, SilentRequests, MovesOn

LEMMA SellersGoneMoves ==
    ASSUME TypeOK, TypeOK', CallsInOrder, AllSellersGone
    PROVE  CallsInOrder' /\ \A i : Owed(i)' => Owed(i)
<1> DEFINE L == Len(alerts)
           f == [n \in Way' |-> IF n <= L + 1 THEN n ELSE n - 1]
<1>1. /\ answering = NoRequest /\ answering' = NoRequest
      /\ requests' = requests /\ calls' = calls
    BY DEF AllSellersGone, Spontaneously
<1>2. /\ L \in Nat /\ Len(requests) \in Nat
      /\ Len(alerts') = L + 1 /\ alerts'[L + 1].request = NoRequest
      /\ \A i \in 1 .. L : alerts'[i] = alerts[i]
    BY QueueChanges DEF AllSellersGone
<1>3. \A n \in Way' : n = L + 2 => At(n)' = NoRequest
    BY <1>1, <1>2 DEF Way, At
<1>4. \A n \in Way' : n # L + 2 => f[n] \in Way /\ At(n)' = At(f[n])
    BY <1>1, <1>2 DEF Way, At
<1>5. \A m, n \in Way' : m < n /\ m # L + 2 /\ n # L + 2 => f[m] < f[n]
    BY <1>1, <1>2 DEF Way
<1> HIDE DEF f
<1> QED
    BY <1>1, <1>3, <1>4, <1>5, SilentRequests, MovesOn

LEMMA TimerMoves ==
    ASSUME TypeOK, TypeOK', CallsInOrder, PostTorrentPluginStatusUpdates
    PROVE  CallsInOrder' /\ \A i : Owed(i)' => Owed(i)
<1> DEFINE last == Len(alerts) + 1 + Len(requests) + 1
           f == [n \in Way' |-> n]
<1>1. /\ requests' = Append(requests, StatusRequest)
      /\ UNCHANGED <<answering, alerts, calls>>
    BY DEF PostTorrentPluginStatusUpdates
<1>2. /\ Len(alerts) \in Nat /\ Len(requests) \in Nat
      /\ Len(requests') = Len(requests) + 1
      /\ requests'[Len(requests) + 1] = StatusRequest
      /\ \A j \in 1 .. Len(requests) : requests'[j] = requests[j]
    BY <1>1 DEF TypeOK
<1>3. \A n \in Way' : n = last => At(n)' = StatusRequest
    BY <1>1, <1>2 DEF Way, At
<1>4. \A n \in Way' : n # last => f[n] \in Way /\ At(n)' = At(f[n])
    BY <1>1, <1>2 DEF Way, At
<1>5. \A m, n \in Way' : m < n => f[m] < f[n]
    OBVIOUS
<1> HIDE DEF f
<1> QED
    BY <1>1, <1>3, <1>4, <1>5, SilentRequests, MovesOn

(* An accepted call goes to the end of the way.                            *)
LEMMA SubmitMoves ==
    ASSUME TypeOK, TypeOK', CallsInOrder, NEW kind, NEW arg, NEW callback \in BOOLEAN,
           Submit(kind, arg, callback), UNCHANGED <<answering, alerts>>
    PROVE  /\ CallsInOrder'
           /\ \A i : i = Len(calls) + 1 => Owed(i)'
           /\ \A i \in DOMAIN calls : Owed(i)' <=> Owed(i)
<1> DEFINE last == Len(alerts) + 1 + Len(requests) + 1
           r == [call |-> Len(calls) + 1, kind |-> kind,
                 callback |-> callback, arg |-> arg]
<1>1. /\ requests' = Append(requests, r) /\ calls' = Append(calls, "pending")
      /\ r.call = Len(calls) + 1
    BY DEF Submit
<1> HIDE DEF r
<1>2. /\ Len(alerts) \in Nat /\ Len(requests) \in Nat /\ Len(calls) \in Nat
      /\ Len(requests') = Len(requests) + 1
      /\ requests'[Len(requests) + 1] = r
      /\ \A j \in 1 .. Len(requests) : requests'[j] = requests[j]
      /\ DOMAIN calls = 1 .. Len(calls) /\ DOMAIN calls' = 1 .. Len(calls) + 1
      /\ calls'[Len(calls) + 1] = "pending"
      /\ \A i \in DOMAIN calls : calls'[i] = calls[i]
    BY <1>1 DEF TypeOK
<1>3. last \in Way' /\ \A n \in Way' : n = last => At(n)' = r
  <2>1. last \in Way'
      BY <1>1, <1>2 DEF Way
  <2>2. ASSUME NEW n \in Way', n = last
        PROVE  At(n)' = r
    <3>1. ~(n <= Len(alerts)) /\ n # Len(alerts) + 1 /\ n - Len(alerts) - 1 = Len(requests) + 1
        BY <1>2, <2>2
    <3> QED
        BY <1>2, <3>1 DEF At
  <2> QED
      BY <2>1, <2>2
<1>4. \A n \in Way : n \in Way' /\ n < last /\ At(n)' = At(n)
    BY <1>1, <1>2 DEF Way, At
<1>5. \A n \in Way' : n = last \/ n \in Way
    BY <1>2 DEF Way
<1>6. \A n \in Way : At(n) \in Request /\ At(n).call \in Nat
    BY WayTypes DEF Request
<1>7. \A n \in Way : At(n).call # 0 => At(n).call < Len(calls) + 1
    BY <1>2, <1>6 DEF CallsInOrder, Waits
<1>8. ASSUME NEW n \in Way'
      PROVE  Waits(At(n))'
  <2>1. CASE n = last
    <3>1. At(n)' = r
        BY <1>3, <2>1
    <3>2. r.call \in DOMAIN calls' /\ calls'[r.call] = "pending" /\ r.call # 0
        BY <1>1, <1>2
    <3> QED
        BY <3>1, <3>2 DEF Waits
  <2>2. CASE n \in Way
      BY <1>2, <1>4, <2>2 DEF CallsInOrder, Waits
  <2> QED
      BY <1>5, <2>1, <2>2
<1>9. ASSUME NEW m \in Way', NEW n \in Way', m < n
      PROVE  Earlier(At(m)', At(n)')
  <2>1. m \in Way
      BY <1>2, <1>4, <1>5, <1>9 DEF Way
  <2>2. CASE n = last
      BY <1>1, <1>3, <1>4, <1>7, <2>1, <2>2 DEF Earlier
  <2>3. CASE n \in Way
      BY <1>4, <1>9, <2>1, <2>3 DEF CallsInOrder
  <2> QED
      BY <1>5, <2>2, <2>3
<1>10. CallsInOrder'
    BY <1>8, <1>9 DEF CallsInOrder, Earlier
<1>11. \A i : Owed(i)' <=> i # 0 /\ \E n \in Way' : At(n)'.call = i
    BY OwedOnWayNext DEF OwedIsOnWay
<1>12. \A i : Owed(i) <=> i # 0 /\ \E n \in Way : At(n).call = i
    BY OwedOnWay DEF OwedIsOnWay
<1>13. \A i : i = Len(calls) + 1 => Owed(i)'
    BY <1>1, <1>2, <1>3, <1>11
<1>14. \A i \in DOMAIN calls : Owed(i)' <=> Owed(i)
  <2> TAKE i \in DOMAIN calls
  <2>1. i # 0 /\ i # Len(calls) + 1
      BY <1>2
  <2>2. (\E n \in Way' : At(n)'.call = i) <=> (\E n \in Way : At(n).call = i)
      BY <1>1, <1>3, <1>4, <1>5, <2>1
  <2> QED
      BY <1>11, <1>12, <2>1, <2>2
<1> QED
    BY <1>10, <1>13, <1>14

(* The answer that a callback is called for was next on the way.           *)
Answers ==
    /\ Head(alerts).request.callback
    /\ calls' = [calls EXCEPT ![Head(alerts).request.call] = "answered"]

(* Nobody called it back before.                                           *)
LEMMA NextWaits ==
    ASSUME TypeOK, CallsInOrder, batch > 0, Head(alerts).request.callback
    PROVE  calls[Head(alerts).request.call] = "pending"
<1>1. 1 \in Way /\ At(1) = Head(alerts).request
  <2>1. /\ alerts \in Seq(Alert) /\ batch \in 1 .. Len(alerts)
        /\ Len(alerts) \in Nat \ {0} /\ Head(alerts) = alerts[1] /\ Len(requests) \in Nat
      BY DEF TypeOK
  <2> QED
      BY <2>1 DEF Way, At
<1> QED
    BY <1>1 DEF CallsInOrder, Waits

LEMMA ProcessedMoves ==
    ASSUME TypeOK, TypeOK', CallsInOrder, batch > 0, Advance \/ Abort,
           UNCHANGED <<requests, answering>>, Answers \/ UNCHANGED calls
    PROVE  /\ CallsInOrder' /\ \A i : Owed(i)' => Owed(i)
           /\ 1 \in Way /\ At(1) = Head(alerts).request
<1>1. /\ alerts \in Seq(Alert) /\ batch \in 1 .. Len(alerts)
      /\ Len(alerts) \in Nat \ {0} /\ Head(alerts) = alerts[1]
      /\ Len(requests) \in Nat
    BY DEF TypeOK
<1>2. 1 \in Way /\ At(1) = Head(alerts).request
    BY <1>1 DEF Way, At
<1>3. PICK k \in 1 .. Len(alerts) :
          /\ Len(alerts') = Len(alerts) - k
          /\ \A i \in 1 .. Len(alerts') : alerts'[i] = alerts[i + k]
  <2>1. CASE Advance
    <3>1. alerts' = Tail(alerts) /\ 1 \in 1 .. Len(alerts)
        BY <1>1, <2>1 DEF Advance
    <3> QED
        BY <1>1, <3>1
  <2>2. CASE Abort
    <3>1. alerts' = SubSeq(alerts, batch + 1, Len(alerts))
        BY <2>2 DEF Abort
    <3>2. /\ Len(alerts') = Len(alerts) - batch
          /\ \A i \in 1 .. Len(alerts') : alerts'[i] = alerts[i + batch]
        BY <1>1, <3>1
    <3> QED
        BY <1>1, <3>2
  <2> QED
      BY <2>1, <2>2
<1> DEFINE f == [n \in Way' |-> n + k]
<1>4. k \in 1 .. Len(alerts)
    BY <1>3
<1>5. ASSUME NEW n \in Way'
      PROVE  f[n] \in Way /\ f[n] > 1 /\ At(n)' = At(f[n])
  <2>1. /\ n \in Int /\ f[n] = n + k /\ n + k \in Way /\ n + k > 1
        /\ n <= Len(alerts') <=> n + k <= Len(alerts)
        /\ n = Len(alerts') + 1 <=> n + k = Len(alerts) + 1
        /\ n - Len(alerts') - 1 = n + k - Len(alerts) - 1
      BY <1>1, <1>3, <1>4 DEF Way
  <2>2. CASE n <= Len(alerts')
    <3>1. n \in 1 .. Len(alerts')
        BY <1>1, <1>3, <1>4, <2>2 DEF Way
    <3> QED
        BY <1>3, <2>1, <2>2, <3>1 DEF At
  <2>3. CASE ~(n <= Len(alerts'))
      BY <2>1, <2>3 DEF At
  <2> QED
      BY <2>2, <2>3
<1>6. \A m, n \in Way' : m < n => f[m] < f[n]
    BY <1>1, <1>4 DEF Way
<1> HIDE DEF f
<1>7. CASE UNCHANGED calls
    BY <1>2, <1>5, <1>6, <1>7, MovesOn
<1>8. CASE Answers
  <2>1. /\ calls' = [calls EXCEPT ![At(1).call] = "answered"]
        /\ At(1).call # 0
      BY <1>2, <1>8 DEF Answers, CallsInOrder, Waits
  <2> QED
      BY <1>2, <1>5, <1>6, <2>1, MovesOn
<1> QED
    BY <1>7, <1>8

-----------------------------------------------------------------------------
(* The calls as a caller sees them who looks for their answers: those that *)
(* wait without being on the way are lost.                                 *)

Fate == [i \in DOMAIN calls |->
            IF calls[i] = "pending" /\ ~Owed(i) THEN "lost" ELSE calls[i]]

LEMMA FateIsCalls ==
    /\ Calls!Pending = {i \in DOMAIN Fate : Fate[i] = "pending"}
    /\ \A answered, missed : Calls!Settled(answered, missed) =
           [i \in DOMAIN Fate |-> IF i \in answered THEN "answered"
                                  ELSE IF i \in missed THEN "lost" ELSE Fate[i]]
    BY DEF Calls!Pending, Calls!Settled, Fate

LEMMA FateTypes ==
    ASSUME TypeOK
    PROVE  /\ DOMAIN Fate = DOMAIN calls
           /\ Len(calls) \in Nat /\ DOMAIN calls = 1 .. Len(calls)
           /\ Len(Fate) = Len(calls)
           /\ Fate \in Seq({"refused", "pending", "answered", "repeated", "lost"})
<1>1. /\ Len(calls) \in Nat /\ DOMAIN calls = 1 .. Len(calls)
      /\ \A i \in DOMAIN calls : calls[i] \in {"refused", "pending", "answered", "repeated"}
    BY DEF TypeOK
<1>2. Fate \in [1 .. Len(calls) -> {"refused", "pending", "answered", "repeated", "lost"}]
    BY <1>1 DEF Fate
<1> QED
    BY <1>1, <1>2 DEF Fate

(* Without an answer, calls can only be lost.                              *)
LEMMA LosesOrStays ==
    ASSUME TypeOK, calls' = calls, \A i : Owed(i)' => Owed(i)
    PROVE  Calls!Lose \/ Fate' = Fate
<1> DEFINE missed == {i \in DOMAIN Fate : Fate[i] = "pending" /\ ~Owed(i)'}
<1>1. Fate' = [i \in DOMAIN calls |->
                  IF calls[i] = "pending" /\ ~Owed(i)' THEN "lost" ELSE calls[i]]
    BY DEF Fate
<1>2. Fate' = [i \in DOMAIN Fate |-> IF i \in {} THEN "answered"
                  ELSE IF i \in missed THEN "lost" ELSE Fate[i]]
    BY <1>1 DEF Fate
<1>3. missed \in SUBSET Calls!Pending
    BY FateIsCalls
<1>4. Fate' = Calls!Settled({}, missed)
    BY <1>2, FateIsCalls
<1>5. CASE missed = {}
    BY <1>2, <1>5 DEF Fate
<1>6. CASE missed # {}
    BY <1>3, <1>4, <1>6 DEF Calls!Lose, Fate
<1> QED
    BY <1>5, <1>6

(* The one answered is the oldest of those on the way.                     *)
LEMMA AnswersNext ==
    ASSUME TypeOK, CallsInOrder, 1 \in Way, At(1) = Head(alerts).request, Answers,
           \A i : Owed(i)' => Owed(i)
    PROVE  \E i \in DOMAIN Fate : Calls!Answer(i)
<1>0. PICK c : c = At(1).call
    OBVIOUS
<1> DEFINE missed == {i \in DOMAIN Fate : Fate[i] = "pending" /\ ~Owed(i)'}
<1>1. /\ c # 0 /\ c \in DOMAIN calls /\ calls[c] = "pending"
      /\ calls' = [calls EXCEPT ![c] = "answered"]
    BY <1>0 DEF Answers, CallsInOrder, Waits
<1>2. DOMAIN Fate = DOMAIN calls /\ DOMAIN calls = 1 .. Len(calls) /\ Len(calls) \in Nat
    BY FateTypes
<1>3. \A i : Owed(i) <=> i # 0 /\ \E n \in Way : At(n).call = i
    BY OwedOnWay DEF OwedIsOnWay
<1>4. Owed(c)
    BY <1>0, <1>1, <1>3
<1>5. c \in Calls!Pending
    BY <1>1, <1>4, FateIsCalls DEF Fate
<1>6. ASSUME NEW j \in Calls!Pending
      PROVE  c <= j
  <2>1. j \in DOMAIN calls /\ calls[j] = "pending" /\ Owed(j)
      BY FateIsCalls DEF Fate
  <2>2. PICK n \in Way : At(n).call = j
      BY <1>3, <2>1
  <2>3. j # 0 /\ c \in Nat /\ j \in Nat
      BY <1>1, <1>2, <2>1
  <2>4. CASE n = 1
      BY <1>0, <2>2, <2>3, <2>4
  <2>5. CASE n # 1
    <3>1. 1 < n
        BY <2>5 DEF Way
    <3>2. Earlier(At(1), At(n))
        BY <3>1 DEF CallsInOrder
    <3> QED
        BY <1>0, <1>1, <2>2, <2>3, <3>2 DEF Earlier
  <2> QED
      BY <2>4, <2>5
<1>7. missed \in SUBSET Calls!Pending
    BY FateIsCalls
<1>8. Fate' = Calls!Settled({c}, missed)
  <2>1. Fate' = [i \in DOMAIN calls' |->
                    IF calls'[i] = "pending" /\ ~Owed(i)' THEN "lost" ELSE calls'[i]]
      BY DEF Fate
  <2>2. DOMAIN calls' = DOMAIN Fate
      BY <1>1, <1>2
  <2>3. ASSUME NEW i \in DOMAIN Fate
        PROVE  (IF calls'[i] = "pending" /\ ~Owed(i)' THEN "lost" ELSE calls'[i])
                = (IF i \in {c} THEN "answered"
                   ELSE IF i \in missed THEN "lost" ELSE Fate[i])
    <3>1. CASE i = c
        BY <1>1, <3>1
    <3>2. CASE i # c
      <4>1. calls'[i] = calls[i]
          BY <1>1, <1>2, <3>2
      <4>2. Fate[i] = IF calls[i] = "pending" /\ ~Owed(i) THEN "lost" ELSE calls[i]
          BY <1>2 DEF Fate
      <4> QED
          BY <3>2, <4>1, <4>2
    <3> QED
        BY <3>1, <3>2
  <2>4. Fate' = [i \in DOMAIN Fate |-> IF i \in {c} THEN "answered"
                     ELSE IF i \in missed THEN "lost" ELSE Fate[i]]
      BY <2>1, <2>2, <2>3
  <2> QED
      BY <2>4, FateIsCalls
<1> HIDE DEF missed
<1>9. Calls!Answer(c)
  <2>1. Calls!IsNext(c)
      BY <1>5, <1>6 DEF Calls!IsNext
  <2>2. \E m \in SUBSET Calls!Pending : Fate' = Calls!Settled({c}, m)
      BY <1>7, <1>8
  <2> QED
      BY <2>1, <2>2, Zenon DEF Calls!Answer, Fate
<1>10. c \in DOMAIN Fate
    BY <1>1, <1>2
<1> QED
    BY <1>9, <1>10, Zenon

LEMMA CallIsCall ==
    ASSUME TypeOK, TypeOK', CallsInOrder, SomeCall
    PROVE  CallsInOrder' /\ (Calls!Accept \/ Calls!Refuse)
<1>0. PICK kind, arg : \E callback \in BOOLEAN :
          Callable(kind, arg) /\ Call(kind, arg, callback)
    BY DEF SomeCall
<1>1. PICK callback \in BOOLEAN : Callable(kind, arg) /\ Call(kind, arg, callback)
    BY <1>0
<1>2. /\ UNCHANGED <<answering, alerts>> /\ Len(calls) < MaxCalls
      /\ IF arg \in Accepted(kind) THEN Submit(kind, arg, callback) ELSE Refuse
    BY <1>1 DEF Call
<1>3. /\ DOMAIN Fate = DOMAIN calls /\ Len(Fate) = Len(calls)
      /\ DOMAIN calls = 1 .. Len(calls) /\ Len(calls) \in Nat
      /\ Fate \in Seq({"refused", "pending", "answered", "repeated", "lost"})
    BY FateTypes
<1>4. ASSUME NEW outcome \in {"refused", "pending"}, calls' = Append(calls, outcome),
             \A i \in DOMAIN calls : Owed(i)' <=> Owed(i),
             outcome = "pending" => \A i : i = Len(calls) + 1 => Owed(i)'
      PROVE  Fate' = Append(Fate, outcome)
  <2>1. Fate' = [i \in DOMAIN calls' |->
                    IF calls'[i] = "pending" /\ ~Owed(i)' THEN "lost" ELSE calls'[i]]
      BY DEF Fate
  <2>2. /\ DOMAIN calls' = 1 .. Len(calls) + 1
        /\ calls'[Len(calls) + 1] = outcome
        /\ \A i \in DOMAIN calls : calls'[i] = calls[i]
      BY <1>4 DEF TypeOK
  <2>3. /\ DOMAIN Append(Fate, outcome) = 1 .. Len(calls) + 1
        /\ Append(Fate, outcome)[Len(calls) + 1] = outcome
        /\ \A i \in DOMAIN calls : Append(Fate, outcome)[i] = Fate[i]
      BY <1>3
  <2>4. ASSUME NEW i \in 1 .. Len(calls) + 1
        PROVE  Fate'[i] = Append(Fate, outcome)[i]
    <3>1. CASE i \in DOMAIN calls
        BY <1>3, <1>4, <2>1, <2>2, <2>3, <3>1 DEF Fate
    <3>2. CASE i = Len(calls) + 1
        BY <1>3, <1>4, <2>1, <2>2, <2>3, <3>2
    <3> QED
        BY <1>3, <3>1, <3>2
  <2> DEFINE T == {"refused", "pending", "answered", "repeated", "lost"}
  <2>5. Fate' \in Seq(T) /\ Len(Fate') = Len(calls) + 1
    <3>1. \A i \in 1 .. Len(calls) + 1 : Fate'[i] \in T
        BY <2>2, <2>1, <1>4, <1>3 DEF TypeOK
    <3>2. Fate' \in [1 .. Len(calls) + 1 -> T]
        BY <2>1, <2>2, <3>1
    <3> HIDE DEF T
    <3> QED
        BY <1>3, <3>2
  <2>6. Append(Fate, outcome) \in Seq(T) /\ Len(Append(Fate, outcome)) = Len(calls) + 1
      BY <1>3
  <2> HIDE DEF T
  <2> QED
      BY ONLY <1>3, <2>4, <2>5, <2>6, SeqEqual
<1>5. CASE arg \in Accepted(kind)
  <2>1. Submit(kind, arg, callback) /\ calls' = Append(calls, "pending")
      BY <1>2, <1>5 DEF Submit
  <2>2. /\ CallsInOrder'
        /\ \A i : i = Len(calls) + 1 => Owed(i)'
        /\ \A i \in DOMAIN calls : Owed(i)' <=> Owed(i)
      BY <1>2, <2>1, SubmitMoves
  <2>3. Fate' = Append(Fate, "pending")
      BY <1>4, <2>1, <2>2
  <2>4. Len(Fate) < MaxCalls
      BY <1>2, <1>3
  <2>5. Calls!Accept
      BY <2>3, <2>4, Zenon DEF Calls!Accept, Calls!Call, Fate
  <2> QED
      BY <2>2, <2>5
<1>6. CASE arg \notin Accepted(kind)
  <2>1. calls' = Append(calls, "refused") /\ requests' = requests
      BY <1>2, <1>6 DEF Refuse
  <2>2. \A i : Owed(i)' <=> Owed(i)
      BY <1>2, <2>1 DEF Owed
  <2>3. Fate' = Append(Fate, "refused")
      BY <1>4, <2>1, <2>2
  <2>4. Len(Fate) < MaxCalls
      BY <1>2, <1>3
  <2>5. Calls!Refuse
      BY <2>3, <2>4, Zenon DEF Calls!Refuse, Calls!Call, Fate
  <2>6. \A n \in Way' : n \in Way /\ At(n)' = At(n)
      BY <1>2, <2>1 DEF Way, At
  <2>7. \A i \in DOMAIN calls : i \in DOMAIN calls' /\ calls'[i] = calls[i]
      BY <2>1 DEF TypeOK
  <2>8. CallsInOrder'
      BY <2>6, <2>7 DEF CallsInOrder, Earlier, Waits
  <2> QED
      BY <2>5, <2>8
<1> QED
    BY <1>5, <1>6

-----------------------------------------------------------------------------

LEMMA InitInOrder == Init => CallsInOrder /\ Calls!Init
<1> SUFFICES ASSUME Init PROVE CallsInOrder /\ Calls!Init
    OBVIOUS
<1>1. /\ requests = <<>> /\ alerts = <<>> /\ answering = NoRequest /\ calls = <<>>
    BY DEF Init
<1>2. Len(alerts) = 0 /\ Len(requests) = 0
    BY <1>1
<1>3. \A n \in Way : n = 1
    BY <1>2 DEF Way
<1>4. At(1) = NoRequest
    BY <1>1, <1>2 DEF At
<1>5. CallsInOrder
    BY <1>3, <1>4 DEF CallsInOrder, Waits, NoRequest
<1>6. Calls!Init
  <2>1. [i \in DOMAIN calls |-> IF calls[i] = "pending" /\ ~Owed(i)
                                THEN "lost" ELSE calls[i]] = <<>>
      BY <1>1
  <2> QED
      BY <2>1 DEF Calls!Init
<1> QED
    BY <1>5, <1>6

(* Every step is a step of the promise, or none.                           *)
LEMMA StepIsCalls ==
    ASSUME TypeOK, TypeOK', CallsInOrder, [Next]_vars
    PROVE  CallsInOrder' /\ (Calls!Next \/ Fate' = Fate)
<1>1. ASSUME calls' = calls, \A i : Owed(i)' => Owed(i)
      PROVE  Calls!Next \/ Fate' = Fate
    BY <1>1, LosesOrStays DEF Calls!Next
<1>2. ASSUME NEW i \in DOMAIN Fate, Calls!Answer(i)
      PROVE  Calls!Next
    BY <1>2, Zenon DEF Calls!Next, Fate
<1>3. CASE User
    BY <1>3, UserCalls, CallIsCall DEF Calls!Next
<1>4. CASE PostTorrentPluginStatusUpdates
  <2>1. calls' = calls
      BY <1>4 DEF PostTorrentPluginStatusUpdates
  <2> QED
      BY <1>1, <1>4, <2>1, TimerMoves
<1>5. CASE Network
  <2>1. calls' = calls
      BY <1>5 DEF Network, Execute, ExecuteFails, Reply, PostStatuses, TakeRequest
  <2> QED
      BY <1>1, <1>5, <2>1, ExecuteMoves, ExecuteFailsMoves, ReplyMoves, PostStatusesMoves
      DEF Network
<1>6. CASE AllSellersGone
  <2>1. calls' = calls
      BY <1>6 DEF AllSellersGone, Spontaneously
  <2> QED
      BY <1>1, <1>6, <2>1, SellersGoneMoves
<1>7. CASE DownloadCompletes \/ PopAlerts \/ UNCHANGED vars
  <2>1. UNCHANGED <<requests, answering, alerts, calls>>
      BY <1>7 DEF DownloadCompletes, Spontaneously, PopAlerts, vars
  <2>2. CallsInOrder' /\ \A i : Owed(i)' => Owed(i)
      BY <2>1 DEF CallsInOrder, Way, At, Earlier, Waits, Owed
  <2> QED
      BY <1>1, <2>1, <2>2
<1>8. CASE JavaScript
  <2>1. /\ batch > 0
        /\ Advance \/ Abort
        /\ UNCHANGED <<requests, answering>>
        /\ \/ Head(alerts).request.callback /\ CallBack(Head(alerts).request.call)
           \/ UNCHANGED calls
      BY <1>8, Zenon
      DEF JavaScript, HandleEvent, HandleResult, HandleStatus, HearAnswer, Processing
  <2>5. ASSUME Head(alerts).request.callback, CallBack(Head(alerts).request.call)
        PROVE  Answers
      BY <2>1, <2>5, NextWaits DEF Answers, CallBack
  <2>6. Answers \/ UNCHANGED calls
      BY <2>1, <2>5
  <2>2. /\ CallsInOrder' /\ \A i : Owed(i)' => Owed(i)
        /\ 1 \in Way /\ At(1) = Head(alerts).request
      BY <2>1, <2>6, ProcessedMoves
  <2>3. CASE UNCHANGED calls
      BY <1>1, <2>2, <2>3
  <2>4. CASE Answers
      BY <1>2, <2>2, <2>4, AnswersNext
  <2> QED
      BY <2>2, <2>3, <2>4, <2>6
<1> QED
    BY <1>3, <1>4, <1>5, <1>6, <1>7, <1>8 DEF Next

(***************************************************************************)
(* The calls that are on the way wait for their answer and keep their      *)
(* order from the plugin's queue to the callback.                          *)
(***************************************************************************)
THEOREM CallsKeepOrder == Spec => []CallsInOrder
<1>1. TInv => TypeOK
    BY DEF TInv
<1>2. TypeOK /\ TypeOK' /\ CallsInOrder /\ [Next]_vars => CallsInOrder'
    BY StepIsCalls
<1> QED
    BY <1>1, <1>2, InitInOrder, ToldTruth, PTL DEF Spec

(***************************************************************************)
(* The methods of class Plugin keep the promise of AsyncCalls, whatever is *)
(* called, fails or is thrown: accepted calls are answered at most once    *)
(* and in their order, refused ones never.                                 *)
(***************************************************************************)
THEOREM PluginImplementsCalls == Spec => ImplementsCalls
<1>1. TInv => TypeOK
    BY DEF TInv
<1>2. Init => Calls!Init
    BY InitInOrder
<1>3. TypeOK /\ TypeOK' /\ CallsInOrder /\ [Next]_vars
        => [Calls!Next]_Fate
    BY StepIsCalls
<1> QED
    BY <1>1, <1>2, <1>3, ToldTruth, CallsKeepOrder, PTL DEF Spec, ImplementsCalls, Calls!Spec, Fate

=============================================================================
