---------------------------- MODULE TorrentPlugin ----------------------------
(***************************************************************************)
(* The plugin of one torrent as a JavaScript program controls it: methods  *)
(* of class Plugin (src/Plugin.cpp) submit requests, the network thread    *)
(* carries them out, and alerts bring events, statuses and the answers     *)
(* back, encoded by src/PluginAlertEncoder.cpp and dispatched by           *)
(* lib/Session.js.  The program keeps a view of the plugin from what it is *)
(* told: events of the session, answers to its calls, and statuses.        *)
(***************************************************************************)
EXTENDS Integers, Sequences

CONSTANTS
    Terms,        \* terms of buyers and sellers
    None,         \* no terms, no argument
    Invalid,      \* an argument that its decode function refuses
    What,         \* the texts of exceptions of the extension
    Interactions, \* the numbers that set_libtorrent_interaction is tried with
    UserThrows,   \* a listener or a callback of the user may throw
    MaxCalls      \* bound: calls ever made

ASSUME TermsAssumption == None \notin Terms /\ Invalid \notin Terms /\ Invalid # None
ASSUME InteractionsAssumption == Interactions \subseteq 0 .. 3
ASSUME WhatAssumption == What # {} /\ "null" \notin What
ASSUME ThrowsAssumption == UserThrows \in BOOLEAN
ASSUME BoundAssumption == MaxCalls \in Nat

VARIABLES
    plugin,       \* network: the torrent plugin and its session
    requests,     \* plugin: requests submitted and not yet processed
    answering,    \* network: the request carried out and not yet answered
    alerts,       \* the popped batch, then libtorrent's alert queue
    batch,        \* how many of the alerts JavaScript has popped already
    calls,        \* JavaScript: what became of each call
    known,        \* JavaScript: the plugin as the program was told
    stale,        \* history: some telling was lost, or wrong, since a status
    pc            \* JavaScript: "running", or "exited" with the process

vars == <<plugin, requests, answering, alerts, batch, calls, known, stale, pc>>

-----------------------------------------------------------------------------

Mode == {"not_set", "buying", "selling", "observing"}

State == {"stopped", "started", "paused"}

BuyingState == {"sending_invitations", "downloading", "download_completed"}

Interaction == {"None", "BlockUploading", "BlockDownloading",
                "BlockUploadingAndDownloading"}

Plugin == [mode : Mode, state : State, buying : BuyingState,
           terms : Terms \union {None}, interaction : Interaction]

(* Enumerations become numbers, and the module exports the same numbers.   *)
EncodeMode_observingAsSelling ==
    [not_set |-> 0, buying |-> 1, selling |-> 2, observing |-> 2]

EncodeMode == [not_set |-> 0, buying |-> 1, selling |-> 2, observing |-> 3]

EncodeState == [stopped |-> 0, started |-> 1, paused |-> 2]

EncodeBuyingState ==
    [sending_invitations |-> 0, downloading |-> 1, download_completed |-> 2]

EncodeInteraction ==
    [None |-> 0, BlockUploading |-> 1, BlockDownloading |-> 2,
     BlockUploadingAndDownloading |-> 3]

DecodeInteraction ==
    [v \in 0 .. 3 |-> CASE v = 0 -> "None"
                        [] v = 1 -> "BlockUploading"
                        [] v = 2 -> "BlockDownloading"
                        [] v = 3 -> "BlockUploadingAndDownloading"]

(* A mode other than selling and buying has neither key.                   *)
EncodeSession(p) ==
    [mode    |-> EncodeMode[p.mode],
     state   |-> EncodeState[p.state],
     selling |-> IF p.mode = "selling" THEN [terms |-> p.terms] ELSE <<>>,
     buying  |-> IF p.mode = "buying"
                 THEN [state |-> EncodeBuyingState[p.buying], terms |-> p.terms]
                 ELSE <<>>]

EncodeStatus(p) ==
    [session |-> EncodeSession(p),
     libtorrentInteraction |-> EncodeInteraction[p.interaction]]

-----------------------------------------------------------------------------
(* The calls.                                                              *)

TermsCalls == {"to_sell_mode", "to_buy_mode",
               "update_buyer_terms", "update_seller_terms"}

Accepted(kind) ==
    CASE kind \in TermsCalls                  -> Terms
      [] kind = "set_libtorrent_interaction" -> DOMAIN DecodeInteraction
      [] OTHER                               -> {None}

(* untold: the calls whose effect is no part of the state that is told.    *)
PlainCalls == {"start", "stop", "to_observe_mode", "start_downloading",
               "start_uploading", "untold"}

Kind == TermsCalls \union PlainCalls
          \union {"set_libtorrent_interaction", "pause_libtorrent", "status", "none"}

(* callback: the caller passed one that can be called.                     *)
Request == [call : Nat, kind : Kind, callback : BOOLEAN,
            arg : Terms \union {None} \union DOMAIN DecodeInteraction]

NoRequest == [call |-> 0, kind |-> "none", callback |-> FALSE, arg |-> None]

StatusRequest == [NoRequest EXCEPT !.kind = "status"]

Submit(kind, arg, callback) ==
    /\ calls' = Append(calls, "pending")
    /\ requests' = Append(requests,
                          [call |-> Len(calls) + 1, kind |-> kind,
                           callback |-> callback, arg |-> arg])

(* The exception reaches the caller; nothing is submitted.                 *)
Refuse ==
    /\ calls' = Append(calls, "refused")
    /\ UNCHANGED requests

(* Arguments are decoded before anything is submitted.                     *)
Call(kind, arg, callback) ==
    /\ pc = "running"
    /\ Len(calls) < MaxCalls
    /\ IF arg \in Accepted(kind) THEN Submit(kind, arg, callback) ELSE Refuse
    /\ UNCHANGED <<plugin, answering, alerts, batch, known, stale, pc>>

ToSellMode(arg)        == Call("to_sell_mode", arg, TRUE)
ToBuyMode(arg)         == Call("to_buy_mode", arg, TRUE)
ToObserveMode          == Call("to_observe_mode", None, TRUE)
UpdateBuyerTerms(arg)  == Call("update_buyer_terms", arg, TRUE)
UpdateSellerTerms(arg) == Call("update_seller_terms", arg, TRUE)
Start                  == Call("start", None, TRUE)
Stop                   == Call("stop", None, TRUE)
StartDownloading(arg)  == Call("start_downloading", arg, TRUE)
StartUploading(arg)    == Call("start_uploading", arg, TRUE)
PauseTorrent           == Call("untold", None, TRUE)
ResumeTorrent          == Call("untold", None, TRUE)
DropPeer(arg)          == Call("untold", arg, TRUE)
SetLibtorrentInteraction(arg) == Call("set_libtorrent_interaction", arg, TRUE)

(* The wrapper that Session.js passes is always a function; whether it has *)
(* a callback to call is found out only when it is called itself.          *)
PauseLibtorrent(callback) == Call("pause_libtorrent", None, callback)

(* The native class has no method pause: the call of undefined throws.     *)
PausePlugin == Call("pause", Invalid, TRUE)

(* The timer, once a second.  Bound: one status is under way at a time.    *)
StatusUnderWay ==
    \/ \E i \in DOMAIN requests : requests[i].kind = "status"
    \/ \E i \in DOMAIN alerts : alerts[i].type = "TorrentPluginStatusUpdateAlert"

PostTorrentPluginStatusUpdates ==
    /\ pc = "running"
    /\ ~StatusUnderWay
    /\ requests' = Append(requests, StatusRequest)
    /\ UNCHANGED <<plugin, answering, alerts, batch, calls, known, stale, pc>>

-----------------------------------------------------------------------------
(* The network thread: the extension, which is outside the repository, as  *)
(* far as its alerts and the programs that use it tell.                    *)

AlertOf ==
    [start              |-> "SessionStarted",
     stop               |-> "SessionStopped",
     to_observe_mode    |-> "SessionToObserveMode",
     to_sell_mode       |-> "SessionToSellMode",
     to_buy_mode        |-> "SessionToBuyMode",
     update_buyer_terms |-> "BuyerTermsUpdated",
     update_seller_terms |-> "SellerTermsUpdated",
     start_downloading  |-> "DownloadStarted",
     start_uploading    |-> "UploadStarted"]

AlertType == {AlertOf[kind] : kind \in DOMAIN AlertOf}
                \union {"AllSellersGone", "RequestResult",
                        "TorrentPluginStatusUpdateAlert"}

(* after is the plugin when the alert was posted: what a status carries,   *)
(* and of an event about terms the terms.  failed: it carries an exception.*)
Alert == [type : AlertType, request : Request, failed : BOOLEAN, after : Plugin]

Post(type, request, failed) ==
    alerts' = Append(alerts, [type |-> type, request |-> request,
                              failed |-> failed, after |-> plugin'])

Possible(r) ==
    /\ r.kind = "start" => plugin.state # "started" /\ plugin.mode # "not_set"
    /\ r.kind = "stop" => plugin.state = "started"
    /\ r.kind \in {"update_buyer_terms", "start_downloading"} => plugin.mode = "buying"
    /\ r.kind \in {"update_seller_terms", "start_uploading"} => plugin.mode = "selling"

Effect(r) ==
    CASE r.kind = "start" -> [plugin EXCEPT !.state = "started"]
      [] r.kind = "stop"  -> [plugin EXCEPT !.state = "stopped"]
      [] r.kind = "to_observe_mode" -> [plugin EXCEPT !.mode = "observing",
             !.terms = None, !.buying = "sending_invitations"]
      [] r.kind = "to_sell_mode" -> [plugin EXCEPT !.mode = "selling",
             !.terms = r.arg, !.buying = "sending_invitations"]
      [] r.kind = "to_buy_mode" -> [plugin EXCEPT !.mode = "buying",
             !.terms = r.arg, !.buying = "sending_invitations"]
      [] r.kind \in {"update_buyer_terms", "update_seller_terms"}
            -> [plugin EXCEPT !.terms = r.arg]
      [] r.kind = "start_downloading" -> [plugin EXCEPT !.buying = "downloading"]
      [] r.kind = "set_libtorrent_interaction"
            -> [plugin EXCEPT !.interaction = DecodeInteraction[r.arg]]
      [] OTHER -> plugin

TakeRequest ==
    /\ pc = "running"
    /\ answering = NoRequest
    /\ requests # <<>>
    /\ requests' = Tail(requests)
    /\ UNCHANGED <<batch, calls, known, stale, pc>>

(* The change and its alert come first, the answer in a step of its own:   *)
(* JavaScript may pop the alerts in between.                               *)
Execute ==
    /\ TakeRequest
    /\ LET r == Head(requests)
       IN  /\ r.kind # "status"
           /\ Possible(r)
           /\ plugin' = Effect(r)
           /\ answering' = r
           /\ IF r.kind \in DOMAIN AlertOf
              THEN Post(AlertOf[r.kind], NoRequest, FALSE)
              ELSE UNCHANGED alerts

(* Any request may fail: the torrent may be gone, or not have the plugin.  *)
(* Only pausing libtorrent cannot: its handler takes no exception.         *)
ExecuteFails ==
    /\ TakeRequest
    /\ UNCHANGED <<plugin, answering>>
    /\ LET r == Head(requests)
       IN  /\ r.kind \notin {"status", "pause_libtorrent"}
           /\ Post("RequestResult", r, TRUE)

Reply ==
    /\ pc = "running"
    /\ answering # NoRequest
    /\ answering' = NoRequest
    /\ plugin' = plugin
    /\ Post("RequestResult", answering, FALSE)
    /\ UNCHANGED <<requests, batch, calls, known, stale, pc>>

PostStatuses ==
    /\ TakeRequest
    /\ Head(requests).kind = "status"
    /\ plugin' = plugin
    /\ Post("TorrentPluginStatusUpdateAlert", NoRequest, FALSE)
    /\ UNCHANGED answering

Spontaneously ==
    /\ pc = "running"
    /\ answering = NoRequest
    /\ UNCHANGED <<requests, answering, batch, calls, known, stale, pc>>

AllSellersGone ==
    /\ Spontaneously
    /\ plugin.buying = "downloading"
    /\ plugin' = [plugin EXCEPT !.buying = "sending_invitations"]
    /\ Post("AllSellersGone", NoRequest, FALSE)

(* No alert of the plugin tells of it.                                     *)
DownloadCompletes ==
    /\ Spontaneously
    /\ plugin.buying = "downloading"
    /\ plugin' = [plugin EXCEPT !.buying = "download_completed"]
    /\ UNCHANGED alerts

-----------------------------------------------------------------------------
(* JavaScript processes a batch of alerts, one at a time.                  *)

PopAlerts ==
    /\ pc = "running"
    /\ batch = 0
    /\ batch' = Len(alerts)
    /\ UNCHANGED <<plugin, requests, answering, alerts, calls, known, stale, pc>>

Processing(types) ==
    /\ pc = "running"
    /\ batch > 0
    /\ Head(alerts).type \in types
    /\ UNCHANGED <<plugin, requests, answering>>

Advance ==
    /\ alerts' = Tail(alerts)
    /\ batch' = batch - 1
    /\ pc' = pc

(* The rest of the batch is lost.  The process ends if nobody handles the  *)
(* exception, or if it is thrown by a callback and cannot be made a string.*)
Abort_keepsLast ==
    /\ alerts' = SubSeq(alerts, batch, Len(alerts))
    /\ batch' = 0
    /\ pc' \in {"running", "exited"}
    /\ stale' = TRUE

Abort ==
    /\ alerts' = SubSeq(alerts, batch + 1, Len(alerts))
    /\ batch' = 0
    /\ pc' \in {"running", "exited"}
    /\ stale' = TRUE

(* What the events that process dispatches alerts to say of the session.   *)
(* The torrent that an alert is looked up for is the one of this plugin.   *)
ModeTold ==
    [SessionToObserveMode |-> "observing", SessionToSellMode |-> "selling",
     SessionToBuyMode |-> "buying"]

StateTold ==
    [SessionStarted |-> "started", SessionPaused |-> "paused",
     SessionStopped |-> "stopped"]

BuyingTold_notSellersGone ==
    [SessionToObserveMode |-> "sending_invitations",
     SessionToSellMode    |-> "sending_invitations",
     SessionToBuyMode     |-> "sending_invitations",
     DownloadStarted      |-> "downloading"]

BuyingTold ==
    [SessionToObserveMode |-> "sending_invitations",
     SessionToSellMode    |-> "sending_invitations",
     SessionToBuyMode     |-> "sending_invitations",
     AllSellersGone       |-> "sending_invitations",
     DownloadStarted      |-> "downloading"]

TermsTold == {"SessionToSellMode", "SessionToBuyMode",
              "BuyerTermsUpdated", "SellerTermsUpdated"}

ToldOr(table, type, otherwise) ==
    IF type \in DOMAIN table THEN table[type] ELSE otherwise

(* A program that follows the events.                                      *)
AfterEvent(k, a) ==
    [mode   |-> ToldOr(ModeTold, a.type, k.mode),
     state  |-> ToldOr(StateTold, a.type, k.state),
     buying |-> ToldOr(BuyingTold, a.type, k.buying),
     terms  |-> IF a.type \in TermsTold THEN a.after.terms
                ELSE IF a.type = "SessionToObserveMode" THEN None ELSE k.terms,
     interaction |-> k.interaction]

Events == DOMAIN ModeTold \union DOMAIN StateTold \union
              {"BuyerTermsUpdated", "SellerTermsUpdated",
               "DownloadStarted", "UploadStarted", "AllSellersGone"}

HandleEvent ==
    /\ Processing(Events)
    /\ UNCHANGED calls
    /\ \/ Advance /\ known' = AfterEvent(known, Head(alerts)) /\ UNCHANGED stale
       \/ UserThrows /\ Abort /\ UNCHANGED known

(* The arguments of a callback: err and result.  what is the text of the   *)
(* exception, which nobody looks at before.                                *)
ArgumentsOf_success(a, what) == <<"null", TRUE>>

ArgumentsOf(a, what) == IF a.failed THEN <<what, FALSE>> ELSE <<"null", TRUE>>

(* if (err): the empty text is false like null, so that a failure without  *)
(* a text looks like a success.                                            *)
TakenForSuccess(a, what) == ArgumentsOf(a, what)[1] \in {"null", ""}

Misleads(a, what) == a.failed /\ what = ""

(* A program that calls by name: LibtorrentInteraction.BlockUploading.     *)
AfterSuccess(k, r) ==
    IF r.kind = "set_libtorrent_interaction"
    THEN [k EXCEPT !.interaction =
            CHOOSE name \in Interaction : EncodeInteraction[name] = r.arg]
    ELSE k

(* A callback that is called again shows in what became of its call.       *)
CallBack(i) == calls' = [calls EXCEPT ![i] = IF @ = "pending" THEN "answered" ELSE "repeated"]

HearAnswer(a, what) ==
    /\ Advance
    /\ known' = IF TakenForSuccess(a, what) THEN AfterSuccess(known, a.request) ELSE known
    /\ stale' = (stale \/ Misleads(a, what))

HandleResult_silentOnError ==
    /\ Processing({"RequestResult"})
    /\ LET a == Head(alerts)
       IN  IF a.request.callback /\ ~a.failed
           THEN CallBack(a.request.call) /\ \E what \in What : HearAnswer(a, what)
           ELSE Advance /\ UNCHANGED <<calls, known, stale>>

HandleResult ==
    /\ Processing({"RequestResult"})
    /\ LET a == Head(alerts)
       IN  IF a.request.callback
           THEN /\ CallBack(a.request.call)
                /\ \/ \E what \in What : HearAnswer(a, what)
                   \/ UserThrows /\ Abort /\ UNCHANGED known
           ELSE Abort /\ UNCHANGED <<calls, known>>

(* A program that reads a status by the names that the module exports.  It *)
(* cannot tell by events when a download is complete, and need not here.   *)
Named(names, table, value) == CHOOSE name \in names : table[name] = value

Read(status) ==
    LET s == status.session
    IN  [mode   |-> Named(Mode, EncodeMode, s.mode),
         state  |-> Named(State, EncodeState, s.state),
         terms  |-> IF s.selling # <<>> THEN s.selling.terms
                    ELSE IF s.buying # <<>> THEN s.buying.terms ELSE None,
         buying |-> IF s.buying # <<>> /\ s.buying.state
                         # EncodeBuyingState["sending_invitations"]
                    THEN "downloading" ELSE "sending_invitations",
         interaction |-> Named(Interaction, EncodeInteraction,
                               status.libtorrentInteraction)]

HandleStatus_ignores ==
    /\ Processing({"TorrentPluginStatusUpdateAlert"})
    /\ Advance
    /\ UNCHANGED <<calls, known, stale>>

(* Assumed: the program listens to statuses before any listener throws.    *)
HandleStatus ==
    /\ Processing({"TorrentPluginStatusUpdateAlert"})
    /\ known' = Read(EncodeStatus(Head(alerts).after))
    /\ UNCHANGED calls
    /\ \/ Advance /\ stale' = FALSE
       \/ UserThrows /\ Abort

-----------------------------------------------------------------------------

(* The plugin is new, or earlier calls set its mode and started it.        *)
AtRest(p) ==
    /\ p.mode \in {"buying", "selling"} <=> p.terms # None
    /\ p.state = IF p.mode = "not_set" THEN "stopped" ELSE "started"
    /\ p.mode # "buying" => p.buying = "sending_invitations"
    /\ p.buying # "download_completed"
    /\ p.interaction = "None"

Init ==
    /\ plugin \in {p \in Plugin : AtRest(p)}
    /\ requests = <<>>
    /\ answering = NoRequest
    /\ alerts = <<>>
    /\ batch = 0
    /\ calls = <<>>
    /\ known = plugin
    /\ stale = FALSE
    /\ pc = "running"

User ==
    \/ \E arg \in Terms \union {Invalid} :
           \/ ToSellMode(arg) \/ ToBuyMode(arg)
           \/ UpdateBuyerTerms(arg) \/ UpdateSellerTerms(arg)
    \/ \E arg \in {None, Invalid} :
           StartDownloading(arg) \/ StartUploading(arg) \/ DropPeer(arg)
    \/ ToObserveMode \/ Start \/ Stop
    \/ PauseTorrent \/ ResumeTorrent \/ PausePlugin
    \/ \E arg \in Interactions \union {Invalid} :
           SetLibtorrentInteraction(arg)
    \/ \E callback \in BOOLEAN : PauseLibtorrent(callback)

Network == Execute \/ ExecuteFails \/ Reply \/ PostStatuses

JavaScript == HandleEvent \/ HandleResult \/ HandleStatus

Next ==
    \/ User \/ PostTorrentPluginStatusUpdates
    \/ Network \/ AllSellersGone \/ DownloadCompletes
    \/ PopAlerts \/ JavaScript

Spec == Init /\ [][Next]_vars

(* The network thread goes on, and the two timers of JavaScript fire.      *)
Fairness ==
    /\ WF_vars(Network)
    /\ WF_vars(PostTorrentPluginStatusUpdates)
    /\ WF_vars(PopAlerts \/ JavaScript)

FairSpec == Spec /\ Fairness

-----------------------------------------------------------------------------

(* No event tells of it: a complete download looks like one under way.     *)
Seen(p) == [p EXCEPT !.buying = IF @ = "download_completed" THEN "downloading" ELSE @]

TypeOK ==
    /\ plugin \in Plugin
    /\ requests \in Seq(Request)
    /\ answering \in Request
    /\ alerts \in Seq(Alert)
    /\ batch \in 0 .. Len(alerts)
    /\ calls \in Seq({"refused", "pending", "answered", "repeated"})
    /\ known \in Plugin
    /\ stale \in BOOLEAN
    /\ pc \in {"running", "exited"}

NextIs(type) == pc = "running" /\ batch > 0 /\ Head(alerts).type = type

(***************************************************************************)
(* When a callback finds no error, if (err) as all callers here ask, the   *)
(* events before it have told the program that what it asked for is done,  *)
(* and nothing told after has undone it: the callback may rely on the      *)
(* mode, the terms and the state that it asked for, whatever else is       *)
(* called, queued or gone wrong.  The one exception is a call that failed  *)
(* with the empty text: nothing but the missing result tells it from a     *)
(* success, and the callers do not look at the result.                     *)
(***************************************************************************)
Done(k, r) ==
    CASE r.kind = "start" -> k.state = "started"
      [] r.kind = "stop" -> k.state = "stopped"
      [] r.kind = "to_observe_mode" -> k.mode = "observing"
      [] r.kind \in {"to_sell_mode", "update_seller_terms"}
            -> k.mode = "selling" /\ k.terms = r.arg
      [] r.kind \in {"to_buy_mode", "update_buyer_terms"}
            -> k.mode = "buying" /\ k.terms = r.arg
      [] r.kind = "start_downloading" -> k.buying = "downloading"
      [] OTHER -> TRUE

AnswerTellsEffect ==
    ~stale /\ NextIs("RequestResult") =>
        \A what \in What :
            TakenForSuccess(Head(alerts), what)
                => Done(known, Head(alerts).request) \/ Misleads(Head(alerts), what)

(***************************************************************************)
(* A status agrees with the events and answers before it: read by the      *)
(* names the module exports it shows the mode, state, terms and libtorrent *)
(* interaction that the program was told of, no newer and no older ones.   *)
(***************************************************************************)
StatusAgrees ==
    ~stale /\ NextIs("TorrentPluginStatusUpdateAlert") =>
        LET status == EncodeStatus(Head(alerts).after)
            s      == status.session
        IN  /\ \A m \in Mode : s.mode = EncodeMode[m] <=> known.mode = m
            /\ \A x \in State : s.state = EncodeState[x] <=> known.state = x
            /\ \A i \in Interaction :
                   status.libtorrentInteraction = EncodeInteraction[i]
                       <=> known.interaction = i
            /\ s.selling # <<>> <=> known.mode = "selling"
            /\ s.buying # <<>> <=> known.mode = "buying"
            /\ Read(status) = known

(***************************************************************************)
(* Once every alert is processed, what the program knows is what the       *)
(* plugin is: no change of the session goes untold.                        *)
(***************************************************************************)
NothingUntold ==
    ~stale /\ alerts = <<>> /\ answering = NoRequest => known = Seen(plugin)

-----------------------------------------------------------------------------

(* Calls whose answer is still on its way; those that wait without are lost.*)
OwedBy(request, i) == request.call = i /\ i # 0

Owed(i) ==
    \/ \E n \in DOMAIN requests : OwedBy(requests[n], i)
    \/ OwedBy(answering, i)
    \/ \E n \in DOMAIN alerts : OwedBy(alerts[n].request, i)

Calls == INSTANCE AsyncCalls WITH
    calls <- [i \in DOMAIN calls |->
                IF calls[i] = "pending" /\ ~Owed(i) THEN "lost" ELSE calls[i]]

(***************************************************************************)
(* The methods keep the promise of AsyncCalls: accepted calls are answered *)
(* at most once and in their order, also when callbacks throw in between,  *)
(* and refused ones never: no call is "repeated", which AsyncCalls knows   *)
(* nothing of.                                                             *)
(***************************************************************************)
ImplementsCalls == Calls!Spec

(***************************************************************************)
(* Every accepted call is answered: none stays under way for ever, and     *)
(* none ceases to be but by its answer, unless an exception ends a batch.  *)
(***************************************************************************)
AnswerOrException ==
    \A i \in DOMAIN calls : Owed(i) => Owed(i)' \/ calls'[i] = "answered" \/ stale'

EveryCallAnswered ==
    /\ [][AnswerOrException]_vars
    /\ \A i \in 1 .. MaxCalls : []<>(~Owed(i) \/ pc = "exited")

(***************************************************************************)
(* Statuses heal what exceptions lost: however many events the program     *)
(* missed, its view agrees with the plugin again and again.                *)
(***************************************************************************)
StatusHeals == []<>(known = Seen(plugin) \/ pc = "exited")

=============================================================================
