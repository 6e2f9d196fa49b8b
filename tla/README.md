# joystream-node in TLA+

Models, model-checked properties and machine-checked proofs for joystream-node,
the Node.js binding of the JoyStream extension of libtorrent. Paths below are
relative to the repository. The modules are written from the code as it is, not
from its documentation; where the two differ the difference is recorded under
*Findings*.

Contents: 1. The system. 2. Modules and how they correspond to the code.
3. Runs. 4. Proofs. 5. Findings. 6. What is assumed of code outside the
repository. 7. What is not modelled. 8. Plan.

## 1. The system

Two threads and two queues:

    JavaScript thread                              network thread
    -----------------                              --------------
    user code                                      libtorrent session
      | addTorrent, toBuyMode, ...                   ^
      v                                              |
    lib/Session.js, lib/Torrent.js                 plugin (extension-cpp)
      |                                              ^
      +--> src/Plugin.cpp --- requests (FIFO) -------+
      ^                                              |
      +--- timer, 100 ms <--- alerts (FIFO, limited) +

JavaScript never waits for the network thread. A call becomes a request in the
plugin's queue; its result, like every event of libtorrent and of the plugin,
comes back as an alert, and alerts are popped as a batch every 100 ms and
handled one at a time. The one thing that crosses without a queue is a read of
a torrent handle (`infoHash()`, `isValid()`, `status()`), which looks into the
network thread's state at that very moment.

| Component | State | Operations | Hard part | Correct when |
|---|---|---|---|---|
| Session (`lib/Session.js`) | `torrents`, `torrentsBySecondaryHash`, the popped batch | `addTorrent`, `removeTorrent`, `process` and its handlers | the map lags behind libtorrent; handles die between two reads; a throw loses the rest of a batch | the map is exact up to the alerts on their way; every callback is called once and in order |
| Torrent (`lib/Torrent.js`) | `handle`, `infoHash`, `secondaryInfoHash`, last statuses | the mode, start and stop calls, event emission | the constructor reads the handle again | an event reaches the object of the torrent it is about |
| Peer discovery (`lib/Session.js`) | `torrentsBySecondaryHash`, `_externalUdpPort` | two timers, DHT replies, port mappings | replies for torrents that are gone; mappings that change, fail or are TCP's; a DHT that forgets | the index leads to a torrent that has that secondary hash; what stays is findable, what is gone is forgotten |
| Plugin requests (`src/Plugin.cpp`, `src/RequestResult.cpp`) | callbacks in flight | one method per request | a callback that throws; an empty error text; an answer and an event about the same change | one answer per accepted call, in order, after the events it answers for |
| Status updates (`src/Session.cpp`, `src/TorrentPluginStatus.cpp`, `src/PeerPluginStatus.cpp`) | none | timer, encoders | snapshots between events; events that were lost | a status says what the events before it said, and heals what was lost |
| Alert encoder (`src/PluginAlertEncoder.cpp`) | none | `encode` | which alerts carry what | the fields that handlers read are set |
| `waitForState` (examples) | listeners of `state_changed` | wait, notice, call back | the state changes between the look and `on()` | no lost wakeup, one call |
| Buyer program (`examples/buyer/buyer.js`) | `lookingForSeller` | `letsBuy` and its listeners | the seller picked from a status has left | never two contracts, never stuck |
| Seller program (`examples/seller/seller.js`) | the map `buyers` | `letsSell` and its listeners | late errors and removals about an earlier connection | no stale entry, every invitation served |
| Terms (`lib/utils.js`, `src/BuyerTerms.cpp`, `src/SellerTerms.cpp`) | none | `areTermsMatching`, the updates | boundaries of four comparisons | matching is the existence of a contract |
| Connection status (`src/Connection.cpp`) | none | encoders of a peer's status | two encoders that look alike | what is shown is what the channel has |
| Commitment helper (`src/payment_channel.cpp`) | none | one conversion | widths and signs of integers | a lock keeps its value on the way or is refused |
| Value conversions, enumerations, start-up | none | conversions, tables | none | - |

The hazards in the code, each at its line and with the properties that would
catch it going wrong, are in `PROJECT.json` under `hazards`.

## 2. Modules and how they correspond to the code

| Module | Models | Checked by | Proved in |
|---|---|---|---|
| `NodeSession` | Session, Torrent, requests, alert queue | `MCNodeSession` | `NodeSessionProofs` |
| `NodeSessionInv` | the inductive invariant of `NodeSession` | `MCNodeSession` | the same |
| `TorrentReplica` | abstract: what the map `torrents` promises | implemented by `NodeSession` | `ComponentProofs` |
| `TorrentPlugin` | the methods of class Plugin for one torrent, its events, answers and statuses | `MCTorrentPlugin` | `TorrentPluginProofs` |
| `AsyncCalls` | abstract: what those methods promise a caller | implemented by `TorrentPlugin` | `ComponentProofs` |
| `PeerDiscovery` | the DHT timers, replies, port mappings | itself | `PeerDiscoveryProofs` |
| `PeerConnection` | a peer's connection, payments, events and statuses | itself | `PeerProofs` |
| `ConnectionStatus` | the encoders of the two sides of a payment channel | `PeerConnection` | `PeerProofs` |
| `WaitForState` | `waitForState` | `MCWaitForState` | `ComponentProofs` |
| `BuyerApp` | `letsBuy` | `MCBuyerApp` | `BuyerProofs` |
| `SellerApp` | `letsSell` | `MCSellerApp` | `SellerProofs` |
| `Terms` | terms, their matching and updates | `MCDealNumbers` | `DealProofs` |
| `DealNumbers` | the numbers of terms, outputs and outpoints through the bindings | `MCDealNumbers` | `DealProofs` |

Definitions with an underscore in the name, such as `Forget_keepsEntry`, are
not part of a model. Each is a plausible bug in the definition that follows it
and is used to see that a property notices it (`mutants` in `PROJECT.json`).

### NodeSession

State. `handles`, `alive` and `libtorrent` are the network thread's: a torrent
gets a handle, the position in `handles`; it may be out of the session
(`libtorrent`) and still be `alive`, until the last reference goes (`Expire`),
and from then on its handle reads as the hash of all zeros. `requests` and
`alerts` are the two queues. The first `batch` elements of `alerts` are the
batch that JavaScript has popped; only the rest counts against libtorrent's
limit. `torrents` and `bySecondary` are the two maps of the Session, an entry of
`torrents` being a `Torrent` object: its handle and its `infoHash`, which the
constructor reads for itself. `callbacks` says what became of each request.

Grain. JavaScript handlers run one at a time, so a handler is one action, cut
only where it reads a handle again: the network thread may free the torrent in
between. `pc` is where the handler of the first alert stands: `construct` is
between the two reads of `_addTorrentAlert` and the `Torrent` constructor
(`lib/Session.js:500`, `lib/Torrent.js:17`), `resolve` is between `isValid()`
and `infoHash()` in `addTorrent`'s callback (`lib/Session.js:110`, `:114`).

| Action | Code |
|---|---|
| `AddTorrent`, `RemoveTorrent` | the methods of the same names |
| `ProcessAdd`, `ProcessRemove` and their failures | the plugin, as `src/Plugin.cpp` asks of it |
| `ExternalAdd`, `ExternalRemove`, `Expire`, `TorrentEvent` | libtorrent by itself, or used directly by the user |
| `PopAlerts` | the timer of the constructor |
| `AlertListenerThrows`, `Throws`, `Abort` | an exception that leaves `process` and the loop |
| `AddTorrentAlert`, `ConstructTorrent` | `_addTorrentAlert` |
| `TorrentRemovedAlert` | `_torrentRemovedAlert` |
| `DispatchTorrentAlert` | the handlers that find a Torrent by handle or by hash |
| `AddResult`, `ResolveAddedTorrent`, `RemoveResult` | the callbacks of the two requests |

An exception from user code (a listener, a callback) or from the assertion
leaves the loop over the batch. In a plain node process that ends the process
(`UncaughtIsFatal`); under a handler for uncaught exceptions, as in Electron, the
process goes on and the alerts left in the batch are lost. Both are checked.

`lost` is history: it becomes TRUE when an alert is dropped by a full queue or by
an exception. Properties that need every alert are stated under `~lost`; those
that hold regardless are stated without it, and say what survives a loss.

### TorrentReplica

A set `present`, a set `view`, and a stream of notices between them. It says what
a user of `session.torrents` may rely on. `Deliver` may skip an addition only when
its removal is also in the stream (the torrent was freed before JavaScript came to
the alert, and `_addTorrentAlert` found zeros). `ImplementsReplica` states that
`NodeSession` is an implementation, with `present` and `view` the domains of
`libtorrent` and `torrents`. Liveness of the map is stated on `NodeSession`
(`ViewCatchesUp`), where the fairness comes from.

### WaitForState

`state` changes in the network thread, `pending` counts the `state_changed` alerts
that are posted and not handled. The calls of `waitForState` are made in program
order (`Wait`); emission goes over the listeners as they were when it began
(`emitting`), one `CheckState` each, and the state is read anew in each: it may
have changed again.

### BuyerApp and SellerApp

Each models one of the example programs: its flag or map, its listeners, and the
callbacks of its requests, against a plugin with a request queue, a stream of
alerts and peers that connect, change and leave by themselves. A status alert
carries what was true when it was posted, so a program may pick a peer that is
gone when its request is processed. In `SellerApp`, `rejoined` is history: buyers
that left while they were asked for. `AskedOnce` excludes exactly those, because
for them the late error of the first request takes out the entry of the second
connection (`examples/seller/seller.js:79`), and the buyer is asked for twice; TLC
shows that state to be reachable. The first of the two then succeeds, the second fails
and takes the entry out although the buyer is being served. A buyer that is served does
not invite, so nothing follows but a wasted request, and no finding is recorded.

The callbacks of both programs test `if (err)`, and `err` is the text of an exception
(`src/Plugin.cpp:527`). An empty text is as false as `null`, so `SeesError` lets a failure pass for
a success. `misled` is history of it: in `BuyerApp` that a failed download was taken for one that
started, in `SellerApp` the buyers whose entry was kept though the upload to them failed. The
properties say how far the damage goes. A buyer program that is misled may wait for ever for a
download nobody makes, so `NeverStuck` and `BuysFromReadySeller` exempt it; it still never makes a
second contract (`LooksOnlyWhenIdle` has no exemption). A seller program that is misled has a stale
entry, but only as long as the buyer stays connected (`NoStaleBuyer`). Whether the plugin
ever throws an exception without a text is not decided in this repository.

### TorrentPlugin and AsyncCalls

State. `plugin` is the torrent's plugin in the network thread: mode, state, terms,
how far buying has come, and the libtorrent interaction. `requests` and
`alerts` are the two queues, with `batch` as in `NodeSession`; `answering` is the request
that was carried out and not yet answered, because a handler of the plugin changes
the session (which posts its own alert) before the alert with the result is posted, and
JavaScript may pop in between. `known` is the plugin as a program knows it that follows
the events and statuses that `process` dispatches; `stale` is history: something told was
lost, or a failure was taken for a success, since the last status. `calls` says what became of each
call, and keeps a callback that is called a second time apart (`"repeated"`). `pc` is `"exited"` once an exception has ended the process.

| Action | Code |
|---|---|
| `ToSellMode`, `ToBuyMode`, ..., `PauseLibtorrent` | the methods of class Plugin, each `Call`: decode, submit or throw |
| `PausePlugin` | `Torrent.pausePlugin`, which calls a method the class does not have |
| `PostTorrentPluginStatusUpdates` | the timer of the constructor |
| `Execute`, `Reply`, `ExecuteFails`, `PostStatuses` | the plugin processing a request (external) |
| `AllSellersGone`, `DownloadCompletes` | what the plugin does by itself |
| `HandleEvent` | `_sessionStarted` ... `_allSellersGone` |
| `HandleResult`, `Abort` | `RequestResult::Run`, the generic callback handler, an exception that leaves the loop |
| `HandleStatus` | `_torrentPluginStatusUpdateAlert`, whose listeners may throw like any others |

The callback's arguments are those of `errorValueGn` and `resultValueGn` (`ArgumentsOf`), with any
of the texts `What` on a failure, and the program asks `if (err)` as every caller in the repository does
(`TakenForSuccess`): a failure with the empty text `Misleads`. `AnswerTellsEffect` says of each answer
without error that its effect was told or that it misleads so, and nothing else. What it may have cost a
program to be misled ends with the next status (`StatusHeals`).

Two simplifications: every event is about the one torrent there is, so the lookup by info hash of
`__emitEventOnValidTorrent` always finds it (`NodeSession` has that lookup); and the program's own
listener for statuses was registered before any that throws, so an exception from a status
listener costs the rest of the batch but not that status.

The encoders are tables from names to numbers, as `src/Session.cpp` writes them; `Read` is
a program that goes back from the numbers by the names the module exports. Requests whose
effect no status tells of (pausing and resuming the torrent, dropping a peer) share the kind
`"untold"`. A plugin starts in any mode that earlier calls can have set (`AtRest`), so that two
further calls from each reach every pair of calls.

`AsyncCalls` knows nothing of queues: a call is refused at once or accepted, accepted calls are
answered in their order and at most once, and an exception may cost others their answer.
`ImplementsCalls` states that `TorrentPlugin` implements it; a call is pending as long as its
request, its answer or its alert is still somewhere on its way. A second answer would make a call
`"repeated"`, an outcome that `AsyncCalls` does not have, so it is no stutter of the abstract calls.
`EveryCallAnswered` adds that no call stays under way for ever, and that none leaves it but by its
answer or by the exception that ends a batch.

### PeerDiscovery

The torrents and their index by secondary hash as two sets, the port learned from the
`portmap` alerts, and the three outside parties as far as they matter: the router with the port it
maps now (`mapping`), the DHT with the announcements it remembers (`dht`) and the requests it
has not answered (`asked`). Announcing and asking are steps of the timers and of adding a
torrent. How the index is kept exact through lost and late alerts is the subject of
`NodeSession`, where the same two maps are modelled with handles; here torrents are added and
removed in one step.

### PeerConnection and ConnectionStatus

One peer. The network side (`Handshake`, `AddConnection`, `Move`, payments, `RemoveConnection`)
goes through the inner states as `src/Connection.cpp` names them; only their order along a
sale and a purchase is kept. `Put` drops what does not fit the alert queue and marks
the next alert that does (`gap`), which no program can see and the properties use. `known` is the
account that a program keeps of the connection: opened, payments counted from
the totals that events carry, closed, and replaced by what a status shows. Listeners of events may
throw; those of statuses do not. `ConnectionStatus` has the two encoders of a channel, with
the getter that `encode(Payee)` really uses.

### Terms and DealNumbers

`Terms` holds `areTermsMatching` and the updates of terms, with the reference definition: two
sides match when a contract exists that both accept. `DealNumbers` extends it with the
way of the numbers: JavaScript numbers are counted in halves, so that a fraction is one that the
conversions cut off; counts, locks and indices go through a word of `Word` values, with and
without sign; amounts are 64 bits wide, which satoshis do not exhaust. Each side judges by its
own numbers and by the peer's as they came back from the wire. `TakesCommitment` and
`CommitmentToOutput` are the conversions of `commitmentToOutput`, tried with locks as a program may have
them, in JavaScript and not yet cut to a word: as it wrote them in its terms or as the peer announced
them. `OutputKeepsLock` compares the output with the lock that the protocol has in the same terms.
No program of the repository builds a contract from terms (`examples/buyer/buyer.js:102` has a fake
one), so the property is about the conversions and not about a deal. The same holds of
`DecodeOutPoint`, which nothing in the repository calls: `AnnouncedComesBack` uses it as a program would that
spends the output it was told of. 32 bits are modelled as three: nothing depends on how many there are,
which the proofs, for any even `Word`, confirm.

## 3. Runs

| Run | Question | Bounds, and why they suffice |
|---|---|---|
| `one_torrent` | Is the map exact up to pending alerts, do callbacks and events find their torrent, is the inductive invariant one, is the replica implemented, is every callback called and does the map catch up, with throws and lost alerts? | One hash, two torrents, two requests, queue limit 4. Two torrents under one hash is what all confusions of a torrent with its successor need; different hashes do not interact in these properties; a limit of 4 is reached after two requests and one removal by others, so alerts are lost in the run, by a full queue and by a throw. |
| `two_torrents` | Do the two maps agree with one another, whatever is lost or freed? | Two hashes, three torrents, limit 3, and exceptions that may end the process. The maps are keyed by different hashes: two hashes are needed for an entry to point at the wrong one, and a third torrent for one of them to be added again. |
| `assertion` | Does the assertion of `addTorrent` hold? | One torrent, one request. It does not. |
| `wait_for_state` | Lost wakeups, repeated calls, a stable state passed over? | Three states, the two calls of `buyer.js`, three pending alerts: enough for the state to enter and leave a target while its first alert is pending. |
| `buyer` | Two contracts, stuck, or blind to a ready seller? | Two sellers, nine changes of connections, two statuses in the queue: a full cycle of a seller is three changes, so one can fail and come back while the other does the same. |
| `seller` | Stale entries, repeated requests, unserved buyers? | Two buyers, one suitable, six changes of connections: the suitable one can leave when it was asked for or is served, come back and invite again, twice. |
| `torrent_plugin` | Do answers, events and statuses tell one story; are calls answered, in order; does a status heal what was lost? | Two calls from any mode at rest, any number of statuses and of what the plugin does by itself, one value of terms, one interaction other than none, failures with the empty text and with another. Overtaking, crossing and undoing need two calls; terms matter as present or not. |
| `deals` | Does matching mean that a contract exists, for both sides and on the wire? Does an output keep the lock of the terms, do announced terms and outpoints come back as they were? | Amounts 2, 2.5 and 3; counts 2, 5.5 (negative with sign once cut) and 9 (more than the word of 8): below, at, above and between every boundary. |
| `peer_discovery` | Is what stays findable and told of peers, what is gone forgotten; which port is announced? | One torrent, as torrents do not interact; two UDP ports so that a mapping can change, one TCP port, two alerts about ports waiting. |
| `mapped_port` | Is the announced port a mapped one or the local one? | As `peer_discovery`. It is not. |
| `peer_connection` | Do events, statuses and claims agree; does a status heal an account? | Two payments on a channel with funds for both but not for both and the fee, so that claims both can and cannot be made; a queue of two alerts, so that the two of a removal fill it. |
| `payee_funds` | Does the payee's encoder show the funds? | One channel. It does not. |

Only `assertion`, `mapped_port` and `payee_funds` expect a violation; see *Findings*.
`two_torrents` and `torrent_plugin` are run without the deadlock check, because a process ended
by an exception does nothing any more; the violation runs because their bounds end the run, not the
system.

Most models define a `TypeOK` that no run lists: it is part of the inductive invariant of the
model's proofs, which establish it for every instance (section 4).

**Fairness.** Weak fairness of `Network`: libtorrent's thread goes through the
requests of the plugin on each of its ticks, whatever JavaScript does. Weak
fairness of `PopAlerts` and of the handlers: the timer of the constructor
(`lib/Session.js:49-60`) is never cleared, and a handler that was started runs to
its end. The posting of statuses: the timer of `lib/Session.js:63-68`, never cleared either; the
same of the two DHT timers (`lib/Session.js:74-91`). None is assumed of users, peers, `Expire` of
a handle or torrents that report events. In `PeerDiscovery` the DHT forgets what is not announced
again (weak fairness of `Expire`), and answers some of the requests for peers that
are repeated for ever (strong fairness of `Reply`): it may leave any finite number unanswered.
`AccountHeals` speaks of a connection that comes to rest, `NewPortWins` of a mapping that stays.
In the two programs the bound on changes (`MaxChurn`) ends every run's
changes, which is not fairness of the peers: a property such as
`BuysFromReadySeller` is stated about a peer that stays ready, and a run
in which the peers stop changing is the one in which they do.

## 4. Proofs

TLAPS checks these for every value of the constants: any info hashes, terms, sellers, buyers,
states, ports and amounts, any options, limits and bounds.

| Theorem | Says |
|---|---|
| `TypeCorrect` | types of all variables of `NodeSession`, and that neither the batch nor the queue exceeds its bounds |
| `ViewInvariant`, `InductiveInvariant` | `TypeOK /\ Order /\ Complete` is an invariant, inductive together with: alerts and handlers name handles that were handed out |
| `ViewExact` | with no alert about a torrent pending and none lost, the map has exactly the torrent the session has |
| `AddedRegistered` | `addTorrent`'s callback finds the torrent of its own handle, if that still lives |
| `RemovedUnregistered` | `removeTorrent`'s callback finds it gone |
| `EventsFindTheirTorrent` | an event goes to the object of the torrent that reported it |
| `SessionTorrentKept` | no step takes a torrent that is in the session out of the map |
| `MapImplementsReplica` | `NodeSession` implements `TorrentReplica`: each of its steps is one of the replica or changes nothing of it |
| `CallbacksInOrder` | while nothing is lost, each callback that was not called is owed one call, and the calls come in the order of the requests |
| `LiveReachable`, `SecondaryLeadsBack` | a torrent whose handle lives is found under its secondary hash, and every secondary hash that is announced leads to a torrent of the map that has it |
| `ToldTruth` | the inductive invariant of `TorrentPlugin`, types included |
| `AnswersTellEffects` | a callback that finds no error finds that events told of the effect before it, and that nothing told since has undone it, unless the call failed with the empty text |
| `StatusesAgree` | a status says what the program knows by events, unless it lost one |
| `NothingGoesUntold` | with nothing under way and nothing lost, the program knows the session as it is |
| `CallsKeepOrder`, `PluginImplementsCalls` | the calls under way stay in order, and `TorrentPlugin` implements `AsyncCalls`: each of its steps is one of the abstract calls or changes nothing of them |
| `BuyerTypeCorrect`, `OneThingAtATime` | the types and the inductive invariant of the buyer program |
| `OneContractAtATime`, `AlwaysGoesOn` | it never looks for a seller while a contract is made or may be honoured, and, unless it was misled by an empty text, never waits for what is not on its way |
| `SellerTypeCorrect`, `SellerInvariant` | the types and the inductive invariant of the seller program |
| `NoBuyerStale`, `BuyersAskedOnce` | no entry of its map is stale for good, one kept after an empty text for no longer than the buyer is connected, and a buyer that never left when it had been asked for is asked for once at a time, not while it is served |
| `PeerTypeCorrect`, `PeerInvariant` | the types and the inductive invariant of `PeerConnection` |
| `StatusAgrees`, `ClaimMatches` | a status shows the payments that the events told of, and a claim is held exactly when the channel covers it |
| `NoWakeupLost`, `OneCall`, `ListensOrAnswered` (from `WakeupInvariant`) | `waitForState` loses no wakeup, calls back at most once, and listens until it does |
| `ReplicaConverges` | the abstract replica keeps its promise: with no undelivered notice about a torrent, the view has it exactly when it is present |
| `AnswersInOrder` | in `AsyncCalls` no call is answered while an earlier accepted one waits |
| `OnlyUdpPortsAnnounced` | only the local port and ports of UDP mappings are ever announced (`DiscoveryTypeCorrect` is its type part, `DiscoveryInvariant` what it is derived from) |
| `MatchingIsAgreement`, `YieldingIsSafe` | `areTermsMatching` is the existence of a contract, and giving way keeps every partner |
| `VerdictHoldsOnWire`, `WholeNumbersJudgedAlike` | a match found by either side, with fractions or without, is one on the wire; with whole numbers both sides judge alike |
| `OutputHasLock`, `AnnouncedSurvives` | an output has the lock of the terms or is refused, and terms and outpoints that were announced come back as they were in the protocol, for every word size and every number |

Assumptions: the named `ASSUME`s of the modules, each about the constants (the empty
hash is not a torrent's, options are Booleans, the alert limit is positive, bounds
and amounts are naturals, the values that stand for "nothing" are none of the values they stand in
for, `Buyers` is a sequence without repetition: a status lists a connection once). TLC evaluates
them in the runs.

Each component has a module of proofs, but `ComponentProofs` holds those of `WaitForState`, which it
extends, and of the two abstract specifications, of which it has instances.

**The argument for the map.** None of the safety properties is inductive: that the
map is exact when *nothing* is pending says nothing of the moment before. The
strengthening (`NodeSessionInv`) has two parts.

`Order` holds whatever is lost. Handles are given in order of creation and both
queues are FIFO, so the alerts about one info hash come in the order of its
torrents, none about a torrent comes after its removal, and the map is never ahead of
the alerts. A late `torrent_removed` therefore names a torrent older than the one
in the session, and, since the map is behind every pending alert, cannot hit
a successor: `SessionTorrentKept` follows from `Order` alone, and so also after
losses. It is the reason why looking up by hash, not by handle, is right.

`Complete` holds while nothing is lost. `Agrees(x, c, n)` says that once the alerts
before position `n` are handled the map will have torrent `c` of `x`; the invariant
says it of what the session has now, at the end of the queue, and of what each
alert in the queue *claims* (a result, an event), at its own position. Both are
needed: the second is what remains, when the session changes again, of what
held when the alert was posted. At the head of the queue `n = 1` and `Agrees` is the
property itself. `Agrees` does not promise the torrent if it was freed meanwhile:
`_addTorrentAlert` then finds zeros and skips, and that is why the theorems have
`h \in alive` in them and the assertion of `addTorrent` does not hold.

`NodeSessionProofs` has, in this order, the types, the lemmas about the queue (what popping,
posting and aborting do to positions), how each kind of change keeps `Order` and `Agrees`, one step
per action and the theorems; then the same for the refinement, the secondary hashes and the callbacks.

**The argument for the callbacks.** That the answers come in order is not inductive: nothing says of
a request that waits that it is younger than the answers, nor that the next one will be. `OwedInv`
says which requests wait: the last `Len(requests)` ones that were made, in order, so that all
before them were taken by the plugin (`Taken`); and the results in the queue are of those taken
and not answered, ascending, one for each.

**The argument for the refinement.** The notices are the alerts, one by one (`NoticesOf`): what
libtorrent posts up to the limit of its queue the replica publishes (`PostPublishes`), and a handler
that ends delivers the first notice or, when the batch is given up, loses the batch
(`EndDelivers`). What is left is one lemma per action. Only one needs more than types and `Order`:
where `_addTorrentAlert` skips an addition because the handle reads as zeros, `Complete` supplies the
later removal, without which the replica may not skip (`Superseded`).

**The argument for the secondary hashes.** `ConstructTorrent` reads the handle again, so the object
may have the hash of an invalid handle, and its entry is then under that one's secondary hash, which
another torrent may share. `OwnHash` (an object has its own hash or that of an invalid handle)
makes the two properties inductive together: removing a torrent clears an entry that is no live
torrent's, and an overwritten entry was that of a torrent whose handle is invalid.

**The argument for the numbers.** The terms never change but to other terms (`TypeOK` is all the
invariant there is); the rest is arithmetic, stated once as lemmas: cutting a number (`TruncNat`),
numbers of the protocol coming back as they went (`TruncJs`, `Uint32OfJs`), remainders by a word of any size (`Remainder`) and the
sign that comes and goes (`SignedRoundTrip`, `RoundTrips`). For the others: `AnnouncedPortTakesUdp` needs that
the port JavaScript keeps and the UDP alerts that wait are of UDP mappings; `NoOvertaking` is
inductive as it stands, and `Converged` needs that the last notice about a torrent says what is true now.

**The argument for what a plugin tells.** Each of the three properties speaks of the head of the
queue or of an empty one. `TInv` says it of the whole queue: `Links` relates each alert to what the
one before it told (an event tells of the change made when it was posted, an answer of success finds
its effect told, a status tells nothing new), and `LastLink` says that after the last one the program
will know the plugin as it is, but for what the answer still to come adds. After a loss the chain is
broken only at its first link, which is left out while `stale`; a status mends it. Two details
carry the induction: a request that waits was decoded (`WellAsked`), so an answer has terms that
the session can have, and a mode that is neither buying nor selling keeps no terms (`WellFormed`), so a
status shows all there is.

**The argument for the calls.** A call that is on its way is at one of the positions of one line
(`Way`): the alerts, the answer being made, the requests. `CallsInOrder` says that calls ascend along
that line and that each of them waits for its answer. Posting and taking move nothing past anything,
so the order stays. The refinement maps a call that waits and is nowhere on the line to one
that was lost: an exception takes away a front part of the line, and so loses a set of
calls that come before all others, which is what `AsyncCalls` allows.

**The argument for the buyer program.** Both properties follow from one statement of what goes on:
the program asks (one request is with the plugin), is told (one alert that moves it on is in the queue,
and those after it are statuses), looks, buys from one seller, or gave up (`OneThing`): because its
first requests failed, or because it is misled and thinks that it buys. The alternatives
exclude each other and every action goes from one to another: that a second request cannot
be made while the first is not answered is the reason why the flag suffices.

**The argument for the seller program.** `NoStaleBuyer` and `AskedOnce` each lack what the other says, and
both lack an order among the alerts: when a callback is told that a buyer is served, the buyer is, or the
news that it left comes later (`ServedOrLeft`); and while a buyer is served, any older news that it left
comes before that answer, so it cannot take out the entry afterwards (`Once`). A buyer that left when it had been asked for (`rejoined`) is exempt from `Once`, not
from `Entry`. Where the program asks for several buyers at once, the order of the requests is
that of the status (`IsListing`), and one buyer's requests and answers are sets of positions. That an entry
kept after an empty text is repaired when the buyer leaves needs that the news of its leaving is behind every
status that shows it invited, and that a buyer that is gone is in the map only while that news is under
way (`Vanished`).

**The argument for a peer's account.** `Explained`: there is a history, an account between any two
alerts of the queue, that begins with the account that the program keeps, unless that is stale, and
ends with the connection's, unless the last alert was dropped; every alert leads from the account
before it to the one after it, except across a gap. At the head of the queue this is
`StatusAgreesWithEvents`, and, since an alert about the last payment is encoded from the same totals
(`PaidWhenOpen` keeps totals of a channel that is not open at nothing), `ClaimMatchesAccount`. The history of
the next state is the old one with its first account cut off, or with one more at its end.

**Only model-checked.** Liveness (`CallbackFires`, `ViewCatchesUp`, `EveryCallAnswered`,
`StatusHeals`, `AccountHeals`, `StaysFindable`, `GoneIsForgotten`, `NewPortWins`,
`PeersKeepComing`, `StableStateNoticed`, `BuysFromReadySeller`, `InvitingBuyerServed`), which is
out of the prover's reach. Every safety invariant and action property of a run that is expected to pass has a theorem,
and both refinements have.

## 5. Findings

1. `lib/Session.js:110-117`. `addTorrent`'s callback looks at `isValid()` and then
   reads `infoHash()`. The torrent may be removed and freed in between; the hash is
   then all zeros, `assert` throws, the user's callback is never called and the rest
   of the batch is lost. Run `assertion`.
2. `src/Connection.cpp:151`. The funds of an encoded `Payee` are
   `numberOfPaymentsMade()`; the documentation of the encoder says that it is as the
   payor's, whose funds are the funds. Run `payee_funds`.
3. `lib/Session.js:806`. `dhtAnnounce` says that it announces "the successfully mapped port or
   the local listening port", but the handler of port mapping errors is empty: once a mapping that
   succeeded fails or is not renewed, its port is announced for as long as the process
   runs. Run `mapped_port`.

Not recorded as a finding, because it depends on a library that is not in the repository: a failure whose
exception has an empty text is taken for a success by the callbacks that test `if (err)`
(`examples/buyer/buyer.js:51`, `:56`, `:90`, `examples/seller/seller.js:48`, `:53`, `:77`); the models have it, and
section 2 says what follows. `result` would tell it from a success. The other two tests are not
affected: the error that `addTorrent` looks at (`lib/Session.js:108`) is an object that encodes an
error code, and `removeTorrent` (`:144`) calls back alike with an error and without.

Seen while reading, and not about behaviour a model would add to: a peer that announced
observe mode is encoded under the key `observer` (`src/Connection.cpp:99`), where the documentation
says `observe` (`src/Connection.hpp:46`), and the example programs use neither; `index.js`
exports `joystream.SellingState`, which `src/Session.cpp` never sets;
`examples/seller/download_sfc_torrent.js` constructs a Session without `network`,
which the constructor refuses; `SendingPieceToBuyer` and `PieceRequestedByBuyer` are
encoded by `src/PluginAlertEncoder.cpp` and dispatched by nothing in
`lib/Session.js`.

## 6. What is assumed of code outside the repository

libtorrent, the JoyStream plugin and the protocol library are not in the repository.
They are modelled from what this code asks of them and expects of them:

- the plugin's requests and libtorrent's alerts are FIFO;
- the alert about an added or removed torrent and the result of the request that
  caused it are posted in one step of the network thread, so nothing comes between
  them but one of them may be lost;
- an alert posted when the queue is full is dropped. libtorrent gives
  `torrent_removed` some room beyond the limit; the model does not, which
  only adds losses;
- a handle whose torrent is freed is invalid and reads as zeros;
- the plugin posts the alert about a change of its session before the one with the result
  of the request; changing the mode leaves the session started or stopped as it was, and a request
  that does not fit the mode or state fails and changes nothing;
- the numbers of JavaScript become integers as ECMAScript converts them (`ToInt32`,
  `ToUint32`, truncation); a converter that refused some numbers would only remove
  behaviours;
- the DHT forgets announcements, and answers requests now and then; libtorrent posts
  `portmap` for UDP and TCP mappings alike;
- the totals that payment alerts carry are those the channel keeps (`src/PluginAlertEncoder.cpp:182-235` copies
  them); the program that keeps account of them in `PeerConnection` is the model's own, a reader of the events
  and statuses that `lib/Session.js` emits, and its listener for statuses does not throw;
- a payment channel pays only out of its funds when we pay, while a peer's payments may exceed
  what is left for the fee;
- a request to download succeeds only from a seller that still waits for the contract,
  one to upload only to a buyer whose invitation stands, and a connection that was
  served does not go back to inviting without being removed.

Whether the terms of a peer suit is fixed per peer in `BuyerApp` and `SellerApp`
(`Suitable`), with `Terms` saying what that means; a peer that announces other terms
shows as a change of its connection.

Alerts are never lost in `WaitForState`, `BuyerApp` and `SellerApp`: with a limit of
about 5000 (`lib/Session.js:53`) this is the regular case, and what a loss does to a
session is the subject of `NodeSession`.

## 7. What is not modelled

- Calls that only pass through (`applySettings`, `postTorrentUpdates`, `listenPort`,
  handle methods): no state of this code is involved.
- Conversions of keys, signatures, transactions and buffers: stateless, and of
  types that another library defines. In the models these values are opaque.
- Alerts about single pieces and about transactions of contracts, whose handlers pass values on.
- The quadratic load of `postTorrentPluginStatusUpdates`, which ignores the info hash it is given
  (`src/Plugin.cpp:252`): every second each of N torrents asks for the status of all N. It is a cost, with
  no state to be wrong.
- Names of networks, start-up of the addon, build files, headers.
- Ownership of `Nan::Callback`s in the network thread: it is inside the plugin's
  queue, of which the source is not here.
- Text of errors, logging, debug output.

## 8. Plan

Done: `NodeSession` with its invariant and abstract replica; `TorrentPlugin` with the abstract calls;
`PeerDiscovery`; `PeerConnection`; `DealNumbers` on `Terms`; `WaitForState`; `BuyerApp`; `SellerApp`; and
proofs of the safety properties and refinements of all of them.

Next, in this order:

1. Loss of alerts in `BuyerApp` and `SellerApp`, and what of their invariants survives it.
2. Composition: `BuyerApp` and `SellerApp` against the answers and events of `TorrentPlugin`
   instead of their own small plugin, through one connection of `PeerConnection`.
3. Proofs: that the calls of `NodeSession` (`AddTorrent`, `RemoveTorrent`) implement `AsyncCalls`
   too, from `OwedInv`; the step part of the liveness arguments (`Links` under a status that
   heals), as action properties.
