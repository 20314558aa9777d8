# Formal model of Aiflow v2

TLA+ modules, TLC runs and TLAPS proofs about the concurrent core of this
repository: the worker that drives the official Codex extension, the watcher of
Codex session files, the IPC client, the browser bridge and its client, and the
verification of what a Codex run delivered to Git. Paths below are relative to the repository; `src/x.ts` is
the extension host, `browser/` the Chrome extension.

## 1. The system

| Component | State it keeps | Operations | Talks to |
|---|---|---|---|
| `officialCodexWorker.ts` | `active`, `runLock`, `cancelRequestedBeforeActive`; one `ActiveRun` per run | `run`, `cancel`, `dispose`; `execute` and `maybeCancel` inside | IPC client, session store, probe protocol |
| `officialCodexService.ts`, `appLifetimeWorker.ts` | none (one worker for the life of the window) | `run`, `cancel`: workspace and extension checks before the worker | worker, VS Code |
| `ipcClient.ts`, `protocol.ts` | socket, client identifier, pending requests, receive buffer | `connect`, `request`, `dispose`, `handleData` | Codex owner process over a Unix socket |
| `probeProtocol.ts` | a temporary bootstrap file | request parameters, interpretation of responses | worker |
| `sessionStore.ts` | none; locals of two polling loops | `waitForBootstrapSession`, `captureSessionBoundary`, `inspectTurnRecords`, `waitForExactTurn` | JSONL files that Codex appends to |
| `gitImplementationService.ts`, `gitInspection.ts` | `active` | `run`, `cancel`, `snapshot`; `preflight`, `inspectLocalAfterRun`, `verifyRemoteHead` | Codex service, git |
| `browserBridge.ts` | server, pairing, authenticated connection, pending and acknowledged delivery, review request and decision, cached identity, tracked sockets | `beginPairing`, `revoke`, `status`, `sendImplementationReviewEnvelope`, `dispose`, message handlers, timers | VS Code SecretStorage, the browser over WebSocket |
| `browser/.../client.mjs` | socket, state, pending operations, timers, `chrome.storage.local` | `connect`, `pair`, `disconnect`, `revoke`, `sendTestPrompt`, `createReviewRequest`, `sendReviewDecision`, message handlers | the bridge |
| contracts, commands, `extension.ts`, popup | none | validation, digests, user interface | all of the above |

Everything runs on a single JavaScript thread. What interleaves are the
stretches of code between two `await`s, socket events, timers, and processes
outside: the Codex owner, the session files, git repositories, the browser,
SecretStorage. The hard behaviours, each listed at its line in `PROJECT.json`
under `hazards`:

* **worker** - a `cancel()` may come at any of a dozen awaits, before the
  `ActiveRun` exists, twice, or after an interrupt failed; any await may fail;
  the owner may answer late, wrongly or never;
* **IPC client** - frames arrive in chunks cut anywhere; answers race timers, the
  loss of the socket and `dispose()`; one client outlives several sockets;
* **session discovery** - a directory is walked and read file by file while
  Codex creates, writes and moves sessions;
* **watcher** - the file grows between polls, holds other turns of the same
  conversation, and the start response may not name the turn;
* **bridge** - handlers are not serialised and each is suspended in
  SecretStorage; sockets that were closed still deliver messages;
  acknowledgements race their timers;
* **browser client** - guards are tested before an `await` and slots filled
  after it; acknowledgements go to whatever is pending; what was suspended on one
  connection resumes on the next; `connect()`, `pair()`, `disconnect()` and
  `onClose()` all wait for the storage and go on with what they read; the service
  worker may be killed at any time and keeps only `chrome.storage`;
* **Git** - a dozen commands read a repository that keeps changing.

What makes each part correct: one run at a time and a lock that is always
released; a cancellation that reaches the exact turn, once, and no other run;
an answer that is the request's own; a conversation that Aiflow itself opened and
a result that belongs to the exact turn; a browser that stays out once revoked;
a review that belongs to the last delivered envelope; two ends of the handoff
that never contradict each other; a "verified" that is proved by what was seen.

## 2. The plan

| # | Module | Role | State |
|---|---|---|---|
| 1 | `OfficialCodexWorker` | worker, service, IPC connection and owner process | done |
| 2 | `ExactRun` | abstract: what the worker promises; refined by 1 | done |
| 3 | `OfficialCodexWorkerProofs` | TLAPS: types, mutual exclusion; cancellation, clean-up and the refinement of 2 | done |
| 4 | `SessionRecords`, `ExactTurnWatcher` | the turn inspection as operators, the polling loop and Codex's writing | done |
| 5 | `BrowserBridge` | the WebSocket server with SecretStorage | done |
| 6 | `GitDelivery` | one Git run, one command per step | done |
| 7 | `ClientConnection`, `BridgeClient`, `ReviewHandoff` | the browser client: its connection, and what it does over it; client and bridge over FIFO channels | done |
| 7b | in these | `pair`, `disconnect`, `revoke`, `setPort`, explicit reconnection, each cut at its storage calls; pairing again and revocation in VS Code | done |
| 8 | `IpcFraming`, `IpcClient` | `FrameDecoder` byte by byte; `connect`, `request`, `dispose`, `RequestCorrelator` over several sockets | done |
| 9 | `BootstrapSession`, `CodexSession` | bootstrap discovery while Codex writes several session files; discovery followed by the watcher | done |
| 10 | `GitDeliveryProofs`, `CodexSessionProofs`, `BrowserBridgeProofs`, `IpcFramingProofs`, `IpcClientProofs`, `ReviewHandoffProofs`, with `RecursionLemmas` | TLAPS: the safety properties of 4 to 9 | done |
| 11 | `ReviewHandoff` | window reloads during a review; an abstract handoff that it refines | planned |

## 3. The modules and the code

**`OfficialCodexWorker`.** An action is the code between two awaits. A call of
`run()` is a member of `Runs`, its `pc` the await it is suspended at; a call of
`cancel()` is a member of `Cancels`. `activeRun[r]` is the `ActiveRun` object,
kept after the run so that late owner events still find it; its identifiers are
booleans ("is held"), since the code only tests them for null or passes them on.
`cancellation` stands for `cancellationPromise` and `cancellationConfirmed`
together. `RunFails` is the rejection of any await, followed by both `finally`
blocks (`FinishWith`) in the same step, because no await lies between them that
another caller could use. `RemovalFails` is the one failure that leaves
something: `fs.rm` itself rejects in the `finally` of
`withTemporaryBootstrapFile`, the run fails with its error ("unremoved") and the
file stays. The owner process (`start`, `turn`, `interrupt`)
answers at any time, also after the client gave up. The watcher appears as its
first and its later successful polls; module 4 has it in full. The worker can be
entered through the service, which refuses early, or directly.

**`ExactRun`** states the same promise with five variables: who holds the
worker, which turns were asked for, which runs a `cancel()` met, which got an
interrupt attempt, how each run settled. `ImplementsExactRun` is the refinement.

**`SessionRecords` / `ExactTurnWatcher`.** `Scan` applies
`ScanRecord` to the records after the boundary one by one, as the loop of
`inspectTurnRecords` does, in a recursive function so that it can be proved
about; the watcher polls while Codex (external) appends records of the bootstrap turn,
of the turn Aiflow asked for and of two turns of the user, one with the same
prompt. Texts are the name of the turn that wrote them, so that a mix-up shows.
`InspectionMatchesReference` compares the scan with an independent definition
by positions in the file. `ReadingFails` is a poll whose `readSession` rejects or
whose file names another conversation; what such a file holds is not modelled,
since nothing of it is inspected.

**`BootstrapSession` / `CodexSession`.** A session file is what
`inspectBootstrapRecords` counts in it: occurrences of the nonce, `session_meta`,
contexts and terminal events of the marker's turn, exact completions. Codex and
the user (external) create, extend and move files; at most `MaxOdd` of them are
irregular. `listSessionFiles` awaits at every entry, so a file that moved since
the walk began (`Astray`) may be missed, listed under either path, or end the
walk with an error. `stage` is where `waitForBootstrapSession` is suspended: the
candidates are read one by one, and the match is read again and judged then.
`CodexSession` runs discovery first and hands over to `ExactTurnWatcher`, as
`execute()` does. Each half keeps its own view of the file.

**`IpcFraming` / `IpcClient`.** `NextFrame` is the loop body of
`FrameDecoder.push` and `Drain` the loop: a length in any base, then the text;
once the loop breaks or throws, going round it again changes nothing. `IpcClient` is one client and the sockets
it opens one after the other; a socket, the identity the router grants on it and
the identifier of its `initialize` request share a number. The router (external)
answers anything it has heard on this socket, in any order, several times, with
success, error or an unusable response, or sends bytes that are no frame; its
bytes arrive in chunks of any size. A frame whose text is `null` is proper JSON,
but `isIpcResponse` throws on it, out of the loop of `handleData`: `Reached` are
the messages of a chunk before it. A promise settled in a handler resumes its
caller before the next event, so what `connect()` does when `initialize` settles
belongs to the handler (`HandlerEnds`). `granted`, `unseen`, `inOrder` and `late`
are history variables. The worker's model has the client only as its caller
meets it.

**`BrowserBridge`.** Variables are the fields of the class, the state of each
socket, and `calls`, the SecretStorage calls under way in FIFO order; serving
the head resumes its handler. `revoke()` issues two deletes and
`handleAuthenticate` two reads without an await between them, so each pair is
one call. Any token may be presented, also one that is nobody's: it waits for
the reads like the right one, and `AuthenticateRejected` is the refusal after
them as well as reads that fail. A code and the token made from it share a number. `readyState` keeps
"closing" (closed here, the peer still speaks) apart from "ended". Deliveries
carry the state of their promise, so that a forgotten one is visible.

**`ClientConnection` / `BridgeClient` / `ReviewHandoff`.** The first two are the
class of `client.mjs`: the life of its connection, and what it does over it.
Storage calls are served in order and only the client makes them, so a read or
write takes effect where it is issued and the method goes on in a later step.
For the methods that open and close connections `suspended` is the queue of
these calls, each entry with what the method read and will go on with: three
entries for `connect(true)` (`Connect`, `ConnectExplicitly`, `ConnectClears`,
`ConnectReadsAgain`, `ConnectGoesOn`), two for `pair` (`Pair`, `PairReads`,
`PairOpens`) and `revoke`, one for `disconnect`, `setPort`, `onClose`
(`OnClose`, `Closed`) and the answer of a pairing (`HandlePairSuccess`,
`PairedConnects`, which goes on as `connect`). `webSocket` is the readyState of
each socket; one that is `CLOSING` does not keep `open` from opening the next.
`operations` are the calls of the popup with
their promise and timer; `pending` the three acknowledgement slots; `storing`
the suspended `handleEnvelope`s: an operation passes its guard and reads
(`CreateReviewRequest`), and sends or fails to send later (`OperationSent`,
`OperationNotSent`), on whatever socket is current then. Operations and
envelopes await digests too, so they go on in any order. `this.sequence` is
dropped because it changes only together with `this.socket`. `ReviewHandoff`
takes the actions of `BrowserBridge` through `INSTANCE`, pairing and revocation
among them, and joins them to the client's over one FIFO channel per direction
and connection; the browser begins paired with code 1. `accepted` is a history
variable.

**`GitDelivery`.** `pc` is the next git command. `world` is the repository as
git would report it now; `WorldChanges` changes any of it at any moment. Each
command copies what it reads into `evidence` and either goes on or returns its
verdict; `InspectionFails` is a command that fails or too many commits.
Two commands of `preflight` whose output nothing later uses
(`requireRepositoryRoot` and `rev-parse --verify`, `gitInspection.ts:82`, `88`)
are there as ways to fail, in `PreflightFails`.
`Envelope` and `IsReviewable` are the review envelope of the result and the part
of its validation that depends on what the inspection saw.

## 4. The runs

| Run | Question | Bounds |
|---|---|---|
| `worker_safety` | lock, cancellation and clean-up in every interleaving | 2 runs, 2 cancels |
| `worker_promises` | do runs and cancels settle; is `ExactRun` implemented | 2 runs, 1 cancel |
| `worker_cancel_unavailable` | *violated*: see findings | 1 run, 1 cancel |
| `turn_watcher` | is the right conversation found, and is the reported turn the exact turn | discovery: 1 old and 2 new sessions, 3 records, 1 irregular session; watching: files of 6 records, 4 turns |
| `ipc_client` | framing, correlation and clean-up whatever the router and the network do | 2 sockets, 2 requests, 3 frames, texts of 2 bytes in base 4 |
| `bridge_pairing` | codes, tokens, revocation, replacement | 2 connections, 2 extensions, 2 codes, 3 calls under way |
| `bridge_review` | deliveries and reviews | 2 connections, 2 deliveries, 2 envelopes, 2 requests, 1 call under way |
| `bridge_revoke_race` | *violated*: see findings | 1 connection, 1 code, 2 calls |
| `review_handoff` | do the two ends of a review agree, in spite of lost messages | 2 connections, 2 deliveries, 2 envelopes, 3 operations, 2 codes, 2 methods started while others wait; an effort of 5 in all |
| `handoff_overtaken` | *violated*: see findings | 1 connection, 1 delivery, 2 operations |
| `git_delivery` | does the verdict follow the documented precedence and is it proved | 5 commits, 5 changes of the repository |
| `git_moving_head` | *violated*: see findings | 2 changes |

Why the bounds are enough: every mutual exclusion hazard needs one call that
holds and one that interferes; a leaked cancel needs one run that queues it and
one that would inherit it, and the second cancel gives repeated interrupts.
Six records hold a turn's beginning, its prompt, an answer and two terminal
events, or two turns one after the other across the boundary. Two connections
give replacement and stale messages, two codes give an old and a new pairing,
two deliveries a stale and a current acknowledgement; two extension identities
matter only for pairing, and two envelopes only for review. In `review_handoff`
the constraint `Explored` bounds the effort of a behaviour: each connection,
delivery, operation, second code and suspended method counts one, a connection
opened by `pair()`, a test prompt and a stored disconnect or removed token one
more, a revocation in VS Code three, and nothing is explored beyond five. Five are a
connection, a delivery and three operations (a request and two decisions), two
of each kind (a stale message on a new connection), or a stored disconnect with
two suspended methods around a connection, which is what a race over the flag
takes. Two sockets are
a lost connection and the next one; three frames are an `initialize` response
and a late and a current answer; two-byte texts in a base of four make every cut
inside a header and a text possible, and the shortest overlong, empty and
meaningless frames. One old and two new sessions are one that is resumed or
moved, the right one and a rival; the three records bring the rival's marker
together with incomplete evidence, or complete evidence of one. Five changes can
alter five of the seven things the inspection reads, and `MaxCommits = 1` stands
for the limit of one hundred so that exceeding it takes two commits.
`CHECK_DEADLOCK FALSE` is set where all calls may have been made (worker), the
watcher has ended, the Git run has settled, all connections of the handoff are
used up, or the IPC client is disposed or out of sockets.

Symmetry is used in the largest safety runs only (new sessions; connections and
envelopes of the handoff), never with liveness: `OneTurnAnnounced`, the one
temporal formula among them, is about single steps and does not tell the new
sessions apart.

**Assumptions about what is outside.** Node emits the `close` of a destroyed
socket before a socket that is being opened afterwards connects, and a destroyed
socket delivers no data; the callers of `CodexIpcClient` call `connect()` one at
a time (the worker does, once per run); `chrome.storage` serves calls in the
order they were made, and so does SecretStorage. The latter means that between
the reads of `handleAuthenticate` and what it does with them nothing else
resumes: a `revoke()` between the two is excluded by this assumption, one before
or after them is explored.

**Fairness.** Worker: every await that has a timer in the code eventually ends
(`DeadlinePasses` over `TimerPhases`; IPC requests and the connection 5 s,
bootstrap session 120 s, turn 3-240 min), the interrupt settles because its
request has the same timer, and continuations of settled promises run. Nothing
is assumed of the owner, the user, `invokeBootstrap`, the workspace check or
VS Code: `LockReleased` therefore starts after `invokeBootstrap`. Bridge:
SecretStorage answers, the two timers fire, and a socket that is closing closes
(`ws` has a close timer). Nothing is assumed of the browser. IPC client: the
connect timer and the timer of each request fire; nothing is assumed of the
router, the socket or the caller, and in particular not that a destroyed socket
reports its close. Handoff, for the
finding only: digests return and timers fire.

**Findings.** Three statements of the repository's README and one of its tests
do not hold:

* *Cancellation remains available while a long-running turn is active* - one
  failed interrupt is cached in `cancellationPromise` and later cancels send
  nothing (`worker_cancel_unavailable`).
* *Revoke Browser Pairing clears both Aiflow secrets* - not while
  `handlePairRequest` is between its two stores (`bridge_revoke_race`). The
  extension identity reappears; the token hash does not, so
  `RevokedBrowserStaysOut` still holds.
* *Verification requires at least one new commit and a remote branch SHA
  exactly equal to local HEAD* - HEAD is resolved by two commands, and a commit
  between them yields "verified" for the base commit (`git_moving_head`).
* *Missing test-prompt acknowledgements are rejected* (`client.test.mjs:24`) -
  two calls that pass the guard of `sendTestPrompt` before either has sent share
  one slot, and the first promise never settles (`handoff_overtaken`). The same
  holds for requests and decisions.

The models also show behaviours that no statement of the repository speaks
against:

* A client disposed while its socket is being opened goes on to open it, use it
  and keep it: `connect()` does not look at `disposed` again and a second
  `dispose()` returns early. `DisposedHoldsOnlyLate` says that nothing else
  survives.
* A new session that cannot be read, or any that moves while the directory is
  walked, ends the wait for the bootstrap session, although the message calls it
  correlated (`sessionStore.ts:528`, `547`). `NoFalseAlarm` says that nothing
  regular does. A session that was there before and was missed by the snapshot
  because it moved is a candidate; the fresh nonce keeps it out.
* Results with the statuses `codex_not_completed`, `git_inspection_failed`,
  `repository_mismatch` or `branch_changed` may lack a head or a branch; the
  envelope made of them is then refused by `validateImplementationReviewEnvelope`,
  although these statuses are in its list.

* A delivered run with more than one hundred commits is `git_inspection_failed`
  (`gitInspection.ts:235`), although README.md:139-141 keeps that status for a
  timeout, a malformed response or an unreadable repository.
  `FailureHidesNothing` takes the outcome as it is and says only that no verdict
  of higher precedence is behind it.
* A frame holding `null` makes the `data` handler of `ipcClient.ts` throw
  (line 219); the later messages of its chunk are lost, and their requests wait
  for their timers.
* `pair()` goes on after its awaits without looking at `manualDisconnected`, so
  it opens a connection although a `disconnect()` was called and has returned
  meanwhile (`client.mjs:38-46`); and `handlePairSuccess` may write the flag back
  to FALSE after a `disconnect()` wrote TRUE (`client.mjs:170`), after which its
  `connect()` connects. `DisconnectedStaysOff` says what is left: while the flag
  is stored and no `disconnect()` is suspended, the only connection there can be
  is one that `pair()` opened. In particular a `connect()` that read the flag
  before `disconnect()` wrote it may open a socket, but only one that
  `disconnect()` then closes.
* `onClose` sets the state after it has awaited the settings, also over the state
  of a connection that was opened meanwhile (`client.mjs:262-264`); that
  connection's answers are then unexpected, and end it.

In the handoff, an acknowledgement that meets another pending operation ends the
session although the bridge accepted the message, after which the browser knows
less than VS Code and its next request is refused; and a suspended
`handleEnvelope` that fails after `block()` sets the state back to
`disconnected`, so that the client reconnects. `disconnect()` leaves the calls of
the popup in their slots: they stay until their timers reject them.

## 5. The proofs

All theorems hold for every value of the constants that satisfies the named
assumptions, and TLC evaluates those assumptions in every run. For each state
machine one invariant is inductive and implies the properties; TLC checked each
of them on the instance of its run before it was proved.

**Worker** (`OfficialCodexWorkerProofs`), from
`NoRun \notin Runs` alone. `TypeCorrect` and `OneRunAtATime` go first: only
entering (`EnterWorker`, guarded by the lock), creating the `ActiveRun` and
leaving through `FinishWith` touch `ExclusiveRun`. `WorkerInvariant` adds what
each run holds at each of its awaits (temporary file, socket, turn identifiers,
timers), how `cancellation` stands to the number of interrupts sent and to the
owner's turn, and to which run a remembered cancel belongs. It is needed because
none of the cancellation properties is inductive alone: that a queued cancel
reaches the turn depends on `cancelRequestedBeforeActive` having been copied into
the `ActiveRun`, and that the copy is acted upon depends on the await the run is
suspended at. From it: `QueuedCancelNotLost`, `NoCancelLeaks`, `InterruptOnce`,
`RequestedIsTrue`, `CleanExit`.

`WorkerImplementsExactRun` is the refinement of `ExactRun` (safety: its
initial predicate and its steps). The abstract holder of the worker is the run
whose program counter is in the protected region; each concrete action maps to
one abstract action or to a stutter, with one lemma for each kind of step.

**Git** (`GitDeliveryProofs`): `GitInvariant` says, at each command, what the
evidence read so far is and which verdicts it has ruled out, and, while nobody
else has changed the repository since Codex returned, that it equals the world.
From it: `TypeCorrect`, `PipelineFollowsPrecedence`, `FailuresHideNothing`,
`VerifiedDeliveryIsProved`. `Ancestors` is defined as membership in every set of
commits that is closed under parents, so that no induction over the graph is
needed. Assumed: at least one upstream exists; base and branches are commits and
names.

**Session** (`CodexSessionProofs`, about `SessionSpec`). `DiscoveryInvariant`
says that the candidates of a poll are sessions that the snapshot does not know
and that the matches among them hold the nonce, although the walk, the readings
and the second reading of the match each see the sessions at another moment.
From it: `ConversationIsTheOneMade`, `FailsOnlyOverIrregular`.

The watcher's proof has three parts. `ScanFinds` is about the loop: `Found(s, p)`
says what the scan must hold when it has read up to position p (for each turn the
last terminal event, message and context up to p, the turns that were given the
prompt, the last record that opened a turn), it holds of `ScanStart` before the
first record, and `FoundGrows` carries it over one more; at the end of the file
it is the reference, so `InspectionAgrees`. `History` is about the file: Codex
writes one turn at a time, so what follows the opening of a turn is of that turn,
and the turn that the scan charges a record to wrote it (`ScopeWrote`): this is
why words and outcomes cannot come from another turn. `TruthGrows` is about time:
what a verdict says stays true of any longer file, so that it may be used after
the await of `onTurnId`, and a prompt turn stays one, so that no second turn is
ever announced. `WatcherInvariant` puts them together, and from it:
`InspectionIsRight`, `ExactTurnReported`, `OneTurnIsAnnounced`; with the types of
discovery, `SessionTypeCorrect`. The length of the file and the number of turns
are any. What the theorems take from the environment is how the model has Codex
write: a user's prompt or an agent's message carries the turn_id of its turn or
none, everything else carries it, and turns of one conversation do not overlap.
Assumed of the constants: old and new sessions are disjoint and finitely many; a
turn's own words are not the exact prompt; the file may hold a record.

**Bridge** (`BrowserBridgeProofs`): `PairingInvariant` says of each SecretStorage
call under way what it still relies on (the code it spends has no holder and is
not on offer, a hash to be stored is newer than the last revocation that
resolved), of every two calls what their order means (they spend different
codes, and what is stored after a deletion is newer than it), and of an
authenticated connection whose token it has. `RevokedStaysOut`, `OneBrowserAtATime` and `CodePairsOnce` follow.
`ReviewInvariant` does the same for deliveries and reviews; from it
`DeliveriesTracked`, `ReviewBelongs`, `TypeCorrect` and the action property
`DecisionStaysFinal`. Assumed: `None` is none of the connections, extensions,
codes and deliveries, and not 0.

**IPC** (`IpcFramingProofs`, `IpcClientProofs`). `FramesSurviveAnyCut` is about
the pure decoder: for any base above one, any header length and any limit that a
header can express, wherever a stream of proper frames is cut, `push` returns
the first messages in order and keeps exactly the frames of the others. It rests
on the arithmetic of the header (a number below `Base^HeaderLength` is read back
from its digits) and on `OnWire`, the loop's invariant: a sequence of bytes is
the frames of a sequence of messages, possibly followed by one of the bytes that
are no frame. `ConnectionHolds` is inductive without the wire: sockets are opened
in turn, the open one is the client's, `connect()` waits for the socket it opens
or for the only request that is pending, and the correlator holds who waits.
`NobodyStranded` and `DisposedKeepsLittle` follow. `ClientInvariant` adds the
wire (`Streams`: decoder and socket together are `OnWire` of what has not been
dispatched, and an open connection's decoder holds less than the largest frame)
and the router's answers (`Grants`: a success on its way was sent for the
request it names); with the two `FramesStayIntact`, `OnlyOwnAnswers` and
`TypeCorrect`. Assumed: the limit plus one fits a header (16 MiB and 2^32); texts
are distinct and not longer than the limit; some text of one or two bytes is not
JSON; a request that is not an `initialize` has no number, so that 0 is no
request.

**Handoff** (`ReviewHandoffProofs`). `EndsAgree` speaks of two stores that only
messages connect, and a connection can take any of them with it. So
`HandoffInvariant` says of every message under way what it still tells the truth
about when it arrives. `AcknowledgementHolds`: as long as the acknowledgement of
the pending delivery is on its way, or the handler that will send it suspended,
the browser stores that envelope and nothing else, and no older envelope or
answer can still reach it. `AcknowledgedHolds`: once the delivery is
acknowledged, the same of the review, including the answers under way.
`ChannelInOrder`: envelopes travel in order and no answer to a review follows
one, which is where the proof uses that the channels are FIFO. `AnswersBelong`:
the answer to a request or decision finds the envelope and the request it was
about. `SentOnce`, `OperationsSent` and `DeliveriesInTurn` say that nothing is
heard twice and that nothing is known of what was not sent. Most steps are
`Quiet`: they lose messages, end calls or close connections, and one lemma shows
that such a step disturbs nothing. The others (the calls of the popup, what the
client sends and takes, the envelope, its acknowledgement, and what the bridge
accepts) have a lemma each. From the invariant: `TypeCorrect`, `TwoEndsAgree`,
`StoredReviewIsOfEnvelope`, `ResolvedMeansAccepted`. `DisconnectedMeansOff` has an
invariant of its own about the queue of storage calls: an entry that will go on
to connect, made when the flag was FALSE, is followed by that of the
`disconnect()` that has set it since, so whatever it opens is closed again; and
this is where the proof uses that the storage is FIFO. Assumed: `None` is no
connection, envelope, extension, operation, delivery, kind, request or decision.

**Recursion** (`RecursionLemmas`). The library's induction theorems take an
operator as parameter, which the provers cannot instantiate. `Induction` is
stated over a set of naturals instead, and `RecursionUpTo` says that a function
given by a base and a step exists on an interval; what a loop of the code
computes (`ScanRecord` in `Scan`, `NextFrame` in `Drain`, `Header` and
`Declared`, the SecretStorage calls in `StoredAfter`) is therefore a recursive function and can be proved about.

**Only model-checked.** Liveness (`LockReleased`, `CancelAnswered`,
`EverythingSettles`, `DeliverySettles`, `UnauthenticatedEnds`): fairness and
ENABLED are outside the prover. Every safety and action property that a passing
run checks is the subject of a theorem. The properties of the runs that are
expected to fail are refuted by TLC.

## 6. Not modelled

* Message shapes, size limits, digests, paths and versions: pure validation; in
  the models the choice between an acceptable and a refused input.
* `ping`, which the bridge only answers, and `latestTestPrompt`, which only
  `status()` reads. The client's heartbeat appears as its timeout.
* Failing calls of `chrome.storage`, and with them `handleReconnectFailure`; the
  reads of `publish`, which change nothing. In the composition of client and
  bridge, the expiry of a code, failing deletes of `revoke()`, `status()`,
  `dispose()` and window reloads, which `BrowserBridge` has by itself.
* What a pairing code or a token looks like, and pairing an extension other than
  the one that is paired, in the composition.
* The diagnostics of a timeout in `waitForExactTurn` (`terminalEventTypesForTurn`,
  `hasOtherSameConversationCandidate`): they are reported and change nothing.
* The parameters and versions of IPC requests, and the contracts of runs and
  review handoffs: validation and canonical digests.
* Commands, output channels, popup and activation: user interface.
* The wall clock: timers fire at any moment after they are armed, which includes
  every order the real durations allow and more.
