---------------------------- MODULE ReviewHandoff ----------------------------
(***************************************************************************)
(* The review handoff between BrowserBridge in VS Code and the paired      *)
(* client in Chrome: an envelope is delivered, a review of it requested,   *)
(* a decision sent back.  The two run apart and talk over WebSockets, each *)
(* a pair of FIFO channels.                                                *)
(*                                                                         *)
(* The steps of the bridge are the actions of BrowserBridge, those of the  *)
(* client the actions of BridgeClient; an action here joins them to the    *)
(* channels.  The browser has been paired, with code 1, and may be revoked *)
(* and paired again.  VS Code is not disposed or reloaded.                 *)
(***************************************************************************)
EXTENDS BridgeClient

CONSTANT Extension   \* the paired Chrome extension

ASSUME HandoffAssumption ==
  /\ None \notin Conns \union Envelopes \union {Extension} \union Operations \union Deliveries
  /\ None \notin Kinds
  /\ None \notin Requests \union [request : Requests, verdict : Verdicts]
  /\ {MaxOperations, MaxDeliveries, MaxSuspended} \subseteq Nat /\ MaxCodes \in Nat \ {0}

VARIABLES
  \* of the bridge:
  pairing, pairedExtensionId, secrets, calls, codes, holder, revokedCodes,
  authenticated, readyState, origin, token, handshakeTimeout,
  pendingDelivery, latestAcknowledgedDelivery, latestReviewRequest, latestReviewDecision,
  delivery,
  accepted     \* history: operations whose message the bridge accepted

pairVars == <<pairing, pairedExtensionId, secrets, calls, codes, holder, revokedCodes>>
connVars == <<pairVars, authenticated, readyState, origin, token, handshakeTimeout>>
reviewVars == <<pendingDelivery, latestAcknowledgedDelivery, latestReviewRequest,
                latestReviewDecision, delivery>>
bridgeVars == <<connVars, reviewVars, accepted>>
vars == <<clientVars, bridgeVars>>

Bridge == INSTANCE BrowserBridge WITH
  Extensions <- {Extension}, MaxRequests <- MaxOperations, MaxCalls <- Cardinality(Conns),
  server <- "listening"

Codes == 1..MaxCodes

Init ==
  /\ ClientInit
  /\ pairing = None /\ pairedExtensionId = Extension
  /\ secrets = [hash |-> 1, extensionId |-> Extension]
  /\ codes = 1 /\ holder = [n \in Codes |-> IF n = 1 THEN Extension ELSE None]
  /\ revokedCodes = 0
  /\ authenticated = None
  /\ readyState = [c \in Conns |-> "none"]
  /\ origin = [c \in Conns |-> None]
  /\ token = [c \in Conns |-> 0]
  /\ handshakeTimeout = [c \in Conns |-> FALSE]
  /\ calls = <<>>
  /\ pendingDelivery = None /\ latestAcknowledgedDelivery = None
  /\ latestReviewRequest = None /\ latestReviewDecision = None
  /\ delivery = [d \in Deliveries |-> [envelope |-> None, promise |-> "none"]]
  /\ accepted = {}

----------------------------------------------------------------------------
(* Channels                                                                *)

\* The bridge sends a message to c if its side is open.  It arrives if the
\* client's side still is.
Reply(c, message) ==
  toClient' = IF readyState[c] = "open" /\ webSocket[c] = "open"
              THEN [toClient EXCEPT ![c] = Append(@, message)] ELSE toClient

ReplyAck(c, i) == Reply(c, Message("ack", i))

ReplyError(c) == Reply(c, Message("error", 0))

\* The bridge hears the next message of c, while the client stands still.
Hears(c, message) ==
  /\ toBridge[c] # <<>> /\ Head(toBridge[c]) = message
  /\ toBridge' = [toBridge EXCEPT ![c] = Tail(@)]
  /\ UNCHANGED <<sessionVars, storage, pending, operations, storing>>

\* The client has no part in the step, except for what it is sent.
ClientWaits == UNCHANGED <<sessionVars, storage, pending, operations, storing, toBridge>>

----------------------------------------------------------------------------
(* Both ends of a connection                                               *)

ClientConnects(c) ==
  /\ OnOpen(c)
  /\ Bridge!Connect(c, Extension)
  /\ UNCHANGED accepted

BridgeHearsToken(c, n) ==
  /\ Hears(c, Message("authenticate", n))
  /\ Bridge!Authenticate(c, n)
  /\ UNCHANGED <<toClient, accepted>>

AuthenticationAccepted ==
  /\ Bridge!AuthenticateAccepted
  /\ Reply(Head(calls).by, Message("authenticated", 0))
  /\ ClientWaits /\ UNCHANGED accepted

AuthenticationRejected ==
  /\ Bridge!AuthenticateRejected
  /\ ReplyError(Head(calls).by)
  /\ ClientWaits /\ UNCHANGED accepted

\* A pairing code is shown in VS Code, and the user may type it.
CodeShown ==
  /\ Bridge!BeginPairing
  /\ UNCHANGED <<clientVars, accepted>>

PairingRevoked ==
  /\ Bridge!Revoke \/ Bridge!RevokeResumes
  /\ UNCHANGED <<clientVars, accepted>>

CodeValid(n) == pairing # None /\ pairing.code = n

BridgeHearsCode(c, n) ==
  /\ Hears(c, Message("pair_request", n))
  /\ \/ CodeValid(n) /\ Bridge!PairRequest(c) /\ UNCHANGED toClient
     \/ ~CodeValid(n) /\ Bridge!UnacceptableMessage(c) /\ ReplyError(c)
  /\ UNCHANGED accepted

TokenStored ==
  /\ Bridge!HashStored
  /\ ClientWaits /\ UNCHANGED <<toClient, accepted>>

PairingSucceeds(n) ==
  /\ Bridge!ExtensionStored
  /\ Head(calls).code = n
  /\ Reply(Head(calls).by, Message("pair_success", n))
  /\ ClientWaits /\ UNCHANGED accepted

PairingFails ==
  /\ Bridge!StoreFails
  /\ ReplyError(Head(calls).by)
  /\ ClientWaits /\ UNCHANGED accepted

\* A message that comes before authentication: an error, and the end.
HeardTooEarly(c) ==
  /\ \E i \in Operations : Hears(c, Message(operations[i].kind, i))
  /\ Bridge!UnacceptableMessage(c)
  /\ ReplyError(c)
  /\ UNCHANGED accepted

HandshakeEnds(c) ==
  /\ Bridge!HandshakeTimesOut(c)
  /\ ReplyError(c)
  /\ ClientWaits /\ UNCHANGED accepted

\* The end that the client began, once the bridge has heard all it sent.
BridgeSeesClose(c) ==
  /\ webSocket[c] = "closed" /\ toBridge[c] = <<>>
  /\ Bridge!PeerCloses(c)
  /\ UNCHANGED <<clientVars, accepted>>

BridgeCloseEvent(c) ==
  /\ webSocket[c] \in {"closing", "closed"} /\ toBridge[c] = <<>>
  /\ Bridge!CloseEvent(c)
  /\ UNCHANGED <<clientVars, accepted>>

\* The end that the bridge began.
ClientSeesClose(c) ==
  /\ readyState[c] = "closing"
  /\ ClosingBegins(c)
  /\ UNCHANGED bridgeVars

----------------------------------------------------------------------------
(* Deliveries                                                              *)

BridgeSendsEnvelope(d, e) ==
  /\ Bridge!SendEnvelope(d, e)
  /\ Reply(authenticated, Message("implementation_review_envelope", d))
  /\ ClientWaits /\ UNCHANGED accepted

BridgeTimesOut ==
  /\ Bridge!AcknowledgementTimesOut
  /\ UNCHANGED <<clientVars, accepted>>

BridgeHearsAck(c, d) ==
  /\ Hears(c, Message("ack", d))
  /\ IF ~Bridge!IsAuthenticated(c)
     THEN Bridge!UnacceptableMessage(c) /\ ReplyError(c)
     ELSE /\ UNCHANGED toClient
          /\ \/ Bridge!Acknowledge(c, d) \/ Bridge!AcknowledgeOther(c, d)
             \/ pendingDelivery = None /\ UNCHANGED <<connVars, reviewVars>>
  /\ UNCHANGED accepted

----------------------------------------------------------------------------
(* Requests, decisions and prompts on an authenticated connection          *)

Accepts(c, i) ==
  /\ accepted' = accepted \union {i}
  /\ ReplyAck(c, i)

Refuses(c) ==
  /\ ReplyError(c)
  /\ UNCHANGED <<connVars, reviewVars, accepted>>

BridgeHearsPrompt(c, i) ==
  /\ Hears(c, Message("browser_test_prompt", i))
  /\ Bridge!IsAuthenticated(c)
  /\ Accepts(c, i)
  /\ UNCHANGED <<connVars, reviewVars>>

RequestAcceptable(request) ==
  /\ latestAcknowledgedDelivery # None
  /\ delivery[latestAcknowledgedDelivery].envelope = request.envelope
  /\ latestReviewRequest = None /\ latestReviewDecision = None

BridgeHearsRequest(c, i) ==
  LET request == operations[i].request IN
  /\ Hears(c, Message("review_request", i))
  /\ Bridge!IsAuthenticated(c)
  /\ \/ Bridge!ReviewRequest(c, request) /\ Accepts(c, i)
     \/ ~RequestAcceptable(request) /\ Refuses(c)

BridgeHearsDecision(c, i) ==
  LET request == operations[i].request IN
  /\ Hears(c, Message("review_decision", i))
  /\ Bridge!IsAuthenticated(c)
  /\ \/ /\ Bridge!ReviewDecision(c, request, operations[i].verdict)
        /\ Accepts(c, i)
     \/ ~Bridge!DecisionAccepted(request) /\ Refuses(c)

----------------------------------------------------------------------------

ClientActs ==
  \/ Connect \/ ConnectClears \/ ConnectReadsAgain \/ PairReads \/ PairedConnects
  \/ Closed \/ Disconnected \/ RevokeDisconnects \/ HeartbeatTimesOut \/ BrowserRestarts
  \/ \E c \in Conns :
       \/ ConnectGoesOn(c) \/ PairOpens(c) \/ OnClose(c) \/ OldSocketCloses(c)
       \/ HandleAuthenticated(c) \/ HandleError(c) \/ Unexpected(c)
       \/ \E n \in Codes : HandlePairSuccess(c, n)
       \/ \E d \in Deliveries : HandleEnvelope(c, d, delivery[d].envelope)
       \/ \E i \in Operations : HandleAcknowledgement(c, i) \/ AcknowledgementMismatched(c, i)
  \/ \E d \in Deliveries : EnvelopeStored(d) \/ EnvelopeNotAcknowledged(d)
  \/ \E i \in Operations :
       \/ RequestRepeated(i) \/ OperationSent(i) \/ OperationNotSent(i) \/ AcknowledgementMissing(i)

UserActs ==
  \/ Disconnect \/ Revoke \/ ConnectExplicitly
  \/ \E n \in Codes : n <= codes /\ Pair(n)
  \/ \E i \in Operations :
       \/ SendTestPrompt(i) \/ CreateReviewRequest(i)
       \/ \E verdict \in Verdicts : SendReviewDecision(i, verdict)

BridgeActs ==
  \/ CodeShown \/ PairingRevoked \/ TokenStored \/ PairingFails
  \/ \E n \in Codes : PairingSucceeds(n)
  \/ AuthenticationAccepted \/ AuthenticationRejected \/ BridgeTimesOut
  \/ \E d \in Deliveries, e \in Envelopes : BridgeSendsEnvelope(d, e)

ConnectionActs(c) ==
  \/ ClientConnects(c) \/ HeardTooEarly(c) \/ HandshakeEnds(c)
  \/ \E n \in Codes : BridgeHearsToken(c, n) \/ BridgeHearsCode(c, n)
  \/ BridgeSeesClose(c) \/ BridgeCloseEvent(c) \/ ClientSeesClose(c)
  \/ \E d \in Deliveries : BridgeHearsAck(c, d)
  \/ \E i \in Operations :
       BridgeHearsPrompt(c, i) \/ BridgeHearsRequest(c, i) \/ BridgeHearsDecision(c, i)

Next ==
  \/ (ClientActs \/ UserActs) /\ UNCHANGED bridgeVars
  \/ BridgeActs
  \/ \E c \in Conns : ConnectionActs(c)

Spec == Init /\ [][Next]_vars

\* Digests and storage calls return, timers fire.
Fairness ==
  \A i \in Operations :
    WF_vars(/\ \/ RequestRepeated(i) \/ OperationSent(i) \/ OperationNotSent(i)
               \/ AcknowledgementMissing(i)
            /\ UNCHANGED bridgeVars)

FairSpec == Spec /\ Fairness

----------------------------------------------------------------------------
(* Properties                                                              *)

Maybe(S) == S \union {None}

Greetings == [type : {"authenticate", "pair_request"}, id : 0..MaxCodes]

Methods ==
  {"connect", "connect(true)", "cleared", "pair", "pair opens", "paired", "onClose",
   "disconnect", "revoke"}

Suspensions == [by : Methods, manual : BOOLEAN, number : 0..MaxCodes]

TypeOK ==
  /\ state \in {"disconnected", "connecting", "pairing", "authenticating", "authenticated", "blocked",
               "manually_disconnected"}
  /\ socket \in Maybe(Conns)
  /\ webSocket \in [Conns -> {"none", "connecting", "open", "closing", "closed"}]
  /\ greeting \in [Conns -> Greetings]
  /\ suspended \in Seq(Suspensions)
  /\ storage \in [manual : BOOLEAN, token : 0..MaxCodes, envelope : Maybe(Envelopes), request : Maybe(Requests),
                  decision : Maybe([request : Requests, verdict : Verdicts])]
  /\ pending \in [Kinds -> Maybe(Operations)]
  /\ operations \in [Operations ->
       [kind : Maybe(Kinds), request : Maybe(Requests), verdict : Maybe(Verdicts),
        promise : {"none", "preparing", "waiting", "resolved", "rejected", "lost"},
        timer : BOOLEAN]]
  /\ storing \subseteq Deliveries
  /\ accepted \subseteq Operations

\* What the popup shows and what VS Code shows never contradict each other,
\* however often the connection broke and whichever handlers were suspended:
\* a delivery that the bridge counts as acknowledged is in the storage of the
\* browser, and the request and the decision stored there are those of the
\* bridge.  The browser may have missed an acknowledgement and know less.
EndsAgree ==
  latestAcknowledgedDelivery # None =>
    /\ storage.envelope = delivery[latestAcknowledgedDelivery].envelope
    /\ storage.request \in {None, latestReviewRequest}
    /\ storage.decision \in {None, latestReviewDecision}

\* While manualDisconnected is stored and no disconnect() is under way, the only
\* connection there can be is one that pair() has opened, which does not look:
\* a connect() that read the settings before, or by a user who changed his mind,
\* opens none that stays, nor does a pairing that succeeded meanwhile.
DisconnectedStaysOff ==
  storage.manual /\ (\A p \in DOMAIN suspended : suspended[p].by # "disconnect") /\ socket # None
    => greeting[socket].type = "pair_request"

\* The review in the storage is of the envelope in the storage: an
\* acknowledgement that comes with a new envelope under way does not attach the
\* old request to it.
StoredReviewBelongs ==
  /\ storage.request # None => storage.request.envelope = storage.envelope
  /\ storage.decision # None => storage.decision.request = storage.request

\* A call of the popup resolves only if the bridge accepted its message, or, for
\* a review request that is repeated, the message that first carried it.
ResolvedWasAccepted ==
  \A i \in Operations : operations[i].promise = "resolved" =>
    IF operations[i].kind = "review_request" THEN operations[i].request.number \in accepted
    ELSE i \in accepted

\* client.test.mjs: a missing acknowledgement rejects the call.  So every call
\* ends.  Of two calls that pass the guard together the first never does: its
\* slot is taken by the second, and its timer finds the second there or nobody.
OperationSettles ==
  \A i \in Operations :
    operations[i].promise \in {"preparing", "waiting"}
      ~> operations[i].promise \in {"resolved", "rejected", "lost"}
=============================================================================
