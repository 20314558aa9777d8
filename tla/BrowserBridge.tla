---------------------------- MODULE BrowserBridge ----------------------------
(***************************************************************************)
(* BrowserBridge of src/browserBridge.ts: the loopback WebSocket server    *)
(* that one Chrome extension pairs with, authenticates to, and exchanges   *)
(* implementation reviews with.                                            *)
(*                                                                         *)
(* Message handlers are asynchronous and not serialised: each call of      *)
(* VS Code's SecretStorage suspends the handler that makes it.  The calls  *)
(* are served in the order they were made ("calls"); serving the head and  *)
(* resuming its handler is one step.  The two reads of handleAuthenticate  *)
(* and the two deletes of revoke are issued together, so nothing can come  *)
(* between them, and each pair is one call.                                *)
(*                                                                         *)
(* A pairing code and the browser token it yields carry the same number:   *)
(* the n-th call of beginPairing makes code n.                             *)
(***************************************************************************)
EXTENDS Integers, Sequences, FiniteSets, SequencesExt

CONSTANTS Conns,          \* WebSocket connections
          Extensions,     \* Chrome extension identities
          None,           \* null
          Envelopes,      \* review envelopes (run identifier and digest)
          MaxCodes,       \* bound on beginPairing
          MaxDeliveries,  \* bound on sendImplementationReviewEnvelope
          MaxRequests,    \* bound on the review requests a browser makes
          MaxCalls        \* bound on SecretStorage calls under way

Codes == 1..MaxCodes
Deliveries == 1..MaxDeliveries

ASSUME BridgeAssumption ==
  /\ {MaxCodes, MaxDeliveries, MaxRequests, MaxCalls} \subseteq Nat
  /\ None \notin Conns \union Extensions \union (0..MaxCodes) \union Deliveries

VARIABLES
  server,                    \* "stopped", "binding" or "listening"
  pairing,                   \* PairingState, or None
  authenticated,             \* connection, or None
  pairedExtensionId,
  secrets,                   \* SecretStorage: token hash and extension identity
  calls,                     \* SecretStorage calls under way, in order
  readyState, origin,        \* of each connection
  token,                     \* of each connection: the token it authenticated with, or 0
  handshakeTimeout,          \* of each connection: timer armed
  pendingDelivery, latestAcknowledgedDelivery,  \* deliveries, or None
  latestReviewRequest, latestReviewDecision,    \* or None
  delivery,                  \* of each delivery: envelope, state of its promise
  codes,                     \* codes made so far
  holder,                    \* of each token: the extension it was sent to, or None
  revokedCodes               \* codes made before a revoke() that has resolved

pairVars == <<pairing, pairedExtensionId, secrets, calls, codes, holder, revokedCodes>>
connVars == <<authenticated, readyState, origin, token, handshakeTimeout>>
reviewVars == <<pendingDelivery, latestAcknowledgedDelivery, latestReviewRequest,
                latestReviewDecision, delivery>>
vars == <<server, pairVars, connVars, reviewVars>>

Requests == [number : 1..MaxRequests, envelope : Envelopes]
Verdicts == {"SHIP", "CHANGES_REQUESTED"}

NoSecrets == [hash |-> None, extensionId |-> None]

Init ==
  /\ server = "stopped"
  /\ pairing = None /\ authenticated = None /\ pairedExtensionId = None
  /\ secrets = NoSecrets
  /\ calls = <<>>
  /\ readyState = [c \in Conns |-> "none"]
  /\ origin = [c \in Conns |-> None]
  /\ token = [c \in Conns |-> 0]
  /\ handshakeTimeout = [c \in Conns |-> FALSE]
  /\ pendingDelivery = None /\ latestAcknowledgedDelivery = None
  /\ latestReviewRequest = None /\ latestReviewDecision = None
  /\ delivery = [d \in Deliveries |-> [envelope |-> None, promise |-> "none"]]
  /\ codes = 0
  /\ holder = [n \in Codes |-> None]
  /\ revokedCodes = 0

----------------------------------------------------------------------------
(* Sockets.  "closing": close() was called here, what the peer sent before *)
(* its own close frame still arrives.  "ended": the peer closed, or the    *)
(* socket was terminated; only the close event is to come.                 *)

IsOpen(c) == readyState[c] = "open"
Speaks(c) == readyState[c] \in {"open", "closing"}
IsAuthenticated(c) == token[c] # 0

\* socket.close() on every connection of cs.
Closing(cs) ==
  readyState' = [c \in Conns |-> IF c \in cs /\ IsOpen(c) THEN "closing" ELSE readyState[c]]

Disarm(cs) == handshakeTimeout' = [c \in Conns |-> handshakeTimeout[c] /\ c \notin cs]

\* The connection is forgotten and not closed.
CloseAuthenticatedBug == {}

\* closeAuthenticated, as the set of connections it closes.
CloseAuthenticated == {authenticated} \ {None}

\* The promise is left pending.
RejectPendingBug ==
  /\ pendingDelivery' = None
  /\ UNCHANGED <<delivery, latestAcknowledgedDelivery, latestReviewRequest, latestReviewDecision>>

RejectPending ==
  /\ pendingDelivery' = None
  /\ delivery' = IF pendingDelivery = None THEN delivery
                 ELSE [delivery EXCEPT ![pendingDelivery].promise = "rejected"]
  /\ UNCHANGED <<latestAcknowledgedDelivery, latestReviewRequest, latestReviewDecision>>

\* The request and the decision of the last review stay.
ForgetReviewBug ==
  /\ latestAcknowledgedDelivery' = None
  /\ UNCHANGED <<latestReviewRequest, latestReviewDecision>>

\* The reset of latestAcknowledgedDelivery, latestReviewRequest and
\* latestReviewDecision.
ForgetReview ==
  /\ latestAcknowledgedDelivery' = None
  /\ latestReviewRequest' = None
  /\ latestReviewDecision' = None

\* The catch of onMessage: an error frame, and the end of a connection that is
\* not authenticated.  Its handshake timer stays armed.
HandlerFails(c) ==
  /\ Closing(IF IsAuthenticated(c) THEN {} ELSE {c})
  /\ UNCHANGED <<authenticated, origin, token, handshakeTimeout>>

\* The timer is cleared and the socket stays open.
RejectConnectionBug(c) ==
  /\ Disarm({c})
  /\ UNCHANGED <<readyState, authenticated, origin, token>>

\* rejectConnection
RejectConnection(c) ==
  /\ Closing({c})
  /\ Disarm({c})
  /\ UNCHANGED <<authenticated, origin, token>>

Connect(c, ext) ==
  /\ server = "listening"
  /\ readyState[c] = "none"
  /\ readyState' = [readyState EXCEPT ![c] = "open"]
  /\ origin' = [origin EXCEPT ![c] = ext]
  /\ handshakeTimeout' = [handshakeTimeout EXCEPT ![c] = TRUE]
  /\ UNCHANGED <<server, pairVars, authenticated, token, reviewVars>>

HandshakeTimesOut(c) ==
  /\ handshakeTimeout[c] /\ ~IsAuthenticated(c)
  /\ RejectConnection(c)
  /\ UNCHANGED <<server, pairVars, reviewVars>>

PeerCloses(c) ==
  /\ Speaks(c)
  /\ readyState' = [readyState EXCEPT ![c] = "ended"]
  /\ UNCHANGED <<server, pairVars, authenticated, origin, token, handshakeTimeout, reviewVars>>

\* The close event of the socket.
CloseEvent(c) ==
  /\ readyState[c] \in {"closing", "ended"}
  /\ readyState' = [readyState EXCEPT ![c] = "closed"]
  /\ Disarm({c})
  /\ IF authenticated = c
     THEN authenticated' = None /\ RejectPending
     ELSE UNCHANGED <<authenticated, reviewVars>>
  /\ UNCHANGED <<server, pairVars, origin, token>>

\* A binary or malformed frame, on any connection.
MalformedFrame(c) ==
  /\ Speaks(c)
  /\ RejectConnection(c)
  /\ UNCHANGED <<server, pairVars, reviewVars>>

\* Any other message before authentication, a wrong code or origin included.
UnacceptableMessage(c) ==
  /\ Speaks(c) /\ ~IsAuthenticated(c)
  /\ HandlerFails(c)
  /\ UNCHANGED <<server, pairVars, reviewVars>>

----------------------------------------------------------------------------
(* The SecretStorage queue                                                 *)

Issue(call) ==
  /\ Len(calls) < MaxCalls
  /\ calls' = Append(calls, call)

\* Head(calls) is served and its handler issues the calls in more.
Served(op, more) ==
  /\ calls # <<>> /\ Head(calls).op = op
  /\ calls' = Tail(calls) \o more

\* The two keys are mixed up.
AppliedBug(s, call) ==
  CASE call.op = "storeHash"      -> [s EXCEPT !.extensionId = call.code]
    [] call.op = "storeExtension" -> [s EXCEPT !.hash = origin[call.by]]
    [] call.op = "delete"         -> NoSecrets
    [] OTHER                      -> s

\* What a call does to the secrets.
Applied(s, call) ==
  CASE call.op = "storeHash"      -> [s EXCEPT !.hash = call.code]
    [] call.op = "storeExtension" -> [s EXCEPT !.extensionId = origin[call.by]]
    [] call.op = "delete"         -> NoSecrets
    [] OTHER                      -> s

\* The secrets after the first n calls under way.
StoredAfter[n \in 0..Len(calls)] ==
  IF n = 0 THEN secrets ELSE Applied(StoredAfter[n - 1], calls[n])

Call(op, by, code) == [op |-> op, by |-> by, code |-> code]

----------------------------------------------------------------------------
(* Commands of the user                                                    *)

NewPairing ==
  /\ codes < MaxCodes
  /\ codes' = codes + 1
  /\ pairing' = [code |-> codes + 1, expired |-> FALSE]

BeginPairing ==
  /\ \/ server = "listening" /\ NewPairing /\ UNCHANGED server
     \/ server = "stopped" /\ server' = "binding" /\ UNCHANGED <<pairing, codes>>
  /\ UNCHANGED <<pairedExtensionId, secrets, calls, holder, revokedCodes, connVars, reviewVars>>

\* ensureListening resolves and beginPairing goes on.
Listening ==
  /\ server = "binding"
  /\ server' = "listening"
  /\ NewPairing
  /\ UNCHANGED <<pairedExtensionId, secrets, calls, holder, revokedCodes, connVars, reviewVars>>

\* The port is taken.
BindFails ==
  /\ server = "binding"
  /\ server' = "stopped"
  /\ UNCHANGED <<pairVars, connVars, reviewVars>>

PairingExpires ==
  /\ pairing # None /\ ~pairing.expired
  /\ pairing' = [pairing EXCEPT !.expired = TRUE]
  /\ UNCHANGED <<server, pairedExtensionId, secrets, calls, codes, holder, revokedCodes,
                 connVars, reviewVars>>

Revoke ==
  /\ pairing' = None
  /\ Issue(Call("delete", None, codes))
  /\ UNCHANGED <<server, pairedExtensionId, secrets, codes, holder, revokedCodes,
                 connVars, reviewVars>>

RevokeResumes ==
  LET closed == CloseAuthenticated \union {c \in Conns : ~IsAuthenticated(c) /\ IsOpen(c)} IN
  /\ Served("delete", <<>>)
  /\ secrets' = Applied(secrets, Head(calls))
  /\ revokedCodes' = Head(calls).code
  /\ pairedExtensionId' = None
  /\ authenticated' = None
  /\ Closing(closed)
  /\ Disarm({c \in closed : ~IsAuthenticated(c)})
  /\ UNCHANGED <<server, pairing, codes, holder, origin, token, reviewVars>>

\* One of the two deletes fails, or both: revoke() rejects and does no more.
RevokeFails ==
  /\ Served("delete", <<>>)
  /\ secrets' \in {secrets, [secrets EXCEPT !.hash = None], [secrets EXCEPT !.extensionId = None]}
  /\ UNCHANGED <<server, pairing, pairedExtensionId, codes, holder, revokedCodes,
                 connVars, reviewVars>>

Status ==
  /\ pairedExtensionId = None
  /\ Issue(Call("status", None, 0))
  /\ UNCHANGED <<server, pairing, pairedExtensionId, secrets, codes, holder, revokedCodes,
                 connVars, reviewVars>>

StatusResumes ==
  /\ Served("status", <<>>)
  /\ pairedExtensionId' = secrets.extensionId
  /\ UNCHANGED <<server, pairing, secrets, codes, holder, revokedCodes, connVars, reviewVars>>

Dispose ==
  /\ server' = IF server = "listening" THEN "stopped" ELSE server
  /\ pairing' = None
  /\ authenticated' = None
  /\ readyState' = [c \in Conns |-> IF Speaks(c) THEN "ended" ELSE readyState[c]]
  /\ Disarm(Conns)
  /\ RejectPending
  /\ UNCHANGED <<pairedExtensionId, secrets, calls, codes, holder, revokedCodes, origin, token>>

\* The window closes and another starts: the secrets stay, with the effect of
\* the first n calls under way.  A pending delivery is gone with the process,
\* which counts as rejected.
WindowReloads ==
  /\ server' = "stopped"
  /\ pairing' = None /\ authenticated' = None /\ pairedExtensionId' = None
  /\ \E n \in 0..Len(calls) : secrets' = StoredAfter[n]
  /\ calls' = <<>>
  /\ readyState' = [c \in Conns |-> IF readyState[c] = "none" THEN "none" ELSE "closed"]
  /\ Disarm(Conns)
  /\ pendingDelivery' = None /\ ForgetReview
  /\ delivery' = [d \in Deliveries |->
                   IF d = pendingDelivery THEN [delivery[d] EXCEPT !.promise = "rejected"]
                   ELSE delivery[d]]
  /\ UNCHANGED <<codes, holder, revokedCodes, origin, token>>

----------------------------------------------------------------------------
(* Pairing and authentication                                              *)

\* The code stays valid.
SpendCodeBug == UNCHANGED pairing

\* The code is spent before the first call.
SpendCode == pairing' = None

PairRequest(c) ==
  /\ Speaks(c) /\ ~IsAuthenticated(c)
  /\ pairing # None /\ ~pairing.expired
  /\ SpendCode
  /\ Issue(Call("storeHash", c, pairing.code))
  /\ UNCHANGED <<server, pairedExtensionId, secrets, codes, holder, revokedCodes,
                 connVars, reviewVars>>

HashStored ==
  /\ Served("storeHash", <<Call("storeExtension", Head(calls).by, Head(calls).code)>>)
  /\ secrets' = Applied(secrets, Head(calls))
  /\ UNCHANGED <<server, pairing, pairedExtensionId, codes, holder, revokedCodes,
                 connVars, reviewVars>>

\* pair_success is sent; on a connection that is closing the handler fails.
ExtensionStored ==
  LET c == Head(calls).by IN
  /\ Served("storeExtension", <<>>)
  /\ secrets' = Applied(secrets, Head(calls))
  /\ pairedExtensionId' = origin[c]
  /\ holder' = IF IsOpen(c) THEN [holder EXCEPT ![Head(calls).code] = origin[c]] ELSE holder
  /\ UNCHANGED <<server, pairing, codes, revokedCodes, connVars, reviewVars>>

StoreFails ==
  /\ Served("storeHash", <<>>) \/ Served("storeExtension", <<>>)
  /\ HandlerFails(Head(calls).by)
  /\ UNCHANGED <<server, pairing, pairedExtensionId, secrets, codes, holder, revokedCodes,
                 reviewVars>>

\* The extension presents a token it was sent, or one that is nobody's (0).
Authenticate(c, n) ==
  /\ Speaks(c) /\ ~IsAuthenticated(c)
  /\ n # 0 => holder[n] = origin[c]
  /\ Issue(Call("read", c, n))
  /\ UNCHANGED <<server, pairing, pairedExtensionId, secrets, codes, holder, revokedCodes,
                 connVars, reviewVars>>

\* The token is not compared.
TokenAcceptedBug(c, n) == secrets.extensionId = origin[c] /\ secrets.hash # None

TokenAccepted(c, n) == secrets.extensionId = origin[c] /\ secrets.hash = n

\* The other authenticated connection is replaced.  On a connection that has
\* closed meanwhile the answer cannot be sent, and all else is done.
AuthenticateAccepted ==
  LET c == Head(calls).by IN
  /\ Served("read", <<>>)
  /\ TokenAccepted(c, Head(calls).code)
  /\ Closing(CloseAuthenticated \ {c})
  /\ authenticated' = c
  /\ token' = [token EXCEPT ![c] = Head(calls).code]
  /\ Disarm({c})
  /\ UNCHANGED <<server, pairing, pairedExtensionId, secrets, codes, holder, revokedCodes,
                 origin, reviewVars>>

\* The token is another, or SecretStorage fails.
AuthenticateRejected ==
  /\ Served("read", <<>>)
  /\ HandlerFails(Head(calls).by)
  /\ UNCHANGED <<server, pairing, pairedExtensionId, secrets, codes, holder, revokedCodes,
                 reviewVars>>

----------------------------------------------------------------------------
(* Review deliveries.  A message on an authenticated connection that is    *)
(* refused gets an error frame and changes nothing.                        *)

Sent(d) == delivery[d].promise # "none"

\* A second delivery takes the place of the first.
OneAtATimeBug == TRUE

OneAtATime == pendingDelivery = None

\* sendImplementationReviewEnvelope
SendEnvelope(d, e) ==
  /\ authenticated # None /\ IsOpen(authenticated)
  /\ OneAtATime
  /\ ~Sent(d) /\ \A p \in 1..(d - 1) : Sent(p)
  /\ pendingDelivery' = d
  /\ delivery' = [delivery EXCEPT ![d] = [envelope |-> e, promise |-> "pending"]]
  /\ ForgetReview
  /\ UNCHANGED <<server, pairVars, connVars>>

AcknowledgementTimesOut ==
  /\ pendingDelivery # None
  /\ RejectPending
  /\ UNCHANGED <<server, pairVars, connVars>>

HearsFrom(c) == Speaks(c) /\ IsAuthenticated(c)

\* An acknowledgement of delivery d, however late: a browser keeps what it was
\* sent across connections.
Acknowledge(c, d) ==
  /\ HearsFrom(c) /\ Sent(d)
  /\ pendingDelivery = d
  /\ delivery' = [delivery EXCEPT ![d].promise = "acknowledged"]
  /\ pendingDelivery' = None
  /\ latestAcknowledgedDelivery' = d
  /\ latestReviewRequest' = None
  /\ latestReviewDecision' = None
  /\ UNCHANGED <<server, pairVars, connVars>>

AcknowledgeOther(c, d) ==
  /\ HearsFrom(c) /\ Sent(d)
  /\ pendingDelivery # None /\ pendingDelivery # d
  /\ RejectPending
  /\ UNCHANGED <<server, pairVars, connVars>>

\* A browser makes requests for envelopes it was sent.
ReviewRequest(c, request) ==
  /\ HearsFrom(c)
  /\ latestAcknowledgedDelivery # None
  /\ delivery[latestAcknowledgedDelivery].envelope = request.envelope
  /\ latestReviewRequest = None /\ latestReviewDecision = None
  /\ latestReviewRequest' = request
  /\ UNCHANGED <<server, pairVars, connVars, pendingDelivery, latestAcknowledgedDelivery,
                 latestReviewDecision, delivery>>

\* A second decision on the same request is taken.
DecisionAcceptedBug(request) == latestReviewRequest = request

DecisionAccepted(request) ==
  /\ latestReviewRequest = request /\ latestAcknowledgedDelivery # None
  /\ latestReviewDecision = None

ReviewDecision(c, request, verdict) ==
  /\ HearsFrom(c)
  /\ DecisionAccepted(request)
  /\ delivery[latestAcknowledgedDelivery].envelope = request.envelope
  /\ latestReviewDecision' = [request |-> request, verdict |-> verdict]
  /\ UNCHANGED <<server, pairVars, connVars, pendingDelivery, latestAcknowledgedDelivery,
                 latestReviewRequest, delivery>>

----------------------------------------------------------------------------

SecretsResume ==
  \/ HashStored \/ ExtensionStored \/ StoreFails
  \/ AuthenticateAccepted \/ AuthenticateRejected
  \/ RevokeResumes \/ RevokeFails \/ StatusResumes

UserActs ==
  \/ BeginPairing \/ Revoke \/ Status \/ Dispose \/ WindowReloads
  \/ \E d \in Deliveries, e \in Envelopes : SendEnvelope(d, e)

BrowserActs(c) ==
  \/ \E ext \in Extensions : Connect(c, ext)
  \/ PeerCloses(c) \/ MalformedFrame(c) \/ UnacceptableMessage(c)
  \/ PairRequest(c) \/ \E n \in 0..MaxCodes : Authenticate(c, n)
  \/ \E d \in Deliveries : Acknowledge(c, d) \/ AcknowledgeOther(c, d)
  \/ \E request \in Requests :
       ReviewRequest(c, request) \/ \E v \in Verdicts : ReviewDecision(c, request, v)

Next ==
  \/ UserActs \/ SecretsResume
  \/ Listening \/ BindFails \/ PairingExpires \/ AcknowledgementTimesOut
  \/ \E c \in Conns : BrowserActs(c) \/ HandshakeTimesOut(c) \/ CloseEvent(c)

Spec == Init /\ [][Next]_vars

\* Timers fire, sockets that are closing close, SecretStorage answers.
Fairness ==
  /\ WF_vars(SecretsResume)
  /\ WF_vars(AcknowledgementTimesOut)
  /\ \A c \in Conns : WF_vars(HandshakeTimesOut(c)) /\ WF_vars(CloseEvent(c))

FairSpec == Spec /\ Fairness

----------------------------------------------------------------------------
(* Properties                                                              *)

Maybe(S) == S \union {None}

TypeOK ==
  /\ server \in {"stopped", "binding", "listening"}
  /\ pairing \in Maybe([code : Codes, expired : BOOLEAN])
  /\ authenticated \in Maybe(Conns) /\ pairedExtensionId \in Maybe(Extensions)
  /\ secrets \in [hash : Maybe(Codes), extensionId : Maybe(Extensions)]
  /\ calls \in Seq([op : {"storeHash", "storeExtension", "read", "delete", "status"},
                    by : Maybe(Conns), code : 0..MaxCodes])
  /\ readyState \in [Conns -> {"none", "open", "closing", "ended", "closed"}]
  /\ origin \in [Conns -> Maybe(Extensions)]
  /\ token \in [Conns -> 0..MaxCodes]
  /\ handshakeTimeout \in [Conns -> BOOLEAN]
  /\ {pendingDelivery, latestAcknowledgedDelivery} \subseteq Maybe(Deliveries)
  /\ latestReviewRequest \in Maybe(Requests)
  /\ latestReviewDecision \in Maybe([request : Requests, verdict : Verdicts])
  /\ delivery \in [Deliveries -> [envelope : Maybe(Envelopes),
                                  promise : {"none", "pending", "acknowledged", "rejected"}]]
  /\ codes \in 0..MaxCodes /\ revokedCodes \in 0..MaxCodes
  /\ holder \in [Codes -> Maybe(Extensions)]

\* Once revoke() has resolved, no connection is authenticated by a token that
\* comes from a code made before it, whatever handlers were under way.
RevokedBrowserStaysOut == authenticated # None => token[authenticated] > revokedCodes

\* A pairing code pairs one browser, although the handler that spends it is
\* suspended twice before the pairing is stored.
CodeSpentOnce ==
  LET spending(n) == {i \in DOMAIN calls :
                        calls[i].op \in {"storeHash", "storeExtension"} /\ calls[i].code = n} IN
  \A n \in Codes :
    /\ Cardinality(spending(n)) <= 1
    /\ (spending(n) # {} \/ holder[n] # None) => (pairing = None \/ pairing.code # n)
    /\ spending(n) # {} => holder[n] = None

\* Of all the connections that ever authenticated, only the current one is
\* open, and the bridge listens to the browser whose token it gave out.
OneBrowser ==
  /\ \A c \in Conns : IsAuthenticated(c) /\ IsOpen(c) => authenticated = c
  /\ authenticated # None => holder[token[authenticated]] = origin[authenticated]

\* Every delivery whose promise is pending is the one the bridge waits for, so
\* none is forgotten; and while it waits no earlier review can be taken for its.
DeliveryTracked ==
  /\ \A d \in Deliveries : delivery[d].promise = "pending" <=> pendingDelivery = d
  /\ latestAcknowledgedDelivery # None =>
       delivery[latestAcknowledgedDelivery].promise = "acknowledged"

\* The review the user is shown is one of the envelope delivered last: decision,
\* request and acknowledged delivery always belong together, in every order of
\* messages, timeouts and deliveries.
ReviewBelongsToLastDelivery ==
  /\ latestReviewDecision # None => latestReviewDecision.request = latestReviewRequest
  /\ latestReviewRequest # None =>
       /\ latestAcknowledgedDelivery # None
       /\ latestReviewRequest.envelope = delivery[latestAcknowledgedDelivery].envelope
       /\ \A d \in Deliveries : d > latestAcknowledgedDelivery => ~Sent(d)

\* A decision is final: it is not replaced by another,
\* and goes with its request and its delivery when the next delivery begins.
DecisionIsFinal ==
  [][latestReviewDecision # None /\ latestReviewDecision' # latestReviewDecision
       => /\ latestReviewDecision' = None
          /\ latestReviewRequest' = None
          /\ latestAcknowledgedDelivery' = None]_vars

\* Every delivery is answered, whatever the browser does.
DeliverySettles ==
  \A d \in Deliveries : delivery[d].promise = "pending" ~> delivery[d].promise # "pending"

\* No connection stays without authenticating.
UnauthenticatedEnds ==
  \A c \in Conns : IsOpen(c) ~> (IsAuthenticated(c) \/ ~IsOpen(c))

\* README: revoking clears both secrets.  With no code made since revoke()
\* resolved, none is there.  A handler suspended between its two stores
\* breaks this.
RevokeClearsBoth ==
  revokedCodes > 0 /\ revokedCodes = codes => secrets = NoSecrets /\ pairedExtensionId = None
=============================================================================
