-------------------------- MODULE ClientConnection --------------------------
(***************************************************************************)
(* The state of BrowserBridgeClient of browser/aiflow-chatgpt-bridge/      *)
(* client.mjs, the service worker of the Chrome extension, and the life of *)
(* its connection: pairing, connecting, authenticating, disconnecting.     *)
(*                                                                         *)
(* chrome.storage serves its calls in the order they were made, and only   *)
(* the client calls it: a read returns, and a write leaves, what the calls *)
(* before it make of the storage, so each takes effect where it is made.   *)
(* The method goes on in a later step, with what was read then.  Methods   *)
(* that open and close connections go on in the order of their calls:      *)
(* "suspended" is that queue, one entry for each storage call awaited.     *)
(* The others go on at any moment; what they await besides is digests.     *)
(*                                                                         *)
(* "socket" stands for this.socket and this.sequence: the sequence number  *)
(* changes only together with the socket, so current(s, n) says that s is  *)
(* this.socket.  What a socket that is not open receives is discarded.     *)
(***************************************************************************)
EXTENDS Integers, Sequences, FiniteSets

CONSTANTS Conns,          \* connections, each used once
          None,           \* null
          Envelopes,      \* review envelopes (run identifier and digest)
          MaxOperations,  \* bound on the calls the popup makes
          MaxDeliveries,  \* bound on the envelope messages
          MaxCodes,       \* bound on the pairing codes VS Code shows
          MaxSuspended    \* bound on the methods a user or a timer starts while others are suspended

VARIABLES
  state,       \* this.state
  socket,      \* this.socket
  webSocket,   \* readyState of each WebSocket as the browser sees it
  greeting,    \* of each WebSocket: the message its onOpen sends, that is kind and stored
  suspended,   \* methods of the connection that await the storage
  storage,     \* manualDisconnected, browserToken (0: none), latestEnvelope,
               \* latestReviewRequest, latestReviewDecision
  pending,     \* promptAck, reviewRequestAck, reviewDecisionAck: operation, or None
  operations,  \* calls of sendTestPrompt, createReviewRequest, sendReviewDecision
  storing,     \* deliveries whose handleEnvelope is suspended
  toBridge,    \* messages under way on each connection
  toClient

sessionVars == <<state, socket, webSocket, greeting, suspended>>
channels == <<toBridge, toClient>>
clientVars == <<sessionVars, storage, pending, operations, storing, channels>>

Operations == 1..MaxOperations
Deliveries == 1..MaxDeliveries
Kinds == {"browser_test_prompt", "review_request", "review_decision"}
ReviewKinds == Kinds \ {"browser_test_prompt"}
Verdicts == {"SHIP", "CHANGES_REQUESTED"}
Requests == [number : Operations, envelope : Envelopes]

\* promise: "none" before the call, "preparing" until the message is sent,
\* "waiting" for its acknowledgement, then how the promise ended; "lost" with
\* the service worker.  A prompt has no request, only a decision has a verdict.
NoOperation ==
  [kind |-> None, request |-> None, verdict |-> None, promise |-> "none", timer |-> FALSE]

Message(type, id) == [type |-> type, id |-> id]

\* The browser has been paired with code 1.
ClientInit ==
  /\ state = "disconnected" /\ socket = None
  /\ webSocket = [c \in Conns |-> "none"]
  /\ greeting = [c \in Conns |-> Message("authenticate", 0)]
  /\ suspended = <<>>
  /\ storage = [manual |-> FALSE, token |-> 1, envelope |-> None, request |-> None, decision |-> None]
  /\ pending = [k \in Kinds |-> None]
  /\ operations = [i \in Operations |-> NoOperation]
  /\ storing = {}
  /\ toBridge = [c \in Conns |-> <<>>]
  /\ toClient = [c \in Conns |-> <<>>]

----------------------------------------------------------------------------
(* Parts of handlers                                                       *)

IsCurrent(c) == c = socket /\ webSocket[c] = "open"

CanSend == socket # None /\ webSocket[socket] = "open"

\* send, on whatever socket is the current one now.
Send(message) == toBridge' = [toBridge EXCEPT ![socket] = Append(@, message)]

\* rejectPromptAck, rejectReviewRequestAck and rejectReviewDecisionAck, for the
\* kinds in ks: the operation in the slot is rejected, its timer cleared.
Rejecting(ks) == {pending[k] : k \in ks} \ {None}

Ended(promise, is) ==
  [i \in Operations |-> IF i \in is THEN [operations[i] EXCEPT !.promise = promise, !.timer = FALSE]
                        ELSE operations[i]]

Emptied(ks) == [k \in Kinds |-> IF k \in ks THEN None ELSE pending[k]]

\* closeSocket
CloseSocket ==
  /\ socket' = None
  /\ webSocket' = [c \in Conns |-> IF c = socket THEN "closed" ELSE webSocket[c]]
  /\ toClient' = [c \in Conns |-> IF c = socket THEN <<>> ELSE toClient[c]]

\* failProtocol and block: rejectPendingOperations, closeSocket, setState.
EndSession(next) ==
  /\ pending' = Emptied(Kinds)
  /\ operations' = Ended("rejected", Rejecting(Kinds))
  /\ CloseSocket
  /\ state' = next
  /\ UNCHANGED <<greeting, suspended>>

FailProtocol == EndSession("disconnected")

Block == EndSession("blocked")

\* The next message on the current socket.
Receives(c, message) ==
  /\ IsCurrent(c)
  /\ toClient[c] # <<>> /\ Head(toClient[c]) = message

Consume(c) == toClient' = [toClient EXCEPT ![c] = Tail(@)]

----------------------------------------------------------------------------
(* Methods that await the storage                                          *)

\* The entry of a method: its name, and what it will go on with of
\* manualDisconnected and of the token, or the pairing code that was typed.
Suspend(by, manual, number) == [by |-> by, manual |-> manual, number |-> number]

\* settings() in connect, for what comes after it.
SettingsRead == Suspend("connect", storage.manual, storage.token)

Suspends(call) == suspended' = Append(suspended, call)

\* A method is called by the popup or a timer.
Starts(call) == Len(suspended) < MaxSuspended /\ Suspends(call)

\* The first method goes on, and awaits the calls in more.
GoesOn(by, more) ==
  /\ suspended # <<>> /\ Head(suspended).by = by
  /\ suspended' = Tail(suspended) \o more

RestOfConnection == <<state, socket, webSocket, greeting>>
RestOfClient == <<pending, operations, storing, toBridge>>

----------------------------------------------------------------------------
(* Opening a connection                                                    *)

Alive == socket # None /\ webSocket[socket] \in {"connecting", "open"}

\* open: a socket that is closing is left behind.
Open(c, message) ==
  /\ webSocket[c] = "none"
  /\ webSocket' = [webSocket EXCEPT ![c] = "connecting"]
  /\ greeting' = [greeting EXCEPT ![c] = message]
  /\ socket' = c
  /\ state' = "connecting"

\* connect() is called on startup, by the popup and by the timer of
\* scheduleReconnect.
Connect ==
  /\ Starts(SettingsRead)
  /\ UNCHANGED <<RestOfConnection, storage, RestOfClient, toClient>>

\* connect(true), of the popup.  One that reads FALSE goes on as connect().
ConnectExplicitly ==
  /\ storage.manual
  /\ Starts(Suspend("connect(true)", TRUE, 0))
  /\ UNCHANGED <<RestOfConnection, storage, RestOfClient, toClient>>

ConnectClears ==
  /\ GoesOn("connect(true)", <<Suspend("cleared", FALSE, 0)>>)
  /\ storage' = [storage EXCEPT !.manual = FALSE]
  /\ UNCHANGED <<RestOfConnection, RestOfClient, toClient>>

ConnectReadsAgain ==
  /\ GoesOn("cleared", <<SettingsRead>>)
  /\ UNCHANGED <<RestOfConnection, storage, RestOfClient, toClient>>

\* The settings are not looked at.
MayConnectBug(stored) == state # "blocked"

MayConnect(stored) == ~stored.manual /\ state # "blocked"

ConnectGoesOn(c) ==
  LET stored == Head(suspended) IN
  /\ GoesOn("connect", <<>>)
  /\ \/ ~MayConnect(stored) /\ UNCHANGED RestOfConnection
     \/ /\ MayConnect(stored) /\ stored.number = 0
        /\ state' = "disconnected"
        /\ UNCHANGED <<socket, webSocket, greeting>>
     \/ MayConnect(stored) /\ stored.number # 0 /\ Alive /\ UNCHANGED RestOfConnection
     \/ MayConnect(stored) /\ stored.number # 0 /\ ~Alive /\ Open(c, Message("authenticate", stored.number))
  /\ UNCHANGED <<storage, RestOfClient, toClient>>

\* pair, for the n-th code that VS Code has shown.
Pair(n) ==
  /\ Starts(Suspend("pair", FALSE, n))
  /\ storage' = [storage EXCEPT !.manual = FALSE]
  /\ UNCHANGED <<RestOfConnection, RestOfClient, toClient>>

PairReads ==
  /\ GoesOn("pair", <<Suspend("pair opens", FALSE, Head(suspended).number)>>)
  /\ state' = "pairing"
  /\ CloseSocket
  /\ UNCHANGED <<greeting, storage, RestOfClient>>

\* Neither the settings nor the state are looked at.
PairOpens(c) ==
  /\ GoesOn("pair opens", <<>>)
  /\ IF Alive THEN UNCHANGED RestOfConnection
     ELSE Open(c, Message("pair_request", Head(suspended).number))
  /\ UNCHANGED <<storage, RestOfClient, toClient>>

OnOpen(c) ==
  /\ socket = c /\ webSocket[c] = "connecting"
  /\ webSocket' = [webSocket EXCEPT ![c] = "open"]
  /\ state' = IF greeting[c].type = "pair_request" THEN "pairing" ELSE "authenticating"
  /\ Send(greeting[c])
  /\ UNCHANGED <<socket, greeting, suspended, storage, pending, operations, storing, toClient>>

HandlePairSuccess(c, n) ==
  /\ Receives(c, Message("pair_success", n))
  /\ state = "pairing"
  /\ storage' = [storage EXCEPT !.manual = FALSE, !.token = n]
  /\ Suspends(Suspend("paired", FALSE, 0))
  /\ Consume(c)
  /\ UNCHANGED <<RestOfConnection, RestOfClient>>

\* It goes on with connect(), whatever socket it closes now.
PairedConnects ==
  /\ GoesOn("paired", <<SettingsRead>>)
  /\ state' = "disconnected"
  /\ CloseSocket
  /\ UNCHANGED <<greeting, storage, RestOfClient>>

HandleAuthenticated(c) ==
  /\ Receives(c, Message("authenticated", 0))
  /\ state = "authenticating"
  /\ state' = "authenticated"
  /\ Consume(c)
  /\ UNCHANGED <<socket, webSocket, greeting, suspended, storage, pending, operations, storing, toBridge>>

----------------------------------------------------------------------------
(* The end of a connection                                                 *)

HandleError(c) ==
  /\ Receives(c, Message("error", 0))
  /\ Block
  /\ UNCHANGED <<storage, storing, toBridge>>

\* The state in which a message is expected.
Expected ==
  [authenticated |-> "authenticating", pair_success |-> "pairing",
   implementation_review_envelope |-> "authenticated"]

\* A method that went on meanwhile has set another one.
Unexpected(c) ==
  /\ IsCurrent(c) /\ toClient[c] # <<>>
  /\ Head(toClient[c]).type \in DOMAIN Expected
  /\ state # Expected[Head(toClient[c]).type]
  /\ FailProtocol
  /\ UNCHANGED <<storage, storing, toBridge>>

\* The bridge closes the connection: after its last message the socket is
\* CLOSING, and is CLOSED with its close event.
ClosingBegins(c) ==
  /\ webSocket[c] = "open" /\ toClient[c] = <<>>
  /\ webSocket' = [webSocket EXCEPT ![c] = "closing"]
  /\ UNCHANGED <<state, socket, greeting, suspended, storage, RestOfClient, toClient>>

\* onClose up to its await, also of a connection that could not be made.
OnClose(c) ==
  /\ c = socket /\ webSocket[c] \in {"connecting", "closing"}
  /\ pending' = Emptied(Kinds)
  /\ operations' = Ended("rejected", Rejecting(Kinds))
  /\ CloseSocket
  /\ Suspends(Suspend("onClose", storage.manual, 0))
  /\ UNCHANGED <<state, greeting, storage, storing, toBridge>>

\* The close event of a socket that is not the current one.
OldSocketCloses(c) ==
  /\ c # socket /\ webSocket[c] = "closing"
  /\ webSocket' = [webSocket EXCEPT ![c] = "closed"]
  /\ UNCHANGED <<state, socket, greeting, suspended, storage, RestOfClient, toClient>>

\* onClose sets the state, also that of a connection opened meanwhile.
Closed ==
  /\ GoesOn("onClose", <<>>)
  /\ state' = IF Head(suspended).manual THEN "manually_disconnected"
              ELSE IF state \in {"blocked", "manually_disconnected"} THEN state ELSE "disconnected"
  /\ UNCHANGED <<socket, webSocket, greeting, storage, RestOfClient, toClient>>

HeartbeatTimesOut ==
  /\ state = "authenticated" /\ socket # None
  /\ FailProtocol
  /\ UNCHANGED <<storage, storing, toBridge>>

\* disconnect, and setPort, which stores the port besides.
Disconnect ==
  /\ Starts(Suspend("disconnect", TRUE, 0))
  /\ storage' = [storage EXCEPT !.manual = TRUE]
  /\ UNCHANGED <<RestOfConnection, RestOfClient, toClient>>

\* The operations under way stay in their slots.
Disconnected ==
  /\ GoesOn("disconnect", <<>>)
  /\ state' = "manually_disconnected"
  /\ CloseSocket
  /\ UNCHANGED <<greeting, storage, RestOfClient>>

Revoke ==
  /\ Starts(Suspend("revoke", FALSE, 0))
  /\ storage' = [storage EXCEPT !.token = 0]
  /\ UNCHANGED <<RestOfConnection, RestOfClient, toClient>>

\* It goes on as disconnect.
RevokeDisconnects ==
  /\ GoesOn("revoke", <<Suspend("disconnect", TRUE, 0)>>)
  /\ storage' = [storage EXCEPT !.manual = TRUE]
  /\ UNCHANGED <<RestOfConnection, RestOfClient, toClient>>

\* The service worker is killed and starts again: only the storage stays.
BrowserRestarts ==
  /\ state' = "disconnected"
  /\ suspended' = <<>>
  /\ CloseSocket
  /\ pending' = Emptied(Kinds)
  /\ operations' = Ended("lost", {i \in Operations : operations[i].promise \in {"preparing", "waiting"}})
  /\ storing' = {}
  /\ UNCHANGED <<greeting, storage, toBridge>>
=============================================================================
