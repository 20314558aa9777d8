----------------------------- MODULE IpcClient ------------------------------
(***************************************************************************)
(* CodexIpcClient (src/ipcClient.ts) with its RequestCorrelator and        *)
(* FrameDecoder (src/protocol.ts): one client, the sockets it opens one    *)
(* after the other, and the requests of its callers.                       *)
(*                                                                         *)
(* A socket is its number, and so is the identifier of the initialize      *)
(* request made on it and the client identifier the router gives it; 0 is  *)
(* null and INITIALIZING_CLIENT_ID.  A promise that settles in a handler   *)
(* resumes its caller before the next event, so what connect() does when   *)
(* its initialize request settles is part of the handler that settles it.  *)
(***************************************************************************)
EXTENDS IpcFraming, FiniteSets

CONSTANTS Calls,        \* requests made through request()
          MaxSockets,   \* bound on the calls of connect()
          MaxFrames     \* bound on the frames the router sends

Sockets == 1..MaxSockets
Requests == Calls \union Sockets

\* "empty" is a success without a clientId, "mismatched" one for another method.
Response(r, is) == [type |-> "response", to |-> r, is |-> is]
Discovery == [type |-> "client-discovery-request"]
Declined == 0
Null == [type |-> "null"]        \* a proper frame whose JSON text is null
Unasked == {Discovery, Null}
ResponsesTo(r) ==
  {Response(r, is) : is \in {"success", "error", IF r \in Sockets THEN "empty" ELSE "mismatched"}}

Garbage == [type |-> "garbage"]  \* what the router sends that is no frame

ASSUME ClientAssumption ==
  /\ MaxSockets \in Nat /\ MaxFrames \in Nat
  /\ Calls \intersect (0..MaxSockets) = {}
  /\ Messages = (UNION {ResponsesTo(r) : r \in Requests}) \union Unasked

VARIABLES
  link,        \* of each socket: "unused", "opening", "open", "destroyed" or "closed"
  connecting,  \* the socket connect() works on, or 0
  socket,      \* this.socket
  clientId,    \* this.clientId
  disposed,
  buffered,    \* of this.decoder
  pending,     \* requests in the correlator
  call,        \* each request: "none", "waiting", "ok" or "failed"
  inbound,     \* bytes on their way to the client
  frames,      \* frames the router has sent so far
  unseen,      \* what they hold that has not been dispatched
  heard,       \* what the router has received on the last socket: requests,
               \* and Declined, a client-discovery-response that cannot handle
  granted,     \* requests it has answered with success, on any socket
  inOrder,     \* what was dispatched is what was sent
  late         \* socket that was opening when the client was disposed, or 0

clientVars == <<connecting, socket, clientId, disposed, buffered, pending, call, late>>
routerVars == <<inbound, frames, unseen, heard, granted, inOrder>>
vars == <<link, clientVars, routerVars>>

Current == CHOOSE s \in 0..MaxSockets :
             \A n \in Sockets : n <= s <=> link[n] # "unused"

Init ==
  /\ link = [s \in Sockets |-> "unused"]
  /\ connecting = 0 /\ socket = 0 /\ clientId = 0
  /\ disposed = FALSE /\ late = 0
  /\ buffered = <<>> /\ pending = {}
  /\ call = [r \in Requests |-> "none"]
  /\ inbound = <<>> /\ frames = 0 /\ unseen = <<>>
  /\ heard = {} /\ granted = {} /\ inOrder = TRUE

Writable(s) == s # 0 /\ link[s] = "open"

----------------------------------------------------------------------------
(* Settling: RequestCorrelator, and connect() after its initialize request *)

\* rejectAll clears the map without rejecting.
AnsweredClearBug(ok, bad) ==
  /\ pending' = pending \ (ok \union bad)
  /\ call' = [r \in Requests |-> IF r \in pending \intersect ok THEN "ok" ELSE call[r]]

\* Who is rejected stays in the map.
AnsweredKeepBug(ok, bad) ==
  /\ pending' = pending \ ok
  /\ call' = [r \in Requests |-> IF r \in pending \intersect ok THEN "ok"
                                 ELSE IF r \in pending \intersect bad THEN "failed" ELSE call[r]]

\* resolve, reject and rejectAll; who is not pending any more has been answered.
Answered(ok, bad) ==
  /\ pending' = pending \ (ok \union bad)
  /\ call' = [r \in Requests |-> IF r \in pending \intersect ok THEN "ok"
                                 ELSE IF r \in pending \intersect bad THEN "failed" ELSE call[r]]

\* The end of a handler that settles these requests and leaves these values,
\* with what connect() does when its own request is among them.
HandlerEnds(ok, bad, links, left, id, rest) ==
  LET settles == connecting \in pending \intersect (ok \union bad)
      fails == settles /\ connecting \in bad
  IN /\ Answered(ok, bad)
     /\ connecting' = IF settles THEN 0 ELSE connecting
     /\ socket' = IF fails /\ left = connecting THEN 0 ELSE left
     /\ clientId' = IF fails THEN 0 ELSE IF settles THEN connecting ELSE id
     /\ buffered' = IF fails THEN <<>> ELSE rest
     /\ link' = IF fails /\ links[connecting] = "open"
                THEN [links EXCEPT ![connecting] = "destroyed"] ELSE links

\* A socket that is not open any more delivers nothing.
OnTheWay(bytes, messages) ==
  LET alive == \E s \in Sockets : link'[s] = "open" IN
  /\ inbound' = IF alive THEN bytes ELSE <<>>
  /\ unseen' = IF alive THEN messages ELSE <<>>

----------------------------------------------------------------------------
(* connect()                                                               *)

\* One call at a time.  With a writable socket and an identifier it returns at
\* once, and a disposed client throws: neither changes anything.
Connect ==
  /\ ~disposed /\ connecting = 0
  /\ ~(Writable(socket) /\ clientId # 0)
  /\ Current < MaxSockets
  /\ connecting' = Current + 1
  /\ link' = [link EXCEPT ![Current + 1] = "opening"]
  /\ UNCHANGED <<socket, clientId, disposed, buffered, pending, call, late, routerVars>>

\* The connection error, the connect timer, or createConnection throws.
OpenFails ==
  /\ connecting # 0 /\ link[connecting] = "opening"
  /\ link' = [link EXCEPT ![connecting] = "closed"]
  /\ connecting' = 0
  /\ UNCHANGED <<socket, clientId, disposed, buffered, pending, call, late, routerVars>>

\* The socket opens and initialize is sent on it.  disposed is not looked at.
\* Node emits the close of a destroyed socket before a later one opens.
Opens ==
  /\ connecting # 0 /\ link[connecting] = "opening"
  /\ \A s \in Sockets : link[s] # "destroyed"
  /\ link' = [link EXCEPT ![connecting] = "open"]
  /\ socket' = connecting
  /\ pending' = pending \union {connecting}
  /\ call' = [call EXCEPT ![connecting] = "waiting"]
  /\ heard' = {connecting}
  /\ UNCHANGED <<connecting, clientId, disposed, buffered, late, inbound, frames, unseen,
                 granted, inOrder>>

----------------------------------------------------------------------------
(* request(), its timer, and dispose()                                     *)

Request(r) ==
  /\ call[r] = "none"
  /\ \/ /\ Writable(socket) /\ clientId # 0
        /\ pending' = pending \union {r}
        /\ call' = [call EXCEPT ![r] = "waiting"]
        /\ heard' = heard \union {r}
     \/ \* no connection, or the frame is too large to be encoded
        /\ call' = [call EXCEPT ![r] = "failed"]
        /\ UNCHANGED <<pending, heard>>
  /\ UNCHANGED <<link, connecting, socket, clientId, disposed, buffered, late,
                 inbound, frames, unseen, granted, inOrder>>

RequestTimesOut(r) ==
  /\ r \in pending
  /\ HandlerEnds({}, {r}, link, socket, clientId, buffered)
  /\ OnTheWay(inbound, unseen)
  /\ UNCHANGED <<disposed, late, frames, heard, granted, inOrder>>

Destroyed(links, s) == IF Writable(s) THEN [links EXCEPT ![s] = "destroyed"] ELSE links

\* The socket is forgotten and stays open.
DisposedLinksBug == link
DisposedLinks == Destroyed(link, socket)

Dispose ==
  /\ ~disposed
  /\ disposed' = TRUE
  /\ late' = IF connecting # 0 /\ link[connecting] = "opening" THEN connecting ELSE 0
  /\ HandlerEnds({}, pending, DisposedLinks, 0, 0, <<>>)
  /\ OnTheWay(inbound, unseen)
  /\ UNCHANGED <<frames, heard, granted, inOrder>>

----------------------------------------------------------------------------
(* Events of the socket                                                    *)

\* The answer counts for some request that waits, not for the one it names.
AnswersBug(m, r) == m.type = "response" /\ r = CHOOSE q \in pending : TRUE

Answers(m, r) == m.type = "response" /\ m.to = r

\* connect() and request() on the response they waited for
Succeeds(m) == m.is = "success"

\* isIpcResponse throws on null, out of the handler: the messages of the chunk
\* that follow it are lost.
Reached(messages) == {i \in DOMAIN messages : \A j \in 1..i : messages[j] # Null}

\* The messages that a chunk completes are dispatched together; the first that
\* answers r decides.  sendCannotHandle answers a discovery request.
Dispatch(messages, rest) ==
  LET answers == [r \in pending |-> {i \in Reached(messages) : Answers(messages[i], r)}]
      answered == {r \in pending : answers[r] # {}}
      ok == {r \in answered : Succeeds(messages[Min(answers[r])])}
  IN /\ HandlerEnds(ok, answered \ ok, link, socket, clientId, rest)
     /\ heard' = heard \union {Declined : i \in {j \in Reached(messages) : messages[j] = Discovery}}

\* handleData, on the first k bytes
DataArrives(k) ==
  /\ Writable(socket)
  /\ \E d \in {Drain(buffered \o SubSeq(inbound, 1, k))} :
       /\ \/ ~d.failed /\ Dispatch(d.messages, d.rest)
          \/ /\ d.failed /\ UNCHANGED heard
             /\ HandlerEnds({}, pending, Destroyed(link, socket), socket, clientId, d.rest)
       /\ OnTheWay(SubSeq(inbound, k + 1, Len(inbound)),
                   SubSeq(unseen, Len(d.messages) + 1, Len(unseen)))
       /\ inOrder' = (inOrder /\ IsPrefix(d.messages, unseen))
  /\ UNCHANGED <<disposed, late, frames, granted>>

\* The decoder keeps the part of a frame it has got.
RestAfterLossBug == buffered
RestAfterLoss == <<>>

\* The identifier outlives the socket it was given on.
IdAfterLossBug == clientId
IdAfterLoss == 0

\* The error or the close event.  It is ignored when this.socket is another one.
SocketCloses(s) ==
  LET links == [link EXCEPT ![s] = "closed"] IN
  /\ link[s] \in {"open", "destroyed"}
  /\ IF s = socket
     THEN HandlerEnds({}, pending, links, 0, IdAfterLoss, RestAfterLoss)
     ELSE link' = links /\ UNCHANGED <<connecting, socket, clientId, buffered, pending, call>>
  /\ OnTheWay(inbound, unseen)
  /\ UNCHANGED <<disposed, late, frames, heard, granted, inOrder>>

----------------------------------------------------------------------------
(* The router (not in src/) answers what it was asked, in any order, more  *)
(* than once, or not at all, and sometimes sends what is no frame, after    *)
(* which nothing it sends is ever dispatched.                              *)

Emits(bytes, message) ==
  /\ \E s \in Sockets : link[s] = "open"
  /\ frames < MaxFrames /\ Garbage \notin ToSet(unseen)
  /\ frames' = frames + 1
  /\ inbound' = inbound \o bytes
  /\ unseen' = Append(unseen, message)
  /\ UNCHANGED <<link, clientVars, heard, inOrder>>

RouterSends ==
  \E m \in (UNION {ResponsesTo(r) : r \in heard \ {Declined}}) \union Unasked :
    /\ Emits(Frame(m), m)
    /\ granted' = granted \union {r \in heard : m = Response(r, "success")}

RouterFails ==
  /\ \/ Emits(ZeroLength, Garbage)
     \/ Emits(Oversized, Garbage)
     \/ Emits(Gibberish, Garbage)
  /\ UNCHANGED granted

Next ==
  \/ Connect \/ OpenFails \/ Opens
  \/ \E r \in Calls : Request(r)
  \/ \E r \in Requests : RequestTimesOut(r)
  \/ Dispose
  \/ \E k \in 1..Len(inbound) : DataArrives(k)
  \/ \E s \in Sockets : SocketCloses(s)
  \/ RouterSends \/ RouterFails

\* The connect timer and the timer of every request fire.
Fairness == WF_vars(OpenFails) /\ \A r \in Requests : WF_vars(RequestTimesOut(r))

Spec == Init /\ [][Next]_vars /\ Fairness

----------------------------------------------------------------------------
(* Properties                                                              *)

TypeOK ==
  /\ link \in [Sockets -> {"unused", "opening", "open", "destroyed", "closed"}]
  /\ {connecting, socket, clientId, late} \subseteq 0..MaxSockets
  /\ disposed \in BOOLEAN /\ inOrder \in BOOLEAN
  /\ {buffered, inbound} \subseteq Seq(Bytes)
  /\ Writable(socket) => Len(buffered) < HeaderLength + MaxFrame
  /\ unseen \in Seq(Messages \union {Garbage})
  /\ pending \subseteq Requests /\ granted \subseteq Requests
  /\ heard \subseteq Requests \union {Declined}
  /\ call \in [Requests -> {"none", "waiting", "ok", "failed"}]
  /\ frames \in 0..MaxFrames

\* However the socket cuts and joins the frames, and whatever an earlier
\* connection left half received, the messages dispatched are the messages
\* sent, in order, and what is in the decoder and on its way is exactly the
\* frames of the others, as long as the router sends proper frames.
FramesIntact ==
  /\ inOrder
  /\ Writable(socket) /\ Garbage \notin ToSet(unseen) => buffered \o inbound = Wire(unseen)

\* A request succeeds only on a success that the router sent for it: answers
\* that come late, twice, in another order or on an earlier connection do not.
OwnAnswer == \A r \in Requests : call[r] = "ok" => r \in granted

\* Exactly the requests that wait are in the correlator, whichever of the
\* answer, the timer, the loss of the socket and dispose came first.  Nothing
\* waits on a socket that cannot answer, and nothing goes out under the identity
\* that an earlier connection was given.
NoRequestStranded ==
  /\ pending = {r \in Requests : call[r] = "waiting"}
  /\ pending # {} => Writable(socket)
  /\ clientId # 0 => clientId = socket

\* A disposed client holds nothing, except for a connection that was being
\* opened at that moment: this one is completed and used, and nothing but the
\* router can close it.
DisposedHoldsOnlyLate ==
  disposed =>
    /\ socket \in {0, late}
    /\ \A s \in Sockets : link[s] \in {"opening", "open"} => s = late
    /\ pending # {} => late # 0

\* Whatever the router does, a request is answered and connect() returns.
EverythingSettles ==
  /\ \A r \in Requests : call[r] = "waiting" ~> call[r] # "waiting"
  /\ connecting # 0 ~> connecting = 0
=============================================================================
