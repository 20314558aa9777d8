-------------------------- MODULE IpcClientProofs --------------------------
(***************************************************************************)
(* What the IPC client promises, for any number of calls, sockets and      *)
(* frames: first what its connection and its correlator have to do with    *)
(* each other, then what is on the wire.                                   *)
(***************************************************************************)
EXTENDS IpcClient, IpcFramingProofs

----------------------------------------------------------------------------
(* The inductive invariant                                                 *)

ConnectionTypes ==
  /\ link \in [Sockets -> {"unused", "opening", "open", "destroyed", "closed"}]
  /\ connecting \in 0..MaxSockets /\ socket \in 0..MaxSockets
  /\ clientId \in 0..MaxSockets /\ late \in 0..MaxSockets
  /\ disposed \in BOOLEAN
  /\ pending \subseteq Requests
  /\ call \in [Requests -> {"none", "waiting", "ok", "failed"}]

\* Sockets are opened one after the other.
SocketsInTurn ==
  \E n \in 0..MaxSockets : \A s \in Sockets : s <= n <=> link[s] # "unused"

\* connect() waits for the socket it opens, when there is no other, or for the
\* answer to its initialize request, when nothing else is pending.
ConnectWaits ==
  \/ connecting = 0 /\ (Writable(socket) => clientId = socket)
  \/ connecting # 0 /\ link[connecting] = "opening" /\ ~Writable(socket)
  \/ /\ connecting # 0 /\ link[connecting] = "open"
     /\ socket = connecting /\ pending = {connecting} /\ clientId = 0

\* The open socket is the client's, and the one that opens is connect()'s.
SocketsOwned ==
  /\ socket # 0 => link[socket] \in {"open", "destroyed"}
  /\ \A s \in Sockets : link[s] = "open" => s = socket
  /\ \A s \in Sockets : link[s] = "opening" => s = connecting

Connection ==
  /\ ConnectionTypes /\ SocketsInTurn /\ ConnectWaits /\ SocketsOwned
  /\ NoRequestStranded /\ DisposedHoldsOnlyLate

\* What was received and what is on its way hold the messages that have not
\* been dispatched, and nothing is kept of a connection that is gone.
Streams ==
  /\ buffered \in Seq(Bytes) /\ inbound \in Seq(Bytes)
  /\ socket = 0 => buffered = <<>>
  /\ Writable(socket) => /\ Len(buffered) < HeaderLength + MaxFrame
                         /\ OnWire(Garbage, unseen, buffered \o inbound)
  /\ ~Writable(socket) => inbound = <<>> /\ unseen = <<>>
  /\ unseen \in Seq(Messages \union {Garbage})
  /\ inOrder = TRUE
  /\ frames \in 0..MaxFrames

\* A success that is on its way was sent for the request it names.
Grants ==
  /\ granted \subseteq Requests /\ heard \subseteq Requests \union {Declined}
  /\ \A i \in 1..Len(unseen), r \in Requests :
       unseen[i] = Response(r, "success") => r \in granted
  /\ OwnAnswer

ClientInvariant == Connection /\ Streams /\ Grants

----------------------------------------------------------------------------
(* What a handler leaves                                                   *)

LEMMA NoRequestZero == 0 \notin Requests
  BY ClientAssumption DEF Requests, Sockets

\* Who waits is who is pending, before a handler settles and after it.
LEMMA AnsweredWaits ==
  ASSUME Connection, NEW ok, NEW bad, Answered(ok, bad)
  PROVE  /\ pending' = pending \ (ok \union bad)
         /\ pending' \subseteq Requests
         /\ call' \in [Requests -> {"none", "waiting", "ok", "failed"}]
         /\ pending' = {r \in Requests : call'[r] = "waiting"}
         /\ \A r \in Requests : call'[r] = "ok" => call[r] = "ok" \/ r \in ok
  <1> USE DEF Connection, ConnectionTypes, NoRequestStranded, Answered
  <1>1. pending' = pending \ (ok \union bad) /\ pending' \subseteq Requests
    OBVIOUS
  <1>2. call' \in [Requests -> {"none", "waiting", "ok", "failed"}]
    OBVIOUS
  <1>3. ASSUME NEW r \in Requests
        PROVE  (call'[r] = "waiting" <=> r \in pending') /\ (call'[r] = "ok" => call[r] = "ok" \/ r \in ok)
    BY <1>3
  <1> QED
    BY <1>1, <1>2, <1>3

LEMMA AllRejected ==
  ASSUME Connection, NEW links, NEW left, NEW id, NEW rest,
         HandlerEnds({}, pending, links, left, id, rest),
         connecting # 0 => links[connecting] # "open"
  PROVE  /\ pending' = {} /\ Answered({}, pending) /\ link' = links
         /\ \/ /\ connecting \in pending /\ connecting' = 0 /\ clientId' = 0 /\ buffered' = <<>>
               /\ socket' = IF left = connecting THEN 0 ELSE left
            \/ /\ connecting \notin pending /\ connecting' = connecting /\ clientId' = id
               /\ buffered' = rest /\ socket' = left
  <1>1. CASE connecting \in pending
    <2>1. connecting # 0
      BY <1>1, NoRequestZero DEF Connection, ConnectionTypes
    <2> QED
      BY <1>1, <2>1 DEF HandlerEnds, Answered
  <1>2. CASE connecting \notin pending
    BY <1>2 DEF HandlerEnds, Answered
  <1> QED
    BY <1>1, <1>2

LEMMA SomeSettled ==
  ASSUME Connection, NEW ok, NEW bad, NEW rest, ok \intersect bad = {},
         ok \union bad \subseteq pending,
         HandlerEnds(ok, bad, link, socket, clientId, rest)
  PROVE  /\ Answered(ok, bad)
         /\ \/ /\ connecting \notin ok \union bad /\ UNCHANGED <<link, connecting, socket, clientId>>
               /\ buffered' = rest
            \/ /\ connecting \in ok /\ connecting' = 0 /\ clientId' = socket
               /\ UNCHANGED <<link, socket>> /\ pending' = {} /\ buffered' = rest
            \/ /\ connecting \in bad /\ connecting' = 0 /\ clientId' = 0 /\ socket' = 0
               /\ connecting = socket /\ link' = [link EXCEPT ![socket] = "destroyed"]
               /\ pending' = {} /\ buffered' = <<>>
  <1>1. Answered(ok, bad)
    BY DEF HandlerEnds
  <1>2. CASE connecting \notin ok \union bad
    BY <1>1, <1>2 DEF HandlerEnds
  <1>3. CASE connecting \in ok \union bad
    <2>1. connecting \in pending /\ connecting # 0 /\ Writable(socket)
      BY <1>3, NoRequestZero DEF Connection, ConnectionTypes, NoRequestStranded
    <2>2. link[connecting] = "open" /\ socket = connecting /\ pending = {connecting}
      BY <2>1 DEF Connection, ConnectWaits
    <2>3. pending' = {}
      BY <1>1, <1>3, <2>2 DEF Answered
    <2>4. CASE connecting \in ok
      <3>1. connecting \notin bad
        BY <2>4
      <3> QED
        BY <1>1, <2>1, <2>2, <2>3, <2>4, <3>1 DEF HandlerEnds
    <2>5. CASE connecting \in bad
      BY <1>1, <2>1, <2>2, <2>3, <2>5 DEF HandlerEnds
    <2> QED
      BY <1>3, <2>4, <2>5
  <1> QED
    BY <1>2, <1>3

\* Settling requests on the connection as it is.
LEMMA SettlingKeepsConnection ==
  ASSUME Connection, NEW ok, NEW bad, NEW rest, ok \intersect bad = {},
         ok \union bad \subseteq pending,
         HandlerEnds(ok, bad, link, socket, clientId, rest), UNCHANGED <<disposed, late>>
  PROVE  Connection'
  <1> USE DEF Connection, ConnectionTypes, SocketsInTurn, ConnectWaits, SocketsOwned,
              NoRequestStranded, DisposedHoldsOnlyLate, Writable, Sockets
  <1>1. /\ pending' = pending \ (ok \union bad) /\ pending' \subseteq Requests
        /\ call' \in [Requests -> {"none", "waiting", "ok", "failed"}]
        /\ pending' = {r \in Requests : call'[r] = "waiting"}
    <2> HIDE DEF Connection
    <2> QED
      BY SomeSettled, AnsweredWaits
  <1>2. MaxSockets \in Nat
    BY ClientAssumption
  <1>3. CASE connecting \notin ok \union bad /\ UNCHANGED <<link, connecting, socket, clientId>>
    BY <1>1, <1>3
  <1>4. CASE /\ connecting \in ok /\ connecting' = 0 /\ clientId' = socket
             /\ UNCHANGED <<link, socket>> /\ pending' = {}
    <2>1. link[connecting] = "open"
      BY <1>4, NoRequestZero
    <2> QED
      BY <1>1, <1>2, <1>4, <2>1
  <1>5. CASE /\ connecting \in bad /\ connecting' = 0 /\ clientId' = 0 /\ socket' = 0
             /\ connecting = socket /\ link' = [link EXCEPT ![socket] = "destroyed"]
             /\ pending' = {}
    <2>1. socket \in Sockets /\ link[socket] = "open"
      BY <1>2, <1>5, NoRequestZero
    <2>2. link' \in [Sockets -> {"unused", "opening", "open", "destroyed", "closed"}]
          /\ \A s \in Sockets : link'[s] = IF s = socket THEN "destroyed" ELSE link[s]
      BY <1>5, <2>1
    <2>3. ConnectionTypes'
      BY <1>1, <1>2, <1>5, <2>2
    <2>4. SocketsInTurn'
      <3>1. PICK n \in 0..MaxSockets : \A s \in Sockets : s <= n <=> link[s] # "unused"
        OBVIOUS
      <3>2. \A s \in Sockets : s <= n <=> link'[s] # "unused"
        BY <2>1, <2>2, <3>1
      <3> QED
        BY <3>2
    <2>5. SocketsOwned' /\ ConnectWaits'
      BY <1>5, <2>1, <2>2
    <2>6. NoRequestStranded'
      BY <1>1, <1>5
    <2>7. DisposedHoldsOnlyLate'
      BY <1>2, <1>5, <2>2
    <2> QED
      BY <2>3, <2>4, <2>5, <2>6, <2>7
  <1> QED
    <2> HIDE DEF Connection
    <2>1. \/ connecting \notin ok \union bad /\ UNCHANGED <<link, connecting, socket, clientId>>
          \/ /\ connecting \in ok /\ connecting' = 0 /\ clientId' = socket
             /\ UNCHANGED <<link, socket>> /\ pending' = {}
          \/ /\ connecting \in bad /\ connecting' = 0 /\ clientId' = 0 /\ socket' = 0
             /\ connecting = socket /\ link' = [link EXCEPT ![socket] = "destroyed"]
             /\ pending' = {}
      BY SomeSettled
    <2> QED
      BY <1>3, <1>4, <1>5, <2>1

\* Rejecting everything that is pending when the open socket is given up.
LEMMA RejectingKeepsConnection ==
  ASSUME Connection, NEW links, NEW left \in {0, socket}, NEW id \in {0, clientId}, NEW rest,
         links \in [Sockets -> {"unused", "opening", "open", "destroyed", "closed"}],
         \A s \in Sockets : IF s = socket THEN links[s] \in {"destroyed", "closed"}
                            ELSE links[s] = link[s],
         left # 0 => links[left] = "destroyed",
         left = 0 => id = 0,
         HandlerEnds({}, pending, links, left, id, rest)
  PROVE  /\ ConnectionTypes' <=> (late' \in 0..MaxSockets /\ disposed' \in BOOLEAN)
         /\ SocketsInTurn' /\ ConnectWaits' /\ SocketsOwned' /\ NoRequestStranded'
         /\ link' = links /\ socket' \in {0, left} /\ pending' = {}
         /\ connecting' \in {0, connecting}
  <1> USE DEF Connection, ConnectionTypes, SocketsInTurn, ConnectWaits, SocketsOwned,
              NoRequestStranded, Writable, Sockets
  <1>1. MaxSockets \in Nat
    BY ClientAssumption
  <1>2. connecting # 0 => links[connecting] # "open"
    BY <1>1
  <1>3. /\ pending' = {} /\ Answered({}, pending) /\ link' = links
        /\ \/ /\ connecting \in pending /\ connecting' = 0 /\ clientId' = 0
              /\ socket' = IF left = connecting THEN 0 ELSE left
           \/ /\ connecting \notin pending /\ connecting' = connecting /\ clientId' = id
              /\ socket' = left
    <2> HIDE DEF Connection
    <2> QED
      BY <1>2, AllRejected
  <1>4. /\ call' \in [Requests -> {"none", "waiting", "ok", "failed"}]
        /\ pending' = {r \in Requests : call'[r] = "waiting"}
    <2> HIDE DEF Connection
    <2> QED
      BY <1>3, AnsweredWaits
  <1>5. \A s \in Sockets : link'[s] # "open"
    BY <1>3
  <1>6. socket' \in {0, left} /\ socket' \in 0..MaxSockets /\ clientId' \in {0, clientId}
        /\ connecting' \in {0, connecting}
    BY <1>1, <1>3
  <1>7. ~(socket' # 0 /\ link'[socket'] = "open")
    BY <1>1, <1>3, <1>6
  <1>8. ConnectionTypes' <=> (late' \in 0..MaxSockets /\ disposed' \in BOOLEAN)
    BY <1>1, <1>3, <1>4, <1>6
  <1>9. SocketsInTurn'
    <2>1. PICK n \in 0..MaxSockets : \A s \in Sockets : s <= n <=> link[s] # "unused"
      OBVIOUS
    <2>2. socket # 0 => link[socket] # "unused"
      OBVIOUS
    <2>3. \A s \in Sockets : s <= n <=> link'[s] # "unused"
      BY <1>3, <2>1, <2>2
    <2> QED
      BY <2>3
  <1>10. CASE connecting \in pending /\ connecting' = 0 /\ clientId' = 0
    <2>1. \A s \in Sockets : link'[s] # "opening"
      <3>1. link[connecting] = "open"
        BY <1>10, NoRequestZero
      <3> QED
        BY <1>3, <3>1
    <2> QED
      BY <1>3, <1>4, <1>5, <1>6, <1>7, <1>8, <1>9, <1>10, <2>1
  <1>11. CASE /\ connecting \notin pending /\ connecting' = connecting /\ clientId' = id
              /\ socket' = left
    <2>1. connecting # 0 => link[connecting] = "opening" /\ connecting # socket
      BY <1>11
    <2>2. connecting' # 0 => link'[connecting'] = "opening"
      BY <1>1, <1>3, <1>11, <2>1
    <2>3. ConnectWaits'
      BY <1>7, <1>11, <2>2
    <2>4. SocketsOwned'
      BY <1>1, <1>3, <1>5, <1>11
    <2>5. NoRequestStranded'
      BY <1>3, <1>4, <1>11
    <2> QED
      BY <1>3, <1>6, <1>8, <1>9, <2>3, <2>4, <2>5
  <1> QED
    BY <1>3, <1>10, <1>11

\* Min of the model, on what it is used for.
LEMMA MinIsFirst == ASSUME NEW S, S \subseteq Nat, S # {} PROVE Min(S) \in S
  <1> DEFINE R == OpToRel(<, Nat)
  <1>1. PICK x \in S : \A y \in S : <<y, x>> \notin R
    <2>1. IsWellFoundedOn(R, Nat)
      BY NatLessThanWellFounded
    <2> HIDE DEF R
    <2> QED
      BY <2>1, WFMin
  <1>2. \A y \in S : x <= y
    <2> SUFFICES ASSUME NEW y \in S PROVE x <= y
      OBVIOUS
    <2>1. ~(y < x)
      BY <1>1, Zenon DEF OpToRel
    <2> QED
      BY <2>1
  <1> QED
    BY <1>2 DEF Min

\* A dispatch settles requests that are pending, with success only those that a
\* success among the messages names.
SettledBy(messages, rest) ==
  \E ok, bad :
    /\ ok \intersect bad = {} /\ ok \union bad \subseteq pending
    /\ HandlerEnds(ok, bad, link, socket, clientId, rest)
    /\ messages \in Seq(Messages) =>
         \A r \in ok : \E i \in 1..Len(messages) :
           messages[i].type = "response" /\ messages[i].to = r /\ messages[i].is = "success"

LEMMA DispatchSettles ==
  ASSUME NEW messages, NEW rest, Dispatch(messages, rest) PROVE SettledBy(messages, rest)
  <1> DEFINE answers == [r \in pending |-> {i \in Reached(messages) : Answers(messages[i], r)}]
             answered == {r \in pending : answers[r] # {}}
             ok == {r \in answered : Succeeds(messages[Min(answers[r])])}
             bad == answered \ ok
  <1>1. HandlerEnds(ok, bad, link, socket, clientId, rest)
    BY DEF Dispatch
  <1>2. ok \intersect bad = {} /\ ok \union bad \subseteq pending
    OBVIOUS
  <1>3. ASSUME messages \in Seq(Messages), NEW r \in ok
        PROVE  \E i \in 1..Len(messages) :
                 messages[i].type = "response" /\ messages[i].to = r /\ messages[i].is = "success"
    <2>1. DOMAIN messages = 1..Len(messages) /\ Len(messages) \in Nat
      BY <1>3
    <2>2. PICK S : S = {i \in Reached(messages) : Answers(messages[i], r)}
      OBVIOUS
    <2>3. S # {} /\ Succeeds(messages[Min(S)])
      BY <2>2
    <2>4. S \subseteq 1..Len(messages) /\ S \subseteq Nat
      BY <2>1, <2>2 DEF Reached
    <2>5. Min(S) \in S
      BY <2>3, <2>4, MinIsFirst
    <2> QED
      BY <2>1, <2>2, <2>3, <2>4, <2>5 DEF Answers, Succeeds
  <1> HIDE DEF ok, bad
  <1> QED
    BY <1>1, <1>2, <1>3 DEF SettledBy

----------------------------------------------------------------------------
(* The connection                                                          *)

LEMMA CurrentIs ==
  ASSUME SocketsInTurn
  PROVE  Current \in 0..MaxSockets /\ \A s \in Sockets : s <= Current <=> link[s] # "unused"
  BY DEF SocketsInTurn, Current

LEMMA ConnectKeepsConnection == ASSUME Connection, Connect PROVE Connection'
  <1> USE DEF Connection, ConnectionTypes, SocketsInTurn, ConnectWaits, SocketsOwned,
              NoRequestStranded, DisposedHoldsOnlyLate, Writable, Sockets
  <1>1. MaxSockets \in Nat
    BY ClientAssumption
  <1>2. PICK n \in 0..MaxSockets : n = Current /\ \A s \in Sockets : s <= n <=> link[s] # "unused"
    BY CurrentIs
  <1>3. /\ ~disposed /\ connecting = 0 /\ ~(Writable(socket) /\ clientId # 0) /\ n < MaxSockets
        /\ connecting' = n + 1 /\ link' = [link EXCEPT ![n + 1] = "opening"]
        /\ UNCHANGED <<socket, clientId, disposed, pending, call, late>>
    BY <1>2 DEF Connect
  <1>4. n + 1 \in Sockets /\ link[n + 1] = "unused" /\ n + 1 # socket /\ connecting' # 0
    BY <1>1, <1>2, <1>3
  <1>5. /\ link' \in [Sockets -> {"unused", "opening", "open", "destroyed", "closed"}]
        /\ \A s \in Sockets : link'[s] = IF s = n + 1 THEN "opening" ELSE link[s]
    BY <1>3, <1>4
  <1>6. ~Writable(socket)
    BY <1>3
  <1>7. ConnectionTypes'
    BY <1>1, <1>3, <1>4, <1>5
  <1>8. SocketsInTurn'
    <2>1. n + 1 \in 0..MaxSockets /\ \A s \in Sockets : s <= n + 1 <=> link'[s] # "unused"
      BY <1>1, <1>2, <1>4, <1>5
    <2> QED
      BY <2>1
  <1>9. ConnectWaits' /\ SocketsOwned'
    BY <1>3, <1>4, <1>5, <1>6
  <1>10. NoRequestStranded'
    BY <1>3, <1>6
  <1>11. DisposedHoldsOnlyLate'
    BY <1>3
  <1> QED
    BY <1>7, <1>8, <1>9, <1>10, <1>11

LEMMA OpenFailsKeepsConnection == ASSUME Connection, OpenFails PROVE Connection'
  <1> USE DEF Connection, ConnectionTypes, SocketsInTurn, ConnectWaits, SocketsOwned,
              NoRequestStranded, DisposedHoldsOnlyLate, Writable, Sockets
  <1>1. MaxSockets \in Nat
    BY ClientAssumption
  <1>2. /\ connecting # 0 /\ link[connecting] = "opening"
        /\ link' = [link EXCEPT ![connecting] = "closed"] /\ connecting' = 0
        /\ UNCHANGED <<socket, clientId, disposed, pending, call, late>>
    BY DEF OpenFails
  <1>3. /\ connecting \in Sockets /\ connecting # socket
        /\ link' \in [Sockets -> {"unused", "opening", "open", "destroyed", "closed"}]
        /\ \A s \in Sockets : link'[s] = IF s = connecting THEN "closed" ELSE link[s]
    BY <1>1, <1>2
  <1>4. ConnectionTypes' /\ ConnectWaits' /\ SocketsOwned'
    BY <1>1, <1>2, <1>3
  <1>5. SocketsInTurn'
    <2>1. PICK n \in 0..MaxSockets : \A s \in Sockets : s <= n <=> link[s] # "unused"
      OBVIOUS
    <2>2. \A s \in Sockets : s <= n <=> link'[s] # "unused"
      BY <1>2, <1>3, <2>1
    <2> QED
      BY <2>2
  <1>6. NoRequestStranded' /\ DisposedHoldsOnlyLate'
    BY <1>2, <1>3
  <1> QED
    BY <1>4, <1>5, <1>6

LEMMA OpensKeepsConnection == ASSUME Connection, Opens PROVE Connection'
  <1> USE DEF Connection, ConnectionTypes, SocketsInTurn, ConnectWaits, SocketsOwned,
              NoRequestStranded, DisposedHoldsOnlyLate, Writable, Sockets
  <1>1. MaxSockets \in Nat
    BY ClientAssumption
  <1>2. /\ connecting # 0 /\ link[connecting] = "opening"
        /\ \A s \in Sockets : link[s] # "destroyed"
        /\ link' = [link EXCEPT ![connecting] = "open"] /\ socket' = connecting
        /\ pending' = pending \union {connecting} /\ call' = [call EXCEPT ![connecting] = "waiting"]
        /\ UNCHANGED <<connecting, clientId, disposed, late>>
    BY DEF Opens
  <1>3. /\ connecting \in Sockets /\ connecting \in Requests
        /\ link' \in [Sockets -> {"unused", "opening", "open", "destroyed", "closed"}]
        /\ \A s \in Sockets : link'[s] = IF s = connecting THEN "open" ELSE link[s]
    BY <1>1, <1>2 DEF Requests
  <1>4. socket = 0 /\ clientId = 0 /\ pending = {}
    BY <1>1, <1>2
  <1>5. /\ call' \in [Requests -> {"none", "waiting", "ok", "failed"}]
        /\ pending' = {r \in Requests : call'[r] = "waiting"}
    BY <1>2, <1>3
  <1>6. ConnectionTypes' /\ ConnectWaits' /\ SocketsOwned'
    BY <1>1, <1>2, <1>3, <1>4, <1>5
  <1>7. SocketsInTurn'
    <2>1. PICK n \in 0..MaxSockets : \A s \in Sockets : s <= n <=> link[s] # "unused"
      OBVIOUS
    <2>2. \A s \in Sockets : s <= n <=> link'[s] # "unused"
      BY <1>2, <1>3, <2>1
    <2> QED
      BY <2>2
  <1>8. NoRequestStranded' /\ DisposedHoldsOnlyLate'
    BY <1>2, <1>3, <1>4, <1>5
  <1> QED
    BY <1>6, <1>7, <1>8

LEMMA RequestKeepsConnection ==
  ASSUME Connection, NEW r \in Calls, Request(r) PROVE Connection'
  <1> USE DEF Connection, ConnectionTypes, SocketsInTurn, ConnectWaits, SocketsOwned,
              NoRequestStranded, DisposedHoldsOnlyLate, Writable, Sockets
  <1>1. r \in Requests
    BY DEF Requests
  <1>2. /\ call[r] = "none" /\ UNCHANGED <<link, connecting, socket, clientId, disposed, late>>
        /\ \/ /\ Writable(socket) /\ clientId # 0 /\ pending' = pending \union {r}
              /\ call' = [call EXCEPT ![r] = "waiting"]
           \/ call' = [call EXCEPT ![r] = "failed"] /\ UNCHANGED pending
    BY DEF Request
  <1>3. pending' = {q \in Requests : call'[q] = "waiting"}
        /\ call' \in [Requests -> {"none", "waiting", "ok", "failed"}]
    BY <1>1, <1>2
  <1> QED
    BY <1>2, <1>3

LEMMA DisposeKeepsConnection == ASSUME Connection, Dispose PROVE Connection'
  <1>1. MaxSockets \in Nat
    BY ClientAssumption
  <1>2. PICK links : links = DisposedLinks
    OBVIOUS
  <1>3. /\ links \in [Sockets -> {"unused", "opening", "open", "destroyed", "closed"}]
        /\ \A s \in Sockets : IF s = socket THEN links[s] \in {"destroyed", "closed"}
                              ELSE links[s] = link[s]
    BY <1>1, <1>2 DEF DisposedLinks, Destroyed, Connection, ConnectionTypes, SocketsOwned, Writable, Sockets
  <1>4. /\ HandlerEnds({}, pending, links, 0, 0, <<>>) /\ disposed' = TRUE
        /\ late' = IF connecting # 0 /\ link[connecting] = "opening" THEN connecting ELSE 0
    BY <1>2 DEF Dispose
  <1>5. late' \in 0..MaxSockets /\ disposed' \in BOOLEAN
    BY <1>1, <1>4 DEF Connection, ConnectionTypes
  <1>6. /\ ConnectionTypes' /\ SocketsInTurn' /\ ConnectWaits' /\ SocketsOwned' /\ NoRequestStranded'
        /\ link' = links /\ socket' = 0 /\ pending' = {}
    <2>1. /\ ConnectionTypes' <=> (late' \in 0..MaxSockets /\ disposed' \in BOOLEAN)
          /\ SocketsInTurn' /\ ConnectWaits' /\ SocketsOwned' /\ NoRequestStranded'
          /\ link' = links /\ socket' \in {0} /\ pending' = {}
      BY <1>3, <1>4, RejectingKeepsConnection
    <2> QED
      BY <1>5, <2>1
  <1>7. DisposedHoldsOnlyLate'
    BY <1>1, <1>3, <1>4, <1>6
       DEF DisposedHoldsOnlyLate, Connection, ConnectionTypes, SocketsOwned, Sockets
  <1> QED
    BY <1>6, <1>7 DEF Connection

LEMMA DataKeepsConnection ==
  ASSUME Connection, NEW k \in 1..Len(inbound), DataArrives(k) PROVE Connection'
  <1>1. PICK d : /\ \/ ~d.failed /\ Dispatch(d.messages, d.rest)
                    \/ /\ d.failed
                       /\ HandlerEnds({}, pending, Destroyed(link, socket), socket, clientId, d.rest)
    BY DEF DataArrives
  <1>2. Writable(socket) /\ UNCHANGED <<disposed, late>>
    BY DEF DataArrives
  <1>3. CASE Dispatch(d.messages, d.rest)
    <2>1. SettledBy(d.messages, d.rest)
      BY <1>3, DispatchSettles
    <2>2. PICK ok, bad : /\ ok \intersect bad = {} /\ ok \union bad \subseteq pending
                         /\ HandlerEnds(ok, bad, link, socket, clientId, d.rest)
      BY <2>1 DEF SettledBy
    <2> QED
      BY <1>2, <2>2, SettlingKeepsConnection
  <1>4. CASE HandlerEnds({}, pending, Destroyed(link, socket), socket, clientId, d.rest)
    <2>1. MaxSockets \in Nat
      BY ClientAssumption
    <2>2. PICK links, left, id : links = Destroyed(link, socket) /\ left = socket /\ id = clientId
      OBVIOUS
    <2>3. /\ links \in [Sockets -> {"unused", "opening", "open", "destroyed", "closed"}]
          /\ \A s \in Sockets : IF s = socket THEN links[s] \in {"destroyed", "closed"}
                                ELSE links[s] = link[s]
          /\ left # 0 /\ links[left] = "destroyed"
      BY <1>2, <2>1, <2>2 DEF Destroyed, Connection, ConnectionTypes, SocketsOwned, Writable, Sockets
    <2>4. HandlerEnds({}, pending, links, left, id, d.rest)
      BY <1>4, <2>2
    <2>5. /\ ConnectionTypes' <=> (late' \in 0..MaxSockets /\ disposed' \in BOOLEAN)
          /\ SocketsInTurn' /\ ConnectWaits' /\ SocketsOwned' /\ NoRequestStranded'
          /\ link' = links /\ socket' \in {0, left} /\ pending' = {}
          /\ connecting' \in {0, connecting}
      BY <2>2, <2>3, <2>4, RejectingKeepsConnection
    <2>6. ConnectionTypes'
      BY <1>2, <2>5 DEF Connection, ConnectionTypes
    <2>7. DisposedHoldsOnlyLate'
      BY <1>2, <2>1, <2>2, <2>3, <2>5 DEF DisposedHoldsOnlyLate, Connection
    <2> QED
      BY <2>5, <2>6, <2>7 DEF Connection
  <1> QED
    BY <1>1, <1>3, <1>4

LEMMA ClosingKeepsConnection ==
  ASSUME Connection, NEW s \in Sockets, SocketCloses(s) PROVE Connection'
  <1>1. MaxSockets \in Nat
    BY ClientAssumption
  <1>2. PICK links : links = [link EXCEPT ![s] = "closed"]
    OBVIOUS
  <1>3. /\ links \in [Sockets -> {"unused", "opening", "open", "destroyed", "closed"}]
        /\ \A q \in Sockets : links[q] = IF q = s THEN "closed" ELSE link[q]
    BY <1>2 DEF Connection, ConnectionTypes
  <1>4. link[s] \in {"open", "destroyed"} /\ UNCHANGED <<disposed, late>>
    BY DEF SocketCloses
  <1>5. CASE s = socket
    <2>1. HandlerEnds({}, pending, links, 0, 0, <<>>)
      BY <1>2, <1>5 DEF SocketCloses, IdAfterLoss, RestAfterLoss
    <2>2. /\ ConnectionTypes' <=> (late' \in 0..MaxSockets /\ disposed' \in BOOLEAN)
          /\ SocketsInTurn' /\ ConnectWaits' /\ SocketsOwned' /\ NoRequestStranded'
          /\ link' = links /\ socket' \in {0} /\ pending' = {}
          /\ connecting' \in {0, connecting}
      <3>1. \A q \in Sockets : IF q = socket THEN links[q] \in {"destroyed", "closed"}
                               ELSE links[q] = link[q]
        BY <1>3, <1>5
      <3> QED
        BY <1>3, <2>1, <3>1, RejectingKeepsConnection
    <2>3. ConnectionTypes'
      BY <1>4, <2>2 DEF Connection, ConnectionTypes
    <2>4. DisposedHoldsOnlyLate'
      BY <1>3, <1>4, <2>2 DEF DisposedHoldsOnlyLate, Connection
    <2> QED
      BY <2>2, <2>3, <2>4 DEF Connection
  <1>6. CASE s # socket
    <2> USE DEF Connection, ConnectionTypes, SocketsInTurn, ConnectWaits, SocketsOwned,
                NoRequestStranded, DisposedHoldsOnlyLate, Writable, Sockets
    <2>1. link' = links /\ UNCHANGED <<connecting, socket, clientId, pending, call>>
      BY <1>2, <1>6 DEF SocketCloses
    <2>2. connecting # s /\ link[s] = "destroyed"
      BY <1>4, <1>6
    <2>3. ConnectionTypes' /\ ConnectWaits' /\ SocketsOwned'
      BY <1>1, <1>3, <1>4, <1>6, <2>1, <2>2
    <2>4. SocketsInTurn'
      <3>1. PICK n \in 0..MaxSockets : \A q \in Sockets : q <= n <=> link[q] # "unused"
        OBVIOUS
      <3>2. \A q \in Sockets : q <= n <=> link'[q] # "unused"
        BY <1>3, <2>1, <2>2, <3>1
      <3> QED
        BY <3>2
    <2>5. NoRequestStranded' /\ DisposedHoldsOnlyLate'
      BY <1>1, <1>3, <1>4, <1>6, <2>1, <2>2
    <2> QED
      BY <2>3, <2>4, <2>5
  <1> QED
    BY <1>5, <1>6

LEMMA StepKeepsConnection == ASSUME Connection, [Next]_vars PROVE Connection'
  <1>1. CASE Connect
    BY <1>1, ConnectKeepsConnection
  <1>2. CASE OpenFails
    BY <1>2, OpenFailsKeepsConnection
  <1>3. CASE Opens
    BY <1>3, OpensKeepsConnection
  <1>4. ASSUME NEW r \in Calls, Request(r) PROVE Connection'
    BY <1>4, RequestKeepsConnection
  <1>5. ASSUME NEW r \in Requests, RequestTimesOut(r) PROVE Connection'
    <2>1. HandlerEnds({}, {r}, link, socket, clientId, buffered) /\ r \in pending
          /\ UNCHANGED <<disposed, late>>
      BY <1>5 DEF RequestTimesOut
    <2>2. PICK rest, ok, bad : rest = buffered /\ ok = {} /\ bad = {r}
      OBVIOUS
    <2>3. HandlerEnds(ok, bad, link, socket, clientId, rest)
      BY <2>1, <2>2
    <2> QED
      BY <2>1, <2>2, <2>3, SettlingKeepsConnection
  <1>6. CASE Dispose
    BY <1>6, DisposeKeepsConnection
  <1>7. ASSUME NEW k \in 1..Len(inbound), DataArrives(k) PROVE Connection'
    BY <1>7, DataKeepsConnection
  <1>8. ASSUME NEW s \in Sockets, SocketCloses(s) PROVE Connection'
    BY <1>8, ClosingKeepsConnection
  <1>9. CASE UNCHANGED <<link, clientVars>>
    BY <1>9 DEF clientVars, Connection, ConnectionTypes, SocketsInTurn, ConnectWaits, SocketsOwned,
                NoRequestStranded, DisposedHoldsOnlyLate, Writable
  <1>10. CASE RouterSends \/ RouterFails \/ UNCHANGED vars
    BY <1>9, <1>10 DEF RouterSends, RouterFails, Emits, vars
  <1> QED
    BY <1>1, <1>2, <1>3, <1>4, <1>5, <1>6, <1>7, <1>8, <1>10 DEF Next

\* The connection and the correlator agree all the time (src/ipcClient.ts,
\* RequestCorrelator in src/protocol.ts).
THEOREM ConnectionHolds == Spec => []Connection
  <1>1. Init => Connection
    <2> SUFFICES ASSUME Init PROVE Connection
      OBVIOUS
    <2>1. MaxSockets \in Nat
      BY ClientAssumption
    <2>2. SocketsInTurn
      <3>1. 0 \in 0..MaxSockets /\ \A s \in Sockets : s <= 0 <=> link[s] # "unused"
        BY <2>1 DEF Init, Sockets
      <3> QED
        BY <3>1 DEF SocketsInTurn
    <2>3. ConnectionTypes
      <3>1. link \in [Sockets -> {"unused", "opening", "open", "destroyed", "closed"}]
        BY DEF Init
      <3>2. call \in [Requests -> {"none", "waiting", "ok", "failed"}]
        BY DEF Init
      <3>3. 0 \in 0..MaxSockets
        BY <2>1
      <3>4. pending = {} /\ disposed = FALSE
        BY DEF Init
      <3>5. connecting = 0 /\ socket = 0 /\ clientId = 0 /\ late = 0
        BY DEF Init
      <3> QED
        BY <3>1, <3>2, <3>3, <3>4, <3>5 DEF ConnectionTypes
    <2>4. ConnectWaits
      BY DEF Init, ConnectWaits, Writable
    <2>6. SocketsOwned
      BY DEF Init, SocketsOwned
    <2>7. DisposedHoldsOnlyLate
      BY DEF Init, DisposedHoldsOnlyLate
    <2>5. NoRequestStranded
      <3>1. \A r \in Requests : call[r] # "waiting"
        BY DEF Init
      <3>2. pending = {} /\ clientId = 0
        BY DEF Init
      <3> QED
        BY <3>1, <3>2 DEF NoRequestStranded
    <2> QED
      BY <2>2, <2>3, <2>4, <2>5, <2>6, <2>7 DEF Connection
  <1> QED
    BY <1>1, StepKeepsConnection, PTL DEF Spec

\* Exactly the requests that wait are in the correlator, and none is there when
\* no socket could bring its answer: handleClose, dispose and the timers leave
\* nobody behind (src/ipcClient.ts).
THEOREM NobodyStranded == Spec => []NoRequestStranded
  <1>1. Connection => NoRequestStranded
    BY DEF Connection
  <1> QED
    BY <1>1, ConnectionHolds, PTL

\* After dispose() the client holds at most the connection that was being opened
\* when it was called (src/ipcClient.ts).
THEOREM DisposedKeepsLittle == Spec => []DisposedHoldsOnlyLate
  <1>1. Connection => DisposedHoldsOnlyLate
    BY DEF Connection
  <1> QED
    BY <1>1, ConnectionHolds, PTL

----------------------------------------------------------------------------
(* What is on the wire                                                     *)

LEMMA GarbageIsNoMessage == Garbage \notin Messages
  <1>1. Garbage.type = "garbage"
    BY DEF Garbage
  <1>2. ASSUME NEW m \in Messages PROVE m.type \in {"response", "client-discovery-request", "null"}
    <2>1. m \in UNION {ResponsesTo(r) : r \in Requests} \/ m \in Unasked
      BY ClientAssumption
    <2>2. CASE m \in Unasked
      BY <2>2 DEF Unasked, Discovery, Null
    <2>3. CASE m \in UNION {ResponsesTo(r) : r \in Requests}
      <3>1. PICK q \in Requests : m \in ResponsesTo(q)
        BY <2>3
      <3>2. PICK is : m = Response(q, is)
        BY <3>1 DEF ResponsesTo
      <3> QED
        BY <3>2 DEF Response
    <2> QED
      BY <2>1, <2>2, <2>3
  <1> QED
    BY <1>1, <1>2

LEMMA MessagesAre ==
  ASSUME NEW m \in Messages, m.type = "response", NEW r, m.to = r, m.is = "success"
  PROVE  m = Response(r, "success")
  <1>1. m \notin Unasked
    BY DEF Unasked, Discovery, Null
  <1>2. PICK q \in Requests : m \in ResponsesTo(q)
    <2>1. m \in UNION {ResponsesTo(q) : q \in Requests}
      BY <1>1, ClientAssumption
    <2> QED
      BY <2>1
  <1>3. PICK is : m = Response(q, is)
    BY <1>2 DEF ResponsesTo
  <1>4. q = r /\ is = "success"
    BY <1>3 DEF Response
  <1> QED
    BY <1>3, <1>4

LEMMA OpenIsWritable ==
  ASSUME Connection
  PROVE  (\E s \in Sockets : link[s] = "open") <=> Writable(socket)
  <1>1. MaxSockets \in Nat
    BY ClientAssumption
  <1> QED
    BY <1>1 DEF Connection, ConnectionTypes, SocketsOwned, Writable, Sockets

LEMMA OnTheWayIs ==
  ASSUME Connection', NEW bytes, NEW messages, OnTheWay(bytes, messages)
  PROVE  IF Writable(socket)' THEN inbound' = bytes /\ unseen' = messages
         ELSE inbound' = <<>> /\ unseen' = <<>>
  <1>1. (Connection => ((\E s \in Sockets : link[s] = "open") <=> Writable(socket)))'
    BY OpenIsWritable, PTL
  <1> QED
    BY <1>1 DEF OnTheWay

\* A step that leaves what is on the wire.
LEMMA QuietStep ==
  ASSUME Streams, Grants,
         UNCHANGED <<socket, buffered, inbound, unseen, inOrder, frames, granted>>,
         Writable(socket)' <=> Writable(socket),
         heard' \subseteq Requests \union {Declined},
         \A r \in Requests : call'[r] = "ok" => call[r] = "ok"
  PROVE  Streams' /\ Grants'
  BY DEF Streams, Grants, OwnAnswer

\* A step after which no socket is open.
LEMMA GoneStep ==
  ASSUME Streams, Grants,
         ~Writable(socket)', inbound' = <<>>, unseen' = <<>>,
         buffered' \in Seq(Bytes), socket' = 0 => buffered' = <<>>,
         inOrder' = TRUE, UNCHANGED <<frames, granted>>,
         heard' \subseteq Requests \union {Declined},
         \A r \in Requests : call'[r] = "ok" => call[r] = "ok" \/ r \in granted
  PROVE  Streams' /\ Grants'
  <1>1. <<>> \in Seq(Bytes) /\ <<>> \in Seq(Messages \union {Garbage})
    BY EmptySeq
  <1>2. Streams'
    BY <1>1 DEF Streams
  <1>3. Len(<<>>) = 0
    OBVIOUS
  <1>4. Grants'
    BY <1>3 DEF Grants, OwnAnswer
  <1> QED
    BY <1>2, <1>4

LEMMA ConnectKeepsStreams ==
  ASSUME ClientInvariant, Connect \/ OpenFails PROVE Streams' /\ Grants'
  <1> USE DEF ClientInvariant
  <1>1. MaxSockets \in Nat
    BY ClientAssumption
  <1>2. UNCHANGED <<socket, buffered, call, inbound, unseen, inOrder, frames, granted, heard>>
    BY DEF Connect, OpenFails, routerVars
  <1>3. Writable(socket)' <=> Writable(socket)
    <2>1. CASE Connect
      <3>1. PICK n \in 0..MaxSockets : /\ n = Current /\ n < MaxSockets
                                       /\ \A s \in Sockets : s <= n <=> link[s] # "unused"
        BY <2>1, CurrentIs DEF Connect, Connection
      <3>2. link' = [link EXCEPT ![n + 1] = "opening"] /\ n + 1 \in Sockets /\ link[n + 1] = "unused"
        BY <1>1, <2>1, <3>1 DEF Connect, Sockets
      <3>3. socket # n + 1
        BY <3>2 DEF Connection, SocketsOwned, Sockets
      <3> QED
        BY <1>1, <1>2, <3>2, <3>3 DEF Writable, Connection, ConnectionTypes, Sockets
    <2>2. CASE OpenFails
      <3>1. link' = [link EXCEPT ![connecting] = "closed"] /\ link[connecting] = "opening"
        BY <2>2 DEF OpenFails
      <3>2. socket # 0 => socket # connecting
        BY <3>1 DEF Connection, SocketsOwned
      <3> QED
        BY <1>1, <1>2, <3>1, <3>2 DEF Writable, Connection, ConnectionTypes, Sockets
    <2> QED
      BY <2>1, <2>2
  <1>4. heard' \subseteq Requests \union {Declined}
    BY <1>2 DEF Grants
  <1> QED
    BY <1>2, <1>3, <1>4, QuietStep

LEMMA OpensKeepsStreams ==
  ASSUME ClientInvariant, Opens PROVE Streams' /\ Grants'
  <1> USE DEF ClientInvariant
  <1>1. MaxSockets \in Nat
    BY ClientAssumption
  <1>2. /\ connecting # 0 /\ link[connecting] = "opening"
        /\ \A s \in Sockets : link[s] # "destroyed"
        /\ call' = [call EXCEPT ![connecting] = "waiting"] /\ heard' = {connecting}
        /\ UNCHANGED <<buffered, inbound, unseen, inOrder, frames, granted>>
    BY DEF Opens
  <1>3. connecting \in Sockets /\ connecting \in Requests
    BY <1>1, <1>2 DEF Requests, Sockets, Connection, ConnectionTypes
  <1>4. socket = 0 /\ ~Writable(socket)
    BY <1>1, <1>2 DEF Connection, ConnectionTypes, ConnectWaits, SocketsOwned, Writable, Sockets
  <1>5. buffered = <<>> /\ inbound = <<>> /\ unseen = <<>>
    BY <1>4 DEF Streams
  <1>6. HeaderLength + MaxFrame > 0 /\ Len(<<>>) = 0
    BY FramingAssumption
  <1>9. OnWire(Garbage, <<>>, <<>> \o <<>>)
    <2>1. Ending(Garbage, <<>>, <<>>) /\ <<>> \in Seq(Messages) /\ Wire(<<>>) = <<>>
      BY EmptySeq, WireBytes DEF Ending
    <2>2. <<>> \o <<>> = <<>>
      OBVIOUS
    <2>3. PICK none : none = <<>>
      OBVIOUS
    <2>4. /\ none \in Seq(Messages) /\ Ending(Garbage, none, none)
          /\ none = none \o none /\ none \o none = Wire(none) \o none
      BY <2>1, <2>2, <2>3
    <2>5. OnWire(Garbage, none, none \o none)
      BY <2>4 DEF OnWire
    <2> QED
      BY <2>3, <2>5
  <1>7. Streams'
    BY <1>2, <1>5, <1>6, <1>9 DEF Streams
  <1>8. Grants'
    BY <1>2, <1>3 DEF Grants, OwnAnswer, Connection, ConnectionTypes
  <1> QED
    BY <1>7, <1>8

LEMMA RequestKeepsStreams ==
  ASSUME ClientInvariant, NEW r \in Calls, Request(r) PROVE Streams' /\ Grants'
  <1> USE DEF ClientInvariant
  <1>1. /\ UNCHANGED <<link, socket, buffered, inbound, unseen, inOrder, frames, granted>>
        /\ heard' \subseteq heard \union {r}
        /\ call' = [call EXCEPT ![r] = "waiting"] \/ call' = [call EXCEPT ![r] = "failed"]
    BY DEF Request
  <1>2. \A q \in Requests : call'[q] = "ok" => call[q] = "ok"
    BY <1>1 DEF Connection, ConnectionTypes
  <1>3. heard' \subseteq Requests \union {Declined}
    BY <1>1 DEF Grants, Requests
  <1>4. Writable(socket)' <=> Writable(socket)
    BY <1>1 DEF Writable
  <1> QED
    BY <1>1, <1>2, <1>3, <1>4, QuietStep

LEMMA TimeoutKeepsStreams ==
  ASSUME ClientInvariant, Connection', NEW r \in Requests, RequestTimesOut(r)
  PROVE  Streams' /\ Grants'
  <1> USE DEF ClientInvariant
  <1>1. /\ r \in pending /\ HandlerEnds({}, {r}, link, socket, clientId, buffered)
        /\ OnTheWay(inbound, unseen) /\ UNCHANGED <<frames, heard, granted, inOrder>>
    BY DEF RequestTimesOut
  <1>2. PICK rest, ok, bad : rest = buffered /\ ok = {} /\ bad = {r}
    OBVIOUS
  <1>3. /\ Answered(ok, bad)
        /\ \/ connecting \notin ok \union bad /\ UNCHANGED <<link, connecting, socket, clientId>>
              /\ buffered' = rest
           \/ /\ connecting \in ok /\ connecting' = 0 /\ clientId' = socket
              /\ UNCHANGED <<link, socket>> /\ pending' = {} /\ buffered' = rest
           \/ /\ connecting \in bad /\ connecting' = 0 /\ clientId' = 0 /\ socket' = 0
              /\ connecting = socket /\ link' = [link EXCEPT ![socket] = "destroyed"]
              /\ pending' = {} /\ buffered' = <<>>
    BY <1>1, <1>2, SomeSettled
  <1>4. \A q \in Requests : call'[q] = "ok" => call[q] = "ok"
    BY <1>2, <1>3, AnsweredWaits
  <1>5. heard' \subseteq Requests \union {Declined}
    BY <1>1 DEF Grants
  <1>6. Writable(socket)
    BY <1>1 DEF Connection, NoRequestStranded
  <1>7. CASE UNCHANGED <<link, socket>> /\ buffered' = rest
    <2>1. Writable(socket)'
      BY <1>6, <1>7 DEF Writable
    <2>2. inbound' = inbound /\ unseen' = unseen
      BY <1>1, <2>1, OnTheWayIs
    <2> QED
      BY <1>1, <1>2, <1>4, <1>5, <1>6, <1>7, <2>1, <2>2, QuietStep
  <1>8. CASE socket' = 0 /\ buffered' = <<>>
    <2>1. ~Writable(socket)'
      BY <1>8 DEF Writable
    <2>2. inbound' = <<>> /\ unseen' = <<>>
      BY <1>1, <2>1, OnTheWayIs
    <2>3. buffered' \in Seq(Bytes) /\ inOrder' = TRUE
      BY <1>1, <1>8 DEF Streams
    <2> QED
      BY <1>1, <1>4, <1>5, <1>8, <2>1, <2>2, <2>3, GoneStep
  <1> QED
    BY <1>3, <1>7, <1>8

LEMMA DisposeKeepsStreams ==
  ASSUME ClientInvariant, Connection', Dispose PROVE Streams' /\ Grants'
  <1> USE DEF ClientInvariant
  <1>1. MaxSockets \in Nat
    BY ClientAssumption
  <1>2. PICK links : links = DisposedLinks
    OBVIOUS
  <1>3. /\ HandlerEnds({}, pending, links, 0, 0, <<>>)
        /\ OnTheWay(inbound, unseen) /\ UNCHANGED <<frames, heard, granted, inOrder>>
    BY <1>2 DEF Dispose
  <1>4. connecting # 0 => links[connecting] # "open"
    BY <1>1, <1>2 DEF DisposedLinks, Destroyed, Connection, ConnectionTypes, ConnectWaits,
                      Writable, Sockets
  <1>5. Answered({}, pending) /\ socket' = 0 /\ buffered' = <<>>
    BY <1>3, <1>4, AllRejected
  <1>6. \A q \in Requests : call'[q] = "ok" => call[q] = "ok"
    <2>1. PICK ok, bad : ok = {} /\ bad = pending
      OBVIOUS
    <2> QED
      BY <1>5, <2>1, AnsweredWaits
  <1>7. ~Writable(socket)'
    BY <1>5 DEF Writable
  <1>8. inbound' = <<>> /\ unseen' = <<>>
    BY <1>3, <1>7, OnTheWayIs
  <1>9. buffered' \in Seq(Bytes) /\ inOrder' = TRUE /\ heard' \subseteq Requests \union {Declined}
    BY <1>3, <1>5 DEF Streams, Grants
  <1> QED
    BY <1>3, <1>5, <1>6, <1>7, <1>8, <1>9, GoneStep

LEMMA ClosingKeepsStreams ==
  ASSUME ClientInvariant, Connection', NEW s \in Sockets, SocketCloses(s)
  PROVE  Streams' /\ Grants'
  <1> USE DEF ClientInvariant
  <1>1. MaxSockets \in Nat
    BY ClientAssumption
  <1>2. PICK links : links = [link EXCEPT ![s] = "closed"]
    OBVIOUS
  <1>3. \A q \in Sockets : links[q] = IF q = s THEN "closed" ELSE link[q]
    BY <1>2 DEF Connection, ConnectionTypes
  <1>4. /\ link[s] \in {"open", "destroyed"} /\ OnTheWay(inbound, unseen)
        /\ UNCHANGED <<frames, heard, granted, inOrder>>
    BY DEF SocketCloses
  <1>5. heard' \subseteq Requests \union {Declined}
    BY <1>4 DEF Grants
  <1>6. CASE s = socket
    <2>1. HandlerEnds({}, pending, links, 0, 0, <<>>)
      BY <1>2, <1>6 DEF SocketCloses, IdAfterLoss, RestAfterLoss
    <2>2. connecting # 0 => links[connecting] # "open"
      BY <1>1, <1>3, <1>6 DEF Connection, ConnectionTypes, ConnectWaits, Sockets
    <2>3. Answered({}, pending) /\ socket' = 0 /\ buffered' = <<>>
      BY <2>1, <2>2, AllRejected
    <2>4. \A q \in Requests : call'[q] = "ok" => call[q] = "ok"
      <3>1. PICK ok, bad : ok = {} /\ bad = pending
        OBVIOUS
      <3> QED
        BY <2>3, <3>1, AnsweredWaits
    <2>5. ~Writable(socket)'
      BY <2>3 DEF Writable
    <2>6. inbound' = <<>> /\ unseen' = <<>>
      BY <1>4, <2>5, OnTheWayIs
    <2>7. buffered' \in Seq(Bytes) /\ inOrder' = TRUE
      BY <1>4, <2>3 DEF Streams
    <2> QED
      BY <1>4, <1>5, <2>3, <2>4, <2>5, <2>6, <2>7, GoneStep
  <1>7. CASE s # socket
    <2>1. link' = links /\ UNCHANGED <<socket, buffered, call>>
      BY <1>2, <1>7 DEF SocketCloses
    <2>2. Writable(socket)' <=> Writable(socket)
      BY <1>1, <1>3, <1>7, <2>1 DEF Writable, Connection, ConnectionTypes, Sockets
    <2>3. inbound' = inbound /\ unseen' = unseen
      BY <1>4, <2>2, OnTheWayIs DEF Streams
    <2> QED
      BY <1>4, <1>5, <2>1, <2>2, <2>3, QuietStep
  <1> QED
    BY <1>6, <1>7

\* A message, or bytes that are none, at the end of a proper stream.
LEMMA WireGrows ==
  ASSUME NEW bad, NEW u \in Seq(Messages)
  PROVE  /\ \A m \in Messages : OnWire(bad, Append(u, m), Wire(u) \o Frame(m))
         /\ \A bytes \in Faulty : OnWire(bad, Append(u, bad), Wire(u) \o bytes)
  <1>1. ASSUME NEW m \in Messages PROVE OnWire(bad, Append(u, m), Wire(u) \o Frame(m))
    <2>1. PICK v \in Seq(Messages) : v = Append(u, m)
      BY AppendIs
    <2>2. Wire(v) = Wire(u) \o Frame(m) /\ Wire(v) \in Seq(Bytes)
      BY <2>1, WireProperties, WireBytes
    <2>3. v \o <<>> = v /\ Wire(v) \o <<>> = Wire(v)
      BY <2>2, ConcatEmptySeq
    <2>4. PICK none : none = <<>> /\ Ending(bad, none, none)
      BY DEF Ending
    <2>5. v = v \o none /\ Wire(v) = Wire(v) \o none
      BY <2>3, <2>4
    <2>6. OnWire(bad, v, Wire(v))
      BY <2>4, <2>5 DEF OnWire
    <2> QED
      BY <2>1, <2>2, <2>6
  <1>2. ASSUME NEW bytes \in Faulty PROVE OnWire(bad, Append(u, bad), Wire(u) \o bytes)
    <2>1. PICK M : M = Messages \union {bad}
      OBVIOUS
    <2>2. u \in Seq(M) /\ bad \in M
      BY <2>1, SeqMonotonic
    <2>3. PICK last : last = <<bad>>
      OBVIOUS
    <2>4. Append(u, bad) = u \o last
      BY <2>2, <2>3, AppendJoins
    <2>5. Ending(bad, last, bytes)
      BY <1>2, <2>3 DEF Ending
    <2> QED
      BY <2>4, <2>5 DEF OnWire
  <1> QED
    BY <1>1, <1>2

LEMMA EmitsKeepsStreams ==
  ASSUME ClientInvariant, NEW bytes, NEW m, Emits(bytes, m),
         (m \in Messages /\ bytes = Frame(m)) \/ (m = Garbage /\ bytes \in Faulty),
         granted \subseteq granted', granted' \subseteq Requests,
         \A r \in Requests : m = Response(r, "success") => r \in granted'
  PROVE  Streams' /\ Grants'
  <1> USE DEF ClientInvariant
  <1>1. /\ \E s \in Sockets : link[s] = "open"
        /\ frames < MaxFrames /\ Garbage \notin ToSet(unseen) /\ frames' = frames + 1
        /\ inbound' = inbound \o bytes /\ unseen' = Append(unseen, m)
        /\ UNCHANGED <<link, socket, buffered, call, heard, inOrder>>
    BY DEF Emits, clientVars
  <1>2. Writable(socket) /\ Writable(socket)'
    BY <1>1, OpenIsWritable DEF Writable
  <1>3. /\ buffered \in Seq(Bytes) /\ inbound \in Seq(Bytes)
        /\ unseen \in Seq(Messages \union {Garbage}) /\ OnWire(Garbage, unseen, buffered \o inbound)
    BY <1>2 DEF Streams
  <1>4. \A i \in 1..Len(unseen) : unseen[i] # Garbage
    BY <1>1, <1>3 DEF ToSet
  <1>5. unseen \in Seq(Messages) /\ buffered \o inbound = Wire(unseen)
    BY <1>3, <1>4, ProperStream
  <1>6. bytes \in Seq(Bytes)
    BY FrameBytes, FaultyBytes
  <1>7. OnWire(Garbage, Append(unseen, m), Wire(unseen) \o bytes)
    <2>1. PICK u \in Seq(Messages) : u = unseen
      BY <1>5
    <2>2. /\ \A k \in Messages : OnWire(Garbage, Append(u, k), Wire(u) \o Frame(k))
          /\ \A b \in Faulty : OnWire(Garbage, Append(u, Garbage), Wire(u) \o b)
      BY WireGrows
    <2> QED
      BY <2>1, <2>2
  <1>8. buffered \o (inbound \o bytes) = Wire(unseen) \o bytes
    <2>1. PICK a \in Seq(Bytes), b \in Seq(Bytes), c \in Seq(Bytes) :
            a = buffered /\ b = inbound /\ c = bytes
      BY <1>3, <1>6
    <2>2. a \o (b \o c) = (a \o b) \o c
      BY ConcatAssociative
    <2> QED
      BY <1>5, <2>1, <2>2
  <1>9. /\ Append(unseen, m) \in Seq(Messages \union {Garbage})
        /\ Len(Append(unseen, m)) = Len(unseen) + 1
        /\ \A i \in 1..Len(unseen) : Append(unseen, m)[i] = unseen[i]
        /\ Append(unseen, m)[Len(unseen) + 1] = m
    BY <1>3, AppendIs
  <1>10. Streams'
    <2>1. inbound' \in Seq(Bytes)
      BY <1>1, <1>3, <1>6, ConcatProperties
    <2>2. frames' \in 0..MaxFrames
      BY <1>1, ClientAssumption DEF Streams
    <2>3. OnWire(Garbage, unseen', buffered' \o inbound')
      BY <1>1, <1>7, <1>8
    <2>4. Len(buffered') < HeaderLength + MaxFrame /\ (socket' = 0 => buffered' = <<>>)
      BY <1>1, <1>2 DEF Streams
    <2>5. inOrder' = TRUE /\ unseen' \in Seq(Messages \union {Garbage}) /\ buffered' \in Seq(Bytes)
      BY <1>1, <1>3, <1>9 DEF Streams
    <2> QED
      BY <1>2, <2>1, <2>2, <2>3, <2>4, <2>5 DEF Streams
  <1>11. Grants'
    <2>1. Len(unseen) \in Nat
      BY <1>3
    <2>2. ASSUME NEW i \in 1..(Len(unseen) + 1), NEW r \in Requests,
                 unseen'[i] = Response(r, "success")
          PROVE  r \in granted'
      <3>1. CASE i \in 1..Len(unseen)
        BY <1>1, <1>9, <2>2, <3>1 DEF Grants
      <3>2. CASE i = Len(unseen) + 1
        BY <1>1, <1>9, <2>2, <3>2
      <3> QED
        BY <2>1, <3>1, <3>2
    <2>3. \A r \in Requests : call'[r] = "ok" => r \in granted'
      BY <1>1 DEF Grants, OwnAnswer
    <2> QED
      BY <1>1, <1>9, <2>2, <2>3 DEF Grants, OwnAnswer
  <1> QED
    BY <1>10, <1>11

LEMMA RouterKeepsStreams ==
  ASSUME ClientInvariant, RouterSends \/ RouterFails PROVE Streams' /\ Grants'
  <1>1. granted \subseteq Requests /\ heard \subseteq Requests \union {Declined}
    BY DEF ClientInvariant, Grants
  <1>2. CASE RouterSends
    <2>1. PICK m \in (UNION {ResponsesTo(r) : r \in heard \ {Declined}}) \union Unasked :
            /\ Emits(Frame(m), m)
            /\ granted' = granted \union {r \in heard : m = Response(r, "success")}
      BY <1>2 DEF RouterSends
    <2>2. m \in Messages
      BY <1>1, ClientAssumption
    <2>3. ASSUME NEW r \in Requests, m = Response(r, "success") PROVE r \in heard
      <3>1. m.type = "response" /\ m.to = r
        BY <2>3 DEF Response
      <3>2. m \notin Unasked
        BY <3>1 DEF Unasked, Discovery, Null
      <3>3. PICK q \in heard \ {Declined} : m \in ResponsesTo(q)
        BY <3>2
      <3>4. m.to = q
        BY <3>3 DEF ResponsesTo, Response
      <3> QED
        BY <3>1, <3>3, <3>4
    <2>4. \A r \in heard : m = Response(r, "success") => r \in Requests
      <3> SUFFICES ASSUME NEW r \in heard, m = Response(r, "success") PROVE r \in Requests
        OBVIOUS
      <3>1. m.type = "response" /\ m.to = r
        BY DEF Response
      <3>2. m \notin Unasked
        BY <3>1 DEF Unasked, Discovery, Null
      <3>3. PICK q \in heard \ {Declined} : m \in ResponsesTo(q)
        BY <3>2
      <3>4. m.to = q
        BY <3>3 DEF ResponsesTo, Response
      <3> QED
        BY <1>1, <3>1, <3>3, <3>4
    <2>5. /\ granted \subseteq granted' /\ granted' \subseteq Requests
          /\ \A r \in Requests : m = Response(r, "success") => r \in granted'
      BY <1>1, <2>1, <2>3, <2>4
    <2> QED
      BY <2>1, <2>2, <2>5, EmitsKeepsStreams
  <1>3. CASE RouterFails
    <2>1. PICK bytes \in Faulty : Emits(bytes, Garbage) /\ granted' = granted
      BY <1>3 DEF RouterFails, Faulty
    <2>2. \A r \in Requests : Garbage # Response(r, "success")
      BY DEF Garbage, Response
    <2> QED
      BY <1>1, <2>1, <2>2, EmitsKeepsStreams
  <1> QED
    BY <1>2, <1>3

\* A chunk and what is still to come after it are what there was.
LEMMA SplitSeq ==
  ASSUME NEW S, NEW a \in Seq(S), NEW b \in Seq(S), NEW k \in 1..Len(b)
  PROVE  /\ a \o SubSeq(b, 1, k) \in Seq(S)
         /\ (a \o SubSeq(b, 1, k)) \o Dropped(b, k) = a \o b
  <1>1. PICK n \in Nat : n = Len(b)
    OBVIOUS
  <1>2. k \in 1..n
    BY <1>1
  <1>3. /\ SubSeq(b, 1, k) \in Seq(S) /\ Len(SubSeq(b, 1, k)) = k
        /\ \A i \in 1..k : SubSeq(b, 1, k)[i] = b[i]
    <2>1. \A i \in 1..k : b[i] \in S
      BY <1>1, <1>2
    <2>2. 1 \in Int /\ k \in Int /\ 1 <= k
      BY <1>2
    <2>3. /\ SubSeq(b, 1, k) \in Seq(S)
          /\ Len(SubSeq(b, 1, k)) = IF 1 <= k THEN k - 1 + 1 ELSE 0
          /\ \A i \in 1..(k - 1 + 1) : SubSeq(b, 1, k)[i] = b[1 + i - 1]
      BY <2>1, <2>2, SubSeqProperties
    <2> QED
      BY <2>2, <2>3
  <1>4. PICK first \in Seq(S) : first = SubSeq(b, 1, k)
    BY <1>3
  <1>5. Len(first) = k /\ \A i \in 1..k : first[i] = b[i]
    BY <1>3, <1>4
  <1>6. PICK rest \in Seq(S) : /\ rest = Dropped(b, k) /\ Len(rest) = n - k
                               /\ \A i \in 1..(n - k) : rest[i] = b[k + i]
    <2>1. k \in Nat /\ k <= Len(b)
      BY <1>1, <1>2
    <2>2. /\ Dropped(b, k) \in Seq(S) /\ Len(Dropped(b, k)) = Len(b) - k
          /\ \A i \in 1..(Len(b) - k) : Dropped(b, k)[i] = b[k + i]
      BY <2>1, DroppedIs
    <2> QED
      BY <1>1, <2>2
  <1>7. PICK whole : whole = first \o rest
    OBVIOUS
  <1>8. /\ whole \in Seq(S) /\ Len(whole) = k + (n - k)
        /\ \A i \in 1..(k + (n - k)) : whole[i] = IF i <= k THEN first[i] ELSE rest[i - k]
    <2>1. /\ first \o rest \in Seq(S) /\ Len(first \o rest) = Len(first) + Len(rest)
          /\ \A i \in 1..(Len(first) + Len(rest)) :
               (first \o rest)[i] = IF i <= Len(first) THEN first[i] ELSE rest[i - Len(first)]
      BY ConcatProperties
    <2> QED
      BY <1>5, <1>6, <1>7, <2>1
  <1>9. whole = b
    <2>1. Len(whole) = n
      BY <1>2, <1>8
    <2>2. ASSUME NEW i \in 1..n PROVE whole[i] = b[i]
      <3>1. CASE i <= k
        BY <1>2, <1>5, <1>8, <3>1
      <3>2. CASE i > k
        <4>1. i - k \in 1..(n - k) /\ k + (i - k) = i
          BY <1>2, <3>2
        <4>2. rest[i - k] = b[k + (i - k)]
          BY <1>6, <4>1
        <4>3. whole[i] = rest[i - k]
          BY <1>2, <1>8, <3>2
        <4> QED
          BY <4>1, <4>2, <4>3
      <3> QED
        BY <1>2, <3>1, <3>2
    <2> QED
      BY <1>1, <1>8, <2>1, <2>2, SeqEqual
  <1>10. a \o first \in Seq(S) /\ (a \o first) \o rest = a \o (first \o rest)
    <2>1. a \o first \in Seq(S)
      BY ConcatProperties
    <2>2. (a \o first) \o rest = a \o (first \o rest)
      BY ConcatAssociative
    <2> QED
      BY <2>1, <2>2
  <1> QED
    BY <1>4, <1>6, <1>7, <1>9, <1>10

\* What handleData leaves when no frame was bad, and when one was.
LEMMA ChunkDispatched ==
  ASSUME ClientInvariant, Connection', NEW d \in Decodings, NEW tail \in Seq(Bytes), Writable(socket),
         \A i \in 1..Len(d.messages) : i \in 1..Len(unseen) /\ d.messages[i] = unseen[i],
         Len(d.rest) < HeaderLength + MaxFrame,
         NEW left, left = Dropped(unseen, Len(d.messages)), OnWire(Garbage, left, d.rest \o tail),
         Dispatch(d.messages, d.rest), OnTheWay(tail, left),
         inOrder' = TRUE, UNCHANGED <<frames, granted>>
  PROVE  Streams' /\ Grants'
  <1> USE DEF ClientInvariant
  <1>1. d.messages \in Seq(Messages) /\ d.rest \in Seq(Bytes) /\ <<>> \in Seq(Bytes)
    BY EmptySeq DEF Decodings
  <1>2. /\ left \in Seq(Messages \union {Garbage})
        /\ \A i \in 1..Len(left) : Len(d.messages) + i \in 1..Len(unseen)
                                   /\ left[i] = unseen[Len(d.messages) + i]
    <2>1. PICK w \in Seq(Messages \union {Garbage}) : w = unseen
      BY DEF Streams
    <2>2. PICK n \in Nat : n = Len(d.messages)
      BY <1>1
    <2>3. n <= Len(w)
      BY <2>1, <2>2
    <2>4. /\ Dropped(w, n) \in Seq(Messages \union {Garbage}) /\ Len(Dropped(w, n)) = Len(w) - n
          /\ \A i \in 1..(Len(w) - n) : Dropped(w, n)[i] = w[n + i]
      BY <2>3, DroppedIs
    <2>5. left = Dropped(w, n)
      BY <2>1, <2>2
    <2>6. Len(w) \in Nat
      OBVIOUS
    <2>7. \A i \in 1..(Len(w) - n) : n + i \in 1..Len(w)
      BY <2>6
    <2> QED
      BY <2>1, <2>2, <2>4, <2>5, <2>7
  <1>3. heard' \subseteq Requests \union {Declined}
    BY DEF Dispatch, Grants
  <1>4. SettledBy(d.messages, d.rest)
    BY DispatchSettles
  <1>5. PICK ok, bad :
          /\ ok \intersect bad = {} /\ ok \union bad \subseteq pending
          /\ HandlerEnds(ok, bad, link, socket, clientId, d.rest)
          /\ \A r \in ok : \E i \in 1..Len(d.messages) :
               d.messages[i].type = "response" /\ d.messages[i].to = r /\ d.messages[i].is = "success"
    BY <1>1, <1>4 DEF SettledBy
  <1>6. ok \subseteq granted
    <2> SUFFICES ASSUME NEW r \in ok PROVE r \in granted
      OBVIOUS
    <2>1. r \in Requests
      BY <1>5 DEF Connection, ConnectionTypes
    <2>2. PICK i \in 1..Len(d.messages) :
            d.messages[i].type = "response" /\ d.messages[i].to = r /\ d.messages[i].is = "success"
      BY <1>5
    <2>3. PICK m \in Messages : m = d.messages[i] /\ m = unseen[i] /\ i \in 1..Len(unseen)
      BY <1>1, <2>2
    <2>4. m = Response(r, "success")
      BY <2>2, <2>3, MessagesAre
    <2> QED
      BY <2>1, <2>3, <2>4 DEF Grants
  <1>7. \A r \in Requests : call'[r] = "ok" => call[r] = "ok" \/ r \in granted
    <2>1. Answered(ok, bad)
      BY <1>5, SomeSettled
    <2> QED
      BY <1>6, <2>1, AnsweredWaits
  <1>8. \/ UNCHANGED <<link, socket>> /\ buffered' = d.rest
        \/ socket' = 0 /\ buffered' = <<>>
    <2>1. PICK rest : rest = d.rest
      OBVIOUS
    <2>2. HandlerEnds(ok, bad, link, socket, clientId, rest)
      BY <1>5, <2>1
    <2>3. \/ UNCHANGED <<link, socket>> /\ buffered' = rest
          \/ socket' = 0 /\ buffered' = <<>>
      BY <1>5, <2>2, SomeSettled
    <2> QED
      BY <2>1, <2>3
  <1>9. CASE UNCHANGED <<link, socket>> /\ buffered' = d.rest
    <2>1. Writable(socket)' /\ socket' # 0
      BY <1>9 DEF Writable
    <2>2. inbound' = tail /\ unseen' = left
      BY <2>1, OnTheWayIs
    <2>3. Streams'
      BY <1>1, <1>2, <1>9, <2>1, <2>2 DEF Streams
    <2>4. Grants'
      BY <1>2, <1>3, <1>7, <2>2 DEF Grants, OwnAnswer
    <2> QED
      BY <2>3, <2>4
  <1>10. CASE socket' = 0 /\ buffered' = <<>>
    <2>1. ~Writable(socket)'
      BY <1>10 DEF Writable
    <2>2. inbound' = <<>> /\ unseen' = <<>>
      BY <2>1, OnTheWayIs
    <2> QED
      BY <1>1, <1>3, <1>7, <1>10, <2>1, <2>2, GoneStep
  <1> QED
    BY <1>8, <1>9, <1>10

LEMMA ChunkRefused ==
  ASSUME ClientInvariant, Connection', NEW d \in Decodings, NEW tail, NEW left, Writable(socket),
         HandlerEnds({}, pending, Destroyed(link, socket), socket, clientId, d.rest),
         OnTheWay(tail, left), inOrder' = TRUE, UNCHANGED <<frames, granted, heard>>
  PROVE  Streams' /\ Grants'
  <1> USE DEF ClientInvariant
  <1>1. PICK links, same, id, rest :
          links = Destroyed(link, socket) /\ same = socket /\ id = clientId /\ rest = d.rest
    OBVIOUS
  <1>2. HandlerEnds({}, pending, links, same, id, rest) /\ rest \in Seq(Bytes) /\ <<>> \in Seq(Bytes)
    BY <1>1, EmptySeq DEF Decodings
  <1>3. /\ \A s \in Sockets : links[s] # "open"
        /\ socket \in Sockets
    BY <1>1, ClientAssumption DEF Destroyed, Connection, ConnectionTypes, SocketsOwned, Writable, Sockets
  <1>4. connecting # 0 => links[connecting] # "open"
    BY <1>3, ClientAssumption DEF Connection, ConnectionTypes, Sockets
  <1>5. /\ Answered({}, pending) /\ link' = links
        /\ \/ socket' = 0 /\ buffered' = <<>>
           \/ socket' = same /\ buffered' \in {rest, <<>>}
    BY <1>2, <1>4, AllRejected
  <1>6. \A q \in Requests : call'[q] = "ok" => call[q] = "ok"
    <2>1. PICK ok, bad : ok = {} /\ bad = pending
      OBVIOUS
    <2> QED
      BY <1>5, <2>1, AnsweredWaits
  <1>7. ~Writable(socket)'
    BY <1>1, <1>3, <1>5 DEF Writable
  <1>8. inbound' = <<>> /\ unseen' = <<>>
    BY <1>7, OnTheWayIs
  <1>9. buffered' \in Seq(Bytes) /\ (socket' = 0 => buffered' = <<>>)
    <2>1. socket # 0
      BY <1>3, ClientAssumption DEF Sockets
    <2>2. CASE socket' = 0 /\ buffered' = <<>>
      BY <1>2, <2>2
    <2>3. CASE socket' = same /\ buffered' \in {rest, <<>>}
      <3>1. socket' # 0
        BY <1>1, <2>1, <2>3
      <3>2. CASE buffered' = rest
        BY <1>2, <3>1, <3>2
      <3>3. CASE buffered' = <<>>
        BY <1>2, <3>1, <3>3
      <3> QED
        BY <2>3, <3>2, <3>3
    <2> QED
      BY <1>5, <2>2, <2>3
  <1>10. heard' \subseteq Requests \union {Declined}
    BY DEF Grants
  <1> QED
    BY <1>6, <1>7, <1>8, <1>9, <1>10, GoneStep

LEMMA DataKeepsStreams ==
  ASSUME ClientInvariant, Connection', NEW k \in 1..Len(inbound), DataArrives(k)
  PROVE  Streams' /\ Grants'
  <1>1. PICK d : /\ d = Drain(buffered \o SubSeq(inbound, 1, k))
                 /\ \/ ~d.failed /\ Dispatch(d.messages, d.rest)
                    \/ /\ d.failed /\ UNCHANGED heard
                       /\ HandlerEnds({}, pending, Destroyed(link, socket), socket, clientId, d.rest)
                 /\ OnTheWay(Dropped(inbound, k), Dropped(unseen, Len(d.messages)))
                 /\ inOrder' = (inOrder /\ IsPrefix(d.messages, unseen))
    BY Zenon DEF DataArrives, Dropped
  <1>2. Writable(socket) /\ UNCHANGED <<frames, granted>>
    BY DEF DataArrives
  <1>3. /\ buffered \in Seq(Bytes) /\ inbound \in Seq(Bytes)
        /\ OnWire(Garbage, unseen, buffered \o inbound) /\ inOrder = TRUE
    BY <1>2 DEF ClientInvariant, Streams
  <1>4. PICK a \in Seq(Bytes), b \in Seq(Bytes) : a = buffered /\ b = inbound
    BY <1>3
  <1>5. k \in 1..Len(b)
    BY <1>4
  <1>6. /\ a \o SubSeq(b, 1, k) \in Seq(Bytes)
        /\ (a \o SubSeq(b, 1, k)) \o Dropped(b, k) = a \o b
    BY <1>5, SplitSeq
  <1>7. Dropped(b, k) \in Seq(Bytes)
    <2>1. k \in Nat /\ k <= Len(b)
      BY <1>5
    <2> QED
      BY <2>1, DroppedIs
  <1>8. PICK bytes \in Seq(Bytes), tail \in Seq(Bytes), v \in {unseen} :
          bytes = a \o SubSeq(b, 1, k) /\ tail = Dropped(b, k) /\ v = unseen
    BY <1>6, <1>7
  <1>9. d = Drain(bytes) /\ tail = Dropped(inbound, k) /\ OnWire(Garbage, v, bytes \o tail)
    BY <1>1, <1>3, <1>4, <1>6, <1>8
  <1>10. /\ d \in Decodings
         /\ IsPrefix(d.messages, v)
         /\ \A i \in 1..Len(d.messages) : i \in 1..Len(v) /\ d.messages[i] = v[i]
         /\ ~d.failed => /\ Len(d.rest) < HeaderLength + MaxFrame
                         /\ OnWire(Garbage, Dropped(v, Len(d.messages)), d.rest \o tail)
    <2>1. KeepsOrder(Garbage, v, tail, Drain(bytes))
      BY <1>9, DrainKeepsOrder
    <2>2. KeepsOrder(Garbage, v, tail, d)
      BY <1>9, <2>1, Zenon
    <2> QED
      BY <2>2, Zenon DEF KeepsOrder
  <1>11. inOrder' = TRUE
    BY <1>1, <1>3, <1>8, <1>10
  <1>12. PICK left : left = Dropped(v, Len(d.messages))
    OBVIOUS
  <1>13. OnTheWay(tail, left)
    BY <1>1, <1>8, <1>9, <1>12
  <1>14. CASE ~d.failed /\ Dispatch(d.messages, d.rest)
    <2>1. /\ \A i \in 1..Len(d.messages) : i \in 1..Len(unseen) /\ d.messages[i] = unseen[i]
          /\ left = Dropped(unseen, Len(d.messages)) /\ OnWire(Garbage, left, d.rest \o tail)
          /\ Len(d.rest) < HeaderLength + MaxFrame
      BY <1>8, <1>10, <1>12, <1>14
    <2> QED
      BY <1>2, <1>10, <1>11, <1>13, <1>14, <2>1, ChunkDispatched
  <1>15. CASE /\ d.failed /\ UNCHANGED heard
              /\ HandlerEnds({}, pending, Destroyed(link, socket), socket, clientId, d.rest)
    BY <1>2, <1>10, <1>11, <1>13, <1>15, ChunkRefused
  <1> QED
    BY <1>1, <1>14, <1>15

LEMMA StepKeepsStreams ==
  ASSUME ClientInvariant, Connection', [Next]_vars PROVE Streams' /\ Grants'
  <1>1. CASE Connect \/ OpenFails
    BY <1>1, ConnectKeepsStreams
  <1>2. CASE Opens
    BY <1>2, OpensKeepsStreams
  <1>3. ASSUME NEW r \in Calls, Request(r) PROVE Streams' /\ Grants'
    BY <1>3, RequestKeepsStreams
  <1>4. ASSUME NEW r \in Requests, RequestTimesOut(r) PROVE Streams' /\ Grants'
    BY <1>4, TimeoutKeepsStreams
  <1>5. CASE Dispose
    BY <1>5, DisposeKeepsStreams
  <1>6. ASSUME NEW k \in 1..Len(inbound), DataArrives(k) PROVE Streams' /\ Grants'
    BY <1>6, DataKeepsStreams
  <1>7. ASSUME NEW s \in Sockets, SocketCloses(s) PROVE Streams' /\ Grants'
    BY <1>7, ClosingKeepsStreams
  <1>8. CASE RouterSends \/ RouterFails
    BY <1>8, RouterKeepsStreams
  <1>9. CASE UNCHANGED vars
    <2>1. UNCHANGED <<socket, buffered, inbound, unseen, inOrder, frames, granted, heard, call, link>>
      BY <1>9 DEF vars, clientVars, routerVars
    <2>2. Writable(socket)' <=> Writable(socket)
      BY <2>1 DEF Writable
    <2>3. /\ heard' \subseteq Requests \union {Declined}
          /\ \A r \in Requests : call'[r] = "ok" => call[r] = "ok"
      BY <2>1 DEF ClientInvariant, Grants
    <2> QED
      BY <2>1, <2>2, <2>3, QuietStep DEF ClientInvariant
  <1> QED
    BY <1>1, <1>2, <1>3, <1>4, <1>5, <1>6, <1>7, <1>8, <1>9 DEF Next

\* The connection, what is on the wire and what the router has granted agree
\* all the time (src/ipcClient.ts, FrameDecoder in src/protocol.ts).
THEOREM ClientInvariantHolds == Spec => []ClientInvariant
  <1>1. Init => Streams /\ Grants
    <2> SUFFICES ASSUME Init PROVE Streams /\ Grants
      OBVIOUS
    <2>1. /\ socket = 0 /\ buffered = <<>> /\ inbound = <<>> /\ unseen = <<>>
          /\ frames = 0 /\ heard = {} /\ granted = {} /\ inOrder = TRUE
          /\ call = [r \in Requests |-> "none"]
      BY DEF Init
    <2>2. <<>> \in Seq(Bytes) /\ <<>> \in Seq(Messages \union {Garbage}) /\ Len(<<>>) = 0
      BY EmptySeq
    <2>3. ~Writable(socket)
      BY <2>1 DEF Writable
    <2>4. Streams
      BY <2>1, <2>2, <2>3, ClientAssumption DEF Streams
    <2>5. Grants
      BY <2>1, <2>2 DEF Grants, OwnAnswer
    <2> QED
      BY <2>4, <2>5
  <1>2. ClientInvariant /\ Connection' /\ [Next]_vars => Streams' /\ Grants'
    BY StepKeepsStreams
  <1>3. Connection /\ Streams /\ Grants <=> ClientInvariant
    BY DEF ClientInvariant
  <1> QED
    BY <1>1, <1>2, <1>3, ConnectionHolds, PTL DEF Spec

\* Every variable of the client stays what it is declared to be: in particular
\* the decoder of an open connection never holds as much as the largest frame,
\* so the limit push checks at its end is never hit (src/protocol.ts).
THEOREM TypeCorrect == Spec => []TypeOK
  <1>1. ClientInvariant => TypeOK
    <2> SUFFICES ASSUME ClientInvariant PROVE TypeOK
      OBVIOUS
    <2>1. ConnectionTypes /\ Streams /\ Grants
      BY DEF ClientInvariant, Connection
    <2>2. {connecting, socket, clientId, late} \subseteq 0..MaxSockets
      BY <2>1 DEF ConnectionTypes
    <2>3. {buffered, inbound} \subseteq Seq(Bytes)
      BY <2>1 DEF Streams
    <2>4. /\ Writable(socket) => Len(buffered) < HeaderLength + MaxFrame
          /\ unseen \in Seq(Messages \union {Garbage})
          /\ frames \in 0..MaxFrames /\ inOrder \in BOOLEAN
      BY <2>1 DEF Streams
    <2>5. /\ link \in [Sockets -> {"unused", "opening", "open", "destroyed", "closed"}]
          /\ disposed \in BOOLEAN /\ pending \subseteq Requests
          /\ call \in [Requests -> {"none", "waiting", "ok", "failed"}]
      BY <2>1 DEF ConnectionTypes
    <2>6. granted \subseteq Requests /\ heard \subseteq Requests \union {Declined}
      BY <2>1 DEF Grants
    <2> QED
      BY <2>2, <2>3, <2>4, <2>5, <2>6 DEF TypeOK
  <1> QED
    BY <1>1, ClientInvariantHolds, PTL

\* Messages are dispatched as they were sent, and between the decoder and the
\* socket lie exactly the frames of the others (FrameDecoder, handleData).
THEOREM FramesStayIntact == Spec => []FramesIntact
  <1>1. ClientInvariant => FramesIntact
    <2> SUFFICES ASSUME ClientInvariant PROVE FramesIntact
      OBVIOUS
    <2>1. Streams
      BY DEF ClientInvariant
    <2>2. ASSUME Writable(socket), Garbage \notin ToSet(unseen)
          PROVE  buffered \o inbound = Wire(unseen)
      <3>1. OnWire(Garbage, unseen, buffered \o inbound)
        BY <2>1, <2>2 DEF Streams
      <3>2. \A i \in 1..Len(unseen) : unseen[i] # Garbage
        BY <2>1, <2>2 DEF Streams, ToSet
      <3> QED
        BY <3>1, <3>2, ProperStream
    <2> QED
      BY <2>1, <2>2 DEF FramesIntact, Streams
  <1> QED
    BY <1>1, ClientInvariantHolds, PTL

\* A request that succeeds was granted by the router: answers are matched to the
\* request they name, whatever the connection they come on (RequestCorrelator).
THEOREM OnlyOwnAnswers == Spec => []OwnAnswer
  <1>1. ClientInvariant => OwnAnswer
    BY DEF ClientInvariant, Grants
  <1> QED
    BY <1>1, ClientInvariantHolds, PTL
=============================================================================
