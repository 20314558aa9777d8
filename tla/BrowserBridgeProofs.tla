------------------------ MODULE BrowserBridgeProofs ------------------------
(***************************************************************************)
(* Theorems about BrowserBridge for any number of connections, extensions, *)
(* pairing codes, deliveries, requests and SecretStorage calls under way.  *)
(***************************************************************************)
EXTENDS BrowserBridge, RecursionLemmas, SequenceTheorems, FiniteSetTheorems

Ops == {"storeHash", "storeExtension", "read", "delete", "status"}

\* The handlers that are suspended on behalf of a connection.
HandlerOps == {"storeHash", "storeExtension", "read"}

\* Those of a browser that is being paired: its code is spent.
SpendingOps == {"storeHash", "storeExtension"}

Secrets == [hash : Maybe(Codes), extensionId : Maybe(Extensions)]

\* The SecretStorage calls there can be.
SecretCalls ==
  {call \in [op : Ops, by : Maybe(Conns), code : 0..MaxCodes] :
     /\ call.op \in HandlerOps => call.by \in Conns
     /\ call.op \in SpendingOps => call.code \in Codes}

----------------------------------------------------------------------------
(* The queue of SecretStorage calls                                        *)

\* A step takes "served" calls from the front of the queue and may add one at
\* its end: each call that is left keeps its place among the others.
QueueStep(served, more) ==
  /\ calls' \in Seq(SecretCalls)
  /\ Len(calls') = Len(calls) - served + Len(more)
  /\ \A i \in 1..Len(calls') :
       \/ i + served \in 1..Len(calls) /\ calls'[i] = calls[i + served]
       \/ i = Len(calls) - served + 1 /\ more = <<calls'[i]>>

LEMMA IssueStep ==
  ASSUME NEW call \in SecretCalls, calls \in Seq(SecretCalls), Issue(call)
  PROVE  QueueStep(0, <<call>>)
  <1>1. calls' = Append(calls, call)
    BY DEF Issue
  <1>2. PICK q \in Seq(SecretCalls) : q = calls
    OBVIOUS
  <1>3. /\ Append(q, call) \in Seq(SecretCalls) /\ Len(Append(q, call)) = Len(q) + 1
        /\ \A i \in 1..Len(q) : Append(q, call)[i] = q[i]
        /\ Append(q, call)[Len(q) + 1] = call
    BY AppendProperties
  <1>4. Len(q) \in Nat
    OBVIOUS
  <1> QED
    BY <1>1, <1>2, <1>3, <1>4 DEF QueueStep

LEMMA ServedStep ==
  ASSUME NEW op, NEW more \in {<<>>} \union {<<call>> : call \in SecretCalls},
         calls \in Seq(SecretCalls), Served(op, more)
  PROVE  /\ QueueStep(1, more)
         /\ Len(calls) >= 1 /\ Head(calls) = calls[1] /\ calls[1] \in SecretCalls
         /\ calls[1].op = op
  <1>1. PICK q \in Seq(SecretCalls) : q = calls
    OBVIOUS
  <1>2. q # <<>> /\ Len(q) \in Nat /\ Len(q) >= 1 /\ q[1] \in SecretCalls /\ Head(q) = q[1]
    BY <1>1 DEF Served
  <1>3. /\ Tail(q) \in Seq(SecretCalls) /\ Len(Tail(q)) = Len(q) - 1
        /\ \A i \in 1..Len(Tail(q)) : Tail(q)[i] = q[i + 1]
    BY <1>2, HeadTailProperties
  <1>4. more \in Seq(SecretCalls) /\ (Len(more) = 0 \/ (Len(more) = 1 /\ more = <<more[1]>>))
    <2>1. CASE more = <<>>
      BY <2>1, EmptySeq
    <2>2. CASE more # <<>>
      <3>1. PICK call \in SecretCalls : more = <<call>>
        BY <2>2
      <3> QED
        BY <3>1
    <2> QED
      BY <2>1, <2>2
  <1>5. PICK t \in Seq(SecretCalls) : t = Tail(q)
    BY <1>3
  <1>6. /\ t \o more \in Seq(SecretCalls) /\ Len(t \o more) = Len(t) + Len(more)
        /\ \A i \in 1..Len(t) + Len(more) :
             (t \o more)[i] = IF i <= Len(t) THEN t[i] ELSE more[i - Len(t)]
    BY <1>4, ConcatProperties
  <1>7. calls' = t \o more
    BY <1>1, <1>5 DEF Served
  <1>8. ASSUME NEW i \in 1..Len(calls')
        PROVE  \/ i + 1 \in 1..Len(calls) /\ calls'[i] = calls[i + 1]
               \/ i = Len(calls) - 1 + 1 /\ more = <<calls'[i]>>
    <2>1. /\ Len(t) = Len(calls) - 1 /\ Len(t) \in Nat /\ Len(calls) \in Nat
          /\ i \in 1..Len(t) + Len(more)
          /\ calls'[i] = IF i <= Len(t) THEN t[i] ELSE more[i - Len(t)]
      BY <1>1, <1>2, <1>3, <1>5, <1>6, <1>7
    <2>2. CASE i <= Len(t)
      <3>1. i \in 1..Len(t)
        BY <2>1, <2>2
      <3>2. t[i] = calls[i + 1]
        BY <1>1, <1>3, <1>5, <3>1
      <3> QED
        BY <2>1, <2>2, <3>2
    <2>3. CASE i > Len(t)
      <3>1. Len(more) = 1 /\ i = Len(t) + 1
        BY <1>4, <2>1, <2>3
      <3>2. calls'[i] = more[1]
        BY <2>1, <3>1
      <3>3. more = <<calls'[i]>>
        BY <1>4, <3>1, <3>2
      <3>4. i = Len(calls) - 1 + 1
        BY <2>1, <3>1
      <3> QED
        BY <3>3, <3>4
    <2> QED
      BY <2>1, <2>2, <2>3
  <1>9. Len(calls') = Len(calls) - 1 + Len(more)
    BY <1>1, <1>2, <1>3, <1>4, <1>5, <1>6, <1>7
  <1>10. Head(calls) = calls[1] /\ calls[1] \in SecretCalls /\ Len(calls) >= 1
    BY <1>1, <1>2
  <1> QED
    BY <1>6, <1>7, <1>8, <1>9, <1>10 DEF QueueStep, Served

----------------------------------------------------------------------------
(* What a reload of the window leaves in the SecretStorage                 *)

\* The recursion that defines StoredAfter stays within any set that every call
\* stays within.
LEMMA StoredAfterIn ==
  ASSUME NEW V, secrets \in V, calls \in Seq(SecretCalls),
         \A i \in 1..Len(calls) : \A s \in V : Applied(s, calls[i]) \in V
  PROVE  \A n \in 0..Len(calls) : StoredAfter[n] \in V
  <1>1. PICK n \in Nat : n = Len(calls)
    OBVIOUS
  <1>2. PICK base \in V : base = secrets
    OBVIOUS
  <1>3. PICK step \in [1..n -> [V -> V]] :
          \A i \in 1..n : \A s \in V : step[i][s] = Applied(s, calls[i])
    <2>1. [i \in 1..n |-> [s \in V |-> Applied(s, calls[i])]] \in [1..n -> [V -> V]]
      BY <1>1
    <2> QED
      BY <2>1
  <1>4. PICK f \in [0..n -> V] : f[0] = base /\ \A i \in 1..n : f[i] = step[i][f[i - 1]]
    <2>1. Recursions(n, V, base, step) # {}
      BY RecursionUpTo
    <2> QED
      BY <2>1 DEF Recursions
  <1>5. f = [i \in 0..Len(calls) |-> IF i = 0 THEN secrets ELSE Applied(f[i - 1], calls[i])]
    <2>1. ASSUME NEW i \in 1..n PROVE f[i] = Applied(f[i - 1], calls[i])
      <3>1. f[i - 1] \in V
        BY <1>4
      <3> QED
        BY <1>3, <1>4, <3>1
    <2>2. \A i \in 0..n : f[i] = IF i = 0 THEN secrets ELSE Applied(f[i - 1], calls[i])
      BY <1>2, <1>4, <2>1
    <2> QED
      BY <1>1, <1>4, <2>2
  <1>6. StoredAfter = [i \in 0..Len(calls) |->
                        IF i = 0 THEN secrets ELSE Applied(StoredAfter[i - 1], calls[i])]
    BY <1>5, Zenon DEF StoredAfter
  <1> DEFINE S == {i \in 0..n : StoredAfter[i] \in V}
  <1>7. 0 \in S
    BY <1>1, <1>6
  <1>8. ASSUME NEW i \in 1..n, i - 1 \in S PROVE i \in S
    <2>1. StoredAfter[i] = Applied(StoredAfter[i - 1], calls[i])
      BY <1>1, <1>6
    <2>2. StoredAfter[i - 1] \in V
      BY <1>8
    <2> QED
      BY <1>1, <2>1, <2>2
  <1> HIDE DEF S
  <1>9. 0..n \subseteq S
    BY <1>7, <1>8, InductionUpTo
  <1> QED
    BY <1>1, <1>9 DEF S

----------------------------------------------------------------------------
(* The invariant of pairing and authentication                             *)

PairTypes ==
  /\ server \in {"stopped", "binding", "listening"}
  /\ pairing \in Maybe([code : Codes, expired : BOOLEAN])
  /\ authenticated \in Maybe(Conns) /\ pairedExtensionId \in Maybe(Extensions)
  /\ secrets \in Secrets
  /\ calls \in Seq(SecretCalls)
  /\ readyState \in [Conns -> {"none", "open", "closing", "ended", "closed"}]
  /\ origin \in [Conns -> Maybe(Extensions)]
  /\ token \in [Conns -> 0..MaxCodes]
  /\ handshakeTimeout \in [Conns -> BOOLEAN]
  /\ codes \in 0..MaxCodes /\ revokedCodes \in 0..MaxCodes
  /\ holder \in [Codes -> Maybe(Extensions)]

\* Of all authenticated connections only the current one is open; it uses a
\* token the bridge gave to its extension, made after the last revoke().
Connected ==
  /\ \A c \in Conns : /\ readyState[c] # "none" => origin[c] \in Extensions
                      /\ token[c] # 0 => readyState[c] # "none"
                      /\ token[c] # 0 /\ readyState[c] = "open" => authenticated = c
  /\ authenticated # None =>
       /\ token[authenticated] # 0
       /\ holder[token[authenticated]] = origin[authenticated]
       /\ token[authenticated] > revokedCodes

\* The code on offer is new: no browser has its token, no revoke() came later.
CodesFresh ==
  /\ pairing # None => /\ pairing.code <= codes /\ pairing.code > revokedCodes
                       /\ holder[pairing.code] = None
  /\ \A n \in Codes : holder[n] # None => n <= codes
  /\ revokedCodes <= codes
  /\ secrets.hash # None => secrets.hash > revokedCodes

\* What a call under way still relies on.
CallFits(call) ==
  /\ call.code <= codes
  /\ call.op \in HandlerOps => readyState[call.by] # "none"
  /\ call.op = "read" /\ call.code # 0 => holder[call.code] = origin[call.by]
  /\ call.op \in SpendingOps =>
       holder[call.code] = None /\ (pairing # None => pairing.code # call.code)
  /\ call.op = "storeHash" => call.code > revokedCodes
  /\ call.op = "delete" =>
       call.code >= revokedCodes /\ (pairing # None => pairing.code > call.code)

\* Two calls under way, the first made before the second: they spend different
\* codes, and a code spent after a revoke() was called is newer than it.
InTurn(first, second) ==
  /\ first.op \in SpendingOps /\ second.op \in SpendingOps => first.code # second.code
  /\ first.op = "delete" /\ second.op = "delete" => first.code <= second.code
  /\ first.op = "delete" /\ second.op = "storeHash" => first.code < second.code

CallsFit == \A i \in 1..Len(calls) : CallFits(calls[i])
CallsInTurn == \A i, j \in 1..Len(calls) : i < j => InTurn(calls[i], calls[j])

PairingInvariant == PairTypes /\ Connected /\ CodesFresh /\ CallsFit /\ CallsInTurn

\* Connections close and none opens.
OnlyClose ==
  \A c \in Conns : /\ readyState'[c] = "none" <=> readyState[c] = "none"
                   /\ readyState'[c] = "open" => readyState[c] = "open"

\* A step that pairs and authenticates no browser and revokes none.
Steady ==
  /\ UNCHANGED <<codes, holder, revokedCodes, origin, token>>
  /\ OnlyClose
  /\ pairing' # None => pairing # None /\ pairing'.code = pairing.code
  /\ \/ authenticated' = authenticated
     \/ authenticated' = None /\ (authenticated # None => readyState'[authenticated] # "open")
  /\ secrets'.hash # None => secrets'.hash > revokedCodes

LEMMA SteadyStep ==
  ASSUME PairTypes, PairTypes', Connected, CodesFresh, Steady
  PROVE  Connected' /\ CodesFresh'
  <1>1. ASSUME NEW c \in Conns
        PROVE  /\ readyState'[c] # "none" => origin'[c] \in Extensions
               /\ token'[c] # 0 => readyState'[c] # "none"
               /\ token'[c] # 0 /\ readyState'[c] = "open" => authenticated' = c
    BY DEF Steady, OnlyClose, Connected
  <1>2. authenticated' # None => /\ token'[authenticated'] # 0
                                 /\ holder'[token'[authenticated']] = origin'[authenticated']
                                 /\ token'[authenticated'] > revokedCodes'
    BY DEF Steady, Connected
  <1>3. Connected'
    BY <1>1, <1>2 DEF Connected
  <1>4. CodesFresh'
    BY DEF Steady, CodesFresh
  <1> QED
    BY <1>3, <1>4

LEMMA StillFits ==
  ASSUME PairTypes, Steady, NEW call \in SecretCalls, CallFits(call)
  PROVE  CallFits(call)'
  BY DEF PairTypes, Steady, OnlyClose, CallFits, SecretCalls, HandlerOps, SpendingOps

\* The queue after a step that adds no call.
LEMMA QueueShortens ==
  ASSUME NEW k \in 0..1, calls \in Seq(SecretCalls), CallsInTurn,
         QueueStep(k, <<>>),
         \A i \in (k + 1)..Len(calls) : \A call \in SecretCalls : call = calls[i] => CallFits(call)'
  PROVE  CallsFit' /\ CallsInTurn'
  <1>1. /\ Len(calls) \in Nat /\ Len(calls') = Len(calls) - k /\ Len(calls') \in Nat
        /\ \A i \in 1..Len(calls') : i + k \in 1..Len(calls) /\ calls'[i] = calls[i + k]
                                     /\ calls'[i] \in SecretCalls
    <2>1. Len(calls) \in Nat /\ Len(calls') \in Nat /\ Len(calls') = Len(calls) - k
      BY DEF QueueStep
    <2>2. ASSUME NEW i \in 1..Len(calls')
          PROVE  i + k \in 1..Len(calls) /\ calls'[i] = calls[i + k] /\ calls'[i] \in SecretCalls
      <3>1. i + k \in 1..Len(calls)
        BY <2>1
      <3>2. calls'[i] = calls[i + k]
        BY <2>1 DEF QueueStep
      <3> QED
        BY <3>1, <3>2
    <2> QED
      BY <2>1, <2>2
  <1>2. ASSUME NEW i \in 1..Len(calls') PROVE CallFits(calls[i])'
    <2>1. PICK call \in SecretCalls : call = calls'[i]
      BY <1>1
    <2>2. i + k \in (k + 1)..Len(calls) /\ call = calls[i + k]
      BY <1>1, <2>1
    <2>3. CallFits(call)'
      BY <2>2
    <2> QED
      BY <2>1, <2>3 DEF CallFits
  <1>3. CallsInTurn'
    <2> SUFFICES ASSUME NEW i \in 1..Len(calls'), NEW j \in 1..Len(calls'), i < j
                 PROVE  InTurn(calls'[i], calls'[j])
      BY DEF CallsInTurn
    <2>1. InTurn(calls[i + k], calls[j + k])
      BY <1>1 DEF CallsInTurn
    <2> QED
      BY <1>1, <2>1
  <1> QED
    BY <1>2, <1>3 DEF CallsFit

\* The queue after a step that adds one.
LEMMA QueueGrows ==
  ASSUME NEW k \in 0..1, NEW more \in SecretCalls, calls \in Seq(SecretCalls), CallsInTurn,
         k <= Len(calls), QueueStep(k, <<more>>),
         CallFits(more)',
         \A i \in (k + 1)..Len(calls) : \A call \in SecretCalls :
           call = calls[i] => CallFits(call)' /\ InTurn(call, more)
  PROVE  CallsFit' /\ CallsInTurn'
  <1>1. /\ Len(calls) \in Nat /\ Len(calls') = Len(calls) - k + 1 /\ Len(calls') \in Nat
    BY DEF QueueStep
  <1>2. ASSUME NEW i \in 1..(Len(calls) - k)
        PROVE  /\ i + k \in (k + 1)..Len(calls) /\ calls'[i] = calls[i + k]
               /\ calls'[i] \in SecretCalls
    BY <1>1 DEF QueueStep
  <1>3. calls'[Len(calls) - k + 1] = more
    <2>1. Len(calls) - k + 1 \in 1..Len(calls') /\ Len(calls) - k + 1 + k \notin 1..Len(calls)
      BY <1>1
    <2>2. <<more>> = <<calls'[Len(calls) - k + 1]>>
      BY <2>1 DEF QueueStep
    <2>3. <<more>>[1] = <<calls'[Len(calls) - k + 1]>>[1]
      BY <2>2
    <2> QED
      BY <2>3
  <1>4. ASSUME NEW i \in 1..(Len(calls) - k)
        PROVE  CallFits(calls[i])' /\ InTurn(calls'[i], more)
    <2>1. PICK call \in SecretCalls : call = calls'[i]
      BY <1>2
    <2>2. i + k \in (k + 1)..Len(calls) /\ call = calls[i + k]
      BY <1>2, <2>1
    <2>3. CallFits(call)' /\ InTurn(call, more)
      BY <2>2
    <2> QED
      BY <2>1, <2>3 DEF CallFits
  <1>5. CallsFit'
    <2> SUFFICES ASSUME NEW i \in 1..Len(calls') PROVE CallFits(calls[i])'
      BY DEF CallsFit
    <2>1. CASE i = Len(calls')
      <3>1. calls'[i] = more
        BY <1>1, <1>3, <2>1
      <3> QED
        BY <3>1 DEF CallFits
    <2>2. CASE i # Len(calls')
      BY <1>1, <1>4, <2>2
    <2> QED
      BY <2>1, <2>2
  <1>6. CallsInTurn'
    <2> SUFFICES ASSUME NEW i \in 1..Len(calls'), NEW j \in 1..Len(calls'), i < j
                 PROVE  InTurn(calls'[i], calls'[j])
      BY DEF CallsInTurn
    <2>1. CASE j = Len(calls')
      <3>1. InTurn(calls'[i], more) /\ calls'[j] = more
        BY <1>1, <1>3, <1>4, <2>1
      <3> QED
        BY <3>1
    <2>2. CASE j # Len(calls')
      <3>1. i \in 1..(Len(calls) - k) /\ j \in 1..(Len(calls) - k)
        BY <1>1, <2>2
      <3>2. InTurn(calls[i + k], calls[j + k])
        BY <1>1, <3>1 DEF CallsInTurn
      <3> QED
        BY <1>2, <3>1, <3>2
    <2> QED
      BY <2>1, <2>2
  <1> QED
    BY <1>5, <1>6

----------------------------------------------------------------------------
(* Steps that leave the SecretStorage and its queue alone                  *)

LEMMA ClosingStep ==
  ASSUME PairTypes, NEW cs, Closing(cs)
  PROVE  /\ readyState' \in [Conns -> {"none", "open", "closing", "ended", "closed"}]
         /\ OnlyClose
         /\ \A c \in Conns : c \in cs => readyState'[c] # "open"
  BY DEF PairTypes, Closing, IsOpen, OnlyClose

LEMMA DisarmStep ==
  ASSUME PairTypes, NEW cs, Disarm(cs)
  PROVE  handshakeTimeout' \in [Conns -> BOOLEAN]
  BY DEF PairTypes, Disarm

LEMMA HandlerFailsStep ==
  ASSUME PairTypes, NEW c, HandlerFails(c)
  PROVE  /\ readyState' \in [Conns -> {"none", "open", "closing", "ended", "closed"}]
         /\ OnlyClose
         /\ UNCHANGED <<authenticated, origin, token, handshakeTimeout>>
  <1>1. PICK cs : cs = IF IsAuthenticated(c) THEN {} ELSE {c}
    OBVIOUS
  <1>2. Closing(cs)
    BY <1>1 DEF HandlerFails
  <1> QED
    BY <1>2, ClosingStep DEF HandlerFails

LEMMA QuietStep ==
  ASSUME PairingInvariant, PairTypes', Steady, UNCHANGED calls
  PROVE  PairingInvariant'
  <1>1. QueueStep(0, <<>>)
    <2>1. Len(<<>>) = 0 /\ Len(calls) \in Nat
      BY DEF PairingInvariant, PairTypes
    <2> QED
      BY <2>1 DEF QueueStep, PairingInvariant, PairTypes
  <1>2. ASSUME NEW i \in 1..Len(calls), NEW call \in SecretCalls, call = calls[i]
        PROVE  CallFits(call)'
    <2>1. CallFits(call)
      BY <1>2 DEF PairingInvariant, CallsFit, CallFits
    <2> QED
      BY <2>1, StillFits DEF PairingInvariant
  <1>3. CallsFit' /\ CallsInTurn'
    BY <1>1, <1>2, QueueShortens DEF PairingInvariant, PairTypes
  <1> QED
    BY <1>3, SteadyStep DEF PairingInvariant

\* Unchanged secrets, and a connection or a pairing that ends.
LEMMA SteadyIf ==
  ASSUME PairingInvariant,
         UNCHANGED <<secrets, codes, holder, revokedCodes, origin, token>>, OnlyClose,
         pairing' # None => pairing # None /\ pairing'.code = pairing.code,
         \/ authenticated' = authenticated
         \/ authenticated' = None /\ (authenticated # None => readyState'[authenticated] # "open")
  PROVE  Steady
  BY DEF Steady, PairingInvariant, CodesFresh

\* A step that changes no more than the state of connections and their timers.
LEMMA ConnectionEnds ==
  ASSUME PairingInvariant, UNCHANGED <<server, pairVars>>, UNCHANGED <<authenticated, origin, token>>,
         readyState' \in [Conns -> {"none", "open", "closing", "ended", "closed"}],
         OnlyClose, handshakeTimeout' \in [Conns -> BOOLEAN]
  PROVE  PairingInvariant'
  <1>1. Steady
    BY SteadyIf DEF pairVars
  <1>2. PairTypes'
    BY DEF PairingInvariant, PairTypes, pairVars
  <1> QED
    BY <1>1, <1>2, QuietStep DEF pairVars

LEMMA RejectConnectionSteps ==
  ASSUME PairingInvariant, NEW c \in Conns,
         HandshakeTimesOut(c) \/ MalformedFrame(c)
  PROVE  PairingInvariant'
  <1>1. RejectConnection(c) /\ UNCHANGED <<server, pairVars>>
    BY DEF HandshakeTimesOut, MalformedFrame
  <1>2. readyState' \in [Conns -> {"none", "open", "closing", "ended", "closed"}] /\ OnlyClose
    BY <1>1, ClosingStep DEF RejectConnection, PairingInvariant
  <1>3. handshakeTimeout' \in [Conns -> BOOLEAN]
    BY <1>1, DisarmStep DEF RejectConnection, PairingInvariant
  <1> QED
    BY <1>1, <1>2, <1>3, ConnectionEnds DEF RejectConnection

LEMMA UnacceptableMessageStep ==
  ASSUME PairingInvariant, NEW c \in Conns, UnacceptableMessage(c)
  PROVE  PairingInvariant'
  BY HandlerFailsStep, ConnectionEnds DEF UnacceptableMessage, PairingInvariant, PairTypes

LEMMA PeerClosesStep ==
  ASSUME PairingInvariant, NEW c \in Conns, PeerCloses(c)
  PROVE  PairingInvariant'
  <1>1. readyState' \in [Conns -> {"none", "open", "closing", "ended", "closed"}] /\ OnlyClose
    BY DEF PairingInvariant, PairTypes, PeerCloses, Speaks, OnlyClose
  <1> QED
    BY <1>1, ConnectionEnds DEF PeerCloses, PairingInvariant, PairTypes

LEMMA CloseEventStep ==
  ASSUME PairingInvariant, NEW c \in Conns, CloseEvent(c)
  PROVE  PairingInvariant'
  <1>1. /\ readyState' \in [Conns -> {"none", "open", "closing", "ended", "closed"}] /\ OnlyClose
        /\ readyState'[c] # "open"
    BY DEF PairingInvariant, PairTypes, CloseEvent, OnlyClose
  <1>2. handshakeTimeout' \in [Conns -> BOOLEAN]
    BY DisarmStep DEF CloseEvent, PairingInvariant
  <1>3. UNCHANGED <<server, pairVars, origin, token>>
    BY DEF CloseEvent
  <1>4. \/ authenticated' = authenticated
        \/ authenticated' = None /\ authenticated = c
    BY DEF CloseEvent
  <1>5. Steady
    BY <1>1, <1>3, <1>4, SteadyIf DEF pairVars
  <1>6. PairTypes'
    BY <1>1, <1>2, <1>3, <1>4 DEF PairingInvariant, PairTypes, pairVars, Maybe
  <1> QED
    BY <1>3, <1>5, <1>6, QuietStep DEF pairVars

LEMMA DisposeStep ==
  ASSUME PairingInvariant, Dispose
  PROVE  PairingInvariant'
  <1>1. /\ readyState' \in [Conns -> {"none", "open", "closing", "ended", "closed"}] /\ OnlyClose
        /\ \A c \in Conns : readyState'[c] # "open"
    BY DEF PairingInvariant, PairTypes, Dispose, Speaks, OnlyClose
  <1>2. handshakeTimeout' \in [Conns -> BOOLEAN]
    BY DisarmStep DEF Dispose, PairingInvariant
  <1>3. /\ UNCHANGED <<pairedExtensionId, secrets, calls, codes, holder, revokedCodes, origin, token>>
        /\ pairing' = None /\ authenticated' = None
        /\ server' \in {"stopped", "binding", "listening"}
    BY DEF Dispose, PairingInvariant, PairTypes
  <1>4. authenticated # None => authenticated \in Conns
    BY DEF PairingInvariant, PairTypes, Maybe
  <1>5. Steady
    BY <1>1, <1>3, <1>4, SteadyIf
  <1>6. PairTypes'
    BY <1>1, <1>2, <1>3 DEF PairingInvariant, PairTypes, Maybe
  <1> QED
    BY <1>3, <1>5, <1>6, QuietStep

\* Steps of the review protocol, a failed bind, and a stuttering step.
LEMMA PairingUntouched ==
  ASSUME PairingInvariant, server' \in {"stopped", "binding", "listening"},
         UNCHANGED pairVars, UNCHANGED connVars
  PROVE  PairingInvariant'
  <1>1. Steady
    BY SteadyIf DEF pairVars, connVars, OnlyClose
  <1>2. PairTypes'
    BY DEF PairingInvariant, PairTypes, pairVars, connVars
  <1> QED
    BY <1>1, <1>2, QuietStep DEF pairVars

LEMMA PairingExpiresStep ==
  ASSUME PairingInvariant, PairingExpires
  PROVE  PairingInvariant'
  <1>1. /\ pairing \in [code : Codes, expired : BOOLEAN]
        /\ pairing' \in [code : Codes, expired : BOOLEAN] /\ pairing'.code = pairing.code
    BY DEF PairingInvariant, PairTypes, PairingExpires, Maybe
  <1>2. Steady
    BY <1>1, SteadyIf DEF PairingExpires, OnlyClose, connVars
  <1>3. PairTypes'
    BY <1>1 DEF PairingInvariant, PairTypes, PairingExpires, Maybe, connVars
  <1> QED
    BY <1>2, <1>3, QuietStep DEF PairingExpires

----------------------------------------------------------------------------
(* Steps that make a pairing code or a connection                          *)

\* Every call under way still fits, and none is added or served.
LEMMA QueueWaits ==
  ASSUME PairingInvariant, UNCHANGED calls,
         \A call \in SecretCalls : CallFits(call) => CallFits(call)'
  PROVE  CallsFit' /\ CallsInTurn'
  <1>1. QueueStep(0, <<>>)
    <2>1. Len(<<>>) = 0 /\ Len(calls) \in Nat
      BY DEF PairingInvariant, PairTypes
    <2> QED
      BY <2>1 DEF QueueStep, PairingInvariant, PairTypes
  <1>2. ASSUME NEW i \in 1..Len(calls), NEW call \in SecretCalls, call = calls[i]
        PROVE  CallFits(call)'
    <2>1. CallFits(call)
      BY <1>2 DEF PairingInvariant, CallsFit, CallFits
    <2> QED
      BY <2>1
  <1> QED
    BY <1>1, <1>2, QueueShortens DEF PairingInvariant, PairTypes

LEMMA NewPairingStep ==
  ASSUME PairingInvariant, NewPairing, server' \in {"stopped", "binding", "listening"},
         UNCHANGED <<pairedExtensionId, secrets, calls, holder, revokedCodes>>, UNCHANGED connVars
  PROVE  PairingInvariant'
  <1>1. /\ codes' = codes + 1 /\ codes' \in Codes /\ codes \in Nat
        /\ pairing' \in [code : Codes, expired : BOOLEAN] /\ pairing'.code = codes + 1
    <2>1. codes + 1 \in Codes /\ codes \in Nat
      BY BridgeAssumption DEF NewPairing, PairingInvariant, PairTypes, Codes
    <2> QED
      BY <2>1 DEF NewPairing
  <1>2. PairTypes'
    BY <1>1 DEF PairingInvariant, PairTypes, Maybe, Codes, connVars
  <1>3. holder[codes + 1] = None
    <2>1. holder[codes + 1] # None => codes + 1 <= codes
      BY <1>1 DEF PairingInvariant, CodesFresh
    <2> QED
      BY <1>1, <2>1
  <1>4. CodesFresh'
    BY <1>1, <1>3 DEF PairingInvariant, PairTypes, CodesFresh, Codes
  <1>5. Connected'
    BY DEF PairingInvariant, Connected, connVars
  <1>6. ASSUME NEW call \in SecretCalls, CallFits(call) PROVE CallFits(call)'
    <2>1. call.code \in 0..MaxCodes /\ call.code <= codes
      BY <1>6 DEF CallFits, SecretCalls
    <2>2. call.code < codes + 1 /\ call.code <= codes + 1
      BY <1>1, <2>1, BridgeAssumption
    <2> QED
      BY <1>1, <1>6, <2>1, <2>2 DEF CallFits, connVars
  <1> QED
    BY <1>2, <1>4, <1>5, <1>6, QueueWaits DEF PairingInvariant

LEMMA BeginPairingStep ==
  ASSUME PairingInvariant, BeginPairing
  PROVE  PairingInvariant'
  <1>1. CASE server = "listening" /\ NewPairing /\ UNCHANGED server
    BY <1>1, NewPairingStep DEF BeginPairing
  <1>2. CASE server = "stopped" /\ server' = "binding" /\ UNCHANGED <<pairing, codes>>
    BY <1>2, PairingUntouched DEF BeginPairing, pairVars
  <1> QED
    BY <1>1, <1>2 DEF BeginPairing

LEMMA ListeningStep ==
  ASSUME PairingInvariant, Listening
  PROVE  PairingInvariant'
  BY NewPairingStep DEF Listening

LEMMA ConnectStep ==
  ASSUME PairingInvariant, NEW c \in Conns, NEW ext \in Extensions, Connect(c, ext)
  PROVE  PairingInvariant'
  <1>1. /\ readyState[c] = "none" /\ token[c] = 0 /\ authenticated # c
        /\ UNCHANGED <<server, pairing, pairedExtensionId, secrets, calls, codes, holder,
                       revokedCodes, authenticated, token>>
    BY BridgeAssumption DEF PairingInvariant, Connected, Connect, pairVars
  <1>2. /\ readyState' \in [Conns -> {"none", "open", "closing", "ended", "closed"}]
        /\ origin' \in [Conns -> Maybe(Extensions)]
        /\ readyState'[c] = "open" /\ origin'[c] = ext
        /\ \A d \in Conns : d # c => readyState'[d] = readyState[d] /\ origin'[d] = origin[d]
    BY DEF PairingInvariant, PairTypes, Connect, Maybe
  <1>3. PairTypes'
    <2>1. handshakeTimeout' \in [Conns -> BOOLEAN]
      BY DEF PairingInvariant, PairTypes, Connect
    <2> QED
      BY <1>1, <1>2, <2>1 DEF PairingInvariant, PairTypes
  <1>4. Connected'
    <2>1. \A d \in Conns : /\ readyState'[d] # "none" => origin'[d] \in Extensions
                           /\ token'[d] # 0 => readyState'[d] # "none"
                           /\ token'[d] # 0 /\ readyState'[d] = "open" => authenticated' = d
      BY <1>1, <1>2 DEF PairingInvariant, Connected
    <2>2. authenticated # None => authenticated \in Conns
      BY DEF PairingInvariant, PairTypes, Maybe
    <2>3. authenticated' # None => /\ token'[authenticated'] # 0
                                   /\ holder'[token'[authenticated']] = origin'[authenticated']
                                   /\ token'[authenticated'] > revokedCodes'
      BY <1>1, <1>2, <2>2 DEF PairingInvariant, Connected
    <2> QED
      BY <2>1, <2>3 DEF Connected
  <1>5. CodesFresh'
    BY <1>1 DEF PairingInvariant, CodesFresh
  <1>6. ASSUME NEW call \in SecretCalls, CallFits(call) PROVE CallFits(call)'
    <2>1. call.op \in HandlerOps => call.by \in Conns /\ call.by # c
      BY <1>1, <1>6 DEF CallFits, SecretCalls
    <2>2. call.op = "read" => call.op \in HandlerOps
      BY DEF HandlerOps
    <2> QED
      BY <1>1, <1>2, <1>6, <2>1, <2>2 DEF CallFits
  <1> QED
    BY <1>1, <1>3, <1>4, <1>5, <1>6, QueueWaits DEF PairingInvariant

----------------------------------------------------------------------------
(* Steps that make a SecretStorage call                                    *)

\* A step that only makes a call.
LEMMA CallMade ==
  ASSUME PairingInvariant, NEW call \in SecretCalls, Issue(call),
         pairing' = None \/ pairing' = pairing,
         UNCHANGED <<server, pairedExtensionId, secrets, codes, holder, revokedCodes>>,
         UNCHANGED connVars,
         CallFits(call)',
         \A i \in 1..Len(calls) : \A old \in SecretCalls :
           old = calls[i] => InTurn(old, call)
  PROVE  PairingInvariant'
  <1>1. QueueStep(0, <<call>>)
    BY IssueStep DEF PairingInvariant, PairTypes
  <1>2. Steady
    BY SteadyIf DEF connVars, OnlyClose
  <1>3. PairTypes'
    BY <1>1 DEF PairingInvariant, PairTypes, QueueStep, connVars, Maybe
  <1>4. ASSUME NEW i \in (0 + 1)..Len(calls), NEW old \in SecretCalls, old = calls[i]
        PROVE  CallFits(old)' /\ InTurn(old, call)
    <2>1. i \in 1..Len(calls)
      OBVIOUS
    <2>2. CallFits(old)
      BY <1>4, <2>1 DEF PairingInvariant, CallsFit, CallFits
    <2> QED
      BY <1>2, <1>4, <2>1, <2>2, StillFits DEF PairingInvariant
  <1>5. 0 <= Len(calls)
    BY DEF PairingInvariant, PairTypes
  <1>6. CallsFit' /\ CallsInTurn'
    BY <1>1, <1>4, <1>5, QueueGrows DEF PairingInvariant, PairTypes
  <1> QED
    BY <1>2, <1>3, <1>6, SteadyStep DEF PairingInvariant

\* A call under way fits.
LEMMA Fits ==
  ASSUME PairingInvariant, NEW i \in 1..Len(calls), NEW call \in SecretCalls, call = calls[i]
  PROVE  CallFits(call)
  BY DEF PairingInvariant, CallsFit, CallFits

LEMMA RevokeStep ==
  ASSUME PairingInvariant, Revoke
  PROVE  PairingInvariant'
  <1>1. PICK call : call = Call("delete", None, codes)
    OBVIOUS
  <1>2. call \in SecretCalls /\ call.op = "delete" /\ call.code = codes
    BY <1>1 DEF Call, SecretCalls, Ops, HandlerOps, SpendingOps, Maybe, PairingInvariant, PairTypes
  <1>3. CallFits(call)'
    <2>1. pairing' = None /\ codes' = codes /\ revokedCodes' = revokedCodes
      BY DEF Revoke
    <2>2. codes \in Nat /\ revokedCodes <= codes
      BY DEF PairingInvariant, PairTypes, CodesFresh
    <2>3. call.op \notin HandlerOps /\ call.op \notin SpendingOps /\ call.op # "storeHash"
          /\ call.op # "read"
      BY <1>2 DEF HandlerOps, SpendingOps
    <2> QED
      BY <1>2, <2>1, <2>2, <2>3 DEF CallFits
  <1>4. ASSUME NEW i \in 1..Len(calls), NEW old \in SecretCalls, old = calls[i]
        PROVE  InTurn(old, call)
    <2>1. old.code <= codes
      BY <1>4, Fits DEF CallFits
    <2> QED
      BY <1>2, <2>1 DEF InTurn, SpendingOps
  <1> QED
    BY <1>1, <1>2, <1>3, <1>4, CallMade DEF Revoke

LEMMA StatusStep ==
  ASSUME PairingInvariant, Status
  PROVE  PairingInvariant'
  <1>1. PICK call : call = Call("status", None, 0)
    OBVIOUS
  <1>2. call \in SecretCalls /\ call.op = "status" /\ call.code = 0
    BY <1>1, BridgeAssumption DEF Call, SecretCalls, Ops, HandlerOps, SpendingOps, Maybe
  <1>3. CallFits(call)'
    <2>1. codes' = codes /\ codes \in Nat
      BY DEF Status, PairingInvariant, PairTypes
    <2>2. call.op \notin HandlerOps /\ call.op \notin SpendingOps /\ call.op # "storeHash"
          /\ call.op # "read" /\ call.op # "delete"
      BY <1>2 DEF HandlerOps, SpendingOps
    <2> QED
      BY <1>2, <2>1, <2>2 DEF CallFits
  <1>4. ASSUME NEW i \in 1..Len(calls), NEW old \in SecretCalls, old = calls[i]
        PROVE  InTurn(old, call)
    BY <1>2 DEF InTurn, SpendingOps
  <1> QED
    BY <1>1, <1>2, <1>3, <1>4, CallMade DEF Status

LEMMA PairRequestStep ==
  ASSUME PairingInvariant, NEW c \in Conns, PairRequest(c)
  PROVE  PairingInvariant'
  <1>1. PICK call : call = Call("storeHash", c, pairing.code)
    OBVIOUS
  <1>2. pairing \in [code : Codes, expired : BOOLEAN] /\ pairing.code \in Codes /\ pairing # None
    BY DEF PairingInvariant, PairTypes, PairRequest, Maybe
  <1>3. /\ call \in SecretCalls /\ call.op = "storeHash" /\ call.by = c
        /\ call.code = pairing.code
    BY <1>1, <1>2 DEF Call, SecretCalls, Ops, HandlerOps, SpendingOps, Maybe, Codes
  <1>4. CallFits(call)'
    <2>1. readyState[c] # "none" /\ pairing' = None
      BY DEF PairRequest, Speaks, SpendCode
    <2> QED
      BY <1>2, <1>3, <2>1
      DEF CallFits, PairRequest, connVars, HandlerOps, SpendingOps, PairingInvariant, CodesFresh
  <1>5. ASSUME NEW i \in 1..Len(calls), NEW old \in SecretCalls, old = calls[i]
        PROVE  InTurn(old, call)
    <2>1. CallFits(old)
      BY <1>5, Fits
    <2>2. old.op \in SpendingOps => old.code # call.code
      BY <1>2, <1>3, <2>1 DEF CallFits
    <2>3. old.op = "delete" => old.code < call.code
      BY <1>2, <1>3, <2>1 DEF CallFits, SecretCalls, Codes
    <2> QED
      BY <1>3, <2>2, <2>3 DEF InTurn
  <1> QED
    BY <1>1, <1>3, <1>4, <1>5, CallMade DEF PairRequest, SpendCode

LEMMA AuthenticateStep ==
  ASSUME PairingInvariant, NEW c \in Conns, NEW n \in 0..MaxCodes, Authenticate(c, n)
  PROVE  PairingInvariant'
  <1>1. PICK call : call = Call("read", c, n)
    OBVIOUS
  <1>2. call \in SecretCalls /\ call.op = "read" /\ call.by = c /\ call.code = n
    BY <1>1 DEF Call, SecretCalls, Ops, HandlerOps, SpendingOps, Maybe
  <1>3. CallFits(call)'
    <2>1. /\ readyState[c] # "none" /\ origin[c] # None
          /\ n # 0 => holder[n] = origin[c] /\ n \in Codes
      BY BridgeAssumption DEF Authenticate, Speaks, PairingInvariant, Connected, Codes
    <2>2. n <= codes
      <3>1. codes \in Nat
        BY DEF PairingInvariant, PairTypes
      <3> QED
        BY <2>1, <3>1 DEF PairingInvariant, CodesFresh
    <2> QED
      BY <1>2, <2>1, <2>2 DEF CallFits, Authenticate, connVars, SpendingOps
  <1>4. ASSUME NEW i \in 1..Len(calls), NEW old \in SecretCalls, old = calls[i]
        PROVE  InTurn(old, call)
    BY <1>2 DEF InTurn, SpendingOps
  <1> QED
    BY <1>1, <1>2, <1>3, <1>4, CallMade DEF Authenticate

----------------------------------------------------------------------------
(* Steps that serve a SecretStorage call and resume its handler            *)

\* What is known of the call that is served.
LEMMA HeadFits ==
  ASSUME PairingInvariant, NEW op, NEW more \in {<<>>} \union {<<call>> : call \in SecretCalls},
         Served(op, more)
  PROVE  /\ QueueStep(1, more) /\ Len(calls) >= 1
         /\ Head(calls) \in SecretCalls /\ Head(calls).op = op
         /\ CallFits(Head(calls))
         /\ \A i \in 2..Len(calls) : \A call \in SecretCalls :
              call = calls[i] => CallFits(call) /\ InTurn(Head(calls), call)
  <1>1. /\ QueueStep(1, more)
        /\ Len(calls) >= 1 /\ Head(calls) = calls[1] /\ calls[1] \in SecretCalls
        /\ calls[1].op = op
    BY ServedStep DEF PairingInvariant, PairTypes
  <1>2. Len(calls) \in Nat
    BY DEF PairingInvariant, PairTypes
  <1>3. CallFits(Head(calls))
    BY <1>1, <1>2, Fits
  <1>4. ASSUME NEW i \in 2..Len(calls), NEW call \in SecretCalls, call = calls[i]
        PROVE  CallFits(call) /\ InTurn(Head(calls), call)
    <2>1. i \in 1..Len(calls) /\ 1 \in 1..Len(calls) /\ 1 < i
      BY <1>2
    <2>2. CallFits(call)
      BY <1>4, <2>1, Fits
    <2>3. InTurn(calls[1], calls[i])
      BY <2>1 DEF PairingInvariant, CallsInTurn
    <2> QED
      BY <1>1, <1>4, <2>2, <2>3
  <1> QED
    BY <1>1, <1>3, <1>4

\* A handler that ends, and neither pairs nor authenticates its browser.
LEMMA HandlerEnds ==
  ASSUME PairingInvariant, NEW op, Served(op, <<>>), Steady,
         pairing' = pairing, server' = server, secrets' \in Secrets,
         pairedExtensionId' \in Maybe(Extensions), authenticated' \in Maybe(Conns),
         readyState' \in [Conns -> {"none", "open", "closing", "ended", "closed"}],
         handshakeTimeout' \in [Conns -> BOOLEAN]
  PROVE  PairingInvariant'
  <1>1. /\ QueueStep(1, <<>>)
        /\ \A i \in 2..Len(calls) : \A call \in SecretCalls : call = calls[i] => CallFits(call)
    BY HeadFits
  <1>2. PairTypes'
    BY <1>1 DEF PairingInvariant, PairTypes, QueueStep, Steady
  <1>3. ASSUME NEW i \in (1 + 1)..Len(calls), NEW call \in SecretCalls, call = calls[i]
        PROVE  CallFits(call)'
    BY <1>1, <1>3, StillFits DEF PairingInvariant
  <1>4. CallsFit' /\ CallsInTurn'
    BY <1>1, <1>3, QueueShortens DEF PairingInvariant, PairTypes
  <1> QED
    BY <1>2, <1>4, SteadyStep DEF PairingInvariant

LEMMA StatusResumesStep ==
  ASSUME PairingInvariant, StatusResumes
  PROVE  PairingInvariant'
  <1>1. pairedExtensionId' \in Maybe(Extensions) /\ secrets' \in Secrets
    BY DEF StatusResumes, PairingInvariant, PairTypes, Secrets
  <1>2. Steady
    BY SteadyIf DEF StatusResumes, connVars, OnlyClose
  <1> QED
    BY <1>1, <1>2, HandlerEnds DEF StatusResumes, connVars, PairingInvariant, PairTypes

LEMMA RevokeFailsStep ==
  ASSUME PairingInvariant, RevokeFails
  PROVE  PairingInvariant'
  <1>1. /\ secrets' \in Secrets
        /\ secrets'.hash # None => secrets.hash # None /\ secrets'.hash = secrets.hash
    <2>1. secrets \in Secrets
      BY DEF PairingInvariant, PairTypes
    <2>2. CASE secrets' = secrets
      BY <2>1, <2>2
    <2>3. CASE secrets' = [secrets EXCEPT !.hash = None]
      BY <2>1, <2>3 DEF Secrets, Maybe
    <2>4. CASE secrets' = [secrets EXCEPT !.extensionId = None]
      BY <2>1, <2>4 DEF Secrets, Maybe
    <2> QED
      BY <2>2, <2>3, <2>4 DEF RevokeFails
  <1>2. Steady
    BY <1>1 DEF Steady, RevokeFails, connVars, OnlyClose, PairingInvariant, CodesFresh
  <1> QED
    BY <1>1, <1>2, HandlerEnds DEF RevokeFails, connVars, PairingInvariant, PairTypes

LEMMA StoreFailsStep ==
  ASSUME PairingInvariant, StoreFails
  PROVE  PairingInvariant'
  <1>1. PICK c : c = Head(calls).by
    OBVIOUS
  <1>2. /\ readyState' \in [Conns -> {"none", "open", "closing", "ended", "closed"}]
        /\ OnlyClose
        /\ UNCHANGED <<authenticated, origin, token, handshakeTimeout>>
    BY <1>1, HandlerFailsStep DEF StoreFails, PairingInvariant
  <1>3. Steady
    BY <1>2, SteadyIf DEF StoreFails
  <1> QED
    BY <1>2, <1>3, HandlerEnds DEF StoreFails, PairingInvariant, PairTypes

LEMMA AuthenticateRejectedStep ==
  ASSUME PairingInvariant, AuthenticateRejected
  PROVE  PairingInvariant'
  <1>1. PICK c : c = Head(calls).by
    OBVIOUS
  <1>2. /\ readyState' \in [Conns -> {"none", "open", "closing", "ended", "closed"}]
        /\ OnlyClose
        /\ UNCHANGED <<authenticated, origin, token, handshakeTimeout>>
    BY <1>1, HandlerFailsStep DEF AuthenticateRejected, PairingInvariant
  <1>3. Steady
    BY <1>2, SteadyIf DEF AuthenticateRejected
  <1> QED
    BY <1>2, <1>3, HandlerEnds DEF AuthenticateRejected, PairingInvariant, PairTypes

\* What a call does to the secrets, and that it keeps the hash of a revoked code out.
LEMMA AppliedIsSecrets ==
  ASSUME NEW s \in Secrets, NEW call \in SecretCalls, PairTypes,
         NEW r \in Nat, s.hash # None => s.hash > r, call.op = "storeHash" => call.code > r
  PROVE  /\ Applied(s, call) \in Secrets
         /\ Applied(s, call).hash # None => Applied(s, call).hash > r
  <1>1. /\ call.op \in Ops /\ (call.op \in HandlerOps => call.by \in Conns)
        /\ call.op \in SpendingOps => call.code \in Codes
    BY DEF SecretCalls
  <1>2. CASE call.op = "storeHash"
    <2>1. Applied(s, call) = [s EXCEPT !.hash = call.code] /\ call.code \in Codes
      BY <1>1, <1>2 DEF Applied, SpendingOps
    <2> QED
      BY <1>2, <2>1 DEF Secrets, Maybe
  <1>3. CASE call.op = "storeExtension"
    <2>1. Applied(s, call) = [s EXCEPT !.extensionId = origin[call.by]] /\ call.by \in Conns
      BY <1>1, <1>3 DEF Applied, HandlerOps
    <2>2. origin[call.by] \in Maybe(Extensions)
      BY <2>1 DEF PairTypes
    <2> QED
      BY <2>1, <2>2 DEF Secrets, Maybe
  <1>4. CASE call.op = "delete"
    <2>1. Applied(s, call) = NoSecrets
      BY <1>4 DEF Applied
    <2> QED
      BY <2>1 DEF NoSecrets, Secrets, Maybe
  <1>5. CASE call.op \in {"read", "status"}
    BY <1>5 DEF Applied
  <1> QED
    BY <1>1, <1>2, <1>3, <1>4, <1>5 DEF Ops

LEMMA HashStoredStep ==
  ASSUME PairingInvariant, HashStored
  PROVE  PairingInvariant'
  <1>1. PICK first : first = Head(calls)
    OBVIOUS
  <1>2. PICK next : next = Call("storeExtension", first.by, first.code)
    OBVIOUS
  <1>3. first \in SecretCalls /\ first.op = "storeHash"
    <2>1. calls \in Seq(SecretCalls) /\ calls # <<>> /\ Head(calls).op = "storeHash"
      BY DEF HashStored, Served, PairingInvariant, PairTypes
    <2> QED
      BY <1>1, <2>1
  <1>4. /\ next \in SecretCalls /\ next.op = "storeExtension"
        /\ next.by = first.by /\ next.code = first.code
    <2>1. first.by \in Conns /\ first.code \in Codes
      BY <1>3 DEF SecretCalls, HandlerOps, SpendingOps
    <2> QED
      BY <1>2, <2>1 DEF Call, SecretCalls, Ops, Maybe, Codes
  <1>5. Served("storeHash", <<next>>)
    BY <1>1, <1>2 DEF HashStored
  <1>6. PICK more : more = <<next>>
    OBVIOUS
  <1>7. /\ QueueStep(1, <<next>>) /\ Len(calls) >= 1 /\ CallFits(first)
        /\ \A i \in 2..Len(calls) : \A call \in SecretCalls :
             call = calls[i] => CallFits(call) /\ InTurn(first, call)
    <2>1. more \in {<<>>} \union {<<call>> : call \in SecretCalls}
      BY <1>4, <1>6
    <2>2. Served("storeHash", more)
      BY <1>5, <1>6
    <2> QED
      BY <1>1, <1>6, <2>1, <2>2, HeadFits
  <1>8. /\ secrets' \in Secrets
        /\ secrets'.hash # None => secrets'.hash > revokedCodes
    <2>1. PICK s \in Secrets : s = secrets
      BY DEF PairingInvariant, PairTypes
    <2>2. PICK r \in Nat : r = revokedCodes
      BY DEF PairingInvariant, PairTypes
    <2>3. secrets' = Applied(s, first)
      BY <1>1, <2>1 DEF HashStored
    <2>4. (s.hash # None => s.hash > r) /\ (first.op = "storeHash" => first.code > r)
      BY <1>7, <2>1, <2>2 DEF PairingInvariant, CodesFresh, CallFits
    <2> QED
      BY <1>3, <2>2, <2>3, <2>4, AppliedIsSecrets DEF PairingInvariant
  <1>9. Steady
    BY <1>8 DEF Steady, HashStored, connVars, OnlyClose
  <1>10. PairTypes'
    BY <1>7, <1>8 DEF PairingInvariant, PairTypes, QueueStep, HashStored, connVars
  <1>11. CallFits(next)'
    <2>1. CallFits(next)
      BY <1>3, <1>4, <1>7 DEF CallFits, HandlerOps, SpendingOps
    <2> QED
      BY <1>4, <1>9, <2>1, StillFits DEF PairingInvariant
  <1>12. ASSUME NEW i \in (1 + 1)..Len(calls), NEW call \in SecretCalls, call = calls[i]
         PROVE  CallFits(call)' /\ InTurn(call, next)
    <2>1. CallFits(call) /\ InTurn(first, call)
      BY <1>7, <1>12
    <2>2. CallFits(call)'
      BY <1>9, <2>1, StillFits DEF PairingInvariant
    <2>3. InTurn(call, next)
      BY <1>3, <1>4, <2>1 DEF InTurn, SpendingOps
    <2> QED
      BY <2>2, <2>3
  <1>13. CallsFit' /\ CallsInTurn'
    BY <1>4, <1>7, <1>11, <1>12, QueueGrows DEF PairingInvariant, PairTypes
  <1> QED
    BY <1>9, <1>10, <1>13, SteadyStep DEF PairingInvariant

LEMMA ExtensionStoredStep ==
  ASSUME PairingInvariant, ExtensionStored
  PROVE  PairingInvariant'
  <1>1. PICK first : first = Head(calls)
    OBVIOUS
  <1>2. /\ QueueStep(1, <<>>) /\ Len(calls) >= 1
        /\ first \in SecretCalls /\ first.op = "storeExtension" /\ CallFits(first)
        /\ \A i \in 2..Len(calls) : \A call \in SecretCalls :
             call = calls[i] => CallFits(call) /\ InTurn(first, call)
    BY <1>1, HeadFits DEF ExtensionStored
  <1>3. /\ first.by \in Conns /\ first.code \in Codes
        /\ readyState[first.by] # "none" /\ holder[first.code] = None /\ first.code <= codes
        /\ (pairing # None => pairing.code # first.code)
    BY <1>2 DEF SecretCalls, HandlerOps, SpendingOps, CallFits
  <1>4. /\ UNCHANGED <<server, pairing, codes, revokedCodes>>
        /\ UNCHANGED connVars
        /\ secrets' = Applied(secrets, first) /\ pairedExtensionId' = origin[first.by]
        /\ holder' = IF IsOpen(first.by) THEN [holder EXCEPT ![first.code] = origin[first.by]]
                     ELSE holder
    BY <1>1 DEF ExtensionStored
  <1>5. /\ secrets' \in Secrets
        /\ secrets'.hash # None => secrets'.hash > revokedCodes
    <2>1. PICK s \in Secrets : s = secrets
      BY DEF PairingInvariant, PairTypes
    <2>2. PICK r \in Nat : r = revokedCodes
      BY DEF PairingInvariant, PairTypes
    <2>3. (s.hash # None => s.hash > r) /\ (first.op = "storeHash" => first.code > r)
      BY <1>2, <2>1, <2>2 DEF PairingInvariant, CodesFresh
    <2> QED
      BY <1>2, <1>4, <2>1, <2>2, <2>3, AppliedIsSecrets DEF PairingInvariant
  <1>6. origin[first.by] \in Maybe(Extensions)
    BY <1>3 DEF PairingInvariant, PairTypes
  <1>7. /\ holder' \in [Codes -> Maybe(Extensions)]
        /\ \A n \in Codes : n # first.code => holder'[n] = holder[n]
    BY <1>3, <1>4, <1>6 DEF PairingInvariant, PairTypes
  <1>8. PairTypes'
    BY <1>2, <1>4, <1>5, <1>6, <1>7
    DEF PairingInvariant, PairTypes, QueueStep, connVars
  <1>9. Connected'
    <2>1. ASSUME authenticated # None
          PROVE  /\ token[authenticated] # 0
                 /\ holder'[token[authenticated]] = origin[authenticated]
                 /\ token[authenticated] > revokedCodes
      <3>1. authenticated \in Conns /\ token[authenticated] \in 0..MaxCodes
        BY <2>1 DEF PairingInvariant, PairTypes, Maybe
      <3>2. /\ token[authenticated] # 0 /\ readyState[authenticated] # "none"
            /\ holder[token[authenticated]] = origin[authenticated]
            /\ token[authenticated] > revokedCodes
        BY <2>1, <3>1 DEF PairingInvariant, Connected
      <3>3. holder[token[authenticated]] # None /\ token[authenticated] \in Codes
        BY <3>1, <3>2, BridgeAssumption DEF PairingInvariant, Connected, Codes
      <3> QED
        BY <1>3, <1>7, <3>2, <3>3
    <2> QED
      BY <1>4, <2>1 DEF Connected, connVars, PairingInvariant
  <1>10. CodesFresh'
    <2>1. pairing # None => pairing.code \in Codes
      BY DEF PairingInvariant, PairTypes, Maybe
    <2>2. pairing # None => holder'[pairing.code] = None
      BY <1>3, <1>7, <2>1 DEF PairingInvariant, CodesFresh
    <2>3. \A n \in Codes : holder'[n] # None => n <= codes
      BY <1>3, <1>7 DEF PairingInvariant, CodesFresh
    <2> QED
      BY <1>4, <1>5, <2>2, <2>3 DEF CodesFresh, PairingInvariant
  <1>11. ASSUME NEW i \in (1 + 1)..Len(calls), NEW call \in SecretCalls, call = calls[i]
         PROVE  CallFits(call)'
    <2>1. CallFits(call) /\ InTurn(first, call)
      BY <1>2, <1>11
    <2>2. /\ call.op \in HandlerOps => call.by \in Conns
          /\ call.op \in SpendingOps => call.code \in Codes
          /\ call.code # 0 => call.code \in Codes
      BY DEF SecretCalls, Codes
    <2>3. ASSUME call.op = "read", call.code # 0 PROVE holder'[call.code] = origin[call.by]
      <3>1. /\ call.by \in Conns /\ call.code \in Codes /\ readyState[call.by] # "none"
            /\ holder[call.code] = origin[call.by]
        BY <2>1, <2>2, <2>3 DEF CallFits, HandlerOps
      <3>2. holder[call.code] # None
        BY <3>1, BridgeAssumption DEF PairingInvariant, Connected
      <3> QED
        BY <1>3, <1>7, <3>1, <3>2
    <2>4. ASSUME call.op \in SpendingOps PROVE holder'[call.code] = None
      <3>1. call.code \in Codes /\ holder[call.code] = None /\ call.code # first.code
        BY <1>2, <2>1, <2>2, <2>4 DEF CallFits, InTurn, HandlerOps, SpendingOps
      <3> QED
        BY <1>7, <3>1
    <2> QED
      BY <1>4, <2>1, <2>3, <2>4 DEF CallFits, connVars
  <1>12. CallsFit' /\ CallsInTurn'
    BY <1>2, <1>11, QueueShortens DEF PairingInvariant, PairTypes
  <1> QED
    BY <1>8, <1>9, <1>10, <1>12 DEF PairingInvariant

LEMMA AuthenticateAcceptedStep ==
  ASSUME PairingInvariant, AuthenticateAccepted
  PROVE  PairingInvariant'
  <1>1. PICK first : first = Head(calls)
    OBVIOUS
  <1>2. /\ QueueStep(1, <<>>) /\ Len(calls) >= 1
        /\ first \in SecretCalls /\ first.op = "read" /\ CallFits(first)
        /\ \A i \in 2..Len(calls) : \A call \in SecretCalls :
             call = calls[i] => CallFits(call) /\ InTurn(first, call)
    BY <1>1, HeadFits DEF AuthenticateAccepted
  <1>3. PICK c \in Conns : c = first.by
    BY <1>2 DEF SecretCalls, HandlerOps
  <1>4. PICK n \in Codes : n = first.code
    <2>1. first.code \in 0..MaxCodes
      BY <1>2 DEF SecretCalls
    <2>2. secrets.hash = first.code /\ secrets.hash \in Maybe(Codes)
      BY <1>1 DEF AuthenticateAccepted, TokenAccepted, PairingInvariant, PairTypes, Secrets
    <2>3. None \notin 0..MaxCodes
      BY BridgeAssumption
    <2> QED
      BY <2>1, <2>2, <2>3 DEF Maybe
  <1>5. /\ readyState[c] # "none" /\ holder[n] = origin[c]
        /\ secrets.hash = n /\ n \in Nat /\ n # 0 /\ n > revokedCodes
    <2>1. n \in Nat /\ n # 0 /\ n # None
      BY BridgeAssumption DEF Codes
    <2>2. secrets.hash = n
      BY <1>1, <1>4 DEF AuthenticateAccepted, TokenAccepted
    <2> QED
      BY <1>2, <1>3, <1>4, <2>1, <2>2 DEF CallFits, HandlerOps, PairingInvariant, CodesFresh
  <1>6. /\ UNCHANGED <<server, pairing, pairedExtensionId, secrets, codes, holder,
                       revokedCodes, origin>>
        /\ authenticated' = c /\ token' = [token EXCEPT ![c] = n]
    BY <1>1, <1>3, <1>4 DEF AuthenticateAccepted
  <1>7. PICK cs : cs = CloseAuthenticated \ {c}
    OBVIOUS
  <1>8. /\ readyState' \in [Conns -> {"none", "open", "closing", "ended", "closed"}]
        /\ OnlyClose
        /\ \A d \in Conns : d \in cs => readyState'[d] # "open"
    <2>1. Closing(cs)
      BY <1>1, <1>3, <1>7 DEF AuthenticateAccepted
    <2> QED
      BY <2>1, ClosingStep DEF PairingInvariant
  <1>9. handshakeTimeout' \in [Conns -> BOOLEAN]
    <2>1. Disarm({c})
      BY <1>1, <1>3 DEF AuthenticateAccepted
    <2> QED
      BY <2>1, DisarmStep DEF PairingInvariant
  <1>10. /\ token' \in [Conns -> 0..MaxCodes] /\ token'[c] = n
         /\ \A d \in Conns : d # c => token'[d] = token[d]
    <2>1. n \in 0..MaxCodes
      BY DEF Codes
    <2> QED
      BY <1>6, <2>1 DEF PairingInvariant, PairTypes
  <1>11. PairTypes'
    BY <1>2, <1>6, <1>8, <1>9, <1>10 DEF PairingInvariant, PairTypes, QueueStep, Maybe
  <1>12. Connected'
    <2>1. ASSUME NEW d \in Conns
          PROVE  /\ readyState'[d] # "none" => origin'[d] \in Extensions
                 /\ token'[d] # 0 => readyState'[d] # "none"
                 /\ token'[d] # 0 /\ readyState'[d] = "open" => authenticated' = d
      <3>1. CASE d = c
        BY <1>5, <1>6, <1>8, <1>10, <3>1 DEF OnlyClose, PairingInvariant, Connected
      <3>2. CASE d # c
        <4>1. authenticated = d => d \in cs
          BY <1>7, <3>2, BridgeAssumption DEF CloseAuthenticated
        <4>2. token'[d] = token[d] /\ origin'[d] = origin[d]
          BY <1>6, <1>10, <3>2
        <4>3. /\ readyState'[d] = "none" <=> readyState[d] = "none"
              /\ readyState'[d] = "open" => readyState[d] = "open"
          BY <1>8 DEF OnlyClose
        <4>4. /\ readyState[d] # "none" => origin[d] \in Extensions
              /\ token[d] # 0 => readyState[d] # "none"
              /\ token[d] # 0 /\ readyState[d] = "open" => authenticated = d
          BY DEF PairingInvariant, Connected
        <4> QED
          BY <1>8, <4>1, <4>2, <4>3, <4>4
      <3> QED
        BY <3>1, <3>2
    <2>2. /\ token'[authenticated'] # 0
          /\ holder'[token'[authenticated']] = origin'[authenticated']
          /\ token'[authenticated'] > revokedCodes'
      BY <1>5, <1>6, <1>10
    <2> QED
      BY <2>1, <2>2 DEF Connected
  <1>13. CodesFresh'
    BY <1>6 DEF PairingInvariant, CodesFresh
  <1>14. ASSUME NEW i \in (1 + 1)..Len(calls), NEW call \in SecretCalls, call = calls[i]
         PROVE  CallFits(call)'
    <2>1. CallFits(call)
      BY <1>2, <1>14
    <2>2. call.op \in HandlerOps => call.by \in Conns /\ readyState[call.by] # "none"
      BY <2>1 DEF SecretCalls, CallFits
    <2>3. call.op \in HandlerOps => readyState'[call.by] # "none"
      BY <1>8, <2>2 DEF OnlyClose
    <2> QED
      BY <1>6, <2>1, <2>3 DEF CallFits
  <1>15. CallsFit' /\ CallsInTurn'
    BY <1>2, <1>14, QueueShortens DEF PairingInvariant, PairTypes
  <1> QED
    BY <1>11, <1>12, <1>13, <1>15 DEF PairingInvariant

LEMMA RevokeResumesStep ==
  ASSUME PairingInvariant, RevokeResumes
  PROVE  PairingInvariant'
  <1>1. PICK first : first = Head(calls)
    OBVIOUS
  <1>2. /\ QueueStep(1, <<>>) /\ Len(calls) >= 1
        /\ first \in SecretCalls /\ first.op = "delete" /\ CallFits(first)
        /\ \A i \in 2..Len(calls) : \A call \in SecretCalls :
             call = calls[i] => CallFits(call) /\ InTurn(first, call)
    BY <1>1, HeadFits DEF RevokeResumes
  <1>3. /\ secrets' = NoSecrets /\ revokedCodes' = first.code /\ authenticated' = None
        /\ pairedExtensionId' = None
        /\ UNCHANGED <<server, pairing, codes, holder, origin, token>>
    BY <1>1, <1>2 DEF RevokeResumes, Applied
  <1>4. /\ first.code \in 0..MaxCodes /\ first.code <= codes /\ first.code >= revokedCodes
        /\ (pairing # None => pairing.code > first.code)
    BY <1>2 DEF CallFits, SecretCalls
  <1>5. PICK cs : cs = CloseAuthenticated \union {c \in Conns : ~IsAuthenticated(c) /\ IsOpen(c)}
    OBVIOUS
  <1>6. /\ readyState' \in [Conns -> {"none", "open", "closing", "ended", "closed"}]
        /\ OnlyClose
        /\ \A d \in Conns : d \in cs => readyState'[d] # "open"
    BY <1>5, ClosingStep DEF RevokeResumes, PairingInvariant
  <1>7. handshakeTimeout' \in [Conns -> BOOLEAN]
    <2>1. PICK ds : ds = {c \in cs : ~IsAuthenticated(c)}
      OBVIOUS
    <2>2. Disarm(ds)
      BY <1>5, <2>1 DEF RevokeResumes
    <2> QED
      BY <2>2, DisarmStep DEF PairingInvariant
  <1>8. PairTypes'
    <2>1. NoSecrets \in Secrets
      BY DEF NoSecrets, Secrets, Maybe
    <2> QED
      BY <1>2, <1>3, <1>4, <1>6, <1>7, <2>1
      DEF PairingInvariant, PairTypes, QueueStep, Maybe
  <1>9. Connected'
    <2>1. ASSUME NEW d \in Conns
          PROVE  /\ readyState'[d] # "none" => origin'[d] \in Extensions
                 /\ token'[d] # 0 => readyState'[d] # "none"
                 /\ token'[d] # 0 /\ readyState'[d] = "open" => authenticated' = d
      <3>1. authenticated = d => d \in cs
        BY <1>5, BridgeAssumption DEF CloseAuthenticated
      <3>2. /\ readyState'[d] = "none" <=> readyState[d] = "none"
            /\ readyState'[d] = "open" => readyState[d] = "open"
        BY <1>6 DEF OnlyClose
      <3>3. /\ readyState[d] # "none" => origin[d] \in Extensions
            /\ token[d] # 0 => readyState[d] # "none"
            /\ token[d] # 0 /\ readyState[d] = "open" => authenticated = d
        BY DEF PairingInvariant, Connected
      <3> QED
        BY <1>3, <1>6, <3>1, <3>2, <3>3
    <2> QED
      BY <1>3, <2>1 DEF Connected
  <1>10. CodesFresh'
    BY <1>3, <1>4 DEF PairingInvariant, PairTypes, CodesFresh, NoSecrets
  <1>11. ASSUME NEW i \in (1 + 1)..Len(calls), NEW call \in SecretCalls, call = calls[i]
         PROVE  CallFits(call)'
    <2>1. CallFits(call) /\ InTurn(first, call)
      BY <1>2, <1>11
    <2>2. call.op \in HandlerOps => call.by \in Conns /\ readyState[call.by] # "none"
      BY <2>1 DEF SecretCalls, CallFits
    <2>3. call.op \in HandlerOps => readyState'[call.by] # "none"
      BY <1>6, <2>2 DEF OnlyClose
    <2>4. /\ call.op = "storeHash" => call.code > first.code
          /\ call.op = "delete" => call.code >= first.code
      BY <1>2, <1>4, <2>1 DEF InTurn, SecretCalls
    <2> QED
      BY <1>3, <2>1, <2>3, <2>4 DEF CallFits
  <1>12. CallsFit' /\ CallsInTurn'
    BY <1>2, <1>11, QueueShortens DEF PairingInvariant, PairTypes
  <1> QED
    BY <1>8, <1>9, <1>10, <1>12 DEF PairingInvariant

----------------------------------------------------------------------------
(* The reload of the window, and the invariant as a whole                  *)

LEMMA WindowReloadsStep ==
  ASSUME PairingInvariant, WindowReloads
  PROVE  PairingInvariant'
  <1>1. PICK r \in Nat : r = revokedCodes
    BY DEF PairingInvariant, PairTypes
  <1>2. PICK V : V = {s \in Secrets : s.hash # None => s.hash > r}
    OBVIOUS
  <1>3. \A n \in 0..Len(calls) : StoredAfter[n] \in V
    <2>1. secrets \in V
      BY <1>1, <1>2 DEF PairingInvariant, PairTypes, CodesFresh
    <2>2. calls \in Seq(SecretCalls)
      BY DEF PairingInvariant, PairTypes
    <2>3. ASSUME NEW i \in 1..Len(calls), NEW s \in V PROVE Applied(s, calls[i]) \in V
      <3>1. PICK call \in SecretCalls : call = calls[i]
        BY <2>2
      <3>2. call.op = "storeHash" => call.code > r
        BY <1>1, <3>1, Fits DEF CallFits
      <3>3. s \in Secrets /\ (s.hash # None => s.hash > r)
        BY <1>2
      <3>4. /\ Applied(s, call) \in Secrets
            /\ Applied(s, call).hash # None => Applied(s, call).hash > r
        BY <3>2, <3>3, AppliedIsSecrets DEF PairingInvariant
      <3> QED
        BY <1>2, <3>1, <3>4
    <2> QED
      BY <2>1, <2>2, <2>3, StoredAfterIn
  <1>4. secrets' \in Secrets /\ (secrets'.hash # None => secrets'.hash > revokedCodes)
    <2>1. secrets' \in V
      BY <1>3 DEF WindowReloads
    <2> QED
      BY <1>1, <1>2, <2>1
  <1>5. /\ server' = "stopped" /\ pairing' = None /\ authenticated' = None
        /\ pairedExtensionId' = None /\ calls' = <<>>
        /\ UNCHANGED <<codes, holder, revokedCodes, origin, token>>
    BY DEF WindowReloads
  <1>6. /\ readyState' \in [Conns -> {"none", "open", "closing", "ended", "closed"}]
        /\ OnlyClose
        /\ \A c \in Conns : readyState'[c] # "open"
    BY DEF WindowReloads, PairingInvariant, PairTypes, OnlyClose
  <1>7. handshakeTimeout' \in [Conns -> BOOLEAN]
    BY DisarmStep DEF WindowReloads, PairingInvariant
  <1>8. Steady
    <2>1. authenticated # None => readyState'[authenticated] # "open"
      BY <1>6 DEF PairingInvariant, PairTypes, Maybe
    <2> QED
      BY <1>4, <1>5, <1>6, <2>1 DEF Steady
  <1>9. PairTypes'
    BY <1>4, <1>5, <1>6, <1>7, EmptySeq DEF PairingInvariant, PairTypes, Maybe
  <1>10. CallsFit' /\ CallsInTurn'
    <2>1. 1..Len(calls') = {}
      BY <1>5
    <2> QED
      BY <2>1 DEF CallsFit, CallsInTurn
  <1> QED
    BY <1>8, <1>9, <1>10, SteadyStep DEF PairingInvariant

LEMMA PairingInit ==
  ASSUME Init
  PROVE  PairingInvariant
  <1>1. PairTypes
    BY BridgeAssumption, EmptySeq DEF Init, PairTypes, NoSecrets, Secrets, Maybe
  <1>2. Connected /\ CodesFresh
    BY BridgeAssumption DEF Init, Connected, CodesFresh, NoSecrets
  <1>3. 1..Len(calls) = {}
    BY DEF Init
  <1> QED
    BY <1>1, <1>2, <1>3 DEF PairingInvariant, CallsFit, CallsInTurn

LEMMA PairingNext ==
  ASSUME PairingInvariant, [Next]_vars
  PROVE  PairingInvariant'
  <1>0. server \in {"stopped", "binding", "listening"}
    BY DEF PairingInvariant, PairTypes
  <1>1. CASE UserActs
    <2>1. CASE \E d \in Deliveries, e \in Envelopes : SendEnvelope(d, e)
      BY <1>0, <2>1, PairingUntouched DEF SendEnvelope
    <2> QED
      BY <1>1, <2>1, BeginPairingStep, RevokeStep, StatusStep, DisposeStep, WindowReloadsStep
      DEF UserActs
  <1>2. CASE SecretsResume
    BY <1>2, HashStoredStep, ExtensionStoredStep, StoreFailsStep, AuthenticateAcceptedStep,
       AuthenticateRejectedStep, RevokeResumesStep, RevokeFailsStep, StatusResumesStep
    DEF SecretsResume
  <1>3. CASE Listening
    BY <1>3, ListeningStep
  <1>4. CASE BindFails
    BY <1>4, PairingUntouched DEF BindFails
  <1>5. CASE PairingExpires
    BY <1>5, PairingExpiresStep
  <1>6. CASE AcknowledgementTimesOut
    BY <1>0, <1>6, PairingUntouched DEF AcknowledgementTimesOut
  <1>7. ASSUME NEW c \in Conns, BrowserActs(c) PROVE PairingInvariant'
    <2>1. CASE \E ext \in Extensions : Connect(c, ext)
      BY <2>1, ConnectStep
    <2>2. CASE PeerCloses(c) \/ MalformedFrame(c) \/ UnacceptableMessage(c)
      BY <2>2, PeerClosesStep, RejectConnectionSteps, UnacceptableMessageStep
    <2>3. CASE PairRequest(c)
      BY <2>3, PairRequestStep
    <2>4. CASE \E n \in 0..MaxCodes : Authenticate(c, n)
      BY <2>4, AuthenticateStep
    <2>5. CASE \E d \in Deliveries : Acknowledge(c, d) \/ AcknowledgeOther(c, d)
      BY <1>0, <2>5, PairingUntouched DEF Acknowledge, AcknowledgeOther
    <2>6. CASE \E request \in Requests :
                 ReviewRequest(c, request) \/ \E v \in Verdicts : ReviewDecision(c, request, v)
      BY <1>0, <2>6, PairingUntouched DEF ReviewRequest, ReviewDecision
    <2> QED
      BY <1>7, <2>1, <2>2, <2>3, <2>4, <2>5, <2>6 DEF BrowserActs
  <1>8. ASSUME NEW c \in Conns, HandshakeTimesOut(c) \/ CloseEvent(c) PROVE PairingInvariant'
    BY <1>8, RejectConnectionSteps, CloseEventStep
  <1>9. CASE UNCHANGED vars
    BY <1>0, <1>9, PairingUntouched DEF vars
  <1> QED
    BY <1>1, <1>2, <1>3, <1>4, <1>5, <1>6, <1>7, <1>8, <1>9 DEF Next

\* The pairing of browsers keeps its books whatever the user, the browsers and
\* the SecretStorage do, however many handlers are suspended at once.
THEOREM PairingInvariantHolds == Spec => []PairingInvariant
  <1>1. Init => PairingInvariant
    BY PairingInit
  <1>2. PairingInvariant /\ [Next]_vars => PairingInvariant'
    BY PairingNext
  <1> QED
    BY <1>1, <1>2, PTL DEF Spec

\* RevokedBrowserStaysOut: the handlers of messages that arrived before
\* revoke() was called authenticate nobody once it has resolved.
THEOREM RevokedStaysOut == Spec => []RevokedBrowserStaysOut
  <1>1. PairingInvariant => RevokedBrowserStaysOut
    BY DEF PairingInvariant, Connected, RevokedBrowserStaysOut
  <1> QED
    BY <1>1, PairingInvariantHolds, PTL

\* OneBrowser: handleAuthenticate may run for several connections at once, and
\* still leaves one open that is authenticated.
THEOREM OneBrowserAtATime == Spec => []OneBrowser
  <1>1. PairingInvariant => OneBrowser
    BY DEF PairingInvariant, Connected, OneBrowser, IsAuthenticated, IsOpen
  <1> QED
    BY <1>1, PairingInvariantHolds, PTL

\* CodeSpentOnce: handlePair spends the code before it is suspended for the
\* first time, so no second handler finds it.
THEOREM CodePairsOnce == Spec => []CodeSpentOnce
  <1>1. PairingInvariant => CodeSpentOnce
    <2> SUFFICES ASSUME PairingInvariant PROVE CodeSpentOnce
      OBVIOUS
    <2> DEFINE spending(n) == {i \in DOMAIN calls :
                                 calls[i].op \in {"storeHash", "storeExtension"} /\ calls[i].code = n}
    <2>1. DOMAIN calls = 1..Len(calls) /\ Len(calls) \in Nat
          /\ \A i \in 1..Len(calls) : calls[i] \in SecretCalls
      BY DEF PairingInvariant, PairTypes
    <2>2. ASSUME NEW n \in Codes PROVE Cardinality(spending(n)) <= 1
      <3>1. ASSUME NEW i \in spending(n), NEW j \in spending(n) PROVE i = j
        <4>1. i < j => InTurn(calls[i], calls[j])
          BY <2>1 DEF PairingInvariant, CallsInTurn
        <4>2. j < i => InTurn(calls[j], calls[i])
          BY <2>1 DEF PairingInvariant, CallsInTurn
        <4>3. calls[i].op \in SpendingOps /\ calls[j].op \in SpendingOps /\ calls[i].code = calls[j].code
          BY DEF SpendingOps
        <4>4. i \in Int /\ j \in Int
          BY <2>1
        <4> QED
          BY <4>1, <4>2, <4>3, <4>4 DEF InTurn
      <3> HIDE DEF spending
      <3>2. CASE spending(n) = {}
        BY <3>2, FS_EmptySet
      <3>3. CASE spending(n) # {}
        <4>1. PICK i : spending(n) = {i}
          BY <3>1, <3>3
        <4>2. Cardinality({i}) = 1
          BY FS_Singleton
        <4> QED
          BY <4>1, <4>2
      <3> QED
        BY <3>2, <3>3
    <2>3. ASSUME NEW n \in Codes, spending(n) # {}
          PROVE  holder[n] = None /\ (pairing = None \/ pairing.code # n)
      <3>1. PICK i \in 1..Len(calls) : calls[i].op \in SpendingOps /\ calls[i].code = n
        BY <2>1, <2>3 DEF SpendingOps
      <3>2. CallFits(calls[i])
        BY DEF PairingInvariant, CallsFit
      <3> QED
        BY <3>1, <3>2 DEF CallFits
    <2>4. ASSUME NEW n \in Codes, holder[n] # None PROVE pairing = None \/ pairing.code # n
      BY <2>4 DEF PairingInvariant, CodesFresh
    <2> QED
      BY <2>2, <2>3, <2>4 DEF CodeSpentOnce
  <1> QED
    BY <1>1, PairingInvariantHolds, PTL

----------------------------------------------------------------------------
(* The invariant of review deliveries                                      *)

ReviewTypes ==
  /\ pendingDelivery \in Maybe(Deliveries) /\ latestAcknowledgedDelivery \in Maybe(Deliveries)
  /\ latestReviewRequest \in Maybe(Requests)
  /\ latestReviewDecision \in Maybe([request : Requests, verdict : Verdicts])
  /\ delivery \in [Deliveries -> [envelope : Maybe(Envelopes),
                                  promise : {"none", "pending", "acknowledged", "rejected"}]]

\* Deliveries are sent in the order of their numbers.
SentInOrder == \A d, e \in Deliveries : Sent(e) /\ d < e => Sent(d)

NoneSentAfter(d) == \A e \in Deliveries : d < e => ~Sent(e)

\* While the bridge waits for an acknowledgement there is no review to show,
\* and the one that is shown belongs to the delivery sent last.
LatestDelivery ==
  /\ pendingDelivery # None =>
       /\ latestAcknowledgedDelivery = None
       /\ latestReviewRequest = None /\ latestReviewDecision = None
       /\ NoneSentAfter(pendingDelivery)
  /\ latestAcknowledgedDelivery # None => NoneSentAfter(latestAcknowledgedDelivery)

\* The request is about the envelope that was acknowledged, the decision about
\* the request.
ReviewMatches ==
  /\ latestReviewDecision # None => latestReviewDecision.request = latestReviewRequest
  /\ latestReviewRequest # None =>
       /\ latestAcknowledgedDelivery # None
       /\ latestReviewRequest.envelope = delivery[latestAcknowledgedDelivery].envelope

ReviewInvariant ==
  ReviewTypes /\ SentInOrder /\ LatestDelivery /\ ReviewMatches /\ DeliveryTracked

\* What a step may do to a decision.
DecisionStays ==
  latestReviewDecision # None /\ latestReviewDecision' # latestReviewDecision
    => /\ latestReviewDecision' = None
       /\ latestReviewRequest' = None
       /\ latestAcknowledgedDelivery' = None

LEMMA ReviewInit ==
  ASSUME Init
  PROVE  ReviewInvariant
  <1>1. ReviewTypes
    BY DEF Init, ReviewTypes, Maybe
  <1>2. \A d \in Deliveries : ~Sent(d) /\ delivery[d].promise = "none" /\ pendingDelivery # d
    BY BridgeAssumption DEF Init, Sent
  <1>3. DeliveryTracked
    BY <1>2 DEF Init, DeliveryTracked
  <1> QED
    BY <1>1, <1>2, <1>3
    DEF Init, ReviewInvariant, SentInOrder, LatestDelivery, ReviewMatches

LEMMA ReviewUntouched ==
  ASSUME ReviewInvariant, UNCHANGED reviewVars
  PROVE  ReviewInvariant' /\ DecisionStays
  BY DEF ReviewInvariant, ReviewTypes, SentInOrder, LatestDelivery, ReviewMatches,
         DeliveryTracked, Sent, NoneSentAfter, reviewVars, DecisionStays

\* The promise of one delivery is settled.
LEMMA PromiseSettled ==
  ASSUME ReviewTypes, NEW d \in Deliveries, NEW p \in {"acknowledged", "rejected"},
         delivery[d].promise # "none",
         delivery' = [delivery EXCEPT ![d].promise = p]
  PROVE  /\ delivery' \in [Deliveries -> [envelope : Maybe(Envelopes),
                                          promise : {"none", "pending", "acknowledged", "rejected"}]]
         /\ delivery'[d].promise = p
         /\ \A e \in Deliveries : /\ delivery'[e].envelope = delivery[e].envelope
                                  /\ e # d => delivery'[e].promise = delivery[e].promise
                                  /\ Sent(e)' <=> Sent(e)
  <1>1. delivery[d] \in [envelope : Maybe(Envelopes),
                         promise : {"none", "pending", "acknowledged", "rejected"}]
    BY DEF ReviewTypes
  <1>2. delivery' = [delivery EXCEPT ![d] = [delivery[d] EXCEPT !.promise = p]]
    OBVIOUS
  <1>3. PICK settled : settled = [delivery[d] EXCEPT !.promise = p]
    OBVIOUS
  <1>4. /\ settled \in [envelope : Maybe(Envelopes),
                        promise : {"none", "pending", "acknowledged", "rejected"}]
        /\ settled.promise = p /\ settled.envelope = delivery[d].envelope
    BY <1>1, <1>3
  <1>5. delivery'[d] = settled /\ \A e \in Deliveries : e # d => delivery'[e] = delivery[e]
    BY <1>2, <1>3 DEF ReviewTypes
  <1>6. delivery' \in [Deliveries -> [envelope : Maybe(Envelopes),
                                      promise : {"none", "pending", "acknowledged", "rejected"}]]
    BY <1>2, <1>3, <1>4 DEF ReviewTypes
  <1> QED
    BY <1>4, <1>5, <1>6 DEF Sent

LEMMA RejectPendingStep ==
  ASSUME ReviewInvariant, RejectPending
  PROVE  ReviewInvariant' /\ DecisionStays
  <1>1. CASE pendingDelivery = None
    <2>1. UNCHANGED reviewVars
      BY <1>1 DEF RejectPending, reviewVars
    <2> QED
      BY <2>1, ReviewUntouched
  <1>2. CASE pendingDelivery # None
    <2>1. PICK p \in Deliveries : p = pendingDelivery
      BY <1>2 DEF ReviewInvariant, ReviewTypes, Maybe
    <2>2. delivery[p].promise = "pending"
      BY <2>1 DEF ReviewInvariant, DeliveryTracked
    <2>3. /\ pendingDelivery' = None
          /\ latestAcknowledgedDelivery' = None /\ latestReviewRequest' = None
          /\ latestReviewDecision' = None /\ latestReviewDecision = None
          /\ delivery' = [delivery EXCEPT ![p].promise = "rejected"]
      BY <1>2, <2>1 DEF RejectPending, ReviewInvariant, LatestDelivery
    <2>4. /\ delivery' \in [Deliveries -> [envelope : Maybe(Envelopes),
                                           promise : {"none", "pending", "acknowledged", "rejected"}]]
          /\ delivery'[p].promise = "rejected"
          /\ \A e \in Deliveries : /\ e # p => delivery'[e].promise = delivery[e].promise
                                   /\ Sent(e)' <=> Sent(e)
      BY <2>2, <2>3, PromiseSettled DEF ReviewInvariant
    <2>5. ReviewTypes'
      BY <2>3, <2>4 DEF ReviewTypes, Maybe
    <2>6. SentInOrder'
      BY <2>4 DEF SentInOrder, ReviewInvariant
    <2>7. LatestDelivery' /\ ReviewMatches' /\ DecisionStays
      BY <2>3 DEF LatestDelivery, ReviewMatches, DecisionStays
    <2>8. DeliveryTracked'
      <3>1. \A d \in Deliveries : delivery'[d].promise # "pending" /\ pendingDelivery' # d
        BY <2>1, <2>3, <2>4, BridgeAssumption DEF ReviewInvariant, DeliveryTracked
      <3> QED
        BY <2>3, <3>1 DEF DeliveryTracked
    <2> QED
      BY <2>5, <2>6, <2>7, <2>8 DEF ReviewInvariant
  <1> QED
    BY <1>1, <1>2

LEMMA ReviewWindowReloads ==
  ASSUME ReviewInvariant, WindowReloads
  PROVE  ReviewInvariant' /\ DecisionStays
  <1>1. /\ pendingDelivery' = None /\ latestAcknowledgedDelivery' = None
        /\ latestReviewRequest' = None /\ latestReviewDecision' = None
        /\ delivery' = [d \in Deliveries |->
                         IF d = pendingDelivery THEN [delivery[d] EXCEPT !.promise = "rejected"]
                         ELSE delivery[d]]
    BY DEF WindowReloads, ForgetReview
  <1>2. ASSUME NEW d \in Deliveries
        PROVE  /\ delivery'[d] \in [envelope : Maybe(Envelopes),
                                    promise : {"none", "pending", "acknowledged", "rejected"}]
               /\ delivery'[d].promise # "pending"
               /\ Sent(d)' <=> Sent(d)
    <2>1. delivery[d] \in [envelope : Maybe(Envelopes),
                           promise : {"none", "pending", "acknowledged", "rejected"}]
      BY DEF ReviewInvariant, ReviewTypes
    <2>2. delivery[d].promise = "pending" <=> pendingDelivery = d
      BY DEF ReviewInvariant, DeliveryTracked
    <2> QED
      BY <1>1, <2>1, <2>2 DEF Sent
  <1>3. ReviewTypes'
    BY <1>1, <1>2 DEF ReviewTypes, Maybe
  <1>4. SentInOrder'
    BY <1>2 DEF SentInOrder, ReviewInvariant
  <1>5. LatestDelivery' /\ ReviewMatches' /\ DecisionStays
    BY <1>1 DEF LatestDelivery, ReviewMatches, DecisionStays
  <1>6. DeliveryTracked'
    BY <1>1, <1>2, BridgeAssumption DEF DeliveryTracked
  <1> QED
    BY <1>3, <1>4, <1>5, <1>6 DEF ReviewInvariant

LEMMA SendEnvelopeStep ==
  ASSUME ReviewInvariant, NEW d \in Deliveries, NEW e \in Envelopes, SendEnvelope(d, e)
  PROVE  ReviewInvariant' /\ DecisionStays
  <1>1. /\ pendingDelivery = None /\ pendingDelivery' = d /\ d # None
        /\ latestAcknowledgedDelivery' = None
        /\ latestReviewRequest' = None /\ latestReviewDecision' = None
        /\ delivery' = [delivery EXCEPT ![d] = [envelope |-> e, promise |-> "pending"]]
        /\ ~Sent(d) /\ \A p \in 1..(d - 1) : Sent(p)
    BY BridgeAssumption DEF SendEnvelope, ForgetReview, OneAtATime
  <1>2. /\ delivery' \in [Deliveries -> [envelope : Maybe(Envelopes),
                                         promise : {"none", "pending", "acknowledged", "rejected"}]]
        /\ delivery'[d].promise = "pending" /\ Sent(d)'
        /\ \A p \in Deliveries : p # d => delivery'[p] = delivery[p] /\ (Sent(p)' <=> Sent(p))
    BY <1>1 DEF ReviewInvariant, ReviewTypes, Maybe, Sent
  <1>3. ReviewTypes'
    BY <1>1, <1>2 DEF ReviewTypes, Maybe
  <1>4. \A p \in Deliveries : /\ p < d => Sent(p)
                              /\ d < p => ~Sent(p)
    BY <1>1, BridgeAssumption DEF ReviewInvariant, SentInOrder, Deliveries
  <1>5. SentInOrder'
    <2> SUFFICES ASSUME NEW p \in Deliveries, NEW q \in Deliveries, Sent(q)', p < q
                 PROVE  Sent(p)'
      BY DEF SentInOrder
    <2>1. CASE p = d
      BY <1>2, <2>1
    <2>2. CASE p # d /\ q = d
      BY <1>2, <1>4, <2>2
    <2>3. CASE p # d /\ q # d
      BY <1>2, <2>3 DEF ReviewInvariant, SentInOrder
    <2> QED
      BY <2>1, <2>2, <2>3
  <1>6. NoneSentAfter(d)'
    BY <1>2, <1>4 DEF NoneSentAfter, Deliveries
  <1>7. LatestDelivery'
    BY <1>1, <1>6 DEF LatestDelivery, NoneSentAfter
  <1>8. ReviewMatches' /\ DecisionStays
    BY <1>1 DEF ReviewMatches, DecisionStays
  <1>9. DeliveryTracked'
    BY <1>1, <1>2, BridgeAssumption DEF ReviewInvariant, DeliveryTracked
  <1> QED
    BY <1>3, <1>5, <1>7, <1>8, <1>9 DEF ReviewInvariant

LEMMA AcknowledgeStep ==
  ASSUME ReviewInvariant, NEW c \in Conns, NEW d \in Deliveries, Acknowledge(c, d)
  PROVE  ReviewInvariant' /\ DecisionStays
  <1>1. /\ pendingDelivery = d /\ pendingDelivery' = None /\ d # None
        /\ latestAcknowledgedDelivery' = d
        /\ latestReviewRequest' = None /\ latestReviewDecision' = None
        /\ latestReviewDecision = None
        /\ delivery[d].promise = "pending"
        /\ delivery' = [delivery EXCEPT ![d].promise = "acknowledged"]
        /\ NoneSentAfter(d)
    BY BridgeAssumption DEF Acknowledge, ReviewInvariant, LatestDelivery, DeliveryTracked
  <1>2. /\ delivery' \in [Deliveries -> [envelope : Maybe(Envelopes),
                                         promise : {"none", "pending", "acknowledged", "rejected"}]]
        /\ delivery'[d].promise = "acknowledged"
        /\ \A e \in Deliveries : /\ e # d => delivery'[e].promise = delivery[e].promise
                                 /\ Sent(e)' <=> Sent(e)
    BY <1>1, PromiseSettled DEF ReviewInvariant
  <1>3. ReviewTypes'
    BY <1>1, <1>2 DEF ReviewTypes, Maybe
  <1>4. SentInOrder'
    BY <1>2 DEF SentInOrder, ReviewInvariant
  <1>5. NoneSentAfter(d)'
    BY <1>1, <1>2 DEF NoneSentAfter
  <1>6. LatestDelivery' /\ ReviewMatches' /\ DecisionStays
    BY <1>1, <1>5 DEF LatestDelivery, ReviewMatches, DecisionStays, NoneSentAfter
  <1>7. DeliveryTracked'
    BY <1>1, <1>2, BridgeAssumption DEF ReviewInvariant, DeliveryTracked
  <1> QED
    BY <1>3, <1>4, <1>6, <1>7 DEF ReviewInvariant

LEMMA ReviewMessageSteps ==
  ASSUME ReviewInvariant, NEW c \in Conns, NEW request \in Requests,
         ReviewRequest(c, request) \/ \E v \in Verdicts : ReviewDecision(c, request, v)
  PROVE  ReviewInvariant' /\ DecisionStays
  <1>1. /\ latestAcknowledgedDelivery # None /\ pendingDelivery = None
        /\ delivery[latestAcknowledgedDelivery].envelope = request.envelope
        /\ latestReviewDecision = None
        /\ UNCHANGED <<pendingDelivery, latestAcknowledgedDelivery, delivery>>
    BY DEF ReviewRequest, ReviewDecision, DecisionAccepted, ReviewInvariant, LatestDelivery
  <1>2. \/ latestReviewRequest' = request /\ latestReviewDecision' = None
        \/ /\ latestReviewRequest = request /\ latestReviewRequest' = request
           /\ latestReviewDecision' \in [request : {request}, verdict : Verdicts]
    BY <1>1 DEF ReviewRequest, ReviewDecision, DecisionAccepted
  <1>3. ReviewTypes'
    BY <1>1, <1>2 DEF ReviewInvariant, ReviewTypes, Maybe
  <1>4. SentInOrder' /\ LatestDelivery' /\ DeliveryTracked'
    BY <1>1 DEF ReviewInvariant, SentInOrder, LatestDelivery, DeliveryTracked, NoneSentAfter, Sent
  <1>5. ReviewMatches' /\ DecisionStays
    BY <1>1, <1>2 DEF ReviewMatches, DecisionStays
  <1> QED
    BY <1>3, <1>4, <1>5 DEF ReviewInvariant

LEMMA ReviewNext ==
  ASSUME ReviewInvariant, [Next]_vars
  PROVE  ReviewInvariant' /\ DecisionStays
  <1>1. CASE UserActs
    <2>1. CASE BeginPairing \/ Revoke \/ Status
      BY <2>1, ReviewUntouched DEF BeginPairing, Revoke, Status
    <2>2. CASE Dispose
      BY <2>2, RejectPendingStep DEF Dispose
    <2>3. CASE WindowReloads
      BY <2>3, ReviewWindowReloads
    <2>4. CASE \E d \in Deliveries, e \in Envelopes : SendEnvelope(d, e)
      BY <2>4, SendEnvelopeStep
    <2> QED
      BY <1>1, <2>1, <2>2, <2>3, <2>4 DEF UserActs
  <1>2. CASE SecretsResume
    BY <1>2, ReviewUntouched
    DEF SecretsResume, HashStored, ExtensionStored, StoreFails, AuthenticateAccepted,
        AuthenticateRejected, RevokeResumes, RevokeFails, StatusResumes
  <1>3. CASE Listening \/ BindFails \/ PairingExpires
    BY <1>3, ReviewUntouched DEF Listening, BindFails, PairingExpires
  <1>4. CASE AcknowledgementTimesOut
    BY <1>4, RejectPendingStep DEF AcknowledgementTimesOut
  <1>5. ASSUME NEW c \in Conns, BrowserActs(c) PROVE ReviewInvariant' /\ DecisionStays
    <2>1. CASE \/ \E ext \in Extensions : Connect(c, ext)
               \/ PeerCloses(c) \/ MalformedFrame(c) \/ UnacceptableMessage(c)
               \/ PairRequest(c) \/ \E n \in 0..MaxCodes : Authenticate(c, n)
      BY <2>1, ReviewUntouched
      DEF Connect, PeerCloses, MalformedFrame, UnacceptableMessage, PairRequest, Authenticate
    <2>2. ASSUME NEW d \in Deliveries, Acknowledge(c, d) \/ AcknowledgeOther(c, d)
          PROVE  ReviewInvariant' /\ DecisionStays
      BY <2>2, AcknowledgeStep, RejectPendingStep DEF AcknowledgeOther
    <2>3. CASE \E request \in Requests :
                 ReviewRequest(c, request) \/ \E v \in Verdicts : ReviewDecision(c, request, v)
      BY <2>3, ReviewMessageSteps
    <2> QED
      BY <1>5, <2>1, <2>2, <2>3 DEF BrowserActs
  <1>6. ASSUME NEW c \in Conns, HandshakeTimesOut(c) \/ CloseEvent(c)
        PROVE  ReviewInvariant' /\ DecisionStays
    <2>1. UNCHANGED reviewVars \/ RejectPending
      BY <1>6 DEF HandshakeTimesOut, CloseEvent
    <2> QED
      BY <2>1, ReviewUntouched, RejectPendingStep
  <1>7. CASE UNCHANGED vars
    BY <1>7, ReviewUntouched DEF vars
  <1> QED
    BY <1>1, <1>2, <1>3, <1>4, <1>5, <1>6, <1>7 DEF Next

\* The deliveries and the review keep their books whatever messages, timeouts
\* and lost connections come between.
THEOREM ReviewInvariantHolds == Spec => []ReviewInvariant
  <1>1. Init => ReviewInvariant
    BY ReviewInit
  <1>2. ReviewInvariant /\ [Next]_vars => ReviewInvariant'
    BY ReviewNext
  <1> QED
    BY <1>1, <1>2, PTL DEF Spec

\* TypeOK: the bridge's state has the types of its declarations.
THEOREM TypeCorrect == Spec => []TypeOK
  <1>1. PairTypes /\ ReviewTypes => TypeOK
    <2> SUFFICES ASSUME PairTypes, ReviewTypes PROVE TypeOK
      OBVIOUS
    <2>1. PICK q \in Seq(SecretCalls) : q = calls
      BY DEF PairTypes
    <2>2. SecretCalls \subseteq [op : Ops, by : Maybe(Conns), code : 0..MaxCodes]
      BY DEF SecretCalls
    <2>3. q \in Seq([op : Ops, by : Maybe(Conns), code : 0..MaxCodes])
      <3>1. PICK T : T = [op : Ops, by : Maybe(Conns), code : 0..MaxCodes]
        OBVIOUS
      <3>2. \A i \in 1..Len(q) : q[i] \in T
        BY <2>2, <3>1
      <3>3. q \in Seq(T)
        BY <3>2
      <3> QED
        BY <3>1, <3>3
    <2>4. calls \in Seq([op : {"storeHash", "storeExtension", "read", "delete", "status"},
                         by : Maybe(Conns), code : 0..MaxCodes])
      BY <2>1, <2>3 DEF Ops
    <2>5. {pendingDelivery, latestAcknowledgedDelivery} \subseteq Maybe(Deliveries)
      BY DEF ReviewTypes
    <2> QED
      BY <2>4, <2>5 DEF TypeOK, PairTypes, ReviewTypes, Secrets
  <1>2. PairingInvariant /\ ReviewInvariant => TypeOK
    BY <1>1 DEF PairingInvariant, ReviewInvariant
  <1> QED
    BY <1>2, PairingInvariantHolds, ReviewInvariantHolds, PTL

\* DeliveryTracked: a promise of sendImplementationReviewEnvelope is pending
\* exactly while pendingDelivery is its delivery.
THEOREM DeliveriesTracked == Spec => []DeliveryTracked
  <1>1. ReviewInvariant => DeliveryTracked
    BY DEF ReviewInvariant
  <1> QED
    BY <1>1, ReviewInvariantHolds, PTL

\* ReviewBelongsToLastDelivery: the review that is shown is about the envelope
\* sent last.
THEOREM ReviewBelongs == Spec => []ReviewBelongsToLastDelivery
  <1>1. ReviewInvariant => ReviewBelongsToLastDelivery
    BY DEF ReviewInvariant, LatestDelivery, ReviewMatches, NoneSentAfter,
           ReviewBelongsToLastDelivery
  <1> QED
    BY <1>1, ReviewInvariantHolds, PTL

\* DecisionIsFinal: no message replaces a decision, and what clears it clears
\* the request and the acknowledged delivery with it.
THEOREM DecisionStaysFinal == Spec => DecisionIsFinal
  <1>1. ReviewInvariant /\ [Next]_vars
          => (latestReviewDecision # None /\ latestReviewDecision' # latestReviewDecision
                => /\ latestReviewDecision' = None
                   /\ latestReviewRequest' = None
                   /\ latestAcknowledgedDelivery' = None)
    BY ReviewNext DEF DecisionStays
  <1> QED
    BY <1>1, ReviewInvariantHolds, PTL DEF Spec, DecisionIsFinal
=============================================================================
